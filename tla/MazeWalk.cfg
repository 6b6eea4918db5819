SPECIFICATION WalkSpec
CONSTANTS
    maze_width = 4
    maze_height = 3
    INT_MAX = 99
    cell_size = 12
    size = 3
    Stride = 2
INVARIANTS
    TypeOK
    WallsAgree
    NothingLeftBehind
    PerfectMaze
    NeverLost
    DistancesAreExact
    SolutionIsTheWay
    ListIsSound
    HeroInMaze
    ExitIsAtHand
    MazeCanBeWon
PROPERTIES
    GrowsTree
    SolutionIsFound
    NoPhasing
