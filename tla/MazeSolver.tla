----------------------------- MODULE MazeSolver -----------------------------
(***************************************************************************)
(* get_solution of game/maze.c with data_structures/linked_list.c: the     *)
(* search for the way from the start to the exit of a maze that            *)
(* generate_maze made (the call that init_game keeps for debugging).  One  *)
(* action is one turn of the while loop.                                   *)
(***************************************************************************)
EXTENDS MazeGeneration

CONSTANT INT_MAX    \* the distance of a cell that was not reached

ASSUME DistancesFit == INT_MAX \in Nat /\ INT_MAX > maze_width * maze_height

VARIABLES
    dist,
    prev,       \* a cell, or NoCell for NULL
    nodes,      \* the linked list of the cells to be searched
    solution,   \* the linked list to be returned, empty before that
    current_cell    \* the cell to be pushed to it next, NoCell for NULL

solver == <<dist, prev, nodes, solution, current_cell>>
svars == <<vars, solver>>

NoCell == <<>>
Exit == <<maze_width - 1, maze_height - 1>>

INSTANCE LinkedList WITH NULL <- NoCell

\* The cells row by row, the order in which they are pushed.
RowByRow == [i \in 1 .. maze_width * maze_height |->
                <<(i - 1) % maze_width, (i - 1) \div maze_width>>]

\* The list and the marks are set up when get_solution is called; the caller
\* does so once the maze is generated, and nothing reads them before.
SolverInit ==
    /\ Init
    /\ dist = [cell \in Cell |-> IF cell = Start THEN 0 ELSE INT_MAX]
    /\ prev = [cell \in Cell |-> NoCell]
    /\ nodes = Pushed(RowByRow)
    /\ solution = Empty
    /\ current_cell = NoCell

\* Mutated forms of Ahead: the last row is not looked at; walls are not.
AheadButLast(cell) ==
    {next \in Cell : /\ linked_list_contains(nodes, next) /\ next # cell
                     /\ next[2] < maze_height - 1
                     /\ \E side \in Side \ wall[cell] : Beyond(cell, side) = next}

ThroughWalls(cell) ==
    {next \in Cell : /\ linked_list_contains(nodes, next) /\ next # cell
                     /\ \E side \in Side : Beyond(cell, side) = next}

\* The neighbours behind open sides that are still in the list.
Ahead(cell) ==
    {next \in Cell : /\ linked_list_contains(nodes, next) /\ next # cell
                     /\ \E side \in Side \ wall[cell] : Beyond(cell, side) = next}

Generated == stack = <<>>

Searching == Generated /\ solution = Empty /\ current_cell = NoCell
Returned == solution.size > 0 /\ current_cell = NoCell

\* The exit is the nearest cell left: the way to it is traced.
Found ==
    /\ Searching /\ nodes.size > 0
    /\ get_minimum_distance(nodes, dist) = Exit
    /\ current_cell' = Exit
    /\ UNCHANGED <<dist, prev, nodes, solution>>

\* Mutated form of Trace: the start, which has no prev, is not pushed.
TraceToStart ==
    /\ current_cell # NoCell
    /\ solution' = linked_list_push(solution, current_cell)
    /\ current_cell' = IF prev[current_cell] = Start THEN NoCell ELSE prev[current_cell]
    /\ UNCHANGED <<dist, prev, nodes>>

Trace ==
    /\ current_cell # NoCell
    /\ solution' = linked_list_push(solution, current_cell)
    /\ current_cell' = prev[current_cell]
    /\ UNCHANGED <<dist, prev, nodes>>

\* The nearest cell leaves the list, and its neighbours learn of the way
\* through it.
Relax ==
    /\ Searching /\ nodes.size > 0
    /\ \E current \in {get_minimum_distance(nodes, dist)} :
        /\ current # Exit
        /\ nodes' = linked_list_remove(nodes, current)
        /\ LET alt == dist[current] + 1
               better(cell) == cell \in Ahead(current) /\ alt < dist[cell]
           IN /\ dist' = [cell \in Cell |-> IF better(cell) THEN alt ELSE dist[cell]]
              /\ prev' = [cell \in Cell |-> IF better(cell) THEN current ELSE prev[cell]]
    /\ UNCHANGED <<solution, current_cell>>

SolverNext == \/ Next /\ UNCHANGED solver
              \/ (Found \/ Trace \/ Relax) /\ UNCHANGED vars

SolverSpec == SolverInit /\ [][SolverNext]_svars

-----------------------------------------------------------------------------

\* The search never runs out of cells that it has reached: otherwise
\* dist + 1 overflows at INT_MAX, or the list ends and NULL is returned to
\* draw_solution, which would follow it.
NeverLost ==
    Searching => nodes.size > 0 /\ dist[get_minimum_distance(nodes, dist)] < INT_MAX

\* The distance of a cell that left the list is final and exact: the hero
\* can walk to the cell in so many steps and not in fewer.
DistancesAreExact ==
    \A cell \in Cell :
        Searching /\ ~linked_list_contains(nodes, cell)
            => /\ cell \in Walk[dist[cell]]
               /\ dist[cell] > 0 => cell \notin Walk[dist[cell] - 1]

\* The list returned leads from the exit back to the start, each cell
\* through an open side to the next, by the shortest way; its last pointer
\* and its size agree with what the next pointers lead through.
SolutionIsTheWay ==
    Returned =>
        LET way == Items(solution)
        IN /\ way[1] = Exit /\ way[Len(way)] = Start
           /\ solution.last = Start /\ solution.size = Len(way)
           /\ \A i \in 1 .. Len(way) - 1 :
                  \E side \in Side \ wall[way[i]] : Beyond(way[i], side) = way[i + 1]
           /\ Len(way) > 1 => Exit \notin Walk[Len(way) - 2]

\* However the search unlinks nodes, the list keeps its order and its size
\* keeps count of what the next pointers lead through; and no cell is gone
\* from it unsearched: what a searched cell opens to was reached from it.
ListIsSound ==
    LET cells == Items(nodes)
        place(cell) == cell[2] * maze_width + cell[1]
    IN /\ nodes.size = Len(cells)
       /\ \A i \in 2 .. Len(cells) : place(cells[i - 1]) < place(cells[i])
       /\ \A cell \in Cell :
              Searching /\ ~linked_list_contains(nodes, cell)
                  => \A next \in Around(cell) : dist[next] <= dist[cell] + 1

\* get_solution returns.
SolutionIsFound == <>Returned

=============================================================================
