------------------------------ MODULE MazeWalk ------------------------------
(***************************************************************************)
(* The hero in a maze that generate_maze made: init_game, the movement of  *)
(* game_keyboard_handler with check_collision, the exit test of            *)
(* check_game_end, and game_reset.                                         *)
(*                                                                         *)
(* Lengths are counted in a unit that divides the size of a cell and of    *)
(* the hero; x and y are the hero's place rounded down to it, which is all *)
(* that the comparisons of the code look at.  A key moves the hero by 10   *)
(* pixels at any angle: over all angles, by at most Stride units each way. *)
(***************************************************************************)
EXTENDS MazeSolver

CONSTANTS
    cell_size,
    size,       \* what check_collision and check_game_end keep to each side
    Stride      \* 10 pixels in units, rounded up

ASSUME LengthsFit ==
    /\ cell_size \in Nat /\ size \in Nat /\ Stride \in Nat
    /\ Stride <= size /\ 2 * size < cell_size

VARIABLES x, y

wvars == <<svars, x, y>>

Middle == cell_size \div 2

\* init_game
WalkInit ==
    /\ SolverInit
    /\ x = Middle /\ y = Middle

\* The cell that holds a place, NULL outside the maze.
get_cell(px, py) ==
    IF /\ px \in 0 .. maze_width * cell_size - 1
       /\ py \in 0 .. maze_height * cell_size - 1
    THEN <<px \div cell_size, py \div cell_size>>
    ELSE NoCell

\* What lies size units to a side of a place.
Probe(px, py, side) ==
    CASE side = "left"   -> get_cell(px - size, py)
      [] side = "right"  -> get_cell(px + size, py)
      [] side = "top"    -> get_cell(px, py - size)
      [] side = "bottom" -> get_cell(px, py + size)

\* A wall stands between two cells when both have it.
Stands(cell, side, probe) == side \in wall[cell] /\ Opposite(side) \in wall[probe]

\* Mutated forms of check_collision: the walls above and below are not
\* asked for; another cell collides whether or not a wall stands; the
\* outside of the maze does not.
SidewaysOnly(px, py) ==
    \E side \in Side :
        LET probe == Probe(px, py, side)
            center == get_cell(px, py)
        IN \/ probe = NoCell
           \/ side \in {"left", "right"} /\ probe # center /\ Stands(center, side, probe)

AnyOtherCell(px, py) ==
    \E side \in Side : Probe(px, py, side) # get_cell(px, py)

OutsideIsFree(px, py) ==
    \E side \in Side :
        LET probe == Probe(px, py, side)
            center == get_cell(px, py)
        IN /\ probe # NoCell /\ center # NoCell
           /\ probe # center /\ Stands(center, side, probe)

check_collision(px, py) ==
    \E side \in Side :
        LET probe == Probe(px, py, side)
            center == get_cell(px, py)
        IN \/ probe = NoCell
           \/ probe # center /\ Stands(center, side, probe)

\* Mutated form of check_game_end: one coordinate is enough.
EndOfARow(px, py) ==
    \/ px >= (maze_width - 1) * cell_size - size
    \/ py >= (maze_height - 1) * cell_size - size

\* The hero need not have entered the exit's cell.
check_game_end(px, py) ==
    /\ px >= (maze_width - 1) * cell_size - size
    /\ py >= (maze_height - 1) * cell_size - size

game_keyboard_handler ==
    /\ \E dx, dy \in -Stride .. Stride :
        /\ ~check_collision(x + dx, y + dy)
        /\ x' = x + dx /\ y' = y + dy

game_reset == x' = Middle /\ y' = Middle

\* init_game makes the maze before the main loop starts, and only then; the
\* search it may call for follows at once.  The hero reads none of what the
\* search writes, so nothing is lost by letting it always be called.
InitGame == SolverNext /\ UNCHANGED <<x, y>>

WalkNext == \/ InitGame
            \/ /\ Returned
               /\ game_keyboard_handler \/ game_reset
               /\ UNCHANGED <<vars, solver>>

WalkSpec == WalkInit /\ [][WalkNext]_wvars /\ WF_wvars(InitGame)

-----------------------------------------------------------------------------

Here == get_cell(x, y)

\* The hero is in the maze.
HeroInMaze == Here \in Cell

\* "the players cannot phase through walls" (README.md:308): a hero that changes cells goes to the next one
\* through an open side, or is put back to the start.  The code tests only
\* the four places beside the hero, after the step: a step across the corner
\* of four cells would be a step through a wall, were the maze not a tree.
NoPhasing ==
    [][Here' # Here =>
           \/ Here' \in Around(Here)
           \/ x' = Middle /\ y' = Middle]_wvars

\* The game is not won from behind a wall: where check_game_end says that the
\* exit is reached, it is at most two open sides away.
ExitIsAtHand ==
    stack = <<>> /\ check_game_end(x, y) =>
        <<maze_width - 1, maze_height - 1>> \in
            UNION {Around(cell) : cell \in Around(Here)}

\* The place k units from the middle of a cell towards a side.
Towards(cell, side, k) ==
    LET mx == cell[1] * cell_size + Middle
        my == cell[2] * cell_size + Middle
    IN CASE side = "left"   -> <<mx - k, my>>
         [] side = "right"  -> <<mx + k, my>>
         [] side = "top"    -> <<mx, my - k>>
         [] side = "bottom" -> <<mx, my + k>>

\* Every maze can be won: the hero fits through each open side all the way
\* from the middle of a cell to the middle of the next, and the middle of the
\* last cell is the exit.  The open sides join all cells (PerfectMaze).
\* (Asked once of each maze, of the hero at the start.)
MazeCanBeWon ==
    stack = <<>> /\ x = Middle /\ y = Middle =>
        /\ \A cell \in Cell : \A side \in Side \ wall[cell] :
               \A k \in 0 .. cell_size :
                   LET p == Towards(cell, side, k)
                   IN ~check_collision(p[1], p[2])
        /\ check_game_end((maze_width - 1) * cell_size + Middle,
                          (maze_height - 1) * cell_size + Middle)

=============================================================================
