--------------------------- MODULE MazeGeneration ---------------------------
(***************************************************************************)
(* generate_maze of game/maze.c with the stack of                          *)
(* data_structures/stack.c: the randomised depth-first search that opens   *)
(* the walls of a grid of closed cells.  One action is one turn of the     *)
(* while loop; rand() is a free choice.                                    *)
(***************************************************************************)
EXTENDS Integers, Sequences, FiniteSets

CONSTANTS
    maze_width,     \* XResolution / cell_size
    maze_height     \* YResolution / cell_size

ASSUME MazeHasACell == maze_width \in Nat \ {0} /\ maze_height \in Nat \ {0}

VARIABLES
    visited,
    wall,       \* the walls of each cell that still stand
    stack       \* the cells on the way back to the start, top first

vars == <<visited, wall, stack>>

Cell == (0 .. maze_width - 1) \X (0 .. maze_height - 1)
Start == <<0, 0>>
Side == {"left", "right", "top", "bottom"}

\* The cell behind a side; outside the grid for an outer wall.
Beyond(cell, side) ==
    CASE side = "left"   -> <<cell[1] - 1, cell[2]>>
      [] side = "right"  -> <<cell[1] + 1, cell[2]>>
      [] side = "top"    -> <<cell[1], cell[2] - 1>>
      [] side = "bottom" -> <<cell[1], cell[2] + 1>>

Opposite(side) ==
    CASE side = "left"   -> "right"
      [] side = "right"  -> "left"
      [] side = "top"    -> "bottom"
      [] side = "bottom" -> "top"

Init ==
    /\ visited = [cell \in Cell |-> cell = Start]
    /\ wall = [cell \in Cell |-> Side]
    /\ stack = <<Start>>

\* Mutated forms of Neighbours: cells seen before count as well; the grid's
\* border is not tested.
SeenNeighbours(cell) == {side \in Side : Beyond(cell, side) \in Cell}

BorderlessNeighbours(cell) ==
    {side \in Side : Beyond(cell, side) \in Cell => ~visited[Beyond(cell, side)]}

\* The sides behind which a cell of the grid was not visited yet.
Neighbours(cell) ==
    {side \in Side : /\ Beyond(cell, side) \in Cell
                     /\ ~visited[Beyond(cell, side)]}

\* Mutated form of RemoveWall: the neighbour keeps its side of the wall.
RemoveNearSide(cell, side) == wall' = [wall EXCEPT ![cell] = @ \ {side}]

RemoveWall(cell, side) ==
    wall' = [wall EXCEPT ![cell] = @ \ {side},
                         ![Beyond(cell, side)] = @ \ {Opposite(side)}]

\* Mutated form of Descend: the current cell is not pushed back.
DescendForGood(cell, side) == stack' = <<Beyond(cell, side)>> \o Tail(stack)

\* The current cell, just popped, is pushed again under its neighbour.
Descend(cell, side) == stack' = <<Beyond(cell, side)>> \o stack

Carve ==
    /\ stack # <<>>
    /\ \E side \in Neighbours(Head(stack)) :
        /\ RemoveWall(Head(stack), side)
        /\ visited' = [visited EXCEPT ![Beyond(Head(stack), side)] = TRUE]
        /\ Descend(Head(stack), side)

Backtrack ==
    /\ stack # <<>>
    /\ Neighbours(Head(stack)) = {}
    /\ stack' = Tail(stack)
    /\ UNCHANGED <<visited, wall>>

Next == Carve \/ Backtrack

Spec == Init /\ [][Next]_vars

-----------------------------------------------------------------------------

\* The walls, marks and stack are those of cells of the grid.
TypeOK ==
    /\ visited \in [Cell -> BOOLEAN]
    /\ wall \in [Cell -> SUBSET Side]
    /\ stack \in Seq(Cell)

\* Both cells agree on the wall between them, and the outer walls stand:
\* check_collision asks both cells for an inner wall and nobody for an outer
\* one, draw_maze draws each side by itself.
WallsAgree ==
    \A cell \in Cell, side \in Side :
        IF Beyond(cell, side) \in Cell
        THEN side \in wall[cell] <=> Opposite(side) \in wall[Beyond(cell, side)]
        ELSE side \in wall[cell]

OnStack(cell) == \E i \in 1 .. Len(stack) : stack[i] = cell

\* A cell is left for good only when nothing around it is unvisited: why the
\* search that ends with an empty stack has seen every cell.
NothingLeftBehind ==
    \A cell \in Cell : visited[cell] /\ ~OnStack(cell) => Neighbours(cell) = {}

\* A cell and those behind its open sides.
Around(cell) == {cell} \cup {Beyond(cell, side) : side \in Side \ wall[cell]}

\* The cells a hero can walk to in n steps.
Walk[n \in Nat] ==
    IF n = 0 THEN {Start} ELSE UNION {Around(cell) : cell \in Walk[n - 1]}

OpenSides == {open \in Cell \X Side : open[2] \notin wall[open[1]]}

\* The finished maze is perfect: the hero can walk from the start to every
\* cell, the exit included, and there are no more passages than that takes,
\* so no two ways to the exit.
PerfectMaze ==
    stack = <<>> => /\ Walk[maze_width * maze_height] = Cell
                    /\ Cardinality(OpenSides) = 2 * (Cardinality(Cell) - 1)

\* The pairs of cells with a wall to remove between them.
Edges == {{cell, Beyond(cell, side)} : cell \in Cell, side \in Side}

Passages == {{open[1], Beyond(open[1], open[2])} : open \in OpenSides}

\* The search is the growth of a tree from the start: each turn opens one
\* passage to one new cell, or none.
Tree == INSTANCE SpanningTree WITH
            Node <- Cell,
            Root <- Start,
            Adjacent <- Edges,
            reached <- {cell \in Cell : visited[cell]},
            passages <- Passages

GrowsTree == Tree!Spec

=============================================================================
