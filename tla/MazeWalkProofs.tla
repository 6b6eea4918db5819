--------------------------- MODULE MazeWalkProofs ---------------------------
(***************************************************************************)
(* Proofs about the hero, for every size of the maze, of its cells and of  *)
(* the hero.                                                               *)
(***************************************************************************)
EXTENDS MazeWalk, MazeProofs

-----------------------------------------------------------------------------
(* What generate_maze never does.                                          *)

\* A cell that was visited has lost a wall, the start apart.
Entered == \A cell \in Cell : visited[cell] /\ cell # Start => wall[cell] # Side

SouthEast(cell) == <<cell[1] + 1, cell[2] + 1>>

\* Around no corner inside the maze are all four passages open.
NoRing ==
    \A cell \in Cell :
        SouthEast(cell) \in Cell =>
            \/ "right" \in wall[cell] \/ "bottom" \in wall[cell]
            \/ "left" \in wall[SouthEast(cell)] \/ "top" \in wall[SouthEast(cell)]

MazeInv == /\ TypeOK /\ WallsAgree /\ StackIsVisited /\ NothingLeftBehind
           /\ Closed /\ Entered /\ NoRing

\* A cell by its column and row, and the cells around it.
LEMMA Grid ==
    ASSUME NEW cell \in Cell
    PROVE  /\ cell[1] \in Int /\ cell[2] \in Int /\ cell = <<cell[1], cell[2]>>
           /\ Beyond(cell, "left") = <<cell[1] - 1, cell[2]>>
           /\ Beyond(cell, "right") = <<cell[1] + 1, cell[2]>>
           /\ Beyond(cell, "top") = <<cell[1], cell[2] - 1>>
           /\ Beyond(cell, "bottom") = <<cell[1], cell[2] + 1>>
BY MazeHasACell DEF Cell, Beyond

\* The four cells around a corner.
LEMMA Corner ==
    ASSUME NEW cell \in Cell, SouthEast(cell) \in Cell
    PROVE  /\ Beyond(cell, "right") \in Cell /\ Beyond(cell, "bottom") \in Cell
           /\ Beyond(cell, "right") = Beyond(SouthEast(cell), "top")
           /\ Beyond(cell, "bottom") = Beyond(SouthEast(cell), "left")
           /\ Beyond(cell, "right") # Beyond(cell, "bottom")
           /\ cell # SouthEast(cell)
<1>1. PICK i \in Int, j \in Int : cell = <<i, j>>
      BY MazeHasACell DEF Cell
<1>2. SouthEast(cell) = <<i + 1, j + 1>>
      BY <1>1 DEF SouthEast
<1>3. <<i + 1, j>> \in Cell /\ <<i, j + 1>> \in Cell
      BY <1>1, <1>2, MazeHasACell DEF Cell
<1>4. /\ Beyond(cell, "right") = <<i + 1, j>> /\ Beyond(cell, "bottom") = <<i, j + 1>>
      /\ Beyond(SouthEast(cell), "top") = <<i + 1, j>>
      /\ Beyond(SouthEast(cell), "left") = <<i, j + 1>>
      BY <1>1, <1>2 DEF Beyond
<1> QED BY <1>1, <1>2, <1>3, <1>4

\* In a search that keeps the walls agreed a new cell is closed, and to open
\* one side of it closes no ring.
LEMMA MazeStep ==
    ASSUME TypeOK, WallsAgree, StackIsVisited, Closed, Entered, NoRing, [Next]_vars
    PROVE  Closed' /\ Entered' /\ NoRing'
<1>1. CASE Carve
  <2>1. PICK s \in Side :
          /\ stack # <<>> /\ Head(stack) \in Cell /\ Beyond(Head(stack), s) \in Cell
          /\ ~visited[Beyond(Head(stack), s)]
          /\ visited' = [visited EXCEPT ![Beyond(Head(stack), s)] = TRUE]
          /\ wall' = [wall EXCEPT ![Head(stack)] = @ \ {s},
                                  ![Beyond(Head(stack), s)] = @ \ {Opposite(s)}]
        BY <1>1, CarveStep
  <2> DEFINE a == Head(stack)
             b == Beyond(a, s)
             Gone(cell, side) == \/ cell = a /\ side = s
                                 \/ cell = b /\ side = Opposite(s)
  <2>2. \A cell \in Cell, side \in Side :
           (side \in wall'[cell]) <=> (side \in wall[cell] /\ ~Gone(cell, side))
        BY <2>1, WallsAfter DEF TypeOK
  <2>3. /\ a \in Cell /\ b \in Cell /\ b = Beyond(a, s) /\ a # b
        /\ a = Beyond(b, Opposite(s)) /\ Opposite(s) \in Side
        BY <2>1, BackAgain, OppositeSide
  <2>4. wall[b] = Side
        BY <2>1, <2>3 DEF Closed
  <2>5. \A cell \in Cell : visited'[cell] <=> visited[cell] \/ cell = b
        BY <2>1, <2>3 DEF TypeOK
  <2>6. visited[a]
    <3>1. Len(stack) \in Nat /\ Len(stack) > 0 /\ stack[1] = Head(stack)
          BY <2>1, HeadTail DEF TypeOK
    <3> QED BY <3>1 DEF StackIsVisited
  <2>7. \A cell \in Cell : cell # a /\ cell # b => wall'[cell] = wall[cell]
        BY <2>1, <2>3 DEF TypeOK
  <2>8. /\ wall'[a] = wall[a] \ {s} /\ wall'[b] = wall[b] \ {Opposite(s)}
        /\ wall \in [Cell -> SUBSET Side]
        BY <2>1, <2>3 DEF TypeOK
  <2> HIDE DEF a, b
  <2>9. Closed'
        BY ClosedStep
  <2>10. Entered'
    <3>1. ASSUME NEW cell \in Cell, visited'[cell], cell # Start PROVE wall'[cell] # Side
      <4>1. CASE cell = b
            BY <2>3, <2>8, <4>1
      <4>2. CASE cell = a
            BY <2>1, <2>8, <4>2
      <4>3. CASE cell # a /\ cell # b
            BY <2>5, <2>7, <3>1, <4>3 DEF Entered
      <4> QED BY <4>1, <4>2, <4>3
    <3> QED BY <3>1 DEF Entered
  <2>11. NoRing'
    <3>1. SUFFICES ASSUME NEW cell \in Cell, SouthEast(cell) \in Cell,
                          "right" \notin wall'[cell], "bottom" \notin wall'[cell],
                          "left" \notin wall'[SouthEast(cell)],
                          "top" \notin wall'[SouthEast(cell)]
                   PROVE  FALSE
          BY DEF NoRing
    <3> DEFINE d == SouthEast(cell)
    <3>2. /\ d \in Cell /\ cell # d
          /\ Beyond(cell, "right") \in Cell /\ Beyond(cell, "bottom") \in Cell
          /\ Beyond(cell, "right") = Beyond(d, "top")
          /\ Beyond(cell, "bottom") = Beyond(d, "left")
          BY <3>1, Corner
    <3>3. \/ "right" \in wall[cell] \/ "bottom" \in wall[cell]
          \/ "left" \in wall[d] \/ "top" \in wall[d]
          BY <3>2 DEF NoRing
    <3>s. {"left", "right", "top", "bottom"} = Side
          BY DEF Side
    <3>4. b # cell /\ b # d
          BY <2>4, <2>8, <3>1, <3>2, <3>s
    <3>5. \/ cell = a /\ s \in {"right", "bottom"}
          \/ d = a /\ s \in {"left", "top"}
          BY <2>7, <2>8, <3>1, <3>2, <3>3, <3>4
    <3>6. b = Beyond(cell, "right") \/ b = Beyond(cell, "bottom")
          BY <2>3, <3>2, <3>5
    <3>7. /\ Opposite("left") = "right" /\ Opposite("right") = "left"
          /\ Opposite("top") = "bottom" /\ Opposite("bottom") = "top"
          BY DEF Opposite
    \* The closed cell b shuts both sides of the ring that lead to it.
    <3>8. CASE b = Beyond(cell, "right")
      <4>1. "right" \in wall[cell] /\ "top" \in wall[d]
            BY <2>4, <3>2, <3>7, <3>8, <3>s DEF WallsAgree
      <4> QED BY <2>7, <2>8, <3>1, <3>2, <3>4, <3>5, <4>1
    <3>9. CASE b = Beyond(cell, "bottom")
      <4>1. "bottom" \in wall[cell] /\ "left" \in wall[d]
            BY <2>4, <3>2, <3>7, <3>9, <3>s DEF WallsAgree
      <4> QED BY <2>7, <2>8, <3>1, <3>2, <3>4, <3>5, <4>1
    <3> QED BY <3>6, <3>8, <3>9
  <2> QED BY <2>9, <2>10, <2>11
<1>2. CASE Backtrack
      BY <1>2 DEF Backtrack, Closed, Entered, NoRing
<1>3. CASE UNCHANGED vars
      BY <1>3 DEF vars, Closed, Entered, NoRing
<1> QED BY <1>1, <1>2, <1>3 DEF Next

LEMMA MazeStart ==
    ASSUME Init PROVE MazeInv
<1>1. TypeOK /\ WallsAgree
      BY StartIsCell, OppositeSide DEF Init, TypeOK, WallsAgree
<1>2. Closed /\ Entered
      BY DEF Init, Closed, Entered
<1>3. NoRing
      BY DEF Init, NoRing, Side
<1> QED BY <1>1, <1>2, <1>3, BehindStart DEF MazeInv

LEMMA MazeKept ==
    ASSUME MazeInv, [Next]_vars PROVE MazeInv'
BY TypeStep, WallsStep, BehindStep, MazeStep DEF MazeInv

-----------------------------------------------------------------------------
(* Places.                                                                 *)

\* A coordinate in column (or row) i, a units behind its beginning.
At(p, i, a) ==
    /\ i \in Int /\ a \in Int /\ 0 <= a /\ a < cell_size
    /\ p = i * cell_size + a

LEMMA Lengths ==
    /\ cell_size \in Nat /\ cell_size > 0 /\ size \in Nat /\ Stride \in Nat
    /\ Stride <= size /\ size < cell_size - size
    /\ maze_width \in Nat /\ maze_height \in Nat
BY LengthsFit, MazeHasACell

\* Every coordinate is in some column.
LEMMA Everywhere ==
    ASSUME NEW p \in Int
    PROVE  \E i, a \in Int : At(p, i, a)
<1> DEFINE i == p \div cell_size
           a == p % cell_size
<1>1. i \in Int /\ a \in Int /\ 0 <= a /\ a < cell_size /\ p = i * cell_size + a
      BY Lengths
<1> QED BY <1>1 DEF At

\* A move of a cell's size or less reaches the next column at most.
LEMMA Moved ==
    ASSUME NEW p \in Int, NEW i, NEW a, At(p, i, a),
           NEW d \in Int, -cell_size <= d, d <= cell_size
    PROVE  /\ a + d < 0 => At(p + d, i - 1, a + d + cell_size)
           /\ a + d >= 0 /\ a + d < cell_size => At(p + d, i, a + d)
           /\ a + d >= cell_size => At(p + d, i + 1, a + d - cell_size)
<1>1. i \in Int /\ a \in Int /\ 0 <= a /\ a < cell_size /\ p = i * cell_size + a
      BY DEF At
<1>2. /\ (i - 1) * cell_size = i * cell_size - cell_size
      /\ (i + 1) * cell_size = i * cell_size + cell_size
      /\ i * cell_size \in Int
      BY <1>1, Lengths
<1> QED BY <1>1, <1>2, Lengths DEF At

\* The division of get_cell finds the column.
LEMMA Column ==
    ASSUME NEW p \in Int, NEW i, NEW a, At(p, i, a), NEW n \in Nat
    PROVE  /\ p \div cell_size = i
           /\ p \in 0 .. n * cell_size - 1 <=> i \in 0 .. n - 1
<1>1. i \in Int /\ a \in Int /\ 0 <= a /\ a < cell_size /\ p = i * cell_size + a
      BY DEF At
<1>2. p \div cell_size = i
      BY <1>1, Lengths
<1>3. i >= 0 => i * cell_size >= 0
      BY <1>1, Lengths
<1>4. i < 0 => i * cell_size <= -cell_size
      BY <1>1, Lengths
<1>5. i >= n => i * cell_size >= n * cell_size
      BY <1>1, Lengths
<1>6. i < n => i * cell_size <= n * cell_size - cell_size
      BY <1>1, Lengths
<1>7. i * cell_size \in Int /\ n * cell_size \in Int
      BY <1>1, Lengths
<1> QED BY <1>1, <1>2, <1>3, <1>4, <1>5, <1>6, <1>7, Lengths

\* The cell at a place.
LEMMA CellAt ==
    ASSUME NEW px \in Int, NEW py \in Int, NEW i, NEW a, NEW j, NEW b,
           At(px, i, a), At(py, j, b)
    PROVE  /\ <<i, j>> \in Cell => get_cell(px, py) = <<i, j>>
           /\ <<i, j>> \notin Cell => get_cell(px, py) = NoCell
<1>1. /\ px \div cell_size = i
      /\ px \in 0 .. maze_width * cell_size - 1 <=> i \in 0 .. maze_width - 1
      BY Column, Lengths
<1>2. /\ py \div cell_size = j
      /\ py \in 0 .. maze_height * cell_size - 1 <=> j \in 0 .. maze_height - 1
      BY Column, Lengths
<1>3. <<i, j>> \in Cell <=> i \in 0 .. maze_width - 1 /\ j \in 0 .. maze_height - 1
      BY DEF Cell
<1> QED BY <1>1, <1>2, <1>3 DEF get_cell

-----------------------------------------------------------------------------
(* What the four probes of check_collision see.                            *)

\* A place a units right and b units below the corner of its cell has its
\* probe to this side behind the side.
Past(side, a, b) ==
    CASE side = "left"   -> a < size
      [] side = "right"  -> a + size >= cell_size
      [] side = "top"    -> b < size
      [] side = "bottom" -> b + size >= cell_size

LEMMA ProbeIs ==
    ASSUME NEW px \in Int, NEW py \in Int, NEW i, NEW a, NEW j, NEW b,
           At(px, i, a), At(py, j, b), <<i, j>> \in Cell, NEW side \in Side
    PROVE  /\ ~Past(side, a, b) => Probe(px, py, side) = <<i, j>>
           /\ Past(side, a, b) =>
                /\ Beyond(<<i, j>>, side) \in Cell
                       => Probe(px, py, side) = Beyond(<<i, j>>, side)
                /\ Beyond(<<i, j>>, side) \notin Cell => Probe(px, py, side) = NoCell
<1>1. /\ i \in Int /\ a \in Int /\ 0 <= a /\ a < cell_size
      /\ j \in Int /\ b \in Int /\ 0 <= b /\ b < cell_size
      BY DEF At
<1>2. /\ size \in Int /\ -size \in Int /\ cell_size \in Int
      /\ -cell_size <= -size /\ -size <= cell_size
      /\ -cell_size <= size /\ size <= cell_size
      BY Lengths
<1>3. /\ a - size < 0 => At(px - size, i - 1, a - size + cell_size)
      /\ a - size >= 0 => At(px - size, i, a - size)
      /\ a + size < cell_size => At(px + size, i, a + size)
      /\ a + size >= cell_size => At(px + size, i + 1, a + size - cell_size)
  <2>1. /\ a + (-size) < 0 => At(px + (-size), i - 1, a + (-size) + cell_size)
        /\ a + (-size) >= 0 /\ a + (-size) < cell_size => At(px + (-size), i, a + (-size))
        BY <1>2, Moved
  <2>2. /\ a + size >= 0 /\ a + size < cell_size => At(px + size, i, a + size)
        /\ a + size >= cell_size => At(px + size, i + 1, a + size - cell_size)
        BY <1>2, Moved
  <2>3. a + (-size) = a - size /\ px + (-size) = px - size
        BY <1>1, <1>2
  <2>4. a - size < cell_size /\ a + size >= 0
        BY <1>1, <1>2, Lengths
  <2> QED BY <2>1, <2>2, <2>3, <2>4
<1>4. /\ b - size < 0 => At(py - size, j - 1, b - size + cell_size)
      /\ b - size >= 0 => At(py - size, j, b - size)
      /\ b + size < cell_size => At(py + size, j, b + size)
      /\ b + size >= cell_size => At(py + size, j + 1, b + size - cell_size)
  <2>1. /\ b + (-size) < 0 => At(py + (-size), j - 1, b + (-size) + cell_size)
        /\ b + (-size) >= 0 /\ b + (-size) < cell_size => At(py + (-size), j, b + (-size))
        BY <1>2, Moved
  <2>2. /\ b + size >= 0 /\ b + size < cell_size => At(py + size, j, b + size)
        /\ b + size >= cell_size => At(py + size, j + 1, b + size - cell_size)
        BY <1>2, Moved
  <2>3. b + (-size) = b - size /\ py + (-size) = py - size
        BY <1>1, <1>2
  <2>4. b - size < cell_size /\ b + size >= 0
        BY <1>1, <1>2, Lengths
  <2> QED BY <2>1, <2>2, <2>3, <2>4
<1>5. /\ px - size \in Int /\ px + size \in Int /\ py - size \in Int /\ py + size \in Int
      /\ a - size < 0 <=> a < size
      /\ b - size < 0 <=> b < size
      BY <1>1, <1>2
<1>6. CASE side = "left"
  <2>1. /\ Beyond(<<i, j>>, side) = <<i - 1, j>>
        /\ Past(side, a, b) <=> a < size
        /\ Probe(px, py, side) = get_cell(px - size, py)
        BY <1>6 DEF Beyond, Past, Probe
  <2> QED BY <1>1, <1>2, <1>3, <1>5, <2>1, CellAt
<1>7. CASE side = "right"
  <2>1. /\ Beyond(<<i, j>>, side) = <<i + 1, j>>
        /\ Past(side, a, b) <=> a + size >= cell_size
        /\ Probe(px, py, side) = get_cell(px + size, py)
        BY <1>7 DEF Beyond, Past, Probe
  <2> QED BY <1>1, <1>2, <1>3, <1>5, <2>1, CellAt
<1>8. CASE side = "top"
  <2>1. /\ Beyond(<<i, j>>, side) = <<i, j - 1>>
        /\ Past(side, a, b) <=> b < size
        /\ Probe(px, py, side) = get_cell(px, py - size)
        BY <1>8 DEF Beyond, Past, Probe
  <2> QED BY <1>1, <1>2, <1>4, <1>5, <2>1, CellAt
<1>9. CASE side = "bottom"
  <2>1. /\ Beyond(<<i, j>>, side) = <<i, j + 1>>
        /\ Past(side, a, b) <=> b + size >= cell_size
        /\ Probe(px, py, side) = get_cell(px, py + size)
        BY <1>9 DEF Beyond, Past, Probe
  <2> QED BY <1>1, <1>2, <1>4, <1>5, <2>1, CellAt
<1> QED BY <1>6, <1>7, <1>8, <1>9 DEF Side

\* Where nothing collides: in a cell, with no wall between a probe and it.
LEMMA FreeSides ==
    ASSUME WallsAgree, NEW px \in Int, NEW py \in Int, NEW i, NEW a, NEW j, NEW b,
           At(px, i, a), At(py, j, b), <<i, j>> \in Cell
    PROVE  ~check_collision(px, py) <=>
               \A side \in Side : Past(side, a, b) => side \notin wall[<<i, j>>]
<1> DEFINE cell == <<i, j>>
<1>1. get_cell(px, py) = cell
      BY CellAt
<1>2. ASSUME NEW side \in Side
      PROVE  (Probe(px, py, side) = NoCell
                 \/ (Probe(px, py, side) # cell /\ Stands(cell, side, Probe(px, py, side))))
             <=> Past(side, a, b) /\ side \in wall[cell]
  <2>1. cell # NoCell /\ Beyond(cell, side) # cell
        BY NoCellIsNone, BackAgain
  <2>2. CASE ~Past(side, a, b)
        BY <2>1, <2>2, ProbeIs
  <2>3. CASE Past(side, a, b) /\ Beyond(cell, side) \in Cell
    <3>1. Probe(px, py, side) = Beyond(cell, side) /\ Beyond(cell, side) # NoCell
          BY <2>3, ProbeIs, NoCellIsNone
    <3>2. side \in wall[cell] <=> Opposite(side) \in wall[Beyond(cell, side)]
          BY <2>3 DEF WallsAgree
    <3> QED BY <2>1, <2>3, <3>1, <3>2 DEF Stands
  <2>4. CASE Past(side, a, b) /\ Beyond(cell, side) \notin Cell
    <3>1. Probe(px, py, side) = NoCell
          BY <2>4, ProbeIs
    <3>2. side \in wall[cell]
          BY <2>4 DEF WallsAgree
    <3> QED BY <2>4, <3>1, <3>2
  <2> QED BY <2>2, <2>3, <2>4
<1> HIDE DEF cell
<1>3. check_collision(px, py) <=> \E side \in Side : Past(side, a, b) /\ side \in wall[cell]
      BY <1>1, <1>2 DEF check_collision
<1> QED BY <1>3 DEF cell

\* Outside the maze everything collides.
LEMMA FreeIsInside ==
    ASSUME NEW px \in Int, NEW py \in Int, NEW i, NEW a, NEW j, NEW b,
           At(px, i, a), At(py, j, b), ~check_collision(px, py)
    PROVE  <<i, j>> \in Cell
<1>1. /\ px - size \in Int /\ py - size \in Int
      BY Lengths
<1>2. get_cell(px - size, py) # NoCell /\ get_cell(px, py - size) # NoCell
  <2>1. "left" \in Side /\ "top" \in Side
        BY DEF Side
  <2>2. Probe(px, py, "left") # NoCell /\ Probe(px, py, "top") # NoCell
        BY <2>1 DEF check_collision
  <2> QED BY <2>2 DEF Probe
<1>3. PICK i2 \in Int, a2 \in Int : At(px - size, i2, a2)
      BY <1>1, Everywhere
<1>4. PICK j2 \in Int, b2 \in Int : At(py - size, j2, b2)
      BY <1>1, Everywhere
<1>5. <<i2, j>> \in Cell /\ <<i, j2>> \in Cell
      BY <1>1, <1>2, <1>3, <1>4, CellAt
<1> QED BY <1>5 DEF Cell

-----------------------------------------------------------------------------
(* The hero.                                                               *)

\* Nothing collides where the hero stands: what check_collision has asked for
\* the step that led there, and for no wall that was opened since.
Free == x \in Int /\ y \in Int /\ ~check_collision(x, y)

HeroInv == MazeInv /\ Free

LEMMA MiddleAt ==
    /\ Middle \in Int /\ At(Middle, 0, Middle)
    /\ size <= Middle /\ Middle + size < cell_size
BY LengthsFit DEF Middle, At

LEMMA MiddleIsFree ==
    ASSUME WallsAgree PROVE ~check_collision(Middle, Middle)
<1>1. ASSUME NEW side \in Side PROVE ~Past(side, Middle, Middle)
  <2>1. ~(Middle < size) /\ ~(Middle + size >= cell_size)
        BY MiddleAt, Lengths
  <2>2. CASE side = "left"
        BY <2>1, <2>2 DEF Past
  <2>3. CASE side = "right"
        BY <2>1, <2>3 DEF Past
  <2>4. CASE side = "top"
        BY <2>1, <2>4 DEF Past
  <2>5. CASE side = "bottom"
        BY <2>1, <2>5 DEF Past
  <2> QED BY <2>2, <2>3, <2>4, <2>5 DEF Side
<1>2. <<0, 0>> \in Cell
      BY StartIsCell DEF Start
<1> QED BY <1>1, <1>2, MiddleAt, FreeSides

LEMMA GetCellType ==
    ASSUME NEW px \in Int, NEW py \in Int
    PROVE  get_cell(px, py) \in Cell \cup {NoCell}
<1>1. PICK i \in Int, a \in Int : At(px, i, a)
      BY Everywhere
<1>2. PICK j \in Int, b \in Int : At(py, j, b)
      BY Everywhere
<1>3. /\ <<i, j>> \in Cell => get_cell(px, py) = <<i, j>>
      /\ <<i, j>> \notin Cell => get_cell(px, py) = NoCell
      BY <1>1, <1>2, CellAt
<1> QED BY <1>3

\* generate_maze puts up no wall.
LEMMA WallsFall ==
    ASSUME TypeOK, [Next]_vars
    PROVE  \A cell \in Cell : wall'[cell] \subseteq wall[cell]
<1>1. CASE Carve
  <2>1. PICK s \in Side :
          /\ Head(stack) \in Cell /\ Beyond(Head(stack), s) \in Cell
          /\ wall' = [wall EXCEPT ![Head(stack)] = @ \ {s},
                                  ![Beyond(Head(stack), s)] = @ \ {Opposite(s)}]
        BY <1>1, CarveStep
  <2>2. \A cell \in Cell, side \in Side : side \in wall'[cell] => side \in wall[cell]
        BY <2>1, WallsAfter DEF TypeOK
  <2>3. \A cell \in Cell : wall'[cell] \subseteq Side
        BY <1>1, TypeStep DEF TypeOK
  <2> QED BY <2>2, <2>3
<1>2. CASE Backtrack
      BY <1>2 DEF Backtrack
<1>3. CASE UNCHANGED vars
      BY <1>3 DEF vars
<1> QED BY <1>1, <1>2, <1>3 DEF Next

LEMMA ProbeType ==
    ASSUME NEW px \in Int, NEW py \in Int, NEW side \in Side
    PROVE  Probe(px, py, side) \in Cell \cup {NoCell}
<1>1. px - size \in Int /\ px + size \in Int /\ py - size \in Int /\ py + size \in Int
      BY Lengths
<1>2. CASE side = "left"
      BY <1>1, <1>2, GetCellType DEF Probe
<1>3. CASE side = "right"
      BY <1>1, <1>3, GetCellType DEF Probe
<1>4. CASE side = "top"
      BY <1>1, <1>4, GetCellType DEF Probe
<1>5. CASE side = "bottom"
      BY <1>1, <1>5, GetCellType DEF Probe
<1> QED BY <1>2, <1>3, <1>4, <1>5 DEF Side

\* A free place stays free when walls fall.
LEMMA StaysFree ==
    ASSUME NEW px \in Int, NEW py \in Int, ~check_collision(px, py),
           \A cell \in Cell : wall'[cell] \subseteq wall[cell]
    PROVE  ~check_collision(px, py)'
<1>1. get_cell(px, py) \in Cell
  <2>1. PICK i \in Int, a \in Int : At(px, i, a)
        BY Everywhere
  <2>2. PICK j \in Int, b \in Int : At(py, j, b)
        BY Everywhere
  <2>3. <<i, j>> \in Cell
        BY <2>1, <2>2, FreeIsInside
  <2>4. get_cell(px, py) = <<i, j>>
        BY <2>1, <2>2, <2>3, CellAt
  <2> QED BY <2>3, <2>4
<1>2. SUFFICES ASSUME NEW side \in Side
               PROVE  /\ Probe(px, py, side) # NoCell
                      /\ Probe(px, py, side) # get_cell(px, py)
                             => ~Stands(get_cell(px, py), side, Probe(px, py, side))'
      BY DEF check_collision
<1>3. /\ Probe(px, py, side) # NoCell
      /\ Probe(px, py, side) # get_cell(px, py)
             => ~Stands(get_cell(px, py), side, Probe(px, py, side))
      BY DEF check_collision
<1>4. Probe(px, py, side) \in Cell
      BY <1>3, ProbeType
<1> QED BY <1>1, <1>3, <1>4 DEF Stands

LEMMA HeroStart ==
    ASSUME WalkInit PROVE HeroInv
<1>1. MazeInv
      BY MazeStart DEF WalkInit, SolverInit
<1>2. x = Middle /\ y = Middle
      BY DEF WalkInit
<1> QED BY <1>1, <1>2, MiddleIsFree, MiddleAt DEF HeroInv, Free, MazeInv

LEMMA WalkMakesMaze ==
    ASSUME [WalkNext]_wvars PROVE [Next]_vars
BY DEF WalkNext, InitGame, SolverNext, wvars, svars

LEMMA HeroStep ==
    ASSUME HeroInv, [WalkNext]_wvars PROVE HeroInv'
<1>1. MazeInv' /\ WallsAgree
      BY WalkMakesMaze, MazeKept DEF HeroInv, MazeInv
<1>2. \A cell \in Cell : wall'[cell] \subseteq wall[cell]
      BY WalkMakesMaze, WallsFall DEF HeroInv, MazeInv
<1>3. Free'
  <2>1. CASE UNCHANGED <<x, y>>
    <3>1. x \in Int /\ y \in Int /\ ~check_collision(x, y)
          BY DEF HeroInv, Free
    <3>2. PICK px \in Int, py \in Int : px = x /\ py = y
          BY <3>1
    <3>3. ~check_collision(px, py)
          BY <3>1, <3>2
    <3>4. ~check_collision(px, py)'
          BY <1>2, <3>3, StaysFree
    <3>5. px = x' /\ py = y'
          BY <2>1, <3>2
    <3> QED BY <3>4, <3>5 DEF Free, check_collision
  <2>2. CASE game_keyboard_handler /\ UNCHANGED vars
    <3>1. PICK dx \in -Stride .. Stride, dy \in -Stride .. Stride :
            ~check_collision(x + dx, y + dy) /\ x' = x + dx /\ y' = y + dy
          BY <2>2 DEF game_keyboard_handler
    <3>2. x + dx \in Int /\ y + dy \in Int
          BY Lengths DEF HeroInv, Free
    <3>3. PICK px \in Int, py \in Int : px = x + dx /\ py = y + dy
          BY <3>2
    <3>4. ~check_collision(px, py)'
          BY <1>2, <3>1, <3>3, StaysFree
    <3>5. px = x' /\ py = y'
          BY <3>1, <3>3
    <3> QED BY <3>4, <3>5 DEF Free, check_collision
  <2>3. CASE game_reset
    <3>1. PICK p \in Int : p = Middle
          BY MiddleAt
    <3>2. ~check_collision(p, p)'
          BY <1>1, <1>2, <3>1, MiddleIsFree, StaysFree
    <3>3. p = x' /\ p = y'
          BY <2>3, <3>1 DEF game_reset
    <3> QED BY <3>2, <3>3 DEF Free, check_collision
  <2> QED BY <2>1, <2>2, <2>3 DEF WalkNext, InitGame, wvars
<1> QED BY <1>1, <1>3 DEF HeroInv

LEMMA HeroInvariant == WalkSpec => []HeroInv
BY HeroStart, HeroStep, PTL DEF WalkSpec

\* The hero is in a cell of the maze, whatever keys are pressed at whatever
\* angles and however often the game is reset (check_collision, game_reset).
THEOREM HeroStaysInMaze == WalkSpec => []HeroInMaze
<1>1. HeroInv => HeroInMaze
  <2>1. SUFFICES ASSUME HeroInv PROVE get_cell(x, y) \in Cell
        BY DEF HeroInMaze, Here
  <2>2. PICK px \in Int, py \in Int : px = x /\ py = y /\ ~check_collision(px, py)
        BY <2>1 DEF HeroInv, Free
  <2>3. PICK i \in Int, a \in Int : At(px, i, a)
        BY Everywhere
  <2>4. PICK j \in Int, b \in Int : At(py, j, b)
        BY Everywhere
  <2>5. <<i, j>> \in Cell
        BY <2>2, <2>3, <2>4, FreeIsInside
  <2>6. get_cell(px, py) = <<i, j>>
        BY <2>3, <2>4, <2>5, CellAt
  <2> QED BY <2>2, <2>5, <2>6
<1> QED BY <1>1, HeroInvariant, PTL

-----------------------------------------------------------------------------
(* The steps of the hero.                                                  *)

\* The same column, or the next one with the probes on both sides of the
\* line between.
Crossed(i, a, i2, a2) ==
    \/ i2 = i
    \/ i2 = i + 1 /\ a + size >= cell_size /\ a2 < size
    \/ i2 = i - 1 /\ a < size /\ a2 + size >= cell_size

\* Where one stride leads.
LEMMA StrideTo ==
    ASSUME NEW p \in Int, NEW i, NEW a, At(p, i, a), NEW d \in -Stride .. Stride
    PROVE  \E i2 \in Int, a2 \in Int : At(p + d, i2, a2) /\ Crossed(i, a, i2, a2)
<1>1. i \in Int /\ a \in Int /\ 0 <= a /\ a < cell_size
      BY DEF At
<1>2. d \in Int /\ -size <= d /\ d <= size /\ -cell_size <= d /\ d <= cell_size
      BY Lengths
<1>3. CASE a + d < 0
  <2>1. At(p + d, i - 1, a + d + cell_size)
        BY <1>2, <1>3, Moved
  <2>2. /\ i - 1 \in Int /\ a + d + cell_size \in Int
        /\ a < size /\ (a + d + cell_size) + size >= cell_size
        BY <1>1, <1>2, <1>3, Lengths
  <2> QED BY <2>1, <2>2 DEF Crossed
<1>4. CASE a + d >= 0 /\ a + d < cell_size
  <2>1. At(p + d, i, a + d)
        BY <1>2, <1>4, Moved
  <2> QED BY <1>1, <1>2, <2>1 DEF Crossed
<1>5. CASE a + d >= cell_size
  <2>1. At(p + d, i + 1, a + d - cell_size)
        BY <1>2, <1>5, Moved
  <2>2. /\ i + 1 \in Int /\ a + d - cell_size \in Int
        /\ a + size >= cell_size /\ a + d - cell_size < size
        BY <1>1, <1>2, <1>5, Lengths
  <2> QED BY <2>1, <2>2 DEF Crossed
<1> QED BY <1>1, <1>2, <1>3, <1>4, <1>5, Lengths

LEMMA OppositeIs ==
    /\ Opposite("left") = "right" /\ Opposite("right") = "left"
    /\ Opposite("top") = "bottom" /\ Opposite("bottom") = "top"
BY DEF Opposite

\* No step crosses a corner: the four probes would have found all four
\* passages around it open.
LEMMA CornerDown ==
    ASSUME NoRing, NEW cell \in Cell, SouthEast(cell) \in Cell,
           "right" \notin wall[cell], "bottom" \notin wall[cell],
           "left" \notin wall[SouthEast(cell)], "top" \notin wall[SouthEast(cell)]
    PROVE  FALSE
BY DEF NoRing

LEMMA CornerUp ==
    ASSUME NoRing, WallsAgree, NEW i \in Int, NEW j \in Int,
           <<i, j>> \in Cell, <<i + 1, j - 1>> \in Cell,
           "right" \notin wall[<<i, j>>], "top" \notin wall[<<i, j>>],
           "left" \notin wall[<<i + 1, j - 1>>], "bottom" \notin wall[<<i + 1, j - 1>>]
    PROVE  FALSE
<1> DEFINE a == <<i, j - 1>>
           d == <<i + 1, j>>
<1>1. a \in Cell /\ d \in Cell /\ SouthEast(a) = d
  <2>1. a \in Cell /\ d \in Cell
        BY MazeHasACell DEF Cell
  <2> QED BY <2>1 DEF SouthEast
<1>2. /\ Beyond(<<i, j>>, "top") = a /\ Beyond(<<i, j>>, "right") = d
      /\ Beyond(<<i + 1, j - 1>>, "left") = a /\ Beyond(<<i + 1, j - 1>>, "bottom") = d
  <2>1. (i + 1) - 1 = i /\ (j - 1) + 1 = j
        OBVIOUS
  <2>2. /\ Beyond(<<i, j>>, "top") = a /\ Beyond(<<i, j>>, "right") = d
        /\ Beyond(<<i + 1, j - 1>>, "left") = <<(i + 1) - 1, j - 1>>
        /\ Beyond(<<i + 1, j - 1>>, "bottom") = <<i + 1, (j - 1) + 1>>
        BY DEF Beyond
  <2> QED BY <2>1, <2>2
<1>3. {"left", "right", "top", "bottom"} = Side
      BY DEF Side
<1> HIDE DEF a, d
<1>4. /\ "bottom" \notin wall[a] /\ "right" \notin wall[a]
      /\ "left" \notin wall[d] /\ "top" \notin wall[d]
      BY <1>1, <1>2, <1>3, OppositeIs DEF WallsAgree
<1> QED BY <1>1, <1>4, CornerDown

\* Two free places in reach of one stride.
LEMMA NextCell ==
    ASSUME MazeInv, NEW px \in Int, NEW py \in Int, ~check_collision(px, py),
           NEW dx \in -Stride .. Stride, NEW dy \in -Stride .. Stride,
           ~check_collision(px + dx, py + dy)
    PROVE  get_cell(px + dx, py + dy) \in Around(get_cell(px, py))
<1>1. px + dx \in Int /\ py + dy \in Int
      BY Lengths
<1>2. PICK i \in Int, a \in Int : At(px, i, a)
      BY Everywhere
<1>3. PICK j \in Int, b \in Int : At(py, j, b)
      BY Everywhere
<1>4. PICK i2 \in Int, a2 \in Int : At(px + dx, i2, a2) /\ Crossed(i, a, i2, a2)
      BY <1>2, StrideTo
<1>5. PICK j2 \in Int, b2 \in Int : At(py + dy, j2, b2) /\ Crossed(j, b, j2, b2)
      BY <1>3, StrideTo
<1>6. <<i, j>> \in Cell /\ <<i2, j2>> \in Cell
      BY <1>1, <1>2, <1>3, <1>4, <1>5, FreeIsInside
<1>7. get_cell(px, py) = <<i, j>> /\ get_cell(px + dx, py + dy) = <<i2, j2>>
      BY <1>1, <1>2, <1>3, <1>4, <1>5, <1>6, CellAt
<1>8. WallsAgree /\ NoRing
      BY DEF MazeInv
<1>9. \A side \in Side : Past(side, a, b) => side \notin wall[<<i, j>>]
      BY <1>2, <1>3, <1>6, <1>8, FreeSides
<1>10. \A side \in Side : Past(side, a2, b2) => side \notin wall[<<i2, j2>>]
      BY <1>1, <1>4, <1>5, <1>6, <1>8, FreeSides
<1>11. /\ i2 = i + 1 => "right" \notin wall[<<i, j>>] /\ "left" \notin wall[<<i2, j2>>]
       /\ i2 = i - 1 => "left" \notin wall[<<i, j>>] /\ "right" \notin wall[<<i2, j2>>]
       /\ j2 = j + 1 => "bottom" \notin wall[<<i, j>>] /\ "top" \notin wall[<<i2, j2>>]
       /\ j2 = j - 1 => "top" \notin wall[<<i, j>>] /\ "bottom" \notin wall[<<i2, j2>>]
  <2>1. {"left", "right", "top", "bottom"} = Side
        BY DEF Side
  <2>2. ASSUME NEW u, NEW v
        PROVE  /\ Past("left", u, v) <=> u < size
               /\ Past("right", u, v) <=> u + size >= cell_size
               /\ Past("top", u, v) <=> v < size
               /\ Past("bottom", u, v) <=> v + size >= cell_size
        BY DEF Past
  <2> QED BY <1>4, <1>5, <1>9, <1>10, <2>1, <2>2 DEF Crossed
<1>12. i2 = i \/ j2 = j
  <2>1. CASE i2 = i + 1 /\ j2 = j + 1
    <3>1. SouthEast(<<i, j>>) = <<i2, j2>>
          BY <2>1 DEF SouthEast
    <3> QED BY <1>6, <1>8, <1>11, <2>1, <3>1, CornerDown
  <2>2. CASE i2 = i - 1 /\ j2 = j - 1
    <3>1. SouthEast(<<i2, j2>>) = <<i, j>>
          BY <2>2 DEF SouthEast
    <3> QED BY <1>6, <1>8, <1>11, <2>2, <3>1, CornerDown
  <2>3. CASE i2 = i + 1 /\ j2 = j - 1
        BY <1>6, <1>8, <1>11, <2>3, CornerUp
  <2>4. CASE i2 = i - 1 /\ j2 = j + 1
    <3>1. i = i2 + 1 /\ j = j2 - 1
          BY <2>4
    <3> QED BY <1>6, <1>8, <1>11, <2>4, <3>1, CornerUp
  <2> QED BY <1>4, <1>5, <2>1, <2>2, <2>3, <2>4 DEF Crossed
<1>13. \/ i2 = i /\ j2 = j
       \/ \E side \in Side \ wall[<<i, j>>] : <<i2, j2>> = Beyond(<<i, j>>, side)
  <2>1. /\ Beyond(<<i, j>>, "left") = <<i - 1, j>> /\ Beyond(<<i, j>>, "right") = <<i + 1, j>>
        /\ Beyond(<<i, j>>, "top") = <<i, j - 1>> /\ Beyond(<<i, j>>, "bottom") = <<i, j + 1>>
        BY DEF Beyond
  <2>2. {"left", "right", "top", "bottom"} = Side
        BY DEF Side
  <2> QED BY <1>4, <1>5, <1>11, <1>12, <2>1, <2>2 DEF Crossed
<1> QED BY <1>7, <1>13 DEF Around

\* A hero that changes cells goes through an open side to the next one, or
\* back to the start, in a maze of any size: the four places that
\* check_collision asks for keep it from crossing a corner only because
\* generate_maze never opens all four sides around one.
THEOREM WallsAreSolid == WalkSpec => NoPhasing
<1>1. ASSUME HeroInv, [WalkNext]_wvars
      PROVE  [Here' # Here => \/ Here' \in Around(Here)
                              \/ x' = Middle /\ y' = Middle]_wvars
  <2>1. CASE UNCHANGED <<x, y>>
        BY <2>1 DEF Here, get_cell
  <2>2. CASE game_keyboard_handler
    <3>1. PICK dx \in -Stride .. Stride, dy \in -Stride .. Stride :
            ~check_collision(x + dx, y + dy) /\ x' = x + dx /\ y' = y + dy
          BY <2>2 DEF game_keyboard_handler
    <3>2. PICK px \in Int, py \in Int : px = x /\ py = y /\ ~check_collision(px, py)
          BY <1>1 DEF HeroInv, Free
    <3>3. get_cell(px + dx, py + dy) \in Around(get_cell(px, py))
          BY <1>1, <3>1, <3>2, NextCell DEF HeroInv
    <3>4. Here = get_cell(px, py) /\ Here' = get_cell(px + dx, py + dy)
          BY <3>1, <3>2 DEF Here, get_cell
    <3> QED BY <3>3, <3>4
  <2>3. CASE game_reset
        BY <2>3 DEF game_reset
  <2> QED BY <1>1, <2>1, <2>2, <2>3 DEF WalkNext, InitGame, wvars
<1> QED BY <1>1, HeroInvariant, PTL DEF WalkSpec, NoPhasing

-----------------------------------------------------------------------------
(* The exit.                                                               *)

\* A coordinate close to the last column is in it, or in the one before with
\* the probe ahead.
LEMMA LastColumn ==
    ASSUME NEW p \in Int, NEW i, NEW a, At(p, i, a), NEW n \in Nat, i < n,
           p >= (n - 1) * cell_size - size
    PROVE  i = n - 1 \/ (i = n - 2 /\ a + size >= cell_size)
<1>1. i \in Int /\ a \in Int /\ 0 <= a /\ a < cell_size /\ p = i * cell_size + a
      BY DEF At
<1> DEFINE k == n - 1 - i
<1>2. k \in Nat /\ (n - 1) * cell_size = i * cell_size + k * cell_size
      BY <1>1, Lengths
<1>3. k >= 2 => k * cell_size >= 2 * cell_size
      BY <1>2, Lengths
<1>4. i * cell_size \in Int /\ k * cell_size \in Int
      BY <1>1, <1>2, Lengths
<1>5. a + size >= k * cell_size
      BY <1>1, <1>2, <1>4, Lengths
<1>6. k = 0 \/ k = 1
      BY <1>1, <1>2, <1>3, <1>4, <1>5, Lengths
<1>7. k = 1 => a + size >= cell_size
      BY <1>5, Lengths
<1> QED BY <1>1, <1>6, <1>7

\* Once the maze is made, the last cell can be entered from the one above it
\* or beside it when both of these have been visited.
LEMMA ExitHasADoor ==
    ASSUME MazeInv, stack = <<>>, NEW cell \in Cell,
           SouthEast(cell) = <<maze_width - 1, maze_height - 1>>,
           "right" \notin wall[cell], "bottom" \notin wall[cell]
    PROVE  \/ SouthEast(cell) \in Around(Beyond(cell, "right"))
           \/ SouthEast(cell) \in Around(Beyond(cell, "bottom"))
<1> DEFINE last == SouthEast(cell)
           east == Beyond(cell, "right")
           south == Beyond(cell, "bottom")
<1>s. {"left", "right", "top", "bottom"} = Side
      BY DEF Side
<1>1. /\ last \in Cell /\ last # Start
      /\ Beyond(last, "right") \notin Cell /\ Beyond(last, "bottom") \notin Cell
  <2>1. cell[1] \in Nat /\ cell[2] \in Nat /\ last = <<maze_width - 1, maze_height - 1>>
        BY DEF Cell
  <2>2. maze_width - 1 = cell[1] + 1 /\ maze_height - 1 = cell[2] + 1
        BY <2>1 DEF SouthEast
  <2>3. /\ Beyond(last, "right") = <<(maze_width - 1) + 1, maze_height - 1>>
        /\ Beyond(last, "bottom") = <<maze_width - 1, (maze_height - 1) + 1>>
        BY <2>1 DEF Beyond
  <2> QED BY <2>1, <2>2, <2>3, MazeHasACell DEF Cell, Start
<1>2. /\ east \in Cell /\ south \in Cell
      /\ east = Beyond(last, "top") /\ south = Beyond(last, "left")
      BY <1>1, Corner
<1>3. Beyond(east, "bottom") = last /\ Beyond(south, "right") = last
  <2>1. /\ Beyond(Beyond(last, "top"), Opposite("top")) = last
        /\ Beyond(Beyond(last, "left"), Opposite("left")) = last
        BY <1>1, <1>s, BackAgain
  <2> QED BY <1>2, <2>1, OppositeIs
<1> HIDE DEF last, east, south
<1>4. visited[east]
  <2>1. "left" \notin wall[east]
        BY <1>2, <1>s, OppositeIs DEF MazeInv, WallsAgree, east
  <2> QED BY <1>2, <1>s, <2>1 DEF MazeInv, Closed
<1>5. visited[last]
  <2>1. ~OnStack(east)
        BY DEF OnStack
  <2>2. Neighbours(east) = {}
        BY <1>2, <1>4, <2>1 DEF MazeInv, NothingLeftBehind
  <2> QED BY <1>1, <1>3, <1>s, <2>2 DEF Neighbours
<1>6. PICK side \in Side : side \notin wall[last]
  <2>1. wall[last] # Side /\ wall[last] \subseteq Side
        BY <1>1, <1>5 DEF MazeInv, Entered, TypeOK
  <2> QED BY <2>1
<1>7. side = "left" \/ side = "top"
  <2>1. Beyond(last, side) \in Cell
        BY <1>1, <1>6 DEF MazeInv, WallsAgree
  <2> QED BY <1>1, <1>s, <2>1
<1>8. CASE side = "left"
  <2>1. "right" \notin wall[south]
        BY <1>1, <1>2, <1>6, <1>8, <1>s, OppositeIs DEF MazeInv, WallsAgree
  <2> QED BY <1>3, <1>s, <2>1 DEF Around, last, south
<1>9. CASE side = "top"
  <2>1. "bottom" \notin wall[east]
        BY <1>1, <1>2, <1>6, <1>9, <1>s, OppositeIs DEF MazeInv, WallsAgree
  <2> QED BY <1>3, <1>s, <2>1 DEF Around, last, east
<1> QED BY <1>7, <1>8, <1>9

LEMMA AroundSelf ==
    ASSUME NEW cell PROVE cell \in Around(cell)
BY DEF Around

\* Where check_game_end says that the hero has reached the exit, the last cell
\* is at most two open sides away, in a maze of any size: the region by pixels
\* reaches over walls, but the probes of check_collision keep the hero off.
THEOREM ExitIsNear == WalkSpec => []ExitIsAtHand
<1>1. HeroInv => ExitIsAtHand
  <2> SUFFICES ASSUME HeroInv, stack = <<>>, check_game_end(x, y)
               PROVE  \E cell \in Around(Here) :
                          <<maze_width - 1, maze_height - 1>> \in Around(cell)
      BY DEF ExitIsAtHand
  <2>1. PICK px \in Int, py \in Int : px = x /\ py = y /\ ~check_collision(px, py)
        BY DEF HeroInv, Free
  <2>2. PICK i \in Int, a \in Int : At(px, i, a)
        BY Everywhere
  <2>3. PICK j \in Int, b \in Int : At(py, j, b)
        BY Everywhere
  <2> DEFINE cell == <<i, j>>
             last == <<maze_width - 1, maze_height - 1>>
  <2>4. cell \in Cell /\ get_cell(px, py) = cell
    <3>1. cell \in Cell
          BY <2>1, <2>2, <2>3, FreeIsInside
    <3> QED BY <2>2, <2>3, <3>1, CellAt
  <2>5. Here = cell
        BY <2>1, <2>4 DEF Here
  <2>6. MazeInv /\ WallsAgree
        BY DEF HeroInv, MazeInv
  <2>7. \A side \in Side : Past(side, a, b) => side \notin wall[cell]
        BY <2>1, <2>2, <2>3, <2>4, <2>6, FreeSides
  <2>8. /\ i < maze_width /\ j < maze_height
        /\ px >= (maze_width - 1) * cell_size - size
        /\ py >= (maze_height - 1) * cell_size - size
        BY <2>1, <2>4, MazeHasACell DEF check_game_end, Cell
  <2>9. /\ i = maze_width - 1 \/ (i = maze_width - 2 /\ "right" \notin wall[cell])
        /\ j = maze_height - 1 \/ (j = maze_height - 2 /\ "bottom" \notin wall[cell])
    <3>1. /\ i = maze_width - 1 \/ (i = maze_width - 2 /\ a + size >= cell_size)
          /\ j = maze_height - 1 \/ (j = maze_height - 2 /\ b + size >= cell_size)
          BY <2>2, <2>3, <2>8, Lengths, LastColumn
    <3>2. /\ Past("right", a, b) <=> a + size >= cell_size
          /\ Past("bottom", a, b) <=> b + size >= cell_size
          BY DEF Past
    <3> QED BY <2>7, <3>1, <3>2 DEF Side
  <2>10. /\ Beyond(cell, "right") = <<i + 1, j>> /\ Beyond(cell, "bottom") = <<i, j + 1>>
         /\ SouthEast(cell) = <<i + 1, j + 1>>
        BY DEF Beyond, SouthEast
  <2>11. /\ "right" \notin wall[cell] => Beyond(cell, "right") \in Around(cell)
         /\ "bottom" \notin wall[cell] => Beyond(cell, "bottom") \in Around(cell)
        BY DEF Around, Side
  <2> HIDE DEF cell, last
  <2>12. CASE i = maze_width - 1 /\ j = maze_height - 1
        BY <2>5, <2>12, AroundSelf DEF cell, last
  <2>13. CASE i = maze_width - 2 /\ j = maze_height - 1 /\ "right" \notin wall[cell]
    <3>1. Beyond(cell, "right") = last
          BY <2>10, <2>13, Lengths DEF last
    <3> QED BY <2>5, <2>11, <2>13, <3>1, AroundSelf DEF last
  <2>14. CASE i = maze_width - 1 /\ j = maze_height - 2 /\ "bottom" \notin wall[cell]
    <3>1. Beyond(cell, "bottom") = last
          BY <2>10, <2>14, Lengths DEF last
    <3> QED BY <2>5, <2>11, <2>14, <3>1, AroundSelf DEF last
  <2>15. CASE /\ i = maze_width - 2 /\ "right" \notin wall[cell]
              /\ j = maze_height - 2 /\ "bottom" \notin wall[cell]
    <3>1. SouthEast(cell) = last
          BY <2>10, <2>15, Lengths DEF last
    <3>2. \/ last \in Around(Beyond(cell, "right"))
          \/ last \in Around(Beyond(cell, "bottom"))
          BY <2>4, <2>6, <2>15, <3>1, ExitHasADoor DEF last
    <3> QED BY <2>5, <2>11, <2>15, <3>2 DEF last
  <2> QED BY <2>9, <2>12, <2>13, <2>14, <2>15
<1> QED BY <1>1, HeroInvariant, PTL

-----------------------------------------------------------------------------
(* The way through.                                                        *)

\* From the middle of a column forward: off its beginning, or in the next one
\* and off the end of that.
LEMMA Forward ==
    ASSUME NEW p \in Int, NEW i, At(p, i, Middle), NEW k \in 0 .. cell_size
    PROVE  \E a \in Int : \/ At(p + k, i, a) /\ ~(a < size)
                          \/ At(p + k, i + 1, a) /\ ~(a + size >= cell_size)
<1>1. /\ Middle \in Int /\ k \in Int /\ 0 <= k /\ k <= cell_size
      /\ size <= Middle /\ Middle + size < cell_size /\ Middle >= 0
      BY MiddleAt, Lengths
<1>2. /\ Middle + k < cell_size => At(p + k, i, Middle + k)
      /\ Middle + k >= cell_size => At(p + k, i + 1, Middle + k - cell_size)
  <2>1. Middle + k >= 0 /\ -cell_size <= k
        BY <1>1, Lengths
  <2> QED BY <1>1, <2>1, Moved
<1>3. CASE Middle + k < cell_size
  <2>1. Middle + k \in Int /\ ~(Middle + k < size)
        BY <1>1, Lengths
  <2> QED BY <1>2, <1>3, <2>1
<1>4. CASE Middle + k >= cell_size
  <2>1. Middle + k - cell_size \in Int /\ ~((Middle + k - cell_size) + size >= cell_size)
        BY <1>1, Lengths
  <2> QED BY <1>2, <1>4, <2>1
<1> QED BY <1>1, <1>3, <1>4, Lengths

\* And backward.
LEMMA Backward ==
    ASSUME NEW p \in Int, NEW i, At(p, i, Middle), NEW k \in 0 .. cell_size
    PROVE  \E a \in Int : \/ At(p - k, i, a) /\ ~(a + size >= cell_size)
                          \/ At(p - k, i - 1, a) /\ ~(a < size)
<1>1. PICK d \in Int : d = -k
      BY Lengths
<1>2. /\ Middle \in Int /\ d <= 0 /\ -cell_size <= d /\ d <= cell_size
      /\ size <= Middle /\ Middle + size < cell_size /\ Middle >= 0
      /\ p - k = p + d
      BY <1>1, MiddleAt, Lengths
<1>3. /\ Middle + d >= 0 => At(p + d, i, Middle + d)
      /\ Middle + d < 0 => At(p + d, i - 1, Middle + d + cell_size)
  <2>1. Middle + d < cell_size
        BY <1>2, Lengths
  <2> QED BY <1>2, <2>1, Moved
<1>4. CASE Middle + d >= 0
  <2>1. Middle + d \in Int /\ ~((Middle + d) + size >= cell_size)
        BY <1>2, Lengths
  <2> QED BY <1>2, <1>3, <1>4, <2>1
<1>5. CASE Middle + d < 0
  <2>1. Middle + d + cell_size \in Int /\ ~(Middle + d + cell_size < size)
        BY <1>2, Lengths
  <2> QED BY <1>2, <1>3, <1>5, <2>1
<1> QED BY <1>2, <1>4, <1>5, Lengths

\* A place with one probe at most behind a side, and that side open, is free.
LEMMA Fits ==
    ASSUME WallsAgree, NEW px \in Int, NEW py \in Int, NEW i, NEW a, NEW j, NEW b,
           At(px, i, a), At(py, j, b), <<i, j>> \in Cell,
           NEW side, side \notin wall[<<i, j>>],
           \A other \in Side : other # side => ~Past(other, a, b)
    PROVE  ~check_collision(px, py)
BY FreeSides

\* Which probes are not behind their sides.
LEMMA OnlyPast ==
    ASSUME NEW a \in Int, NEW b \in Int
    PROVE  /\ /\ ~(a < size) /\ ~(b < size) /\ ~(b + size >= cell_size)
              => \A other \in Side : other # "right" => ~Past(other, a, b)
           /\ /\ ~(a + size >= cell_size) /\ ~(b < size) /\ ~(b + size >= cell_size)
              => \A other \in Side : other # "left" => ~Past(other, a, b)
           /\ /\ ~(b < size) /\ ~(a < size) /\ ~(a + size >= cell_size)
              => \A other \in Side : other # "bottom" => ~Past(other, a, b)
           /\ /\ ~(b + size >= cell_size) /\ ~(a < size) /\ ~(a + size >= cell_size)
              => \A other \in Side : other # "top" => ~Past(other, a, b)
<1>1. /\ Past("left", a, b) <=> a < size
      /\ Past("right", a, b) <=> a + size >= cell_size
      /\ Past("top", a, b) <=> b < size
      /\ Past("bottom", a, b) <=> b + size >= cell_size
      BY DEF Past
<1>2. Side = {"left", "right", "top", "bottom"}
      BY DEF Side
<1> QED BY <1>1, <1>2

\* The hero fits through an open side.
LEMMA Passage ==
    ASSUME WallsAgree, NEW cell \in Cell, NEW side \in Side, side \notin wall[cell],
           NEW k \in 0 .. cell_size
    PROVE  ~check_collision(Towards(cell, side, k)[1], Towards(cell, side, k)[2])
<1> DEFINE i == cell[1]
           j == cell[2]
           mx == i * cell_size + Middle
           my == j * cell_size + Middle
           next == Beyond(cell, side)
<1>1. /\ i \in Int /\ j \in Int /\ cell = <<i, j>>
      /\ side = "left" => next = <<i - 1, j>>
      /\ side = "right" => next = <<i + 1, j>>
      /\ side = "top" => next = <<i, j - 1>>
      /\ side = "bottom" => next = <<i, j + 1>>
      BY Grid
<1>2. next \in Cell /\ Opposite(side) \notin wall[next]
      BY DEF WallsAgree
<1>3. /\ mx \in Int /\ my \in Int /\ Middle \in Int
      /\ ~(Middle < size) /\ ~(Middle + size >= cell_size)
      /\ At(mx, i, Middle) /\ At(my, j, Middle)
  <2>1. At(mx, i, Middle) /\ At(my, j, Middle)
        BY <1>1, MiddleAt, Lengths DEF At
  <2> QED BY <1>1, <2>1, MiddleAt, Lengths
<1>4. mx + k \in Int /\ mx - k \in Int /\ my + k \in Int /\ my - k \in Int
      BY <1>3, Lengths
<1> HIDE DEF i, j, mx, my, next
<1>5. CASE side = "right"
  <2>1. Towards(cell, side, k) = <<mx + k, my>>
        BY <1>5 DEF Towards, mx, my, i, j
  <2>2. PICK a \in Int : \/ At(mx + k, i, a) /\ ~(a < size)
                         \/ At(mx + k, i + 1, a) /\ ~(a + size >= cell_size)
        BY <1>3, Forward
  <2>3. CASE At(mx + k, i, a) /\ ~(a < size)
    <3>1. \A other \in Side : other # "right" => ~Past(other, a, Middle)
          BY <1>3, <2>3, OnlyPast
    <3>2. ~check_collision(mx + k, my)
          BY <1>1, <1>3, <1>4, <1>5, <2>3, <3>1, Fits
    <3> QED BY <2>1, <3>2
  <2>4. CASE At(mx + k, i + 1, a) /\ ~(a + size >= cell_size)
    <3>1. \A other \in Side : other # "left" => ~Past(other, a, Middle)
          BY <1>3, <2>4, OnlyPast
    <3>2. <<i + 1, j>> \in Cell /\ "left" \notin wall[<<i + 1, j>>]
          BY <1>1, <1>2, <1>5, OppositeIs
    <3>3. ~check_collision(mx + k, my)
          BY <1>1, <1>3, <1>4, <2>4, <3>1, <3>2, Fits
    <3> QED BY <2>1, <3>3
  <2> QED BY <2>2, <2>3, <2>4
<1>6. CASE side = "left"
  <2>1. Towards(cell, side, k) = <<mx - k, my>>
        BY <1>6 DEF Towards, mx, my, i, j
  <2>2. PICK a \in Int : \/ At(mx - k, i, a) /\ ~(a + size >= cell_size)
                         \/ At(mx - k, i - 1, a) /\ ~(a < size)
        BY <1>3, Backward
  <2>3. CASE At(mx - k, i, a) /\ ~(a + size >= cell_size)
    <3>1. \A other \in Side : other # "left" => ~Past(other, a, Middle)
          BY <1>3, <2>3, OnlyPast
    <3>2. ~check_collision(mx - k, my)
          BY <1>1, <1>3, <1>4, <1>6, <2>3, <3>1, Fits
    <3> QED BY <2>1, <3>2
  <2>4. CASE At(mx - k, i - 1, a) /\ ~(a < size)
    <3>1. \A other \in Side : other # "right" => ~Past(other, a, Middle)
          BY <1>3, <2>4, OnlyPast
    <3>2. <<i - 1, j>> \in Cell /\ "right" \notin wall[<<i - 1, j>>]
          BY <1>1, <1>2, <1>6, OppositeIs
    <3>3. ~check_collision(mx - k, my)
          BY <1>1, <1>3, <1>4, <2>4, <3>1, <3>2, Fits
    <3> QED BY <2>1, <3>3
  <2> QED BY <2>2, <2>3, <2>4
<1>7. CASE side = "bottom"
  <2>1. Towards(cell, side, k) = <<mx, my + k>>
        BY <1>7 DEF Towards, mx, my, i, j
  <2>2. PICK b \in Int : \/ At(my + k, j, b) /\ ~(b < size)
                         \/ At(my + k, j + 1, b) /\ ~(b + size >= cell_size)
        BY <1>3, Forward
  <2>3. CASE At(my + k, j, b) /\ ~(b < size)
    <3>1. \A other \in Side : other # "bottom" => ~Past(other, Middle, b)
          BY <1>3, <2>3, OnlyPast
    <3>2. ~check_collision(mx, my + k)
          BY <1>1, <1>3, <1>4, <1>7, <2>3, <3>1, Fits
    <3> QED BY <2>1, <3>2
  <2>4. CASE At(my + k, j + 1, b) /\ ~(b + size >= cell_size)
    <3>1. \A other \in Side : other # "top" => ~Past(other, Middle, b)
          BY <1>3, <2>4, OnlyPast
    <3>2. <<i, j + 1>> \in Cell /\ "top" \notin wall[<<i, j + 1>>]
          BY <1>1, <1>2, <1>7, OppositeIs
    <3>3. ~check_collision(mx, my + k)
          BY <1>1, <1>3, <1>4, <2>4, <3>1, <3>2, Fits
    <3> QED BY <2>1, <3>3
  <2> QED BY <2>2, <2>3, <2>4
<1>8. CASE side = "top"
  <2>1. Towards(cell, side, k) = <<mx, my - k>>
        BY <1>8 DEF Towards, mx, my, i, j
  <2>2. PICK b \in Int : \/ At(my - k, j, b) /\ ~(b + size >= cell_size)
                         \/ At(my - k, j - 1, b) /\ ~(b < size)
        BY <1>3, Backward
  <2>3. CASE At(my - k, j, b) /\ ~(b + size >= cell_size)
    <3>1. \A other \in Side : other # "top" => ~Past(other, Middle, b)
          BY <1>3, <2>3, OnlyPast
    <3>2. ~check_collision(mx, my - k)
          BY <1>1, <1>3, <1>4, <1>8, <2>3, <3>1, Fits
    <3> QED BY <2>1, <3>2
  <2>4. CASE At(my - k, j - 1, b) /\ ~(b < size)
    <3>1. \A other \in Side : other # "bottom" => ~Past(other, Middle, b)
          BY <1>3, <2>4, OnlyPast
    <3>2. <<i, j - 1>> \in Cell /\ "bottom" \notin wall[<<i, j - 1>>]
          BY <1>1, <1>2, <1>8, OppositeIs
    <3>3. ~check_collision(mx, my - k)
          BY <1>1, <1>3, <1>4, <2>4, <3>1, <3>2, Fits
    <3> QED BY <2>1, <3>3
  <2> QED BY <2>2, <2>3, <2>4
<1> QED BY <1>5, <1>6, <1>7, <1>8 DEF Side

\* In a maze of any size the hero fits through every open side from the middle
\* of a cell to the middle of the next, and the middle of the last cell is the
\* exit for check_game_end.  (That the open sides join all cells is
\* MazeIsPerfect.)
THEOREM EveryOpenSideIsAWay == WalkSpec => []MazeCanBeWon
<1>1. HeroInv => MazeCanBeWon
  <2> SUFFICES ASSUME HeroInv
               PROVE  /\ \A cell \in Cell : \A side \in Side \ wall[cell] :
                             \A k \in 0 .. cell_size :
                                 ~check_collision(Towards(cell, side, k)[1],
                                                  Towards(cell, side, k)[2])
                      /\ check_game_end((maze_width - 1) * cell_size + Middle,
                                        (maze_height - 1) * cell_size + Middle)
      BY DEF MazeCanBeWon
  <2>1. WallsAgree
        BY DEF HeroInv, MazeInv
  <2>2. ASSUME NEW cell \in Cell, NEW side \in Side \ wall[cell], NEW k \in 0 .. cell_size
        PROVE  ~check_collision(Towards(cell, side, k)[1], Towards(cell, side, k)[2])
    <3>1. side \in Side /\ side \notin wall[cell]
          OBVIOUS
    <3> QED BY <2>1, <3>1, Passage
  <2>3. check_game_end((maze_width - 1) * cell_size + Middle,
                       (maze_height - 1) * cell_size + Middle)
    <3>1. (maze_width - 1) * cell_size \in Int /\ (maze_height - 1) * cell_size \in Int
          BY Lengths
    <3> QED BY <3>1, MiddleAt, Lengths DEF check_game_end
  <2> QED BY <2>2, <2>3
<1> QED BY <1>1, HeroInvariant, PTL

-----------------------------------------------------------------------------
(* The maze and its solution, as the hero finds them.                      *)

LEMMA WalkSolves == WalkSpec => SolverSpec
<1>1. WalkInit => SolverInit
      BY DEF WalkInit
<1>2. [WalkNext]_wvars => [SolverNext]_svars
      BY DEF WalkNext, InitGame, wvars, svars
<1> QED BY <1>1, <1>2, PTL DEF WalkSpec, SolverSpec

\* The way from the start to the exit that draw_solution shows can be walked:
\* from the middle of each of its cells to the middle of the one before in the
\* list the hero meets no wall.
SolutionCanBeWalked ==
    Returned =>
        LET way == Items(solution)
        IN \A i \in 1 .. Len(way) - 1 :
              \E side \in Side :
                 /\ Beyond(way[i + 1], side) = way[i]
                 /\ \A k \in 0 .. cell_size :
                       ~check_collision(Towards(way[i + 1], side, k)[1],
                                        Towards(way[i + 1], side, k)[2])

\* The maze in which the hero walks is perfect, and what get_solution returns
\* for it is the shortest way to the exit, which the hero can walk.
THEOREM SolutionIsWalkable ==
    WalkSpec => [](PerfectMaze /\ SolutionIsTheWay /\ SolutionCanBeWalked)
<1>1. SolverInv /\ SolutionIsTheWay => SolutionCanBeWalked
  <2> SUFFICES ASSUME SolverInv, SolutionIsTheWay, Returned,
                      NEW i \in 1 .. Len(Items(solution)) - 1
               PROVE  LET way == Items(solution)
                      IN \E side \in Side :
                            /\ Beyond(way[i + 1], side) = way[i]
                            /\ \A k \in 0 .. cell_size :
                                  ~check_collision(Towards(way[i + 1], side, k)[1],
                                                   Towards(way[i + 1], side, k)[2])
      BY DEF SolutionCanBeWalked
  <2> DEFINE way == Items(solution)
  <2>1. way \in Seq(Cell) /\ Len(way) \in Nat /\ WallsAgree
        BY DEF SolverInv, GrowthInv, SearchInv, TraceInv, LeadsToLast, Leads
  <2>2. Opens(way[i], way[i + 1])
        BY DEF SolutionIsTheWay, Opens
  <2> HIDE DEF way
  <2>3. i \in 1 .. Len(way) /\ i + 1 \in 1 .. Len(way)
        BY <2>1 DEF way
  <2>4. way[i] \in Cell /\ way[i + 1] \in Cell
        BY <2>1, <2>3
  <2>5. PICK side \in Side : side \notin wall[way[i + 1]] /\ Beyond(way[i + 1], side) = way[i]
        BY <2>1, <2>2, <2>4, OpensBack DEF Opens
  <2>6. \A k \in 0 .. cell_size : ~check_collision(Towards(way[i + 1], side, k)[1],
                                                   Towards(way[i + 1], side, k)[2])
        BY <2>1, <2>4, <2>5, Passage
  <2> QED BY <2>5, <2>6 DEF way
<1>2. SolverSpec => Spec
  <2>1. SolverInit => Init
        BY DEF SolverInit
  <2>2. [SolverNext]_svars => [Next]_vars
        BY DEF SolverNext, svars
  <2> QED BY <2>1, <2>2, PTL DEF SolverSpec, Spec
<1> QED BY <1>1, <1>2, WalkSolves, SolverInvariant, SolutionLeadsHome, MazeIsPerfect, PTL
=============================================================================
