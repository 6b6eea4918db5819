----------------------------- MODULE MazeProofs -----------------------------
(***************************************************************************)
(* Proofs about game/maze.c, for every size of the maze: generate_maze     *)
(* makes a perfect maze, and get_solution finds the shortest way through   *)
(* it.                                                                     *)
(***************************************************************************)
EXTENDS MazeSolver, TLAPS, WellFoundedInduction, FiniteSetTheorems, SequenceTheorems

-----------------------------------------------------------------------------
(* Induction and recursion over the natural numbers, about sets and        *)
(* functions.                                                              *)

\* Every set of natural numbers but the empty one has a least member.
LEMMA LeastOf ==
    ASSUME NEW S \in SUBSET Nat, S # {}
    PROVE  \E m \in S : \A n \in S : m <= n
<1>1. PICK m \in S : \A n \in S : <<n, m>> \notin OpToRel(<, Nat)
      BY NatLessThanWellFounded, WFMin
<1>2. \A n \in S : ~(n < m)
      BY <1>1 DEF OpToRel
<1> QED BY <1>2

\* A set that holds 0 and the successor of each of its numbers is Nat: the
\* least number outside of it would have a predecessor outside.
LEMMA SetInduction ==
    ASSUME NEW S \in SUBSET Nat, 0 \in S, \A n \in S : n + 1 \in S
    PROVE  S = Nat
<1> SUFFICES ASSUME Nat \ S # {} PROVE FALSE
      OBVIOUS
<1>1. PICK m \in Nat \ S : \A n \in Nat \ S : m <= n
      BY LeastOf
<1>2. m \in Nat /\ m \notin S /\ m # 0
      BY <1>1
<1>3. m - 1 \in Nat /\ ~(m <= m - 1) /\ (m - 1) + 1 = m
      BY <1>2
<1>4. m - 1 \in S
      BY <1>1, <1>3
<1> QED BY <1>2, <1>3, <1>4

\* A value and a step define a function of the natural numbers.
LEMMA Recursion ==
    ASSUME NEW S, NEW a \in S, NEW step \in [S -> S]
    PROVE  \E f \in [Nat -> S] : f[0] = a /\ \A n \in Nat : f[n + 1] = step[f[n]]
<1> DEFINE Good(n, g) == /\ g \in [0 .. n -> S] /\ g[0] = a
                         /\ \A i \in 0 .. n - 1 : g[i + 1] = step[g[i]]
           G == {n \in Nat : \E g : Good(n, g)}
<1>1. G = Nat
  <2>1. 0 \in G
    <3>1. Good(0, [i \in 0 .. 0 |-> a])
          OBVIOUS
    <3> QED BY <3>1
  <2>2. ASSUME NEW n \in G PROVE n + 1 \in G
    <3>1. PICK g : Good(n, g)
          OBVIOUS
    <3> DEFINE h == [i \in 0 .. n + 1 |-> IF i = n + 1 THEN step[g[n]] ELSE g[i]]
    <3>2. Good(n + 1, h)
      <4>1. h \in [0 .. n + 1 -> S]
            BY <3>1
      <4>2. h[0] = a
            BY <3>1
      <4>3. ASSUME NEW i \in 0 .. (n + 1) - 1 PROVE h[i + 1] = step[h[i]]
            BY <3>1
      <4> QED BY <4>1, <4>2, <4>3
    <3> HIDE DEF h, Good
    <3>3. \E k : Good(n + 1, k)
          BY <3>2
    <3> QED BY <3>3
  <2> HIDE DEF G
  <2>3. G \in SUBSET Nat
        BY DEF G
  <2> QED BY <2>1, <2>2, <2>3, SetInduction
<1>2. ASSUME NEW n \in Nat, NEW m \in Nat, NEW g, NEW h, Good(n, g), Good(m, h), n <= m
      PROVE  g[n] = h[n]
  <2> DEFINE E == {i \in Nat : i <= n => g[i] = h[i]}
  <2>1. 0 \in E
        BY <1>2
  <2>2. ASSUME NEW i \in E PROVE i + 1 \in E
    <3>1. CASE i + 1 <= n
          BY <1>2, <2>2, <3>1
    <3> QED BY <3>1
  <2> HIDE DEF E
  <2>3. E \in SUBSET Nat
        BY DEF E
  <2>4. E = Nat
        BY <2>1, <2>2, <2>3, SetInduction
  <2> QED BY <2>4 DEF E
<1> DEFINE part(n) == CHOOSE g : Good(n, g)
           f == [n \in Nat |-> part(n)[n]]
<1>3. ASSUME NEW n \in Nat PROVE Good(n, part(n))
  <2>1. \E g : Good(n, g)
        BY <1>1
  <2> HIDE DEF Good
  <2> QED BY <2>1
<1> HIDE DEF part
<1>4. f \in [Nat -> S]
      BY <1>3
<1>5. f[0] = a
      BY <1>3
<1>6. ASSUME NEW n \in Nat PROVE f[n + 1] = step[f[n]]
  <2>1. n + 1 \in Nat /\ n <= n + 1 /\ Good(n, part(n)) /\ Good(n + 1, part(n + 1))
        BY <1>3
  <2>2. part(n + 1)[n + 1] = step[part(n + 1)[n]]
        BY <2>1
  <2> HIDE DEF Good
  <2>3. part(n)[n] = part(n + 1)[n]
        BY <1>2, <2>1
  <2> QED BY <2>2, <2>3
<1> QED BY <1>4, <1>5, <1>6

-----------------------------------------------------------------------------
(* The grid.                                                               *)

\* The start is a cell: the maze has a row and a column.
LEMMA StartIsCell == Start \in Cell
  BY MazeHasACell DEF Start, Cell

LEMMA OppositeSide ==
  ASSUME NEW s \in Side
  PROVE  /\ Opposite(s) \in Side
         /\ Opposite(Opposite(s)) = s
  BY DEF Side, Opposite

\* One step to a side and one back lead home.
LEMMA BackAgain ==
  ASSUME NEW a \in Cell, NEW s \in Side
  PROVE  Beyond(Beyond(a, s), Opposite(s)) = a /\ Beyond(a, s) # a
<1>1. PICK i \in Int, j \in Int : a = <<i, j>>
  BY MazeHasACell DEF Cell
<1>2. CASE s = "left"
  BY <1>1, <1>2 DEF Beyond, Opposite
<1>3. CASE s = "right"
  BY <1>1, <1>3 DEF Beyond, Opposite
<1>4. CASE s = "top"
  BY <1>1, <1>4 DEF Beyond, Opposite
<1>5. CASE s = "bottom"
  BY <1>1, <1>5 DEF Beyond, Opposite
<1> QED  BY <1>2, <1>3, <1>4, <1>5 DEF Side

-----------------------------------------------------------------------------
(* Type correctness.                                                       *)

LEMMA HeadTail ==
  ASSUME NEW S, NEW q \in Seq(S), q # <<>>
  PROVE  /\ Head(q) \in S
         /\ Tail(q) \in Seq(S)
         /\ Len(q) \in Nat /\ Len(q) > 0
         /\ Len(Tail(q)) = Len(q) - 1
         /\ q[1] = Head(q)
         /\ \A i \in 1 .. Len(q) - 1 : Tail(q)[i] = q[i + 1]
  OBVIOUS

\* What is on the stack after a cell is pushed.
LEMMA PutOnTop ==
  ASSUME NEW S, NEW q \in Seq(S), NEW e \in S
  PROVE  /\ <<e>> \o q \in Seq(S)
         /\ Len(<<e>> \o q) = Len(q) + 1
         /\ (<<e>> \o q)[1] = e
         /\ \A i \in 1 .. Len(q) : (<<e>> \o q)[i + 1] = q[i]
  OBVIOUS

LEMMA TypeStep ==
  ASSUME TypeOK, [Next]_vars
  PROVE  TypeOK'
<1>1. CASE Carve
  <2>1. PICK side \in Neighbours(Head(stack)) :
            /\ RemoveWall(Head(stack), side)
            /\ visited' = [visited EXCEPT ![Beyond(Head(stack), side)] = TRUE]
            /\ Descend(Head(stack), side)
    BY <1>1 DEF Carve
  <2>2. stack # <<>>  BY <1>1 DEF Carve
  <2>3. Head(stack) \in Cell /\ Beyond(Head(stack), side) \in Cell
    BY <2>1, <2>2, HeadTail DEF TypeOK, Neighbours
  <2>4. stack' \in Seq(Cell)
    BY <2>1, <2>3, PutOnTop DEF Descend, TypeOK
  <2>5. wall' \in [Cell -> SUBSET Side]
    BY <2>1, <2>3 DEF RemoveWall, TypeOK
  <2>6. visited' \in [Cell -> BOOLEAN]
    BY <2>1 DEF TypeOK
  <2> QED  BY <2>4, <2>5, <2>6 DEF TypeOK
<1>2. CASE Backtrack
  BY <1>2, HeadTail DEF Backtrack, TypeOK
<1>3. CASE UNCHANGED vars
  BY <1>3 DEF vars, TypeOK
<1> QED  BY <1>1, <1>2, <1>3 DEF Next

\* Walls, marks and stack are those of the grid's cells, for every grid
\* (the border tests of generate_maze).
THEOREM TypeCorrect == Spec => []TypeOK
<1>1. Init => TypeOK
  BY StartIsCell DEF Init, TypeOK
<1> QED  BY <1>1, TypeStep, PTL DEF Spec

-----------------------------------------------------------------------------
(* One turn of the loop, as the proofs below look at it.                   *)

\* What a turn that opens a wall does: here is the cell popped, next the
\* neighbour chosen.
LEMMA CarveStep ==
  ASSUME TypeOK, Carve
  PROVE  \E side \in Side :
            LET here == Head(stack)
                next == Beyond(here, side)
            IN /\ stack # <<>>
               /\ here \in Cell /\ next \in Cell /\ ~visited[next]
               /\ wall' = [wall EXCEPT ![here] = @ \ {side},
                                       ![next] = @ \ {Opposite(side)}]
               /\ visited' = [visited EXCEPT ![next] = TRUE]
               /\ stack' = <<next>> \o stack
<1>1. PICK side \in Neighbours(Head(stack)) :
          /\ RemoveWall(Head(stack), side)
          /\ visited' = [visited EXCEPT ![Beyond(Head(stack), side)] = TRUE]
          /\ Descend(Head(stack), side)
  BY DEF Carve
<1>2. stack # <<>>  BY DEF Carve
<1>3. Head(stack) \in Cell  BY <1>2, HeadTail DEF TypeOK
<1>4. /\ side \in Side
      /\ Beyond(Head(stack), side) \in Cell
      /\ ~visited[Beyond(Head(stack), side)]
  BY DEF Neighbours
<1> QED  BY <1>1, <1>2, <1>3, <1>4 DEF RemoveWall, Descend

\* Which walls stand after the turn.
LEMMA WallsAfter ==
  ASSUME NEW w \in [Cell -> SUBSET Side], NEW a \in Cell, NEW s \in Side,
         Beyond(a, s) \in Cell,
         NEW cell \in Cell, NEW side \in Side
  PROVE  LET after == [w EXCEPT ![a] = @ \ {s},
                                ![Beyond(a, s)] = @ \ {Opposite(s)}]
         IN (side \in after[cell]) <=>
              /\ side \in w[cell]
              /\ ~(cell = a /\ side = s)
              /\ ~(cell = Beyond(a, s) /\ side = Opposite(s))
<1> DEFINE b == Beyond(a, s)
           after == [w EXCEPT ![a] = @ \ {s}, ![b] = @ \ {Opposite(s)}]
<1>1. a # b /\ b \in Cell  BY BackAgain
<1>2. CASE cell = a
  <2>1. after[cell] = w[cell] \ {s}  BY <1>1, <1>2
  <2> QED  BY <1>1, <1>2, <2>1
<1>3. CASE cell = b
  <2>1. after[cell] = w[cell] \ {Opposite(s)}  BY <1>1, <1>3
  <2> QED  BY <1>1, <1>3, <2>1
<1>4. CASE cell # a /\ cell # b
  BY <1>4
<1> QED  BY <1>2, <1>3, <1>4

-----------------------------------------------------------------------------
(* Both cells agree on the wall between them.                              *)

LEMMA WallsStep ==
  ASSUME TypeOK, WallsAgree, [Next]_vars
  PROVE  WallsAgree'
<1>1. CASE Carve
  <2>1. PICK s \in Side :
          /\ Head(stack) \in Cell /\ Beyond(Head(stack), s) \in Cell
          /\ wall' = [wall EXCEPT ![Head(stack)] = @ \ {s},
                                  ![Beyond(Head(stack), s)] = @ \ {Opposite(s)}]
    BY <1>1, CarveStep
  <2> DEFINE a == Head(stack)
             b == Beyond(a, s)
             Opened(cell, side) == \/ cell = a /\ side = s
                                   \/ cell = b /\ side = Opposite(s)
  <2>2. \A cell \in Cell, side \in Side :
           (side \in wall'[cell]) <=> (side \in wall[cell] /\ ~Opened(cell, side))
    BY <2>1, WallsAfter DEF TypeOK
  <2>3. \A side \in Side : Opposite(side) \in Side /\ Opposite(Opposite(side)) = side
    BY OppositeSide
  <2>4. \A cell \in Cell, side \in Side :
           Beyond(Beyond(cell, side), Opposite(side)) = cell
    BY BackAgain
  <2>5. a \in Cell /\ b \in Cell /\ Beyond(b, Opposite(s)) = a
    BY <2>1, <2>4
  <2> HIDE DEF a, b
  <2>6. ASSUME NEW cell \in Cell, NEW side \in Side, Beyond(cell, side) \in Cell
        PROVE  Opened(cell, side) <=> Opened(Beyond(cell, side), Opposite(side))
    <3>1. b = Beyond(a, s)  BY DEF b
    <3>2. Beyond(Beyond(cell, side), Opposite(side)) = cell  BY <2>4
    <3>3. Opposite(Opposite(side)) = side /\ Opposite(Opposite(s)) = s  BY <2>3
    <3> QED  BY <2>5, <3>1, <3>2, <3>3
  <2>7. ASSUME NEW cell \in Cell, NEW side \in Side, Beyond(cell, side) \notin Cell
        PROVE  ~Opened(cell, side)
    BY <2>5, <2>7 DEF b
  <2>8. ASSUME NEW cell \in Cell, NEW side \in Side
        PROVE  IF Beyond(cell, side) \in Cell
               THEN side \in wall'[cell] <=> Opposite(side) \in wall'[Beyond(cell, side)]
               ELSE side \in wall'[cell]
    <3> HIDE DEF Opened
    <3>1. CASE Beyond(cell, side) \in Cell
      <4>1. side \in wall[cell] <=> Opposite(side) \in wall[Beyond(cell, side)]
        BY <3>1 DEF WallsAgree
      <4>2. Opened(cell, side) <=> Opened(Beyond(cell, side), Opposite(side))
        BY <2>6, <3>1
      <4> QED  BY <2>2, <2>3, <3>1, <4>1, <4>2
    <3>2. CASE Beyond(cell, side) \notin Cell
      BY <2>2, <2>7, <3>2 DEF WallsAgree
    <3> QED  BY <3>1, <3>2
  <2> QED  BY <2>8 DEF WallsAgree
<1>2. CASE Backtrack
  BY <1>2 DEF Backtrack, WallsAgree
<1>3. CASE UNCHANGED vars
  BY <1>3 DEF vars, WallsAgree
<1> QED  BY <1>1, <1>2, <1>3 DEF Next

\* In a maze of any size the two cells beside a wall agree on it, and the
\* outer walls stand: the double marks that generate_maze keeps by hand in
\* the four branches of its wall removal.
THEOREM WallsStayAgreed == Spec => []WallsAgree
<1>1. Init => WallsAgree
  BY OppositeSide DEF Init, WallsAgree
<1> QED  BY <1>1, TypeCorrect, WallsStep, PTL DEF Spec

-----------------------------------------------------------------------------
(* No cell is left behind.                                                 *)

\* The stack holds cells that were visited.
StackIsVisited == \A i \in 1 .. Len(stack) : visited[stack[i]]

LEMMA BehindStep ==
  ASSUME TypeOK, StackIsVisited, NothingLeftBehind, [Next]_vars
  PROVE  StackIsVisited' /\ NothingLeftBehind'
<1>1. CASE Carve
  <2>1. PICK s \in Side :
          /\ stack # <<>>
          /\ Beyond(Head(stack), s) \in Cell
          /\ visited' = [visited EXCEPT ![Beyond(Head(stack), s)] = TRUE]
          /\ stack' = <<Beyond(Head(stack), s)>> \o stack
    BY <1>1, CarveStep
  <2> DEFINE b == Beyond(Head(stack), s)
  <2>2. /\ Len(stack) \in Nat
        /\ Len(stack') = Len(stack) + 1
        /\ stack'[1] = b
        /\ \A i \in 1 .. Len(stack) : stack'[i + 1] = stack[i]
    BY <2>1, PutOnTop DEF TypeOK
  <2>3. \A cell \in Cell : visited'[cell] <=> (visited[cell] \/ cell = b)
    BY <2>1 DEF TypeOK
  <2>4. b \in Cell /\ \A i \in 1 .. Len(stack) : stack[i] \in Cell
    BY <2>1 DEF TypeOK
  <2> HIDE DEF b
  <2>5. StackIsVisited'
    <3>1. ASSUME NEW i \in 1 .. Len(stack') PROVE visited'[stack'[i]]
      <4>1. CASE i = 1
        BY <2>2, <2>3, <2>4, <4>1
      <4>2. CASE i # 1
        <5>1. i - 1 \in 1 .. Len(stack) /\ (i - 1) + 1 = i  BY <2>2, <4>2
        <5>2. stack'[i] = stack[i - 1]  BY <2>2, <5>1
        <5> QED  BY <2>3, <2>4, <5>1, <5>2 DEF StackIsVisited
      <4> QED  BY <4>1, <4>2
    <3> QED  BY <3>1 DEF StackIsVisited
  <2>6. ASSUME NEW cell \in Cell, visited'[cell], ~OnStack(cell)'
        PROVE  Neighbours(cell)' = {}
    <3>1. cell # b  BY <2>2, <2>6 DEF OnStack
    <3>2. ~OnStack(cell)
      <4>1. SUFFICES ASSUME NEW i \in 1 .. Len(stack), stack[i] = cell PROVE FALSE
        BY DEF OnStack
      <4>2. i + 1 \in 1 .. Len(stack') /\ stack'[i + 1] = cell  BY <2>2, <4>1
      <4> QED  BY <2>6, <4>2 DEF OnStack
    <3>3. Neighbours(cell) = {}
      BY <2>3, <2>6, <3>1, <3>2 DEF NothingLeftBehind
    <3> QED  BY <2>3, <3>3 DEF Neighbours
  <2> QED  BY <2>5, <2>6 DEF NothingLeftBehind
<1>2. CASE Backtrack
  <2>1. /\ stack # <<>> /\ Neighbours(Head(stack)) = {}
        /\ stack' = Tail(stack) /\ visited' = visited
    BY <1>2 DEF Backtrack
  <2>2. /\ Len(stack) \in Nat /\ Len(stack') = Len(stack) - 1
        /\ stack[1] = Head(stack)
        /\ \A i \in 1 .. Len(stack) - 1 : stack'[i] = stack[i + 1]
    BY <2>1, HeadTail DEF TypeOK
  <2>3. StackIsVisited'
    <3>1. ASSUME NEW i \in 1 .. Len(stack') PROVE visited'[stack'[i]]
      <4>1. i \in 1 .. Len(stack) - 1 /\ i + 1 \in 1 .. Len(stack)  BY <2>2
      <4> QED  BY <2>1, <2>2, <4>1 DEF StackIsVisited
    <3> QED  BY <3>1 DEF StackIsVisited
  <2>4. ASSUME NEW cell \in Cell, visited'[cell], ~OnStack(cell)'
        PROVE  Neighbours(cell)' = {}
    <3>1. Neighbours(cell)' = Neighbours(cell)
      BY <2>1 DEF Neighbours
    <3>2. CASE cell = Head(stack)
      BY <2>1, <3>1, <3>2
    <3>3. CASE cell # Head(stack)
      <4>1. ~OnStack(cell)
        <5>1. SUFFICES ASSUME NEW i \in 1 .. Len(stack), stack[i] = cell PROVE FALSE
          BY DEF OnStack
        <5>2. i # 1  BY <2>2, <3>3, <5>1
        <5>3. i - 1 \in 1 .. Len(stack) - 1 /\ (i - 1) + 1 = i  BY <2>2, <5>2
        <5>4. stack'[i - 1] = cell /\ i - 1 \in 1 .. Len(stack')
          BY <2>2, <5>1, <5>3
        <5> QED  BY <2>4, <5>4 DEF OnStack
      <4> QED  BY <2>1, <2>4, <3>1, <4>1 DEF NothingLeftBehind
    <3> QED  BY <3>2, <3>3
  <2> QED  BY <2>3, <2>4 DEF NothingLeftBehind
<1>3. CASE UNCHANGED vars
  BY <1>3 DEF vars, StackIsVisited, NothingLeftBehind, OnStack, Neighbours
<1> QED  BY <1>1, <1>2, <1>3 DEF Next

LEMMA BehindStart ==
  ASSUME Init
  PROVE  StackIsVisited /\ NothingLeftBehind
<1>1. /\ Len(stack) = 1 /\ stack[1] = Start /\ Start \in Cell
      /\ 1 \in 1 .. Len(stack) /\ \A i \in 1 .. Len(stack) : i = 1
  BY StartIsCell DEF Init
<1>2. \A cell \in Cell : visited[cell] <=> cell = Start
  BY DEF Init
<1>3. visited[Start]
  BY <1>1, <1>2
<1>4. StackIsVisited
  BY <1>1, <1>3 DEF StackIsVisited
<1>5. OnStack(Start)
  BY <1>1 DEF OnStack
<1>6. ASSUME NEW cell \in Cell, visited[cell], ~OnStack(cell)
      PROVE  Neighbours(cell) = {}
  BY <1>2, <1>5, <1>6
<1>7. NothingLeftBehind
  BY <1>6 DEF NothingLeftBehind
<1> QED  BY <1>4, <1>7

\* The search leaves a cell for good only when all its neighbours were
\* visited, in a maze of any size: with an empty stack the visited cells are
\* closed under neighbourhood (the push of the current cell under its
\* neighbour).
THEOREM NothingIsLeftBehind == Spec => []NothingLeftBehind
<1>1. Spec => [](StackIsVisited /\ NothingLeftBehind)
  BY BehindStart, TypeCorrect, BehindStep, PTL DEF Spec
<1> QED  BY <1>1, PTL

-----------------------------------------------------------------------------
(* The search grows a tree.                                                *)

\* A turn opens the two sides of one wall, and no other.
LEMMA OpenSidesAfter ==
  ASSUME TypeOK, NEW a \in Cell, NEW s \in Side, Beyond(a, s) \in Cell,
         wall' = [wall EXCEPT ![a] = @ \ {s},
                              ![Beyond(a, s)] = @ \ {Opposite(s)}]
  PROVE  OpenSides' = OpenSides \cup {<<a, s>>, <<Beyond(a, s), Opposite(s)>>}
<1> DEFINE b == Beyond(a, s)
           r == Opposite(s)
<1>1. b \in Cell /\ r \in Side /\ Beyond(b, r) = a
  BY OppositeSide, BackAgain
<1>2. \A cell \in Cell, side \in Side :
         (side \notin wall'[cell]) <=>
            \/ side \notin wall[cell]
            \/ cell = a /\ side = s
            \/ cell = b /\ side = r
  BY WallsAfter DEF TypeOK
<1> HIDE DEF b, r
<1>3. OpenSides' = OpenSides \cup {<<a, s>>, <<b, r>>}
  <2>1. ASSUME NEW open \in Cell \X Side
        PROVE  open \in OpenSides' <=>
                 open \in OpenSides \/ open = <<a, s>> \/ open = <<b, r>>
    <3>1. PICK cell \in Cell, side \in Side : open = <<cell, side>>
      OBVIOUS
    <3>2. (open \in OpenSides' <=> side \notin wall'[cell])
            /\ (open \in OpenSides <=> side \notin wall[cell])
      BY <3>1 DEF OpenSides
    <3> QED  BY <1>2, <3>1, <3>2
  <2>2. <<a, s>> \in Cell \X Side /\ <<b, r>> \in Cell \X Side
    BY <1>1
  <2>3. OpenSides \subseteq Cell \X Side /\ OpenSides' \subseteq Cell \X Side
    BY DEF OpenSides
  <2> QED  BY <2>1, <2>2, <2>3
<1> QED  BY <1>3 DEF b, r

\* It makes one passage.
LEMMA PassagesAfter ==
  ASSUME TypeOK, NEW a \in Cell, NEW s \in Side, Beyond(a, s) \in Cell,
         wall' = [wall EXCEPT ![a] = @ \ {s},
                              ![Beyond(a, s)] = @ \ {Opposite(s)}]
  PROVE  Passages' = Passages \cup {{a, Beyond(a, s)}}
<1> DEFINE b == Beyond(a, s)
           r == Opposite(s)
<1>1. Beyond(b, r) = a
  BY BackAgain
<1> HIDE DEF b, r
<1>2. b = Beyond(a, s)  BY DEF b
<1>3. OpenSides' = OpenSides \cup {<<a, s>>, <<b, r>>}
  BY OpenSidesAfter DEF b, r
<1>4. Passages' = {{open[1], Beyond(open[1], open[2])} : open \in OpenSides'}
  BY DEF Passages
<1>5. ASSUME NEW p
      PROVE  p \in Passages' <=> p \in Passages \/ p = {a, b}
  <2>1. ASSUME p \in Passages' PROVE p \in Passages \/ p = {a, b}
    <3>1. PICK open \in OpenSides' : p = {open[1], Beyond(open[1], open[2])}
      BY <1>4, <2>1
    <3>2. CASE open \in OpenSides
      BY <3>1, <3>2 DEF Passages
    <3>3. CASE open = <<a, s>>
      BY <1>2, <3>1, <3>3
    <3>4. CASE open = <<b, r>>
      BY <1>1, <3>1, <3>4
    <3> QED  BY <1>3, <3>2, <3>3, <3>4
  <2>2. ASSUME p \in Passages PROVE p \in Passages'
    <3>1. PICK open \in OpenSides : p = {open[1], Beyond(open[1], open[2])}
      BY <2>2 DEF Passages
    <3> QED  BY <1>3, <1>4, <3>1
  <2>3. ASSUME p = {a, b} PROVE p \in Passages'
    <3>1. <<a, s>> \in OpenSides'  BY <1>3
    <3>2. p = {<<a, s>>[1], Beyond(<<a, s>>[1], <<a, s>>[2])}
      BY <1>2, <2>3
    <3> QED  BY <1>4, <3>1, <3>2
  <2> QED  BY <2>1, <2>2, <2>3
<1> QED  BY <1>2, <1>5

LEMMA TreeStep ==
  ASSUME TypeOK, StackIsVisited, [Next]_vars
  PROVE  [Tree!Grow]_(Tree!vars)
<1>1. CASE Carve
  <2>1. PICK s \in Side :
          /\ stack # <<>>
          /\ Head(stack) \in Cell
          /\ Beyond(Head(stack), s) \in Cell /\ ~visited[Beyond(Head(stack), s)]
          /\ wall' = [wall EXCEPT ![Head(stack)] = @ \ {s},
                                  ![Beyond(Head(stack), s)] = @ \ {Opposite(s)}]
          /\ visited' = [visited EXCEPT ![Beyond(Head(stack), s)] = TRUE]
    BY <1>1, CarveStep
  <2> DEFINE a == Head(stack)
             b == Beyond(a, s)
  <2>2. a \in {cell \in Cell : visited[cell]}
    <3>1. 1 \in 1 .. Len(stack) /\ stack[1] = a
      BY <2>1, HeadTail DEF TypeOK
    <3> QED  BY <2>1, <3>1 DEF StackIsVisited
  <2>3. b \in Cell \ {cell \in Cell : visited[cell]}
    BY <2>1
  <2>4. {a, b} \in Edges
    BY <2>1 DEF Edges
  <2>5. {cell \in Cell : visited'[cell]} = {cell \in Cell : visited[cell]} \cup {b}
    BY <2>1 DEF TypeOK
  <2>6. Passages' = Passages \cup {{a, b}}
    BY <2>1, PassagesAfter
  <2> HIDE DEF a, b
  <2> QED  BY <2>2, <2>3, <2>4, <2>5, <2>6 DEF Tree!Grow
<1>2. CASE Backtrack
  BY <1>2 DEF Backtrack, Tree!vars, Passages, OpenSides
<1>3. CASE UNCHANGED vars
  BY <1>3 DEF vars, Tree!vars, Passages, OpenSides
<1> QED  BY <1>1, <1>2, <1>3 DEF Next

LEMMA TreeStart ==
  ASSUME Init
  PROVE  Tree!Init
<1>1. {cell \in Cell : visited[cell]} = {Start}
  BY StartIsCell DEF Init
<1>2. OpenSides = {}
  BY DEF Init, OpenSides
<1>3. Passages = {}
  BY <1>2 DEF Passages
<1> QED  BY <1>1, <1>3 DEF Tree!Init

\* generate_maze implements the growth of a spanning tree, in a maze of any
\* size: every turn joins one new cell to the tree by one passage between
\* neighbours, so the passages never close a circle.
THEOREM SearchGrowsTree == Spec => GrowsTree
<1>1. Spec => [](StackIsVisited /\ NothingLeftBehind)
  BY BehindStart, TypeCorrect, BehindStep, PTL DEF Spec
<1> QED
  BY <1>1, TypeCorrect, TreeStart, TreeStep, PTL DEF Spec, GrowsTree, Tree!Spec

-----------------------------------------------------------------------------
(* The finished maze.                                                      *)

\* The hero cannot leave these cells.
Unbroken(S) == \A cell \in S : Around(cell) \subseteq S

\* The cells visited are joined to the start: a set of cells that holds the
\* start and that the hero cannot leave holds them all.
Joined ==
    \A S \in SUBSET Cell :
        Start \in S /\ Unbroken(S) => {cell \in Cell : visited[cell]} \subseteq S

\* A cell that was not visited yet has all its walls.
Closed == \A cell \in Cell : ~visited[cell] => wall[cell] = Side

\* Each cell visited cost one passage, which is open from both its ends.
PassagesCounted ==
    /\ IsFiniteSet(OpenSides)
    /\ Cardinality(OpenSides) = 2 * (Cardinality({cell \in Cell : visited[cell]}) - 1)

GrowthInv == /\ TypeOK /\ WallsAgree /\ StackIsVisited /\ NothingLeftBehind
             /\ visited[Start] /\ Closed /\ Joined /\ PassagesCounted

LEMMA AroundInside ==
    ASSUME WallsAgree, NEW cell \in Cell
    PROVE  Around(cell) \subseteq Cell /\ cell \in Around(cell)
BY DEF WallsAgree, Around

\* How far the hero can walk.
LEMMA WalkIs ==
    ASSUME WallsAgree
    PROVE  /\ Walk[0] = {Start}
           /\ \A n \in Nat : /\ Walk[n] \subseteq Cell
                             /\ Walk[n + 1] = UNION {Around(cell) : cell \in Walk[n]}
<1> DEFINE Next1(T) == UNION {Around(cell) : cell \in T}
           step == [T \in SUBSET Cell |-> Next1(T)]
           Steps(f) == [n \in Nat |-> IF n = 0 THEN {Start} ELSE Next1(f[n - 1])]
<1>1. step \in [SUBSET Cell -> SUBSET Cell] /\ {Start} \in SUBSET Cell
      BY AroundInside, StartIsCell
<1>2. PICK f \in [Nat -> SUBSET Cell] :
         f[0] = {Start} /\ \A n \in Nat : f[n + 1] = step[f[n]]
  <2> DEFINE S == SUBSET Cell
             a == {Start}
  <2>1. step \in [S -> S] /\ a \in S
        BY <1>1
  <2> HIDE DEF step, S, a
  <2>2. \E f \in [Nat -> S] : f[0] = a /\ \A n \in Nat : f[n + 1] = step[f[n]]
        BY <2>1, Recursion
  <2> QED BY <2>2 DEF S, a
<1>3. f = Steps(f)
  <2>1. ASSUME NEW n \in Nat PROVE f[n] = Steps(f)[n]
    <3>1. CASE n = 0
          BY <1>2, <3>1
    <3>2. CASE n # 0
      <4>1. n - 1 \in Nat /\ (n - 1) + 1 = n
            BY <3>2
      <4>2. f[n] = step[f[n - 1]] /\ f[n - 1] \in SUBSET Cell
            BY <1>2, <4>1
      <4> QED BY <3>2, <4>2
    <3> QED BY <3>1, <3>2
  <2> HIDE DEF Next1
  <2> QED BY <1>2, <2>1
<1>4. Walk = Steps(Walk)
  <2>1. Walk = CHOOSE g : g = Steps(g)
        BY DEF Walk
  <2> HIDE DEF Steps
  <2> QED BY <1>3, <2>1
<1>5. Walk[0] = {Start} /\ \A n \in Nat : Walk[n + 1] = Next1(Walk[n])
  <2> HIDE DEF Next1
  <2>1. \A n \in Nat : Walk[n] = IF n = 0 THEN {Start} ELSE Next1(Walk[n - 1])
        BY <1>4
  <2>2. \A n \in Nat : n + 1 \in Nat /\ n + 1 # 0 /\ (n + 1) - 1 = n
        OBVIOUS
  <2> QED BY <2>1, <2>2
<1> DEFINE E == {n \in Nat : Walk[n] \subseteq Cell}
<1>6. E = Nat
  <2>1. 0 \in E
        BY <1>5, StartIsCell
  <2>2. ASSUME NEW n \in E PROVE n + 1 \in E
        BY <1>5, AroundInside
  <2>3. E \in SUBSET Nat
        OBVIOUS
  <2> HIDE DEF E
  <2> QED BY <2>1, <2>2, <2>3, SetInduction
<1> QED BY <1>5, <1>6

LEMMA CellsCounted ==
    IsFiniteSet(Cell) /\ Cardinality(Cell) = maze_width * maze_height
<1>1. /\ IsFiniteSet(0 .. maze_width - 1) /\ Cardinality(0 .. maze_width - 1) = maze_width
      /\ IsFiniteSet(0 .. maze_height - 1) /\ Cardinality(0 .. maze_height - 1) = maze_height
      BY MazeHasACell, FS_Interval
<1> DEFINE X == 0 .. maze_width - 1
           Y == 0 .. maze_height - 1
<1>2. IsFiniteSet(X) /\ Cardinality(X) = maze_width
      /\ IsFiniteSet(Y) /\ Cardinality(Y) = maze_height
      BY <1>1
<1>3. Cell = X \X Y
      BY DEF Cell
<1> HIDE DEF X, Y
<1>4. IsFiniteSet(X \X Y) /\ Cardinality(X \X Y) = Cardinality(X) * Cardinality(Y)
      BY <1>2, FS_Product
<1> QED BY <1>2, <1>3, <1>4

LEMMA ClosedStep ==
    ASSUME TypeOK, StackIsVisited, Closed, [Next]_vars
    PROVE  Closed'
<1>1. CASE Carve
  <2>1. PICK s \in Side :
          /\ stack # <<>> /\ Head(stack) \in Cell /\ Beyond(Head(stack), s) \in Cell
          /\ visited' = [visited EXCEPT ![Beyond(Head(stack), s)] = TRUE]
          /\ wall' = [wall EXCEPT ![Head(stack)] = @ \ {s},
                                  ![Beyond(Head(stack), s)] = @ \ {Opposite(s)}]
        BY <1>1, CarveStep
  <2>2. visited[Head(stack)]
    <3>1. Len(stack) \in Nat /\ Len(stack) > 0 /\ stack[1] = Head(stack)
          BY <2>1, HeadTail DEF TypeOK
    <3> QED BY <3>1 DEF StackIsVisited
  <2>3. ASSUME NEW cell \in Cell, ~visited'[cell] PROVE wall'[cell] = Side
    <3>1. ~visited[cell] /\ cell # Beyond(Head(stack), s) /\ cell # Head(stack)
          BY <2>1, <2>2, <2>3 DEF TypeOK
    <3> QED BY <2>1, <3>1 DEF TypeOK, Closed
  <2> QED BY <2>3 DEF Closed
<1>2. CASE Backtrack
      BY <1>2 DEF Backtrack, Closed
<1>3. CASE UNCHANGED vars
      BY <1>3 DEF vars, Closed
<1> QED BY <1>1, <1>2, <1>3 DEF Next

Visited == {cell \in Cell : visited[cell]}

\* A set of cells that the hero cannot leave after a turn was one before it,
\* so it holds the cell popped and with it the cell next to it.
LEMMA JoinedStep ==
    ASSUME TypeOK, StackIsVisited, Joined, [Next]_vars
    PROVE  Joined'
<1>1. CASE Carve
  <2>1. PICK s \in Side :
          /\ stack # <<>> /\ Head(stack) \in Cell /\ Beyond(Head(stack), s) \in Cell
          /\ visited' = [visited EXCEPT ![Beyond(Head(stack), s)] = TRUE]
          /\ wall' = [wall EXCEPT ![Head(stack)] = @ \ {s},
                                  ![Beyond(Head(stack), s)] = @ \ {Opposite(s)}]
        BY <1>1, CarveStep
  <2> DEFINE a == Head(stack)
             b == Beyond(a, s)
  <2>2. visited[a]
    <3>1. Len(stack) \in Nat /\ Len(stack) > 0 /\ stack[1] = Head(stack)
          BY <2>1, HeadTail DEF TypeOK
    <3> QED BY <3>1 DEF StackIsVisited
  <2>3. \A cell \in Cell : visited'[cell] => visited[cell] \/ cell = b
        BY <2>1 DEF TypeOK
  <2>4. \A cell \in Cell, side \in Side :
           (side \in wall'[cell]) <=> /\ side \in wall[cell]
                                      /\ ~(cell = a /\ side = s)
                                      /\ ~(cell = b /\ side = Opposite(s))
        BY <2>1, WallsAfter DEF TypeOK
  <2>5. a \in Cell /\ b \in Cell /\ b = Beyond(a, s)
        BY <2>1
  <2> HIDE DEF a, b
  <2>6. ASSUME NEW S \in SUBSET Cell, Start \in S, Unbroken(S)'
        PROVE  {cell \in Cell : visited'[cell]} \subseteq S
    <3>1. Unbroken(S)
          BY <2>4, <2>6 DEF Unbroken, Around
    <3>2. {cell \in Cell : visited[cell]} \subseteq S
          BY <2>6, <3>1 DEF Joined
    <3>3. a \in S
          BY <2>2, <2>5, <3>2
    <3>4. \A cell \in S, side \in Side : side \notin wall'[cell] => Beyond(cell, side) \in S
          BY <2>6 DEF Unbroken, Around
    <3>5. b \in S
          BY <2>4, <2>5, <3>3, <3>4
    <3> QED BY <2>3, <3>2, <3>5
  <2> QED BY <2>6 DEF Joined, Unbroken, Around
<1>2. CASE Backtrack
      BY <1>2 DEF Backtrack, Joined, Unbroken, Around
<1>3. CASE UNCHANGED vars
      BY <1>3 DEF vars, Joined, Unbroken, Around
<1> QED BY <1>1, <1>2, <1>3 DEF Next

LEMMA CountStep ==
    ASSUME TypeOK, WallsAgree, Closed, StackIsVisited, PassagesCounted, [Next]_vars
    PROVE  PassagesCounted'
<1>1. CASE Carve
  <2>1. PICK s \in Side :
          /\ Head(stack) \in Cell
          /\ Beyond(Head(stack), s) \in Cell /\ ~visited[Beyond(Head(stack), s)]
          /\ visited' = [visited EXCEPT ![Beyond(Head(stack), s)] = TRUE]
          /\ wall' = [wall EXCEPT ![Head(stack)] = @ \ {s},
                                  ![Beyond(Head(stack), s)] = @ \ {Opposite(s)}]
        BY <1>1, CarveStep
  <2> DEFINE a == Head(stack)
             b == Beyond(a, s)
             r == Opposite(s)
  <2>2. OpenSides' = OpenSides \cup {<<a, s>>, <<b, r>>}
        BY <2>1, OpenSidesAfter
  <2>3. /\ a \in Cell /\ b \in Cell /\ r \in Side /\ a # b /\ ~visited[b]
        /\ r \in wall[b] /\ s \in wall[a]
    <3>1. a \in Cell /\ b \in Cell /\ r \in Side /\ a # b /\ wall[b] = Side
          BY <2>1, OppositeSide, BackAgain DEF Closed
    <3> QED BY <2>1, <3>1 DEF WallsAgree
  <2>4. Visited' = Visited \cup {b}
        BY <2>1 DEF TypeOK, Visited
  <2> HIDE DEF a, b, r
  <2>5. /\ <<a, s>> \notin OpenSides /\ <<b, r>> \notin OpenSides \cup {<<a, s>>}
        /\ OpenSides' = (OpenSides \cup {<<a, s>>}) \cup {<<b, r>>}
        BY <2>2, <2>3 DEF OpenSides
  <2>6. /\ IsFiniteSet(OpenSides) /\ Cardinality(OpenSides) \in Nat
        /\ Cardinality(OpenSides) = 2 * (Cardinality(Visited) - 1)
        BY FS_CardinalityType DEF PassagesCounted, Visited
  <2>7. /\ IsFiniteSet(OpenSides \cup {<<a, s>>})
        /\ Cardinality(OpenSides \cup {<<a, s>>}) = Cardinality(OpenSides) + 1
        BY <2>5, <2>6, FS_AddElement
  <2>8. /\ IsFiniteSet(OpenSides')
        /\ Cardinality(OpenSides') = Cardinality(OpenSides \cup {<<a, s>>}) + 1
        BY <2>5, <2>7, FS_AddElement
  <2>9. /\ Visited \in SUBSET Cell /\ b \notin Visited
        BY <2>3 DEF Visited
  <2>10. IsFiniteSet(Visited) /\ Cardinality(Visited) \in Nat
        BY <2>9, CellsCounted, FS_Subset, FS_CardinalityType
  <2>11. Cardinality(Visited') = Cardinality(Visited) + 1
        BY <2>4, <2>9, <2>10, FS_AddElement
  <2>12. Cardinality(OpenSides') = 2 * (Cardinality(Visited') - 1)
        BY <2>6, <2>7, <2>8, <2>10, <2>11
  <2> QED BY <2>8, <2>12 DEF PassagesCounted, Visited
<1>2. CASE Backtrack
      BY <1>2 DEF Backtrack, PassagesCounted, OpenSides
<1>3. CASE UNCHANGED vars
      BY <1>3 DEF vars, PassagesCounted, OpenSides
<1> QED BY <1>1, <1>2, <1>3 DEF Next

LEMMA GrowthStart ==
    ASSUME Init PROVE GrowthInv
<1>1. TypeOK /\ WallsAgree
      BY StartIsCell, OppositeSide DEF Init, TypeOK, WallsAgree
<1>2. Closed /\ visited[Start]
      BY StartIsCell DEF Init, Closed
<1>3. {cell \in Cell : visited[cell]} = {Start}
      BY StartIsCell DEF Init
<1>4. Joined
      BY <1>3 DEF Joined
<1>5. OpenSides = {}
      BY DEF Init, OpenSides
<1>6. /\ IsFiniteSet({}) /\ Cardinality({}) = 0 /\ Cardinality({Start}) = 1
      BY FS_EmptySet, FS_Singleton
<1>7. PassagesCounted
      BY <1>3, <1>5, <1>6 DEF PassagesCounted
<1> QED BY <1>1, <1>2, <1>4, <1>7, BehindStart DEF GrowthInv

LEMMA GrowthStep ==
    ASSUME GrowthInv, [Next]_vars PROVE GrowthInv'
<1>1. visited'[Start]
      BY CarveStep, StartIsCell DEF GrowthInv, TypeOK, Next, Backtrack, vars
<1> QED BY <1>1, TypeStep, WallsStep, BehindStep, ClosedStep, JoinedStep, CountStep
        DEF GrowthInv

\* When the stack is empty the visited cells are all: they hold the start and
\* everything next to them.
LEMMA AllVisited ==
    ASSUME GrowthInv, stack = <<>>, NEW cell \in Cell
    PROVE  visited[cell]
<1>1. ASSUME NEW c \in Cell, visited[c], NEW side \in Side, Beyond(c, side) \in Cell
      PROVE  visited[Beyond(c, side)]
  <2>1. Neighbours(c) = {}
        BY <1>1 DEF GrowthInv, NothingLeftBehind, OnStack
  <2> QED BY <1>1, <2>1 DEF Neighbours
<1> DEFINE E == {n \in Nat : \A c \in Cell : c[1] + c[2] = n => visited[c]}
<1>2. 0 \in E
  <2>1. ASSUME NEW c \in Cell, c[1] + c[2] = 0 PROVE c = Start
        BY <2>1, MazeHasACell DEF Cell, Start
  <2> QED BY <2>1 DEF GrowthInv
<1>3. ASSUME NEW n \in E PROVE n + 1 \in E
  <2>1. SUFFICES ASSUME NEW c \in Cell, c[1] + c[2] = n + 1 PROVE visited[c]
        OBVIOUS
  <2>2. PICK i \in 0 .. maze_width - 1, j \in 0 .. maze_height - 1 : c = <<i, j>>
        BY DEF Cell
  <2>3. /\ maze_width \in Nat /\ maze_height \in Nat /\ n \in Nat /\ i + j = n + 1
        BY <2>1, <2>2, MazeHasACell
  <2>4. CASE i > 0
    <3>1. <<i - 1, j>> \in Cell /\ Beyond(<<i - 1, j>>, "right") = c
          BY <2>2, <2>3, <2>4 DEF Cell, Beyond
    <3>2. visited[<<i - 1, j>>]
          BY <2>3, <3>1
    <3> QED BY <1>1, <3>1, <3>2 DEF Side
  <2>5. CASE i = 0
    <3>1. <<i, j - 1>> \in Cell /\ Beyond(<<i, j - 1>>, "bottom") = c
          BY <2>2, <2>3, <2>5 DEF Cell, Beyond
    <3>2. visited[<<i, j - 1>>]
          BY <2>3, <3>1
    <3> QED BY <1>1, <3>1, <3>2 DEF Side
  <2> QED BY <2>3, <2>4, <2>5
<1>4. E = Nat
  <2>1. E \in SUBSET Nat
        OBVIOUS
  <2> HIDE DEF E
  <2> QED BY <1>2, <1>3, <2>1, SetInduction
<1>5. cell[1] + cell[2] \in Nat
      BY MazeHasACell DEF Cell
<1> QED BY <1>4, <1>5

\* As long as a step leads to new cells, n steps lead to more than n.
LEMMA WalkGrows ==
    ASSUME WallsAgree, NEW n \in Nat
    PROVE  Unbroken(Walk[n]) \/ Cardinality(Walk[n]) > n
<1> DEFINE E == {i \in Nat : Unbroken(Walk[i]) \/ Cardinality(Walk[i]) > i}
<1>1. 0 \in E
  <2>1. Cardinality({Start}) = 1 /\ Walk[0] = {Start}
        BY FS_Singleton, WalkIs
  <2>2. Cardinality(Walk[0]) > 0
        BY <2>1
  <2> QED BY <2>2
<1>2. ASSUME NEW i \in E PROVE i + 1 \in E
  <2>1. /\ Walk[i] \subseteq Cell /\ Walk[i + 1] \subseteq Cell
        /\ Walk[i + 1] = UNION {Around(cell) : cell \in Walk[i]}
        BY WalkIs
  <2>2. Walk[i] \subseteq Walk[i + 1]
        BY <2>1, AroundInside
  <2>3. CASE Walk[i + 1] = Walk[i]
    <3>1. Unbroken(Walk[i])
          BY <2>1, <2>3 DEF Unbroken
    <3> QED BY <2>3, <3>1
  <2>4. CASE Walk[i + 1] # Walk[i]
    <3>1. ~Unbroken(Walk[i])
          BY <2>1, <2>2, <2>4 DEF Unbroken
    <3>2. Cardinality(Walk[i]) > i
          BY <3>1
    <3>3. /\ IsFiniteSet(Walk[i + 1]) /\ IsFiniteSet(Walk[i])
          /\ Cardinality(Walk[i + 1]) \in Nat /\ Cardinality(Walk[i]) \in Nat
          BY <2>1, CellsCounted, FS_Subset, FS_CardinalityType
    <3>4. /\ Cardinality(Walk[i]) <= Cardinality(Walk[i + 1])
          /\ Cardinality(Walk[i]) # Cardinality(Walk[i + 1])
          BY <2>2, <2>4, <3>3, FS_Subset
    <3>5. Cardinality(Walk[i + 1]) > i + 1
          BY <3>2, <3>3, <3>4
    <3> QED BY <3>5
  <2> QED BY <2>3, <2>4
<1>3. E = Nat
  <2>1. E \in SUBSET Nat
        OBVIOUS
  <2> HIDE DEF E
  <2> QED BY <1>1, <1>2, <2>1, SetInduction
<1> QED BY <1>3

\* The finished maze is perfect, in any size: the hero can walk from the start
\* to every cell within as many steps as there are cells, and there is one
\* passage less than cells, so no two ways lead to the exit.
THEOREM MazeIsPerfect == Spec => []PerfectMaze
<1>1. GrowthInv => PerfectMaze
  <2> SUFFICES ASSUME GrowthInv, stack = <<>>
               PROVE  /\ Walk[maze_width * maze_height] = Cell
                      /\ Cardinality(OpenSides) = 2 * (Cardinality(Cell) - 1)
      BY DEF PerfectMaze
  <2>1. {cell \in Cell : visited[cell]} = Cell
        BY AllVisited
  <2>2. Cardinality(OpenSides) = 2 * (Cardinality(Cell) - 1)
        BY <2>1 DEF GrowthInv, PassagesCounted
  <2> DEFINE n == maze_width * maze_height
             W == Walk[n]
  <2>3. n \in Nat
        BY MazeHasACell
  <2>4. W \subseteq Cell
        BY <2>3, WalkIs DEF GrowthInv
  <2>5. Cardinality(W) \in Nat /\ Cardinality(W) <= n
        BY <2>4, CellsCounted, FS_Subset, FS_CardinalityType
  <2>6. Unbroken(W)
        BY <2>3, <2>5, WalkGrows DEF GrowthInv
  <2>7. Start \in W
    <3> DEFINE E == {i \in Nat : Start \in Walk[i]}
    <3>1. 0 \in E
          BY WalkIs DEF GrowthInv
    <3>2. ASSUME NEW i \in E PROVE i + 1 \in E
          BY AroundInside, WalkIs, StartIsCell DEF GrowthInv
    <3>3. E = Nat
      <4>1. E \in SUBSET Nat
            OBVIOUS
      <4> HIDE DEF E
      <4> QED BY <3>1, <3>2, <4>1, SetInduction
    <3> QED BY <2>3, <3>3
  <2>8. Cell \subseteq W
        BY <2>1, <2>4, <2>6, <2>7 DEF GrowthInv, Joined
  <2> QED BY <2>2, <2>4, <2>8
<1> QED BY <1>1, GrowthStart, GrowthStep, PTL DEF Spec

-----------------------------------------------------------------------------
(* The linked list.                                                        *)

\* What a pointer of a list holds: a cell or NULL.
Pointer == Cell \cup {NoCell}

List == [head : Pointer, last : Pointer, next : [Cell -> Pointer], size : Nat]

\* The i-th of some cells, NULL after the last.
Nth(cells, i) == IF i \in 1 .. Len(cells) THEN cells[i] ELSE NoCell

\* The list's pointers lead through these cells, each of which it holds once.
Leads(list, cells) ==
    /\ list \in List /\ cells \in Seq(Cell) /\ list.size = Len(cells)
    /\ list.head = Nth(cells, 1)
    /\ \A i \in 1 .. Len(cells) : list.next[cells[i]] = Nth(cells, i + 1)
    /\ \A i, j \in 1 .. Len(cells) : cells[i] = cells[j] => i = j

\* The last pointer is right as well: until a node is removed.
LeadsToLast(list, cells) ==
    /\ Leads(list, cells)
    /\ Len(cells) > 0 => list.last = cells[Len(cells)]

LEMMA NoCellIsNone == NoCell \notin Cell
BY DEF NoCell, Cell

\* A list with several of its fields written.
LEMMA PushWrites ==
    ASSUME NEW list \in List, NEW cell, NEW links
    PROVE  [list EXCEPT !.last = cell, !.next = links, !.size = @ + 1]
               = [head |-> list.head, last |-> cell, next |-> links, size |-> list.size + 1]
<1> DEFINE first == [list EXCEPT !.last = cell]
           second == [first EXCEPT !.next = links]
           third == [second EXCEPT !.size = list.size + 1]
<1>1. third = [list EXCEPT !.last = cell, !.next = links, !.size = @ + 1]
      BY Zenon
<1>2. first = [head |-> list.head, last |-> cell, next |-> list.next, size |-> list.size]
      BY DEF List
<1> HIDE DEF first
<1>3. second = [head |-> list.head, last |-> cell, next |-> links, size |-> list.size]
      BY <1>2
<1> HIDE DEF second
<1>4. third = [head |-> list.head, last |-> cell, next |-> links, size |-> list.size + 1]
      BY <1>3
<1> HIDE DEF third
<1> QED BY <1>1, <1>4

LEMMA RemoveHeadWrites ==
    ASSUME NEW list \in List, NEW cell
    PROVE  [list EXCEPT !.head = cell, !.size = @ - 1]
               = [head |-> cell, last |-> list.last, next |-> list.next, size |-> list.size - 1]
<1> DEFINE first == [list EXCEPT !.head = cell]
           second == [first EXCEPT !.size = list.size - 1]
<1>1. second = [list EXCEPT !.head = cell, !.size = @ - 1]
      BY Zenon
<1>2. first = [head |-> cell, last |-> list.last, next |-> list.next, size |-> list.size]
      BY DEF List
<1> HIDE DEF first
<1>3. second = [head |-> cell, last |-> list.last, next |-> list.next,
                size |-> list.size - 1]
      BY <1>2
<1> HIDE DEF second
<1> QED BY <1>1, <1>3

LEMMA RemoveWrites ==
    ASSUME NEW list \in List, NEW node, NEW cell
    PROVE  [list EXCEPT !.next[node] = cell, !.size = @ - 1]
               = [head |-> list.head, last |-> list.last,
                  next |-> [list.next EXCEPT ![node] = cell], size |-> list.size - 1]
<1> DEFINE first == [list EXCEPT !.next[node] = cell]
           second == [first EXCEPT !.size = list.size - 1]
<1>1. second = [list EXCEPT !.next[node] = cell, !.size = @ - 1]
      BY Zenon
<1>2. first = [head |-> list.head, last |-> list.last,
               next |-> [list.next EXCEPT ![node] = cell], size |-> list.size]
      BY DEF List
<1> HIDE DEF first
<1>3. second = [head |-> list.head, last |-> list.last,
                next |-> [list.next EXCEPT ![node] = cell], size |-> list.size - 1]
      BY <1>2
<1> HIDE DEF second
<1> QED BY <1>1, <1>3

\* What follows a node, counted in nodes.
LEMMA ItemsUnfold ==
    ASSUME NEW list \in List
    PROVE  \E from \in [Nat -> [Pointer -> Seq(Cell)]] :
              /\ Items(list) = from[list.size + 1][list.head]
              /\ \A node \in Pointer : from[0][node] = <<>>
              /\ \A n \in Nat : from[n + 1][NoCell] = <<>>
              /\ \A n \in Nat, node \in Cell :
                    from[n + 1][node] = <<node>> \o from[n][list.next[node]]
<1> DEFINE S == [Pointer -> Seq(Cell)]
           a == [node \in Pointer |-> <<>>]
           More(g) == [node \in Pointer |->
                         IF node = NoCell THEN <<>> ELSE <<node>> \o g[list.next[node]]]
           step == [g \in S |-> More(g)]
           Steps(f) == [n \in Nat |->
                          [node \in Pointer |->
                             IF node = NoCell \/ n = 0 THEN <<>>
                             ELSE <<node>> \o f[n - 1][list.next[node]]]]
           from == CHOOSE f : f = Steps(f)
<1>1. a \in S /\ step \in [S -> S] /\ \A g \in S : More(g) \in S
  <2>1. a \in S
        BY EmptySeq
  <2>2. ASSUME NEW g \in S PROVE More(g) \in S
    <3>1. ASSUME NEW node \in Pointer, node # NoCell
          PROVE  <<node>> \o g[list.next[node]] \in Seq(Cell)
      <4>1. node \in Cell /\ list.next[node] \in Pointer
            BY <3>1 DEF Pointer, List
      <4>2. g[list.next[node]] \in Seq(Cell)
            BY <4>1
      <4> QED BY <4>1, <4>2, PutOnTop
    <3>2. <<>> \in Seq(Cell)
          BY EmptySeq
    <3> QED BY <3>1, <3>2
  <2> HIDE DEF More
  <2> QED BY <2>1, <2>2
<1>2. PICK f \in [Nat -> S] : f[0] = a /\ \A n \in Nat : f[n + 1] = step[f[n]]
  <2>0. a \in S /\ step \in [S -> S]
        BY <1>1
  <2> HIDE DEF S, a, step, More, Steps, from
  <2>1. \E f \in [Nat -> S] : f[0] = a /\ \A n \in Nat : f[n + 1] = step[f[n]]
    <3>1. \A T : \A b \in T : \A next \in [T -> T] :
             \E g \in [Nat -> T] : g[0] = b /\ \A n \in Nat : g[n + 1] = next[g[n]]
          BY Recursion
    <3>2. \A b \in S : \A next \in [S -> S] :
             \E g \in [Nat -> S] : g[0] = b /\ \A n \in Nat : g[n + 1] = next[g[n]]
          BY <3>1
    <3> QED BY <2>0, <3>2
  <2> QED BY <2>1
<1>3. \A n \in Nat : f[n] \in S /\ f[n + 1] = More(f[n])
  <2> HIDE DEF S, More
  <2> QED BY <1>2
<1>4. f = Steps(f)
  <2>1. ASSUME NEW n \in Nat PROVE f[n] = Steps(f)[n]
    <3>1. CASE n = 0
          BY <1>2, <3>1
    <3>2. CASE n # 0
      <4>1. n - 1 \in Nat /\ (n - 1) + 1 = n
            BY <3>2
      <4>2. f[n] = More(f[n - 1])
            BY <1>3, <4>1
      <4> QED BY <3>2, <4>2
    <3> QED BY <3>1, <3>2
  <2>2. Steps(f) = [n \in Nat |-> Steps(f)[n]] /\ f = [n \in Nat |-> f[n]]
        BY <1>2
  <2> HIDE DEF Steps
  <2> QED BY <2>1, <2>2
<1>5. from = Steps(from)
  <2> HIDE DEF Steps
  <2> QED BY <1>4
<1>6. Items(list) = from[list.size + 1][list.head]
      BY DEF Items, Pointer
<1> HIDE DEF from
<1>7. /\ from = [n \in Nat |-> from[n]] /\ from[0] = a
      /\ \A n \in Nat : from[n + 1] = More(from[n])
  <2>1. Steps(from) = [n \in Nat |-> Steps(from)[n]]
        OBVIOUS
  <2>2. Steps(from)[0] = a
        OBVIOUS
  <2>3. ASSUME NEW n \in Nat PROVE Steps(from)[n + 1] = More(from[n])
    <3>1. n + 1 \in Nat /\ n + 1 # 0 /\ (n + 1) - 1 = n
          OBVIOUS
    <3> QED BY <3>1
  <2> HIDE DEF Steps, a, More
  <2> QED BY <1>5, <2>1, <2>2, <2>3
<1>8. from \in [Nat -> S]
  <2> DEFINE E == {n \in Nat : from[n] \in S}
  <2>1. E = Nat
    <3> HIDE DEF S, a, More
    <3>1. 0 \in E
          BY <1>1, <1>7
    <3>2. ASSUME NEW n \in E PROVE n + 1 \in E
          BY <1>1, <1>7
    <3>3. E \in SUBSET Nat
          OBVIOUS
    <3> HIDE DEF E
    <3> QED BY <3>1, <3>2, <3>3, SetInduction
  <2> HIDE DEF S
  <2> QED BY <1>7, <2>1
<1>9. NoCell \in Pointer /\ \A node \in Cell : node \in Pointer /\ node # NoCell
      BY NoCellIsNone DEF Pointer
<1>10. \A node \in Pointer : from[0][node] = <<>>
      BY <1>7
<1>11. ASSUME NEW n \in Nat, NEW node \in Pointer
       PROVE  from[n + 1][node] = IF node = NoCell THEN <<>>
                                  ELSE <<node>> \o from[n][list.next[node]]
      BY <1>7
<1> QED BY <1>6, <1>8, <1>9, <1>10, <1>11

\* The nodes of a list are the cells that its pointers lead through.
LEMMA ItemsAre ==
    ASSUME NEW list, NEW cells, Leads(list, cells)
    PROVE  Items(list) = cells
<1>1. /\ list \in List /\ cells \in Seq(Cell) /\ Len(cells) \in Nat
      /\ list.size = Len(cells) /\ list.head = Nth(cells, 1)
      /\ \A i \in 1 .. Len(cells) : cells[i] \in Cell
                                    /\ list.next[cells[i]] = Nth(cells, i + 1)
      BY DEF Leads
<1>2. PICK from \in [Nat -> [Pointer -> Seq(Cell)]] :
         /\ Items(list) = from[list.size + 1][list.head]
         /\ \A node \in Pointer : from[0][node] = <<>>
         /\ \A n \in Nat : from[n + 1][NoCell] = <<>>
         /\ \A n \in Nat, node \in Cell :
               from[n + 1][node] = <<node>> \o from[n][list.next[node]]
      BY <1>1, ItemsUnfold
<1> DEFINE rest(k) == SubSeq(cells, k, Len(cells))
           E == {n \in Nat : \A k \in 1 .. Len(cells) + 1 :
                    n + k > Len(cells) => from[n][Nth(cells, k)] = rest(k)}
<1>3. rest(Len(cells) + 1) = <<>>
      BY <1>1, SubSeqEmpty
<1>4. ASSUME NEW k \in 1 .. Len(cells) PROVE rest(k) = <<cells[k]>> \o rest(k + 1)
      BY <1>1, SubSeqRecursiveFirst
<1> HIDE DEF rest
<1>5. Nth(cells, Len(cells) + 1) = NoCell /\ NoCell \in Pointer
      BY <1>1 DEF Nth, Pointer
<1>6. \A k \in 1 .. Len(cells) : Nth(cells, k) = cells[k]
      BY DEF Nth
<1>7. E = Nat
  <2>1. 0 \in E
    <3>1. \A k \in 1 .. Len(cells) + 1 : 0 + k > Len(cells) => k = Len(cells) + 1
          BY <1>1
    <3> QED BY <1>2, <1>3, <1>5, <3>1
  <2>2. ASSUME NEW n \in E PROVE n + 1 \in E
    <3>1. SUFFICES ASSUME NEW k \in 1 .. Len(cells) + 1, (n + 1) + k > Len(cells)
                   PROVE  from[n + 1][Nth(cells, k)] = rest(k)
          OBVIOUS
    <3>2. CASE k = Len(cells) + 1
          BY <1>2, <1>3, <1>5, <3>2
    <3>3. CASE k \in 1 .. Len(cells)
      <4>1. k + 1 \in 1 .. Len(cells) + 1 /\ n + (k + 1) > Len(cells)
            BY <1>1, <3>1, <3>3
      <4>2. from[n][Nth(cells, k + 1)] = rest(k + 1)
            BY <4>1
      <4>3. from[n + 1][cells[k]] = <<cells[k]>> \o from[n][list.next[cells[k]]]
            BY <1>1, <1>2, <3>3
      <4>4. list.next[cells[k]] = Nth(cells, k + 1) /\ Nth(cells, k) = cells[k]
            BY <1>1, <1>6, <3>3
      <4> QED BY <1>4, <3>3, <4>2, <4>3, <4>4
    <3> QED BY <1>1, <3>2, <3>3
  <2>3. E \in SUBSET Nat
        OBVIOUS
  <2> HIDE DEF E
  <2> QED BY <2>1, <2>2, <2>3, SetInduction
<1>8. Len(cells) + 1 \in Nat /\ 1 \in 1 .. Len(cells) + 1
      BY <1>1
<1>9. from[list.size + 1][list.head] = rest(1)
  <2>1. Len(cells) + 1 \in E
        BY <1>7, <1>8
  <2>2. (Len(cells) + 1) + 1 > Len(cells)
        BY <1>1
  <2> QED BY <1>1, <1>8, <2>1, <2>2
<1> QED BY <1>1, <1>2, <1>9, SubSeqFull DEF rest

\* What linked_list_push adds comes last.
LEMMA PushLeads ==
    ASSUME NEW list, NEW cells, LeadsToLast(list, cells), NEW cell \in Cell,
           \A i \in 1 .. Len(cells) : cells[i] # cell
    PROVE  LeadsToLast(linked_list_push(list, cell), Append(cells, cell))
<1> DEFINE more == Append(cells, cell)
           pushed == linked_list_push(list, cell)
           n == Len(cells)
<1>1. /\ cells \in Seq(Cell) /\ n \in Nat /\ list \in List
      /\ list.size = n /\ list.head = Nth(cells, 1)
      /\ \A i \in 1 .. n : cells[i] \in Cell /\ list.next[cells[i]] = Nth(cells, i + 1)
      /\ \A i, j \in 1 .. n : cells[i] = cells[j] => i = j
      /\ n > 0 => list.last = cells[n]
      BY DEF Leads, LeadsToLast
<1>2. /\ more \in Seq(Cell) /\ Len(more) = n + 1 /\ more[n + 1] = cell
      /\ \A i \in 1 .. n : more[i] = cells[i]
      BY <1>1, AppendProperties
<1>3. /\ list.next \in [Cell -> Pointer] /\ list.head \in Pointer /\ list.last \in Pointer
      /\ cell \in Pointer /\ NoCell \in Pointer
      BY <1>1 DEF List, Pointer
<1>4. CASE n = 0
  <2>1. pushed = [head |-> cell, last |-> cell,
                  next |-> [list.next EXCEPT ![cell] = NoCell], size |-> 1]
        BY <1>1, <1>4 DEF linked_list_push
  <2>2. pushed \in List
        BY <1>3, <2>1 DEF List
  <2>3. Nth(more, 1) = cell /\ Nth(more, 2) = NoCell
        BY <1>2, <1>4 DEF Nth
  <2> HIDE DEF more, pushed
  <2>4. LeadsToLast(pushed, more)
        BY <1>2, <1>3, <1>4, <2>1, <2>2, <2>3 DEF Leads, LeadsToLast
  <2> QED BY <2>4 DEF more, pushed
<1>5. CASE n > 0
  <2> DEFINE links == [[list.next EXCEPT ![cell] = NoCell] EXCEPT ![list.last] = cell]
  <2>1. pushed = [list EXCEPT !.last = cell, !.next = links, !.size = @ + 1]
    <3>1. list.size # 0
          BY <1>1, <1>5
    <3> QED BY <3>1, Zenon DEF linked_list_push
  <2>2. /\ pushed.head = list.head /\ pushed.last = cell /\ pushed.size = n + 1
        /\ pushed.next = [[list.next EXCEPT ![cell] = NoCell] EXCEPT ![cells[n]] = cell]
        /\ pushed \in List
    <3>1. links \in [Cell -> Pointer]
          BY <1>3
    <3> HIDE DEF links, pushed
    <3>2. pushed = [head |-> list.head, last |-> cell, next |-> links,
                    size |-> list.size + 1]
          BY <1>1, <2>1, PushWrites
    <3> QED BY <1>1, <1>3, <1>5, <3>1, <3>2 DEF List, links
  <2>3. /\ Nth(more, 1) = list.head /\ Nth(more, n + 2) = NoCell
        /\ \A i \in 1 .. n : Nth(more, i + 1) = IF i = n THEN cell ELSE Nth(cells, i + 1)
        BY <1>1, <1>2, <1>5 DEF Nth
  <2>4. cells[n] \in Cell /\ cells[n] # cell
        BY <1>1, <1>5
  <2> HIDE DEF more, pushed
  <2>5. ASSUME NEW i \in 1 .. n + 1 PROVE pushed.next[more[i]] = Nth(more, i + 1)
    <3>1. CASE i = n + 1
          BY <1>2, <1>3, <2>2, <2>3, <2>4, <3>1
    <3>2. CASE i = n
          BY <1>2, <1>3, <1>5, <2>2, <2>3, <2>4, <3>2
    <3>3. CASE i \in 1 .. n - 1
      <4>1. cells[i] # cells[n] /\ cells[i] # cell /\ cells[i] \in Cell /\ more[i] = cells[i]
            BY <1>1, <1>2, <1>5, <3>3
      <4> QED BY <1>1, <1>3, <2>2, <2>3, <3>3, <4>1
    <3> QED BY <1>1, <3>1, <3>2, <3>3
  <2>6. \A i, j \in 1 .. n + 1 : more[i] = more[j] => i = j
        BY <1>1, <1>2
  <2>7. LeadsToLast(pushed, more)
        BY <1>1, <1>2, <2>2, <2>3, <2>5, <2>6 DEF Leads, LeadsToLast
  <2> QED BY <2>7 DEF more, pushed
<1> QED BY <1>1, <1>4, <1>5

\* The cells but the k-th.
But(cells, k) ==
    [i \in 1 .. Len(cells) - 1 |-> IF i < k THEN cells[i] ELSE cells[i + 1]]

LEMMA ButIs ==
    ASSUME NEW cells \in Seq(Cell), NEW k \in 1 .. Len(cells)
    PROVE  /\ But(cells, k) \in Seq(Cell) /\ Len(But(cells, k)) = Len(cells) - 1
           /\ \A i \in 1 .. Len(cells) - 1 :
                 But(cells, k)[i] = IF i < k THEN cells[i] ELSE cells[i + 1]
<1>1. Len(cells) \in Nat /\ \A i \in 1 .. Len(cells) : cells[i] \in Cell
      OBVIOUS
<1>2. Len(cells) - 1 \in Nat
      BY <1>1
<1>3. \A i \in 1 .. Len(cells) - 1 :
          But(cells, k)[i] = IF i < k THEN cells[i] ELSE cells[i + 1]
      BY DEF But
<1>4. But(cells, k) \in [1 .. Len(cells) - 1 -> Cell]
      BY <1>1 DEF But
<1> HIDE DEF But
<1> QED BY <1>2, <1>3, <1>4

\* linked_list_remove takes one node out, wherever it is.
LEMMA RemoveLeads ==
    ASSUME NEW list, NEW cells, Leads(list, cells), NEW k \in 1 .. Len(cells)
    PROVE  Leads(linked_list_remove(list, cells[k]), But(cells, k))
<1> DEFINE cell == cells[k]
           left == linked_list_remove(list, cell)
           rest == But(cells, k)
           n == Len(cells)
<1>1. /\ cells \in Seq(Cell) /\ n \in Nat /\ list \in List
      /\ list.size = n /\ list.head = Nth(cells, 1)
      /\ \A i \in 1 .. n : cells[i] \in Cell /\ list.next[cells[i]] = Nth(cells, i + 1)
      /\ \A i, j \in 1 .. n : cells[i] = cells[j] => i = j
      BY DEF Leads
<1>2. /\ rest \in Seq(Cell) /\ Len(rest) = n - 1
      /\ \A i \in 1 .. n - 1 : rest[i] = IF i < k THEN cells[i] ELSE cells[i + 1]
      BY <1>1, ButIs
<1>3. /\ list.next \in [Cell -> Pointer] /\ list.head \in Pointer /\ list.last \in Pointer
      /\ cell \in Pointer /\ NoCell \in Pointer /\ list.size - 1 \in Nat
      BY <1>1 DEF List, Pointer
<1>4. Items(list) = cells
      BY ItemsAre
<1>5. linked_list_contains(list, cell)
      BY <1>4 DEF linked_list_contains, Nodes
<1>6. list.next[cell] = Nth(cells, k + 1) /\ Nth(cells, k + 1) \in Pointer
      BY <1>1, <1>3
<1>7. \A i \in 1 .. n : Nth(rest, i) = IF i < k THEN cells[i] ELSE Nth(cells, i + 1)
      BY <1>1, <1>2 DEF Nth
<1>8. \A i, j \in 1 .. n - 1 : rest[i] = rest[j] => i = j
  <2>1. SUFFICES ASSUME NEW i \in 1 .. n - 1, NEW j \in 1 .. n - 1, rest[i] = rest[j]
                 PROVE  i = j
        OBVIOUS
  <2> DEFINE at(m) == IF m < k THEN m ELSE m + 1
  <2>2. /\ at(i) \in 1 .. n /\ at(j) \in 1 .. n
        /\ rest[i] = cells[at(i)] /\ rest[j] = cells[at(j)]
        BY <1>1, <1>2
  <2>3. at(i) = at(j)
        BY <1>1, <2>1, <2>2
  <2> QED BY <1>1, <2>3
<1> HIDE DEF rest, n
<1>9. CASE k = 1
  <2>1. Nth(cells, 1) = cell
        BY <1>9 DEF Nth
  <2>2. left = [list EXCEPT !.head = list.next[cell], !.size = @ - 1]
        BY <1>1, <1>5, <2>1, Zenon DEF linked_list_remove
  <2>3. left = [head |-> list.next[cell], last |-> list.last, next |-> list.next,
                size |-> list.size - 1]
        BY <1>1, <2>2, RemoveHeadWrites
  <2> HIDE DEF left
  <2>4. left \in List
        BY <1>3, <1>6, <2>3 DEF List
  <2>5. left.head = Nth(rest, 1) /\ left.size = n - 1
        BY <1>1, <1>6, <1>7, <1>9, <2>3 DEF n, Nth
  <2>6. ASSUME NEW i \in 1 .. n - 1 PROVE left.next[rest[i]] = Nth(rest, i + 1)
    <3>1. rest[i] = cells[i + 1] /\ i + 1 \in 1 .. n
          BY <1>1, <1>2, <1>9
    <3>2. left.next = list.next /\ list.next[cells[i + 1]] = Nth(cells, (i + 1) + 1)
          BY <1>1, <2>3, <3>1
    <3>3. Nth(rest, i + 1) = Nth(cells, (i + 1) + 1)
          BY <1>7, <1>9, <3>1
    <3> QED BY <3>1, <3>2, <3>3
  <2>7. Leads(left, rest)
        BY <1>2, <1>8, <2>4, <2>5, <2>6 DEF Leads
  <2> QED BY <2>7 DEF left, rest
<1>10. CASE k # 1
  <2>1. k - 1 \in 1 .. n /\ (k - 1) + 1 = k
        BY <1>1, <1>10 DEF n
  <2>2. list.head # cell
        BY <1>1, <1>10, <2>1 DEF Nth, n
  <2> DEFINE before == CHOOSE node \in Nodes(list) : list.next[node] = cell
  <2>3. cells[k - 1] \in Nodes(list) /\ list.next[cells[k - 1]] = cell
        BY <1>1, <1>4, <2>1 DEF Nodes, Nth, n
  <2>4. before \in Nodes(list) /\ list.next[before] = cell
        BY <2>3
  <2>5. left = [list EXCEPT !.next[before] = list.next[cell], !.size = @ - 1]
        BY <1>5, <2>2, Zenon DEF linked_list_remove
  <2> HIDE DEF before
  <2>6. before = cells[k - 1]
    <3>1. PICK i \in 1 .. n : before = cells[i]
          BY <1>4, <2>4 DEF Nodes, n
    <3>2. Nth(cells, i + 1) = cell
          BY <1>1, <2>4, <3>1
    <3>3. i + 1 \in 1 .. n /\ cells[i + 1] = cell
          BY <1>1, <3>2, NoCellIsNone DEF Nth, n
    <3>4. i + 1 = k
          BY <1>1, <3>3 DEF n
    <3> QED BY <1>1, <3>1, <3>4
  <2>7. left = [head |-> list.head, last |-> list.last,
                next |-> [list.next EXCEPT ![before] = list.next[cell]],
                size |-> list.size - 1]
        BY <1>1, <2>5, RemoveWrites
  <2> HIDE DEF left
  <2>8. left \in List
        BY <1>3, <1>6, <2>7 DEF List
  <2>9. cells[k - 1] \in Cell /\ Nth(cells, 1) = cells[1]
        BY <1>1, <2>1 DEF Nth, n
  <2>10. ASSUME NEW i \in 1 .. n - 1 PROVE left.next[rest[i]] = Nth(rest, i + 1)
    <3>1. i + 1 \in 1 .. n /\ i \in 1 .. n
          BY <1>1
    <3>2. CASE i = k - 1
          BY <1>1, <1>2, <1>3, <1>6, <1>7, <2>6, <2>7, <2>9, <3>1, <3>2
    <3>3. CASE i < k - 1
      <4>1. /\ rest[i] = cells[i] /\ cells[i] # cells[k - 1] /\ cells[i] \in Cell
            /\ Nth(cells, i + 1) = cells[i + 1]
            BY <1>1, <1>2, <2>1, <3>1, <3>3 DEF Nth, n
      <4> QED BY <1>1, <1>3, <1>7, <2>6, <2>7, <3>1, <3>3, <4>1
    <3>4. CASE i > k - 1
      <4>1. rest[i] = cells[i + 1] /\ cells[i + 1] # cells[k - 1] /\ cells[i + 1] \in Cell
            BY <1>1, <1>2, <2>1, <3>1, <3>4
      <4> QED BY <1>1, <1>3, <1>7, <2>6, <2>7, <3>1, <3>4, <4>1
    <3> QED BY <1>1, <3>2, <3>3, <3>4 DEF n
  <2>11. left.head = Nth(rest, 1) /\ left.size = n - 1
        BY <1>1, <1>7, <1>10, <2>1, <2>7, <2>9 DEF n
  <2>12. Leads(left, rest)
        BY <1>2, <1>8, <2>8, <2>10, <2>11 DEF Leads
  <2> QED BY <2>12 DEF left, rest
<1> QED BY <1>9, <1>10

LEMMA EmptyLeads == LeadsToLast(Empty, <<>>) /\ Empty \in List
<1>1. <<>> \in Seq(Cell) /\ Len(<<>>) = 0
      OBVIOUS
<1>2. Empty \in List /\ Empty.size = 0 /\ Empty.head = NoCell
      BY DEF Empty, List, Pointer
<1> QED BY <1>1, <1>2 DEF LeadsToLast, Leads, Nth

\* A list is built in the order of the pushes.
LEMMA PushedLeads ==
    ASSUME NEW cells \in Seq(Cell), \A i, j \in 1 .. Len(cells) : cells[i] = cells[j] => i = j
    PROVE  LeadsToLast(Pushed(cells), cells)
<1> DEFINE upto(n) == SubSeq(cells, 1, n)
           len == Len(cells)
           Steps(f) == [n \in 0 .. len |->
                          IF n = 0 THEN Empty ELSE linked_list_push(f[n - 1], cells[n])]
           list == CHOOSE f : f = Steps(f)
           Built(m, g) == /\ DOMAIN g = 0 .. m /\ g = [i \in 0 .. m |-> g[i]] /\ g[0] = Empty
                          /\ \A i \in 1 .. m : g[i] = linked_list_push(g[i - 1], cells[i])
           E == {m \in Nat : \E g : Built(m, g)}
<1>1. len \in Nat /\ \A i \in 1 .. len : cells[i] \in Cell
      OBVIOUS
<1>2. E = Nat
  <2>1. 0 \in E
    <3>1. Built(0, [i \in 0 .. 0 |-> Empty])
          OBVIOUS
    <3> HIDE DEF Built
    <3> QED BY <3>1
  <2>2. ASSUME NEW m \in E PROVE m + 1 \in E
    <3>1. PICK g : Built(m, g)
          OBVIOUS
    <3> DEFINE h == [i \in 0 .. m + 1 |->
                       IF i = m + 1 THEN linked_list_push(g[m], cells[m + 1]) ELSE g[i]]
    <3>2. Built(m + 1, h)
      <4>1. h[0] = Empty /\ h[m + 1] = linked_list_push(h[m], cells[m + 1])
            BY <3>1
      <4>2. ASSUME NEW i \in 1 .. m PROVE h[i] = linked_list_push(h[i - 1], cells[i])
        <5>1. h[i] = g[i] /\ h[i - 1] = g[i - 1]
              OBVIOUS
        <5> QED BY <3>1, <5>1
      <4>3. DOMAIN h = 0 .. m + 1 /\ h = [i \in 0 .. m + 1 |-> h[i]]
            OBVIOUS
      <4>4. \A i \in 1 .. m + 1 : i = m + 1 \/ i \in 1 .. m
            OBVIOUS
      <4> HIDE DEF h
      <4>5. ASSUME NEW i \in 1 .. m + 1 PROVE h[i] = linked_list_push(h[i - 1], cells[i])
        <5>1. (m + 1) - 1 = m
              OBVIOUS
        <5> QED BY <4>1, <4>2, <4>4, <5>1
      <4> QED BY <4>1, <4>3, <4>5
    <3> HIDE DEF h, Built
    <3> QED BY <3>2
  <2>3. E \in SUBSET Nat
        OBVIOUS
  <2> HIDE DEF E
  <2> QED BY <2>1, <2>2, <2>3, SetInduction
<1>3. \E f : f = Steps(f)
  <2>1. PICK f : Built(len, f)
        BY <1>1, <1>2
  <2>2. ASSUME NEW n \in 0 .. len PROVE f[n] = Steps(f)[n]
        BY <1>1, <2>1
  <2>3. f = [n \in 0 .. len |-> f[n]] /\ Steps(f) = [n \in 0 .. len |-> Steps(f)[n]]
        BY <2>1
  <2> HIDE DEF Steps, Built
  <2>4. f = Steps(f)
        BY <2>2, <2>3
  <2> QED BY <2>4
<1>4. list = Steps(list)
  <2> HIDE DEF Steps
  <2> QED BY <1>3
<1>5. Pushed(cells) = list[len]
      BY DEF Pushed
<1> HIDE DEF list
<1>6. list[0] = Empty /\ \A n \in 1 .. len : list[n] = linked_list_push(list[n - 1], cells[n])
      BY <1>1, <1>4
<1> HIDE DEF Steps
<1> DEFINE F == {n \in Nat : n <= len => LeadsToLast(list[n], upto(n))}
<1>7. F = Nat
  <2>1. 0 \in F
    <3>1. upto(0) = <<>>
          BY SubSeqEmpty
    <3> HIDE DEF upto
    <3> QED BY <1>6, <3>1, EmptyLeads
  <2>2. ASSUME NEW n \in F PROVE n + 1 \in F
    <3>1. SUFFICES ASSUME n + 1 <= len PROVE LeadsToLast(list[n + 1], upto(n + 1))
          OBVIOUS
    <3>2. n \in Nat /\ n + 1 \in 1 .. len /\ n <= len /\ (n + 1) - 1 = n
          BY <1>1, <3>1
    <3>3. LeadsToLast(list[n], upto(n)) /\ cells[n + 1] \in Cell
          BY <1>1, <3>2
    <3>4. /\ upto(n) \in Seq(Cell) /\ Len(upto(n)) = n
          /\ \A i \in 1 .. n : upto(n)[i] = cells[i]
          BY <1>1, <3>2, SubSeqProperties
    <3>5. upto(n + 1) = Append(upto(n), cells[n + 1])
          BY <1>1, <3>2, <3>4, SubSeqRecursiveSecond, AppendIsConcat
    <3> HIDE DEF upto
    <3>6. \A i \in 1 .. Len(upto(n)) : upto(n)[i] # cells[n + 1]
          BY <1>1, <3>2, <3>4
    <3>7. LeadsToLast(linked_list_push(list[n], cells[n + 1]), Append(upto(n), cells[n + 1]))
          BY <3>3, <3>6, PushLeads
    <3> QED BY <1>6, <3>2, <3>5, <3>7
  <2>3. F \in SUBSET Nat
        OBVIOUS
  <2> HIDE DEF F
  <2> QED BY <2>1, <2>2, <2>3, SetInduction
<1>8. upto(len) = cells
      BY SubSeqFull
<1> HIDE DEF upto
<1> QED BY <1>1, <1>5, <1>7, <1>8

-----------------------------------------------------------------------------
(* The order of the list.                                                  *)

Place(cell) == cell[2] * maze_width + cell[1]

LEMMA PlaceIs ==
    ASSUME NEW cell \in Cell
    PROVE  Place(cell) \in 0 .. maze_width * maze_height - 1
<1>1. PICK i \in 0 .. maze_width - 1, j \in 0 .. maze_height - 1 : cell = <<i, j>>
      BY DEF Cell
<1>2. Place(cell) = j * maze_width + i
      BY <1>1 DEF Place
<1>3. /\ maze_width \in Nat /\ maze_height \in Nat /\ i \in Nat /\ j \in Nat
      /\ i <= maze_width - 1 /\ j <= maze_height - 1
      BY MazeHasACell
<1>4. /\ j * maze_width \in Nat /\ maze_width * maze_height \in Nat
      /\ j * maze_width <= maze_width * maze_height - maze_width
      BY <1>3
<1> QED BY <1>2, <1>3, <1>4

LEMMA OnePlaceEach ==
    ASSUME NEW a \in Cell, NEW b \in Cell, Place(a) = Place(b)
    PROVE  a = b
<1>1. PICK i \in 0 .. maze_width - 1, j \in 0 .. maze_height - 1 : a = <<i, j>>
      BY DEF Cell
<1>2. PICK k \in 0 .. maze_width - 1, l \in 0 .. maze_height - 1 : b = <<k, l>>
      BY DEF Cell
<1>3. /\ maze_width \in Nat /\ i \in Nat /\ j \in Nat /\ k \in Nat /\ l \in Nat
      /\ i < maze_width /\ k < maze_width
      BY MazeHasACell
<1>4. j * maze_width + i = l * maze_width + k
      BY <1>1, <1>2 DEF Place
<1>5. /\ j * maze_width \in Nat /\ l * maze_width \in Nat
      /\ j < l => j * maze_width <= l * maze_width - maze_width
      /\ l < j => l * maze_width <= j * maze_width - maze_width
      BY <1>3
<1>6. j = l
      BY <1>3, <1>4, <1>5
<1> QED BY <1>1, <1>2, <1>3, <1>4, <1>6

\* The cells pushed are those of the maze, each once, row by row.
LEMMA RowByRowIs ==
    /\ RowByRow \in Seq(Cell) /\ Len(RowByRow) = maze_width * maze_height
    /\ \A i \in 1 .. Len(RowByRow) : Place(RowByRow[i]) = i - 1
    /\ \A i, j \in 1 .. Len(RowByRow) : RowByRow[i] = RowByRow[j] => i = j
    /\ \A cell \in Cell : \E i \in 1 .. Len(RowByRow) : RowByRow[i] = cell
<1> DEFINE n == maze_width * maze_height
<1>1. /\ maze_width \in Nat /\ maze_height \in Nat /\ maze_width > 0 /\ n \in Nat
      BY MazeHasACell
<1>2. ASSUME NEW i \in 1 .. n
      PROVE  RowByRow[i] \in Cell /\ Place(RowByRow[i]) = i - 1
  <2> DEFINE a == (i - 1) % maze_width
             b == (i - 1) \div maze_width
  <2>1. /\ i - 1 \in Int /\ 0 <= i - 1 /\ i - 1 < n
        BY <1>1
  <2>2. /\ a \in Int /\ b \in Int /\ 0 <= a /\ a < maze_width
        /\ i - 1 = b * maze_width + a
        BY <1>1, <2>1
  <2>3. RowByRow[i] = <<a, b>>
        BY DEF RowByRow
  <2> HIDE DEF a, b
  <2>4. /\ b < 0 => b * maze_width <= -maze_width
        /\ b >= maze_height => b * maze_width >= n
        /\ b * maze_width \in Int
        BY <1>1, <2>2
  <2>5. 0 <= b /\ b < maze_height
        BY <1>1, <2>1, <2>2, <2>4
  <2>6. a \in 0 .. maze_width - 1 /\ b \in 0 .. maze_height - 1
        BY <1>1, <2>2, <2>5
  <2> QED BY <2>2, <2>3, <2>6 DEF Cell, Place
<1>3. RowByRow = [i \in 1 .. n |-> RowByRow[i]]
      BY DEF RowByRow
<1> HIDE DEF n
<1>4. RowByRow \in [1 .. n -> Cell]
      BY <1>2, <1>3
<1>5. RowByRow \in Seq(Cell) /\ Len(RowByRow) = n
      BY <1>1, <1>4
<1>6. ASSUME NEW cell \in Cell
      PROVE  \E i \in 1 .. n : RowByRow[i] = cell
  <2>1. Place(cell) + 1 \in 1 .. n /\ (Place(cell) + 1) - 1 = Place(cell)
        BY <1>1, PlaceIs DEF n
  <2>2. RowByRow[Place(cell) + 1] = cell
        BY <1>2, <2>1, OnePlaceEach
  <2> QED BY <2>1, <2>2
<1>7. \A i, j \in 1 .. n : RowByRow[i] = RowByRow[j] => i = j
  <2>1. ASSUME NEW i \in 1 .. n, NEW j \in 1 .. n, RowByRow[i] = RowByRow[j]
        PROVE  i = j
    <3>1. i - 1 = j - 1
          BY <1>2, <2>1
    <3> QED BY <1>1, <3>1
  <2> QED BY <2>1
<1> QED BY <1>2, <1>5, <1>6, <1>7 DEF n

-----------------------------------------------------------------------------
(* The nearest cell of a list.                                             *)

LEMMA MinimumIs ==
    ASSUME NEW list, NEW cells, Leads(list, cells), Len(cells) > 0,
           NEW d \in [Cell -> Nat]
    PROVE  \E k \in 1 .. Len(cells) :
              /\ get_minimum_distance(list, d) = cells[k]
              /\ \A j \in 1 .. Len(cells) : d[cells[k]] <= d[cells[j]]
<1>1. /\ Items(list) = cells /\ Len(cells) \in Nat
      /\ \A i \in 1 .. Len(cells) : cells[i] \in Cell /\ d[cells[i]] \in Nat
  <2>1. cells \in Seq(Cell)
        BY DEF Leads
  <2> QED BY <2>1, ItemsAre
<1> DEFINE I == 1 .. Len(cells)
           Values == {d[cells[i]] : i \in I}
           Least(i) == \A j \in I : d[cells[i]] <= d[cells[j]]
           First(i) == Least(i) /\ \A j \in 1 .. i - 1 : d[cells[i]] < d[cells[j]]
<1>2. PICK v \in Values : \A u \in Values : v <= u
  <2>1. Values \in SUBSET Nat
        BY <1>1
  <2>2. Values # {}
    <3>1. d[cells[1]] \in Values
          BY <1>1
    <3> QED BY <3>1
  <2> HIDE DEF Values
  <2> QED BY <2>1, <2>2, LeastOf
<1> DEFINE Nearest == {i \in I : d[cells[i]] = v}
<1>3. PICK k \in Nearest : \A i \in Nearest : k <= i
  <2>1. Nearest \in SUBSET Nat /\ Nearest # {}
        BY <1>1, <1>2
  <2> HIDE DEF Nearest
  <2> QED BY <2>1, LeastOf
<1>4. k \in I /\ First(k)
  <2>1. Least(k)
        BY <1>2, <1>3
  <2>2. ASSUME NEW j \in 1 .. k - 1 PROVE d[cells[k]] < d[cells[j]]
    <3>1. j \in I /\ j < k /\ k \in I
          BY <1>1, <1>3
    <3>2. d[cells[j]] # v
          BY <1>1, <1>3, <3>1
    <3> QED BY <1>1, <1>3, <2>1, <3>1, <3>2
  <2> QED BY <1>3, <2>1, <2>2
<1> DEFINE m == CHOOSE i \in I : First(i)
<1>5. m \in I /\ First(m)
  <2> HIDE DEF First, I
  <2> QED BY <1>4
<1>6. get_minimum_distance(list, d) = cells[m]
      BY <1>1 DEF get_minimum_distance
<1> HIDE DEF m
<1> QED BY <1>5, <1>6

-----------------------------------------------------------------------------
(* The inductive invariant of the search.                                  *)

\* The cells that left the list.
Searched == {cell \in Cell : ~linked_list_contains(nodes, cell)}

Opens(a, b) == \E side \in Side \ wall[a] : Beyond(a, side) = b

SolverTypeOK == /\ dist \in [Cell -> Nat] /\ prev \in [Cell -> Pointer]
                /\ current_cell \in Pointer

InOrder(cells) ==
    \A i, j \in 1 .. Len(cells) : i < j => Place(cells[i]) < Place(cells[j])

\* The exit stays in the list: the search ends with it.
NodesInv == /\ Leads(nodes, Items(nodes))
            /\ InOrder(Items(nodes))
            /\ Exit \notin Searched

\* A distance below INT_MAX is that of a way; the searched cells are the
\* nearest, and their neighbours know of them.
DistInv ==
    /\ dist[Start] = 0
    /\ \A cell \in Cell :
          /\ dist[cell] <= INT_MAX
          /\ dist[cell] < INT_MAX => /\ cell \in Walk[dist[cell]]
                                     /\ dist[cell] <= Cardinality(Searched)
    /\ \A cell \in Searched :
          /\ dist[cell] < INT_MAX
          /\ \A other \in Cell \ Searched : dist[cell] <= dist[other]
          /\ \A next \in Around(cell) : dist[next] <= dist[cell] + 1

\* The way back, cell by cell.
PrevInv ==
    /\ prev[Start] = NoCell
    /\ \A cell \in Cell :
          dist[cell] < INT_MAX /\ cell # Start =>
              /\ prev[cell] \in Searched
              /\ Opens(prev[cell], cell)
              /\ dist[cell] = dist[prev[cell]] + 1

\* The part of the way that is traced already.
TraceInv ==
    LET way == Items(solution)
    IN /\ LeadsToLast(solution, way)
       /\ current_cell # NoCell \/ solution # Empty =>
             /\ stack = <<>>
             /\ dist[Exit] < INT_MAX
             /\ \A other \in Cell \ Searched : dist[Exit] <= dist[other]
             /\ \A i \in 1 .. Len(way) : dist[way[i]] + i = dist[Exit] + 1
             /\ \A i \in 1 .. Len(way) - 1 : Opens(way[i], way[i + 1])
             /\ Len(way) > 0 => way[1] = Exit
             /\ current_cell = NoCell => Len(way) > 0 /\ way[Len(way)] = Start
             /\ current_cell # NoCell =>
                   /\ dist[current_cell] + Len(way) = dist[Exit]
                   /\ Len(way) = 0 => current_cell = Exit
                   /\ Len(way) > 0 => Opens(way[Len(way)], current_cell)

SearchInv == SolverTypeOK /\ NodesInv /\ DistInv /\ PrevInv /\ TraceInv

\* Before the maze is generated, and when the search begins.
Fresh ==
    /\ dist = [cell \in Cell |-> IF cell = Start THEN 0 ELSE INT_MAX]
    /\ prev = [cell \in Cell |-> NoCell]
    /\ nodes = Pushed(RowByRow) /\ solution = Empty /\ current_cell = NoCell

SolverInv == GrowthInv /\ (stack # <<>> => Fresh) /\ SearchInv

-----------------------------------------------------------------------------
(* What the invariant says of the cells.                                   *)

LEMMA ContainsIs ==
    ASSUME NEW list, NEW cells, Leads(list, cells), NEW cell
    PROVE  linked_list_contains(list, cell) <=> \E i \in 1 .. Len(cells) : cells[i] = cell
BY ItemsAre DEF linked_list_contains, Nodes

LEMMA ExitIsCell == Exit \in Cell
BY MazeHasACell DEF Exit, Cell

LEMMA AroundIs ==
    ASSUME WallsAgree, NEW a \in Cell, NEW b
    PROVE  /\ b \in Around(a) <=> b = a \/ Opens(a, b)
           /\ Opens(a, b) => b \in Cell /\ b # a
BY BackAgain DEF WallsAgree, Around, Opens

\* An open side is open from behind as well.
LEMMA OpensBack ==
    ASSUME WallsAgree, NEW a \in Cell, NEW b, Opens(a, b)
    PROVE  Opens(b, a)
<1>1. PICK side \in Side : side \notin wall[a] /\ Beyond(a, side) = b
      BY DEF Opens
<1>2. b \in Cell /\ Opposite(side) \in Side /\ Opposite(side) \notin wall[b]
      BY <1>1, OppositeSide DEF WallsAgree
<1>3. Beyond(b, Opposite(side)) = a
      BY <1>1, BackAgain
<1> QED BY <1>2, <1>3 DEF Opens

\* One more step of the walk.
LEMMA WalkOn ==
    ASSUME WallsAgree, NEW n \in Nat, NEW a \in Walk[n], NEW b \in Around(a)
    PROVE  b \in Walk[n + 1]
BY WalkIs

LEMMA SearchedCount ==
    ASSUME NodesInv
    PROVE  /\ IsFiniteSet(Searched) /\ Cardinality(Searched) \in Nat
           /\ Cardinality(Searched) + 1 < INT_MAX
<1>1. Searched \in SUBSET Cell /\ Searched # Cell
      BY ExitIsCell DEF NodesInv, Searched
<1>2. /\ IsFiniteSet(Searched) /\ Cardinality(Searched) <= Cardinality(Cell)
      /\ Cardinality(Searched) # Cardinality(Cell)
      BY <1>1, CellsCounted, FS_Subset
<1>3. Cardinality(Searched) \in Nat /\ Cardinality(Cell) \in Nat
      BY <1>2, CellsCounted, FS_CardinalityType
<1> QED BY <1>2, <1>3, CellsCounted, DistancesFit

\* The search has always reached a cell that it did not search: the searched
\* cells alone are no maze that ends at the exit.
LEMMA SomeReached ==
    ASSUME GrowthInv, SearchInv, stack = <<>>
    PROVE  \E cell \in Cell \ Searched : dist[cell] < INT_MAX
<1> SUFFICES ASSUME \A cell \in Cell \ Searched : ~(dist[cell] < INT_MAX) PROVE FALSE
      OBVIOUS
<1>1. Unbroken(Searched)
  <2>1. ASSUME NEW cell \in Searched, NEW next \in Around(cell) PROVE next \in Searched
    <3>1. cell \in Cell /\ next \in Cell
          BY <2>1, AroundInside DEF Searched, GrowthInv
    <3>2. /\ dist[cell] < INT_MAX /\ dist[next] <= dist[cell] + 1
          /\ dist[cell] <= Cardinality(Searched)
          BY <2>1, <3>1 DEF SearchInv, DistInv
    <3>3. dist[cell] \in Nat /\ dist[next] \in Nat
          BY <3>1 DEF SearchInv, SolverTypeOK
    <3>4. dist[next] < INT_MAX
          BY <3>2, <3>3, SearchedCount, DistancesFit DEF SearchInv
    <3> QED BY <3>1, <3>4
  <2> QED BY <2>1 DEF Unbroken
<1>2. Start \in Searched
      BY StartIsCell, DistancesFit, MazeHasACell DEF SearchInv, DistInv
<1>3. Searched \in SUBSET Cell
      BY DEF Searched
<1>4. {cell \in Cell : visited[cell]} \subseteq Searched
      BY <1>1, <1>2, <1>3 DEF GrowthInv, Joined
<1> QED BY <1>4, AllVisited, ExitIsCell DEF SearchInv, NodesInv

\* The cell that a turn of the loop takes.
LEMMA NearestIs ==
    ASSUME GrowthInv, SearchInv, stack = <<>>
    PROVE  /\ nodes.size > 0
           /\ get_minimum_distance(nodes, dist) \in Cell \ Searched
           /\ dist[get_minimum_distance(nodes, dist)] < INT_MAX
           /\ \A other \in Cell \ Searched :
                 dist[get_minimum_distance(nodes, dist)] <= dist[other]
           /\ \E k \in 1 .. Len(Items(nodes)) :
                 get_minimum_distance(nodes, dist) = Items(nodes)[k]
<1> DEFINE cells == Items(nodes)
           nearest == get_minimum_distance(nodes, dist)
<1>1. Leads(nodes, cells) /\ dist \in [Cell -> Nat]
      BY DEF SearchInv, NodesInv, SolverTypeOK
<1>2. \A cell \in Cell : cell \notin Searched <=> \E i \in 1 .. Len(cells) : cells[i] = cell
      BY <1>1, ContainsIs DEF Searched
<1>3. cells \in Seq(Cell) /\ nodes.size = Len(cells)
      BY <1>1 DEF Leads
<1> HIDE DEF cells
<1>4. PICK reached \in Cell \ Searched : dist[reached] < INT_MAX
      BY SomeReached
<1>5. Len(cells) > 0 /\ nodes.size > 0
      BY <1>2, <1>3, <1>4
<1>6. PICK k \in 1 .. Len(cells) :
         nearest = cells[k] /\ \A j \in 1 .. Len(cells) : dist[nearest] <= dist[cells[j]]
      BY <1>1, <1>5, MinimumIs
<1> HIDE DEF nearest
<1>7. nearest \in Cell \ Searched
      BY <1>2, <1>3, <1>6
<1>8. \A other \in Cell \ Searched : dist[nearest] <= dist[other]
      BY <1>2, <1>6
<1>9. dist[nearest] < INT_MAX
  <2>1. dist[nearest] \in Nat /\ dist[reached] \in Nat /\ INT_MAX \in Nat
        BY <1>1, <1>4, <1>7, DistancesFit
  <2> QED BY <1>4, <1>8, <2>1
<1> QED BY <1>5, <1>6, <1>7, <1>8, <1>9 DEF cells, nearest

\* A way of n steps leads to a distance of at most n, or past a cell as near
\* that was not searched.
LEMMA NoWayIsShorter ==
    ASSUME WallsAgree, SolverTypeOK, DistInv, NEW n \in Nat
    PROVE  \A cell \in Walk[n] :
              dist[cell] <= n \/ \E other \in Cell \ Searched : dist[other] <= n
<1> DEFINE E == {m \in Nat : \A cell \in Walk[m] :
                    dist[cell] <= m \/ \E other \in Cell \ Searched : dist[other] <= m}
<1>1. 0 \in E
      BY WalkIs DEF DistInv
<1>2. ASSUME NEW m \in E PROVE m + 1 \in E
  <2>1. SUFFICES ASSUME NEW cell \in Walk[m + 1],
                        \A other \in Cell \ Searched : ~(dist[other] <= m + 1)
                 PROVE  dist[cell] <= m + 1
        OBVIOUS
  <2>2. PICK before \in Walk[m] : cell \in Around(before)
        BY WalkIs
  <2>3. before \in Cell /\ cell \in Cell
        BY <2>2, WalkIs, AroundInside
  <2>4. dist[before] \in Nat /\ dist[cell] \in Nat
        BY <2>3 DEF SolverTypeOK
  <2>5. \A other \in Cell \ Searched : dist[other] \in Nat /\ ~(dist[other] <= m)
        BY <2>1 DEF SolverTypeOK
  <2>6. dist[before] <= m
        BY <2>2, <2>5
  <2>7. before \in Searched
        BY <2>3, <2>5, <2>6
  <2> QED BY <2>2, <2>4, <2>6, <2>7 DEF DistInv
<1>3. E \in SUBSET Nat
      OBVIOUS
<1> HIDE DEF E
<1>4. E = Nat
      BY <1>1, <1>2, <1>3, SetInduction
<1> QED BY <1>4 DEF E

\* So what is as near as the cells in the list is at its exact distance.
LEMMA DistanceIsExact ==
    ASSUME WallsAgree, SolverTypeOK, DistInv, NEW cell \in Cell,
           dist[cell] < INT_MAX, \A other \in Cell \ Searched : dist[cell] <= dist[other]
    PROVE  /\ cell \in Walk[dist[cell]]
           /\ dist[cell] > 0 => cell \notin Walk[dist[cell] - 1]
<1>1. cell \in Walk[dist[cell]]
      BY DEF DistInv
<1>2. ASSUME dist[cell] > 0, cell \in Walk[dist[cell] - 1] PROVE FALSE
  <2>1. dist[cell] \in Nat /\ dist[cell] - 1 \in Nat
        BY <1>2 DEF SolverTypeOK
  <2>2. dist[cell] <= dist[cell] - 1
           \/ \E other \in Cell \ Searched : dist[other] <= dist[cell] - 1
        BY <1>2, <2>1, NoWayIsShorter
  <2>3. \A other \in Cell \ Searched : dist[other] \in Nat
        BY DEF SolverTypeOK
  <2> QED BY <2>1, <2>2, <2>3
<1> QED BY <1>1, <1>2

-----------------------------------------------------------------------------
(* The search starts.                                                      *)

LEMMA FreshInv == GrowthInv /\ Fresh => SearchInv
<1> SUFFICES ASSUME GrowthInv, Fresh PROVE SearchInv
      OBVIOUS
<1>1. /\ INT_MAX \in Nat /\ INT_MAX > 0
      BY DistancesFit, MazeHasACell
<1>2. SolverTypeOK /\ dist[Start] = 0 /\ prev[Start] = NoCell
      BY <1>1, StartIsCell DEF Fresh, SolverTypeOK, Pointer
<1>3. \A cell \in Cell : /\ dist[cell] <= INT_MAX
                         /\ dist[cell] < INT_MAX => cell = Start
      BY <1>1 DEF Fresh
<1>4. LeadsToLast(nodes, RowByRow)
      BY RowByRowIs, PushedLeads DEF Fresh
<1>5. Leads(nodes, RowByRow) /\ Items(nodes) = RowByRow
      BY <1>4, ItemsAre DEF LeadsToLast
<1>6. Searched = {}
      BY <1>5, ContainsIs, RowByRowIs DEF Searched
<1>7. NodesInv
  <2>1. InOrder(RowByRow)
    <3>1. Len(RowByRow) \in Nat
          BY RowByRowIs
    <3> QED BY <3>1, RowByRowIs DEF InOrder
  <2> QED BY <1>5, <1>6, <2>1 DEF NodesInv
<1>8. DistInv
  <2>1. Start \in Walk[0] /\ Cardinality({}) = 0
        BY WalkIs, FS_EmptySet DEF GrowthInv
  <2> QED BY <1>2, <1>3, <1>6, <2>1 DEF DistInv
<1>9. PrevInv
      BY <1>2, <1>3 DEF PrevInv
<1>10. TraceInv
  <2>1. Items(Empty) = <<>>
        BY EmptyLeads, ItemsAre DEF LeadsToLast
  <2> QED BY <2>1, EmptyLeads DEF TraceInv, Fresh
<1> QED BY <1>2, <1>7, <1>8, <1>9, <1>10 DEF SearchInv

-----------------------------------------------------------------------------
(* A turn of the search.                                                   *)

LEMMA MazeStays ==
    ASSUME UNCHANGED vars
    PROVE  /\ Walk' = Walk /\ \A a : Around(a)' = Around(a)
           /\ \A a, b : Opens(a, b)' = Opens(a, b)
<1>1. \A a : Around(a)' = Around(a)
      BY DEF vars, Around
<1>2. Walk' = Walk
      BY DEF vars, Walk, Around
<1> QED BY <1>1, <1>2 DEF vars, Opens

\* What a turn does to the list and the marks.
LEMMA RelaxIs ==
    ASSUME GrowthInv, SearchInv, Relax
    PROVE  \E current \in Cell \ Searched :
              /\ dist[current] < INT_MAX /\ current # Exit
              /\ \A other \in Cell \ Searched : dist[current] <= dist[other]
              /\ NodesInv' /\ Searched' = Searched \cup {current}
              /\ SolverTypeOK'
              /\ \A cell \in Cell :
                    \/ /\ cell \notin Searched /\ cell # current
                       /\ Opens(current, cell) /\ dist[current] + 1 < dist[cell]
                       /\ dist'[cell] = dist[current] + 1 /\ prev'[cell] = current
                    \/ /\ dist'[cell] = dist[cell] /\ prev'[cell] = prev[cell]
                       /\ cell \notin Searched /\ cell # current /\ Opens(current, cell)
                            => dist[cell] <= dist[current] + 1
<1> DEFINE current == get_minimum_distance(nodes, dist)
           cells == Items(nodes)
           alt == dist[current] + 1
           better(cell) == cell \in Ahead(current) /\ alt < dist[cell]
<1>1. /\ current # Exit /\ stack = <<>>
      /\ nodes' = linked_list_remove(nodes, current)
      /\ dist' = [cell \in Cell |-> IF better(cell) THEN alt ELSE dist[cell]]
      /\ prev' = [cell \in Cell |-> IF better(cell) THEN current ELSE prev[cell]]
      /\ UNCHANGED <<solution, current_cell>>
      BY DEF Relax, Searching, Generated
<1>2. /\ current \in Cell \ Searched /\ dist[current] < INT_MAX
      /\ \A other \in Cell \ Searched : dist[current] <= dist[other]
      /\ \E k \in 1 .. Len(cells) : current = cells[k]
      BY <1>1, NearestIs
<1>3. PICK k \in 1 .. Len(cells) : current = cells[k]
      BY <1>2
<1>4. \A cell \in Cell :
         cell \in Ahead(current) <=> /\ cell \notin Searched /\ cell # current
                                     /\ Opens(current, cell)
      BY DEF Ahead, Searched, Opens
<1>5. dist \in [Cell -> Nat] /\ prev \in [Cell -> Pointer] /\ current_cell \in Pointer
      BY DEF SearchInv, SolverTypeOK
<1> HIDE DEF current
<1>6. dist[current] \in Nat /\ current \in Cell /\ current \in Pointer /\ alt \in Nat
      BY <1>2, <1>5 DEF Pointer
<1>7. SolverTypeOK'
      BY <1>1, <1>5, <1>6 DEF SolverTypeOK
<1>8. Leads(nodes, cells) /\ InOrder(cells) /\ Exit \notin Searched
      BY DEF SearchInv, NodesInv
<1> DEFINE left == But(cells, k)
<1>9. Leads(nodes', left)
      BY <1>1, <1>3, <1>8, RemoveLeads
<1>10. Items(nodes') = left
      BY <1>9, ItemsAre
<1>11. /\ cells \in Seq(Cell) /\ Len(cells) \in Nat
       /\ \A i, j \in 1 .. Len(cells) : cells[i] = cells[j] => i = j
      BY <1>8 DEF Leads
<1>12. /\ Len(left) = Len(cells) - 1
       /\ \A i \in 1 .. Len(cells) - 1 : left[i] = IF i < k THEN cells[i] ELSE cells[i + 1]
      BY <1>11, ButIs
<1> HIDE DEF left, cells
<1>13. ASSUME NEW cell \in Cell
       PROVE  (\E i \in 1 .. Len(left) : left[i] = cell)
                <=> cell # current /\ \E i \in 1 .. Len(cells) : cells[i] = cell
  <2>1. ASSUME NEW i \in 1 .. Len(left), left[i] = cell
        PROVE  cell # current /\ \E j \in 1 .. Len(cells) : cells[j] = cell
    <3>1. CASE i < k
          BY <1>3, <1>11, <1>12, <2>1, <3>1
    <3>2. CASE ~(i < k)
      <4>1. i + 1 \in 1 .. Len(cells) /\ i + 1 # k /\ left[i] = cells[i + 1]
            BY <1>3, <1>11, <1>12, <3>2
      <4> QED BY <1>3, <1>11, <2>1, <4>1
    <3> QED BY <3>1, <3>2
  <2>2. ASSUME cell # current, NEW i \in 1 .. Len(cells), cells[i] = cell
        PROVE  \E j \in 1 .. Len(left) : left[j] = cell
    <3>1. i # k
          BY <1>3, <2>2
    <3>2. CASE i < k
          BY <1>3, <1>11, <1>12, <2>2, <3>2
    <3>3. CASE i > k
      <4>1. i - 1 \in 1 .. Len(left) /\ ~(i - 1 < k) /\ (i - 1) + 1 = i
            BY <1>3, <1>11, <1>12, <3>3
      <4>2. left[i - 1] = cells[i]
            BY <1>12, <4>1
      <4> QED BY <2>2, <4>1, <4>2
    <3> QED BY <1>11, <3>1, <3>2, <3>3
  <2> QED BY <2>1, <2>2
<1>14. Searched' = Searched \cup {current}
  <2>1. \A cell \in Cell :
           linked_list_contains(nodes', cell) <=> \E i \in 1 .. Len(left) : left[i] = cell
        BY <1>9, ContainsIs
  <2>2. \A cell \in Cell :
           linked_list_contains(nodes, cell) <=> \E i \in 1 .. Len(cells) : cells[i] = cell
        BY <1>8, ContainsIs
  <2> QED BY <1>6, <1>13, <2>1, <2>2 DEF Searched
<1>15. InOrder(left)
  <2>1. SUFFICES ASSUME NEW i \in 1 .. Len(left), NEW j \in 1 .. Len(left), i < j
                 PROVE  Place(left[i]) < Place(left[j])
        BY DEF InOrder
  <2> DEFINE at(m) == IF m < k THEN m ELSE m + 1
  <2>2. /\ at(i) \in 1 .. Len(cells) /\ at(j) \in 1 .. Len(cells) /\ at(i) < at(j)
        /\ left[i] = cells[at(i)] /\ left[j] = cells[at(j)]
        BY <1>11, <1>12, <2>1
  <2> HIDE DEF at
  <2> QED BY <1>8, <2>2 DEF InOrder
<1>16. NodesInv'
      BY <1>1, <1>8, <1>9, <1>10, <1>14, <1>15 DEF NodesInv
<1>17. ASSUME NEW cell \in Cell
       PROVE  \/ /\ cell \notin Searched /\ cell # current
                 /\ Opens(current, cell) /\ dist[current] + 1 < dist[cell]
                 /\ dist'[cell] = dist[current] + 1 /\ prev'[cell] = current
              \/ /\ dist'[cell] = dist[cell] /\ prev'[cell] = prev[cell]
                 /\ cell \notin Searched /\ cell # current /\ Opens(current, cell)
                      => dist[cell] <= dist[current] + 1
  <2>1. dist[cell] \in Nat
        BY <1>5
  <2> QED BY <1>1, <1>4, <1>6, <2>1
<1> QED BY <1>1, <1>2, <1>7, <1>14, <1>16, <1>17

\* The distances and the way back after a turn.
LEMMA RelaxStep ==
    ASSUME GrowthInv, SearchInv, Relax, UNCHANGED vars
    PROVE  SearchInv'
<1>1. PICK current \in Cell \ Searched :
         /\ dist[current] < INT_MAX /\ current # Exit
         /\ \A other \in Cell \ Searched : dist[current] <= dist[other]
         /\ NodesInv' /\ Searched' = Searched \cup {current}
         /\ SolverTypeOK'
         /\ \A cell \in Cell :
               \/ /\ cell \notin Searched /\ cell # current
                  /\ Opens(current, cell) /\ dist[current] + 1 < dist[cell]
                  /\ dist'[cell] = dist[current] + 1 /\ prev'[cell] = current
               \/ /\ dist'[cell] = dist[cell] /\ prev'[cell] = prev[cell]
                  /\ cell \notin Searched /\ cell # current /\ Opens(current, cell)
                       => dist[cell] <= dist[current] + 1
      BY RelaxIs
<1>2. /\ \A cell \in Cell : dist[cell] \in Nat /\ dist'[cell] \in Nat
      /\ \A cell \in Cell : dist'[cell] <= dist[cell]
  <2>1. ASSUME NEW cell \in Cell
        PROVE  /\ dist[cell] \in Nat /\ dist'[cell] \in Nat /\ dist[current] \in Nat
               /\ dist'[cell] <= dist[cell]
    <3>1. dist[cell] \in Nat /\ dist'[cell] \in Nat /\ dist[current] \in Nat
          BY <1>1 DEF SearchInv, SolverTypeOK
    <3> QED BY <1>1, <3>1
  <2> QED BY <2>1
<1>3. \A cell \in Searched \cup {current} :
         cell \in Cell /\ dist'[cell] = dist[cell] /\ prev'[cell] = prev[cell]
      BY <1>1 DEF Searched
<1>4. /\ WallsAgree /\ DistInv /\ PrevInv /\ NodesInv
      /\ Start \in Cell /\ Exit \in Cell /\ INT_MAX \in Nat
      BY StartIsCell, ExitIsCell, DistancesFit DEF GrowthInv, SearchInv
<1>5. dist'[Start] = 0 /\ prev'[Start] = NoCell
  <2>1. dist[Start] = 0 /\ prev[Start] = NoCell /\ dist[current] \in Nat
        BY <1>2, <1>4 DEF DistInv, PrevInv
  <2> QED BY <1>1, <1>4, <2>1
<1>6. /\ Cardinality(Searched) \in Nat
      /\ Cardinality(Searched') = Cardinality(Searched) + 1
      BY <1>1, <1>4, SearchedCount, FS_AddElement
<1>7. Walk' = Walk /\ (\A a : Around(a)' = Around(a)) /\ \A a, b : Opens(a, b)' = Opens(a, b)
      BY MazeStays
<1>8. ASSUME NEW cell \in Cell
      PROVE  /\ dist'[cell] <= INT_MAX
             /\ dist'[cell] < INT_MAX => /\ cell \in Walk[dist'[cell]]
                                         /\ dist'[cell] <= Cardinality(Searched')
  <2>1. dist[cell] \in Nat /\ dist'[cell] \in Nat /\ dist[current] \in Nat
        BY <1>2
  <2>2. dist'[cell] <= INT_MAX
        BY <1>2, <1>4, <2>1 DEF DistInv
  <2>3. CASE /\ cell \notin Searched /\ cell # current
             /\ Opens(current, cell) /\ dist[current] + 1 < dist[cell]
             /\ dist'[cell] = dist[current] + 1 /\ prev'[cell] = current
    <3>1. current \in Walk[dist[current]] /\ dist[current] <= Cardinality(Searched)
          BY <1>1, <1>4 DEF DistInv
    <3>2. cell \in Around(current)
          BY <1>4, <2>3, AroundIs
    <3>3. cell \in Walk[dist[current] + 1]
          BY <1>4, <2>1, <3>1, <3>2, WalkOn
    <3> QED BY <1>6, <2>1, <2>2, <2>3, <3>1, <3>3
  <2>4. CASE dist'[cell] = dist[cell]
        BY <1>4, <1>6, <2>1, <2>2, <2>4 DEF DistInv
  <2> QED BY <1>1, <2>3, <2>4
<1>9. ASSUME NEW cell \in Searched \cup {current}
      PROVE  /\ dist'[cell] < INT_MAX
             /\ \A other \in Cell \ (Searched \cup {current}) : dist'[cell] <= dist'[other]
             /\ \A next \in Around(cell) : dist'[next] <= dist'[cell] + 1
  <2>1. /\ cell \in Cell /\ dist'[cell] = dist[cell] /\ dist[cell] \in Nat
        /\ dist[current] \in Nat
        BY <1>2, <1>3
  <2>2. dist[cell] < INT_MAX /\ dist[cell] <= dist[current]
        BY <1>1, <1>4, <2>1 DEF DistInv
  <2>3. ASSUME NEW other \in Cell \ (Searched \cup {current}) PROVE dist'[cell] <= dist'[other]
    <3>1. dist[other] \in Nat /\ dist[current] <= dist[other]
          BY <1>1, <1>2, <2>3
    <3> QED BY <1>1, <2>1, <2>2, <3>1
  <2>4. ASSUME NEW next \in Around(cell) PROVE dist'[next] <= dist'[cell] + 1
    <3>1. next \in Cell
          BY <1>4, <2>1, AroundInside
    <3>2. dist'[next] <= dist[next] /\ dist'[next] \in Nat /\ dist[next] \in Nat
          BY <1>2, <3>1
    <3>3. CASE cell \in Searched
          BY <1>4, <2>1, <3>2, <3>3 DEF DistInv
    <3>4. CASE cell = current
      <4>1. CASE next = current
            BY <2>1, <3>2, <3>4, <4>1
      <4>2. CASE next \in Searched
            BY <1>1, <1>3, <1>4, <2>1, <3>2, <3>4, <4>2 DEF DistInv
      <4>3. CASE next \notin Searched /\ next # current
        <5>1. Opens(current, next)
              BY <1>4, <2>1, <3>4, <4>3, AroundIs
        <5> QED BY <1>1, <2>1, <3>1, <3>2, <3>4, <4>3, <5>1
      <4> QED BY <4>1, <4>2, <4>3
    <3> QED BY <3>3, <3>4
  <2> QED BY <2>1, <2>2, <2>3, <2>4
<1>10. DistInv'
      BY <1>1, <1>5, <1>7, <1>8, <1>9 DEF DistInv
<1>11. PrevInv'
  <2>1. ASSUME NEW cell \in Cell, dist'[cell] < INT_MAX, cell # Start
        PROVE  /\ prev'[cell] \in Searched'
               /\ Opens(prev'[cell], cell)
               /\ dist'[cell] = dist'[prev'[cell]] + 1
    <3>1. CASE prev'[cell] = current /\ Opens(current, cell) /\ dist'[cell] = dist[current] + 1
          BY <1>1, <1>3, <3>1
    <3>2. CASE dist'[cell] = dist[cell] /\ prev'[cell] = prev[cell]
      <4>1. /\ prev[cell] \in Searched /\ Opens(prev[cell], cell)
            /\ dist[cell] = dist[prev[cell]] + 1
            BY <1>4, <2>1, <3>2 DEF PrevInv
      <4> QED BY <1>1, <1>3, <3>2, <4>1
    <3> QED BY <1>1, <3>1, <3>2
  <2> QED BY <1>5, <1>7, <2>1 DEF PrevInv
<1>12. TraceInv'
  <2>1. /\ current_cell = NoCell /\ solution = Empty
        /\ current_cell' = NoCell /\ solution' = Empty
        BY DEF Relax, Searching
  <2>2. LeadsToLast(Empty, Items(Empty))
        BY <2>1 DEF SearchInv, TraceInv
  <2> QED BY <2>1, <2>2 DEF TraceInv
<1> QED BY <1>1, <1>10, <1>11, <1>12 DEF SearchInv

-----------------------------------------------------------------------------
(* The way is traced.                                                      *)

LEMMA SearchStays ==
    ASSUME SearchInv, UNCHANGED vars, UNCHANGED <<dist, prev, nodes>>
    PROVE  NodesInv' /\ DistInv' /\ PrevInv' /\ Searched' = Searched
<1>1. Walk' = Walk /\ (\A a : Around(a)' = Around(a)) /\ \A a, b : Opens(a, b)' = Opens(a, b)
      BY MazeStays
<1>2. Searched' = Searched
      BY DEF Searched
<1>3. NodesInv'
      BY <1>2 DEF SearchInv, NodesInv
<1>4. DistInv'
      BY <1>1, <1>2 DEF SearchInv, DistInv
<1>5. PrevInv'
      BY <1>1, <1>2 DEF SearchInv, PrevInv
<1> QED BY <1>2, <1>3, <1>4, <1>5

LEMMA FoundStep ==
    ASSUME GrowthInv, SearchInv, Found, UNCHANGED vars
    PROVE  SearchInv'
<1>1. /\ stack = <<>> /\ current_cell' = Exit /\ UNCHANGED <<dist, prev, nodes, solution>>
      /\ solution = Empty /\ get_minimum_distance(nodes, dist) = Exit
      BY DEF Found, Searching, Generated
<1>2. NodesInv' /\ DistInv' /\ PrevInv' /\ Searched' = Searched
      BY <1>1, SearchStays
<1>3. SolverTypeOK'
      BY <1>1, ExitIsCell DEF SearchInv, SolverTypeOK, Pointer
<1>4. dist[Exit] < INT_MAX /\ \A other \in Cell \ Searched : dist[Exit] <= dist[other]
      BY <1>1, NearestIs
<1>5. Items(Empty) = <<>> /\ LeadsToLast(Empty, <<>>)
      BY EmptyLeads, ItemsAre DEF LeadsToLast
<1>6. Exit # NoCell /\ dist[Exit] \in Nat /\ Len(<<>>) = 0
      BY ExitIsCell, NoCellIsNone DEF SearchInv, SolverTypeOK
<1>7. TraceInv'
      BY <1>1, <1>2, <1>4, <1>5, <1>6 DEF TraceInv, vars
<1> QED BY <1>2, <1>3, <1>7 DEF SearchInv

LEMMA TraceStep ==
    ASSUME GrowthInv, SearchInv, Trace, UNCHANGED vars
    PROVE  SearchInv'
<1> DEFINE way == Items(solution)
           here == current_cell
           more == Append(way, here)
<1>1. /\ here # NoCell /\ solution' = linked_list_push(solution, here)
      /\ current_cell' = prev[here] /\ UNCHANGED <<dist, prev, nodes>>
      BY DEF Trace
<1>2. NodesInv' /\ DistInv' /\ PrevInv' /\ Searched' = Searched
      BY <1>1, SearchStays
<1>3. here \in Cell /\ dist[here] \in Nat /\ dist[Exit] \in Nat /\ prev[here] \in Pointer
      BY <1>1, ExitIsCell DEF SearchInv, SolverTypeOK, Pointer
<1>4. SolverTypeOK'
      BY <1>1, <1>3 DEF SearchInv, SolverTypeOK
<1>5. /\ LeadsToLast(solution, way)
      /\ stack = <<>> /\ dist[Exit] < INT_MAX
      /\ \A other \in Cell \ Searched : dist[Exit] <= dist[other]
      /\ \A i \in 1 .. Len(way) : dist[way[i]] + i = dist[Exit] + 1
      /\ \A i \in 1 .. Len(way) - 1 : Opens(way[i], way[i + 1])
      /\ Len(way) > 0 => way[1] = Exit
      /\ dist[here] + Len(way) = dist[Exit]
      /\ Len(way) = 0 => here = Exit
      /\ Len(way) > 0 => Opens(way[Len(way)], here)
      BY <1>1 DEF SearchInv, TraceInv
<1>6. way \in Seq(Cell) /\ Len(way) \in Nat
      BY <1>5 DEF LeadsToLast, Leads
<1> HIDE DEF way, here
<1>7. \A i \in 1 .. Len(way) : way[i] # here
      BY <1>3, <1>5, <1>6
<1>8. LeadsToLast(solution', more)
      BY <1>1, <1>3, <1>5, <1>7, PushLeads
<1>9. Items(solution') = more
      BY <1>8, ItemsAre DEF LeadsToLast
<1>10. /\ more \in Seq(Cell) /\ Len(more) = Len(way) + 1 /\ more[Len(way) + 1] = here
       /\ \A i \in 1 .. Len(way) : more[i] = way[i]
      BY <1>3, <1>6, AppendProperties
<1> HIDE DEF more
<1>11. \A i \in 1 .. Len(more) : dist[more[i]] + i = dist[Exit] + 1
  <2>1. ASSUME NEW i \in 1 .. Len(way) + 1 PROVE dist[more[i]] + i = dist[Exit] + 1
    <3>1. CASE i = Len(way) + 1
      <4>1. more[i] = here /\ dist[here] + Len(way) = dist[Exit]
            BY <1>5, <1>10, <3>1
      <4> QED BY <1>3, <1>6, <3>1, <4>1
    <3>2. CASE i \in 1 .. Len(way)
          BY <1>5, <1>10, <3>2
    <3> QED BY <1>6, <3>1, <3>2
  <2> QED BY <1>10, <2>1
<1>12. \A i \in 1 .. Len(more) - 1 : Opens(more[i], more[i + 1])
  <2>1. ASSUME NEW i \in 1 .. Len(way) PROVE Opens(more[i], more[i + 1])
    <3>1. CASE i = Len(way)
          BY <1>5, <1>6, <1>10, <3>1
    <3>2. CASE i \in 1 .. Len(way) - 1
      <4>1. i + 1 \in 1 .. Len(way)
            BY <1>6, <3>2
      <4> QED BY <1>5, <1>10, <3>2, <4>1
    <3> QED BY <1>6, <3>1, <3>2
  <2>2. Len(more) - 1 = Len(way)
        BY <1>6, <1>10
  <2> QED BY <2>1, <2>2
<1>13. more[1] = Exit
  <2>1. CASE Len(way) = 0
        BY <1>5, <1>10, <2>1
  <2>2. CASE Len(way) > 0
        BY <1>5, <1>6, <1>10, <2>2
  <2> QED BY <1>6, <2>1, <2>2
<1>14. /\ dist[here] < INT_MAX /\ PrevInv /\ WallsAgree /\ INT_MAX \in Nat
      BY <1>3, <1>5, <1>6, DistancesFit DEF SearchInv, GrowthInv
<1>15. ASSUME prev[here] = NoCell PROVE more[Len(more)] = Start
  <2>1. here = Start
        BY <1>3, <1>14, <1>15, NoCellIsNone DEF PrevInv, Searched
  <2> QED BY <1>10, <2>1
<1>16. ASSUME prev[here] # NoCell
       PROVE  /\ dist[prev[here]] + Len(more) = dist[Exit]
              /\ Opens(more[Len(more)], prev[here])
  <2>1. /\ prev[here] \in Cell /\ Opens(prev[here], here)
        /\ dist[here] = dist[prev[here]] + 1
        BY <1>3, <1>14, <1>16 DEF PrevInv, Searched
  <2>2. Opens(here, prev[here])
        BY <1>14, <2>1, OpensBack
  <2>3. dist[prev[here]] \in Nat
        BY <2>1 DEF SearchInv, SolverTypeOK
  <2> QED BY <1>3, <1>5, <1>6, <1>10, <2>1, <2>2, <2>3
<1>17. \A a, b : Opens(a, b)' = Opens(a, b)
      BY MazeStays
<1>18. TraceInv'
  <2>1. Len(more) > 0 /\ Len(more) # 0
        BY <1>6, <1>10
  <2>2. stack' = <<>> /\ dist' = dist
        BY <1>1, <1>5 DEF vars
  <2> HIDE DEF Opens
  <2> QED BY <1>1, <1>2, <1>5, <1>8, <1>9, <1>11, <1>12, <1>13, <1>15, <1>16, <1>17, <2>1, <2>2
          DEF TraceInv, here
<1> QED BY <1>2, <1>4, <1>18 DEF SearchInv

-----------------------------------------------------------------------------
(* The search as a whole.                                                  *)

\* A turn of get_solution, and one of generate_maze, which the search waits
\* for.
LEMMA SolverStep ==
    ASSUME SolverInv, [SolverNext]_svars
    PROVE  /\ GrowthInv' /\ ((stack # <<>>)' => Fresh')
           /\ Fresh' \/ SearchInv'
<1>1. CASE Next /\ UNCHANGED solver
  <2>1. stack # <<>>
        BY <1>1 DEF Next, Carve, Backtrack
  <2>2. Fresh'
        BY <1>1, <2>1 DEF SolverInv, Fresh, solver
  <2>3. GrowthInv'
        BY <1>1, GrowthStep DEF SolverInv
  <2> QED BY <2>2, <2>3
<1>2. CASE (Found \/ Trace \/ Relax) /\ UNCHANGED vars
  <2>1. GrowthInv'
        BY <1>2, GrowthStep DEF SolverInv
  <2>2. SearchInv'
        BY <1>2, FoundStep, TraceStep, RelaxStep DEF SolverInv
  <2>3. stack' = <<>>
    <3>1. stack = <<>>
          BY <1>2 DEF Found, Relax, Trace, Searching, Generated, SolverInv, SearchInv, TraceInv
    <3> QED BY <1>2, <3>1 DEF vars
  <2> QED BY <2>1, <2>2, <2>3
<1>3. CASE UNCHANGED svars
  <2>1. UNCHANGED vars /\ UNCHANGED <<dist, prev, nodes>> /\ UNCHANGED <<solution, current_cell>>
        BY <1>3 DEF svars, solver
  <2>2. GrowthInv'
        BY <2>1, GrowthStep DEF SolverInv
  <2>3. NodesInv' /\ DistInv' /\ PrevInv' /\ Searched' = Searched
        BY <2>1, SearchStays DEF SolverInv
  <2>4. SolverTypeOK'
        BY <2>1 DEF SolverInv, SearchInv, SolverTypeOK
  <2>5. TraceInv'
    <3>1. \A a, b : Opens(a, b)' = Opens(a, b)
          BY <2>1, MazeStays
    <3> QED BY <2>1, <2>3, <3>1 DEF SolverInv, SearchInv, TraceInv, vars
  <2>6. stack' = stack /\ (Fresh => Fresh')
        BY <2>1 DEF vars, Fresh
  <2> QED BY <2>2, <2>3, <2>4, <2>5, <2>6 DEF SearchInv, SolverInv
<1> QED BY <1>1, <1>2, <1>3 DEF SolverNext

LEMMA SolverInvariant == SolverSpec => []SolverInv
<1>1. SolverInit => GrowthInv /\ Fresh
      BY GrowthStart DEF SolverInit, Fresh
<1>2. SolverInv /\ [SolverNext]_svars =>
         /\ GrowthInv' /\ ((stack # <<>>)' => Fresh')
         /\ Fresh' \/ SearchInv'
      BY SolverStep
<1>3. SolverInv <=> GrowthInv /\ (stack # <<>> => Fresh) /\ SearchInv
      BY DEF SolverInv
<1> QED BY <1>1, <1>2, <1>3, FreshInv, PTL DEF SolverSpec

\* Whenever the loop of get_solution takes the nearest cell of the list, there
\* is one, and the search has reached it: its distance is not INT_MAX, and
\* dist + 1 does not overflow.
THEOREM SearchIsNeverLost == SolverSpec => []NeverLost
<1>1. SolverInv => NeverLost
      BY NearestIs DEF SolverInv, NeverLost, Searching, Generated
<1> QED BY <1>1, SolverInvariant, PTL

\* The distance of every cell that left the list is the length of its
\* shortest way from the start.
THEOREM SearchIsExact == SolverSpec => []DistancesAreExact
<1>1. SolverInv => DistancesAreExact
  <2> SUFFICES ASSUME SolverInv, NEW cell \in Cell, ~linked_list_contains(nodes, cell)
               PROVE  /\ cell \in Walk[dist[cell]]
                      /\ dist[cell] > 0 => cell \notin Walk[dist[cell] - 1]
      BY DEF DistancesAreExact
  <2>1. WallsAgree /\ SolverTypeOK /\ DistInv /\ cell \in Searched
        BY DEF SolverInv, GrowthInv, SearchInv, Searched
  <2>2. dist[cell] < INT_MAX /\ \A other \in Cell \ Searched : dist[cell] <= dist[other]
        BY <2>1 DEF DistInv
  <2> QED BY <2>1, <2>2, DistanceIsExact
<1> QED BY <1>1, SolverInvariant, PTL

\* However the search unlinks nodes, the list keeps its order and its count,
\* and what a searched cell opens to was reached from it.
THEOREM ListStaysSound == SolverSpec => []ListIsSound
<1>1. SolverInv => ListIsSound
  <2> SUFFICES ASSUME SolverInv PROVE ListIsSound
      OBVIOUS
  <2> DEFINE cells == Items(nodes)
  <2>1. Leads(nodes, cells) /\ InOrder(cells) /\ DistInv
        BY DEF SolverInv, SearchInv, NodesInv
  <2>2. nodes.size = Len(cells) /\ Len(cells) \in Nat
        BY <2>1 DEF Leads
  <2> HIDE DEF cells
  <2>3. ASSUME NEW i \in 2 .. Len(cells)
        PROVE  Place(cells[i - 1]) < Place(cells[i])
    <3>1. i - 1 \in 1 .. Len(cells) /\ i \in 1 .. Len(cells) /\ i - 1 < i
          BY <2>2
    <3> QED BY <2>1, <3>1 DEF InOrder
  <2>4. ASSUME NEW cell \in Cell, ~linked_list_contains(nodes, cell), NEW next \in Around(cell)
        PROVE  dist[next] <= dist[cell] + 1
        BY <2>1, <2>4 DEF DistInv, Searched
  <2> QED BY <2>2, <2>3, <2>4 DEF ListIsSound, cells, Place
<1> QED BY <1>1, SolverInvariant, PTL

\* The list that get_solution returns leads from the exit to the start, each
\* cell through an open side to the next, by the shortest way.
THEOREM SolutionLeadsHome == SolverSpec => []SolutionIsTheWay
<1>1. SolverInv => SolutionIsTheWay
  <2> SUFFICES ASSUME SolverInv, Returned PROVE SolutionIsTheWay
      BY DEF SolutionIsTheWay
  <2> DEFINE way == Items(solution)
  <2>1. current_cell = NoCell /\ solution # Empty
        BY DEF Returned, Empty
  <2>2. /\ LeadsToLast(solution, way) /\ dist[Exit] < INT_MAX
        /\ \A other \in Cell \ Searched : dist[Exit] <= dist[other]
        /\ \A i \in 1 .. Len(way) : dist[way[i]] + i = dist[Exit] + 1
        /\ \A i \in 1 .. Len(way) - 1 : Opens(way[i], way[i + 1])
        /\ Len(way) > 0 /\ way[1] = Exit /\ way[Len(way)] = Start
        BY <2>1 DEF SolverInv, SearchInv, TraceInv
  <2>3. solution.last = Start /\ solution.size = Len(way) /\ Len(way) \in Nat
        BY <2>2 DEF LeadsToLast, Leads
  <2>4. WallsAgree /\ SolverTypeOK /\ DistInv /\ dist[Start] = 0 /\ dist[Exit] \in Nat
        BY ExitIsCell DEF SolverInv, GrowthInv, SearchInv, SolverTypeOK, DistInv
  <2> HIDE DEF way
  <2>5. Len(way) = dist[Exit] + 1
    <3>1. dist[way[Len(way)]] + Len(way) = dist[Exit] + 1
          BY <2>2, <2>3
    <3> QED BY <2>2, <2>3, <2>4, <3>1
  <2>6. ASSUME Len(way) > 1 PROVE Exit \notin Walk[Len(way) - 2]
    <3>1. dist[Exit] > 0 /\ Len(way) - 2 = dist[Exit] - 1
          BY <2>4, <2>5, <2>6
    <3> QED BY <2>2, <2>4, <3>1, ExitIsCell, DistanceIsExact
  <2> QED BY <2>2, <2>3, <2>6 DEF SolutionIsTheWay, way, Opens
<1> QED BY <1>1, SolverInvariant, PTL

-----------------------------------------------------------------------------
(* Why the search returns: every turn leaves less to be done.              *)

\* The cells that the hero could stand on and the walk of generate_maze has
\* not seen yet.
Unseen == {cell \in Cell : ~visited[cell]}

\* What get_solution still has to push: nothing is known of it before the
\* exit is found, the cell pushed next tells it afterwards.
ToTrace == IF current_cell # NoCell THEN dist[current_cell] + 1
           ELSE IF solution = Empty THEN INT_MAX + 1 ELSE 0

\* A cell is pushed and popped by generate_maze, and leaves the list of
\* get_solution, once each.
Todo == 2 * Cardinality(Unseen) + Len(stack) + nodes.size + ToTrace

\* generate_maze pops a cell, get_solution pushes one or takes one from its
\* list: the loop that runs can take a turn.
TurnIsPossible ==
    \/ stack # <<>>
    \/ current_cell # NoCell
    \/ Searching /\ nodes.size > 0

\* Both loops make headway until the solution is returned.
EndsInTime == (Returned \/ TurnIsPossible) /\ Todo \in Nat

LEMMA UnseenIsFinite == IsFiniteSet(Unseen) /\ Cardinality(Unseen) \in Nat
BY CellsCounted, FS_Subset, FS_CardinalityType DEF Unseen

LEMMA TodoIsNat ==
    ASSUME SolverInv
    PROVE  /\ Len(stack) \in Nat /\ nodes.size \in Nat /\ ToTrace \in Nat
           /\ Todo \in Nat
<1>1. Len(stack) \in Nat
      BY LenProperties DEF SolverInv, GrowthInv, TypeOK
<1>2. nodes.size \in Nat
      BY DEF SolverInv, SearchInv, NodesInv, Leads
<1>3. ToTrace \in Nat
      BY DistancesFit DEF ToTrace, SolverInv, SearchInv, SolverTypeOK, Pointer
<1>4. \A a, b, d, e \in Nat : 2 * a + b + d + e \in Nat
      OBVIOUS
<1> QED BY <1>1, <1>2, <1>3, <1>4, UnseenIsFinite DEF Todo

\* A turn of generate_maze.
LEMMA GenerationShrinks ==
    ASSUME SolverInv, Next, UNCHANGED solver
    PROVE  Todo' < Todo
<1>1. nodes' = nodes /\ ToTrace' = ToTrace
      BY DEF solver, ToTrace
<1>2. TypeOK /\ stack # <<>> /\ stack \in Seq(Cell)
      BY DEF SolverInv, GrowthInv, TypeOK, Next, Carve, Backtrack
<1>n. /\ Len(stack) \in Nat /\ nodes.size \in Nat /\ ToTrace \in Nat
      /\ Cardinality(Unseen) \in Nat
      BY TodoIsNat, UnseenIsFinite
<1>3. CASE Carve
  <2>1. PICK side \in Side :
          /\ Beyond(Head(stack), side) \in Cell /\ ~visited[Beyond(Head(stack), side)]
          /\ visited' = [visited EXCEPT ![Beyond(Head(stack), side)] = TRUE]
          /\ stack' = <<Beyond(Head(stack), side)>> \o stack
        BY <1>2, <1>3, CarveStep
  <2> DEFINE next == Beyond(Head(stack), side)
  <2>2. next \in Unseen /\ Unseen' = Unseen \ {next}
        BY <1>2, <2>1 DEF Unseen, TypeOK
  <2>3. Len(stack') = Len(stack) + 1
        BY <1>2, <2>1, PutOnTop
  <2>4. Cardinality(Unseen') = Cardinality(Unseen) - 1
        BY <2>2, UnseenIsFinite, FS_RemoveElement
  <2>5. \A a, b, d, e \in Nat :
            2 * (a - 1) + (b + 1) + d + e < 2 * a + b + d + e
        OBVIOUS
  <2>6. Todo' = 2 * (Cardinality(Unseen) - 1) + (Len(stack) + 1) + nodes.size + ToTrace
        BY <1>1, <2>3, <2>4 DEF Todo
  <2> QED BY <1>n, <2>5, <2>6 DEF Todo
<1>4. CASE Backtrack
  <2>1. stack' = Tail(stack) /\ Unseen' = Unseen
        BY <1>4 DEF Backtrack, Unseen
  <2>2. Len(stack') = Len(stack) - 1
        BY <1>2, <2>1, HeadTail
  <2>3. \A a, b, d, e \in Nat : 2 * a + (b - 1) + d + e < 2 * a + b + d + e
        OBVIOUS
  <2>4. Todo' = 2 * Cardinality(Unseen) + (Len(stack) - 1) + nodes.size + ToTrace
        BY <1>1, <2>1, <2>2 DEF Todo
  <2> QED BY <1>n, <2>3, <2>4 DEF Todo
<1> QED BY <1>3, <1>4 DEF Next

\* A turn of get_solution that takes a cell from the list.
LEMMA RelaxShrinks ==
    ASSUME SolverInv, Relax
    PROVE  nodes'.size = nodes.size - 1 /\ ToTrace' = ToTrace
<1> DEFINE cells == Items(nodes)
           current == get_minimum_distance(nodes, dist)
<1>1. /\ stack = <<>> /\ nodes' = linked_list_remove(nodes, current)
      /\ UNCHANGED <<solution, current_cell>>
      /\ current_cell = NoCell
      BY DEF Relax, Searching, Generated
<1>2. PICK k \in 1 .. Len(cells) : current = cells[k]
      BY <1>1, NearestIs DEF SolverInv
<1>3. Leads(nodes, cells)
      BY DEF SolverInv, SearchInv, NodesInv
<1>4. Leads(nodes', But(cells, k))
      BY <1>1, <1>2, <1>3, RemoveLeads
<1>5. cells \in Seq(Cell) /\ nodes.size = Len(cells)
      BY <1>3 DEF Leads
<1>6. Len(But(cells, k)) = Len(cells) - 1
      BY <1>3, <1>5, ButIs DEF Leads
<1>7. nodes'.size = Len(But(cells, k))
      BY <1>4 DEF Leads
<1>8. ToTrace' = ToTrace
      BY <1>1 DEF ToTrace
<1> QED BY <1>5, <1>6, <1>7, <1>8

\* A turn that finds the exit, or pushes a cell of the way to it.
LEMMA TraceShrinks ==
    ASSUME SolverInv, Found \/ Trace
    PROVE  ToTrace' \in Nat /\ ToTrace' < ToTrace
<1>1. CASE Found
  <2>1. /\ stack = <<>> /\ current_cell' = Exit /\ dist' = dist
        /\ current_cell = NoCell /\ solution = Empty
        /\ get_minimum_distance(nodes, dist) = Exit
        BY <1>1 DEF Found, Searching, Generated
  <2>2. dist[Exit] < INT_MAX
        BY <2>1, NearestIs DEF SolverInv
  <2>3. ToTrace' = dist[Exit] + 1 /\ ToTrace = INT_MAX + 1
        BY <2>1, ExitIsCell, NoCellIsNone DEF ToTrace
  <2>4. dist[Exit] \in Nat
        BY ExitIsCell DEF SolverInv, SearchInv, SolverTypeOK
  <2> QED BY <2>2, <2>3, <2>4, DistancesFit
<1>2. CASE Trace
  <2> DEFINE here == current_cell
             way == Items(solution)
  <2>1. /\ here # NoCell /\ here \in Cell /\ dist' = dist
        /\ solution' = linked_list_push(solution, here) /\ current_cell' = prev[here]
        BY <1>2 DEF Trace, SolverInv, SearchInv, SolverTypeOK, Pointer
  <2>2. /\ dist[here] \in Nat /\ ToTrace = dist[here] + 1
        BY <2>1 DEF ToTrace, SolverInv, SearchInv, SolverTypeOK
  <2>3. CASE prev[here] = NoCell
    <3>1. solution' # Empty
      <4>1. LeadsToLast(solution, way) /\ way \in Seq(Cell)
            /\ \A i \in 1 .. Len(way) : dist[way[i]] + i = dist[Exit] + 1
            /\ dist[here] + Len(way) = dist[Exit]
            BY <2>1 DEF SolverInv, SearchInv, TraceInv, LeadsToLast, Leads
      <4>2. Len(way) \in Nat /\ dist[Exit] \in Nat
            BY <4>1, ExitIsCell, LenProperties DEF SolverInv, SearchInv, SolverTypeOK
      <4> HIDE DEF way, here
      <4>3. ASSUME NEW i \in 1 .. Len(way) PROVE way[i] # here
        <5>1. dist[way[i]] + i = dist[Exit] + 1 /\ i <= Len(way) /\ i \in Nat
              BY <4>1, <4>2
        <5>2. dist[here] \in Nat /\ dist[here] + Len(way) = dist[Exit]
              BY <2>2, <4>1
        <5>3. way[i] = here => dist[here] + i = dist[Exit] + 1
              BY <5>1
        <5> QED BY <4>2, <5>1, <5>2, <5>3
      <4>4. Leads(solution', Append(way, here))
            BY <2>1, <4>1, <4>3, PushLeads DEF LeadsToLast
      <4>5. solution'.size = Len(way) + 1
            BY <2>1, <4>1, <4>4, AppendProperties DEF Leads
      <4> QED BY <4>2, <4>5 DEF Empty
    <3> QED BY <2>1, <2>2, <2>3, <3>1 DEF ToTrace
  <2>4. CASE prev[here] # NoCell
    <3>1. /\ prev[here] \in Cell /\ dist[here] = dist[prev[here]] + 1
      <4>1. /\ PrevInv /\ TraceInv
            BY DEF SolverInv, SearchInv
      <4>2. dist[here] < INT_MAX
        <5>1. /\ dist[here] + Len(way) = dist[Exit] /\ dist[Exit] < INT_MAX
              /\ Len(way) \in Nat
              BY <2>1, <4>1, LenProperties DEF TraceInv, LeadsToLast, Leads
        <5>2. dist[Exit] \in Nat
              BY ExitIsCell DEF SolverInv, SearchInv, SolverTypeOK
        <5> QED BY <2>2, <5>1, <5>2, DistancesFit
      <4> QED BY <2>1, <2>4, <4>1, <4>2 DEF PrevInv, Searched
    <3>2. dist[prev[here]] \in Nat
          BY <3>1 DEF SolverInv, SearchInv, SolverTypeOK
    <3>3. ToTrace' = dist[prev[here]] + 1
          BY <2>1, <2>4 DEF ToTrace
    <3> QED BY <2>2, <3>1, <3>2, <3>3
  <2> QED BY <2>3, <2>4
<1> QED BY <1>1, <1>2

LEMMA TurnShrinks ==
    ASSUME SolverInv, SolverNext
    PROVE  Todo' < Todo
<1>1. /\ Len(stack) \in Nat /\ nodes.size \in Nat /\ ToTrace \in Nat
      /\ Cardinality(Unseen) \in Nat
      BY TodoIsNat, UnseenIsFinite
<1>3. CASE Next /\ UNCHANGED solver
      BY <1>3, GenerationShrinks
<1>4. CASE (Found \/ Trace) /\ UNCHANGED vars
  <2>1. /\ ToTrace' \in Nat /\ ToTrace' < ToTrace /\ nodes' = nodes /\ stack' = stack /\ Unseen' = Unseen
        BY <1>4, TraceShrinks DEF Found, Trace, vars, Unseen
  <2>2. \A a, b, d, e, f \in Nat : f < e => 2 * a + b + d + f < 2 * a + b + d + e
        OBVIOUS
  <2>3. Todo' = 2 * Cardinality(Unseen) + Len(stack) + nodes.size + ToTrace'
        BY <2>1 DEF Todo
  <2> QED BY <1>1, <2>1, <2>2, <2>3 DEF Todo
<1>5. CASE Relax /\ UNCHANGED vars
  <2>1. /\ nodes'.size = nodes.size - 1 /\ ToTrace' = ToTrace
        /\ stack' = stack /\ Unseen' = Unseen
        BY <1>5, RelaxShrinks DEF vars, Unseen
  <2>2. \A a, b, d, e \in Nat : 2 * a + b + (d - 1) + e < 2 * a + b + d + e
        OBVIOUS
  <2>3. Todo' = 2 * Cardinality(Unseen) + Len(stack) + (nodes.size - 1) + ToTrace
        BY <2>1 DEF Todo
  <2> QED BY <1>1, <2>2, <2>3 DEF Todo
<1> QED BY <1>3, <1>4, <1>5 DEF SolverNext

\* The search returns: in every state but the last a turn of generate_maze or
\* of get_solution can be taken, and every turn leaves less of a natural
\* number to be done.  That the program runs on is all that SolutionIsFound
\* still needs.
THEOREM SearchRunsOut ==
    SolverSpec => []EndsInTime /\ [][Todo' < Todo]_svars
<1>1. SolverInv => EndsInTime
  <2> SUFFICES ASSUME SolverInv PROVE Returned \/ TurnIsPossible
      BY TodoIsNat DEF EndsInTime
  <2>1. CASE stack # <<>> \/ current_cell # NoCell
        BY <2>1 DEF TurnIsPossible
  <2>2. CASE stack = <<>> /\ current_cell = NoCell /\ solution = Empty
        BY <2>2, NearestIs DEF TurnIsPossible, Searching, Generated, SolverInv
  <2>3. CASE current_cell = NoCell /\ solution # Empty
    <3>1. /\ LeadsToLast(solution, Items(solution)) /\ Len(Items(solution)) > 0
          BY <2>3 DEF SolverInv, SearchInv, TraceInv
    <3> QED BY <2>3, <3>1 DEF Returned, LeadsToLast, Leads
  <2> QED BY <2>1, <2>2, <2>3
<1>2. SolverInv /\ [SolverNext]_svars => [Todo' < Todo]_svars
      BY TurnShrinks
<1> QED BY <1>1, <1>2, SolverInvariant, PTL DEF SolverSpec

=============================================================================
