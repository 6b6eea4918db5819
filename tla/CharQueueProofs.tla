-------------------------- MODULE CharQueueProofs --------------------------
(***************************************************************************)
(* The ring buffer of queue.c is a bounded first-in first-out queue, for   *)
(* every buffer size and every set of characters.                          *)
(***************************************************************************)
EXTENDS CharQueue, TLAPS, SequenceTheorems

\* What the remainder does to an index that passes the end at most once.
Wrapped(i) == IF i < BUFFER_SIZE THEN i ELSE i - BUFFER_SIZE

\* An index that wraps around at most once.
LEMMA Wrap ==
    ASSUME NEW i \in Nat, i < 2 * BUFFER_SIZE
    PROVE  /\ i % BUFFER_SIZE \in Index
           /\ i % BUFFER_SIZE = IF i < BUFFER_SIZE THEN i ELSE i - BUFFER_SIZE
<1>1. BUFFER_SIZE \in Nat \ {0}
  BY BufferSizeIsPositive
<1>2. i % BUFFER_SIZE \in Index
  BY <1>1 DEF Index
<1>3. i < BUFFER_SIZE => i % BUFFER_SIZE = i
  BY <1>1
<1>4. ~(i < BUFFER_SIZE) => i % BUFFER_SIZE = i - BUFFER_SIZE
  BY <1>1
<1> QED  BY <1>2, <1>3, <1>4

LEMMA Advance ==
    ASSUME NEW i \in Index \cup {-1}
    PROVE  advance(i) = IF i + 1 = BUFFER_SIZE THEN 0 ELSE i + 1
BY Wrap, BufferSizeIsPositive DEF advance, Index

-----------------------------------------------------------------------------

\* The place behind the newest character, as push finds it.
LEMMA NextPlace ==
    ASSUME RingInv
    PROVE  /\ front + size \in Nat
           /\ advance(rear) = Wrapped(front + size)
<1>1. /\ front \in Nat /\ size \in Nat
      /\ front + size \in Nat /\ front + size < 2 * BUFFER_SIZE
  BY BufferSizeIsPositive DEF RingInv, Index
<1> DEFINE k == front + size
<1>2. k \in Nat /\ k < 2 * BUFFER_SIZE
  BY <1>1
<1>3. advance(rear) = k % BUFFER_SIZE
  BY DEF RingInv
<1> HIDE DEF k
<1>4. advance(rear) = Wrapped(k)
  BY <1>2, <1>3, Wrap DEF Wrapped
<1> QED  BY <1>2, <1>4 DEF k

LEMMA RingInit == new_queue => RingInv
<1> SUFFICES ASSUME new_queue PROVE RingInv
  OBVIOUS
<1>1. advance(rear) = 0
  BY Advance, BufferSizeIsPositive DEF new_queue
<1>2. (front + size) % BUFFER_SIZE = 0
  <2>1. front + size = 0
    BY DEF new_queue
  <2> QED  BY <2>1, Wrap, BufferSizeIsPositive
<1> QED  BY <1>1, <1>2, BufferSizeIsPositive DEF new_queue, RingInv, Index

LEMMA RingStep ==
    ASSUME RingInv, [Next]_vars
    PROVE  RingInv'
<1>0. BUFFER_SIZE \in Nat \ {0}
  BY BufferSizeIsPositive
<1>1. ASSUME NEW ch \in Char, push(ch), ~full, UNCHANGED allocated
      PROVE  RingInv'
  <2>1. /\ rear' = advance(rear) /\ size' = size + 1 /\ front' = front
        /\ size < BUFFER_SIZE
    BY <1>0, <1>1 DEF push, full, RingInv
  <2> DEFINE k == front + size
  <2>2. /\ k \in Nat /\ k + 1 \in Nat /\ front \in Index /\ size \in Nat
        /\ k < 2 * BUFFER_SIZE - 1
    BY <1>0, <2>1 DEF RingInv, Index
  <2>3. rear' = Wrapped(k)
    BY <2>1, NextPlace, Zenon
  <2> HIDE DEF k
  <2>4. rear' \in Index
    BY <1>0, <2>2, <2>3 DEF Index, Wrapped
  <2>5. advance(rear') = (k + 1) % BUFFER_SIZE
    <3>1. advance(rear') = IF rear' + 1 = BUFFER_SIZE THEN 0 ELSE rear' + 1
      BY <2>4, Advance
    <3>2. (k + 1) % BUFFER_SIZE
              = IF k + 1 < BUFFER_SIZE THEN k + 1 ELSE k + 1 - BUFFER_SIZE
      BY <1>0, <2>2, Wrap
    <3> QED  BY <1>0, <2>2, <2>3, <3>1, <3>2 DEF Wrapped
  <2>6. buf' \in [Index -> Char]
    BY <1>1, <2>4 DEF push, RingInv
  <2>7. front' + size' = k + 1
    BY <2>1, <2>2 DEF k, RingInv, Index
  <2>8. advance(rear)' = (front' + size') % BUFFER_SIZE
    BY <2>5, <2>7 DEF advance
  <2>9. size' \in 0 .. BUFFER_SIZE
    BY <1>0, <2>1 DEF RingInv
  <2> QED  BY <1>1, <2>1, <2>4, <2>6, <2>8, <2>9 DEF RingInv
<1>2. ASSUME pop, ~hollow, UNCHANGED allocated
      PROVE  RingInv'
  <2>1. /\ front' = advance(front) /\ size' = size - 1
        /\ rear' = rear /\ buf' = buf /\ size > 0
    BY <1>2 DEF pop, hollow, RingInv
  <2>2. front' = IF front + 1 = BUFFER_SIZE THEN 0 ELSE front + 1
    BY <2>1, Advance DEF RingInv
  <2>3. front' \in Index /\ size' \in 0 .. BUFFER_SIZE
    BY <1>0, <2>1, <2>2 DEF RingInv, Index
  <2>4. (front' + size') % BUFFER_SIZE = Wrapped(front + size)
    <3> DEFINE k == front' + size'
    <3>1. /\ k \in Nat /\ k < 2 * BUFFER_SIZE
          /\ k = IF front + 1 = BUFFER_SIZE
                 THEN front + size - BUFFER_SIZE ELSE front + size
          /\ front \in Index /\ size \in 1 .. BUFFER_SIZE
      BY <1>0, <2>1, <2>2, <2>3 DEF RingInv, Index
    <3> HIDE DEF k
    <3>2. k % BUFFER_SIZE = IF k < BUFFER_SIZE THEN k ELSE k - BUFFER_SIZE
      BY <3>1, Wrap
    <3>3. k % BUFFER_SIZE = Wrapped(front + size)
      BY <1>0, <3>1, <3>2 DEF Index, Wrapped
    <3> QED  BY <3>3 DEF k
  <2>5. advance(rear)' = (front' + size') % BUFFER_SIZE
    BY <2>1, <2>4, NextPlace DEF advance
  <2> QED  BY <1>2, <2>1, <2>3, <2>5 DEF RingInv
<1>3. ASSUME UNCHANGED <<allocated, buf, front, rear, size>>
      PROVE  RingInv'
  BY <1>3 DEF RingInv, advance
<1> QED  BY <1>1, <1>2, <1>3 DEF Next, push, pop, top, empty, vars

\* The indices of the queue stay inside its buffer and agree with its size.
THEOREM RingHolds == Spec => []RingInv
<1>1. RingInv /\ [Next]_vars => RingInv'
  BY RingStep
<1> QED  BY <1>1, RingInit, PTL DEF Spec

-----------------------------------------------------------------------------
(* The refinement.                                                         *)

LEMMA PlaceWraps ==
    ASSUME NEW f \in Index, NEW i \in 1 .. BUFFER_SIZE
    PROVE  /\ Place(f, i) \in Index
           /\ Place(f, i) = Wrapped(f + i - 1)
<1> DEFINE k == f + i - 1
<1>1. k \in Nat /\ k < 2 * BUFFER_SIZE
  BY BufferSizeIsPositive DEF Index
<1> HIDE DEF k
<1>2. k % BUFFER_SIZE \in Index /\ k % BUFFER_SIZE = Wrapped(k)
  BY <1>1, Wrap DEF Wrapped
<1> QED  BY <1>2 DEF Place, k

LEMMA HeldIsSequence ==
    ASSUME NEW b \in [Index -> Char], NEW f \in Index, NEW n \in 0 .. BUFFER_SIZE
    PROVE  /\ HeldIn(b, f, n) \in Seq(Char)
           /\ Len(HeldIn(b, f, n)) = n
           /\ \A i \in 1 .. n : HeldIn(b, f, n)[i] = b[Place(f, i)]
           /\ HeldIn(b, f, n) = <<>> <=> n = 0
<1> DEFINE h == HeldIn(b, f, n)
<1>0. BUFFER_SIZE \in Nat \ {0} /\ n \in Nat
  BY BufferSizeIsPositive
<1>1. \A i \in 1 .. n : b[Place(f, i)] \in Char
  BY <1>0, PlaceWraps
<1>2. h \in [1 .. n -> Char] /\ \A i \in 1 .. n : h[i] = b[Place(f, i)]
  BY <1>1 DEF HeldIn
<1> HIDE DEF h
<1>3. h \in Seq(Char)
  BY <1>0, <1>2, SeqDef
<1>4. Len(h) = n
  BY <1>0, <1>2, <1>3, LenProperties
<1>5. h = <<>> <=> n = 0
  BY <1>3, <1>4, EmptySeq
<1> QED  BY <1>2, <1>3, <1>4, <1>5 DEF h

\* A character pushed lands behind those held, in a place of its own.
LEMMA PushAppends ==
    ASSUME RingInv, NEW ch \in Char, push(ch), ~full
    PROVE  Held' = Append(Held, ch)
<1>0. /\ BUFFER_SIZE \in Nat \ {0} /\ front \in Index /\ front' = front
      /\ size \in 0 .. BUFFER_SIZE - 1 /\ size' = size + 1
      /\ rear' = advance(rear) /\ buf' = [buf EXCEPT ![rear'] = ch]
      /\ buf \in [Index -> Char]
  BY BufferSizeIsPositive DEF push, full, RingInv
<1>1. rear' = Place(front, size + 1) /\ rear' \in Index
  <2>1. size + 1 \in 1 .. BUFFER_SIZE /\ front + (size + 1) - 1 = front + size
    BY <1>0 DEF Index
  <2>2. /\ Place(front, size + 1) = Wrapped(front + (size + 1) - 1)
        /\ Place(front, size + 1) \in Index
    BY <1>0, <2>1, PlaceWraps
  <2> QED  BY <1>0, <2>1, <2>2, NextPlace, Zenon
<1>2. ASSUME NEW i \in 1 .. size
      PROVE  Place(front, i) # rear' /\ Place(front, i) \in Index
  <2>1. /\ Place(front, i) \in Index /\ Place(front, i) = Wrapped(front + i - 1)
    BY <1>0, PlaceWraps
  <2>2. rear' = Wrapped(front + size)
    BY <1>0, NextPlace, Zenon
  <2>3. Wrapped(front + i - 1) # Wrapped(front + size)
    BY <1>0 DEF Wrapped, Index
  <2> QED  BY <2>1, <2>2, <2>3, Zenon
<1>3. /\ buf' \in [Index -> Char] /\ buf'[rear'] = ch
      /\ \A i \in 1 .. size : buf'[Place(front, i)] = buf[Place(front, i)]
  BY <1>0, <1>1, <1>2
<1>f. front \in Index
  BY <1>0
<1>4. /\ Held' = HeldIn(buf', front, size + 1) /\ Held = HeldIn(buf, front, size)
      /\ size + 1 \in 0 .. BUFFER_SIZE /\ size \in 0 .. BUFFER_SIZE
  BY <1>0 DEF Held
<1>5. /\ Held' \in Seq(Char) /\ Len(Held') = size + 1
      /\ \A i \in 1 .. size + 1 : Held'[i] = buf'[Place(front, i)]
  <2>1. /\ HeldIn(buf', front, size + 1) \in Seq(Char)
        /\ Len(HeldIn(buf', front, size + 1)) = size + 1
        /\ \A i \in 1 .. size + 1 :
               HeldIn(buf', front, size + 1)[i] = buf'[Place(front, i)]
    BY <1>f, <1>3, <1>4, HeldIsSequence
  <2> QED  BY <1>4, <2>1, Zenon
<1>6. /\ Held \in Seq(Char) /\ Len(Held) = size
      /\ \A i \in 1 .. size : Held[i] = buf[Place(front, i)]
  BY <1>0, <1>4, HeldIsSequence
<1>7. /\ Append(Held, ch) \in Seq(Char) /\ Len(Append(Held, ch)) = size + 1
      /\ \A i \in 1 .. size : Append(Held, ch)[i] = buf[Place(front, i)]
      /\ Append(Held, ch)[size + 1] = ch
  BY <1>6, AppendProperties
<1>8. ASSUME NEW i \in 1 .. size + 1 PROVE Held'[i] = Append(Held, ch)[i]
  <2>1. CASE i = size + 1
    BY <1>0, <1>1, <1>3, <1>5, <1>7, <2>1
  <2>2. CASE i \in 1 .. size
    BY <1>0, <1>3, <1>5, <1>7, <2>2
  <2>3. i = size + 1 \/ i \in 1 .. size
    BY <1>0
  <2> QED  BY <2>1, <2>2, <2>3, Zenon
<1> QED  BY <1>5, <1>7, <1>8, SeqEqual

\* A character popped is the oldest one, and the others keep their order.
LEMMA PopDropsHead ==
    ASSUME RingInv, pop, ~hollow
    PROVE  Held # <<>> /\ Held' = Tail(Held)
<1>0. /\ BUFFER_SIZE \in Nat \ {0} /\ front \in Index /\ front' = advance(front)
      /\ size \in 1 .. BUFFER_SIZE /\ size' = size - 1
      /\ buf' = buf /\ buf \in [Index -> Char]
  BY BufferSizeIsPositive DEF pop, hollow, RingInv
<1>1. front' = Wrapped(front + 1) /\ front' \in Index
  BY <1>0, Advance DEF Wrapped, Index
<1>2. ASSUME NEW i \in 1 .. size - 1
      PROVE  Place(front', i) = Place(front, i + 1)
  <2>1. Place(front', i) = Wrapped(front' + i - 1)
    BY <1>0, <1>1, PlaceWraps
  <2>2. Place(front, i + 1) = Wrapped(front + (i + 1) - 1)
    BY <1>0, PlaceWraps
  <2>3. Wrapped(front' + i - 1) = Wrapped(front + (i + 1) - 1)
    BY <1>0, <1>1 DEF Wrapped, Index
  <2> QED  BY <2>1, <2>2, <2>3
<1>3. /\ Held' = HeldIn(buf, front', size - 1) /\ Held = HeldIn(buf, front, size)
      /\ size - 1 \in 0 .. BUFFER_SIZE /\ size \in 0 .. BUFFER_SIZE
  BY <1>0 DEF Held
<1>4. /\ Held' \in Seq(Char) /\ Len(Held') = size - 1
      /\ \A i \in 1 .. size - 1 : Held'[i] = buf[Place(front', i)]
  BY <1>0, <1>1, <1>3, HeldIsSequence
<1>5. /\ Held \in Seq(Char) /\ Len(Held) = size /\ Held # <<>>
      /\ \A i \in 1 .. size : Held[i] = buf[Place(front, i)]
  BY <1>0, <1>3, HeldIsSequence
<1>6. /\ Tail(Held) \in Seq(Char) /\ Len(Tail(Held)) = size - 1
      /\ \A i \in 1 .. size - 1 : Tail(Held)[i] = Held[i + 1]
  BY <1>5, HeadTailProperties
<1>7. ASSUME NEW i \in 1 .. size - 1 PROVE Held'[i] = Tail(Held)[i]
  <2>1. i + 1 \in 1 .. size
    BY <1>0
  <2>2. Held'[i] = buf[Place(front, i + 1)]
    BY <1>2, <1>4, Zenon
  <2>3. Tail(Held)[i] = buf[Place(front, i + 1)]
    BY <1>5, <1>6, <2>1, Zenon
  <2> QED  BY <2>2, <2>3, Zenon
<1> QED  BY <1>4, <1>5, <1>6, <1>7, SeqEqual

\* What the tests of the code say of the abstract queue.
LEMMA HeldFacts ==
    ASSUME RingInv
    PROVE  /\ Held \in Seq(Char) /\ Len(Held) = size /\ size \in Nat
           /\ Held = <<>> <=> size = 0
           /\ size > 0 => Head(Held) = buf[front]
           /\ ~allocated => full /\ hollow
           /\ allocated => /\ full <=> ~(Len(Held) < BUFFER_SIZE)
                           /\ hollow <=> Held = <<>>
<1>0. /\ BUFFER_SIZE \in Nat \ {0} /\ front \in Index
      /\ size \in 0 .. BUFFER_SIZE /\ size \in Nat /\ buf \in [Index -> Char]
  BY BufferSizeIsPositive DEF RingInv
<1>1. /\ Held \in Seq(Char) /\ Len(Held) = size /\ (Held = <<>> <=> size = 0)
      /\ \A i \in 1 .. size : Held[i] = buf[Place(front, i)]
  BY <1>0, HeldIsSequence DEF Held
<1>2. ASSUME size > 0 PROVE Head(Held) = buf[front]
  <2>1. 1 \in 1 .. size /\ 1 \in 1 .. BUFFER_SIZE
    BY <1>0, <1>2
  <2>2. Place(front, 1) = Wrapped(front + 1 - 1)
    BY <1>0, <2>1, PlaceWraps
  <2>3. Wrapped(front + 1 - 1) = front
    BY <1>0 DEF Wrapped, Index
  <2>4. Head(Held) = Held[1]
    BY <1>1, <1>2
  <2> QED  BY <1>1, <2>1, <2>2, <2>3, <2>4, Zenon
<1>3. ~allocated => full /\ hollow
  BY DEF full, hollow
<1>4. allocated => (full <=> ~(Len(Held) < BUFFER_SIZE))
  BY <1>0, <1>1 DEF full
<1>5. allocated => (hollow <=> Held = <<>>)
  BY <1>1 DEF hollow
<1> QED  BY <1>0, <1>1, <1>2, <1>3, <1>4, <1>5

\* While the queue is absent nothing is ever put into it.
AbsentInv == RingInv /\ (~allocated => size = 0)

LEMMA AbsentHolds == Spec => []AbsentInv
<1>1. new_queue => AbsentInv
  BY RingInit DEF AbsentInv, new_queue
<1>2. AbsentInv /\ [Next]_vars => AbsentInv'
  <2>1. ASSUME AbsentInv, [Next]_vars PROVE ~allocated' => size' = 0
    BY <2>1 DEF AbsentInv, Next, push, full, pop, hollow, top, empty, vars
  <2> QED  BY <2>1, RingStep DEF AbsentInv
<1> QED  BY <1>1, <1>2, PTL DEF Spec

LEMMA StepRefines ==
    ASSUME AbsentInv, [Next]_vars
    PROVE  [Abstract!Next]_(Abstract!vars)
<1> DEFINE room == IF allocated THEN BUFFER_SIZE ELSE 0
<1>0. /\ RingInv /\ (~allocated => size = 0)
      /\ BUFFER_SIZE \in Nat \ {0} /\ allocated \in BOOLEAN
  BY BufferSizeIsPositive DEF AbsentInv, RingInv
<1>1. ASSUME Next PROVE room' = room /\ allocated' = allocated
  BY <1>1 DEF Next
<1>f. full <=> ~(Len(Held) < room)
  BY <1>0, HeldFacts
<1>h. hollow <=> Held = <<>>
  BY <1>0, HeldFacts
<1>s. ASSUME UNCHANGED <<buf, front, size>> PROVE Held' = Held
  BY <1>s DEF Held
<1>2. ASSUME Next, NEW ch \in Char, push(ch) PROVE Abstract!Push(ch)
  <2>1. CASE full
    BY <1>1, <1>2, <1>f, <1>s, <2>1 DEF push, Abstract!Push
  <2>2. CASE ~full
    <3>1. Held' = Append(Held, ch)
      BY <1>0, <1>2, <2>2, PushAppends
    <3> QED  BY <1>1, <1>2, <1>f, <2>2, <3>1 DEF push, Abstract!Push
  <2> QED  BY <2>1, <2>2
<1>3. ASSUME Next, top PROVE Abstract!Top
  <2>1. ~hollow => Head(Held) = buf[front]
    BY <1>0, HeldFacts DEF hollow
  <2>2. Held' = Held
    BY <1>3, <1>s DEF top
  <2> QED  BY <1>1, <1>3, <1>h, <2>1, <2>2 DEF top, Abstract!Top
<1>4. ASSUME Next, pop PROVE Abstract!Pop
  <2>1. CASE hollow
    BY <1>1, <1>4, <1>h, <1>s, <2>1 DEF pop, Abstract!Pop, Abstract!Void
  <2>2. CASE ~hollow
    <3>1. Held # <<>> /\ Held' = Tail(Held)
      BY <1>0, <1>4, <2>2, PopDropsHead
    <3> QED  BY <1>1, <1>4, <3>1 DEF pop, Abstract!Pop, Abstract!Void
  <2> QED  BY <2>1, <2>2
<1>5. ASSUME Next, empty PROVE Abstract!Empty
  <2>1. Held' = Held
    BY <1>5, <1>s DEF empty
  <2> QED  BY <1>1, <1>5, <1>h, <2>1 DEF empty, Abstract!Empty
<1>6. ASSUME UNCHANGED vars PROVE UNCHANGED Abstract!vars
  BY <1>6, <1>s DEF vars, Abstract!vars
<1> QED  BY <1>2, <1>3, <1>4, <1>5, <1>6 DEF Next, Abstract!Next

\* Every behaviour of the ring buffer is one of the bounded queue: serial.c
\* receives the characters in the order the line delivered them.
THEOREM QueueIsFifo == Spec => IsFifo
<1>1. new_queue => Abstract!Init
  <2> SUFFICES ASSUME new_queue PROVE Abstract!Init
    OBVIOUS
  <2>1. Held = <<>>
    BY RingInit, HeldFacts DEF new_queue
  <2> QED  BY <2>1 DEF new_queue, Abstract!Init, Abstract!Void
<1>2. AbsentInv /\ [Next]_vars => [Abstract!Next]_(Abstract!vars)
  BY StepRefines
<1> QED  BY <1>1, <1>2, AbsentHolds, PTL DEF Spec, IsFifo, Abstract!Spec

=============================================================================
