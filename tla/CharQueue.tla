----------------------------- MODULE CharQueue -----------------------------
(***************************************************************************)
(* data_structures/queue.c: the ring buffer behind the receive and the     *)
(* transmit queue of the serial port.                                      *)
(***************************************************************************)
EXTENDS Integers, Sequences

CONSTANTS
    Char,         \* the characters put into the queue
    Nul,          \* '\0', what top answers without a character
    BUFFER_SIZE

ASSUME BufferSizeIsPositive == BUFFER_SIZE \in Nat \ {0}

VARIABLES
    allocated,    \* FALSE: new_queue ran out of memory, the queue is NULL
    buf,
    front,        \* index of the oldest character
    rear,         \* index of the newest one
    size,
    ret           \* what the last call returned

vars == <<allocated, buf, front, rear, size, ret>>

Index == 0 .. BUFFER_SIZE - 1

\* The memory that malloc hands out holds anything.
new_queue ==
    /\ allocated \in BOOLEAN
    /\ buf \in [Index -> Char]
    /\ front = 0
    /\ rear = -1
    /\ size = 0
    /\ ret = <<"void">>

\* Mutated form of advance: the wrap comes one too late.
AdvanceLate(i) == (i + 1) % (BUFFER_SIZE + 1)

advance(i) == (i + 1) % BUFFER_SIZE

full == ~allocated \/ size >= BUFFER_SIZE

push(ch) ==
    \/ /\ full
       /\ ret' = <<"int", 1>>
       /\ UNCHANGED <<buf, front, rear, size>>
    \/ /\ ~full
       /\ rear' = advance(rear)
       /\ buf' = [buf EXCEPT ![rear'] = ch]
       /\ size' = size + 1
       /\ ret' = <<"int", 0>>
       /\ UNCHANGED front

hollow == ~allocated \/ size = 0

top ==
    /\ ret' = <<"char", IF hollow THEN Nul ELSE buf[front]>>
    /\ UNCHANGED <<buf, front, rear, size>>

\* Mutated form of pop: the newest character goes.
PopNewest ==
    /\ \/ hollow /\ UNCHANGED <<rear, size>>
       \/ ~hollow /\ rear' = (rear + BUFFER_SIZE - 1) % BUFFER_SIZE /\ size' = size - 1
    /\ ret' = <<"void">>
    /\ UNCHANGED <<buf, front>>

pop ==
    /\ \/ hollow /\ UNCHANGED <<front, size>>
       \/ ~hollow /\ front' = advance(front) /\ size' = size - 1
    /\ ret' = <<"void">>
    /\ UNCHANGED <<buf, rear>>

empty ==
    /\ ret' = <<"int", IF hollow THEN 1 ELSE 0>>
    /\ UNCHANGED <<buf, front, rear, size>>

Next ==
    /\ (\E ch \in Char : push(ch)) \/ top \/ pop \/ empty
    /\ UNCHANGED allocated

Spec == new_queue /\ [][Next]_vars

-----------------------------------------------------------------------------

\* The indices stay inside the buffer (rear is -1 until the first push), and
\* the newest character lies size places behind the oldest: what makes the
\* two indices and the counter of queue.c speak of the same characters.
RingInv ==
    /\ allocated \in BOOLEAN
    /\ buf \in [Index -> Char]
    /\ front \in Index
    /\ rear \in Index \cup {-1}
    /\ size \in 0 .. BUFFER_SIZE
    /\ advance(rear) = (front + size) % BUFFER_SIZE

\* Where the i-th oldest character stands when f is the oldest one's index.
Place(f, i) == (f + i - 1) % BUFFER_SIZE

\* The n characters that stand in b from index f on, oldest first.
HeldIn(b, f, n) == [i \in 1 .. n |-> b[Place(f, i)]]

Held == HeldIn(buf, front, size)

\* The ring buffer is the bounded queue: characters leave in the order they
\* came, none is lost, doubled or overwritten, and a full or an absent queue
\* refuses (push, top, pop and empty, over any number of wraps).
Abstract == INSTANCE Fifo WITH Capacity <- BUFFER_SIZE,
                               room <- IF allocated THEN BUFFER_SIZE ELSE 0,
                               items <- Held

IsFifo == Abstract!Spec

=============================================================================
