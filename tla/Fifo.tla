-------------------------------- MODULE Fifo --------------------------------
(***************************************************************************)
(* What the char queue of LCOMaze promises to serial.c: a bounded first-in *)
(* first-out buffer that refuses when it is full and answers NUL when it   *)
(* is empty.  A queue whose allocation failed has no room at all.          *)
(***************************************************************************)
EXTENDS Integers, Sequences

CONSTANTS Char, Nul, Capacity

VARIABLES
    room,   \* how many characters the queue can hold
    items,  \* the characters held, oldest first
    ret     \* what the last call returned

vars == <<room, items, ret>>

Void == "void"

Init ==
    /\ room \in {0, Capacity}
    /\ items = <<>>
    /\ ret = <<Void>>

Push(ch) ==
    /\ IF Len(items) < room
       THEN items' = Append(items, ch) /\ ret' = <<"int", 0>>
       ELSE items' = items /\ ret' = <<"int", 1>>
    /\ UNCHANGED room

Top ==
    /\ ret' = <<"char", IF items = <<>> THEN Nul ELSE Head(items)>>
    /\ UNCHANGED <<room, items>>

Pop ==
    /\ items' = IF items = <<>> THEN <<>> ELSE Tail(items)
    /\ ret' = <<Void>>
    /\ UNCHANGED room

Empty ==
    /\ ret' = <<"int", IF items = <<>> THEN 1 ELSE 0>>
    /\ UNCHANGED <<room, items>>

Next == (\E ch \in Char : Push(ch)) \/ Top \/ Pop \/ Empty

Spec == Init /\ [][Next]_vars

=============================================================================
