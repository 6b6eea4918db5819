----------------------------- MODULE SerialPort -----------------------------
(***************************************************************************)
(* controllers/serial.c on one PC, port read by port read: the UART moves  *)
(* bytes in and out while ser_ih, receive, clear_receive_queue and         *)
(* sp_send_int run.  CharQueue is the receive queue.  The characters are   *)
(* numbered as they come over the cable, from 2 on; any of them may come   *)
(* as NUL instead (a break or a glitch).                                   *)
(***************************************************************************)
EXTENDS CharQueue

CONSTANTS
    LastByte,   \* bound: the number of the last character on the cable
    MaxSends,   \* bound: how often the program sends
    Memory      \* how many more queues the heap holds when the loop begins

One == 1        \* char c = 1 in proj_main_loop

ASSUME BytesAreChars ==
    /\ Char = {Nul} \cup (One .. LastByte) /\ Nul \notin One .. LastByte
    /\ LastByte \in Nat /\ MaxSends \in Nat /\ Memory \in Nat

VARIABLES
    next,           \* the number of the next character on the cable
    rbr,            \* the UART's receive register
    data_ready,     \* bit 0 of LSR: rbr was not read yet
    notified,       \* a serial interrupt notification is pending
    thr_empty,      \* bit 5 of LSR: the transmit register is free
    shifted,        \* history: how many bytes went out on the cable
    calls,          \* history: how many bytes sp_send_int was asked to send
    memory,         \* how many more queues the heap holds
    unsent,         \* history: how many calls had no memory for their queue
    c,              \* the character of proj_main_loop
    pc,             \* where the thread is; "idle" in driver_receive
    back,           \* where it goes on after sp_send_int
    alone,          \* history: the last byte came to an idle program with
                    \* nothing left to do
    crowded,        \* history: how many bytes came while a serial interrupt
                    \* was handled
    repeats         \* history: how often a handler found no byte and served
                    \* the character of the one before again

uart == <<next, rbr, data_ready, notified, alone, crowded, repeats>>
sender == <<thr_empty, shifted, calls, memory, unsent, back>>
portVars == <<vars, uart, sender, c, pc>>

\* sp_subscribe_int: the program runs on only with its queues allocated.
PortInit ==
    /\ new_queue /\ allocated
    /\ next = 2 /\ rbr = Nul /\ data_ready = FALSE /\ notified = FALSE
    /\ thr_empty = TRUE /\ shifted = 0 /\ calls = 0
    /\ memory = Memory /\ unsent = 0
    /\ c = One /\ pc = "idle" /\ back = "idle"
    /\ alone = FALSE /\ crowded = 0 /\ repeats = 0

\* The thread has left the handler of the serial interrupt.
Resting == pc = "idle" \/ (pc = "send" /\ back = "idle")

-----------------------------------------------------------------------------
(* The UART, beside the thread.  The program never turns its FIFO on: a    *)
(* byte that was not read is overwritten.  The interrupt line rises when   *)
(* the receive register fills, not when it is overwritten.                 *)

Arrive ==
    /\ next <= LastByte
    /\ rbr' \in {next, Nul}
    /\ next' = next + 1
    /\ data_ready' = TRUE
    /\ notified' = (notified \/ ~data_ready)
    /\ alone' = (pc = "idle" /\ ~notified /\ ~data_ready)
    /\ crowded' = IF Resting THEN crowded ELSE crowded + 1
    /\ UNCHANGED <<vars, sender, c, pc, repeats>>

Shift ==
    /\ ~thr_empty
    /\ thr_empty' = TRUE
    /\ shifted' = shifted + 1
    /\ UNCHANGED <<vars, uart, calls, memory, unsent, back, c, pc>>

-----------------------------------------------------------------------------
(* The thread.                                                             *)

Goto(label) == pc' = label

\* The notification is taken; with a NUL in c it is ignored.
Notification ==
    /\ pc = "idle" /\ notified
    /\ notified' = FALSE
    /\ Goto(IF c # Nul THEN "iir" ELSE "idle")
    /\ UNCHANGED <<vars, next, rbr, data_ready, alone, crowded, repeats, sender, c>>

\* Mutated form of ReceiverAvailable: the bits of the two causes are swapped.
TransmitterAvailable == FALSE

\* The cause in IIR: only the receiver's interrupt is enabled.
ReceiverAvailable == data_ready

ReadIIR ==
    /\ pc = "iir"
    /\ Goto(IF ReceiverAvailable THEN "lsr" ELSE "empty")
    /\ UNCHANGED <<vars, uart, sender, c>>

\* The loop of ser_ih; a full queue drops the byte that was read.
ReadByte ==
    /\ pc = "lsr" /\ data_ready
    /\ push(rbr)
    /\ data_ready' = FALSE
    /\ UNCHANGED <<allocated, next, rbr, notified, alone, crowded, repeats, sender, c, pc>>

NoMoreBytes ==
    /\ pc = "lsr" /\ ~data_ready
    /\ Goto("empty")
    /\ UNCHANGED <<vars, uart, sender, c>>

\* receive asks the queue, looks at its oldest character and takes it; with
\* an empty queue c keeps its value.
Ask ==
    /\ pc = "empty"
    /\ empty
    /\ Goto(IF hollow THEN "dispatch" ELSE "top")
    /\ repeats' = IF hollow THEN repeats + 1 ELSE repeats
    /\ UNCHANGED <<allocated, next, rbr, data_ready, notified, alone, crowded, sender, c>>

Look ==
    /\ pc = "top"
    /\ top
    /\ Goto("pop")
    /\ UNCHANGED <<allocated, uart, sender, c>>

Take ==
    /\ pc = "pop"
    /\ c' = ret[2]
    /\ pop
    /\ Goto("dispatch")
    /\ UNCHANGED <<allocated, uart, sender>>

\* A call of sp_send_int, which goes on at label.  The queue it allocates is
\* never freed; without memory for it it sends nothing and reports success.
StartSend(label) ==
    /\ calls < MaxSends
    /\ calls' = calls + 1
    /\ \/ /\ memory > 0
          /\ memory' = memory - 1
          /\ back' = label /\ Goto("send")
          /\ UNCHANGED unsent
       \/ /\ memory = 0
          /\ unsent' = unsent + 1
          /\ Goto(label)
          /\ UNCHANGED <<memory, back>>
    /\ UNCHANGED <<thr_empty, shifted>>

\* The game does what the character says, and may answer it.
Dispatch ==
    /\ pc = "dispatch"
    /\ StartSend("clear") \/ (Goto("clear") /\ UNCHANGED sender)
    /\ UNCHANGED <<vars, uart, c>>

\* A timer interrupt whose handler sends.
TimerSends ==
    /\ pc = "idle"
    /\ StartSend("idle")
    /\ UNCHANGED <<vars, uart, c>>

\* A timer interrupt that shows the winner's time: two of the six strings of
\* calculate_time are not freed, in the end the room of a queue.
calculate_time ==
    /\ pc = "idle" /\ memory > 0
    /\ memory' = memory - 1
    /\ UNCHANGED <<vars, uart, thr_empty, shifted, calls, unsent, back, c, pc>>

\* Mutated form of MayWrite: LSR is not asked.
WriteAtOnce == TRUE

MayWrite == thr_empty

\* The loop of sp_send_int polls LSR until the transmit register is free.
Write ==
    /\ pc = "send"
    /\ MayWrite
    /\ thr_empty' = FALSE
    /\ Goto(back)
    /\ UNCHANGED <<vars, uart, shifted, calls, memory, unsent, back, c>>

\* Mutated form of ClearDone: what was not served stays for later.
LeaveTheRest == TRUE

ClearDone == hollow

\* Mutated form of Drop: the loop asks the same character again.
DropNothing == UNCHANGED <<buf, front, rear, size, ret>>

Drop == pop

\* clear_receive_queue, and back to driver_receive.
ClearAsks ==
    /\ pc = "clear"
    /\ empty
    /\ Goto(IF ClearDone THEN "idle" ELSE "drop")
    /\ UNCHANGED <<allocated, uart, sender, c>>

ClearPops ==
    /\ pc = "drop"
    /\ Drop
    /\ Goto("clear")
    /\ UNCHANGED <<allocated, uart, sender, c>>

Handler == \/ ReadIIR \/ ReadByte \/ NoMoreBytes \/ Ask \/ Look \/ Take
           \/ Dispatch \/ Write \/ ClearAsks \/ ClearPops

PortNext == \/ Arrive \/ Shift
            \/ Notification \/ Handler \/ TimerSends \/ calculate_time

\* The thread runs, and the UART shifts out what it was given.
PortSpec == /\ PortInit /\ [][PortNext]_portVars
            /\ WF_portVars(Handler) /\ WF_portVars(Shift)

-----------------------------------------------------------------------------

\* A byte in the receive register is read, or an interrupt for it is still
\* to be served: the loop of ser_ih does not leave a byte behind that could
\* raise no interrupt any more.  A NUL in c is the end of that.
NoByteForgotten ==
    data_ready /\ c # Nul => notified \/ pc \in {"iir", "lsr"}

\* A byte that comes to a program with nothing to do, with no other byte
\* close behind, is what its handler works on, whatever was overwritten,
\* dropped or served twice before (receive and clear_receive_queue).
AloneIsServed == pc = "dispatch" /\ alone => c = rbr

\* The interrupts fit the bytes: a handler that finds nothing, and serves
\* the character of the one before once more, is the price of a byte that
\* came while an interrupt was handled and was read, and lost, with another.
\* However the loop of ser_ih, clear_receive_queue and the UART interleave,
\* no other call is acted upon twice.
RepeatsAreCrowded == repeats <= crowded

\* The bytes that went out, are shifted out, or wait for the transmitter.
Out == shifted + (IF thr_empty THEN 0 ELSE 1) + (IF pc = "send" THEN 1 ELSE 0)

\* sp_send_int sends each byte once, none written over the one before, as
\* long as there is memory for a queue; each byte costs one queue for good,
\* and a byte is lost, reported as sent, only when no memory is left.
SentWhileMemoryLasts ==
    /\ calls = Out + unsent
    /\ unsent > 0 => memory = 0
    /\ Out + memory <= Memory

\* No handler spins for ever: not the loop that empties the register, not
\* the one that clears the queue, not the one that polls the transmitter.
HandlerEnds == pc # "idle" ~> pc = "idle"

-----------------------------------------------------------------------------
(* Why they hold: the invariant that SerialPortProofs shows inductive.     *)

Reading == {"iir", "lsr", "empty", "top", "pop"}
Label == Reading \cup {"idle", "dispatch", "send", "clear", "drop"}

PortTypeOK ==
    /\ next \in Nat /\ next >= 2
    /\ rbr \in Char
    /\ data_ready \in BOOLEAN /\ notified \in BOOLEAN
    /\ thr_empty \in BOOLEAN /\ alone \in BOOLEAN
    /\ shifted \in Nat /\ calls \in Nat /\ memory \in Nat /\ unsent \in Nat
    /\ crowded \in Nat /\ repeats \in Nat
    /\ pc \in Label /\ back \in {"idle", "clear"}

\* The receive queue is empty between two handlers.
RestsEmpty == Resting \/ pc = "iir" => size = 0

\* The queue holds the last byte, and nothing else.
HoldsTheByte == size = 1 /\ buf[front] = rbr

\* How far the handler has got with a byte that came alone.
AloneOnItsWay ==
    alone => /\ IF Resting THEN notified => data_ready ELSE ~notified
             /\ pc = "iir" => data_ready
             /\ pc = "lsr" => IF data_ready THEN size = 0 ELSE HoldsTheByte
             /\ pc \in {"empty", "top"} => HoldsTheByte
             /\ pc = "pop" => ret[2] = rbr
             /\ pc = "dispatch" => c = rbr

\* How many handlers are still to find nothing: the one that runs, unless a
\* byte is left for it, and the one of an interrupt whose byte the loop of
\* ser_ih has taken or will take.
ComesEmpty ==
    CASE pc = "iir" -> ~data_ready
      [] pc = "empty" -> size = 0
      [] OTHER -> FALSE

WillComeEmpty == notified /\ (pc \in {"iir", "lsr"} \/ ~data_ready)

EmptyHandlers == (IF ComesEmpty THEN 1 ELSE 0) + (IF WillComeEmpty THEN 1 ELSE 0)

\* The handler of ser_ih has read something to serve, or will.
ReadSomething == /\ pc = "lsr" => data_ready \/ size > 0
                 /\ pc \in {"top", "pop"} => size > 0

RepeatsAreDue == ReadSomething /\ repeats + EmptyHandlers <= crowded

\* The inductive invariant.
PortInv ==
    /\ RingInv /\ allocated
    /\ PortTypeOK
    /\ RestsEmpty
    /\ AloneOnItsWay
    /\ SentWhileMemoryLasts
    /\ RepeatsAreDue
    /\ NoByteForgotten
    /\ pc \in Reading => c # Nul

=============================================================================
