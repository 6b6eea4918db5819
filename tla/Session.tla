------------------------------ MODULE Session ------------------------------
(***************************************************************************)
(* The program from its start to its end: what proj_main_loop sets up      *)
(* before its loop and undoes behind it, with any of the calls failing,    *)
(* and mouse_send_command against a keyboard controller whose one output   *)
(* buffer also brings the bytes of a moving mouse and of the keyboard.     *)
(* The program may be run again and again on the same PC.                  *)
(***************************************************************************)
EXTENDS Timer, Sequences

CONSTANTS
    MaxAttempts,    \* how often mouse_send_command tries (10)
    MaxKeys         \* how many keys are pressed while it does

\* A try for the byte that was in the buffer before, one for each key, and
\* one for the acknowledgement.
ASSUME PatienceFits == MaxKeys \in Nat /\ MaxAttempts \in Nat /\ MaxAttempts > MaxKeys + 1

\* What a call leaves behind, and what it takes away.  The interrupt
\* policies and the mapping go with the process, the rest stays in the
\* devices.
Op(name, gains, drops) == [name |-> name, gains |-> gains, drops |-> drops]

Owned == {"mouse irq", "kbd irq", "timer irq", "rtc irq", "serial irq", "mapping"}

mouse_subscribe_int == Op("mouse_subscribe_int", {"mouse irq"}, {})
kbd_subscribe_int == Op("kbd_subscribe_int", {"kbd irq"}, {})
enable_reporting == Op("mouse_send_command 0xF4", {"reporting"}, {})
setFrameBuffer == Op("setFrameBuffer", {"mapping"}, {})
setGraphicsMode == Op("setGraphicsMode", {"graphics"}, {})
timer_set_frequency == Op("timer_set_frequency", {"timer rate"}, {})
timer_subscribe_int == Op("timer_subscribe_int", {"timer irq"}, {})
set_update == Op("set_update", {"rtc updates"}, {})
subscribe_rtc == Op("subscribe_rtc", {"rtc irq"}, {})
sp_enable_int == Op("sp_enable_int", {"uart interrupt"}, {})
sp_subscribe_int == Op("sp_subscribe_int", {"serial irq"}, {})
main_loop == Op("loop", {}, {})
kbd_unsubscribe_int == Op("kbd_unsubscribe_int", {}, {"kbd irq"})
disable_reporting == Op("mouse_send_command 0xF5", {}, {"reporting"})
mouse_unsubscribe_int == Op("mouse_unsubscribe_int", {}, {"mouse irq"})
timer_unsubscribe_int == Op("timer_unsubscribe_int", {}, {"timer irq"})
unsubscribe_rtc == Op("unsubscribe_rtc", {}, {"rtc irq"})
clean_update == Op("clean_update", {}, {"rtc updates"})
sp_unsubscribe == Op("sp_unsubscribe", {}, {"serial irq"})
vg_exit_to_text == Op("vg_exit_to_text", {}, {"graphics"})

Startup == <<mouse_subscribe_int, kbd_subscribe_int, enable_reporting,
             setFrameBuffer, setGraphicsMode, timer_set_frequency,
             timer_subscribe_int, set_update, subscribe_rtc, sp_enable_int,
             sp_subscribe_int>>

\* Mutated form of Shutdown: one device is forgotten.
ShutdownButRtc == <<kbd_unsubscribe_int, disable_reporting, mouse_unsubscribe_int,
                    timer_unsubscribe_int, unsubscribe_rtc, sp_unsubscribe,
                    vg_exit_to_text>>

Shutdown == <<kbd_unsubscribe_int, disable_reporting, mouse_unsubscribe_int,
              timer_unsubscribe_int, unsubscribe_rtc, clean_update,
              sp_unsubscribe, vg_exit_to_text>>

Script == Startup \o <<main_loop>> \o Shutdown
Ended == Len(Script) + 1

Commands == {enable_reporting, disable_reporting}

\* These look at no result of a port access, or proj_main_loop not at theirs.
Unchecked == {set_update, clean_update, sp_enable_int, sp_unsubscribe}

VARIABLES
    pc,         \* the place in Script, or Ended
    result,     \* what proj_main_loop returned: "zero", or "error"
    set,        \* what is set up in the devices and for the process
    written,    \* mouse_send_command has written, and waits for the response
    attempts,   \* how often it has
    keys,       \* how many keys were pressed meanwhile
    output,     \* the controller's output buffer: one byte or none
    mouse,      \* the byte the mouse wants to send, or none
    faulty      \* history: some call failed, or the mouse misunderstood

command == <<written, attempts, keys>>
kbc == <<output, mouse>>
pvars == <<pc, result, set, command, kbc, faulty>>
vars == <<pvars, tvars>>

\* The call that is next.
Call == Script[pc]

Init ==
    /\ pc = 1 /\ result = "none" /\ set = {}
    /\ written = FALSE /\ attempts = 0 /\ keys = 0
    /\ output = <<>> /\ mouse = <<>>
    /\ faulty = FALSE
    /\ TimerInit

-----------------------------------------------------------------------------
(* The keyboard controller and what is behind it (external).               *)

\* A motion byte may look like an acknowledgement, a scan code does not.
MouseMoved ==
    /\ "reporting" \in set /\ mouse = <<>>
    /\ \E byte \in {"other", "ACK"} : mouse' = <<byte>>
    /\ UNCHANGED <<pc, result, set, command, output, faulty>>

KeyPressed ==
    /\ output = <<>> /\ keys < MaxKeys
    /\ output' = <<"other">>
    /\ keys' = keys + 1
    /\ UNCHANGED <<pc, result, set, written, attempts, mouse, faulty>>

MouseByteComes ==
    /\ output = <<>> /\ mouse # <<>>
    /\ output' = mouse /\ mouse' = <<>>
    /\ UNCHANGED <<pc, result, set, command, faulty>>

-----------------------------------------------------------------------------
(* The program.                                                            *)

GoOn ==
    /\ pc' = pc + 1
    /\ result' = IF pc' = Ended THEN "zero" ELSE result

Fail ==
    /\ pc' = Ended /\ result' = "error"
    /\ faulty' = TRUE

\* A call that succeeds.
Done ==
    /\ pc # Ended /\ Call \notin Commands \cup {timer_set_frequency, main_loop}
    /\ set' = (set \cup Call.gains) \ Call.drops
    /\ GoOn
    /\ UNCHANGED <<command, kbc, faulty>>

\* A call that fails, and the program returns at once; sp_subscribe_int may
\* have set its policy before it found no memory.
Failed ==
    /\ pc # Ended /\ Call \notin Commands \cup Unchecked \cup {timer_set_frequency, main_loop}
    /\ Fail
    /\ \/ UNCHANGED set
       \/ Call = sp_subscribe_int /\ set' = set \cup Call.gains
    /\ UNCHANGED <<command, kbc>>

\* A call that fails without anybody noticing.
FailedUnseen ==
    /\ pc # Ended /\ Call \in Unchecked
    /\ GoOn
    /\ faulty' = TRUE
    /\ UNCHANGED <<set, command, kbc>>

\* timer_set_frequency, port by port.
SetFrequency ==
    /\ pc # Ended /\ Call = timer_set_frequency
    /\ \/ Underway /\ UNCHANGED <<pc, result, set, faulty>>
       \/ /\ WriteMSB
          /\ set' = set \cup Call.gains
          /\ GoOn
          /\ UNCHANGED faulty
       \/ (Refused \/ PortFails) /\ Fail /\ UNCHANGED set
    /\ UNCHANGED <<command, kbc>>

\* Mutated form of Counted: the attempts are not counted.
Uncounted == attempts

Counted == attempts + 1

\* Two bytes go to the controller and on to the mouse, which drops what it
\* was about to send and obeys; or it does not understand.
WriteCommand ==
    /\ pc # Ended /\ Call \in Commands /\ ~written
    /\ written' = TRUE
    /\ attempts' = Counted
    /\ \/ /\ set' = (set \cup Call.gains) \ Call.drops
          /\ mouse' = <<"ACK">>
          /\ UNCHANGED faulty
       \/ /\ mouse' = <<"NACK">>
          /\ faulty' = TRUE
          /\ UNCHANGED set
    /\ UNCHANGED <<pc, result, keys, output>>

\* The input buffer is full, for which kbc_send_command does not wait, or a
\* port access of the attempt fails, the one that reads the response too.
CommandFails ==
    /\ pc # Ended /\ Call \in Commands
    /\ Fail
    /\ written' = FALSE /\ attempts' = 0 /\ keys' = 0
    /\ UNCHANGED <<set, kbc>>

\* Mutated form of TriesAgain: the first answer decides.
NeverTriesAgain == FALSE

TriesAgain == attempts < MaxAttempts

\* The response is whatever stands in the output buffer after the delay.
ReadResponse ==
    /\ written /\ output # <<>>
    /\ output' = <<>>
    /\ written' = FALSE
    /\ \/ /\ output = <<"ACK">>
          /\ GoOn
          /\ attempts' = 0 /\ keys' = 0
          /\ UNCHANGED faulty
       \/ /\ output # <<"ACK">> /\ TriesAgain
          /\ UNCHANGED <<pc, result, attempts, keys, faulty>>
       \/ /\ output # <<"ACK">> /\ ~TriesAgain
          /\ pc' = Ended /\ result' = "error"
          /\ attempts' = 0 /\ keys' = 0
          /\ UNCHANGED faulty
    /\ UNCHANGED <<set, mouse>>

InLoop == pc # Ended /\ Call = main_loop

\* In the loop the handlers of the keyboard and the mouse read each byte.
Handle ==
    /\ InLoop /\ output # <<>>
    /\ output' = <<>>
    /\ keys' = 0
    /\ UNCHANGED <<pc, result, set, written, attempts, mouse, faulty>>

\* The player has chosen to leave.
Leave ==
    /\ InLoop
    /\ GoOn
    /\ UNCHANGED <<set, command, kbc, faulty>>

\* driver_receive fails.
ReceiveFailed ==
    /\ InLoop
    /\ Fail
    /\ UNCHANGED <<set, command, kbc>>

\* The process is gone, the devices are as they were left, and the program
\* is run again.
RunAgain ==
    /\ pc = Ended
    /\ pc' = 1 /\ result' = "none"
    /\ set' = set \ Owned
    /\ keys' = 0
    /\ faulty' = FALSE
    /\ UNCHANGED <<written, attempts, kbc>>

Calls == \/ Done \/ Failed \/ FailedUnseen
         \/ WriteCommand \/ CommandFails \/ ReadResponse

Program == \/ Calls /\ UNCHANGED tvars
           \/ SetFrequency

Next == \/ Program
        \/ /\ \/ MouseMoved \/ KeyPressed \/ MouseByteComes
              \/ Handle \/ Leave \/ ReceiveFailed \/ RunAgain
           /\ UNCHANGED tvars

\* The program runs on, and the delay of mouse_send_command lets the mouse
\* answer.
Spec == /\ Init /\ [][Next]_vars
        /\ WF_vars(Program) /\ WF_vars(MouseByteComes /\ UNCHANGED tvars)

-----------------------------------------------------------------------------

\* What proj_main_loop never takes back: the mapping of the frame buffer goes
\* with the process; the timer's rate and the UART's interrupt stay.
Left == {"mapping", "timer rate", "uart interrupt"}

\* The program that ends well, with no fault on the way, has undone all the
\* rest, whatever an earlier run had left behind: the mouse is silent, the
\* screen in text mode, no RTC update and no interrupt policy remains.  The
\* timer still counts at the program's rate, and the UART still interrupts
\* (the calls behind the main loop and their order).
EndRestoresAllButTwo ==
    result = "zero" /\ ~faulty => set = Left /\ Divisor(timer) = Clock \div freq

\* In the loop, the counter that drives it divides its clock as the
\* frequency asks, both bytes of it, whatever a run that failed on the way
\* had left: half a divisor, a status nobody read.
TickIsRight ==
    InLoop => /\ Divisor(timer) = Clock \div freq
              /\ ~counter[timer].half /\ counter[timer].access = 3

\* Setting the frequency changes nothing else: no counter ever changes its
\* counting mode or base, and only one counter changes its divisor.
ModeIsKept ==
    [][/\ \A t \in Timers : counter'[t].config = counter[t].config
       /\ \A t \in Timers : Divisor(t)' # Divisor(t) => t = timer]_vars

\* Stale bytes in the output buffer, a moving mouse and keys pressed in the
\* meantime do not make a command fail: the attempts of mouse_send_command
\* are enough.
PatienceIsEnough == result = "error" => faulty

\* The program gets to its loop or ends, and once the player has left it
\* ends, even when the mouse understands nothing: the attempts are counted.
ComesToAnEnd == pc # Ended /\ ~InLoop ~> pc = Ended \/ InLoop

=============================================================================
