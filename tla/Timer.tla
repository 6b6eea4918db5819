-------------------------------- MODULE Timer --------------------------------
(***************************************************************************)
(* timer_set_frequency and timer_get_conf of controllers/timer.c, one port *)
(* access a step, and the three counters of the 8254 behind the ports      *)
(* (external).  Any access may fail; the registers then stay as the steps  *)
(* before left them, also for the next run of the program.                 *)
(***************************************************************************)
EXTENDS Integers

CONSTANTS
    Requests,       \* what is asked for: pairs of a timer and a frequency
    Config,         \* the counting mode and base each counter starts with
    MinFreq         \* the lowest frequency that is accepted (19)

Timers == 0 .. 2
Clock == 1193181
Byte == 0 .. 255

\* The counters count in binary, and the frequencies give a divisor of 16
\* bits.
ASSUME TimerFits ==
    /\ Requests \subseteq Int \X Nat
    /\ Config \in [Timers -> {config \in 0 .. 15 : config % 2 = 0}]
    /\ MinFreq \in Nat \ {0} /\ Clock < 65536 * MinFreq

VARIABLES
    counter,        \* the registers of each counter
    port,           \* the port access that is next, or "none"
    request,        \* the parameters of timer_set_frequency
    currentConfig   \* the status byte read

tvars == <<counter, port, request, currentConfig>>

NoStatus == -1

TimerInit ==
    /\ counter = [t \in Timers |->
           [config |-> Config[t], access |-> 3, half |-> FALSE, lsb |-> 0, msb |-> 0,
            latched |-> NoStatus]]
    /\ port = "none"
    /\ request = <<0, 0>> /\ currentConfig = 0

-----------------------------------------------------------------------------
(* The 8254.  A counter that has its control word and takes both bytes     *)
(* expects the least significant one first; half says that it has that.    *)

\* What each counter is called in a read-back command.
SelectBit == <<2, 4, 8>>

\* A status is latched until it is read, and not latched again before.  (Its
\* two upper bits, which the driver masks out, are left out.)
Latched(register) ==
    IF register.latched # NoStatus THEN register
    ELSE [register EXCEPT !.latched = 16 * register.access + register.config]

\* A control word for one counter, or the read-back command for some.
OutControl(word) ==
    counter' =
        IF word \div 64 = 3
        THEN [t \in Timers |-> IF (word \div SelectBit[t + 1]) % 2 = 1
                               THEN Latched(counter[t]) ELSE counter[t]]
        ELSE [counter EXCEPT ![word \div 64] =
                 [@ EXCEPT !.config = word % 16, !.access = (word \div 16) % 4, !.half = FALSE]]

Taken(register, byte) ==
    CASE register.access = 1 -> [register EXCEPT !.lsb = byte, !.msb = 0]
      [] register.access = 2 -> [register EXCEPT !.lsb = 0, !.msb = byte]
      [] register.access = 3 /\ ~register.half -> [register EXCEPT !.lsb = byte, !.half = TRUE]
      [] OTHER -> [register EXCEPT !.msb = byte, !.half = FALSE]

OutCounter(t, byte) == counter' = [counter EXCEPT ![t] = Taken(@, byte)]

\* What the counter divides its clock by; 0 stands for the largest divisor.
Divisor(t) == 256 * counter[t].msb + counter[t].lsb

-----------------------------------------------------------------------------
(* The driver.                                                             *)

timer == request[1]
freq == request[2]

Valid(t, f) == t \in Timers /\ f \in MinFreq .. Clock

initialValue == (Clock \div freq) % 65536
util_get_LSB(val) == val % 256
util_get_MSB(val) == (val \div 256) % 256

\* Mutated forms of ControlWord: one byte is announced; the counting mode is
\* not kept.
ControlWordLSB == 64 * timer + 16 * 1 + (currentConfig % 16)
ControlWordFresh == 64 * timer + 16 * 3

\* The counter, LSB followed by MSB, and the mode and base it has.
ControlWord == 64 * timer + 16 * 3 + (currentConfig % 16)

ReadBackWord == 128 + 64 + 32 + SelectBit[timer + 1]

Goes(from, to) == port = from /\ port' = to

Asked ==
    /\ Goes("none", "read back")
    /\ request' \in Requests /\ Valid(request'[1], request'[2])
    /\ UNCHANGED <<counter, currentConfig>>

Refused ==
    /\ port = "none"
    /\ \E r \in Requests : ~Valid(r[1], r[2])
    /\ UNCHANGED tvars

\* timer_get_conf
ReadBack ==
    /\ Goes("read back", "status")
    /\ OutControl(ReadBackWord)
    /\ UNCHANGED <<request, currentConfig>>

ReadStatus ==
    /\ Goes("status", "control")
    /\ currentConfig' = counter[timer].latched
    /\ counter' = [counter EXCEPT ![timer].latched = NoStatus]
    /\ UNCHANGED request

WriteControl ==
    /\ Goes("control", "LSB")
    /\ OutControl(ControlWord)
    /\ UNCHANGED <<request, currentConfig>>

WriteLSB ==
    /\ Goes("LSB", "MSB")
    /\ OutCounter(timer, util_get_LSB(initialValue))
    /\ UNCHANGED <<request, currentConfig>>

\* timer_set_frequency returns 0 after this one.
WriteMSB ==
    /\ Goes("MSB", "none")
    /\ OutCounter(timer, util_get_MSB(initialValue))
    /\ currentConfig' = 0
    /\ UNCHANGED request

\* sys_outb or sys_inb fails, and timer_set_frequency returns 1.
PortFails ==
    /\ port # "none" /\ port' = "none"
    /\ currentConfig' = 0
    /\ UNCHANGED <<counter, request>>

Underway == Asked \/ ReadBack \/ ReadStatus \/ WriteControl \/ WriteLSB

=============================================================================
