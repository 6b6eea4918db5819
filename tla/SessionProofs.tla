--------------------------- MODULE SessionProofs ---------------------------
(***************************************************************************)
(* Theorems about Session and its Timer, for every frequency and for every *)
(* number of attempts and keys.                                            *)
(***************************************************************************)
EXTENDS Session, TLAPS

-----------------------------------------------------------------------------
(* The timer by itself.                                                    *)

\* The registers of a counter; the driver only ever has both bytes taken.
Register == [config : 0 .. 15, access : {3}, half : BOOLEAN, lsb : Byte, msb : Byte,
             latched : {NoStatus} \cup Byte]

TimerTyped ==
    /\ counter \in [Timers -> Register]
    /\ port \in {"none", "read back", "status", "control", "LSB", "MSB"}
    /\ request \in Int \X Nat
    /\ currentConfig \in Byte

\* What is in the registers between two port accesses of the driver.
TimerInv ==
    /\ TimerTyped
    /\ \A t \in Timers :
           counter[t].latched # NoStatus => counter[t].latched % 16 = counter[t].config
    /\ port # "none" => Valid(timer, freq)
    /\ port = "status" => counter[timer].latched # NoStatus
    /\ port = "control" => currentConfig % 16 = counter[timer].config
    /\ port = "LSB" => ~counter[timer].half
    /\ port = "MSB" => counter[timer].half /\ counter[timer].lsb = util_get_LSB(initialValue)

\* What a step may do to the registers (ModeIsKept).
OnlyTheRate ==
    /\ \A t \in Timers : counter'[t].config = counter[t].config
    /\ \A t \in Timers : Divisor(t)' # Divisor(t) => t = timer

Set == Divisor(timer) = Clock \div freq /\ ~counter[timer].half /\ counter[timer].access = 3

\* Every frequency that is accepted has a divisor of 16 bits.
LEMMA DivisorFits ==
    ASSUME NEW t, NEW f \in Nat, Valid(t, f)
    PROVE  Clock \div f \in Nat /\ Clock \div f >= 1 /\ Clock \div f <= 65535
<1>1. f \in Nat \ {0} /\ f >= MinFreq /\ f <= Clock /\ Clock \in Nat
      BY TimerFits DEF Valid, Clock
<1> DEFINE q == Clock \div f
<1>2. q \in Nat /\ q * f <= Clock /\ Clock < (q + 1) * f
      BY <1>1 DEF Clock
<1>3. 65536 * MinFreq <= 65536 * f
      BY <1>1, TimerFits
<1>4. q * f < 65536 * f
      BY <1>1, <1>2, <1>3, TimerFits
<1> HIDE DEF q
<1>5. q < 65536
  <2>1. SUFFICES ASSUME q >= 65536 PROVE FALSE
        BY <1>2
  <2>2. PICK k \in Nat : q = 65536 + k
        BY <2>1, <1>2
  <2>3. q * f = 65536 * f + k * f
        BY <2>2, <1>1
  <2>4. k * f >= 0
        BY <2>2, <1>1
  <2>5. q * f \in Int /\ 65536 * f \in Int /\ k * f \in Int
        BY <1>1, <1>2, <2>2
  <2> QED BY <1>4, <2>3, <2>4, <2>5
<1>6. q >= 1
  <2>1. SUFFICES ASSUME q = 0 PROVE FALSE
        BY <1>2
  <2>2. (q + 1) * f = f
        BY <2>1, <1>1
  <2>3. Clock < f
        BY <1>2, <2>2
  <2> QED BY <1>1, <2>3
<1>7. q \in Nat /\ q >= 1 /\ q <= 65535
      BY <1>2, <1>5, <1>6
<1> QED BY <1>7 DEF q

\* util_get_LSB and util_get_MSB split a divisor without loss.
LEMMA Split ==
    ASSUME NEW val \in Nat, val <= 65535
    PROVE  /\ util_get_LSB(val) \in Byte /\ util_get_MSB(val) \in Byte
           /\ 256 * util_get_MSB(val) + util_get_LSB(val) = val
<1>2. val \div 256 \in Nat /\ val \div 256 <= 255
      OBVIOUS
<1>3. ASSUME NEW byte \in Nat, byte <= 255 PROVE byte % 256 = byte /\ byte \in 0 .. 255
      BY <1>3
<1>4. val % 256 \in Nat /\ val % 256 <= 255 /\ 256 * (val \div 256) + (val % 256) = val
      OBVIOUS
<1>5. (val \div 256) % 256 = val \div 256 /\ val \div 256 \in 0 .. 255
      BY <1>2, <1>3
<1> QED BY <1>3, <1>4, <1>5 DEF util_get_LSB, util_get_MSB, Byte

LEMMA InitialValue ==
    ASSUME TimerInv, port # "none"
    PROVE  /\ initialValue = Clock \div freq
           /\ util_get_LSB(initialValue) \in Byte /\ util_get_MSB(initialValue) \in Byte
           /\ 256 * util_get_MSB(initialValue) + util_get_LSB(initialValue) = Clock \div freq
<1>1. freq \in Nat /\ Valid(timer, freq)
      BY DEF TimerInv, TimerTyped, freq
<1>2. Clock \div freq \in Nat /\ Clock \div freq <= 65535
      BY <1>1, DivisorFits
<1>3. ASSUME NEW n \in Nat, n <= 65535 PROVE n % 65536 = n
      BY <1>3
<1>4. initialValue = Clock \div freq
      BY <1>2, <1>3 DEF initialValue
<1> QED BY <1>2, <1>4, Split

\* What a counter that takes both bytes does with the first and the second.
LEMMA TakenBytes ==
    ASSUME NEW register \in Register, NEW byte \in Byte
    PROVE  Taken(register, byte) =
               IF ~register.half THEN [register EXCEPT !.lsb = byte, !.half = TRUE]
               ELSE [register EXCEPT !.msb = byte, !.half = FALSE]
BY DEF Register, Taken

\* The control word names its counter, both bytes, and the mode read back.
LEMMA ControlWordRead ==
    ASSUME timer \in Timers, currentConfig \in Byte
    PROVE  /\ ControlWord \div 64 = timer /\ ControlWord \div 64 # 3
           /\ (ControlWord \div 16) % 4 = 3
           /\ ControlWord % 16 = currentConfig % 16
BY DEF Timers, Byte, ControlWord

LEMMA ReadBackWordRead ==
    ASSUME timer \in Timers
    PROVE  /\ ReadBackWord \div 64 = 3
           /\ \A t \in Timers : (ReadBackWord \div SelectBit[t + 1]) % 2 = 1 <=> t = timer
<1>1. timer = 0 \/ timer = 1 \/ timer = 2
      BY DEF Timers
<1>2. SelectBit[0 + 1] = 2 /\ SelectBit[1 + 1] = 4 /\ SelectBit[2 + 1] = 8
      BY DEF SelectBit
<1>3. CASE timer = 0
  <2>1. ReadBackWord = 226
        BY <1>2, <1>3 DEF ReadBackWord
  <2> QED BY <1>2, <1>3, <2>1 DEF Timers
<1>4. CASE timer = 1
  <2>1. ReadBackWord = 228
        BY <1>2, <1>4 DEF ReadBackWord
  <2> QED BY <1>2, <1>4, <2>1 DEF Timers
<1>5. CASE timer = 2
  <2>1. ReadBackWord = 232
        BY <1>2, <1>5 DEF ReadBackWord
  <2> QED BY <1>2, <1>5, <2>1 DEF Timers
<1> QED BY <1>1, <1>3, <1>4, <1>5

-----------------------------------------------------------------------------
(* The steps of timer_set_frequency.                                       *)

LEMMA TimerStart == ASSUME TimerInit PROVE TimerInv
<1>1. \A t \in Timers : counter[t] \in Register /\ counter[t].latched = NoStatus
  <2>1. 0 \in Byte /\ NoStatus \notin Byte
        BY DEF Byte, NoStatus
  <2>2. \A t \in Timers : Config[t] \in 0 .. 15
        BY TimerFits
  <2> QED BY <2>1, <2>2 DEF TimerInit, Register
<1>2. TimerTyped
  <2>1. counter \in [Timers -> Register]
        BY <1>1 DEF TimerInit
  <2> QED BY <2>1 DEF TimerInit, TimerTyped, Byte
<1> QED BY <1>1, <1>2 DEF TimerInv, TimerInit

LEMMA TimerBy == ASSUME TimerInv, port # "none"
                 PROVE  timer \in Timers /\ counter[timer] \in Register
BY DEF TimerInv, TimerTyped, Valid

LEMMA AskedStep ==
    ASSUME TimerInv, Asked
    PROVE  TimerInv' /\ OnlyTheRate
<1>1. TimerTyped'
  <2>1. request' \in Int \X Nat
    <3>1. request' \in Requests
          BY DEF Asked
    <3>2. Requests \subseteq Int \X Nat
          BY TimerFits
    <3> QED BY <3>1, <3>2
  <2>2. port' = "read back" /\ counter' = counter /\ currentConfig' = currentConfig
        BY DEF Asked, Goes
  <2> QED BY <2>1, <2>2 DEF TimerInv, TimerTyped
<1>2. Valid(timer, freq)'
      BY DEF Asked, timer, freq, Valid
<1> QED BY <1>1, <1>2 DEF TimerInv, Asked, Goes, OnlyTheRate, Divisor

LEMMA ReadBackStep ==
    ASSUME TimerInv, ReadBack
    PROVE  TimerInv' /\ OnlyTheRate
<1>1. timer \in Timers
      BY TimerBy DEF ReadBack, Goes
<1>2. counter' = [t \in Timers |-> IF t = timer THEN Latched(counter[t]) ELSE counter[t]]
      BY <1>1, ReadBackWordRead DEF ReadBack, OutControl
<1>3. ASSUME NEW t \in Timers
      PROVE  /\ counter'[t] \in Register
             /\ counter'[t].config = counter[t].config
             /\ counter'[t].lsb = counter[t].lsb /\ counter'[t].msb = counter[t].msb
             /\ counter'[t].latched # NoStatus
                    => counter'[t].latched % 16 = counter'[t].config
             /\ t = timer => counter'[t].latched # NoStatus
  <2> DEFINE register == counter[t]
  <2>1. /\ register \in Register
        /\ register.latched # NoStatus => register.latched % 16 = register.config
        BY DEF TimerInv, TimerTyped
  <2>2. CASE t = timer /\ register.latched = NoStatus
    <3>1. counter'[t] = [register EXCEPT !.latched = 16 * register.access + register.config]
          BY <1>2, <2>2 DEF Latched
    <3>2. register.access = 3 /\ register.config \in 0 .. 15
          BY <2>1 DEF Register
    <3>3. /\ (16 * register.access + register.config) % 16 = register.config
          /\ 16 * register.access + register.config \in Byte
          /\ 16 * register.access + register.config # NoStatus
          BY <3>2 DEF Byte, NoStatus
    <3> QED BY <2>1, <3>1, <3>3 DEF Register
  <2>3. CASE ~(t = timer /\ register.latched = NoStatus)
    <3>1. counter'[t] = register
          BY <1>2, <2>3 DEF Latched
    <3> QED BY <2>1, <2>3, <3>1
  <2> QED BY <2>2, <2>3
<1>4. TimerTyped'
  <2>1. counter' \in [Timers -> Register]
        BY <1>2, <1>3
  <2> QED BY <2>1 DEF TimerInv, TimerTyped, ReadBack, Goes
<1>5. timer' = timer /\ freq' = freq
      BY DEF ReadBack, timer, freq
<1>6. TimerInv'
      BY <1>1, <1>3, <1>4, <1>5 DEF TimerInv, ReadBack, Goes, Valid
<1>7. OnlyTheRate
      BY <1>3 DEF OnlyTheRate, Divisor
<1> QED BY <1>6, <1>7

LEMMA ReadStatusStep ==
    ASSUME TimerInv, ReadStatus
    PROVE  TimerInv' /\ OnlyTheRate
<1>1. timer \in Timers /\ counter[timer] \in Register
      BY TimerBy DEF ReadStatus, Goes
<1>2. counter' = [counter EXCEPT ![timer] = [counter[timer] EXCEPT !.latched = NoStatus]]
      BY DEF ReadStatus
<1>3. counter \in [Timers -> Register]
      BY DEF TimerInv, TimerTyped
<1>4. ASSUME NEW t \in Timers
      PROVE  /\ counter'[t] \in Register
             /\ counter'[t].config = counter[t].config
             /\ counter'[t].lsb = counter[t].lsb /\ counter'[t].msb = counter[t].msb
             /\ counter'[t].latched = IF t = timer THEN NoStatus ELSE counter[t].latched
      BY <1>1, <1>2, <1>3 DEF Register
<1>5. currentConfig' \in Byte /\ currentConfig' % 16 = counter[timer].config
      BY <1>1 DEF TimerInv, ReadStatus, Goes, Register
<1>6. TimerTyped'
  <2>1. counter' \in [Timers -> Register]
        BY <1>2, <1>3, <1>4
  <2> QED BY <1>5, <2>1 DEF TimerInv, TimerTyped, ReadStatus, Goes
<1>7. timer' = timer /\ freq' = freq
      BY DEF ReadStatus, timer, freq
<1>8. TimerInv'
      BY <1>1, <1>4, <1>5, <1>6, <1>7 DEF TimerInv, ReadStatus, Goes, Valid
<1>9. OnlyTheRate
      BY <1>4 DEF OnlyTheRate, Divisor
<1> QED BY <1>8, <1>9

LEMMA WriteControlStep ==
    ASSUME TimerInv, WriteControl
    PROVE  TimerInv' /\ OnlyTheRate
<1>1. timer \in Timers /\ counter[timer] \in Register
      BY TimerBy DEF WriteControl, Goes
<1>2. currentConfig \in Byte /\ currentConfig % 16 = counter[timer].config
      BY DEF TimerInv, TimerTyped, WriteControl, Goes
<1>3. counter' = [counter EXCEPT ![timer] =
                     [counter[timer] EXCEPT !.config = counter[timer].config, !.access = 3,
                                            !.half = FALSE]]
      BY <1>1, <1>2, ControlWordRead DEF WriteControl, OutControl
<1>4. counter \in [Timers -> Register]
      BY DEF TimerInv, TimerTyped
<1>5. ASSUME NEW t \in Timers
      PROVE  /\ counter'[t] \in Register
             /\ counter'[t].config = counter[t].config
             /\ counter'[t].lsb = counter[t].lsb /\ counter'[t].msb = counter[t].msb
             /\ counter'[t].latched = counter[t].latched
             /\ t = timer => ~counter'[t].half
      BY <1>1, <1>3, <1>4 DEF Register
<1>6. TimerTyped'
  <2>1. counter' \in [Timers -> Register]
        BY <1>3, <1>4, <1>5
  <2> QED BY <2>1 DEF TimerInv, TimerTyped, WriteControl, Goes
<1>7. timer' = timer /\ freq' = freq
      BY DEF WriteControl, timer, freq
<1>8. TimerInv'
      BY <1>1, <1>5, <1>6, <1>7 DEF TimerInv, WriteControl, Goes, Valid
<1>9. OnlyTheRate
      BY <1>5 DEF OnlyTheRate, Divisor
<1> QED BY <1>8, <1>9

LEMMA WriteLSBStep ==
    ASSUME TimerInv, WriteLSB
    PROVE  TimerInv' /\ OnlyTheRate
<1>1. timer \in Timers /\ counter[timer] \in Register /\ ~counter[timer].half
      BY TimerBy DEF TimerInv, WriteLSB, Goes
<1> DEFINE lsb == util_get_LSB(initialValue)
<1>2. lsb \in Byte
      BY InitialValue DEF WriteLSB, Goes
<1>3. counter' = [counter EXCEPT ![timer] = [counter[timer] EXCEPT !.lsb = lsb, !.half = TRUE]]
      BY <1>1, <1>2, TakenBytes DEF WriteLSB, OutCounter
<1>4. counter \in [Timers -> Register]
      BY DEF TimerInv, TimerTyped
<1> HIDE DEF lsb
<1>5. ASSUME NEW t \in Timers
      PROVE  /\ counter'[t] \in Register
             /\ counter'[t].config = counter[t].config
             /\ counter'[t].latched = counter[t].latched
             /\ t = timer => counter'[t].half /\ counter'[t].lsb = lsb
             /\ t # timer => counter'[t] = counter[t]
      BY <1>1, <1>2, <1>3, <1>4 DEF Register
<1>6. TimerTyped'
  <2>1. counter' \in [Timers -> Register]
        BY <1>3, <1>4, <1>5
  <2> QED BY <2>1 DEF TimerInv, TimerTyped, WriteLSB, Goes
<1>7. timer' = timer /\ freq' = freq /\ util_get_LSB(initialValue)' = lsb
      BY DEF WriteLSB, timer, freq, util_get_LSB, initialValue, lsb
<1>8. TimerInv'
      BY <1>1, <1>5, <1>6, <1>7 DEF TimerInv, WriteLSB, Goes, Valid
<1>9. OnlyTheRate
      BY <1>5 DEF OnlyTheRate, Divisor
<1> QED BY <1>8, <1>9

\* Behind the last byte the divisor is the one asked for.
LEMMA WriteMSBStep ==
    ASSUME TimerInv, WriteMSB
    PROVE  TimerInv' /\ OnlyTheRate /\ Set'
<1> DEFINE lsb == util_get_LSB(initialValue)
           msb == util_get_MSB(initialValue)
<1>1. /\ timer \in Timers /\ counter[timer] \in Register
      /\ counter[timer].half /\ counter[timer].lsb = lsb
      BY TimerBy DEF TimerInv, WriteMSB, Goes
<1>2. msb \in Byte /\ 256 * msb + lsb = Clock \div freq
      BY InitialValue DEF WriteMSB, Goes
<1>3. counter' = [counter EXCEPT ![timer] = [counter[timer] EXCEPT !.msb = msb, !.half = FALSE]]
      BY <1>1, <1>2, TakenBytes DEF WriteMSB, OutCounter
<1>4. counter \in [Timers -> Register]
      BY DEF TimerInv, TimerTyped
<1> HIDE DEF lsb, msb
<1>5. ASSUME NEW t \in Timers
      PROVE  /\ counter'[t] \in Register
             /\ counter'[t].config = counter[t].config
             /\ counter'[t].latched = counter[t].latched
             /\ t = timer => /\ ~counter'[t].half /\ counter'[t].access = 3
                             /\ counter'[t].lsb = lsb /\ counter'[t].msb = msb
             /\ t # timer => counter'[t] = counter[t]
      BY <1>1, <1>2, <1>3, <1>4 DEF Register
<1>6. TimerTyped'
  <2>1. counter' \in [Timers -> Register]
        BY <1>3, <1>4, <1>5
  <2> QED BY <2>1 DEF TimerInv, TimerTyped, WriteMSB, Goes, Byte
<1>7. timer' = timer /\ freq' = freq
      BY DEF WriteMSB, timer, freq
<1>8. TimerInv'
      BY <1>1, <1>5, <1>6, <1>7 DEF TimerInv, WriteMSB, Goes, Valid
<1>9. OnlyTheRate
      BY <1>5 DEF OnlyTheRate, Divisor
<1>10. Set'
      BY <1>1, <1>2, <1>5, <1>7 DEF Set, Divisor
<1> QED BY <1>8, <1>9, <1>10

LEMMA PortFailsStep ==
    ASSUME TimerInv, PortFails
    PROVE  TimerInv' /\ OnlyTheRate
<1>1. timer' = timer /\ counter' = counter /\ currentConfig' = 0 /\ port' = "none"
      BY DEF PortFails, timer
<1>2. 0 \in Byte
      BY DEF Byte
<1>3. TimerTyped'
      BY <1>1, <1>2 DEF TimerInv, TimerTyped, PortFails
<1>4. OnlyTheRate
      BY <1>1 DEF OnlyTheRate, Divisor
<1> QED BY <1>1, <1>3, <1>4 DEF TimerInv

-----------------------------------------------------------------------------
(* The script of the program.                                              *)

LEMMA ScriptIs ==
    /\ Ended = 21
    /\ Script[1] = mouse_subscribe_int /\ Script[2] = kbd_subscribe_int
    /\ Script[3] = enable_reporting /\ Script[4] = setFrameBuffer
    /\ Script[5] = setGraphicsMode /\ Script[6] = timer_set_frequency
    /\ Script[7] = timer_subscribe_int /\ Script[8] = set_update
    /\ Script[9] = subscribe_rtc /\ Script[10] = sp_enable_int
    /\ Script[11] = sp_subscribe_int /\ Script[12] = main_loop
    /\ Script[13] = kbd_unsubscribe_int /\ Script[14] = disable_reporting
    /\ Script[15] = mouse_unsubscribe_int /\ Script[16] = timer_unsubscribe_int
    /\ Script[17] = unsubscribe_rtc /\ Script[18] = clean_update
    /\ Script[19] = sp_unsubscribe /\ Script[20] = vg_exit_to_text
BY DEF Script, Ended, Startup, Shutdown

Ops == {mouse_subscribe_int, kbd_subscribe_int, setFrameBuffer, setGraphicsMode,
        timer_subscribe_int, set_update, subscribe_rtc, sp_enable_int, sp_subscribe_int,
        kbd_unsubscribe_int, mouse_unsubscribe_int, timer_unsubscribe_int,
        unsubscribe_rtc, clean_update, sp_unsubscribe, vg_exit_to_text}

LEMMA NamesDiffer ==
    /\ \A op \in Ops : op # timer_set_frequency /\ op # main_loop
                       /\ op # enable_reporting /\ op # disable_reporting
    /\ timer_set_frequency # main_loop
    /\ \A op \in Commands : op # timer_set_frequency /\ op # main_loop
<1>1. /\ timer_set_frequency.name = "timer_set_frequency" /\ main_loop.name = "loop"
      /\ enable_reporting.name = "mouse_send_command 0xF4"
      /\ disable_reporting.name = "mouse_send_command 0xF5"
      BY DEF Op, timer_set_frequency, main_loop, enable_reporting, disable_reporting
<1>2. /\ mouse_subscribe_int.name = "mouse_subscribe_int"
      /\ kbd_subscribe_int.name = "kbd_subscribe_int"
      /\ setFrameBuffer.name = "setFrameBuffer"
      /\ setGraphicsMode.name = "setGraphicsMode"
      /\ timer_subscribe_int.name = "timer_subscribe_int"
      /\ set_update.name = "set_update"
      /\ subscribe_rtc.name = "subscribe_rtc"
      /\ sp_enable_int.name = "sp_enable_int"
      /\ sp_subscribe_int.name = "sp_subscribe_int"
      /\ kbd_unsubscribe_int.name = "kbd_unsubscribe_int"
      /\ mouse_unsubscribe_int.name = "mouse_unsubscribe_int"
      /\ timer_unsubscribe_int.name = "timer_unsubscribe_int"
      /\ unsubscribe_rtc.name = "unsubscribe_rtc"
      /\ clean_update.name = "clean_update"
      /\ sp_unsubscribe.name = "sp_unsubscribe"
      /\ vg_exit_to_text.name = "vg_exit_to_text"
      BY DEF Op, mouse_subscribe_int, kbd_subscribe_int, setFrameBuffer, setGraphicsMode,
         timer_subscribe_int, set_update, subscribe_rtc, sp_enable_int,
         sp_subscribe_int, kbd_unsubscribe_int, mouse_unsubscribe_int,
         timer_unsubscribe_int, unsubscribe_rtc, clean_update, sp_unsubscribe,
         vg_exit_to_text
<1>3. \A op \in Ops : op # timer_set_frequency /\ op # main_loop
                      /\ op # enable_reporting /\ op # disable_reporting
      BY <1>1, <1>2 DEF Ops
<1>4. \A op \in Commands : op # timer_set_frequency /\ op # main_loop
      BY <1>1 DEF Commands
<1>5. timer_set_frequency # main_loop
      BY <1>1
<1> QED BY <1>3, <1>4, <1>5

\* Where the program stands is told by its next call.
LEMMA Places ==
    ASSUME NEW i \in 1 .. 21, i # Ended
    PROVE  /\ Script[i] = timer_set_frequency <=> i = 6
           /\ Script[i] = main_loop <=> i = 12
           /\ Script[i] \in Commands <=> i = 3 \/ i = 14
<1>1. i \in 1 .. 20
      BY ScriptIs
<1>2. i \in {6, 12, 3, 14} \/ Script[i] \in Ops
      BY <1>1, ScriptIs DEF Ops
<1>3. CASE i = 6
      BY <1>3, ScriptIs, NamesDiffer DEF Commands
<1>4. CASE i = 12
      BY <1>4, ScriptIs, NamesDiffer DEF Commands
<1>5. CASE i = 3 \/ i = 14
      BY <1>5, ScriptIs, NamesDiffer DEF Commands
<1>6. CASE i \notin {6, 12, 3, 14}
      BY <1>1, <1>2, <1>6, NamesDiffer DEF Commands
<1> QED BY <1>3, <1>4, <1>5, <1>6

\* What the calls behind the loop take away, in their order.
Undone == <<"kbd irq", "reporting", "mouse irq", "timer irq", "rtc irq",
            "rtc updates", "serial irq", "graphics">>

LEMMA Undoing ==
    \A i \in 1 .. 8 : Script[12 + i].gains = {} /\ Script[12 + i].drops = {Undone[i]}
<1>1. /\ kbd_unsubscribe_int.gains = {} /\ kbd_unsubscribe_int.drops = {"kbd irq"}
      /\ disable_reporting.gains = {} /\ disable_reporting.drops = {"reporting"}
      /\ mouse_unsubscribe_int.gains = {} /\ mouse_unsubscribe_int.drops = {"mouse irq"}
      /\ timer_unsubscribe_int.gains = {} /\ timer_unsubscribe_int.drops = {"timer irq"}
      /\ unsubscribe_rtc.gains = {} /\ unsubscribe_rtc.drops = {"rtc irq"}
      /\ clean_update.gains = {} /\ clean_update.drops = {"rtc updates"}
      /\ sp_unsubscribe.gains = {} /\ sp_unsubscribe.drops = {"serial irq"}
      /\ vg_exit_to_text.gains = {} /\ vg_exit_to_text.drops = {"graphics"}
      BY DEF Op, kbd_unsubscribe_int, disable_reporting, mouse_unsubscribe_int,
             timer_unsubscribe_int, unsubscribe_rtc, clean_update, sp_unsubscribe,
             vg_exit_to_text
<1>2. /\ Undone[1] = "kbd irq"
      /\ Undone[2] = "reporting"
      /\ Undone[3] = "mouse irq"
      /\ Undone[4] = "timer irq"
      /\ Undone[5] = "rtc irq"
      /\ Undone[6] = "rtc updates"
      /\ Undone[7] = "serial irq"
      /\ Undone[8] = "graphics"
      BY DEF Undone
<1>3. ASSUME NEW i \in 1 .. 8
      PROVE  Script[12 + i].gains = {} /\ Script[12 + i].drops = {Undone[i]}
  <2>1. CASE i = 1
    <3>1. 12 + i = 13
          BY <2>1
    <3> QED BY <1>1, <1>2, <2>1, <3>1, ScriptIs
  <2>2. CASE i = 2
    <3>1. 12 + i = 14
          BY <2>2
    <3> QED BY <1>1, <1>2, <2>2, <3>1, ScriptIs
  <2>3. CASE i = 3
    <3>1. 12 + i = 15
          BY <2>3
    <3> QED BY <1>1, <1>2, <2>3, <3>1, ScriptIs
  <2>4. CASE i = 4
    <3>1. 12 + i = 16
          BY <2>4
    <3> QED BY <1>1, <1>2, <2>4, <3>1, ScriptIs
  <2>5. CASE i = 5
    <3>1. 12 + i = 17
          BY <2>5
    <3> QED BY <1>1, <1>2, <2>5, <3>1, ScriptIs
  <2>6. CASE i = 6
    <3>1. 12 + i = 18
          BY <2>6
    <3> QED BY <1>1, <1>2, <2>6, <3>1, ScriptIs
  <2>7. CASE i = 7
    <3>1. 12 + i = 19
          BY <2>7
    <3> QED BY <1>1, <1>2, <2>7, <3>1, ScriptIs
  <2>8. CASE i = 8
    <3>1. 12 + i = 20
          BY <2>8
    <3> QED BY <1>1, <1>2, <2>8, <3>1, ScriptIs
  <2> QED BY <2>1, <2>2, <2>3, <2>4, <2>5, <2>6, <2>7, <2>8
<1> QED BY <1>3

-----------------------------------------------------------------------------
(* The invariant of the session.                                           *)

Bytes1 == {<<>>, <<"ACK">>, <<"NACK">>, <<"other">>}

SType ==
    /\ pc \in 1 .. 21
    /\ result \in {"none", "zero", "error"} /\ (pc # 21 => result = "none")
    /\ written \in BOOLEAN /\ attempts \in Nat /\ keys \in Nat /\ keys <= MaxKeys
    /\ faulty \in BOOLEAN
    /\ output \in Bytes1 /\ mouse \in Bytes1
    /\ attempts > 0 => pc = 3 \/ pc = 14
    /\ written => attempts > 0
    /\ port # "none" => pc = 6

\* From the call that sets the frequency to a good end the timer stays set.
TickInv == pc \in 7 .. 20 \/ result = "zero" => Set

\* Each call behind the loop takes away what it is there for.
Clean ==
    ~faulty /\ result # "error" =>
        /\ \A i \in 1 .. 8 : pc > 12 + i => Undone[i] \notin set
        /\ pc = 14 /\ written => Undone[2] \notin set

\* A mouse that understood the command answers it with an acknowledgement,
\* and there is a key or the one stale byte for each answer that was another.
Reads == IF written THEN attempts - 1 ELSE attempts
Stale == IF output \in {<<>>, <<"ACK">>} THEN 0 ELSE 1

Patience ==
    /\ ~faulty =>
        /\ attempts > 0 => mouse = <<"ACK">> \/ output = <<"ACK">>
        /\ Reads + Stale <= keys + 1
    /\ result = "error" => faulty

SInv == SType /\ TickInv /\ Clean /\ Patience

LEMMA BytesDiffer ==
    /\ <<>> # <<"ACK">> /\ <<>> # <<"NACK">> /\ <<>> # <<"other">>
    /\ <<"ACK">> # <<"NACK">> /\ <<"ACK">> # <<"other">>
OBVIOUS

LEMMA PlaceOf ==
    ASSUME SType, pc # Ended
    PROVE  /\ pc \in 1 .. 20
           /\ Call = timer_set_frequency <=> pc = 6
           /\ Call = main_loop <=> pc = 12
           /\ Call \in Commands <=> pc = 3 \/ pc = 14
BY Places, ScriptIs DEF SType, Call

LEMMA TimerStays ==
    ASSUME UNCHANGED tvars
    PROVE  /\ TimerInv => TimerInv'
           /\ Set => Set'
           /\ OnlyTheRate
           /\ port' = port
<1>1. counter' = counter /\ port' = port /\ request' = request /\ currentConfig' = currentConfig
      BY DEF tvars
<1>2. /\ timer' = timer /\ freq' = freq
      /\ util_get_LSB(initialValue)' = util_get_LSB(initialValue)
      /\ Valid(timer, freq)' = Valid(timer, freq)
      BY <1>1 DEF timer, freq, util_get_LSB, initialValue, Valid
<1>3. TimerInv => TimerInv'
      BY <1>1, <1>2 DEF TimerInv, TimerTyped
<1>4. (Set => Set') /\ OnlyTheRate
      BY <1>1, <1>2 DEF Set, OnlyTheRate, Divisor
<1> QED BY <1>1, <1>3, <1>4

\* What a call that goes well takes away is gone from then on.
LEMMA GoneOn ==
    ASSUME Clean, pc \in 1 .. 20, ~faulty, result = "none",
           pc' = pc + 1,
           set' = (set \cup Call.gains) \ Call.drops
    PROVE  \A i \in 1 .. 8 : pc' > 12 + i => Undone[i] \notin set'
<1> SUFFICES ASSUME NEW i \in 1 .. 8, pc' > 12 + i
             PROVE  Undone[i] \notin set'
    OBVIOUS
<1>1. PICK j \in 1 .. 8 : pc = 12 + j
  <2>1. pc - 12 \in 1 .. 8
        OBVIOUS
  <2> QED BY <2>1
<1>2. Call.gains = {} /\ Call.drops = {Undone[j]}
      BY <1>1, Undoing DEF Call
<1>3. CASE i = j
      BY <1>2, <1>3
<1>4. CASE i # j
  <2>1. pc > 12 + i
        BY <1>1, <1>4
  <2>2. Undone[i] \notin set
        BY <2>1 DEF Clean
  <2> QED BY <1>2, <2>2
<1> QED BY <1>3, <1>4

LEMMA SessionStart == ASSUME Init PROVE SInv
<1>1. SType
  <2>1. 1 \in 1 .. 21 /\ 0 \in Nat /\ 0 <= MaxKeys
        BY PatienceFits
  <2>2. port = "none" /\ pc = 1 /\ result = "none" /\ output = <<>> /\ mouse = <<>>
        BY DEF Init, TimerInit
  <2>3. written = FALSE /\ attempts = 0 /\ keys = 0 /\ faulty = FALSE
        BY DEF Init
  <2>4. written \in BOOLEAN /\ faulty \in BOOLEAN
        BY <2>3
  <2>5. output \in Bytes1 /\ mouse \in Bytes1
        BY <2>2 DEF Bytes1
  <2> QED BY <2>1, <2>2, <2>3, <2>4, <2>5 DEF SType
<1>2. TickInv /\ Clean /\ Patience
      BY PatienceFits DEF Init, TickInv, Clean, Patience, Reads, Stale
<1> QED BY <1>1, <1>2 DEF SInv

-----------------------------------------------------------------------------
(* The devices.                                                            *)

LEMMA MouseMovedStep ==
    ASSUME SInv, MouseMoved, UNCHANGED tvars PROVE SInv'
<1>1. SType'
      BY TimerStays DEF SInv, SType, MouseMoved, command, Bytes1
<1>2. TickInv' /\ Clean'
      BY TimerStays DEF SInv, TickInv, Clean, MouseMoved, command
<1>3. Patience'
      BY BytesDiffer DEF SInv, SType, Patience, Reads, Stale, MouseMoved, command
<1> QED BY <1>1, <1>2, <1>3 DEF SInv

LEMMA KeyPressedStep ==
    ASSUME SInv, KeyPressed, UNCHANGED tvars PROVE SInv'
<1>1. SType'
      BY TimerStays, PatienceFits DEF SInv, SType, KeyPressed, Bytes1
<1>2. TickInv' /\ Clean'
      BY TimerStays DEF SInv, TickInv, Clean, KeyPressed
<1>3. Patience'
      BY BytesDiffer DEF SInv, SType, Patience, Reads, Stale, KeyPressed
<1> QED BY <1>1, <1>2, <1>3 DEF SInv

LEMMA MouseByteComesStep ==
    ASSUME SInv, MouseByteComes, UNCHANGED tvars PROVE SInv'
<1>1. SType'
      BY TimerStays DEF SInv, SType, MouseByteComes, command, Bytes1
<1>2. TickInv' /\ Clean'
      BY TimerStays DEF SInv, TickInv, Clean, MouseByteComes, command
<1>3. Patience'
  <2>1. CASE attempts > 0
        BY <2>1, BytesDiffer
        DEF SInv, SType, Patience, Reads, Stale, MouseByteComes, command
  <2>2. CASE attempts = 0
        BY <2>2 DEF SInv, SType, Patience, Reads, Stale, MouseByteComes, command
  <2> QED BY <2>1, <2>2 DEF SInv, SType
<1> QED BY <1>1, <1>2, <1>3 DEF SInv

-----------------------------------------------------------------------------
(* The program.                                                            *)

\* A call that fails outside mouse_send_command, or before it has written.
LEMMA FailStep ==
    ASSUME SInv, Fail, pc # Ended, port' = "none", UNCHANGED kbc,
           written' = FALSE, attempts' = 0, keys' = keys \/ keys' = 0
    PROVE  SInv'
<1>1. pc' = 21 /\ result' = "error" /\ faulty' = TRUE
      BY ScriptIs DEF Fail
<1>2. SType'
  <2>1. written' \in BOOLEAN /\ faulty' \in BOOLEAN /\ (written' => FALSE)
        BY <1>1
  <2>2. output' \in Bytes1 /\ mouse' \in Bytes1
        BY DEF SInv, SType, kbc
  <2>3. keys' \in Nat /\ keys' <= MaxKeys
        BY PatienceFits DEF SInv, SType
  <2> QED BY <1>1, <2>1, <2>2, <2>3 DEF SType
<1>3. TickInv' /\ Clean' /\ Patience'
      BY <1>1 DEF TickInv, Clean, Patience
<1> QED BY <1>2, <1>3 DEF SInv

\* The next place of the program, after a call that was not the first step
\* of a mouse_send_command.
LEMMA GoOnTo ==
    ASSUME SType, pc # Ended, GoOn
    PROVE  /\ pc \in 1 .. 20 /\ pc' = pc + 1 /\ pc' \in 2 .. 21
           /\ result' \in {"none", "zero"} /\ (pc' # 21 => result' = "none")
           /\ result = "none"
BY ScriptIs DEF SType, GoOn

LEMMA DoneStep ==
    ASSUME SInv, Done, UNCHANGED tvars PROVE SInv'
<1>1. pc # Ended /\ GoOn /\ SType
      BY DEF Done, SInv
<1>2. pc # 6 /\ pc # 3 /\ pc # 14 /\ attempts = 0 /\ written = FALSE
      BY <1>1, PlaceOf DEF Done, SType
<1>3. SType'
      BY <1>1, <1>2, GoOnTo, TimerStays DEF SType, Done, command, kbc
<1>4. TickInv'
      BY <1>1, <1>2, GoOnTo, TimerStays DEF SInv, TickInv
<1>5. Clean'
      BY <1>1, <1>2, GoOnTo, GoneOn DEF SInv, Clean, Done, command
<1>6. Patience'
      BY <1>1, GoOnTo DEF SInv, Patience, Reads, Stale, Done, command, kbc
<1> QED BY <1>3, <1>4, <1>5, <1>6 DEF SInv

LEMMA FailedStep ==
    ASSUME SInv, Failed, UNCHANGED tvars PROVE SInv'
<1>1. pc # Ended /\ SType
      BY DEF Failed, SInv
<1>2. pc # 6 /\ attempts = 0 /\ written = FALSE
      BY <1>1, PlaceOf DEF Failed, SType
<1>3. port' = "none"
      BY <1>1, <1>2 DEF SType, tvars
<1> QED BY <1>1, <1>2, <1>3, FailStep DEF Failed, command

LEMMA FailedUnseenStep ==
    ASSUME SInv, FailedUnseen, UNCHANGED tvars PROVE SInv'
<1>1. pc # Ended /\ GoOn /\ SType /\ Call \in Unchecked
      BY DEF FailedUnseen, SInv
<1>2. Call \in Ops
      BY <1>1 DEF Unchecked, Ops
<1>3. pc # 6 /\ attempts = 0 /\ written = FALSE
      BY <1>1, <1>2, PlaceOf, NamesDiffer DEF Commands, SType
<1>4. SType'
      BY <1>1, <1>3, GoOnTo, TimerStays DEF SType, FailedUnseen, command, kbc
<1>5. TickInv'
      BY <1>1, <1>3, GoOnTo, TimerStays DEF SInv, TickInv
<1>6. Clean' /\ Patience'
      BY <1>1, GoOnTo DEF Clean, Patience, FailedUnseen
<1> QED BY <1>4, <1>5, <1>6 DEF SInv

LEMMA WriteCommandStep ==
    ASSUME SInv, WriteCommand, UNCHANGED tvars PROVE SInv'
<1>1. SType /\ (pc = 3 \/ pc = 14) /\ written = FALSE /\ pc' = pc /\ result = "none"
      BY PlaceOf, ScriptIs DEF SInv, SType, WriteCommand
<1>2. attempts' = attempts + 1 /\ written' = TRUE
      BY DEF WriteCommand, Counted
<1>3. SType'
  <2>1. written' \in BOOLEAN /\ faulty' \in BOOLEAN
        BY <1>1, <1>2 DEF SType, WriteCommand
  <2>2. output' \in Bytes1 /\ mouse' \in Bytes1
        BY <1>1 DEF SType, WriteCommand, Bytes1
  <2>3. result' = result /\ keys' = keys /\ port' = port /\ pc' \in 1 .. 21
        BY <1>1, TimerStays DEF SType, WriteCommand
  <2>4. attempts' \in Nat /\ attempts' > 0
        BY <1>1, <1>2 DEF SType
  <2> QED BY <1>1, <2>1, <2>2, <2>3, <2>4 DEF SType
<1>4. TickInv'
      BY <1>1, TimerStays DEF SInv, TickInv, WriteCommand
<1>5. ASSUME ~faulty'
      PROVE  /\ ~faulty /\ mouse' = <<"ACK">>
             /\ set' = (set \cup Call.gains) \ Call.drops
      BY <1>5 DEF WriteCommand
<1>6. Clean'
  <2>1. CASE pc = 3
        BY <1>1, <2>1 DEF Clean
  <2>2. CASE pc = 14 /\ ~faulty'
    <3>1. Call.gains = {} /\ Call.drops = {Undone[2]}
      <4>1. Script[12 + 2] = Call
            BY <2>2 DEF Call
      <4> QED BY <4>1, Undoing
    <3>2. Undone[1] \notin set
          BY <1>1, <1>5, <2>2 DEF SInv, Clean
    <3>3. Undone[1] \notin set' /\ Undone[2] \notin set'
          BY <1>5, <2>2, <3>1, <3>2
    <3>4. \A i \in 1 .. 8 : pc' > 12 + i => i = 1
          BY <1>1, <2>2
    <3> QED BY <3>3, <3>4 DEF Clean
  <2>3. CASE faulty'
        BY <2>3 DEF Clean
  <2> QED BY <1>1, <2>1, <2>2, <2>3
<1>7. Patience'
  <2>1. CASE ~faulty'
    <3>1. Reads' = Reads /\ Stale' = Stale /\ keys' = keys
          BY <1>1, <1>2 DEF Reads, Stale, WriteCommand, SType
    <3> QED BY <1>1, <1>5, <2>1, <3>1 DEF SInv, Patience, WriteCommand
  <2>2. CASE faulty'
        BY <2>2 DEF Patience
  <2> QED BY <2>1, <2>2
<1> QED BY <1>3, <1>4, <1>6, <1>7 DEF SInv

LEMMA CommandFailsStep ==
    ASSUME SInv, CommandFails, UNCHANGED tvars PROVE SInv'
<1>1. pc # Ended /\ SType /\ (pc = 3 \/ pc = 14)
      BY PlaceOf DEF SInv, SType, CommandFails
<1>2. port' = "none"
      BY <1>1 DEF SType, tvars
<1> QED BY <1>1, <1>2, FailStep DEF CommandFails

LEMMA ReadResponseStep ==
    ASSUME SInv, ReadResponse, UNCHANGED tvars PROVE SInv'
<1>1. /\ SType /\ (pc = 3 \/ pc = 14) /\ written = TRUE /\ attempts > 0
      /\ pc # Ended /\ result = "none" /\ output # <<>>
      BY ScriptIs DEF SInv, SType, ReadResponse
<1>2. output' = <<>> /\ written' = FALSE /\ set' = set /\ mouse' = mouse /\ faulty' = faulty
      BY DEF ReadResponse
<1>3. port' = "none" /\ (TickInv => (UNCHANGED <<pc, result>> => TickInv'))
      BY <1>1, TimerStays DEF SType, TickInv
<1>4. CASE output = <<"ACK">> /\ GoOn /\ attempts' = 0 /\ keys' = 0
  <2>1. SType'
    <3>1. written' \in BOOLEAN /\ faulty' \in BOOLEAN /\ (written' => FALSE)
          BY <1>1, <1>2 DEF SType
    <3>2. output' \in Bytes1 /\ mouse' \in Bytes1
          BY <1>1, <1>2 DEF SType, Bytes1
    <3>3. pc' \in 1 .. 21 /\ result' \in {"zero", "none"} /\ (pc' # 21 => result' = "none")
          BY <1>1, <1>4, GoOnTo
    <3> QED BY <1>3, <1>4, <3>1, <3>2, <3>3, PatienceFits DEF SType
  <2>2. TickInv'
        BY <1>1, <1>4, GoOnTo, TimerStays DEF SInv, TickInv
  <2>3. Clean'
    <3>1. CASE pc = 3
          BY <1>1, <1>4, <3>1, GoOnTo DEF Clean
    <3>2. CASE pc = 14 /\ ~faulty
      <4>1. Undone[1] \notin set /\ Undone[2] \notin set
            BY <1>1, <3>2 DEF SInv, Clean
      <4>2. \A i \in 1 .. 8 : pc' > 12 + i => i = 1 \/ i = 2
            BY <1>1, <1>4, <3>2, GoOnTo
      <4> QED BY <1>2, <4>1, <4>2 DEF Clean
    <3>3. CASE faulty
          BY <1>2, <3>3 DEF Clean
    <3> QED BY <1>1, <3>1, <3>2, <3>3
  <2>4. Patience'
        BY <1>1, <1>2, <1>4, GoOnTo DEF Patience, Reads, Stale
  <2> QED BY <2>1, <2>2, <2>3, <2>4 DEF SInv
<1>5. CASE output # <<"ACK">> /\ UNCHANGED <<pc, result, attempts, keys, faulty>>
  <2>1. SType'
        BY <1>1, <1>2, <1>3, <1>5 DEF SType, Bytes1
  <2>2. TickInv' /\ Clean'
        BY <1>1, <1>2, <1>3, <1>5 DEF SInv, Clean
  <2>3. Reads = attempts - 1 /\ Stale = 1 /\ Reads' = attempts /\ Stale' = 0
        BY <1>1, <1>2, <1>5 DEF Reads, Stale
  <2>4. Patience'
        BY <1>1, <1>2, <1>5, <2>3 DEF SInv, SType, Patience
  <2> QED BY <2>1, <2>2, <2>4 DEF SInv
<1>6. CASE /\ output # <<"ACK">> /\ ~TriesAgain /\ pc' = Ended /\ result' = "error"
           /\ attempts' = 0 /\ keys' = 0
  <2>1. SType'
    <3>1. written' \in BOOLEAN /\ faulty' \in BOOLEAN /\ (written' => FALSE)
          BY <1>1, <1>2 DEF SType
    <3>2. output' \in Bytes1 /\ mouse' \in Bytes1
          BY <1>1, <1>2 DEF SType, Bytes1
    <3>3. pc' = 21
          BY <1>6, ScriptIs
    <3> QED BY <1>3, <1>6, <3>1, <3>2, <3>3, PatienceFits DEF SType
  <2>2. TickInv' /\ Clean'
        BY <1>6, ScriptIs DEF TickInv, Clean
  <2>3. Reads = attempts - 1 /\ Stale = 1
        BY <1>1, <1>6 DEF Reads, Stale
  <2>4. faulty
    <3>1. SUFFICES ASSUME ~faulty PROVE FALSE
          BY <1>1 DEF SType
    <3>2. attempts <= keys + 1
          BY <1>1, <2>3, <3>1 DEF SInv, SType, Patience
    <3> QED BY <1>1, <1>6, <3>2, PatienceFits DEF SType, TriesAgain
  <2>5. Patience'
        BY <1>2, <2>4 DEF Patience
  <2> QED BY <2>1, <2>2, <2>5 DEF SInv
<1> QED BY <1>4, <1>5, <1>6 DEF ReadResponse

\* The call that programs the timer, whatever access it has come to.
LEMMA SetFrequencyStep ==
    ASSUME SInv, TimerInv, SetFrequency PROVE SInv' /\ TimerInv' /\ OnlyTheRate
<1>1. SType /\ pc = 6 /\ pc # Ended /\ attempts = 0 /\ written = FALSE /\ result = "none"
      BY PlaceOf, ScriptIs DEF SInv, SType, SetFrequency
<1>2. CASE Underway /\ UNCHANGED <<pc, result, set, faulty>>
  <2>1. TimerInv' /\ OnlyTheRate
        BY <1>2, AskedStep, ReadBackStep, ReadStatusStep, WriteControlStep, WriteLSBStep
        DEF Underway
  <2>2. SType'
        BY <1>1, <1>2 DEF SType, SetFrequency, command, kbc
  <2>3. TickInv' /\ Clean' /\ Patience'
        BY <1>1, <1>2
        DEF SInv, TickInv, Clean, Patience, Reads, Stale, SetFrequency, command, kbc
  <2> QED BY <2>1, <2>2, <2>3 DEF SInv
<1>3. CASE WriteMSB /\ set' = set \cup Call.gains /\ GoOn /\ UNCHANGED faulty
  <2>1. TimerInv' /\ OnlyTheRate /\ Set' /\ port' = "none"
        BY <1>3, WriteMSBStep DEF WriteMSB, Goes
  <2>2. SType'
        BY <1>1, <1>3, <2>1, GoOnTo DEF SType, SetFrequency, command, kbc
  <2>3. TickInv'
        BY <2>1 DEF TickInv
  <2>4. Clean' /\ Patience'
        BY <1>1, <1>3, GoOnTo
        DEF SInv, Clean, Patience, Reads, Stale, SetFrequency, command, kbc
  <2> QED BY <2>1, <2>2, <2>3, <2>4 DEF SInv
<1>4. CASE (Refused \/ PortFails) /\ Fail /\ UNCHANGED set
  <2>1. TimerInv' /\ OnlyTheRate /\ port' = "none"
        BY <1>4, PortFailsStep, TimerStays DEF Refused, PortFails, tvars
  <2>2. UNCHANGED <<command, kbc>>
        BY DEF SetFrequency
  <2>3. SInv'
        BY <1>1, <1>4, <2>1, <2>2, FailStep DEF command
  <2> QED BY <2>1, <2>3
<1> QED BY <1>2, <1>3, <1>4 DEF SetFrequency

LEMMA HandleStep ==
    ASSUME SInv, Handle, UNCHANGED tvars PROVE SInv'
<1>1. SType /\ pc = 12 /\ attempts = 0 /\ written = FALSE
      BY PlaceOf DEF SInv, SType, Handle, InLoop
<1>2. SType'
      BY <1>1, TimerStays, PatienceFits DEF SType, Handle, Bytes1
<1>3. TickInv' /\ Clean' /\ Patience'
      BY <1>1, TimerStays DEF SInv, TickInv, Clean, Patience, Reads, Stale, Handle
<1> QED BY <1>2, <1>3 DEF SInv

LEMMA LeaveStep ==
    ASSUME SInv, Leave, UNCHANGED tvars PROVE SInv'
<1>1. SType /\ pc = 12 /\ pc # Ended /\ GoOn /\ attempts = 0 /\ written = FALSE
      BY PlaceOf DEF SInv, SType, Leave, InLoop
<1>2. SType'
      BY <1>1, GoOnTo, TimerStays DEF SType, Leave, command, kbc
<1>3. TickInv' /\ Clean' /\ Patience'
      BY <1>1, GoOnTo, TimerStays
      DEF SInv, TickInv, Clean, Patience, Reads, Stale, Leave, command, kbc
<1> QED BY <1>2, <1>3 DEF SInv

LEMMA ReceiveFailedStep ==
    ASSUME SInv, ReceiveFailed, UNCHANGED tvars PROVE SInv'
<1>1. SType /\ pc = 12 /\ pc # Ended /\ attempts = 0 /\ written = FALSE
      BY PlaceOf DEF SInv, SType, ReceiveFailed, InLoop
<1>2. port' = "none"
      BY <1>1 DEF SType, tvars
<1> QED BY <1>1, <1>2, FailStep DEF ReceiveFailed, command

LEMMA RunAgainStep ==
    ASSUME SInv, RunAgain, UNCHANGED tvars PROVE SInv'
<1>1. SType /\ pc = 21 /\ attempts = 0 /\ written = FALSE /\ port = "none"
      BY ScriptIs DEF SInv, SType, RunAgain
<1>2. SType'
  <2>1. written' \in BOOLEAN /\ faulty' \in BOOLEAN /\ (written' => FALSE)
        BY <1>1 DEF RunAgain
  <2>2. output' \in Bytes1 /\ mouse' \in Bytes1
        BY <1>1 DEF SType, RunAgain, kbc
  <2>3. pc' = 1 /\ result' = "none" /\ keys' = 0 /\ attempts' = 0 /\ port' = "none"
        BY <1>1, TimerStays DEF RunAgain
  <2> QED BY <2>1, <2>2, <2>3, PatienceFits DEF SType
<1>3. TickInv' /\ Clean'
      BY DEF TickInv, Clean, RunAgain
<1>4. Patience'
      BY <1>1 DEF Patience, Reads, Stale, RunAgain, kbc
<1> QED BY <1>2, <1>3, <1>4 DEF SInv

-----------------------------------------------------------------------------
(* What the program sets up and never undoes.                              *)

\* All that a call can set up.
Marks == Left \cup {"kbd irq", "reporting", "mouse irq", "timer irq", "rtc irq",
                    "rtc updates", "serial irq", "graphics"}

\* The call that sets up what is never undone.
From(mark) ==
    IF mark = "mapping" THEN 4 ELSE IF mark = "timer rate" THEN 6 ELSE 10

LEMMA FromWhere ==
    ASSUME NEW mark \in Left
    PROVE  \/ mark = "mapping" /\ From(mark) = 4
           \/ mark = "timer rate" /\ From(mark) = 6
           \/ mark = "uart interrupt" /\ From(mark) = 10
<1>1. mark = "mapping" \/ mark = "timer rate" \/ mark = "uart interrupt"
      BY DEF Left
<1>2. mark = "mapping" => From(mark) = 4
      BY DEF From
<1>3. mark = "timer rate" => From(mark) = 6
      BY DEF From
<1>4. mark = "uart interrupt" => From(mark) = 10
      BY DEF From
<1> QED BY <1>1, <1>2, <1>3, <1>4

\* Nothing else is ever set up, and what is never undone is there from its
\* own call on.
Kept ==
    /\ set \subseteq Marks
    /\ ~faulty /\ result # "error" => \A mark \in Left : pc > From(mark) => mark \in set

LEMMA ScriptMarks ==
    ASSUME NEW i \in 1 .. 20
    PROVE  /\ Script[i].gains \subseteq Marks
           /\ \A mark \in Left : mark \notin Script[i].drops
<1>1. CASE i = 1
  <2>1. mouse_subscribe_int.gains = {"mouse irq"} /\ mouse_subscribe_int.drops = {}
        BY DEF Op, mouse_subscribe_int
  <2>2. Script[i] = mouse_subscribe_int
        BY <1>1, ScriptIs
  <2>3. "mouse irq" \in Marks
        BY DEF Marks, Left
  <2> QED BY <2>1, <2>2, <2>3
<1>2. CASE i = 2
  <2>1. kbd_subscribe_int.gains = {"kbd irq"} /\ kbd_subscribe_int.drops = {}
        BY DEF Op, kbd_subscribe_int
  <2>2. Script[i] = kbd_subscribe_int
        BY <1>2, ScriptIs
  <2>3. "kbd irq" \in Marks
        BY DEF Marks, Left
  <2> QED BY <2>1, <2>2, <2>3
<1>3. CASE i = 3
  <2>1. enable_reporting.gains = {"reporting"} /\ enable_reporting.drops = {}
        BY DEF Op, enable_reporting
  <2>2. Script[i] = enable_reporting
        BY <1>3, ScriptIs
  <2>3. "reporting" \in Marks
        BY DEF Marks, Left
  <2> QED BY <2>1, <2>2, <2>3
<1>4. CASE i = 4
  <2>1. setFrameBuffer.gains = {"mapping"} /\ setFrameBuffer.drops = {}
        BY DEF Op, setFrameBuffer
  <2>2. Script[i] = setFrameBuffer
        BY <1>4, ScriptIs
  <2>3. "mapping" \in Marks
        BY DEF Marks, Left
  <2> QED BY <2>1, <2>2, <2>3
<1>5. CASE i = 5
  <2>1. setGraphicsMode.gains = {"graphics"} /\ setGraphicsMode.drops = {}
        BY DEF Op, setGraphicsMode
  <2>2. Script[i] = setGraphicsMode
        BY <1>5, ScriptIs
  <2>3. "graphics" \in Marks
        BY DEF Marks, Left
  <2> QED BY <2>1, <2>2, <2>3
<1>6. CASE i = 6
  <2>1. timer_set_frequency.gains = {"timer rate"} /\ timer_set_frequency.drops = {}
        BY DEF Op, timer_set_frequency
  <2>2. Script[i] = timer_set_frequency
        BY <1>6, ScriptIs
  <2>3. "timer rate" \in Marks
        BY DEF Marks, Left
  <2> QED BY <2>1, <2>2, <2>3
<1>7. CASE i = 7
  <2>1. timer_subscribe_int.gains = {"timer irq"} /\ timer_subscribe_int.drops = {}
        BY DEF Op, timer_subscribe_int
  <2>2. Script[i] = timer_subscribe_int
        BY <1>7, ScriptIs
  <2>3. "timer irq" \in Marks
        BY DEF Marks, Left
  <2> QED BY <2>1, <2>2, <2>3
<1>8. CASE i = 8
  <2>1. set_update.gains = {"rtc updates"} /\ set_update.drops = {}
        BY DEF Op, set_update
  <2>2. Script[i] = set_update
        BY <1>8, ScriptIs
  <2>3. "rtc updates" \in Marks
        BY DEF Marks, Left
  <2> QED BY <2>1, <2>2, <2>3
<1>9. CASE i = 9
  <2>1. subscribe_rtc.gains = {"rtc irq"} /\ subscribe_rtc.drops = {}
        BY DEF Op, subscribe_rtc
  <2>2. Script[i] = subscribe_rtc
        BY <1>9, ScriptIs
  <2>3. "rtc irq" \in Marks
        BY DEF Marks, Left
  <2> QED BY <2>1, <2>2, <2>3
<1>10. CASE i = 10
  <2>1. sp_enable_int.gains = {"uart interrupt"} /\ sp_enable_int.drops = {}
        BY DEF Op, sp_enable_int
  <2>2. Script[i] = sp_enable_int
        BY <1>10, ScriptIs
  <2>3. "uart interrupt" \in Marks
        BY DEF Marks, Left
  <2> QED BY <2>1, <2>2, <2>3
<1>11. CASE i = 11
  <2>1. sp_subscribe_int.gains = {"serial irq"} /\ sp_subscribe_int.drops = {}
        BY DEF Op, sp_subscribe_int
  <2>2. Script[i] = sp_subscribe_int
        BY <1>11, ScriptIs
  <2>3. "serial irq" \in Marks
        BY DEF Marks, Left
  <2> QED BY <2>1, <2>2, <2>3
<1>12. CASE i = 12
  <2>1. main_loop.gains = {} /\ main_loop.drops = {}
        BY DEF Op, main_loop
  <2>2. Script[i] = main_loop
        BY <1>12, ScriptIs
  <2> QED BY <2>1, <2>2
<1>13. CASE i \in 13 .. 20
  <2>1. PICK j \in 1 .. 8 : i = 12 + j
    <3>1. i - 12 \in 1 .. 8 /\ i = 12 + (i - 12)
          BY <1>13
    <3> QED BY <3>1
  <2>2. Script[i].gains = {} /\ Script[i].drops = {Undone[j]}
        BY <2>1, Undoing
  <2>3. /\ Undone[1] \notin Left /\ Undone[2] \notin Left /\ Undone[3] \notin Left
        /\ Undone[4] \notin Left /\ Undone[5] \notin Left /\ Undone[6] \notin Left
        /\ Undone[7] \notin Left /\ Undone[8] \notin Left
        BY DEF Undone, Left
  <2>4. j = 1 \/ j = 2 \/ j = 3 \/ j = 4 \/ j = 5 \/ j = 6 \/ j = 7 \/ j = 8
        OBVIOUS
  <2>5. Undone[j] \notin Left
        BY <2>3, <2>4
  <2> QED BY <1>13, <2>2, <2>5
<1>14. i = 1 \/ i = 2 \/ i = 3 \/ i = 4 \/ i = 5 \/ i = 6 \/ i = 7 \/ i = 8 \/ i = 9
       \/ i = 10 \/ i = 11 \/ i = 12 \/ i \in 13 .. 20
      OBVIOUS
<1> QED BY <1>1, <1>2, <1>3, <1>4, <1>5, <1>6, <1>7, <1>8, <1>9, <1>10, <1>11, <1>12,
           <1>13, <1>14

LEMMA SetUp ==
    ASSUME NEW mark \in Left
    PROVE  mark \in Script[From(mark)].gains
<1>1. "mapping" \in setFrameBuffer.gains
      BY DEF Op, setFrameBuffer
<1>2. "timer rate" \in timer_set_frequency.gains
      BY DEF Op, timer_set_frequency
<1>3. "uart interrupt" \in sp_enable_int.gains
      BY DEF Op, sp_enable_int
<1>4. CASE mark = "mapping" /\ From(mark) = 4
      BY <1>1, <1>4, ScriptIs
<1>5. CASE mark = "timer rate" /\ From(mark) = 6
      BY <1>2, <1>5, ScriptIs
<1>6. CASE mark = "uart interrupt" /\ From(mark) = 10
      BY <1>3, <1>6, ScriptIs
<1> QED BY <1>4, <1>5, <1>6, FromWhere

\* A call that goes well.
LEMMA KeptOn ==
    ASSUME Kept, pc \in 1 .. 20, pc' = pc + 1, result # "error", faulty' = faulty,
           set' = (set \cup Call.gains) \ Call.drops
    PROVE  Kept'
<1>1. /\ Call.gains \subseteq Marks
      /\ \A mark \in Left : mark \notin Call.drops
      /\ \A mark \in Left : pc = From(mark) => mark \in Call.gains
      BY ScriptMarks, SetUp DEF Call
<1>2. set' \subseteq Marks
      BY <1>1 DEF Kept
<1>3. ASSUME NEW mark \in Left, ~faulty, pc' > From(mark)
      PROVE  mark \in set'
  <2>1. From(mark) = 4 \/ From(mark) = 6 \/ From(mark) = 10
        BY FromWhere
  <2>2. pc > From(mark) \/ pc = From(mark)
        BY <1>3, <2>1
  <2> QED BY <1>1, <1>3, <2>2 DEF Kept
<1> QED BY <1>2, <1>3 DEF Kept

\* A program that is where it was, or past a call that sets up nothing of this.
LEMMA KeptStill ==
    ASSUME Kept, pc \in 1 .. 21, result # "error", faulty' = faulty, set' \subseteq Marks,
           set \cap Left \subseteq set',
           pc' = pc \/ (pc' = pc + 1 /\ pc \in {3, 12, 14})
    PROVE  Kept'
<1>1. ASSUME NEW mark \in Left, ~faulty, pc' > From(mark)
      PROVE  mark \in set'
  <2>1. From(mark) = 4 \/ From(mark) = 6 \/ From(mark) = 10
        BY FromWhere
  <2>2. pc > From(mark)
        BY <1>1, <2>1
  <2> QED BY <1>1, <2>2 DEF Kept
<1> QED BY <1>1 DEF Kept

\* A fault on the way, or an end with an error.
LEMMA KeptNot ==
    ASSUME Kept, faulty' \/ result' = "error", set' = set \/ set' \subseteq Marks
    PROVE  Kept'
BY DEF Kept

LEMMA KeptStep ==
    ASSUME SInv, Kept, [Next]_vars PROVE Kept'
<1>1. SType
      BY DEF SInv
<1>2. CASE UNCHANGED <<pc, set, faulty, result>>
      BY <1>2 DEF Kept
<1>3. CASE pc # Ended /\ Fail /\ (UNCHANGED set \/ set' = set \cup Call.gains)
  <2>1. Call.gains \subseteq Marks
        BY <1>1, <1>3, PlaceOf, ScriptMarks DEF Call
  <2>2. set' = set \/ set' \subseteq Marks
        BY <1>3, <2>1 DEF Kept
  <2> QED BY <1>3, <2>2, KeptNot DEF Fail
<1>4. CASE Done
  <2>1. pc # Ended /\ GoOn /\ set' = (set \cup Call.gains) \ Call.drops /\ faulty' = faulty
        BY <1>4 DEF Done
  <2>2. pc \in 1 .. 20 /\ pc' = pc + 1 /\ result # "error"
        BY <1>1, <2>1, GoOnTo
  <2> QED BY <2>1, <2>2, KeptOn
<1>5. CASE FailedUnseen
      BY <1>5, KeptNot DEF FailedUnseen
<1>6. CASE WriteCommand
  <2>1. (pc = 3 \/ pc = 14) /\ pc' = pc /\ result' = result /\ result # "error"
        BY <1>1, <1>6, PlaceOf, ScriptIs DEF SType, WriteCommand
  <2>2. CASE set' = (set \cup Call.gains) \ Call.drops /\ UNCHANGED faulty
    <3>1. Call.gains \subseteq Marks /\ \A mark \in Left : mark \notin Call.drops
          BY <2>1, ScriptMarks DEF Call
    <3>2. set' \subseteq Marks /\ set \cap Left \subseteq set'
          BY <2>2, <3>1 DEF Kept
    <3> QED BY <1>1, <2>1, <2>2, <3>2, KeptStill DEF SType
  <2>3. CASE faulty' = TRUE /\ UNCHANGED set
        BY <2>3, KeptNot
  <2> QED BY <1>6, <2>2, <2>3 DEF WriteCommand
<1>7. CASE ReadResponse
  <2>1. set' = set /\ faulty' = faulty
        BY <1>7 DEF ReadResponse
  <2>2. (pc = 3 \/ pc = 14) /\ pc # Ended
        BY <1>7, ScriptIs DEF SInv, SType, ReadResponse
  <2>3. CASE GoOn
    <3>1. pc' = pc + 1 /\ result # "error"
          BY <1>1, <2>2, <2>3, GoOnTo
    <3>2. set' \subseteq Marks /\ set \cap Left \subseteq set'
          BY <2>1 DEF Kept
    <3> QED BY <1>1, <2>1, <2>2, <3>1, <3>2, KeptStill DEF SType
  <2>4. CASE UNCHANGED <<pc, result>>
        BY <2>1, <2>4, <1>2
  <2>5. CASE result' = "error"
        BY <2>1, <2>5, KeptNot
  <2> QED BY <1>7, <2>3, <2>4, <2>5 DEF ReadResponse
<1>8. CASE SetFrequency
  <2>1. pc = 6 /\ pc # Ended /\ Call = timer_set_frequency
        BY <1>1, <1>8, PlaceOf DEF SetFrequency
  <2>2. CASE UNCHANGED <<pc, result, set, faulty>>
        BY <2>2, <1>2
  <2>3. CASE set' = set \cup Call.gains /\ GoOn /\ UNCHANGED faulty
    <3>1. Call.drops = {}
          BY <2>1 DEF Op, timer_set_frequency
    <3>2. set' = (set \cup Call.gains) \ Call.drops
          BY <2>3, <3>1
    <3>3. pc \in 1 .. 20 /\ pc' = pc + 1 /\ result # "error"
          BY <1>1, <2>1, <2>3, GoOnTo
    <3> QED BY <2>3, <3>2, <3>3, KeptOn
  <2>4. CASE Fail /\ UNCHANGED set
        BY <2>1, <2>4, <1>3
  <2> QED BY <1>8, <2>2, <2>3, <2>4 DEF SetFrequency
<1>9. CASE Leave
  <2>1. pc = 12 /\ pc # Ended /\ GoOn /\ set' = set /\ faulty' = faulty
        BY <1>1, <1>9, PlaceOf DEF Leave, InLoop
  <2>2. pc' = pc + 1 /\ result # "error"
        BY <1>1, <2>1, GoOnTo
  <2>3. set' \subseteq Marks /\ set \cap Left \subseteq set'
        BY <2>1 DEF Kept
  <2> QED BY <1>1, <2>1, <2>2, <2>3, KeptStill DEF SType
<1>10. CASE RunAgain
  <2>1. ASSUME NEW mark \in Left PROVE ~(1 > From(mark))
    <3>1. From(mark) = 4 \/ From(mark) = 6 \/ From(mark) = 10
          BY FromWhere
    <3> QED BY <3>1
  <2>2. pc' = 1 /\ set' \subseteq set
        BY <1>10 DEF RunAgain
  <2> QED BY <2>1, <2>2 DEF Kept
<1>11. CASE Failed \/ CommandFails \/ ReceiveFailed
      BY <1>3, <1>11 DEF Failed, CommandFails, ReceiveFailed, InLoop
<1>12. CASE MouseMoved \/ KeyPressed \/ MouseByteComes \/ Handle \/ UNCHANGED vars
      BY <1>2, <1>12 DEF MouseMoved, KeyPressed, MouseByteComes, Handle, vars, pvars
<1> QED BY <1>4, <1>5, <1>6, <1>7, <1>8, <1>9, <1>10, <1>11, <1>12
        DEF Next, Program, Calls

-----------------------------------------------------------------------------
(* The theorems.                                                           *)

LEMMA SessionStep ==
    ASSUME SInv, TimerInv, [Next]_vars
    PROVE  SInv' /\ TimerInv' /\ OnlyTheRate
<1>1. CASE SetFrequency
      BY <1>1, SetFrequencyStep
<1>2. CASE UNCHANGED tvars /\ (Calls \/ MouseMoved \/ KeyPressed \/ MouseByteComes
                                \/ Handle \/ Leave \/ ReceiveFailed \/ RunAgain)
  <2>1. TimerInv' /\ OnlyTheRate
        BY <1>2, TimerStays
  <2>2. SInv'
        BY <1>2, DoneStep, FailedStep, FailedUnseenStep, WriteCommandStep,
           CommandFailsStep, ReadResponseStep, MouseMovedStep, KeyPressedStep,
           MouseByteComesStep, HandleStep, LeaveStep, ReceiveFailedStep, RunAgainStep
        DEF Calls
  <2> QED BY <2>1, <2>2
<1>3. CASE UNCHANGED vars
  <2>1. TimerInv' /\ OnlyTheRate
        BY <1>3, TimerStays DEF vars
  <2>2. SType' /\ TickInv' /\ Clean' /\ Patience'
        BY <1>3, TimerStays
        DEF SInv, SType, TickInv, Clean, Patience, Reads, Stale, vars, pvars, command, kbc
  <2> QED BY <2>1, <2>2 DEF SInv
<1> QED BY <1>1, <1>2, <1>3 DEF Next, Program

LEMMA SessionInvariant == Spec => [](SInv /\ TimerInv)
<1>1. Init => SInv /\ TimerInv
      BY SessionStart, TimerStart DEF Init
<1>2. SInv /\ TimerInv /\ [Next]_vars => (SInv /\ TimerInv)'
      BY SessionStep
<1> QED BY <1>1, <1>2, PTL DEF Spec

\* Whatever frequency proj_main_loop asks timer_set_frequency for, and
\* whatever port accesses of earlier runs failed: in the main loop the timer
\* divides its clock by the divisor that the frequency has.
THEOREM TicksAtTheRate == Spec => []TickIsRight
<1>1. SInv => TickIsRight
  <2>1. SUFFICES ASSUME SInv, InLoop PROVE Set
        BY DEF TickIsRight, Set
  <2>2. pc = 12
        BY <2>1, PlaceOf DEF InLoop, SInv
  <2> QED BY <2>1, <2>2 DEF SInv, TickInv
<1> QED BY <1>1, SessionInvariant, PTL

\* No access of timer_set_frequency and timer_get_conf changes the counting
\* mode of a counter, nor the divisor of another.
THEOREM KeepsTheModes == Spec => ModeIsKept
<1>1. SInv /\ TimerInv /\ [Next]_vars
          => [/\ \A t \in Timers : counter'[t].config = counter[t].config
              /\ \A t \in Timers : Divisor(t)' # Divisor(t) => t = timer]_vars
      BY SessionStep DEF OnlyTheRate
<1> QED BY <1>1, SessionInvariant, PTL DEF Spec, ModeIsKept

\* The calls behind the main loop of proj_main_loop undo what those before it
\* set up, whatever was left from an earlier run, but for what nothing undoes:
\* the mapping, the UART's interrupt and the timer's rate, which is still the
\* one that was asked for.
THEOREM RestoresAllButTwo == Spec => []EndRestoresAllButTwo
<1>1. Init => Kept
  <2>1. ASSUME NEW mark \in Left PROVE ~(1 > From(mark))
    <3>1. From(mark) = 4 \/ From(mark) = 6 \/ From(mark) = 10
          BY FromWhere
    <3> QED BY <3>1
  <2> QED BY <2>1 DEF Init, Kept
<1>2. SInv /\ Kept /\ [Next]_vars => Kept'
      BY KeptStep
<1>3. SInv /\ Kept => EndRestoresAllButTwo
  <2>1. SUFFICES ASSUME SInv, Kept, result = "zero", ~faulty
                 PROVE  set = Left /\ Divisor(timer) = Clock \div freq
        BY DEF EndRestoresAllButTwo
  <2>2. pc = 21
        BY <2>1 DEF SInv, SType
  <2>3. Left \subseteq set
    <3>1. ASSUME NEW mark \in Left PROVE 21 > From(mark)
      <4>1. From(mark) = 4 \/ From(mark) = 6 \/ From(mark) = 10
            BY FromWhere
      <4> QED BY <4>1
    <3> QED BY <2>1, <2>2, <3>1 DEF Kept
  <2>4. set \subseteq Left
    <3>1. /\ Undone[1] \notin set /\ Undone[2] \notin set /\ Undone[3] \notin set
          /\ Undone[4] \notin set /\ Undone[5] \notin set /\ Undone[6] \notin set
          /\ Undone[7] \notin set /\ Undone[8] \notin set
          BY <2>1, <2>2 DEF SInv, Clean
    <3>2. set \cap {"kbd irq", "reporting", "mouse irq", "timer irq", "rtc irq",
                    "rtc updates", "serial irq", "graphics"} = {}
          BY <3>1 DEF Undone
    <3> QED BY <2>1, <3>2 DEF Kept, Marks
  <2> QED BY <2>1, <2>3, <2>4 DEF SInv, TickInv, Set
<1> QED BY <1>1, <1>2, <1>3, SessionInvariant, PTL DEF Spec

\* The attempts of mouse_send_command are enough for one stale byte and every
\* key that is pressed meanwhile.
THEOREM HasPatience == Spec => []PatienceIsEnough
<1>1. SInv => PatienceIsEnough
      BY DEF SInv, Patience, PatienceIsEnough
<1> QED BY <1>1, SessionInvariant, PTL

-----------------------------------------------------------------------------
(* Why the program gets to its loop, and from there to its end.            *)

Free(buffer) == IF buffer = <<>> THEN 1 ELSE 0

Behind(access) ==
    CASE access = "read back" -> 4 [] access = "status" -> 3 [] access = "control" -> 2
      [] access = "LSB" -> 1 [] access = "MSB" -> 0 [] OTHER -> 5

PortsLeft == Behind(port)

\* What is left of the call that is next: the attempts of mouse_send_command
\* and their answers, what can still come into the two buffers meanwhile, and
\* the port accesses of timer_set_frequency.
LeftOfCall ==
    4 * (MaxAttempts - attempts) + (IF written THEN 3 ELSE 0)
        + 2 * Free(output) + Free(mouse) + PortsLeft

\* More than is ever left of one call.
CallCost == 4 * MaxAttempts + 12

StepsLeft == CallCost * (Ended - pc) + LeftOfCall

\* An attempt is begun only when one is left.
Tries == attempts <= MaxAttempts /\ (~written => attempts < MaxAttempts)

\* LeftOfCall counts within a call.
WithinCall == LeftOfCall \in Nat /\ LeftOfCall < CallCost

LEMMA TriesStep ==
    ASSUME SInv, Tries, [Next]_vars
    PROVE  Tries'
<1> USE DEF Tries
<1>1. attempts \in Nat /\ MaxAttempts \in Nat /\ MaxAttempts > 0
      BY PatienceFits DEF SInv, SType
<1>2. CASE WriteCommand
      BY <1>1, <1>2 DEF WriteCommand, Counted
<1>3. CASE ReadResponse \/ CommandFails
      BY <1>1, <1>3 DEF ReadResponse, CommandFails, TriesAgain
<1>4. CASE UNCHANGED <<written, attempts>>
      BY <1>4
<1>5. CASE Done \/ Failed \/ FailedUnseen \/ SetFrequency \/ Handle \/ Leave
           \/ ReceiveFailed \/ RunAgain \/ MouseMoved \/ KeyPressed \/ MouseByteComes
           \/ UNCHANGED vars
      BY <1>4, <1>5
      DEF Done, Failed, FailedUnseen, SetFrequency, Handle, Leave, ReceiveFailed,
          RunAgain, MouseMoved, KeyPressed, MouseByteComes, vars, pvars, command
<1> QED BY <1>2, <1>3, <1>5 DEF Next, Program, Calls

LEMMA LeftIsWithin ==
    ASSUME SInv, Tries PROVE WithinCall
<1>1. attempts \in Nat /\ attempts <= MaxAttempts /\ MaxAttempts \in Nat
      BY PatienceFits DEF SInv, SType, Tries
<1>2. Free(output) \in 0 .. 1 /\ Free(mouse) \in 0 .. 1 /\ PortsLeft \in 0 .. 5
      BY DEF Free, PortsLeft, Behind
<1>3. \A m, a \in Nat, w \in {0, 3}, o, b \in 0 .. 1, p \in 0 .. 5 : a <= m =>
         /\ 4 * (m - a) + w + 2 * o + b + p \in Nat
         /\ 4 * (m - a) + w + 2 * o + b + p < 4 * m + 12
      OBVIOUS
<1>4. (IF written THEN 3 ELSE 0) \in {0, 3}
      OBVIOUS
<1> QED BY <1>1, <1>2, <1>3, <1>4 DEF WithinCall, LeftOfCall, CallCost

\* A step that goes on to a later call leaves less to be done, whatever the
\* new call needs, and so does one that stays and does some of its own.
LEMMA Lexicographic ==
    ASSUME SType, WithinCall, WithinCall',
           pc' \in 1 .. 21,
           pc' > pc \/ (pc' = pc /\ LeftOfCall' < LeftOfCall)
    PROVE  StepsLeft' < StepsLeft
<1> DEFINE k == 21 - pc
           n == 21 - pc'
<1>0. pc \in 1 .. 21 /\ pc' \in 1 .. 21
      BY DEF SType
<1>1. k \in Nat /\ n \in Nat /\ CallCost \in Nat
  <2>1. \A i \in 1 .. 21 : 21 - i \in Nat
        OBVIOUS
  <2>2. CallCost \in Nat
        BY PatienceFits DEF CallCost
  <2> QED BY <1>0, <2>1, <2>2
<1>2. /\ LeftOfCall \in Nat /\ LeftOfCall' \in Nat /\ LeftOfCall' < CallCost
      BY DEF WithinCall, CallCost
<1>3. StepsLeft = CallCost * k + LeftOfCall /\ StepsLeft' = CallCost * n + LeftOfCall'
      BY ScriptIs DEF StepsLeft, CallCost, Ended
<1>4. CASE pc' = pc /\ LeftOfCall' < LeftOfCall
  <2>1. \A v, g, h \in Nat : g < h => v * k + g < v * k + h
        BY <1>1
  <2> QED BY <1>1, <1>2, <1>3, <1>4, <2>1
<1>5. CASE pc' > pc
  <2>1. n < k
    <3>1. \A i, j \in 1 .. 21 : j > i => 21 - j < 21 - i
          OBVIOUS
    <3> QED BY <1>0, <1>5, <3>1
  <2> HIDE DEF k, n
  <2>2. PICK d \in Nat : k = n + 1 + d
    <3>1. k - n - 1 \in Nat /\ k = n + 1 + (k - n - 1)
          BY <1>1, <2>1
    <3> QED BY <3>1
  <2>3. CallCost * k = CallCost * n + CallCost + CallCost * d
        BY <1>1, <2>2
  <2>4. CallCost * d \in Nat /\ CallCost * n \in Nat
        BY <1>1, <2>2
  <2>5. \A a, b, v, g, h \in Nat : g < v => a + g < a + v + b + h
        OBVIOUS
  <2> QED BY <1>1, <1>2, <1>3, <2>3, <2>4, <2>5
<1> QED BY <1>4, <1>5

\* How a step that stays in its call makes less of it.
LEMMA LeftShrinks ==
    ASSUME SInv, Tries, pc # Ended, ~InLoop, Next
    PROVE  pc' \in 1 .. 21 /\ (pc' > pc \/ (pc' = pc /\ LeftOfCall' < LeftOfCall))
<1> DEFINE w == IF written THEN 3 ELSE 0
<1>1. /\ SType /\ pc \in 1 .. 20 /\ Ended = 21
      /\ attempts \in Nat /\ MaxAttempts \in Nat /\ attempts <= MaxAttempts
      BY PlaceOf, ScriptIs, PatienceFits DEF SInv, SType, Tries
<1>2. Free(output) \in 0 .. 1 /\ Free(mouse) \in 0 .. 1 /\ PortsLeft \in 0 .. 5
      BY DEF Free, PortsLeft, Behind
<1>3. \A byte : Free(<<byte>>) = 0 /\ Free(<<>>) = 1
      BY DEF Free
<1>4. w \in {0, 3} /\ w' \in {0, 3}
      OBVIOUS
<1>5. CASE Done \/ FailedUnseen
      BY <1>1, <1>5 DEF Done, FailedUnseen, GoOn
<1>6. CASE Failed \/ CommandFails
      BY <1>1, <1>6 DEF Failed, CommandFails, Fail
<1>7. CASE SetFrequency
  <2>1. CASE (WriteMSB /\ GoOn) \/ Fail
        BY <1>1, <2>1 DEF GoOn, Fail
  <2>2. CASE Underway /\ UNCHANGED pc
    <3>1. PortsLeft' = PortsLeft - 1
      <4>1. /\ Behind("none") = 5 /\ Behind("read back") = 4 /\ Behind("status") = 3
            /\ Behind("control") = 2 /\ Behind("LSB") = 1 /\ Behind("MSB") = 0
            BY DEF Behind
      <4>2. CASE Asked
        <5>1. Behind(port) = 5 /\ Behind(port') = 4
              BY <4>1, <4>2 DEF Asked, Goes
        <5> QED BY <5>1 DEF PortsLeft
      <4>3. CASE ReadBack
        <5>1. Behind(port) = 4 /\ Behind(port') = 3
              BY <4>1, <4>3 DEF ReadBack, Goes
        <5> QED BY <5>1 DEF PortsLeft
      <4>4. CASE ReadStatus
        <5>1. Behind(port) = 3 /\ Behind(port') = 2
              BY <4>1, <4>4 DEF ReadStatus, Goes
        <5> QED BY <5>1 DEF PortsLeft
      <4>5. CASE WriteControl
        <5>1. Behind(port) = 2 /\ Behind(port') = 1
              BY <4>1, <4>5 DEF WriteControl, Goes
        <5> QED BY <5>1 DEF PortsLeft
      <4>6. CASE WriteLSB
        <5>1. Behind(port) = 1 /\ Behind(port') = 0
              BY <4>1, <4>6 DEF WriteLSB, Goes
        <5> QED BY <5>1 DEF PortsLeft
      <4> QED BY <2>2, <4>2, <4>3, <4>4, <4>5, <4>6 DEF Underway
    <3>2. attempts' = attempts /\ w' = w /\ output' = output /\ mouse' = mouse
          BY <1>7 DEF SetFrequency, command, kbc
    <3>3. LeftOfCall' = 4 * (MaxAttempts - attempts) + w + 2 * Free(output)
                           + Free(mouse) + (PortsLeft - 1)
          BY <3>1, <3>2 DEF LeftOfCall
    <3>4. \A m, a \in Nat, v \in {0, 3}, o, b \in 0 .. 1, p \in 0 .. 5 :
             4 * (m - a) + v + 2 * o + b + (p - 1) < 4 * (m - a) + v + 2 * o + b + p
          OBVIOUS
    <3> QED BY <1>1, <1>2, <1>4, <2>2, <3>3, <3>4 DEF LeftOfCall
  <2> QED BY <1>7, <2>1, <2>2 DEF SetFrequency
<1>8. CASE WriteCommand /\ UNCHANGED tvars
  <2>1. /\ pc' = pc /\ attempts' = attempts + 1 /\ w = 0 /\ w' = 3
        /\ output' = output /\ Free(mouse') = 0 /\ PortsLeft' = PortsLeft
        BY <1>3, <1>8 DEF WriteCommand, Counted, tvars, PortsLeft
  <2>2. LeftOfCall' = 4 * (MaxAttempts - (attempts + 1)) + 3 + 2 * Free(output) + 0 + PortsLeft
        BY <2>1 DEF LeftOfCall
  <2>3. \A m, a \in Nat, o, b \in 0 .. 1, p \in 0 .. 5 :
           4 * (m - (a + 1)) + 3 + 2 * o + 0 + p < 4 * (m - a) + 0 + 2 * o + b + p
        OBVIOUS
  <2> QED BY <1>1, <1>2, <2>1, <2>2, <2>3 DEF LeftOfCall
<1>9. CASE ReadResponse /\ UNCHANGED tvars
  <2>1. CASE GoOn \/ pc' = Ended
        BY <1>1, <2>1 DEF GoOn
  <2>2. CASE UNCHANGED <<pc, attempts>>
    <3>1. /\ pc' = pc /\ attempts' = attempts /\ w = 3 /\ w' = 0
          /\ Free(output) = 0 /\ Free(output') = 1 /\ mouse' = mouse
          /\ PortsLeft' = PortsLeft
          BY <1>9, <2>2 DEF ReadResponse, Free, tvars, PortsLeft
    <3>2. LeftOfCall' = 4 * (MaxAttempts - attempts) + 0 + 2 * 1 + Free(mouse) + PortsLeft
          BY <3>1 DEF LeftOfCall
    <3>3. \A m, a \in Nat, b \in 0 .. 1, p \in 0 .. 5 :
             4 * (m - a) + 0 + 2 * 1 + b + p < 4 * (m - a) + 3 + 2 * 0 + b + p
          OBVIOUS
    <3> QED BY <1>1, <1>2, <3>1, <3>2, <3>3 DEF LeftOfCall
  <2> QED BY <1>9, <2>1, <2>2 DEF ReadResponse
<1>10. CASE (MouseMoved \/ KeyPressed \/ MouseByteComes) /\ UNCHANGED tvars
  <2>1. pc' = pc /\ attempts' = attempts /\ w' = w /\ PortsLeft' = PortsLeft
        BY <1>10 DEF MouseMoved, KeyPressed, MouseByteComes, command, tvars, PortsLeft
  <2>2. /\ Free(output') \in 0 .. 1 /\ Free(mouse') \in 0 .. 1
        /\ 2 * Free(output') + Free(mouse') < 2 * Free(output) + Free(mouse)
    <3>1. CASE MouseMoved
          BY <3>1, <1>2, <1>3 DEF MouseMoved
    <3>2. CASE KeyPressed
          BY <3>2, <1>2, <1>3 DEF KeyPressed
    <3>3. CASE MouseByteComes
      <4>1. Free(output) = 1 /\ Free(mouse) = 0 /\ Free(output') = 0 /\ Free(mouse') = 1
            BY <3>3 DEF MouseByteComes, Free
      <4> QED BY <4>1
    <3> QED BY <1>10, <3>1, <3>2, <3>3
  <2>3. LeftOfCall' = 4 * (MaxAttempts - attempts) + w + 2 * Free(output')
                         + Free(mouse') + PortsLeft
        BY <2>1 DEF LeftOfCall
  <2>4. \A m, a \in Nat, v \in {0, 3}, o, b, q, c \in 0 .. 1, p \in 0 .. 5 :
           2 * q + c < 2 * o + b =>
             4 * (m - a) + v + 2 * q + c + p < 4 * (m - a) + v + 2 * o + b + p
        OBVIOUS
  <2> HIDE DEF w
  <2>5. LeftOfCall = 4 * (MaxAttempts - attempts) + w + 2 * Free(output)
                        + Free(mouse) + PortsLeft
        BY DEF LeftOfCall, w
  <2> QED BY <1>1, <1>2, <1>4, <2>1, <2>2, <2>3, <2>4, <2>5
<1>11. CASE Handle \/ Leave \/ ReceiveFailed \/ RunAgain
      BY <1>11 DEF Handle, Leave, ReceiveFailed, RunAgain
<1> QED BY <1>5, <1>6, <1>7, <1>8, <1>9, <1>10, <1>11 DEF Next, Program, Calls

\* The program gets to its loop, and behind it to its end: before and after
\* the loop every step, also those of a mouse that moves and of keys that are
\* pressed while mouse_send_command waits, leaves less of a natural number to
\* be done.  That its steps are taken is all that ComesToAnEnd still needs.
THEOREM CallsRunOut ==
    Spec => [](StepsLeft \in Nat) /\ [][pc # Ended /\ ~InLoop => StepsLeft' < StepsLeft]_vars
<1>1. Init => Tries
      BY PatienceFits DEF Init, Tries
<1>2. SInv /\ Tries /\ [Next]_vars => Tries'
      BY TriesStep
<1>3. SInv /\ Tries => WithinCall
      BY LeftIsWithin
<1>4. SInv /\ Tries /\ WithinCall /\ WithinCall' /\ [Next]_vars
          => [pc # Ended /\ ~InLoop => StepsLeft' < StepsLeft]_vars
      BY LeftShrinks, Lexicographic DEF SInv
<1>5. SInv /\ WithinCall => StepsLeft \in Nat
  <2>1. ASSUME SType, WithinCall PROVE StepsLeft \in Nat
    <3>1. /\ 21 - pc \in Nat /\ CallCost \in Nat /\ LeftOfCall \in Nat
          /\ StepsLeft = CallCost * (21 - pc) + LeftOfCall
          BY <2>1, PatienceFits, ScriptIs DEF SType, WithinCall, CallCost, StepsLeft
    <3>2. \A a, b, d \in Nat : a * b + d \in Nat
          OBVIOUS
    <3> QED BY <3>1, <3>2
  <2> QED BY <2>1 DEF SInv
<1> QED BY <1>1, <1>2, <1>3, <1>4, <1>5, SessionInvariant, PTL DEF Spec

=============================================================================
