-------------------------- MODULE GameClockProofs --------------------------
(***************************************************************************)
(* Proofs about the time a player is shown, for every second at which the  *)
(* program may start and every length of its run.                          *)
(***************************************************************************)
EXTENDS GameClock, TLAPS

-----------------------------------------------------------------------------
(* The registers.                                                          *)

\* What calculate_time makes of two times.
Elapsed(final, initial) ==
    (Decimal(final.hours) - Decimal(initial.hours)) * 3600
        + (Decimal(final.minutes) - Decimal(initial.minutes)) * 60
        + Decimal(final.seconds) - Decimal(initial.seconds)

\* "%x" and atoi undo the BCD of the RTC.
LEMMA DecimalOfBcd ==
    ASSUME NEW n \in 0 .. 99
    PROVE  Bcd(n) \in Nat /\ Decimal(Bcd(n)) = n
<1>1. /\ n \div 10 \in 0 .. 9 /\ n % 10 \in 0 .. 9
      /\ n = 10 * (n \div 10) + (n % 10)
      OBVIOUS
<1> DEFINE d == n \div 10
           u == n % 10
<1>2. d \in 0 .. 9 /\ u \in 0 .. 9 /\ n = 10 * d + u
      BY <1>1
<1> HIDE DEF d, u
<1>3. (16 * d + u) \div 16 = d /\ (16 * d + u) % 16 = u
      BY <1>2
<1>4. Bcd(n) = 16 * d + u
      BY DEF Bcd, d, u
<1> QED BY <1>2, <1>3, <1>4 DEF Decimal

\* The second of the day that three registers stand for.
Value(registers) ==
    Decimal(registers.hours) * 3600 + Decimal(registers.minutes) * 60
        + Decimal(registers.seconds)

Numbers(registers) ==
    /\ Decimal(registers.hours) \in Int
    /\ Decimal(registers.minutes) \in Int
    /\ Decimal(registers.seconds) \in Int

LEMMA ElapsedIs ==
    ASSUME NEW final, NEW initial, Numbers(final), Numbers(initial)
    PROVE  /\ Value(final) \in Int /\ Value(initial) \in Int
           /\ Elapsed(final, initial) = Value(final) - Value(initial)
BY DEF Elapsed, Value, Numbers

\* The hour, minute and second of the day, and back.
LEMMA RegistersOf ==
    ASSUME NEW t \in Nat
    PROVE  /\ Decimal(Registers(t).hours) = (t % Day) \div 3600
           /\ Decimal(Registers(t).minutes) = (t % 3600) \div 60
           /\ Decimal(Registers(t).seconds) = t % 60
           /\ Numbers(Registers(t))
           /\ Value(Registers(t)) = t % Day
<1> DEFINE h == (t % Day) \div 3600
           m == (t % 3600) \div 60
           s == t % 60
<1>1. h \in 0 .. 99 /\ m \in 0 .. 99 /\ s \in 0 .. 99
      BY DEF Day
<1>2. h * 3600 + m * 60 + s = t % Day
      BY DEF Day
<1> HIDE DEF h, m, s
<1>3. /\ Registers(t).hours = Bcd(h) /\ Registers(t).minutes = Bcd(m)
      /\ Registers(t).seconds = Bcd(s)
      BY DEF Registers, h, m, s
<1>4. Decimal(Bcd(h)) = h /\ Decimal(Bcd(m)) = m /\ Decimal(Bcd(s)) = s
      BY <1>1, DecimalOfBcd
<1>5. /\ Decimal(Registers(t).hours) = h /\ Decimal(Registers(t).minutes) = m
      /\ Decimal(Registers(t).seconds) = s
      BY <1>3, <1>4
<1>6. Numbers(Registers(t)) /\ Value(Registers(t)) = t % Day
      BY <1>1, <1>2, <1>5 DEF Value, Numbers
<1> QED BY <1>5, <1>6 DEF h, m, s

\* What get_time_direct reads while second t becomes the next one lacks
\* nothing, a minute or an hour.
LEMMA ReadOverATick ==
    ASSUME NEW t \in Nat, NEW minute \in {t, t + 1}
    PROVE  /\ Numbers(get_time_direct(t, minute))
           /\ \E late \in {0, 60, 3600} :
                  (Value(get_time_direct(t, minute)) + late - (t + 1)) % Day = 0
<1> DEFINE h == (t % Day) \div 3600
           m == (minute % 3600) \div 60
           s == (t + 1) % 60
           d == t % Day
           v == Value(get_time_direct(t, minute))
<1>1. h \in Int /\ m \in Int /\ s \in Int /\ d \in Int /\ h * 3600 + (t % 3600) = d
      BY DEF Day
<1>2. v = h * 3600 + m * 60 + s
  <2>1. /\ Decimal(Registers(t).hours) = h /\ Decimal(Registers(minute).minutes) = m
        /\ Decimal(Registers(t + 1).seconds) = s
    <3>1. t + 1 \in Nat /\ minute \in Nat
          OBVIOUS
    <3> QED BY <3>1, RegistersOf
  <2> HIDE DEF h, m, s
  <2> QED BY <1>1, <2>1 DEF Value, get_time_direct
<1>3. /\ ((t % 3600) \div 60) * 60 + (t % 60) = t % 3600
      /\ (((t + 1) % 3600) \div 60) * 60 + ((t + 1) % 60) = (t + 1) % 3600
      /\ (t + 1) % 60 = (t % 60) + 1 \/ ((t + 1) % 60 = 0 /\ t % 60 = 59)
      /\ (t + 1) % 3600 = (t % 3600) + 1 \/ ((t + 1) % 3600 = 0 /\ t % 3600 = 3599)
      OBVIOUS
<1>4. (d + 1 - (t + 1)) % Day = 0
      BY DEF Day
<1> HIDE DEF h, d, v
<1>5. v = d + 1 \/ v + 60 = d + 1 \/ v + 3600 = d + 1
  <2>1. CASE minute = t
        BY <1>1, <1>2, <1>3, <2>1
  <2>2. CASE minute = t + 1
        BY <1>1, <1>2, <1>3, <2>2
  <2> QED BY <2>1, <2>2
<1> HIDE DEF m, s
<1>6. v \in Int
      BY <1>1, <1>2
<1>7. v + 0 = d + 1 \/ v + 60 = d + 1 \/ v + 3600 = d + 1
      BY <1>5, <1>6
<1>8. PICK late \in {0, 60, 3600} : v + late = d + 1
      BY <1>7
<1>9. (v + late - (t + 1)) % Day = 0
  <2>1. v + late - (t + 1) = d + 1 - (t + 1)
        BY <1>1, <1>6, <1>8
  <2> HIDE DEF v, d
  <2> QED BY <1>4, <2>1
<1>10. Numbers(get_time_direct(t, minute))
  <2>1. t + 1 \in Nat /\ minute \in Nat
        OBVIOUS
  <2>2. Numbers(Registers(t)) /\ Numbers(Registers(minute)) /\ Numbers(Registers(t + 1))
        BY <2>1, RegistersOf
  <2> QED BY <2>2 DEF Numbers, get_time_direct
<1> QED BY <1>8, <1>9, <1>10 DEF v

-----------------------------------------------------------------------------
(* The inductive invariant.                                                *)

CountersOK ==
    /\ now \in Nat /\ began \in Nat /\ ended \in Nat
    /\ initialTimeSet \in BOOLEAN /\ finalTimeSet \in BOOLEAN

\* The stamp is this second's or, while the update interrupt waits, the last
\* one's; all zero it may be from before the first interrupt.
StampIsFresh ==
    \/ time_stamp \in {Zero, Registers(now)}
    \/ update_pending /\ now > 0 /\ time_stamp = Registers(now - 1)

\* What is kept for a frame in second t: that second or an earlier one, as
\* Late has it.
KeptFor(time, registers, t, spoilt) ==
    /\ Numbers(registers)
    /\ \E late \in {0, 1} \cup (IF time \in spoilt THEN {60, 3600} ELSE {}) :
           (Value(registers) + late - t) % Day = 0

\* The times kept for the first frame, and for the first after the end.
InitialIsKept ==
    initialTimeSet => began <= now /\ KeptFor("initial", time_initial, began, torn)

FinalIsKept ==
    finalTimeSet => /\ initialTimeSet /\ began <= ended /\ ended <= now
                    /\ KeptFor("final", time_final, ended, torn)

\* What is shown comes from the two times that are kept.
ShownIsKept ==
    \A time \in shown :
        /\ finalTimeSet
        /\ time = Elapsed(time_final, time_initial)

ClockInv == /\ CountersOK /\ StampIsFresh
            /\ InitialIsKept /\ FinalIsKept /\ ShownIsKept

LEMMA ClockStart ==
    ASSUME TimesAreSeconds, Init PROVE ClockInv
BY DEF Init, TimesAreSeconds, ClockInv, CountersOK, StampIsFresh, InitialIsKept,
       FinalIsKept, ShownIsKept

\* A time that is kept stays so, whatever is read after it.
LEMMA StaysKept ==
    ASSUME NEW time, NEW registers, NEW t, NEW before, NEW after,
           KeptFor(time, registers, t, before), before \subseteq after
    PROVE  KeptFor(time, registers, t, after)
BY DEF KeptFor

\* The stamp may be kept for a frame of this second.
LEMMA StampIsKept ==
    ASSUME CountersOK, StampIsFresh, time_stamp # Zero, NEW time, NEW spoilt
    PROVE  KeptFor(time, time_stamp, now, spoilt)
<1>1. now \in Nat
      BY DEF CountersOK
<1>2. CASE time_stamp = Registers(now)
  <2>1. Value(time_stamp) = now % Day /\ Numbers(time_stamp)
        BY <1>1, <1>2, RegistersOf
  <2>2. now % Day \in Int /\ ((now % Day) + 0 - now) % Day = 0
        BY <1>1 DEF Day
  <2> QED BY <2>1, <2>2 DEF KeptFor
<1>3. CASE now > 0 /\ time_stamp = Registers(now - 1)
  <2>1. now - 1 \in Nat
        BY <1>1, <1>3
  <2>2. Value(time_stamp) = (now - 1) % Day /\ Numbers(time_stamp)
        BY <1>3, <2>1, RegistersOf
  <2>3. (now - 1) % Day \in Int /\ (((now - 1) % Day) + 1 - now) % Day = 0
        BY <1>1, <2>1 DEF Day
  <2> QED BY <2>2, <2>3 DEF KeptFor
<1> QED BY <1>2, <1>3 DEF StampIsFresh

\* What leaves the kept times and the clock alone.
LEMMA PlayersStep ==
    ASSUME ClockInv, single_player \/ multiple_player \/ game_reset
                     \/ game_activate_multiplayer \/ game_lose \/ menu_main_loop
    PROVE  ClockInv'
<1>1. /\ UNCHANGED <<now, update_pending, time_stamp, began, ended, time_initial, time_final>>
      /\ \/ /\ UNCHANGED <<initialTimeSet, finalTimeSet, torn>>
            /\ shown' = shown \/ shown' = {}
         \/ ~initialTimeSet' /\ ~finalTimeSet' /\ shown' = {}
      /\ initialTimeSet' \in BOOLEAN /\ finalTimeSet' \in BOOLEAN
      BY DEF ClockInv, CountersOK, single_player, multiple_player, Play, game_reset,
             game_activate_multiplayer, game_lose, menu_main_loop, clock, times
<1> QED BY <1>1 DEF ClockInv, CountersOK, StampIsFresh, InitialIsKept, FinalIsKept,
                    ShownIsKept

LEMMA TickStep ==
    ASSUME ClockInv, Tick PROVE ClockInv'
<1>1. /\ ~update_pending /\ now' = now + 1 /\ update_pending'
      /\ UNCHANGED <<time_stamp, shown, torn, began, ended>> /\ UNCHANGED times
      BY DEF Tick
<1>2. /\ now \in Nat /\ began \in Nat /\ ended \in Nat
      /\ now' \in Nat /\ now' > 0 /\ now' - 1 = now /\ now <= now'
      BY <1>1 DEF ClockInv, CountersOK
<1>3. StampIsFresh'
      BY <1>1, <1>2 DEF ClockInv, StampIsFresh
<1>4. InitialIsKept' /\ FinalIsKept' /\ ShownIsKept'
      BY <1>1, <1>2 DEF ClockInv, InitialIsKept, FinalIsKept, ShownIsKept, times
<1> QED BY <1>1, <1>2, <1>3, <1>4 DEF ClockInv, CountersOK, times

LEMMA UpdateStep ==
    ASSUME ClockInv, update PROVE ClockInv'
<1>1. /\ time_stamp' = Registers(now) /\ now' = now
      /\ UNCHANGED <<shown, torn, began, ended>> /\ UNCHANGED times
      BY DEF update, get_time
<1> QED BY <1>1 DEF ClockInv, CountersOK, StampIsFresh, InitialIsKept, FinalIsKept,
                    ShownIsKept, times

\* What check_time reads: the time of its second or, for a time that is torn
\* from then on, what Late has; and the clock runs on in between only without
\* a stamp.
Reading(registers) ==
    /\ now' \in Nat /\ now <= now' /\ torn \subseteq torn'
    /\ \A time \in Recorded : KeptFor(time, registers, now', torn')
    /\ \/ time_stamp = Zero
       \/ now' = now /\ update_pending' = update_pending

LEMMA CheckedStep ==
    ASSUME ClockInv, NEW registers, check_time(registers), Reading(registers)
    PROVE  /\ began' \in Nat /\ ended' \in Nat
           /\ initialTimeSet' \in BOOLEAN /\ finalTimeSet' \in BOOLEAN
           /\ InitialIsKept' /\ FinalIsKept'
           /\ finalTimeSet => /\ finalTimeSet' = finalTimeSet
                              /\ time_initial' = time_initial /\ time_final' = time_final
           /\ gameState = "Finish" => finalTimeSet'
<1>1. now \in Nat /\ began \in Nat /\ ended \in Nat
      BY DEF ClockInv, CountersOK
<1>2. \A time \in Recorded : KeptFor(time, Read(registers), now', torn')
  <2>1. CASE time_stamp = Zero
        BY <2>1 DEF Read, Reading
  <2>2. CASE time_stamp # Zero
        BY <1>1, <2>2, StampIsKept DEF Read, Reading, ClockInv
  <2> QED BY <2>1, <2>2
<1>3. /\ initialTimeSet \in BOOLEAN /\ finalTimeSet \in BOOLEAN
      /\ finalTimeSet => initialTimeSet
      BY DEF ClockInv, CountersOK, FinalIsKept
<1>4. now' \in Nat /\ now <= now' /\ torn \subseteq torn'
      BY DEF Reading
<1>5. initialTimeSet' /\ InitialIsKept' /\ began' \in Nat /\ began' <= now'
  <2>1. CASE initialTimeSet
        BY <1>1, <1>4, <1>3, <2>1, StaysKept DEF check_time, ClockInv, InitialIsKept
  <2>2. CASE ~initialTimeSet
    <3>1. KeptFor("initial", Read(registers), now', torn')
          BY <1>2, <2>2 DEF Recorded
    <3> QED BY <1>1, <1>4, <2>2, <3>1 DEF check_time, InitialIsKept
  <2> QED BY <1>3, <1>4, <2>1, <2>2 DEF check_time
<1>6. CASE finalTimeSet
  <2>1. UNCHANGED <<finalTimeSet, time_final, ended, began, time_initial>>
        BY <1>3, <1>6 DEF check_time
  <2>2. FinalIsKept'
        BY <1>1, <1>3, <1>4, <1>5, <1>6, <2>1, StaysKept DEF ClockInv, FinalIsKept
  <2> QED BY <1>1, <1>4, <1>3, <1>5, <1>6, <2>1, <2>2 DEF check_time
<1>7. CASE ~finalTimeSet /\ gameState = "Finish"
  <2>1. finalTimeSet' = TRUE /\ time_final' = Read(registers) /\ ended' = now'
        BY <1>7 DEF check_time
  <2>2. FinalIsKept'
    <3>1. KeptFor("final", Read(registers), now', torn')
          BY <1>2, <1>7 DEF Recorded
    <3> QED BY <1>1, <1>4, <1>5, <2>1, <3>1 DEF FinalIsKept
  <2> QED BY <1>1, <1>4, <1>5, <1>7, <2>1, <2>2 DEF check_time
<1>8. CASE ~finalTimeSet /\ gameState # "Finish"
  <2>1. UNCHANGED <<finalTimeSet, time_final, ended>>
        BY <1>8 DEF check_time
  <2> QED BY <1>1, <1>4, <1>3, <1>5, <1>8, <2>1 DEF check_time, FinalIsKept
<1> QED BY <1>3, <1>6, <1>7, <1>8

LEMMA FrameStep ==
    ASSUME ClockInv, game_main_loop PROVE ClockInv'
<1>1. time_stamp' = time_stamp
      BY DEF game_main_loop
<1>2. now \in Nat
      BY DEF ClockInv, CountersOK
<1>3. \E registers : check_time(registers) /\ Reading(registers)
  <2>1. CASE CheckedInASecond
    <3>1. now' = now /\ update_pending' = update_pending /\ torn' = torn
          BY <2>1 DEF CheckedInASecond, clock
    <3>2. Value(Registers(now)) = now % Day /\ Numbers(Registers(now))
          BY <1>2, RegistersOf
    <3>3. now % Day \in Int /\ ((now % Day) + 0 - now) % Day = 0
          BY <1>2 DEF Day
    <3>4. \A time \in Recorded : KeptFor(time, Registers(now), now, torn)
          BY <3>2, <3>3 DEF KeptFor
    <3> QED BY <1>2, <2>1, <3>1, <3>4 DEF CheckedInASecond, Reading
  <2>2. CASE CheckedOverATick
    <3>1. time_stamp = Zero /\ now' = now + 1
          BY <2>2 DEF CheckedOverATick
    <3>2. PICK minute \in {now, now + 1} :
             /\ check_time(get_time_direct(now, minute))
             /\ torn' = torn \cup
                   {time \in Recorded : get_time_direct(now, minute) # Registers(now + 1)}
          BY <2>2, <3>1 DEF CheckedOverATick
    <3>3. now + 1 \in Nat /\ now <= now + 1 /\ torn \subseteq torn'
          BY <1>2, <3>2
    <3>4. ASSUME NEW time \in Recorded
          PROVE  KeptFor(time, get_time_direct(now, minute), now + 1, torn')
      <4>1. CASE time \in torn'
        <5>1. /\ Numbers(get_time_direct(now, minute))
              /\ \E late \in {0, 60, 3600} :
                    (Value(get_time_direct(now, minute)) + late - (now + 1)) % Day = 0
              BY <1>2, ReadOverATick
        <5> QED BY <4>1, <5>1 DEF KeptFor
      <4>2. CASE time \notin torn'
        <5>1. get_time_direct(now, minute) = Registers(now + 1)
              BY <3>2, <4>2
        <5>2. /\ Value(Registers(now + 1)) = (now + 1) % Day
              /\ Numbers(Registers(now + 1))
              BY <3>3, RegistersOf
        <5>3. (now + 1) % Day \in Int /\ (((now + 1) % Day) + 0 - (now + 1)) % Day = 0
              BY <3>3 DEF Day
        <5> QED BY <5>1, <5>2, <5>3 DEF KeptFor
      <4> QED BY <4>1, <4>2
    <3> QED BY <3>1, <3>2, <3>3, <3>4 DEF Reading
  <2> QED BY <2>1, <2>2 DEF game_main_loop
<1>4. PICK registers : check_time(registers) /\ Reading(registers)
      BY <1>3
<1>5. /\ began' \in Nat /\ ended' \in Nat
      /\ initialTimeSet' \in BOOLEAN /\ finalTimeSet' \in BOOLEAN
      /\ InitialIsKept' /\ FinalIsKept'
      /\ finalTimeSet => /\ finalTimeSet' = finalTimeSet
                         /\ time_initial' = time_initial /\ time_final' = time_final
      /\ gameState = "Finish" => finalTimeSet'
      BY <1>4, CheckedStep
<1>6. StampIsFresh'
      BY <1>1, <1>4 DEF ClockInv, StampIsFresh, Reading
<1>7. ShownIsKept'
  <2>1. CASE shown' = shown
        BY <1>5, <2>1 DEF ClockInv, ShownIsKept
  <2>2. CASE gameState = "Finish" /\ calculate_time
    <3>1. shown' = {Elapsed(time_final', time_initial')}
          BY <2>2 DEF calculate_time, Elapsed
    <3> QED BY <1>5, <2>2, <3>1 DEF ShownIsKept
  <2> QED BY <2>1, <2>2 DEF game_main_loop
<1>8. CountersOK'
      BY <1>4, <1>5 DEF CountersOK, Reading
<1> QED BY <1>5, <1>6, <1>7, <1>8 DEF ClockInv

LEMMA ClockStep ==
    ASSUME ClockInv, [Next]_vars PROVE ClockInv'
<1>1. CASE UNCHANGED vars
      BY <1>1 DEF vars, ClockInv, CountersOK, StampIsFresh, InitialIsKept, FinalIsKept,
                  ShownIsKept
<1> QED BY <1>1, PlayersStep, TickStep, UpdateStep, FrameStep DEF Next

\* The time shown is that between the two frames whose time was kept, each no
\* later than Late has it and up to a day, and the second of them did not come
\* first, at any second of any day and however long the program runs
\* (check_time, calculate_time, game_reset and get_time_direct).
THEOREM TimeShownIsAccurate == Spec => []TimeIsAccurate
<1>1. ClockInv => TimeIsAccurate
  <2> SUFFICES ASSUME ClockInv, NEW time \in shown
               PROVE  /\ began <= ended
                      /\ \E final \in Late("final"), initial \in Late("initial") :
                             (time - (ended - began) + final - initial) % Day = 0
      BY DEF TimeIsAccurate
  <2>1. /\ finalTimeSet /\ initialTimeSet /\ began <= ended
        /\ time = Elapsed(time_final, time_initial)
        BY DEF ClockInv, ShownIsKept, FinalIsKept
  <2>2. began \in Nat /\ ended \in Nat
        BY DEF ClockInv, CountersOK
  <2>3. Late("final") \subseteq Int /\ Late("initial") \subseteq Int
        BY DEF Late
  <2>4. /\ Numbers(time_initial)
        /\ \E late \in Late("initial") : (Value(time_initial) + late - began) % Day = 0
        BY <2>1 DEF ClockInv, InitialIsKept, KeptFor, Late
  <2>5. /\ Numbers(time_final)
        /\ \E late \in Late("final") : (Value(time_final) + late - ended) % Day = 0
        BY <2>1 DEF ClockInv, FinalIsKept, KeptFor, Late
  <2>6. PICK initial \in Late("initial") : (Value(time_initial) + initial - began) % Day = 0
        BY <2>4
  <2>7. PICK final \in Late("final") : (Value(time_final) + final - ended) % Day = 0
        BY <2>5
  <2>8. /\ time = Value(time_final) - Value(time_initial)
        /\ Value(time_final) \in Int /\ Value(time_initial) \in Int
        BY <2>1, <2>4, <2>5, ElapsedIs
  <2>9. \A v, w \in Int : v % Day = 0 /\ w % Day = 0 => (v - w) % Day = 0
        BY DEF Day
  <2> DEFINE v == Value(time_final) + final - ended
             w == Value(time_initial) + initial - began
  <2>10. v \in Int /\ w \in Int /\ time - (ended - began) + final - initial = v - w
         BY <2>2, <2>3, <2>8
  <2> QED BY <2>1, <2>6, <2>7, <2>9, <2>10
<1> QED BY <1>1, TimesAreSeconds, ClockStart, ClockStep, PTL DEF Spec

=============================================================================
