----------------------------- MODULE GameClock -----------------------------
(***************************************************************************)
(* The time a player is shown: the real-time clock of controllers/rtc.c,   *)
(* its update interrupt, and check_time and calculate_time of game/game.c, *)
(* on one machine whose game is started, ended and reset by the player and *)
(* by the characters of the other machine as in LCOMaze.                   *)
(***************************************************************************)
EXTENDS Integers

CONSTANTS
    PowerOn,    \* the seconds of the day at which the program may start
    MaxTicks    \* bound: so many seconds later the clock stops

ASSUME TimesAreSeconds == PowerOn \subseteq Nat /\ MaxTicks \in Nat

VARIABLES
    now,            \* the second it is, counted from the first midnight
    ticks,          \* seconds since the program started
    update_pending, \* the RTC's update interrupt waits to be served
    frame_drawn,    \* a frame was drawn in this second
    host,
    state,
    gameState,
    won,
    initialTimeSet,
    finalTimeSet,
    time_stamp,     \* three BCD registers, as are the next two
    time_initial,
    time_final,
    shown,          \* the seconds on the result screen: one number or none
    torn,           \* history: which times of this game mix two seconds
    began,          \* history: when the first frame of the game screen was
    ended,          \* history: when its first frame after the end was
    raceBegan,      \* history: when the player's race last began
    raceEnded       \* history: when it last became Finish

clock == <<now, ticks, update_pending>>
times == <<initialTimeSet, finalTimeSet, time_initial, time_final>>
vars == <<now, ticks, update_pending, frame_drawn, host, state, gameState, won,
          initialTimeSet, finalTimeSet, time_stamp, time_initial, time_final,
          shown, torn, began, ended, raceBegan, raceEnded>>

Day == 86400

\* The registers of the RTC in its BCD mode.
Bcd(n) == 16 * (n \div 10) + (n % 10)

Registers(t) == [hours   |-> Bcd((t % Day) \div 3600),
                 minutes |-> Bcd((t % 3600) \div 60),
                 seconds |-> Bcd(t % 60)]

Zero == [hours |-> 0, minutes |-> 0, seconds |-> 0]

Init ==
    /\ now \in PowerOn
    /\ ticks = 0 /\ update_pending = FALSE /\ frame_drawn = FALSE
    /\ host \in BOOLEAN
    /\ state = "Menu" /\ gameState = "Waiting" /\ won = FALSE
    /\ initialTimeSet = FALSE /\ finalTimeSet = FALSE
    /\ time_stamp = Zero /\ time_initial = Zero /\ time_final = Zero
    /\ shown = {} /\ torn = {}
    /\ began = now /\ ended = now /\ raceBegan = now /\ raceEnded = now

-----------------------------------------------------------------------------
(* The clock.                                                              *)

\* A second passes.  The loop is fast enough to draw a frame and to serve the
\* update interrupt in each.
Tick ==
    /\ ticks < MaxTicks
    /\ frame_drawn /\ ~update_pending
    /\ now' = now + 1 /\ ticks' = ticks + 1
    /\ update_pending' = TRUE /\ frame_drawn' = FALSE
    /\ UNCHANGED <<host, state, gameState, won, time_stamp, shown, torn,
                   began, ended, raceBegan, raceEnded>>
    /\ UNCHANGED times

get_time == time_stamp' = Registers(now)

\* The update interrupt.
update ==
    /\ update_pending
    /\ get_time
    /\ update_pending' = FALSE
    /\ UNCHANGED <<now, ticks, frame_drawn, host, state, gameState, won, shown, torn,
                   began, ended, raceBegan, raceEnded>>
    /\ UNCHANGED times

-----------------------------------------------------------------------------
(* What the players do.                                                    *)

Play(phase) ==
    /\ state = "Menu"
    /\ state' = "Game"
    /\ gameState' = phase
    /\ raceBegan' = IF phase = "Running" THEN now ELSE raceBegan
    /\ UNCHANGED <<frame_drawn, host, won, time_stamp, shown, torn, began, ended, raceEnded>>
    /\ UNCHANGED clock /\ UNCHANGED times

single_player == Play("Running")
multiple_player == Play(gameState)

\* Mutated form of game_reset: the final time is kept.
ResetKeepsFinal ==
    /\ state' = "Menu" /\ gameState' = "Waiting" /\ won' = FALSE
    /\ initialTimeSet' = FALSE
    /\ shown' = {} /\ torn' = {}
    /\ UNCHANGED <<finalTimeSet, time_initial, time_final>>
    /\ UNCHANGED <<frame_drawn, host, time_stamp, began, ended, raceBegan, raceEnded>>
    /\ UNCHANGED clock

\* Escape: game_reset and the menu.
game_reset ==
    /\ state' = "Menu" /\ gameState' = "Waiting" /\ won' = FALSE
    /\ initialTimeSet' = FALSE /\ finalTimeSet' = FALSE
    /\ shown' = {} /\ torn' = {}
    /\ UNCHANGED <<time_initial, time_final>>
    /\ UNCHANGED <<frame_drawn, host, time_stamp, began, ended, raceBegan, raceEnded>>
    /\ UNCHANGED clock

\* The character that starts a multiplayer game.
game_activate_multiplayer ==
    /\ host \/ gameState = "Waiting"
    /\ gameState' = "Running"
    /\ raceBegan' = IF gameState = "Running" THEN raceBegan ELSE now
    /\ shown' = {}
    /\ UNCHANGED <<frame_drawn, host, state, won, time_stamp, torn, began, ended, raceEnded>>
    /\ UNCHANGED clock /\ UNCHANGED times

\* The character that ends it.
game_lose ==
    /\ gameState = "Running"
    /\ gameState' = "Finish" /\ won' = FALSE
    /\ raceEnded' = now
    /\ UNCHANGED <<frame_drawn, host, state, time_stamp, shown, torn, began, ended, raceBegan>>
    /\ UNCHANGED clock /\ UNCHANGED times

-----------------------------------------------------------------------------
(* The frames.                                                             *)

\* What is read as the time: the stamp of the last update interrupt or, when
\* that is all zero, the registers themselves (get_time_direct).
Read(registers) == IF time_stamp = Zero THEN registers ELSE time_stamp

check_time(registers) ==
    /\ initialTimeSet' = TRUE
    /\ time_initial' = IF initialTimeSet THEN time_initial ELSE Read(registers)
    /\ began' = IF initialTimeSet THEN began ELSE now'
    /\ IF ~finalTimeSet /\ gameState = "Finish"
       THEN finalTimeSet' = TRUE /\ time_final' = Read(registers) /\ ended' = now'
       ELSE UNCHANGED <<finalTimeSet, time_final, ended>>

\* The times that a frame records.
Recorded == {time \in {"initial", "final"} :
                \/ time = "initial" /\ ~initialTimeSet
                \/ time = "final" /\ ~finalTimeSet /\ gameState = "Finish"}

CheckedInASecond ==
    /\ UNCHANGED clock /\ UNCHANGED torn
    /\ check_time(Registers(now))

\* Mutated form of get_time_direct: the seconds are read first.
get_time_backwards(t, minute) == [hours   |-> Registers(t + 1).hours,
                                  minutes |-> Registers(minute).minutes,
                                  seconds |-> Registers(t).seconds]

\* The registers are read one by one, here while second t becomes the next:
\* the hour and perhaps the minute are still those of the second before.
get_time_direct(t, minute) == [hours   |-> Registers(t).hours,
                               minutes |-> Registers(minute).minutes,
                               seconds |-> Registers(t + 1).seconds]

CheckedOverATick ==
    /\ time_stamp = Zero /\ Recorded # {}
    /\ ticks < MaxTicks /\ ~update_pending
    /\ now' = now + 1 /\ ticks' = ticks + 1 /\ update_pending' = TRUE
    /\ \E minute \in {now, now + 1} :
        LET registers == get_time_direct(now, minute)
        IN /\ check_time(registers)
           /\ torn' = torn \cup {time \in Recorded : registers # Registers(now + 1)}

\* A register printed with "%x" and read back with atoi.
Decimal(register) == 10 * (register \div 16) + (register % 16)

calculate_time ==
    shown' = {(Decimal(time_final'.hours) - Decimal(time_initial'.hours)) * 3600
              + (Decimal(time_final'.minutes) - Decimal(time_initial'.minutes)) * 60
              + Decimal(time_final'.seconds) - Decimal(time_initial'.seconds)}

\* A frame of the game screen: the exit may be reached while the game runs,
\* and the winner sees the time once it has ended.
game_main_loop ==
    /\ state = "Game"
    /\ CheckedInASecond \/ CheckedOverATick
    /\ \/ /\ gameState = "Running"
          /\ gameState' = "Finish" /\ won' = TRUE
          /\ raceEnded' = now'
          /\ UNCHANGED shown
       \/ /\ gameState = "Finish" /\ won
          /\ calculate_time
          /\ UNCHANGED <<gameState, won, raceEnded>>
       \/ /\ gameState # "Finish" \/ ~won
          /\ UNCHANGED <<gameState, won, raceEnded, shown>>
    /\ frame_drawn' = TRUE
    /\ UNCHANGED <<host, state, time_stamp, raceBegan>>

menu_main_loop ==
    /\ state = "Menu"
    /\ frame_drawn' = TRUE
    /\ UNCHANGED <<host, state, gameState, won, time_stamp, shown, torn,
                   began, ended, raceBegan, raceEnded>>
    /\ UNCHANGED clock /\ UNCHANGED times

Next == \/ Tick \/ update
        \/ single_player \/ multiple_player \/ game_reset
        \/ game_activate_multiplayer \/ game_lose
        \/ game_main_loop \/ menu_main_loop

Spec == Init /\ [][Next]_vars

-----------------------------------------------------------------------------

\* How late a recorded time may be: the stamp may be the last second's; a read
\* of the registers over the end of a minute or an hour, hours first, may lack
\* that minute or that hour, and is never early.
Late(time) == {0, 1} \cup (IF time \in torn THEN {60, 3600} ELSE {})

\* The time shown is that between the two frames whose time was recorded, each
\* no later than that and up to a day, and the second of them did not come
\* first, whatever games were played, left and restarted before, over every
\* rollover of the registers and before the first update interrupt (check_time,
\* calculate_time, game_reset, get_time_direct and the order of its reads).
TimeIsAccurate ==
    \A time \in shown :
        /\ began <= ended
        /\ \E final \in Late("final"), initial \in Late("initial") :
               (time - (ended - began) + final - initial) % Day = 0

\* "accurately measuring the duration of gameplay" (README.md:139): the time
\* shown is that of the race that was just won, give or take two seconds.
RaceIsTimed ==
    \A time \in shown : time - (raceEnded - raceBegan) \in -2 .. 2

=============================================================================
