------------------------------ MODULE LCOMaze ------------------------------
(***************************************************************************)
(* Two PCs run the LCOMaze program, one started as "host" and one as       *)
(* "client", joined by a serial cable.  Each runs one thread: the loop of  *)
(* proj_main_loop, which takes interrupt notifications and calls the       *)
(* handler of each.  A handler runs to its end before the next one, so     *)
(* each is one action here; the players, the two loops and the two         *)
(* directions of the cable interleave.                                     *)
(*                                                                         *)
(* What is abstracted: a position in the maze is the distance walked       *)
(* towards the exit (pos), the mouse cursor and its left button are the    *)
(* choice of the menu entry that a timer tick finds pressed; the times that *)
(* check_time reads from the RTC are in GameClock.                         *)
(***************************************************************************)
EXTENDS Integers, Sequences

CONSTANTS
    Host,       \* the machine whose program was started with "host"
    Client,     \* the other one
    Goal,       \* steps from the start of the maze to its exit
    LineDepth,  \* bound: no player opens a multiplayer game, and no noise
                \* is made, while this many bytes are on the cable
    Paced,      \* TRUE: a loop serves each received byte before the next
                \* one arrives; FALSE: it may fall behind
    LineNoise   \* TRUE: a NUL byte (a break, a glitch) may appear on the cable

ASSUME MachinesDiffer == Host # Client
ASSUME GoalIsAway == Goal \in Nat \ {0}
ASSUME LineDepthIsPositive == LineDepth \in Nat \ {0}
ASSUME LineIsBoolean == Paced \in BOOLEAN /\ LineNoise \in BOOLEAN

VARIABLES
    running,        \* the loop condition: FALSE once exit_game was chosen
    state,          \* the screen shown: Menu, Game or HowTo
    gameState,      \* Waiting, Running or Finish
    isMultiplayer,
    won,
    pos,            \* (x, y), as steps from the start
    c,              \* the character last received by proj_main_loop
    rbr,            \* the UART's receive register, or NoByte
    notified,       \* a serial interrupt notification is pending
    line            \* line[m]: the bytes travelling to m, oldest first

player == <<running, state, gameState, isMultiplayer, won, pos>>
port == <<c, rbr, notified>>
vars == <<running, state, gameState, isMultiplayer, won, pos,
          c, rbr, notified, line>>

Machine == {Host, Client}
Peer(m) == IF m = Host THEN Client ELSE Host

Byte == {"M", "S", "L", "NUL"}
NoByte == "none"
One == "one"                    \* char c = 1, the value before any byte

\* The byte that announces a machine's wish to play.
Hello(m) == IF m = Host THEN "M" ELSE "S"

OnCable == Len(line[Host]) + Len(line[Client])

Init ==
    /\ running = [m \in Machine |-> TRUE]
    /\ state = [m \in Machine |-> "Menu"]
    /\ gameState = [m \in Machine |-> "Waiting"]
    /\ isMultiplayer = [m \in Machine |-> FALSE]
    /\ won = [m \in Machine |-> FALSE]
    /\ pos = [m \in Machine |-> 0]
    /\ c = [m \in Machine |-> One]
    /\ rbr = [m \in Machine |-> NoByte]
    /\ notified = [m \in Machine |-> FALSE]
    /\ line = [m \in Machine |-> <<>>]

-----------------------------------------------------------------------------
(* The keyboard interrupt.                                                 *)

\* Mutated form of game_reset: the last result is not forgotten.
ResetKeepsWon(m) ==
    /\ isMultiplayer' = [isMultiplayer EXCEPT ![m] = FALSE]
    /\ gameState' = [gameState EXCEPT ![m] = "Waiting"]
    /\ pos' = [pos EXCEPT ![m] = 0]
    /\ UNCHANGED won

game_reset(m) ==
    /\ isMultiplayer' = [isMultiplayer EXCEPT ![m] = FALSE]
    /\ won' = [won EXCEPT ![m] = FALSE]
    /\ gameState' = [gameState EXCEPT ![m] = "Waiting"]
    /\ pos' = [pos EXCEPT ![m] = 0]

\* Escape is released: back to the menu from any screen.  The peer is not told.
EscKey(m) ==
    /\ running[m]
    /\ game_reset(m)
    /\ state' = [state EXCEPT ![m] = "Menu"]
    /\ UNCHANGED <<running, line>> /\ UNCHANGED port

\* Mutated form of game_keyboard_handler: check_collision is not asked.
UncheckedMove(m) ==
    /\ running[m] /\ state[m] = "Game"
    /\ \E p \in {pos[m] - 1, pos[m] + 1} : pos' = [pos EXCEPT ![m] = p]
    /\ UNCHANGED <<running, state, gameState, isMultiplayer, won,
                   line>>
    /\ UNCHANGED port

\* A movement key on the game screen, whatever the state of the game.
game_keyboard_handler(m) ==
    /\ running[m] /\ state[m] = "Game"
    /\ \E p \in {pos[m] - 1, pos[m] + 1} \cap (0 .. Goal) :
           pos' = [pos EXCEPT ![m] = p]
    /\ UNCHANGED <<running, state, gameState, isMultiplayer, won,
                   line>>
    /\ UNCHANGED port

-----------------------------------------------------------------------------
(* The timer interrupt on the menu screen: the entry that was clicked.     *)

single_player(m) ==
    /\ running[m] /\ state[m] = "Menu"
    /\ state' = [state EXCEPT ![m] = "Game"]
    /\ isMultiplayer' = [isMultiplayer EXCEPT ![m] = FALSE]
    /\ gameState' = [gameState EXCEPT ![m] = "Running"]
    /\ UNCHANGED <<running, won, pos, line>>
    /\ UNCHANGED port

multiple_player(m) ==
    /\ running[m] /\ state[m] = "Menu"
    /\ OnCable < LineDepth
    /\ state' = [state EXCEPT ![m] = "Game"]
    /\ isMultiplayer' = [isMultiplayer EXCEPT ![m] = TRUE]
    /\ line' = [line EXCEPT ![Peer(m)] = Append(@, Hello(m))]
    /\ UNCHANGED <<running, gameState, won, pos>>
    /\ UNCHANGED port

how_to(m) ==
    /\ running[m] /\ state[m] = "Menu"
    /\ state' = [state EXCEPT ![m] = "HowTo"]
    /\ UNCHANGED <<running, gameState, isMultiplayer, won, pos, line>>
    /\ UNCHANGED port

\* The program is started again.  Its variables are new; a byte that nobody
\* read is still in the UART, and whether it raises an interrupt once the
\* line is subscribed again is left to the PC.
Restart(m) ==
    /\ ~running[m]
    /\ running' = [running EXCEPT ![m] = TRUE]
    /\ state' = [state EXCEPT ![m] = "Menu"]
    /\ game_reset(m)
    /\ c' = [c EXCEPT ![m] = One]
    /\ \E raised \in BOOLEAN :
           notified' = [notified EXCEPT ![m] = raised /\ rbr[m] # NoByte]
    /\ UNCHANGED <<rbr, line>>

-----------------------------------------------------------------------------
(* The timer interrupt on the game screen.                                 *)

check_game_end(m) == pos[m] = Goal

\* Mutated form of WinGame: only the host announces its victory.
HostAloneAnnounces(m) ==
    /\ gameState[m] = "Running" /\ check_game_end(m)
    /\ gameState' = [gameState EXCEPT ![m] = "Finish"]
    /\ won' = [won EXCEPT ![m] = TRUE]
    /\ line' = IF isMultiplayer[m] /\ m = Host
               THEN [line EXCEPT ![Peer(m)] = Append(@, "L")]
               ELSE line

\* The frame that finds the hero at the exit: the game is won and, when it
\* is a multiplayer game, the peer is told that it lost.
WinGame(m) ==
    /\ gameState[m] = "Running" /\ check_game_end(m)
    /\ gameState' = [gameState EXCEPT ![m] = "Finish"]
    /\ won' = [won EXCEPT ![m] = TRUE]
    /\ line' = IF isMultiplayer[m]
               THEN [line EXCEPT ![Peer(m)] = Append(@, "L")]
               ELSE line

\* Any other frame only draws.
DrawGame(m) ==
    /\ gameState[m] = "Running" => ~check_game_end(m)
    /\ UNCHANGED <<gameState, won, line>>

game_main_loop(m) ==
    /\ running[m] /\ state[m] = "Game"
    /\ WinGame(m) \/ DrawGame(m)
    /\ UNCHANGED <<running, state, isMultiplayer, pos>>
    /\ UNCHANGED port

-----------------------------------------------------------------------------
(* The cable and the serial interrupt.                                     *)

\* A byte reaches the receive register of m.  The code never turns the
\* UART's FIFO on: a byte that was not read yet is overwritten.
Arrive(m) ==
    /\ line[m] # <<>>
    /\ Paced => ~notified[m]
    /\ rbr' = [rbr EXCEPT ![m] = Head(line[m])]
    /\ line' = [line EXCEPT ![m] = Tail(@)]
    /\ notified' = [notified EXCEPT ![m] = running[m]]
    /\ UNCHANGED c /\ UNCHANGED player

Noise(m) ==
    /\ LineNoise
    /\ OnCable < LineDepth
    /\ line' = [line EXCEPT ![m] = Append(@, "NUL")]
    /\ UNCHANGED player /\ UNCHANGED port

can_enter_multiplayer(m) == gameState[m] = "Waiting"
can_lose(m) == gameState[m] = "Running"

\* Mutated forms of Activates: the host, too, asks whether it still waits;
\* the client does not ask.
HostAsksFirst(m, b) ==
    /\ can_enter_multiplayer(m)
    /\ \/ m = Client /\ b = "M"
       \/ m = Host /\ b = "S"

NobodyAsks(m, b) ==
    \/ m = Client /\ b = "M"
    \/ m = Host /\ b = "S"

\* Which characters activate a multiplayer game.  The host asks nothing of
\* its own state.
Activates(m, b) ==
    \/ m = Client /\ b = "M" /\ can_enter_multiplayer(m)
    \/ m = Host /\ b = "S"

\* Mutated form of Loses: a client that does not listen.
HostAloneLoses(m, b) == m = Host /\ b = "L" /\ can_lose(m)

Loses(m, b) == b = "L" /\ can_lose(m)

\* Mutated form of Reply: the isMultiplayer test is missing.
ReplyFromMenu(m) == <<Hello(m)>>

\* The bytes game_activate_multiplayer answers with.
Reply(m) == IF isMultiplayer[m] THEN <<Hello(m)>> ELSE <<>>

\* The three things the handler does with the character it holds; rest is
\* what the handler leaves on the cable.
Dispatch(m, b, rest) ==
    \/ /\ Activates(m, b)
       /\ gameState' = [gameState EXCEPT ![m] = "Running"]
       /\ line' = [line EXCEPT ![m] = rest, ![Peer(m)] = @ \o Reply(m)]
       /\ UNCHANGED won
    \/ /\ Loses(m, b)
       /\ gameState' = [gameState EXCEPT ![m] = "Finish"]
       /\ won' = [won EXCEPT ![m] = FALSE]
       /\ line' = [line EXCEPT ![m] = rest]
    \/ /\ ~Activates(m, b) /\ ~Loses(m, b)
       /\ line' = [line EXCEPT ![m] = rest]
       /\ UNCHANGED <<gameState, won>>

\* What receive leaves in c: the first byte queued, or the old value when
\* the register was already empty.
received(m) == IF rbr[m] = NoByte THEN c[m] ELSE rbr[m]

\* How many further bytes ser_ih may find while it empties the register.
\* clear_receive_queue throws these away.
Overtaken(m) ==
    IF Paced \/ rbr[m] = NoByte THEN {0} ELSE 0 .. Len(line[m])

\* The serial branch of a notification.
ServeByte(m) ==
    /\ notified[m] /\ c[m] # "NUL"
    /\ c' = [c EXCEPT ![m] = received(m)]
    /\ rbr' = [rbr EXCEPT ![m] = NoByte]
    /\ \E n \in Overtaken(m) :
        /\ notified' = [notified EXCEPT ![m] = n > 0 /\ running'[m]]
        /\ Dispatch(m, received(m), SubSeq(line[m], n + 1, Len(line[m])))
    /\ UNCHANGED <<state, isMultiplayer, pos>>

SerialInterrupt(m) ==
    /\ running[m]
    /\ UNCHANGED running
    /\ ServeByte(m)

\* Once c holds a NUL, the guard c != 0 skips the whole handler for good.
DeafInterrupt(m) ==
    /\ running[m] /\ notified[m] /\ c[m] = "NUL"
    /\ notified' = [notified EXCEPT ![m] = FALSE]
    /\ UNCHANGED <<c, rbr, line>> /\ UNCHANGED player

\* A notification still pending dies with the program.
Unserved(m) ==
    /\ notified' = [notified EXCEPT ![m] = FALSE]
    /\ UNCHANGED <<state, gameState, isMultiplayer, won, pos, c, rbr, line>>

\* The entry "Exit", chosen in the timer branch.  The loop ends, but only
\* after the serial branch of the same notification.
exit_game(m) ==
    /\ running[m] /\ state[m] = "Menu"
    /\ running' = [running EXCEPT ![m] = FALSE]
    /\ Unserved(m) \/ ServeByte(m)

-----------------------------------------------------------------------------
Menu(m) == \/ single_player(m) \/ multiple_player(m)
           \/ how_to(m) \/ exit_game(m)

\* What the players decide.
User(m) == EscKey(m) \/ game_keyboard_handler(m) \/ Menu(m) \/ Restart(m)

\* What the machines do by themselves.
System(m) == \/ game_main_loop(m) \/ Arrive(m) \/ Noise(m)
             \/ SerialInterrupt(m) \/ DeafInterrupt(m)

Next == \E m \in Machine : User(m) \/ System(m)

\* The timer never stops, the UART shifts every byte out, and driver_receive
\* returns every notification.  Nothing is assumed of the players.
Fairness == \A m \in Machine : /\ WF_vars(game_main_loop(m))
                               /\ WF_vars(Arrive(m))
                               /\ WF_vars(SerialInterrupt(m))
                               /\ WF_vars(DeafInterrupt(m))

Spec == Init /\ [][Next]_vars
FairSpec == Spec /\ Fairness

-----------------------------------------------------------------------------
(* What the program is checked for.                                        *)

CharValue == Byte \cup {One}
Phase == {"Waiting", "Running", "Finish"}

\* Every variable keeps to its C type, and the hero inside the maze.
TypeOK ==
    /\ running \in [Machine -> BOOLEAN]
    /\ state \in [Machine -> {"Menu", "Game", "HowTo"}]
    /\ gameState \in [Machine -> Phase]
    /\ isMultiplayer \in [Machine -> BOOLEAN]
    /\ won \in [Machine -> BOOLEAN]
    /\ pos \in [Machine -> 0 .. Goal]
    /\ c \in [Machine -> CharValue]
    /\ rbr \in [Machine -> Byte \cup {NoByte}]
    /\ notified \in [Machine -> BOOLEAN]
    /\ line \in [Machine -> Seq(Byte)]

\* m plays, or waits to play, a multiplayer game.
InMatch(m) == state[m] = "Game" /\ isMultiplayer[m]

\* m shows "Waiting for Player 2".
Waits(m) == InMatch(m) /\ gameState[m] = "Waiting"

\* m shows "YOU WON" after a multiplayer game.
Winner(m) == InMatch(m) /\ gameState[m] = "Finish" /\ won[m]

Carries(bytes, b) == \E i \in 1 .. Len(bytes) : bytes[i] = b

\* A byte b is on its way to m: on the cable, or received and to be served.
Pending(m, b) == (notified[m] /\ rbr[m] = b) \/ Carries(line[m], b)

\* The handshake of multiple_player and game_activate_multiplayer: when both
\* machines are in the match and the client still waits, then the byte that
\* lets it in is coming, or the one that makes the host send it.  This must
\* survive both players leaving and coming back in any order, with bytes of
\* their earlier matches still on the cable.
ClientIsNeverStranded ==
    Waits(Client) /\ InMatch(Host) => Pending(Client, "M") \/ Pending(Host, "S")

\* The announcement of game_main_loop: a player who still races against a
\* player who already won is about to be told.  The 'L' may not be used up
\* by an earlier state of the loser, and a late 'M' or 'S' may not start the
\* loser again behind it.
WinnerIsAnnounced ==
    \A m \in Machine :
        Winner(m) /\ InMatch(Peer(m)) /\ gameState[Peer(m)] = "Running"
            => Pending(Peer(m), "L")

\* Only leaving to the menu ends the result screen of the client: no byte,
\* however late, starts its game again (can_enter_multiplayer).
ClientFinishIsFinal ==
    [][state[Client] = "Game" /\ gameState[Client] = "Finish"
           /\ gameState'[Client] # "Finish"
           => state'[Client] = "Menu" /\ gameState'[Client] = "Waiting"]_vars

\* A machine that is not in a multiplayer game puts nothing on the cable: a
\* single player's victory is not announced, and a call answered on the menu
\* is not answered until the player chooses to play (the isMultiplayer tests
\* of game_main_loop and game_activate_multiplayer).
QuietOutsideMatch ==
    [][\A m \in Machine :
           LET sent == line'[Peer(m)]
           IN Len(sent) > Len(line[Peer(m)]) /\ sent[Len(sent)] # "NUL"
                  => state'[m] = "Game" /\ isMultiplayer'[m]]_vars

\* When both players stay in the match, the client gets in.
ClientGetsIn ==
    <>[](InMatch(Host) /\ InMatch(Client)) => <>[](~Waits(Client))

\* When a winner and its opponent stay, the opponent's race ends.
RaceIsDecided ==
    \A m \in Machine :
        <>[](Winner(m) /\ InMatch(Peer(m)))
            => <>[](gameState[Peer(m)] # "Running")

-----------------------------------------------------------------------------
(* The match that the players see.                                         *)

\* The bytes that m has not read yet, on the cable and in the register.
Mail(m) == IF rbr[m] = NoByte THEN line[m] ELSE <<rbr[m]>> \o line[m]

PlaceOf(m) == IF state[m] # "Game" THEN "away"
              ELSE IF isMultiplayer[m] THEN "match" ELSE "alone"

PhaseOf(m) == CASE gameState[m] = "Waiting" -> "waiting"
                [] gameState[m] = "Running" -> "racing"
                [] OTHER -> IF won[m] THEN "won" ELSE "lost"

TheMatch == INSTANCE Match WITH place <- [m \in Machine |-> PlaceOf(m)],
                                phase <- [m \in Machine |-> PhaseOf(m)],
                                mail <- [m \in Machine |-> Mail(m)]

\* The whole of it, cable, register, interrupts and screens, is a match by
\* mail: proj_main_loop, the menu's callbacks and game.c take no message
\* twice, make none up, send none from the menu, and start and end a race by
\* the rules of Match.
IsMatch == TheMatch!Spec

-----------------------------------------------------------------------------
(* Why the announcements arrive: the invariant that LCOMazeProofs shows    *)
(* inductive for a paced line without noise.                               *)

\* The menu remembers nothing of the last game, and only the menu is left
\* behind by exit_game.
MenuIsReset ==
    \A m \in Machine : /\ ~running[m] => state[m] = "Menu"
                       /\ state[m] # "Game" => ~isMultiplayer[m] /\ ~won[m]

\* The serial handler is never called in vain, nor turned off by a NUL.
PortIsSound ==
    \A m \in Machine : /\ notified[m] => rbr[m] # NoByte
                       /\ c[m] # "NUL" /\ rbr[m] # "NUL"
                       /\ \A i \in 1 .. Len(line[m]) : line[m][i] # "NUL"

\* m would be lost to the match, playing by itself or switched off.
Apart(m) == ~running[m] \/ (state[m] = "Game" /\ ~isMultiplayer[m])

\* Every call of m among these bytes is followed by its announcement.
Announced(m, bytes) ==
    \A i \in 1 .. Len(bytes) :
        bytes[i] = Hello(m) => \E j \in i + 1 .. Len(bytes) : bytes[j] = "L"

\* What m has put on its way to its peer once it won: the 'L' lies behind
\* every 'M' or 'S', so the peer it starts again still has it before it.
WinnerHasToldOf(m, p) ==
    /\ gameState[p] = "Running" /\ ~Apart(p) => Pending(p, "L")
    /\ rbr[p] = Hello(m) => Carries(line[p], "L")
    /\ Announced(m, line[p])

\* The inductive invariant.
IInv ==
    /\ MenuIsReset
    /\ PortIsSound
    /\ ClientIsNeverStranded
    /\ \A m \in Machine : Winner(m) => WinnerHasToldOf(m, Peer(m))

=============================================================================
