# LCOMaze in TLA+

TLA+ modules, TLC runs and TLAPS proofs for LCOMaze, a maze game for MINIX that two
PCs can play against each other over a serial cable. The modules are translated from
the C code under `src/src`; paths below are relative to that directory, and
`README.md:n` is the program's own README, `src/README.md`.

1. The system and its components
2. The modules, and how they correspond to the code
3. The runs: questions, bounds, fairness
4. The proofs
5. Where the program and its documents part
6. What is not modelled
7. The plan

## 1. The system

The program is one process without threads. `proj_main_loop` (proj.c) waits for
interrupt notifications and runs, for each interrupt, one handler to its end. What
interleaves is therefore: the two machines, the two directions of the cable, the two
players, on one machine the order in which its devices raise interrupts, and, inside a
handler, the hardware that goes on while the handler reads its ports.

| Component | State | Operations | Hard part |
|---|---|---|---|
| Game core: proj.c, game/game.c, game/menu.c | `running`, `state` (Menu, Game, HowTo), `gameState` (Waiting, Running, Finish), `isMultiplayer`, `won`, `x`, `y` | menu callbacks, ESC, movement keys, one frame per timer tick, the serial branch | a match is a protocol of single bytes, `M`/`S` (I want to play) and `L` (I won, you lost), between two machines that start, leave and restart at any time |
| Serial port: controllers/serial.c | UART registers, two queues, the character `c` of the main loop | `ser_ih`, `receive`, `clear_receive_queue`, `sp_send_int` | bytes overwritten, thrown away, served twice; a polling loop in a handler; queues that are never freed |
| Character queue: data_structures/queue.c | ring buffer | `new_queue`, `push`, `top`, `pop`, `empty` | wrap, full, empty, no memory |
| Maze generation: game/maze.c, data_structures/stack.c | cells with four walls and a mark, a stack | `generate_maze` | both cells must agree on a wall; every cell must be joined |
| Maze solution: game/maze.c, data_structures/linked_list.c | `dist`, `prev`, a linked list | `get_solution`, `linked_list_push`, `_remove`, `_contains`, `get_minimum_distance` | `dist + 1` at `INT_MAX`, NULL result, removing the first, the last or the only node |
| Hero: game/game.c | `x`, `y`, `delta` | `game_keyboard_handler`, `check_collision`, `check_game_end` | four probes stand for a disc, at any angle |
| Game clock: controllers/rtc.c, game/game.c | `time_stamp`, `time_initial`, `time_final`, two flags | `update`, `check_time`, `calculate_time` | BCD, rollovers, which frame's time is kept |
| Mouse: controllers/mouse.c | the shared output buffer, `current_byte`, `byte_index`, `mouse_bytes`, `mouse_packet` | `mouse_ih`, `sync_bytes`, `create_packet`, commands | packets out of step, stale bytes |
| Pointer and buttons: game/game.c, game/menu.c | `x_mouse`, `y_mouse`, `update_delta` | mouse handlers, `handle_mouse_click` | a click that is older than the screen it falls on |
| Keyboard: controllers/keyboard.c | `kbd_value` | `kbd_ih` | a stale scan code after an error |
| Timer: controllers/timer.c | the 8254's counters | `timer_set_frequency`, `timer_get_conf` | five port accesses, any of which fails; keeps part of the old configuration |
| Start and end: proj.c | what is subscribed | subscribing, unsubscribing | an error half way |
| Graphics: controllers/graphics.c, game/info.c | frame buffers | drawing | - |

How they interact. Every handler runs in the main loop, so components share their
globals without locks: the serial branch and the timer branch both write `gameState`;
the keyboard writes `x`, `y` that the timer branch tests; the RTC branch writes
`time_stamp` that the timer branch copies. The core calls the maze once, before the
loop starts. `sp_send_int` is called from the timer branch (menu callback, victory) and
from the serial branch (the answer to a call), and polls the UART until the byte is
out.

What makes each component correct:

- *Core*: a call or an announcement that a player still needs is on its way; a result
  is final; nothing goes out from outside a match.
- *Serial port*: no byte stays unread for want of an interrupt; an overrun has no
  lasting effect, and costs at most one repeated call; each byte is sent once while there
  is memory; no handler spins for ever.
- *Queue*: a bounded first-in first-out buffer.
- *Maze*: a spanning tree of the grid, with walls both cells agree on; its solution is
  the shortest way.
- *Hero*: no step through a wall, no victory from behind one, every maze can be won.
- *Clock*: the time shown is the time that passed.
- *Mouse and keyboard*: no byte reaches the wrong handler; back in step after a fault;
  nothing aims without the button.
- *Timer*: the loop ticks at the rate asked for, and nothing else of the timer changes.
- *Start and end*: a program that ends well undoes what it set up, but for the timer's
  rate and the UART's interrupt, which the code never undoes.

## 2. The modules

| Module | What it is |
|---|---|
| `LCOMaze` | the core on two machines and the cable between them |
| `Match` | what the core promises: a match in which every word is a letter |
| `LCOMazeClaims` | what the documents say of a match and the program does not keep |
| `LCOMazeProofs` | proofs about `LCOMaze`, and that it implements `Match` |
| `SerialPort`, `MCSerialPort` | serial.c on one machine, port read by port read; extends `CharQueue`. `SerialPortProofs` the proofs |
| `CharQueue` | queue.c; `Fifo` is what it promises, `CharQueueProofs` the proof |
| `MazeGeneration` | generate_maze; `SpanningTree` is what it promises. `MazeProofs` the proofs, of the solution too |
| `LinkedList` | linked_list.c: the list and its pointers |
| `MazeSolver` | get_solution, on the mazes of `MazeGeneration`, with a `LinkedList` |
| `MazeWalk`, `MazeWalkProofs` | the hero, in the maze of `MazeGeneration` that `MazeSolver` has solved |
| `GameClock`, `MCGameClock` | the RTC and the times of a game. `GameClockProofs` the proofs |
| `InputDevices`, `MCInputDevices` | mouse and keyboard: interrupts, packets, pointer, buttons. `InputDevicesProofs` the proofs |
| `Timer` | timer.c, port access by port access, and the 8254 |
| `Session`, `MCSession` | the program from start to end, the mouse commands, and `Timer` inside it. `SessionProofs` the proofs |

`PROJECT.json` gives, for each definition, the lines it stands for.

### LCOMaze

Each variable is a function of the machine. `pos` stands for (`x`, `y`): the number of
steps from the start, `Goal` at the exit; what a step may do inside the maze is in
`MazeWalk`. `c` is the local `char c` of `proj_main_loop`, which keeps its value from
one interrupt to the next. `rbr` is the UART's receive register, `notified` the pending
notification, `line[m]` the bytes that travel to `m`.

One action is one handler, and one branch of a handler where the code branches:

| Action | Code |
|---|---|
| `EscKey`, `game_keyboard_handler` | keyboard branch; the movement keys work in every `gameState`, as in the code |
| `single_player`, `multiple_player`, `how_to`, `exit_game` | a timer tick that finds a menu entry clicked. `exit_game` ends the loop |
| `Restart` | the program is run again: fresh variables, while the UART and the cable keep what they hold |
| `game_main_loop` | a timer tick on the game screen (`WinGame`, `DrawGame`) |
| `Arrive`, `Noise` | the cable and the UART (external). The FIFO is never enabled, so an unread byte is overwritten |
| `SerialInterrupt`, `DeafInterrupt` | the serial branch: `receive`, the three tests on `c`, `clear_receive_queue`; or nothing, once `c` is NUL |

`SerialInterrupt` is the sequence of `ser_ih`, `receive`, dispatch and
`clear_receive_queue` (`ServeByte`). The first byte found is served. With an empty
register `c` is served again. `Overtaken` are bytes that arrive while `ser_ih` still
loops; they are thrown away. `SerialPort` breaks the same sequence into its port reads.
`exit_game` ends the loop, but not before the serial branch of the same notification has
run: a byte may still be served, and answered, by a program whose player has left.

`Match` is the specification of this exchange without registers, interrupts and a cable:
each player is away, alone or in the match, each game is waiting, racing, won or lost,
and between the two players there are messages, read once and in order. `TheMatch` is the
mapping: `Mail` puts together what is in the register and on the cable. It is implemented
on a paced line without noise; what the other lines keep is in `core_any_line`.

Two constants choose the line. `Paced` means that a loop serves each byte before the
next one arrives: two bytes for the same machine are
normally a human decision apart, so this is the ordinary case; `Paced = FALSE` is the
general one. `LineNoise` allows NUL
bytes.

### SerialPort

One machine, but each read of a port is a step, so that the UART can receive or finish
sending between any two. `pc` says where the thread is. The character queue is not an
abstraction of it: `push`, `top`, `pop` and `empty` of `CharQueue` are the steps. The
characters are the numbers in which they come, so that a character says which byte it
was. `alone` remembers that the last byte came to an idle program, `crowded` how many
bytes came during a handler, and `repeats` how many handlers found no byte and served the
one of the handler before.

`memory` is what the heap still holds, counted in queues, from the constant `Memory` on.
`sp_send_int` allocates a queue and never frees it; a frame of the result screen
(`calculate_time`) leaks two of its strings, and takes the room of a queue now and then.
A call that gets no queue reports success and sends nothing; `calls` counts it too, and
`unsent` these alone.

### The maze

`MazeGeneration` has one action per turn of the while loop: `Carve` (an unvisited
neighbour is chosen; `rand()` is a free choice) and `Backtrack`. `wall[cell]` is the set
of the four flags that are set. `SpanningTree` is the abstract specification: a set of
reached nodes to which one node and one edge are added at a time; `GrowsTree` is the
refinement, with the visited cells as nodes and the pairs of cells with an open side
between them (`Edges`) as edges.

`MazeSolver` adds `get_solution`, a step for each turn of its loop: the nearest cell is
taken out of the list (`Relax`), the exit is found (`Found`) and the way traced back
(`Trace`). Its list is a `LinkedList` with `head`, `last`, `next` and `size`, in which a
node goes by the name of its cell, since no cell is pushed twice.

`MazeWalk` adds the hero, who starts when `init_game` is done. Lengths are counted in
units of 8 1/3 pixels: a cell of 100 pixels is 12 units and a reach of 25 is 3. A step of
10 pixels at any angle is any displacement of up to `Stride` = 2 units each way, which is
more than the code allows. Divisions round down as the integer division of `get_cell`
does.

### GameClock

The real-time clock (external) counts seconds in BCD registers; `update` copies them to
`time_stamp`. `game_main_loop` calls `check_time` and, on the winner's result screen,
`calculate_time`, whose `"%x"`/`atoi` round trip is `Decimal`. While `time_stamp` is all
zero, before the first update interrupt and during the first second of a day,
`check_time` reads the registers one by one, and the second may end between two of these
reads (`CheckedOverATick`, `get_time_direct`). The match events are free, guarded as in
`LCOMaze`. History variables say when things really happened, and which of the two times
kept is read in two different seconds (`torn`). `Late` is by how much a time kept may be
wrong: by the second whose interrupt is still to come, and, if torn, by the minute or the
hour that ended between the reads as well. `TimeIsAccurate` allows no more than that.

### InputDevices

The keyboard controller has one output buffer for both devices; bit 5 of its status says
whose byte it is. An interrupt raised is served later, with the other one or alone, and
may then find nothing, or the byte of the other device, or a byte with an error flag,
which the handler leaves where it is. What the controller does with such a byte is
external: it raises the interrupt once more or gives the byte up. A packet is three bytes
with bit 3 set in the first, and the program may begin with interrupts raised before and
an acknowledgement left behind by `mouse_send_command`.

The mouse branch calls `game_mouse_handler` or `menu_mouse_handler` at each interrupt,
not at each packet. The pointer is followed in one dimension, in half pixels as the
motion is halved, off the screen too, up to `Far`; the buttons are intervals of rows.
`calm` counts the whole packets since the last fault.

### Session

`Script` is the list of the calls that `proj_main_loop` makes before its loop and behind
it, each with what it sets up or takes away; `pc` is the place in it and `set` what is set
up now. A call may fail, and then the program returns at once, or nobody notices
(`Unchecked`: `set_update`, `clean_update`, `sp_enable_int`, `sp_unsubscribe`). The two
mouse commands are taken apart into their attempts: `output` is the one output buffer of
the keyboard controller, in which a byte of the moving mouse or a scan code may stand
where `mouse_send_command` looks for its acknowledgement; any port access of an attempt,
the reading of the response among them, may fail (`CommandFails`). `Left` is what the
code never takes back: the timer's rate and the interrupt that the UART was told to
raise. `RunAgain` starts the program
on the same PC; interrupt policies and the mapping have gone with the process, what the
devices were told stays.

`timer_set_frequency` is taken apart too: `Timer` has a step for each of its port
accesses (read-back command, status, control word, LSB, MSB) and the counters of the 8254
behind them, with the byte they expect next, their mode and base, and a latched status.
Each access may fail; the counter then keeps what it was told, across runs of the
program. The requests are the one that proj.c makes, and two that timer.c accepts and
refuses.

## 3. The runs

| Run | Question | Bounds | States |
|---|---|---|---|
| `core_safety` | Do calls and announcements always reach a player who still needs them, whatever both players do? | 3 bytes on the cable when a player opens a match, 1 step to the exit | 1.7 M |
| `core_liveness` | Does a client that stays get in, does a race with a winner end? Do two machines and a cable implement `Match`? | 1 byte, fair | 0.26 M |
| `core_any_line` | What is left with overrun bytes and NULs? | 1 byte, not paced, noise | 2.1 M |
| `claim_one_winner`, `claim_both_get_in`, `claim_clock`, `claim_pointer` | see section 5 | | |
| `serial_port` | Does the driver come back to rest after any overrun, how often does it act on a byte twice, which sends are lost; is the ring a queue? | 5 bytes, 3 sends, memory for 2, a queue of 2 | 0.68 M |
| `maze` | Is every maze a spanning tree, is it solved with a sound list, can the hero cross a wall, and can every maze be won? | 4 x 3 cells of 12 units | 47 k |
| `game_clock` | Is the time right? | 5 seconds, from 5 times of the day | 0.83 M |
| `input` | Does each byte reach its handler, does the packet assembly recover, does only the button aim? | packets and keys of `MCInputDevices`, 2 pixels | 2.1 M |
| `session` | Does a program that ends well undo all but the timer's rate and the UART's interrupt; does it tick at the right rate; do stale bytes make a mouse command fail? | 3 attempts, 1 key, 3 requests | 0.37 M |

Why the bounds are enough. *Core*: an announcement makes at most one answer, so three
bytes are a call, an answer and an `L` of an earlier match all under way; the bound
stops only the players (who may not open a match while more is on the cable), never a
handler. One step to the exit separates "at the start" from "at the exit", and nothing
in the core distinguishes more. *Serial port*: a queue of two is filled, refused and
wrapped by the three bytes that one handler can find; five bytes leave enough to see the
next byte after that come alone; memory for two queues runs out before the third send,
and earlier when frames leak. *Maze*: 4 x 3 cells have inner cells with four neighbours,
corners and borders, dead ends that force the search back several levels, lists from
which the first, the last, an inner and the only node are removed, and every way to
stand in front of a wall; the unit divides every length that the code compares except
the step, which is rounded up. `INT_MAX` is 99, far above every distance. *Clock*: the
registers are read one by one only while the stamp is zero, so the program
starts in the last second of a minute, of an hour and of a day, where such a read can be
torn, one second before the end of a day, and in the middle of a minute. *Input*:
packets that look like first bytes in every position and packets that do not, the button
up and down, motion up and down, and a button for each screen; two faults and more,
since nothing counts them. *Session*: in the code there are 10 attempts and the number
of keys is not bounded; what `PatienceFits` asks is that fewer keys come during one
command than there are attempts to spare, and 3 attempts leave exactly the one that the
last key does not use up. The lowest frequency needs a divisor of almost 16 bits, with
both bytes different.

Deadlock is checked in the runs of the core, of the maze and of the session. It is off in
the others, which come to rest: a clock stopped by its bound, a program that was left by
its menu (`input`), a cable that fell silent.

Fairness. `LCOMaze`: the timer interrupt never stops (`game_main_loop`), the UART shifts
its bytes out (`Arrive`), and `driver_receive` returns every notification
(`SerialInterrupt`, `DeafInterrupt`); each is weakly fair on each machine. Nothing is
assumed of the players: the liveness properties are about players who stay.
`SerialPort`: the thread runs and the transmitter finishes the byte it was given.
`MazeSolver` and `MazeWalk`: the loops of `init_game` run on (`InitGame`). `Session`: the
program runs on (`Program`, not the loop, which lasts as long as the player wants), and
the delay of `mouse_send_command` lets the mouse send its byte (`MouseByteComes`).
`InputDevices` and `GameClock` claim no progress and assume none.

## 4. The proofs

TLAPS proves the following for all values of the constants; TLC checks the same formulas
on the small instances.

- `LCOMazeProofs`. `TypeCorrect`: types, for any line. `InvariantHolds`: `[]IInv`, for a
  paced line without noise (the assumptions are in the statement; the number of bytes
  and the length of the maze are arbitrary). From it `ClientIsLetIn` and
  `WinnerIsHeard`, the two safety properties of the match. `ClientStaysFinished` and
  `OnlyPlayersSend` are action properties and hold for any line. `PlaysTheMatch`: the
  two machines, their registers and their cable implement `Match`.
- `CharQueueProofs`. `RingHolds`: the indices and the counter agree. `QueueIsFifo`: the
  ring implements `Fifo`, for every size and alphabet, also when its allocation failed.
- `SerialPortProofs`. `PortInvHolds`: `[]PortInv`, for any number of characters on the
  cable, any size of the queue and of the heap; from it `NoByteIsForgotten`,
  `AloneByteIsServed`, `OnlyCrowdedBytesRepeat` (`RepeatsAreCrowded`) and `BytesGoOut`
  (`SentWhileMemoryLasts`). `PortQueueIsFifo`: every step of the port is a call of its queue or
  none, so `QueueIsFifo` holds of the queue inside. `HandlersRunOut`: while a handler
  runs every step, of the UART too, lowers `Effort`, a natural number.
- `MazeProofs`, for every width and height. Of the generation `TypeCorrect`,
  `WallsStayAgreed`, `NothingIsLeftBehind`, `SearchGrowsTree` (generate_maze implements
  `SpanningTree`) and `MazeIsPerfect` (`PerfectMaze`). Of the solution, in every maze
  that can be made, `SearchIsNeverLost` (`NeverLost`), `SearchIsExact`
  (`DistancesAreExact`), `ListStaysSound` (`ListIsSound`) and `SolutionLeadsHome`
  (`SolutionIsTheWay`); the one assumption is that INT_MAX exceeds the number of cells
  (`DistancesFit`). `SearchRunsOut`: until the solution is returned a loop can take a
  turn, and every turn lowers `Todo`, a natural number.
- `GameClockProofs`. `TimeShownIsAccurate` (`TimeIsAccurate`), from any second of any day
  on and for any length of a run.
- `InputDevicesProofs`. `NoByteIsMistaken`, `KeepsInStep` and `AimsWithButton`, for every
  set of packets and scan codes that can be told apart, every screen and every menu.
- `MazeWalkProofs`. `HeroStaysInMaze`, `WallsAreSolid` (`NoPhasing`), `ExitIsNear`
  (`ExitIsAtHand`) and `EveryOpenSideIsAWay` (`MazeCanBeWon`), for every maze that
  `generate_maze` can make and all sizes of cell, hero and stride that `LengthsFit`
  allows. `SolutionIsWalkable`: what `get_solution` returns can be walked by the hero,
  from the middle of each cell to the middle of the next without a collision.
- `SessionProofs`. `TicksAtTheRate` and `KeepsTheModes` for every request whose divisor
  has 16 bits and every configuration that counts in binary (`TimerFits`);
  `RestoresAllButTwo` (`EndRestoresAllButTwo`); `HasPatience` for every number of
  attempts and keys that `PatienceFits` allows. `CallsRunOut`: outside the main loop
  every step lowers `StepsLeft`, a natural number.

The argument for the core. `WinnerIsAnnounced` alone is not inductive: while the `L` is
on the cable, a late `M` or `S` in front of it may start the loser again, and one behind
it would start it for good. `IInv` therefore says that everything a winner has sent that
could start its peer again lies in front of an `L` (`Announced`), that a byte in the
receive register always has its notification and is never NUL (`PortIsSound`), and that
a machine on the menu has forgotten its last game (`MenuIsReset`). It has one lemma per
conjunct, and for the winners one lemma per machine that moves.

The argument for the serial port. `PortInv` says how far the handler has got with a byte
that came alone (`AloneOnItsWay`: in the register, then alone in the queue, then in the
result of `top`, then in `c`), which needs that the queue is empty between two handlers
(`RestsEmpty`), which is what `clear_receive_queue` is for. A byte that comes during the
handler is not alone; it either meets the loop of `ser_ih` or raises an interrupt.
`RepeatsAreCrowded` is not inductive: a byte read by the loop of `ser_ih` leaves an
interrupt behind whose handler is still to find nothing. `RepeatsAreDue` counts these
handlers (`EmptyHandlers`) with the ones that have found nothing already.

The argument for the maze. Both marks of a wall are removed together, and a side and its
opposite lead there and back (`BackAgain`), so `WallsAgree` is inductive by itself.
`NothingLeftBehind` needs that the stack holds visited cells (`StackIsVisited`): a
cell leaves the stack only when it has no unvisited neighbour, and a visited cell never
becomes unvisited. `SearchGrowsTree` uses the same strengthening: the cell a passage
starts from is on the stack, hence in the tree, and the cell it leads to is not.
`PerfectMaze` needs three facts more of the middle of the search: an unvisited cell has
all its walls (`Closed`); every set of cells that holds the start and that no passage
leaves holds all visited cells (`Joined`, connectedness without an induction over
walks); and the open sides are two for each visited cell but the first
(`PassagesCounted`). When the stack is empty nothing visited borders on anything
unvisited, so all cells are visited. `Walk` grows by a cell with each step until it is
closed (`WalkGrows`), so after as many steps as there are cells it is all of them.

The argument for the solution. `DistancesAreExact` is the correctness of Dijkstra's
search, and no property of the list or of one cell is inductive alone. `SolverInv` has,
beside what is known of the maze and of the arrays before the search (`Fresh`): the nodes
are linked in the order in which they were pushed, and the exit is still among them
(`NodesInv`); a distance below INT_MAX is that of a walk, the searched cells are those
nearest to the start, and what a searched cell opens to is at most one further
(`DistInv`); `prev` leads through an open side to a searched cell one nearer
(`PrevInv`); and the part of the solution already pushed is such a way back from the exit
(`TraceInv`). A walk of some length ends at a cell whose distance is at most that, or
has passed an unsearched cell whose distance is (`NoWayIsShorter`), and no unsearched
cell is nearer than the searched ones. `NeverLost`
comes from `PerfectMaze`: were every node in the list at distance INT_MAX, the searched
cells would be closed and would not hold the exit. The pointers of a list are described
by the sequence they lead through (`Leads`): a pushed node is appended to it
(`PushLeads`) and a removed one missing from it (`RemoveLeads`).

`Walk`, `Items` and `Pushed` are recursive functions over the numbers. The prover cannot
use the library's induction, whose theorems take an operator; it can use a set. `LeastOf`
takes the least number of a set, `SetInduction` shows that a set closed under the
successor holds all numbers, and `Recursion` that a recursive function over a given set
exists and obeys its equation; each of the three functions is unfolded by that lemma
(`WalkIs`, `ItemsUnfold`, `PushedLeads`).

The argument for the hero. The four probes of `check_collision` stand beside the hero,
not at the corners, and only the place after the step is asked about. A step to the next
column or row shows two of them the side it goes through, one before and one after
(`Crossed`, `FreeSides`). A step across a corner would find all four passages around it
open, and the search never opens them (`NoRing`): the last one would lead into a
cell that still has all its walls (`Closed`), and both passages of that cell would have
to be open already. The hero stands where nothing collides (`Free`), and no step of the
search puts a wall back. For the exit, the hero diagonally before the last cell sees both
cells between open; one of them leads on (`ExitHasADoor`), because the last cell was
visited (`NothingLeftBehind`) and a visited cell has an open side (`Entered`).

The argument for the clock. The stamp is the time of this second or, while the update
interrupt is still pending, that of the last one (`StampIsFresh`), so a frame keeps its
own second or the one before. A direct read that a second ends in the middle of keeps the
new seconds with the old minutes or the new minutes with the old hours: what it lacks of
the right time is exactly the minute or the hour that ended (`ReadOverATick`). So a time
kept is its own second less what `Late` allows (`InitialIsKept`, `FinalIsKept`); what is
shown is the difference of the two (`ShownIsKept`) and stays so, since a time once kept is
kept until the reset that also takes away what is shown. That the registers are BCD and
the sum is of hours, minutes and seconds is undone by `ElapsedIs`.

The argument for the match. The byte in the register is the oldest message (`MailShape`),
so that `Arrive` changes nothing and a byte served is a message read; a byte sent is the
youngest one (`MailSent`). `PortIsSound` gives that an interrupt finds its byte, so that
`c` is never served twice, and `MenuIsReset` that a player who is away has no result. The
proof has one case per action of a machine.

The argument for the input. `InStep` by itself says nothing of the middle of a packet.
`Aligned` says, for each number of bytes that the program has not had yet, at which index
it stands and which bytes it holds, as long as no fault is remembered. After a fault the
index may be anything; two packets whose motion bytes lack bit 3 are what `sync_bytes`
needs to be at index 0 again.

The argument for the session. `TimerInv` says, for each port access that may be next,
what the counter has been told so far; whatever an earlier run left half done, the
control word makes the counter expect the low byte. A status still latched from a run
that failed shows the same mode and base as a fresh one, because nothing ever changes
these. `EndRestoresAllButTwo` is proved along the script: every mark but those of `Left`
that the start sets is taken away by a call behind the loop (`Kept`), while the marks of
`Left`, once set, are there at every later place, since no call takes them away.
For `HasPatience` the invariant counts the bytes that may still stand before the
acknowledgement: the one from before, one per key, and each attempt uses one up.

The arguments for what ends. TLAPS has no rule for fairness, but of a property like
`SolutionIsFound` that is the smaller part; the larger is that no step goes on for ever
without headway. `Todo`, `Effort` and `StepsLeft` are natural numbers that each step
lowers. A cell is pushed and popped once by `generate_maze`, removed once by
`get_solution`, and pushed once to the solution; the trace is bounded by the distance of
the exit, which is not known before it is found (`ToTrace`). A byte of the cable costs
its arrival, its place in the queue and a turn of `clear_receive_queue`, and the queue
is not empty when a character is dropped (`DropsSomething`). An attempt of
`mouse_send_command` is worth more than the bytes that can come between two of its port
accesses, and a call of the script more than what is ever left of one (`WithinCall`).

Only model-checked: the liveness properties themselves. For `SolutionIsFound`,
`HandlerEnds` and `ComesToAnEnd` what is left to TLC is that a step that can be taken is
taken at last; for `ClientGetsIn` and
`RaceIsDecided` everything is.

## 5. Where the program and its documents part

Shown by runs:

- *Two winners* (`claim_one_winner`). README.md:67 says that the faster player wins.
  Each machine decides at its own exit, and an `L` that finds a finished game is ignored.
- *A host that waits for ever* (`claim_both_get_in`). README.md:236 says that the
  exchange of bytes starts the game on both machines. A running client ignores `M`
  without an answer, so a host that left and came back is not let in.
- *The time of a race* (`claim_clock`). README.md:139 says that the duration of gameplay
  is measured accurately; the frames that show "Waiting for Player 2" count as well.
- *A click that moves the pointer* (`claim_pointer`). README.md:216 says that the pointer
  moves by the amount the mouse has moved. The mouse branch adds the motion of the last
  whole packet at every interrupt, so each motion counts three times, the last two times
  during the next packet, even if that has none.

Read in the code while modelling, and visible in the models:

- A single player can lose: README.md:66 describes a game whose goal is the exit, but the
  branch for `L` (proj.c:151-156) does not ask whether the game is a match.
- A late `S` starts a host again that already shows its result (proj.c:148): the test of
  proj.c:144 has no counterpart. `ClientFinishIsFinal` is stated for the client only.
- "Running: Both players are playing the game" is not true of the code: each machine is
  Running when it received a call, whether or not its own player is in the match.
- The hero can be moved while the machine still waits.
- On a line that is not paced the last `L` may be served twice, in two games: a byte that
  comes during a handler may leave behind an interrupt whose handler finds nothing and
  serves the old `c` again, once for each such byte at most (`RepeatsAreCrowded`).
- `sp_send_int` never frees the queue it allocates, and `calculate_time` leaks two strings
  in each frame of the winner's result. Once the heap is used up every send is lost and
  reported as done (`SentWhileMemoryLasts`).
- A time read from the registers before the first update interrupt, just as a minute or
  an hour ends, is wrong by that minute or hour (`Late`).
- After a NUL the serial branch is off until the program ends (`RaceIsDecided` and
  `NoByteForgotten` exclude it).
- An acknowledgement that comes after its attempt has ended, or a motion byte of the same
  value, is taken for the answer to the next attempt or command.
- A program that ends with an error leaves behind what it had set up: the mouse
  reporting, the graphics mode, the RTC's updates. The timer's rate and the UART's
  interrupt are not restored by a program that ends well either (`Left`,
  `EndRestoresAllButTwo`).
- A run that fails between the control word and the last byte of the divisor leaves the
  counter of the operating system's clock waiting; nothing repairs it (`PortFails`).
- After an error the keyboard branch handles the last key again: an ESC leaves a game
  that was begun since (`KeyboardBranch`).
- The pointer's bounds are XResolution and YResolution, one pixel past the last
  (`OnScreen`), and only the menu applies them.
- README.md:109 speaks of a timer of 20 Hz; proj.c:70 asks for 45.
- linked_list.c is sound as `get_solution` uses it. Pushing to a list whose last node was
  removed, or `linked_list_pop_last` on a list of one, would not be; the program does
  neither.
- A game over midnight shows a negative time (`TimeIsAccurate` is modulo a day).

## 6. What is not modelled

Drawing (graphics.c, info.c, the field of view, the hero's animation): no other component
reads it. Errors of `sys_inb`/`sys_outb` outside the start and the end: the handlers
ignore most of them, and a PC does not produce them. Memory: modelled where running
out of it changes what a caller sees, the allocation of a queue (`CharQueue`) and the
sends that find none (`SerialPort`, from `Memory` on). A frame of the result screen that
finds no memory for its own strings, which `calculate_time` does not test, is not
modelled, and `LCOMaze` assumes that memory lasts for its match. Counters of the 8254 that
count in BCD: `TimerFits` leaves them out, and with them what the driver makes of the BCD
bit. The horizontal coordinate of the pointer, which is
treated as the vertical one is; the other two buttons. `timer_display_conf`,
`linked_list_first`, `linked_list_last`, `linked_list_pop_first`, `linked_list_pop_last`
and `stack_top`, which are never called. The vendored MINIX headers, the generated
documentation and the images are not part of the program's logic; they are almost all of
the repository's lines.

## 7. The plan

Done: every component with a state that decides something, each with its inductive
invariant and its proofs; the refinements of the match, the queue and the tree; the
measures by which the search, the handlers and the start and end run out.

Next, in this order:

1. *Race*: a measure for `ClientGetsIn` and `RaceIsDecided`, from the bytes on their way
   that `ClientIsNeverStranded` and `WinnerIsAnnounced` already name.
2. *Overruns*: how much of `WinnerIsAnnounced` a line that is not paced still keeps.
