---------------------------- MODULE InputDevices ----------------------------
(***************************************************************************)
(* The keyboard branch and the mouse branch of proj_main_loop.  Both       *)
(* devices hand their bytes over in the one output buffer of the keyboard  *)
(* controller: kbd_ih and mouse_ih take a byte or leave it there, packets  *)
(* are put together byte by byte, and the pointer, the button and the      *)
(* screen shown follow.  The mouse, the keyboard and the controller are    *)
(* external.  Of the pointer only y_mouse is kept (x_mouse is treated the  *)
(* same way), counted in half pixels because a motion is multiplied by     *)
(* 0.5.                                                                    *)
(***************************************************************************)
EXTENDS Integers, Sequences

CONSTANTS
    Packets,    \* what the mouse may send: three bytes each
    Keys,       \* the scan codes used, ESC among them
    Height,     \* 2 * mode_info.YResolution
    Far,        \* bound: how far off the screen y_mouse is followed
    Buttons     \* the rows of the menu's buttons: [row -> state or "none"]

Byte == 0 .. 255

Bit0(byte) == byte % 2 = 1
Bit3(byte) == (byte \div 8) % 2 = 1
Bit5(byte) == (byte \div 32) % 2 = 1

Esc == 129                          \* 0x81
Ack == 250                          \* 0xFA

States == {"Menu", "Game", "HowTo", "Off"}

\* The first byte of a packet has bit 3 set; no key looks like a byte of the
\* mouse, so that a byte read by the wrong handler can be told.
ASSUME BytesAreBytes ==
    /\ Packets \subseteq Byte \X Byte \X Byte
    /\ Keys \subseteq Byte /\ Esc \in Keys
    /\ \A packet \in Packets : /\ Bit3(packet[1])
                               /\ \A i \in 1 .. 3 : packet[i] \notin Keys
    /\ Ack \notin Keys /\ 0 \notin Keys

ASSUME ScreenAssumption ==
    /\ Height \in Nat /\ Far \in Nat
    /\ Buttons \in [0 .. Height -> {"Game", "HowTo", "Off", "none"}]

VARIABLES
    sent,           \* the packet the mouse sends, or sent last
    left,           \* how many of its bytes are still in the mouse
    buffer,         \* the output buffer: what is in it, and whether BIT(5)
                    \* of the status says that it comes from the mouse
    irq,            \* interrupts raised and not yet notified
    notified,       \* branches of this notification still to come
    kbd_value,
    current_byte,
    byte_index,
    mouse_bytes,
    mouse_packet,
    state,
    update_delta,
    y_mouse,
    calm            \* history: how many packets came whole, and without
                    \* motion bytes that look like a head, since the last
                    \* fault; -1 while the packet of the fault lasts

device == <<sent, left, buffer, irq>>
mouse == <<current_byte, byte_index, mouse_bytes, mouse_packet>>
view == <<state, update_delta, y_mouse>>
vars == <<device, notified, kbd_value, mouse, view, calm>>

Empty == [from |-> "none", byte |-> 0]
Zeros == <<0, 0, 0>>
Enough == 2

\* How many bytes of the packet the program has not had yet.
Rest == left + (IF buffer.from = "mouse" THEN 1 ELSE 0)

\* The program at the start of the main loop.  mouse_send_command may have
\* read bytes whose interrupts are still raised, and may have left the second
\* acknowledgement behind: it then comes as the tail of no packet at all.
Init ==
    /\ irq \in SUBSET {"kbd", "mouse"} /\ notified = {}
    /\ buffer = Empty
    /\ \/ sent = Zeros /\ left = 0 /\ calm = Enough
       \/ sent = <<0, 0, Ack>> /\ left = 1 /\ calm = -1
    /\ kbd_value = 0 /\ current_byte = 0 /\ byte_index = 0
    /\ mouse_bytes = Zeros /\ mouse_packet = Zeros
    /\ state = "Menu" /\ update_delta = FALSE /\ y_mouse = 0

-----------------------------------------------------------------------------
(* The devices.                                                            *)

\* The mouse was moved or clicked.
Moved ==
    /\ Rest = 0
    /\ sent' \in Packets
    /\ left' = 3
    /\ UNCHANGED <<buffer, irq, notified, kbd_value, mouse, view, calm>>

\* The controller takes a byte from the mouse, or a scan code, into the empty
\* buffer and raises the interrupt of the device.
MouseByteComes ==
    /\ left > 0 /\ buffer = Empty
    /\ buffer' = [from |-> "mouse", byte |-> sent[4 - left]]
    /\ left' = left - 1
    /\ irq' = irq \union {"mouse"}
    /\ UNCHANGED <<sent, notified, kbd_value, mouse, view, calm>>

KeyComes ==
    /\ buffer = Empty
    /\ \E key \in Keys : buffer' = [from |-> "kbd", byte |-> key]
    /\ irq' = irq \union {"kbd"}
    /\ UNCHANGED <<sent, left, notified, kbd_value, mouse, view, calm>>

Fault == calm' = IF Rest' = 0 THEN 0 ELSE -1

\* A byte that its handler left unread: the controller raises the interrupt
\* once more, or gives the byte up.
Unread == buffer # Empty /\ buffer.from \notin irq \union notified

RaisedAgain ==
    /\ Unread
    /\ irq' = irq \union {buffer.from}
    /\ UNCHANGED <<sent, left, buffer, notified, kbd_value, mouse, view, calm>>

GivenUp ==
    /\ Unread
    /\ buffer' = Empty
    /\ UNCHANGED <<sent, left, irq, notified, kbd_value, mouse, view>>
    /\ IF buffer.from = "mouse" THEN Fault ELSE UNCHANGED calm

-----------------------------------------------------------------------------
(* One notification: the keyboard branch first, then the mouse branch.     *)

Receive ==
    /\ state # "Off" /\ notified = {} /\ irq # {}
    /\ notified' = irq /\ irq' = {}
    /\ UNCHANGED <<sent, left, buffer, kbd_value, mouse, view, calm>>

\* Mutated form of KeyReady: the AUX bit is not looked at.
AnythingReady == buffer # Empty

\* kbd_ih takes the byte if the buffer is full and BIT(5) is clear.
KeyReady == buffer.from = "kbd"

\* game_reset and state = Menu for the ESC key; game_keyboard_handler moves
\* the hero and aims (MazeWalk), which leaves nothing here.
KeyHandled ==
    /\ state' = IF kbd_value' = Esc THEN "Menu" ELSE state
    /\ UNCHANGED <<update_delta, y_mouse>>

\* The keyboard branch.  After an error, or with the input buffer full,
\* kbd_ih returns without a byte and the last key is handled once more.
KeyboardBranch ==
    /\ "kbd" \in notified
    /\ notified' = notified \ {"kbd"}
    /\ \/ KeyReady /\ kbd_value' = buffer.byte /\ buffer' = Empty
       \/ UNCHANGED <<kbd_value, buffer>>
    /\ KeyHandled
    /\ UNCHANGED <<sent, left, irq, mouse, calm>>

\* mouse_ih takes the byte if the buffer is full and BIT(5) is set.
ByteReady == buffer.from = "mouse"

\* Mutated form of Stored: any byte may come first.
AnyFirst(byte) == TRUE

\* sync_bytes keeps a byte unless it stands first and has no bit 3.
Stored(byte) == byte_index > 0 \/ Bit3(byte)

\* sync_bytes, and create_packet at the third byte.
Collect(byte) ==
    IF Stored(byte)
    THEN /\ mouse_bytes' = [mouse_bytes EXCEPT ![byte_index + 1] = byte]
         /\ byte_index' = IF byte_index = 2 THEN 0 ELSE byte_index + 1
         /\ mouse_packet' = IF byte_index = 2 THEN mouse_bytes' ELSE mouse_packet
    ELSE UNCHANGED <<mouse_bytes, byte_index, mouse_packet>>

LeftButton(packet) == Bit0(packet[1])

\* delta_y is 0xFF00 | byte in 16 bits when the sign bit is set.
DeltaY(packet) == IF Bit5(packet[1]) THEN packet[3] - 256 ELSE packet[3]

Between(low, n, high) == IF n < low THEN low ELSE IF n > high THEN high ELSE n

\* game_check_bound.
OnScreen(row) == Between(0, row, Height)

\* Where the pointer goes: menu_mouse_handler keeps it on the screen,
\* game_mouse_handler does not, and "How to Play" has no pointer.
Pointed ==
    LET row == y_mouse - DeltaY(mouse_packet')
    IN CASE state = "Game" -> Between(-Far, row, Height + Far)
         [] state = "Menu" -> OnScreen(row)
         [] OTHER -> y_mouse

\* Mutated form of MouseHandled: only a pressed button is written.
MouseHandledOn ==
    /\ y_mouse' = Pointed
    /\ update_delta' = (update_delta \/ (state = "Game" /\ LeftButton(mouse_packet')))
    /\ UNCHANGED state

\* game_mouse_handler or menu_mouse_handler, at every interrupt, with the
\* last whole packet.
MouseHandled ==
    /\ y_mouse' = Pointed
    /\ update_delta' = IF state = "Game" THEN LeftButton(mouse_packet') ELSE update_delta
    /\ UNCHANGED state

Plain(packet) == ~Bit3(packet[2]) /\ ~Bit3(packet[3])

MouseBranch ==
    /\ "mouse" \in notified /\ "kbd" \notin notified
    /\ notified' = notified \ {"mouse"}
    /\ UNCHANGED <<sent, left, irq, kbd_value>>

\* The mouse branch with a byte.
ByteRead ==
    /\ MouseBranch
    /\ ByteReady
    /\ current_byte' = buffer.byte
    /\ buffer' = Empty
    /\ Collect(current_byte')
    /\ MouseHandled
    /\ calm' = IF left > 0 \/ calm = Enough THEN calm
               ELSE IF calm = -1 \/ ~Plain(sent) THEN 0 ELSE calm + 1

\* The mouse branch without one: mouse_ih returns early for a parity or a
\* timeout error, or finds no byte of the mouse, and the byte before is
\* collected once more.
NothingRead ==
    /\ MouseBranch
    /\ Collect(current_byte)
    /\ MouseHandled
    /\ UNCHANGED <<buffer, current_byte>>
    /\ Fault

-----------------------------------------------------------------------------
(* The timer branch.                                                       *)

\* menu_main_loop: the button under the pointer is pressed; x_mouse may be
\* beside it.  "Off" leaves the main loop for good.
MenuFrame ==
    /\ state = "Menu" /\ notified = {}
    /\ LeftButton(mouse_packet)
    /\ y_mouse \in 0 .. Height /\ Buttons[y_mouse] # "none"
    /\ state' = Buttons[y_mouse]
    /\ UNCHANGED <<device, notified, kbd_value, mouse, update_delta, y_mouse, calm>>

\* game_main_loop of a running match.
GameFrame ==
    /\ state = "Game" /\ notified = {}
    /\ y_mouse' = OnScreen(y_mouse)
    /\ UNCHANGED <<device, notified, kbd_value, mouse, state, update_delta, calm>>

Next ==
    \/ Moved \/ MouseByteComes \/ KeyComes \/ RaisedAgain \/ GivenUp
    \/ Receive \/ KeyboardBranch \/ ByteRead \/ NothingRead
    \/ MenuFrame \/ GameFrame

Spec == Init /\ [][Next]_vars

-----------------------------------------------------------------------------

MouseByte == {0, Ack} \union UNION {{packet[i] : i \in 1 .. 3} : packet \in Packets}
SomePacket == MouseByte \X MouseByte \X MouseByte

TypeOK ==
    /\ sent \in SomePacket /\ left \in 0 .. 3
    /\ buffer \in {Empty} \union [from : {"mouse"}, byte : MouseByte]
                            \union [from : {"kbd"}, byte : Keys]
    /\ irq \subseteq {"kbd", "mouse"} /\ notified \subseteq {"kbd", "mouse"}
    /\ kbd_value \in Byte /\ current_byte \in Byte
    /\ byte_index \in 0 .. 2
    /\ mouse_bytes \in Byte \X Byte \X Byte
    /\ mouse_packet \in Byte \X Byte \X Byte
    /\ state \in States /\ update_delta \in BOOLEAN
    /\ y_mouse \in -Far .. Height + Far
    /\ calm \in -1 .. Enough

\* Two devices share one output buffer and interrupts may be stale, but no
\* scan code becomes part of a packet and no byte of the mouse is taken for a
\* key (the tests of BIT(5) in kbd_ih and mouse_ih).
NoByteMistaken ==
    /\ kbd_value \in Keys \union {0}
    /\ current_byte \in MouseByte
    /\ mouse_bytes \in SomePacket

\* Between two packets the program has the button and the motion that the
\* mouse sent last.  A lost, a doubled or an invented byte puts it out of
\* step, but two packets that cannot be mistaken bring it back, and then it
\* stays in step whatever the bytes look like (the bit 3 test of sync_bytes).
InStep ==
    calm = Enough /\ Rest = 0 => byte_index = 0 /\ mouse_packet = sent

\* "A click of the left mouse button" aims the hero (src/README.md:216):
\* in the game nothing aims while the button is up, although update_delta
\* lives on in the menu, where no handler writes it, and is not reset by ESC.
AimNeedsButton ==
    state = "Game" /\ calm = Enough /\ Rest = 0 /\ ~LeftButton(sent) => ~update_delta

\* "The new mouse position based on the old position and on the amount the
\* mouse has moved" (README): a packet without motion, received in step,
\* leaves a pointer on the screen where it is.  The code applies the packet
\* before once more at its first two bytes.
ClickMovesNothing ==
    [][ByteRead /\ calm = Enough /\ DeltaY(sent) = 0 /\ y_mouse \in 0 .. Height
        => y_mouse' = y_mouse]_vars

=============================================================================
