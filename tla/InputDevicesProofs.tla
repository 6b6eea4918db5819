------------------------- MODULE InputDevicesProofs -------------------------
(***************************************************************************)
(* Theorems about InputDevices, for every set of packets and scan codes,   *)
(* every screen and every layout of the menu.                              *)
(***************************************************************************)
EXTENDS InputDevices, TLAPS

USE DEF Enough, Ack, Esc

-----------------------------------------------------------------------------
(* Types.                                                                  *)

\* Every byte that the mouse can send is a byte and no scan code.
LEMMA MouseBytes ==
    /\ MouseByte \subseteq Byte
    /\ Packets \subseteq SomePacket
    /\ Zeros \in SomePacket /\ <<0, 0, Ack>> \in SomePacket
    /\ SomePacket \subseteq Byte \X Byte \X Byte
<1>1. ASSUME NEW packet \in Packets, NEW i \in 1 .. 3
      PROVE  packet[i] \in MouseByte
      BY DEF MouseByte
<1>2. MouseByte \subseteq Byte
      BY BytesAreBytes DEF MouseByte, Byte
<1>3. ASSUME NEW packet \in Packets PROVE packet \in SomePacket
  <2>1. packet[1] \in MouseByte /\ packet[2] \in MouseByte /\ packet[3] \in MouseByte
        BY <1>1
  <2> QED BY <2>1, BytesAreBytes DEF SomePacket
<1>4. 0 \in MouseByte /\ Ack \in MouseByte
      BY DEF MouseByte
<1> QED BY <1>2, <1>3, <1>4 DEF SomePacket, Zeros

\* Where the pointer may be.
LEMMA OnScreenType ==
    ASSUME NEW row \in Int PROVE OnScreen(row) \in 0 .. Height
BY ScreenAssumption DEF OnScreen, Between

LEMMA FarType ==
    ASSUME NEW row \in Int
    PROVE  Between(-Far, row, Height + Far) \in -Far .. Height + Far
BY ScreenAssumption DEF Between

LEMMA DeltaYType ==
    ASSUME NEW packet \in Byte \X Byte \X Byte PROVE DeltaY(packet) \in Int
BY DEF DeltaY, Byte

\* sync_bytes and create_packet keep the index inside the array.
LEMMA CollectType ==
    ASSUME TypeOK, NEW byte \in Byte, Collect(byte)
    PROVE  /\ byte_index' \in 0 .. 2
           /\ mouse_bytes' \in Byte \X Byte \X Byte
           /\ mouse_packet' \in Byte \X Byte \X Byte
<1>1. CASE Stored(byte)
  <2>1. byte_index \in {0, 1, 2}
        BY DEF TypeOK
  <2>2. mouse_bytes' = [mouse_bytes EXCEPT ![byte_index + 1] = byte]
        BY <1>1 DEF Collect
  <2>3. mouse_bytes' \in Byte \X Byte \X Byte
        BY <2>1, <2>2 DEF TypeOK
  <2> QED BY <1>1, <2>1, <2>3 DEF Collect, TypeOK
<1>2. CASE ~Stored(byte)
      BY <1>2 DEF Collect, TypeOK
<1> QED BY <1>1, <1>2

\* The mouse handlers write a button and a position.
LEMMA HandledType ==
    ASSUME TypeOK, mouse_packet' \in Byte \X Byte \X Byte, MouseHandled
    PROVE  state' \in States /\ update_delta' \in BOOLEAN /\ y_mouse' \in -Far .. Height + Far
<1>1. y_mouse \in Int
      BY ScreenAssumption DEF TypeOK
<1>2. y_mouse - DeltaY(mouse_packet') \in Int
      BY <1>1, DeltaYType
<1>3. Pointed \in -Far .. Height + Far
  <2>1. CASE state = "Game"
        BY <2>1, <1>2, FarType DEF Pointed
  <2>2. CASE state = "Menu"
    <3>1. OnScreen(y_mouse - DeltaY(mouse_packet')) \in 0 .. Height
          BY <1>2, OnScreenType
    <3> QED BY <2>2, <3>1, ScreenAssumption DEF Pointed
  <2>3. CASE state # "Game" /\ state # "Menu"
        BY <2>3 DEF Pointed, TypeOK
  <2> QED BY <2>1, <2>2, <2>3
<1>4. LeftButton(mouse_packet') \in BOOLEAN
      BY DEF LeftButton, Bit0
<1> QED BY <1>3, <1>4 DEF MouseHandled, TypeOK

LEMMA InitType == Init => TypeOK
<1> SUFFICES ASSUME Init PROVE TypeOK
    OBVIOUS
<1>1. /\ sent \in SomePacket
      /\ mouse_bytes \in Byte \X Byte \X Byte
      /\ mouse_packet \in Byte \X Byte \X Byte
      BY MouseBytes DEF Init
<1>2. left \in 0 .. 3 /\ calm \in -1 .. Enough
      BY DEF Init
<1>3. y_mouse \in -Far .. Height + Far
      BY ScreenAssumption DEF Init
<1>4. kbd_value \in Byte /\ current_byte \in Byte /\ byte_index \in 0 .. 2
      BY DEF Init, Byte
<1> QED BY <1>1, <1>2, <1>3, <1>4 DEF Init, TypeOK, States

LEMMA NextType == TypeOK /\ [Next]_vars => TypeOK'
<1> SUFFICES ASSUME TypeOK, [Next]_vars PROVE TypeOK'
    OBVIOUS
<1> USE DEF device, mouse, view
<1>1. CASE Moved
      BY <1>1, MouseBytes DEF Moved, TypeOK
<1>2. CASE MouseByteComes
  <2>1. left \in {1, 2, 3}
        BY <1>2 DEF MouseByteComes, TypeOK
  <2>2. sent[4 - left] \in MouseByte
        BY <2>1 DEF TypeOK, SomePacket
  <2> QED BY <1>2, <2>1, <2>2 DEF MouseByteComes, TypeOK
<1>3. CASE KeyComes
      BY <1>3 DEF KeyComes, TypeOK
<1>4. CASE RaisedAgain
      BY <1>4 DEF RaisedAgain, Unread, TypeOK, Empty
<1>5. CASE GivenUp
      BY <1>5 DEF GivenUp, Unread, TypeOK, Empty, Fault
<1>6. CASE Receive
      BY <1>6 DEF Receive, TypeOK
<1>7. CASE KeyboardBranch
  <2>1. kbd_value' \in Byte /\ buffer' \in {Empty, buffer}
        BY <1>7, BytesAreBytes DEF KeyboardBranch, KeyReady, TypeOK, Empty
  <2>2. state' \in States
        BY <1>7 DEF KeyboardBranch, KeyHandled, TypeOK, States
  <2>3. notified' \subseteq {"kbd", "mouse"}
        BY <1>7 DEF KeyboardBranch, TypeOK
  <2> QED BY <1>7, <2>1, <2>2, <2>3 DEF KeyboardBranch, KeyHandled, TypeOK
<1>8. CASE ByteRead
  <2>1. buffer.byte \in Byte
        BY <1>8, MouseBytes DEF ByteRead, ByteReady, TypeOK, Empty
  <2>2. Collect(buffer.byte)
        BY <1>8 DEF ByteRead
  <2>3. /\ byte_index' \in 0 .. 2
        /\ mouse_bytes' \in Byte \X Byte \X Byte
        /\ mouse_packet' \in Byte \X Byte \X Byte
        BY <2>1, <2>2, CollectType
  <2>4. state' \in States /\ update_delta' \in BOOLEAN /\ y_mouse' \in -Far .. Height + Far
        BY <1>8, <2>3, HandledType DEF ByteRead
  <2>5. calm' \in -1 .. Enough
        BY <1>8 DEF ByteRead, TypeOK
  <2> QED BY <1>8, <2>1, <2>3, <2>4, <2>5 DEF ByteRead, MouseBranch, TypeOK
<1>9. CASE NothingRead
  <2>1. current_byte \in Byte /\ Collect(current_byte)
        BY <1>9 DEF NothingRead, TypeOK
  <2>2. /\ byte_index' \in 0 .. 2
        /\ mouse_bytes' \in Byte \X Byte \X Byte
        /\ mouse_packet' \in Byte \X Byte \X Byte
        BY <2>1, CollectType
  <2>3. state' \in States /\ update_delta' \in BOOLEAN /\ y_mouse' \in -Far .. Height + Far
        BY <1>9, <2>2, HandledType DEF NothingRead
  <2> QED BY <1>9, <2>2, <2>3 DEF NothingRead, MouseBranch, TypeOK, Fault
<1>10. CASE MenuFrame
  <2>1. Buttons[y_mouse] \in States
        BY <1>10, ScreenAssumption DEF MenuFrame, States
  <2> QED BY <1>10, <2>1 DEF MenuFrame, TypeOK
<1>11. CASE GameFrame
  <2>1. y_mouse \in Int
        BY ScreenAssumption DEF TypeOK
  <2>2. OnScreen(y_mouse) \in 0 .. Height
        BY <2>1, OnScreenType
  <2> QED BY <1>11, <2>2, ScreenAssumption DEF GameFrame, TypeOK
<1>12. CASE UNCHANGED vars
      BY <1>12 DEF vars, TypeOK
<1> QED BY <1>1, <1>2, <1>3, <1>4, <1>5, <1>6, <1>7, <1>8, <1>9, <1>10, <1>11, <1>12 DEF Next

\* The variables of the two handlers keep their types (mouse.c:3-7).
THEOREM TypeCorrect == Spec => []TypeOK
<1>1. Init => TypeOK
      BY InitType
<1>2. TypeOK /\ [Next]_vars => TypeOK'
      BY NextType
<1> QED BY <1>1, <1>2, PTL DEF Spec

-----------------------------------------------------------------------------
(* Whose byte it is.                                                       *)

LEMMA NextMistaken == TypeOK /\ NoByteMistaken /\ [Next]_vars => NoByteMistaken'
<1> SUFFICES ASSUME TypeOK, NoByteMistaken, [Next]_vars PROVE NoByteMistaken'
    OBVIOUS
<1> USE DEF device, mouse, view
<1>1. ASSUME NEW byte \in MouseByte, Collect(byte)
      PROVE  mouse_bytes' \in SomePacket
  <2>1. byte_index \in {0, 1, 2}
        BY DEF TypeOK
  <2>2. CASE Stored(byte)
    <3>1. mouse_bytes' = [mouse_bytes EXCEPT ![byte_index + 1] = byte]
          BY <1>1, <2>2 DEF Collect
    <3> QED BY <2>1, <3>1 DEF NoByteMistaken, SomePacket
  <2>3. CASE ~Stored(byte)
        BY <1>1, <2>3 DEF Collect, NoByteMistaken
  <2> QED BY <2>2, <2>3
<1>2. CASE KeyboardBranch
  <2>1. kbd_value' \in Keys \union {0}
        BY <1>2 DEF KeyboardBranch, KeyReady, TypeOK, Empty, NoByteMistaken
  <2> QED BY <1>2, <2>1 DEF KeyboardBranch, NoByteMistaken
<1>3. CASE ByteRead
  <2>1. buffer.byte \in MouseByte /\ Collect(buffer.byte)
        BY <1>3 DEF ByteRead, ByteReady, TypeOK, Empty
  <2> QED BY <1>1, <1>3, <2>1 DEF ByteRead, MouseBranch, NoByteMistaken
<1>4. CASE NothingRead
  <2>1. current_byte \in MouseByte /\ Collect(current_byte)
        BY <1>4 DEF NothingRead, NoByteMistaken
  <2> QED BY <1>1, <1>4, <2>1 DEF NothingRead, MouseBranch, NoByteMistaken
<1>5. CASE UNCHANGED <<kbd_value, mouse>>
      BY <1>5 DEF NoByteMistaken
<1> QED BY <1>2, <1>3, <1>4, <1>5
        DEF Next, vars, Moved, MouseByteComes, KeyComes, RaisedAgain, GivenUp,
            Receive, MenuFrame, GameFrame

\* No scan code becomes part of a packet, no byte of the mouse is taken for a
\* key (the tests of BIT(5) in kbd_ih and mouse_ih), whatever interrupts come.
THEOREM NoByteIsMistaken == Spec => []NoByteMistaken
<1>1. Init => NoByteMistaken
      BY MouseBytes DEF Init, NoByteMistaken, MouseByte
<1>2. TypeOK /\ NoByteMistaken /\ [Next]_vars => NoByteMistaken'
      BY NextMistaken
<1> QED BY <1>1, <1>2, TypeCorrect, PTL DEF Spec

-----------------------------------------------------------------------------
(* In step with the mouse.                                                 *)

\* What InStep needs to be inductive: where the program stands in the packet
\* that is on its way, and, after one fault-free packet that cannot be
\* mistaken, why it must have found the first byte again.
Aligned ==
    /\ buffer.from = "mouse" => left \in 0 .. 2 /\ buffer.byte = sent[3 - left]
    /\ Rest = 0 \/ calm = -1 \/ Bit3(sent[1])
    /\ calm >= 1 /\ Rest = 0 => byte_index = 0
    /\ calm >= 1 /\ Rest > 0 =>
           /\ byte_index = 3 - Rest
           /\ byte_index >= 1 => mouse_bytes[1] = sent[1]
           /\ byte_index >= 2 => mouse_bytes[2] = sent[2]
    /\ calm = Enough /\ Rest = 0 => mouse_packet = sent
    /\ calm = 0 /\ Rest = 1 /\ Plain(sent) => byte_index # 1

LEMMA InitAligned == Init => Aligned
BY DEF Init, Aligned, Rest, Empty, Zeros

\* The bytes of a packet, read one after the other.
LEMMA ByteReadAligned ==
    ASSUME TypeOK, Aligned, ByteRead
    PROVE  Aligned'
<1> DEFINE byte == buffer.byte
<1>1. left \in {0, 1, 2} /\ byte = sent[3 - left] /\ Rest = left + 1
      BY DEF ByteRead, ByteReady, Aligned, Rest
<1>2. /\ left' = left /\ sent' = sent /\ buffer' = Empty /\ Rest' = left
      /\ Collect(byte)
      /\ calm' = IF left > 0 \/ calm = Enough THEN calm
                 ELSE IF calm = -1 \/ ~Plain(sent) THEN 0 ELSE calm + 1
      BY <1>1 DEF ByteRead, MouseBranch, Rest, Empty
<1>3. byte_index \in {0, 1, 2} /\ calm \in {-1, 0, 1, 2}
      BY DEF TypeOK
<1>4. mouse_bytes = <<mouse_bytes[1], mouse_bytes[2], mouse_bytes[3]>>
      BY DEF TypeOK
<1>5. sent = <<sent[1], sent[2], sent[3]>>
      BY DEF TypeOK, SomePacket
<1>6. calm # -1 => Bit3(sent[1])
      BY <1>1 DEF Aligned
<1>7. /\ Stored(byte) => /\ mouse_bytes' = [mouse_bytes EXCEPT ![byte_index + 1] = byte]
                         /\ byte_index' = IF byte_index = 2 THEN 0 ELSE byte_index + 1
                         /\ mouse_packet' = IF byte_index = 2 THEN mouse_bytes' ELSE mouse_packet
      /\ ~Stored(byte) => byte_index' = byte_index
      BY <1>2 DEF Collect
<1>8. CASE calm >= 1
  <2>1. byte_index = 2 - left
        BY <1>1, <1>3, <1>8 DEF Aligned
  <2>2. Stored(byte)
        BY <1>1, <1>3, <1>6, <1>8, <2>1 DEF Stored
  <2>3. calm' \in {0, 1, 2} /\ (left > 0 => calm' = calm)
        BY <1>2, <1>3, <1>8, <1>1
  <2>4. CASE left = 2
    <3>1. mouse_bytes'[1] = sent[1] /\ byte_index' = 1
          BY <1>1, <1>3, <1>4, <1>7, <2>1, <2>2, <2>4
    <3> QED BY <1>2, <1>6, <1>8, <2>3, <2>4, <3>1, <1>3 DEF Aligned, Empty
  <2>5. CASE left = 1
    <3>1. mouse_bytes[1] = sent[1]
          BY <1>1, <1>3, <1>8, <2>1, <2>5 DEF Aligned
    <3>2. mouse_bytes'[1] = sent[1] /\ mouse_bytes'[2] = sent[2] /\ byte_index' = 2
          BY <1>1, <1>3, <1>4, <1>7, <2>1, <2>2, <2>5, <3>1
    <3> QED BY <1>2, <1>6, <1>8, <2>3, <2>5, <3>2, <1>3 DEF Aligned, Empty
  <2>6. CASE left = 0
    <3>1. mouse_bytes[1] = sent[1] /\ mouse_bytes[2] = sent[2]
          BY <1>1, <1>3, <1>8, <2>1, <2>6 DEF Aligned
    <3>2. byte_index' = 0 /\ mouse_packet' = mouse_bytes'
          BY <1>7, <2>1, <2>2, <2>6
    <3>3. mouse_bytes' = <<sent[1], sent[2], sent[3]>>
          BY <1>1, <1>4, <1>7, <2>1, <2>2, <2>6, <3>1
    <3> QED BY <1>2, <1>5, <2>3, <2>6, <3>2, <3>3 DEF Aligned, Empty
  <2> QED BY <1>1, <2>4, <2>5, <2>6
<1>9. CASE calm = 0
  <2>1. Plain(sent) /\ left = 1 => byte_index' # 1
    <3>1. ASSUME Plain(sent), left = 1 PROVE ~Bit3(byte)
          BY <1>1, <3>1 DEF Plain
    <3> QED BY <1>3, <1>7, <3>1 DEF Stored
  <2>2. Plain(sent) /\ left = 0 => byte_index' = 0
    <3>1. ASSUME Plain(sent), left = 0 PROVE ~Bit3(byte) /\ byte_index # 1
          BY <1>1, <1>9, <3>1 DEF Plain, Aligned
    <3> QED BY <1>3, <1>7, <3>1 DEF Stored
  <2>3. calm' \in {0, 1} /\ (calm' = 1 => left = 0 /\ Plain(sent))
        BY <1>1, <1>2, <1>9
  <2>4. Plain(sent)' = Plain(sent)
        BY <1>2 DEF Plain
  <2> QED BY <1>1, <1>2, <1>6, <1>9, <2>1, <2>2, <2>3, <2>4 DEF Aligned, Empty
<1>10. CASE calm = -1
  <2>1. calm' \in {-1, 0} /\ (calm' = 0 => left = 0)
        BY <1>1, <1>2, <1>10
  <2> QED BY <1>1, <1>2, <2>1 DEF Aligned, Empty
<1> QED BY <1>3, <1>8, <1>9, <1>10

LEMMA NextAligned == TypeOK /\ Aligned /\ [Next]_vars => Aligned'
<1> SUFFICES ASSUME TypeOK, Aligned, [Next]_vars PROVE Aligned'
    OBVIOUS
<1> USE DEF device, mouse, view
<1>1. CASE Moved
  <2>1. left = 0 /\ buffer.from # "mouse" /\ Rest = 0
        BY <1>1 DEF Moved, Rest, TypeOK
  <2>2. left' = 3 /\ Rest' = 3 /\ buffer' = buffer
        BY <1>1, <2>1 DEF Moved, Rest
  <2>3. Bit3(sent'[1])
        BY <1>1, BytesAreBytes DEF Moved
  <2>4. calm' >= 1 => byte_index' = 0
        BY <1>1, <2>1 DEF Moved, Aligned
  <2> QED BY <1>1, <2>1, <2>2, <2>3, <2>4 DEF Moved, Aligned
<1>2. CASE MouseByteComes
  <2>1. left \in {1, 2, 3} /\ left' = left - 1
        BY <1>2 DEF MouseByteComes, TypeOK
  <2>2. Rest' = Rest /\ Plain(sent)' = Plain(sent)
        BY <1>2, <2>1 DEF MouseByteComes, Rest, Empty, Plain
  <2>3. buffer'.byte = sent'[3 - left'] /\ left' \in 0 .. 2
    <3>1. 4 - left = 3 - left'
          BY <2>1
    <3> QED BY <1>2, <2>1, <3>1 DEF MouseByteComes
  <2> QED BY <1>2, <2>2, <2>3 DEF MouseByteComes, Aligned
<1>3. CASE KeyComes
  <2>1. Rest' = Rest /\ Plain(sent)' = Plain(sent) /\ buffer'.from = "kbd"
        BY <1>3 DEF KeyComes, Rest, Empty, Plain
  <2> QED BY <1>3, <2>1 DEF KeyComes, Aligned
<1>4. CASE GivenUp
  <2>1. buffer' = Empty /\ buffer'.from = "none" /\ Plain(sent)' = Plain(sent)
        BY <1>4 DEF GivenUp, Empty, Plain
  <2>2. CASE buffer.from = "mouse"
    <3>1. calm' \in {-1, 0} /\ (calm' = 0 => Rest' = 0)
          BY <1>4, <2>2 DEF GivenUp, Fault
    <3>2. Rest' = 0 \/ calm' = -1
          BY <1>4, <2>2 DEF GivenUp, Fault
    <3> QED BY <2>1, <3>1, <3>2 DEF Aligned
  <2>3. CASE buffer.from # "mouse"
    <3>1. Rest' = Rest
          BY <1>4, <2>1, <2>3 DEF GivenUp, Rest
    <3> QED BY <1>4, <2>1, <2>3, <3>1 DEF GivenUp, Aligned
  <2> QED BY <2>2, <2>3
<1>5. CASE KeyboardBranch
  <2>1. buffer'.from = "mouse" <=> buffer.from = "mouse"
        BY <1>5 DEF KeyboardBranch, KeyReady, Empty
  <2>2. buffer'.from = "mouse" => buffer' = buffer
        BY <1>5 DEF KeyboardBranch, KeyReady, Empty
  <2>3. Rest' = Rest /\ Plain(sent)' = Plain(sent)
        BY <1>5, <2>1 DEF KeyboardBranch, Rest, Plain
  <2> QED BY <1>5, <2>1, <2>2, <2>3 DEF KeyboardBranch, Aligned
<1>6. CASE ByteRead
      BY <1>6, ByteReadAligned
<1>7. CASE NothingRead
  <2>1. calm' \in {-1, 0} /\ (calm' = 0 => Rest' = 0) /\ (Rest' = 0 \/ calm' = -1)
        BY <1>7 DEF NothingRead, Fault
  <2>2. buffer' = buffer /\ left' = left /\ sent' = sent
        BY <1>7 DEF NothingRead, MouseBranch
  <2> QED BY <2>1, <2>2 DEF Aligned
<1>8. CASE UNCHANGED <<sent, left, buffer, mouse, calm>>
  <2>1. Rest' = Rest /\ Plain(sent)' = Plain(sent)
        BY <1>8 DEF Rest, Plain
  <2> QED BY <1>8, <2>1 DEF Aligned
<1> QED BY <1>1, <1>2, <1>3, <1>4, <1>5, <1>6, <1>7, <1>8
        DEF Next, vars, RaisedAgain, Receive, MenuFrame, GameFrame

THEOREM StaysAligned == Spec => []Aligned
<1>1. Init => Aligned
      BY InitAligned
<1>2. TypeOK /\ Aligned /\ [Next]_vars => Aligned'
      BY NextAligned
<1> QED BY <1>1, <1>2, TypeCorrect, PTL DEF Spec

\* After two packets that cannot be mistaken, sync_bytes is in step with the
\* mouse, and a program in step has exactly what the mouse sent.
THEOREM KeepsInStep == Spec => []InStep
<1>1. Aligned => InStep
      BY DEF Aligned, InStep
<1> QED BY <1>1, StaysAligned, PTL

-----------------------------------------------------------------------------
(* The button.                                                             *)

LEMMA NextAims ==
    TypeOK /\ InStep /\ InStep' /\ AimNeedsButton /\ [Next]_vars => AimNeedsButton'
<1> SUFFICES ASSUME TypeOK, InStep, InStep', AimNeedsButton, [Next]_vars
             PROVE  AimNeedsButton'
    OBVIOUS
<1> USE DEF device, mouse, view
<1>1. CASE Moved
  <2>1. Rest' # 0
        BY <1>1 DEF Moved, Rest
  <2> QED BY <2>1 DEF AimNeedsButton
<1>2. CASE MouseByteComes
  <2>1. Rest' = Rest
        BY <1>2 DEF MouseByteComes, Rest, Empty, TypeOK
  <2> QED BY <1>2, <2>1 DEF MouseByteComes, AimNeedsButton
<1>3. CASE KeyComes
  <2>1. Rest' = Rest
        BY <1>3 DEF KeyComes, Rest, Empty
  <2> QED BY <1>3, <2>1 DEF KeyComes, AimNeedsButton
<1>4. CASE GivenUp
  <2>1. buffer.from = "mouse" => calm' # Enough
        BY <1>4 DEF GivenUp, Fault
  <2>2. buffer.from # "mouse" => Rest' = Rest
        BY <1>4 DEF GivenUp, Rest, Empty
  <2> QED BY <1>4, <2>1, <2>2 DEF GivenUp, AimNeedsButton
<1>5. CASE KeyboardBranch
  <2>1. Rest' = Rest
        BY <1>5 DEF KeyboardBranch, KeyReady, Empty, Rest
  <2>2. state' = "Game" => state = "Game"
        BY <1>5 DEF KeyboardBranch, KeyHandled
  <2> QED BY <1>5, <2>1, <2>2 DEF KeyboardBranch, KeyHandled, AimNeedsButton
<1>6. CASE ByteRead
  <2>1. state' = state /\ (state = "Game" => update_delta' = LeftButton(mouse_packet'))
        BY <1>6 DEF ByteRead, MouseHandled
  <2> QED BY <2>1 DEF InStep, AimNeedsButton
<1>7. CASE NothingRead
  <2>1. calm' # Enough
        BY <1>7 DEF NothingRead, Fault
  <2> QED BY <2>1 DEF AimNeedsButton
<1>8. CASE MenuFrame
  <2>1. Rest' = Rest /\ sent' = sent /\ calm' = calm
        BY <1>8 DEF MenuFrame, Rest
  <2>2. LeftButton(mouse_packet)
        BY <1>8 DEF MenuFrame
  <2> QED BY <2>1, <2>2 DEF InStep, AimNeedsButton
<1>9. CASE UNCHANGED <<sent, left, buffer, state, update_delta, calm>>
  <2>1. Rest' = Rest
        BY <1>9 DEF Rest
  <2> QED BY <1>9, <2>1 DEF AimNeedsButton
<1> QED BY <1>1, <1>2, <1>3, <1>4, <1>5, <1>6, <1>7, <1>8, <1>9
        DEF Next, vars, RaisedAgain, Receive, GameFrame

\* In the game nothing aims while the left button is up, although neither
\* game_reset nor the menu writes update_delta.
THEOREM AimsWithButton == Spec => []AimNeedsButton
<1>1. Init => AimNeedsButton
      BY DEF Init, AimNeedsButton
<1>2. TypeOK /\ InStep /\ InStep' /\ AimNeedsButton /\ [Next]_vars => AimNeedsButton'
      BY NextAims
<1> QED BY <1>1, <1>2, TypeCorrect, KeepsInStep, PTL DEF Spec

=============================================================================
