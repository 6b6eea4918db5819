-------------------------- MODULE SerialPortProofs --------------------------
(***************************************************************************)
(* Proofs about the serial port, for any number of characters and any size *)
(* of the queue.                                                           *)
(***************************************************************************)
EXTENDS SerialPort, CharQueueProofs

-----------------------------------------------------------------------------
(* The queue inside.                                                       *)

\* Whatever the port does is a call of the queue, or none.
LEMMA QueueStep ==
  ASSUME rbr \in Char, [PortNext]_portVars
  PROVE  [Next]_vars
<1>1. CASE Arrive  BY <1>1 DEF Arrive
<1>2. CASE Shift  BY <1>2 DEF Shift
<1>3. CASE Notification  BY <1>3 DEF Notification
<1>4. CASE ReadIIR  BY <1>4 DEF ReadIIR
<1>5. CASE ReadByte  BY <1>5 DEF ReadByte, Next
<1>6. CASE NoMoreBytes  BY <1>6 DEF NoMoreBytes
<1>7. CASE Ask  BY <1>7 DEF Ask, Next
<1>8. CASE Look  BY <1>8 DEF Look, Next
<1>9. CASE Take  BY <1>9 DEF Take, Next
<1>10. CASE Dispatch  BY <1>10 DEF Dispatch
<1>11. CASE Write  BY <1>11 DEF Write
<1>12. CASE ClearAsks  BY <1>12 DEF ClearAsks, Next
<1>13. CASE ClearPops  BY <1>13 DEF ClearPops, Drop, Next
<1>14. CASE TimerSends  BY <1>14 DEF TimerSends
<1>15. CASE calculate_time  BY <1>15 DEF calculate_time
<1>16. CASE UNCHANGED portVars  BY <1>16 DEF portVars
<1> QED
  BY <1>1, <1>2, <1>3, <1>4, <1>5, <1>6, <1>7, <1>8, <1>9, <1>10, <1>11,
     <1>12, <1>13, <1>14, <1>15, <1>16 DEF PortNext, Handler

\* A byte pushed into an empty queue is the one at its front.
LEMMA PushedAlone ==
  ASSUME RingInv, allocated, size = 0, NEW ch \in Char, push(ch)
  PROVE  size' = 1 /\ buf'[front'] = ch
<1>1. /\ BUFFER_SIZE \in Nat \ {0} /\ front \in Index /\ front < BUFFER_SIZE
      /\ buf \in [Index -> Char]
  BY BufferSizeIsPositive DEF RingInv, Index
<1>2. ~full  BY <1>1 DEF full
<1>3. advance(rear) = front
  BY <1>1, NextPlace DEF Wrapped, Index
<1> QED  BY <1>1, <1>2, <1>3 DEF push

-----------------------------------------------------------------------------
(* The inductive invariant, one lemma for each of its parts.               *)

LEMMA PortStart == PortInit => PortInv
<1> SUFFICES ASSUME PortInit PROVE PortInv
  OBVIOUS
<1>1. RingInv /\ allocated /\ size = 0  BY RingInit DEF PortInit, new_queue
<1>2. Nul \in Char  BY BytesAreChars
<1>3. PortTypeOK
  <2>1. next \in Nat /\ next >= 2  BY DEF PortInit
  <2>2. rbr \in Char  BY <1>2 DEF PortInit
  <2>3. /\ data_ready \in BOOLEAN /\ notified \in BOOLEAN
        /\ thr_empty \in BOOLEAN /\ alone \in BOOLEAN
    BY DEF PortInit
  <2>4. /\ shifted \in Nat /\ calls \in Nat /\ memory \in Nat /\ unsent \in Nat
        /\ crowded \in Nat /\ repeats \in Nat
    BY BytesAreChars DEF PortInit
  <2>5. pc \in Label /\ back \in {"idle", "clear"}
    BY DEF PortInit, Label, Reading
  <2> QED  BY <2>1, <2>2, <2>3, <2>4, <2>5 DEF PortTypeOK
<1>4. SentWhileMemoryLasts
  BY BytesAreChars DEF PortInit, SentWhileMemoryLasts, Out
<1>5. RepeatsAreDue
  BY DEF PortInit, RepeatsAreDue, ReadSomething, EmptyHandlers, ComesEmpty, WillComeEmpty
<1> QED
  BY <1>1, <1>3, <1>4, <1>5 DEF PortInit, PortInv, Resting, RestsEmpty,
     AloneOnItsWay, NoByteForgotten, Reading

LEMMA PortTypeStep ==
  ASSUME PortTypeOK, [PortNext]_portVars
  PROVE  PortTypeOK'
<1> USE DEF PortTypeOK, Label, Reading
<1>1. CASE Arrive
  <2>1. next \in Char /\ Nul \in Char
    BY <1>1, BytesAreChars DEF Arrive, One
  <2> QED  BY <1>1, <2>1 DEF Arrive, sender
<1>2. CASE Shift  BY <1>2 DEF Shift, uart
<1>3. CASE Notification  BY <1>3 DEF Notification, Goto, sender
<1>4. CASE ReadIIR  BY <1>4 DEF ReadIIR, Goto, uart, sender
<1>5. CASE ReadByte  BY <1>5 DEF ReadByte, sender
<1>6. CASE NoMoreBytes  BY <1>6 DEF NoMoreBytes, Goto, uart, sender
<1>7. CASE Ask  BY <1>7 DEF Ask, Goto, uart, sender
<1>8. CASE Look  BY <1>8 DEF Look, Goto, uart, sender
<1>9. CASE Take  BY <1>9 DEF Take, Goto, uart, sender
<1>10. CASE Dispatch  BY <1>10 DEF Dispatch, StartSend, Goto, uart, sender
<1>11. CASE Write  BY <1>11 DEF Write, Goto, uart
<1>12. CASE ClearAsks  BY <1>12 DEF ClearAsks, Goto, uart, sender
<1>13. CASE ClearPops  BY <1>13 DEF ClearPops, Goto, uart, sender
<1>14. CASE TimerSends  BY <1>14 DEF TimerSends, StartSend, Goto, uart, sender
<1>15. CASE calculate_time  BY <1>15 DEF calculate_time, uart
<1>16. CASE UNCHANGED portVars  BY <1>16 DEF portVars, uart, sender
<1> QED
  BY <1>1, <1>2, <1>3, <1>4, <1>5, <1>6, <1>7, <1>8, <1>9, <1>10, <1>11,
     <1>12, <1>13, <1>14, <1>15, <1>16 DEF PortNext, Handler

\* What the steps do to the bytes that go out.
LEMMA SendStep ==
  ASSUME PortTypeOK, SentWhileMemoryLasts, [PortNext]_portVars
  PROVE  SentWhileMemoryLasts'
<1> USE DEF PortTypeOK, SentWhileMemoryLasts, Out
<1>1. CASE Arrive  BY <1>1 DEF Arrive, sender
<1>2. CASE Shift  BY <1>2 DEF Shift
<1>3. CASE Notification  BY <1>3 DEF Notification, Goto, sender
<1>4. CASE ReadIIR  BY <1>4 DEF ReadIIR, Goto, sender
<1>5. CASE ReadByte  BY <1>5 DEF ReadByte, sender
<1>6. CASE NoMoreBytes  BY <1>6 DEF NoMoreBytes, Goto, sender
<1>7. CASE Ask  BY <1>7 DEF Ask, Goto, sender
<1>8. CASE Look  BY <1>8 DEF Look, Goto, sender
<1>9. CASE Take  BY <1>9 DEF Take, Goto, sender
<1>10. CASE Dispatch  BY <1>10 DEF Dispatch, StartSend, Goto, sender
<1>11. CASE Write  BY <1>11 DEF Write, MayWrite, Goto
<1>12. CASE ClearAsks  BY <1>12 DEF ClearAsks, Goto, sender
<1>13. CASE ClearPops  BY <1>13 DEF ClearPops, Goto, sender
<1>14. CASE TimerSends  BY <1>14 DEF TimerSends, StartSend, Goto, sender
<1>15. CASE calculate_time
  <2>1. /\ Out' = Out /\ calls' = calls /\ unsent' = unsent
        /\ memory > 0 /\ memory' = memory - 1
    BY <1>15 DEF calculate_time
  <2>2. Out \in Int /\ memory \in Nat /\ Memory \in Nat
    BY BytesAreChars
  <2> QED  BY <2>1, <2>2
<1>16. CASE UNCHANGED portVars  BY <1>16 DEF portVars, sender
<1> QED
  BY <1>1, <1>2, <1>3, <1>4, <1>5, <1>6, <1>7, <1>8, <1>9, <1>10, <1>11,
     <1>12, <1>13, <1>14, <1>15, <1>16 DEF PortNext, Handler

\* What they do to the handlers that find nothing.
LEMMA RepeatStep ==
  ASSUME PortInv, [PortNext]_portVars
  PROVE  RepeatsAreDue'
<1>t. /\ crowded \in Nat /\ repeats \in Nat /\ pc \in Label /\ size \in Nat
      /\ data_ready \in BOOLEAN /\ notified \in BOOLEAN /\ back \in {"idle", "clear"}
  BY BufferSizeIsPositive DEF PortInv, PortTypeOK, RingInv
<1> USE DEF PortInv, RepeatsAreDue, ReadSomething, EmptyHandlers, ComesEmpty,
            WillComeEmpty, Label, Reading
<1>1. CASE Arrive  BY <1>t, <1>1 DEF Arrive, Resting, NoByteForgotten, vars
<1>2. CASE Shift  BY <1>t, <1>2 DEF Shift, vars, uart
<1>3. CASE Notification  BY <1>t, <1>3 DEF Notification, Goto, vars
<1>4. CASE ReadIIR  BY <1>t, <1>4 DEF ReadIIR, ReceiverAvailable, RestsEmpty, Goto, vars, uart
<1>5. CASE ReadByte
  <2>1. size' > 0
    BY <1>t, <1>5, BufferSizeIsPositive DEF ReadByte, push, full
  <2> QED  BY <1>t, <1>5, <2>1 DEF ReadByte
<1>6. CASE NoMoreBytes  BY <1>t, <1>6 DEF NoMoreBytes, Goto, vars, uart
<1>7. CASE Ask  BY <1>t, <1>7 DEF Ask, Goto, empty, hollow
<1>8. CASE Look  BY <1>t, <1>8 DEF Look, Goto, top, uart
<1>9. CASE Take  BY <1>t, <1>9 DEF Take, Goto, uart
<1>10. CASE Dispatch  BY <1>t, <1>10 DEF Dispatch, StartSend, Goto, uart
<1>11. CASE Write  BY <1>t, <1>11 DEF Write, Goto, uart
<1>12. CASE ClearAsks  BY <1>t, <1>12 DEF ClearAsks, Goto, uart
<1>13. CASE ClearPops  BY <1>t, <1>13 DEF ClearPops, Goto, uart
<1>14. CASE TimerSends  BY <1>t, <1>14 DEF TimerSends, StartSend, Goto, uart
<1>15. CASE calculate_time  BY <1>t, <1>15 DEF calculate_time, uart
<1>16. CASE UNCHANGED portVars  BY <1>t, <1>16 DEF portVars, vars, uart
<1> QED
  BY <1>1, <1>2, <1>3, <1>4, <1>5, <1>6, <1>7, <1>8, <1>9, <1>10, <1>11,
     <1>12, <1>13, <1>14, <1>15, <1>16 DEF PortNext, Handler

\* What they do to the byte that waits in the register.
LEMMA UnreadStep ==
  ASSUME PortInv, [PortNext]_portVars
  PROVE  NoByteForgotten' /\ (pc \in Reading => c # Nul)'
<1> USE DEF PortInv, PortTypeOK, NoByteForgotten, Reading
<1>1. CASE Arrive  BY <1>1 DEF Arrive
<1>2. CASE Shift  BY <1>2 DEF Shift, uart
<1>3. CASE Notification  BY <1>3 DEF Notification, Goto
<1>4. CASE ReadIIR  BY <1>4 DEF ReadIIR, ReceiverAvailable, Goto, uart
<1>5. CASE ReadByte  BY <1>5 DEF ReadByte
<1>6. CASE NoMoreBytes  BY <1>6 DEF NoMoreBytes, Goto, uart
<1>7. CASE Ask  BY <1>7 DEF Ask, Goto, uart
<1>8. CASE Look  BY <1>8 DEF Look, Goto, uart
<1>9. CASE Take  BY <1>9 DEF Take, Goto, uart
<1>10. CASE Dispatch  BY <1>10 DEF Dispatch, StartSend, Goto, uart
<1>11. CASE Write  BY <1>11 DEF Write, Goto, uart
<1>12. CASE ClearAsks  BY <1>12 DEF ClearAsks, Goto, uart
<1>13. CASE ClearPops  BY <1>13 DEF ClearPops, Goto, uart
<1>14. CASE TimerSends  BY <1>14 DEF TimerSends, StartSend, Goto, uart
<1>15. CASE calculate_time  BY <1>15 DEF calculate_time, uart
<1>16. CASE UNCHANGED portVars  BY <1>16 DEF portVars, uart
<1> QED
  BY <1>1, <1>2, <1>3, <1>4, <1>5, <1>6, <1>7, <1>8, <1>9, <1>10, <1>11,
     <1>12, <1>13, <1>14, <1>15, <1>16 DEF PortNext, Handler

\* The byte that came alone on its way through the handler.
LEMMA AloneStep ==
  ASSUME PortInv, [PortNext]_portVars
  PROVE  RestsEmpty' /\ AloneOnItsWay'
<1> USE DEF PortInv, PortTypeOK, Label, Reading, RestsEmpty, AloneOnItsWay,
            Resting, HoldsTheByte
<1>1. CASE Arrive  BY <1>1 DEF Arrive, vars, sender
<1>2. CASE Shift  BY <1>2 DEF Shift, vars, uart
<1>3. CASE Notification  BY <1>3 DEF Notification, Goto, vars, sender
<1>4. CASE ReadIIR
  BY <1>4 DEF ReadIIR, ReceiverAvailable, Goto, vars, uart, sender
<1>5. CASE ReadByte
  BY <1>5, PushedAlone DEF ReadByte, sender
<1>6. CASE NoMoreBytes  BY <1>6 DEF NoMoreBytes, Goto, vars, uart, sender
<1>7. CASE Ask  BY <1>7 DEF Ask, Goto, empty, hollow, uart, sender
<1>8. CASE Look  BY <1>8 DEF Look, Goto, top, hollow, uart, sender
<1>9. CASE Take  BY <1>9 DEF Take, Goto, uart, sender
<1>10. CASE Dispatch  BY <1>10 DEF Dispatch, StartSend, Goto, vars, uart, sender
<1>11. CASE Write  BY <1>11 DEF Write, Goto, vars, uart
<1>12. CASE ClearAsks
  BY <1>12 DEF ClearAsks, ClearDone, Goto, empty, hollow, uart, sender
<1>13. CASE ClearPops  BY <1>13 DEF ClearPops, Goto, uart, sender
<1>14. CASE TimerSends  BY <1>14 DEF TimerSends, StartSend, Goto, vars, uart, sender
<1>15. CASE calculate_time  BY <1>15 DEF calculate_time, vars, uart
<1>16. CASE UNCHANGED portVars  BY <1>16 DEF portVars, vars, uart, sender
<1> QED
  BY <1>1, <1>2, <1>3, <1>4, <1>5, <1>6, <1>7, <1>8, <1>9, <1>10, <1>11,
     <1>12, <1>13, <1>14, <1>15, <1>16 DEF PortNext, Handler

LEMMA PortStep ==
  ASSUME PortInv, [PortNext]_portVars
  PROVE  PortInv'
<1>1. rbr \in Char  BY DEF PortInv, PortTypeOK
<1>2. [Next]_vars  BY <1>1, QueueStep
<1>3. RingInv'  BY <1>2, RingStep DEF PortInv
<1>4. allocated'  BY <1>2 DEF PortInv, Next, vars
<1>5. PortTypeOK'  BY PortTypeStep DEF PortInv
<1>6. SentWhileMemoryLasts'  BY SendStep DEF PortInv
<1>7. RestsEmpty' /\ AloneOnItsWay'  BY AloneStep
<1>8. NoByteForgotten' /\ (pc \in Reading => c # Nul)'  BY UnreadStep
<1>9. RepeatsAreDue'  BY RepeatStep
<1> QED  BY <1>3, <1>4, <1>5, <1>6, <1>7, <1>8, <1>9 DEF PortInv

-----------------------------------------------------------------------------

\* The inductive invariant, for any number of characters, any size of the
\* receive queue and any number of calls of sp_send_int.
THEOREM PortInvHolds == PortSpec => []PortInv
  BY PortStart, PortStep, PTL DEF PortSpec

\* No byte is left in the receive register without an interrupt for it: the
\* loop of ser_ih and the edges of the interrupt line fit together.
THEOREM NoByteIsForgotten == PortSpec => []NoByteForgotten
<1>1. PortInv => NoByteForgotten  BY DEF PortInv
<1> QED  BY <1>1, PortInvHolds, PTL

\* A byte that comes alone is the one its handler works on, after any
\* history of overruns (receive and clear_receive_queue).
THEOREM AloneByteIsServed == PortSpec => []AloneIsServed
<1>1. PortInv => AloneIsServed  BY DEF PortInv, AloneOnItsWay, AloneIsServed
<1> QED  BY <1>1, PortInvHolds, PTL

\* A character is served again only in place of one that came while an
\* interrupt was handled: the interrupts of the UART, the loop of ser_ih and
\* clear_receive_queue leave no other handler without a byte of its own.
THEOREM OnlyCrowdedBytesRepeat == PortSpec => []RepeatsAreCrowded
<1>1. PortInv => RepeatsAreCrowded
  BY DEF PortInv, PortTypeOK, RepeatsAreDue, EmptyHandlers, RepeatsAreCrowded
<1> QED  BY <1>1, PortInvHolds, PTL

\* What sp_send_int was asked to send is sent, in the transmit register,
\* still to be written, or was asked for when no memory was left for its
\* queue; and what is sent costs a queue, so that memory does run out.
THEOREM BytesGoOut == PortSpec => []SentWhileMemoryLasts
<1>1. PortInv => SentWhileMemoryLasts  BY DEF PortInv
<1> QED  BY <1>1, PortInvHolds, PTL

\* The port uses its queue by its operations only, so all that is proved of
\* the queue holds of the one inside the port: it is a bounded first-in
\* first-out buffer.
THEOREM PortQueueIsFifo == PortSpec => IsFifo
<1>1. PortInv /\ [PortNext]_portVars => [Next]_vars
  BY QueueStep DEF PortInv, PortTypeOK
<1>2. PortInit => new_queue  BY DEF PortInit
<1>3. PortSpec => Spec
  BY <1>1, <1>2, PortInvHolds, PTL DEF PortSpec, Spec
<1> QED  BY <1>3, QueueIsFifo, PTL

-----------------------------------------------------------------------------
(* Why every handler ends: each step of the thread, and each of the UART   *)
(* beside it, leaves less to be done.                                      *)

\* The bytes still to come, those in the register, the queue and the
\* transmitter, and the code still before the thread.
Coming == IF next <= LastByte THEN LastByte + 1 - next ELSE 0
Unread == IF data_ready THEN 1 ELSE 0
Busy == IF thr_empty THEN 0 ELSE 1

CodeLeft ==
    CASE pc = "iir" -> 10 [] pc = "lsr" -> 9 [] pc = "empty" -> 8
      [] pc = "top" -> 7 [] pc = "pop" -> 6 [] pc = "dispatch" -> 5
      [] pc = "send" -> 4 [] pc = "clear" -> 2 [] pc = "drop" -> 1
      [] OTHER -> 0

\* A byte on the cable costs its arrival, its place in the queue and the
\* turn of clear_receive_queue that throws it away.
Effort == 4 * Coming + 3 * Unread + 2 * size + Busy + CodeLeft

\* clear_receive_queue takes a character from a queue that holds one.
DropsSomething == pc = "drop" => size > 0

LEMMA DropStep ==
  ASSUME PortInv, DropsSomething, [PortNext]_portVars
  PROVE  DropsSomething'
<1> USE DEF DropsSomething, Goto
<1>1. CASE Arrive \/ Shift  BY <1>1 DEF Arrive, Shift, vars
<1>2. CASE Notification  BY <1>2 DEF Notification
<1>3. CASE ReadIIR \/ NoMoreBytes  BY <1>3 DEF ReadIIR, NoMoreBytes
<1>4. CASE ReadByte  BY <1>4 DEF ReadByte
<1>5. CASE Ask \/ Look \/ Take  BY <1>5 DEF Ask, Look, Take
<1>6. CASE Dispatch  BY <1>6 DEF Dispatch, StartSend
<1>7. CASE Write  BY <1>7 DEF Write, PortInv, PortTypeOK
<1>8. CASE ClearAsks
  BY <1>8 DEF ClearAsks, ClearDone, empty, hollow, PortInv, RingInv
<1>9. CASE ClearPops  BY <1>9 DEF ClearPops
<1>10. CASE TimerSends \/ calculate_time
  BY <1>10 DEF TimerSends, StartSend, calculate_time, vars
<1>11. CASE UNCHANGED portVars  BY <1>11 DEF portVars, vars
<1> QED
  BY <1>1, <1>2, <1>3, <1>4, <1>5, <1>6, <1>7, <1>8, <1>9, <1>10, <1>11
     DEF PortNext, Handler

LEMMA EffortParts ==
  ASSUME PortInv
  PROVE  /\ Coming \in Nat /\ Unread \in Nat /\ Busy \in Nat /\ size \in Nat
         /\ CodeLeft \in Nat /\ Effort \in Nat
<1>1. /\ Coming \in Nat /\ Unread \in Nat /\ Busy \in Nat
  BY BytesAreChars DEF Coming, Unread, Busy, PortInv, PortTypeOK
<1>2. size \in Nat
  BY BufferSizeIsPositive DEF PortInv, RingInv
<1>3. CodeLeft \in Nat
  BY DEF CodeLeft
<1>4. \A a, b, d, e, f \in Nat : 4 * a + 3 * b + 2 * d + e + f \in Nat
  OBVIOUS
<1> QED  BY <1>1, <1>2, <1>3, <1>4 DEF Effort

\* How a step changes the parts.
LEMMA EffortStep ==
  ASSUME PortInv, DropsSomething, PortNext, pc # "idle"
  PROVE  Effort' < Effort
<1>t. next \in Nat /\ data_ready \in BOOLEAN /\ thr_empty \in BOOLEAN
  BY DEF PortInv, PortTypeOK
<1>p. /\ Coming \in Nat /\ Unread \in Nat /\ Busy \in Nat /\ size \in Nat
      /\ CodeLeft \in Nat
  BY EffortParts
<1>1. CASE Arrive
  <2>1. /\ Coming' = Coming - 1 /\ Unread' <= Unread + 1 /\ Unread' \in Nat
        /\ Busy' = Busy /\ size' = size /\ CodeLeft' = CodeLeft
    BY <1>1, <1>t, BytesAreChars
       DEF Arrive, Coming, Unread, Busy, CodeLeft, vars, sender
  <2>2. \A a, b, d, e, f, g \in Nat :
            g <= b + 1 => 4 * (a - 1) + 3 * g + 2 * d + e + f
                < 4 * a + 3 * b + 2 * d + e + f
    OBVIOUS
  <2>3. Effort' = 4 * (Coming - 1) + 3 * Unread' + 2 * size + Busy + CodeLeft
    BY <2>1 DEF Effort
  <2> QED  BY <1>p, <2>1, <2>2, <2>3 DEF Effort
<1>2. CASE Shift
  <2>1. /\ Coming' = Coming /\ Unread' = Unread
        /\ Busy' = Busy - 1 /\ size' = size /\ CodeLeft' = CodeLeft
    BY <1>2 DEF Shift, Coming, Unread, Busy, CodeLeft, vars, uart
  <2>2. \A a, b, d, e, f \in Nat :
            4 * a + 3 * b + 2 * d + (e - 1) + f
                < 4 * a + 3 * b + 2 * d + e + f
    OBVIOUS
  <2>3. Effort' = 4 * Coming + 3 * Unread + 2 * size + (Busy - 1) + CodeLeft
    BY <2>1 DEF Effort
  <2> QED  BY <1>p, <2>1, <2>2, <2>3 DEF Effort
<1>3. CASE ReadByte
  <2>1. /\ Coming' = Coming /\ Unread' = Unread - 1
        /\ Busy' = Busy /\ CodeLeft' = CodeLeft
    BY <1>3 DEF ReadByte, Coming, Unread, Busy, CodeLeft, sender
  <2>2. size' \in Nat /\ size' <= size + 1
    BY <1>p, <1>3 DEF ReadByte, push, full
  <2>3. \A a, b, d, e, f, g \in Nat :
            g <= d + 1 => 4 * a + 3 * (b - 1) + 2 * g + e + f
                < 4 * a + 3 * b + 2 * d + e + f
    OBVIOUS
  <2>4. Effort' = 4 * Coming + 3 * (Unread - 1) + 2 * size' + Busy + CodeLeft
    BY <2>1, <2>2 DEF Effort
  <2> QED  BY <1>p, <2>1, <2>2, <2>3, <2>4 DEF Effort
<1>4. CASE ReadIIR \/ NoMoreBytes \/ Ask \/ Look \/ ClearAsks
  <2>1. /\ Coming' = Coming /\ Unread' = Unread
        /\ Busy' = Busy /\ size' = size
    <3>1. /\ next' = next /\ data_ready' = data_ready
          /\ UNCHANGED sender /\ size' = size
      BY <1>4 DEF ReadIIR, NoMoreBytes, Ask, Look, ClearAsks, empty, top, vars, uart
    <3> QED  BY <3>1 DEF Coming, Unread, Busy, sender
  <2>2. CodeLeft' \in Nat /\ CodeLeft' < CodeLeft
    <3>1. CASE ReadIIR \/ NoMoreBytes
      BY <3>1 DEF ReadIIR, NoMoreBytes, Goto, CodeLeft
    <3>2. CASE Ask \/ Look
      BY <3>2 DEF Ask, Look, Goto, CodeLeft
    <3>3. CASE ClearAsks
      BY <3>3 DEF ClearAsks, Goto, CodeLeft
    <3> QED  BY <1>4, <3>1, <3>2, <3>3
  <2>3. \A a, b, d, e, f, g \in Nat :
            g < f => 4 * a + 3 * b + 2 * d + e + g
                < 4 * a + 3 * b + 2 * d + e + f
    OBVIOUS
  <2>4. Effort' = 4 * Coming + 3 * Unread + 2 * size + Busy + CodeLeft'
    BY <2>1, <2>2 DEF Effort
  <2> QED  BY <1>p, <2>1, <2>2, <2>3, <2>4 DEF Effort
<1>5. CASE Take
  <2>1. /\ Coming' = Coming /\ Unread' = Unread /\ Busy' = Busy
        /\ CodeLeft' = CodeLeft - 1
    BY <1>5 DEF Take, Goto, Coming, Unread, Busy, CodeLeft, uart, sender
  <2>2. size' \in Nat /\ size' <= size
    BY <1>p, <1>5 DEF Take, pop, hollow
  <2>3. \A a, b, d, e, f, g \in Nat :
            g <= d => 4 * a + 3 * b + 2 * g + e + (f - 1)
                < 4 * a + 3 * b + 2 * d + e + f
    OBVIOUS
  <2>4. Effort' = 4 * Coming + 3 * Unread + 2 * size' + Busy + (CodeLeft - 1)
    BY <2>1, <2>2 DEF Effort
  <2> QED  BY <1>p, <2>1, <2>2, <2>3, <2>4 DEF Effort
<1>6. CASE Dispatch
  <2>1. /\ Coming' = Coming /\ Unread' = Unread /\ Busy' = Busy /\ size' = size
    BY <1>6 DEF Dispatch, StartSend, Coming, Unread, Busy, vars, uart, sender
  <2>2. CodeLeft' \in Nat /\ CodeLeft' < CodeLeft
    BY <1>6 DEF Dispatch, StartSend, Goto, CodeLeft
  <2>3. \A a, b, d, e, f, g \in Nat :
            g < f => 4 * a + 3 * b + 2 * d + e + g
                < 4 * a + 3 * b + 2 * d + e + f
    OBVIOUS
  <2>4. Effort' = 4 * Coming + 3 * Unread + 2 * size + Busy + CodeLeft'
    BY <2>1, <2>2 DEF Effort
  <2> QED  BY <1>p, <2>1, <2>2, <2>3, <2>4 DEF Effort
<1>7. CASE Write
  <2>1. /\ Coming' = Coming /\ Unread' = Unread /\ size' = size
        /\ Busy' = Busy + 1
    BY <1>7 DEF Write, MayWrite, Coming, Unread, Busy, vars, uart
  <2>2. CodeLeft' \in Nat /\ CodeLeft' <= CodeLeft - 2
    BY <1>7 DEF Write, Goto, CodeLeft, PortInv, PortTypeOK
  <2>3. \A a, b, d, e, f, g \in Nat :
            g <= f - 2 => 4 * a + 3 * b + 2 * d + (e + 1) + g
                < 4 * a + 3 * b + 2 * d + e + f
    OBVIOUS
  <2>4. Effort' = 4 * Coming + 3 * Unread + 2 * size + (Busy + 1) + CodeLeft'
    BY <2>1, <2>2 DEF Effort
  <2> QED  BY <1>p, <2>1, <2>2, <2>3, <2>4 DEF Effort
<1>8. CASE ClearPops
  <2>1. /\ Coming' = Coming /\ Unread' = Unread /\ Busy' = Busy
        /\ CodeLeft' = CodeLeft + 1
    BY <1>8 DEF ClearPops, Goto, Coming, Unread, Busy, CodeLeft, uart, sender
  <2>2. size' = size - 1
    BY <1>8, <1>p DEF ClearPops, Drop, pop, hollow, DropsSomething, PortInv
  <2>3. \A a, b, d, e, f \in Nat :
            4 * a + 3 * b + 2 * (d - 1) + e + (f + 1)
                < 4 * a + 3 * b + 2 * d + e + f
    OBVIOUS
  <2>4. Effort' = 4 * Coming + 3 * Unread + 2 * (size - 1) + Busy + (CodeLeft + 1)
    BY <2>1, <2>2 DEF Effort
  <2> QED  BY <1>p, <2>1, <2>2, <2>3, <2>4 DEF Effort
<1>9. CASE Notification \/ TimerSends \/ calculate_time
  BY <1>9 DEF Notification, TimerSends, calculate_time
<1> QED
  BY <1>1, <1>2, <1>3, <1>4, <1>5, <1>6, <1>7, <1>8, <1>9
     DEF PortNext, Handler

\* A handler that has begun ends after no more steps than Effort counts, even
\* while bytes keep coming: the loop that empties the register, the one that
\* polls the transmitter and the one that clears the queue each leave less of
\* a natural number to be done.  That the steps are taken is all that
\* HandlerEnds still needs.
THEOREM HandlersRunOut ==
  PortSpec => [](Effort \in Nat) /\ [][pc # "idle" => Effort' < Effort]_portVars
<1>1. PortInit => DropsSomething
  BY DEF PortInit, DropsSomething
<1>2. PortInv /\ DropsSomething /\ [PortNext]_portVars => DropsSomething'
  BY DropStep
<1>3. PortInv /\ DropsSomething /\ [PortNext]_portVars
          => [pc # "idle" => Effort' < Effort]_portVars
  BY EffortStep
<1>4. PortInv => Effort \in Nat
  BY EffortParts
<1> QED  BY <1>1, <1>2, <1>3, <1>4, PortInvHolds, PTL DEF PortSpec

=============================================================================
