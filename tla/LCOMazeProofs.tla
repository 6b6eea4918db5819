--------------------------- MODULE LCOMazeProofs ---------------------------
(***************************************************************************)
(* Theorems about LCOMaze, for every length of the maze and every bound on *)
(* the bytes in flight.                                                    *)
(***************************************************************************)
EXTENDS LCOMaze, TLAPS, SequenceTheorems

LEMMA PeerIsOther ==
    ASSUME NEW m \in Machine
    PROVE  /\ Peer(m) \in Machine /\ Peer(m) # m
           /\ Peer(Host) = Client /\ Peer(Client) = Host
BY MachinesDiffer DEF Machine, Peer

-----------------------------------------------------------------------------
(* The type invariant.                                                     *)

LEMMA TypeInit == Init => TypeOK
BY GoalIsAway DEF Init, TypeOK, CharValue, Phase, Byte, One, NoByte

\* What a serial interrupt leaves on the cable, and what it answers.
LEMMA RestAndReply ==
    ASSUME TypeOK, NEW m \in Machine, NEW n \in Overtaken(m)
    PROVE  /\ SubSeq(line[m], n + 1, Len(line[m])) \in Seq(Byte)
           /\ line[Peer(m)] \o Reply(m) \in Seq(Byte)
<1>1. line[m] \in Seq(Byte) /\ line[Peer(m)] \in Seq(Byte)
  BY PeerIsOther DEF TypeOK
<1>2. n \in 0 .. Len(line[m])
  BY <1>1, LenProperties DEF Overtaken
<1>3. \A i \in n + 1 .. Len(line[m]) : line[m][i] \in Byte
  BY <1>1, <1>2, ElementOfSeq, LenProperties
<1>4. SubSeq(line[m], n + 1, Len(line[m])) \in Seq(Byte)
  BY <1>1, <1>2, <1>3, LenProperties, SubSeqProperties
<1>5. Reply(m) \in Seq(Byte)
  <2>1. Hello(m) \in Byte
    BY DEF Hello, Byte
  <2> QED  BY <2>1 DEF Reply
<1> QED  BY <1>1, <1>4, <1>5, ConcatProperties

\* The serial branch, whether the loop goes on behind it or not.
LEMMA TypeServe ==
    ASSUME TypeOK, NEW m \in Machine, running' \in [Machine -> BOOLEAN], ServeByte(m)
    PROVE  TypeOK'
<1> USE DEF TypeOK
<1>1. received(m) \in CharValue
  BY DEF received, CharValue
<1> DEFINE rest(n) == SubSeq(line[m], n + 1, Len(line[m]))
<1>2. PICK n \in Overtaken(m) :
          /\ notified' = [notified EXCEPT ![m] = n > 0 /\ running'[m]]
          /\ Dispatch(m, received(m), rest(n))
  BY DEF ServeByte
<1>3. notified' \in [Machine -> BOOLEAN]
  BY <1>2
<1>4. /\ gameState' \in [Machine -> Phase]
      /\ won' \in [Machine -> BOOLEAN]
  BY <1>2 DEF Dispatch, Phase
<1>5. rest(n) \in Seq(Byte) /\ line[Peer(m)] \o Reply(m) \in Seq(Byte)
  BY RestAndReply
<1>6. line' \in [Machine -> Seq(Byte)]
  <2> HIDE DEF rest
  <2>1. \/ line' = [line EXCEPT ![m] = rest(n), ![Peer(m)] = @ \o Reply(m)]
        \/ line' = [line EXCEPT ![m] = rest(n)]
    BY <1>2 DEF Dispatch
  <2>2. CASE line' = [line EXCEPT ![m] = rest(n), ![Peer(m)] = @ \o Reply(m)]
    BY <2>2, <1>5, PeerIsOther
  <2>3. CASE line' = [line EXCEPT ![m] = rest(n)]
    BY <2>3, <1>5
  <2> QED  BY <2>1, <2>2, <2>3
<1> QED  BY <1>1, <1>3, <1>4, <1>6 DEF ServeByte

LEMMA TypeUser ==
    ASSUME TypeOK, NEW m \in Machine, User(m)
    PROVE  TypeOK'
<1> USE DEF TypeOK
<1>1. CASE EscKey(m)
  BY <1>1, GoalIsAway DEF EscKey, game_reset, port, Phase
<1>2. CASE game_keyboard_handler(m)
  BY <1>2 DEF game_keyboard_handler, port
<1>3. CASE single_player(m)
  BY <1>3 DEF single_player, port, Phase
<1>4. CASE multiple_player(m)
  <2>1. line' \in [Machine -> Seq(Byte)]
    <3>1. Hello(m) \in Byte
      BY DEF Hello, Byte
    <3> QED  BY <1>4, <3>1, PeerIsOther, AppendProperties DEF multiple_player
  <2> QED  BY <1>4, <2>1 DEF multiple_player, port
<1>5. CASE how_to(m)
  BY <1>5 DEF how_to, port
<1>6. CASE exit_game(m)
  <2>1. CASE Unserved(m)
    BY <1>6, <2>1 DEF exit_game, Unserved
  <2>2. CASE ServeByte(m)
    BY <1>6, <2>2, TypeServe DEF exit_game
  <2> QED  BY <1>6, <2>1, <2>2 DEF exit_game
<1>7. CASE Restart(m)
  BY <1>7, GoalIsAway DEF Restart, game_reset, Phase, CharValue
<1> QED  BY <1>1, <1>2, <1>3, <1>4, <1>5, <1>6, <1>7 DEF User, Menu

LEMMA TypeSystem ==
    ASSUME TypeOK, NEW m \in Machine, System(m)
    PROVE  TypeOK'
<1> USE DEF TypeOK
<1>1. CASE game_main_loop(m)
  <2>1. line' \in [Machine -> Seq(Byte)]
    <3>1. "L" \in Byte
      BY DEF Byte
    <3>2. Append(line[Peer(m)], "L") \in Seq(Byte)
      BY <3>1, PeerIsOther, AppendProperties
    <3> QED  BY <1>1, <3>2, PeerIsOther DEF game_main_loop, WinGame, DrawGame
  <2>2. /\ gameState' \in [Machine -> Phase]
        /\ won' \in [Machine -> BOOLEAN]
    BY <1>1 DEF game_main_loop, WinGame, DrawGame, Phase
  <2> QED  BY <1>1, <2>1, <2>2 DEF game_main_loop, port
<1>2. CASE Arrive(m)
  <2>1. Head(line[m]) \in Byte /\ Tail(line[m]) \in Seq(Byte)
    BY <1>2, HeadTailProperties DEF Arrive
  <2> QED  BY <1>2, <2>1 DEF Arrive, player
<1>3. CASE Noise(m)
  <2>1. "NUL" \in Byte
    BY DEF Byte
  <2>2. Append(line[m], "NUL") \in Seq(Byte)
    BY <2>1, AppendProperties
  <2> QED  BY <1>3, <2>2 DEF Noise, player, port
<1>4. CASE SerialInterrupt(m)
  BY <1>4, TypeServe DEF SerialInterrupt
<1>5. CASE DeafInterrupt(m)
  BY <1>5 DEF DeafInterrupt, player
<1> QED  BY <1>1, <1>2, <1>3, <1>4, <1>5 DEF System

\* Every variable keeps to its type, whatever the players do and however
\* late the bytes are served.
THEOREM TypeCorrect == Spec => []TypeOK
<1>1. ASSUME TypeOK, [Next]_vars
      PROVE  TypeOK'
  <2>1. CASE Next
    BY <1>1, <2>1, TypeUser, TypeSystem DEF Next
  <2>2. CASE UNCHANGED vars
    BY <1>1, <2>2 DEF vars, TypeOK
  <2> QED  BY <1>1, <2>1, <2>2
<1> QED  BY <1>1, TypeInit, PTL DEF Spec

-----------------------------------------------------------------------------
(* Bytes in a sequence.                                                    *)

LEMMA CarriesAppend ==
    ASSUME NEW S, NEW s \in Seq(S), NEW e \in S, NEW b
    PROVE  /\ Carries(s, b) => Carries(Append(s, e), b)
           /\ Carries(Append(s, e), e)
BY AppendProperties, LenProperties DEF Carries

LEMMA CarriesConcat ==
    ASSUME NEW S, NEW s \in Seq(S), NEW t \in Seq(S), NEW b
    PROVE  /\ Carries(s, b) => Carries(s \o t, b)
           /\ Carries(t, b) => Carries(s \o t, b)
<1>1. Len(s) \in Nat /\ Len(t) \in Nat
  BY LenProperties
<1>2. ASSUME Carries(s, b) PROVE Carries(s \o t, b)
  <2>1. PICK k \in 1 .. Len(s) : s[k] = b
    BY <1>2 DEF Carries
  <2>2. k \in 1 .. Len(s \o t) /\ (s \o t)[k] = b
    BY <1>1, <2>1, ConcatProperties
  <2> QED  BY <2>2 DEF Carries
<1>3. ASSUME Carries(t, b) PROVE Carries(s \o t, b)
  <2>1. PICK k \in 1 .. Len(t) : t[k] = b
    BY <1>3 DEF Carries
  <2>2. Len(s) + k \in 1 .. Len(s \o t) /\ (s \o t)[Len(s) + k] = b
    BY <1>1, <2>1, ConcatProperties
  <2> QED  BY <2>2 DEF Carries
<1> QED  BY <1>2, <1>3

LEMMA CarriesTail ==
    ASSUME NEW S, NEW s \in Seq(S), s # <<>>, NEW b, Carries(s, b)
    PROVE  Head(s) = b \/ Carries(Tail(s), b)
<1>1. PICK k \in 1 .. Len(s) : s[k] = b
  BY DEF Carries
<1>2. CASE k = 1
  BY <1>1, <1>2
<1>3. CASE k # 1
  <2>1. k - 1 \in 1 .. Len(Tail(s)) /\ Tail(s)[k - 1] = b
    BY <1>1, <1>3, HeadTailProperties, LenProperties
  <2> QED  BY <2>1 DEF Carries
<1> QED  BY <1>2, <1>3

LEMMA AnnouncedAppend ==
    ASSUME NEW m \in Machine, NEW s \in Seq(Byte)
    PROVE  Announced(m, Append(s, "L"))
<1>1. "L" \in Byte /\ Hello(m) # "L"
  BY DEF Byte, Hello
<1>2. Len(s) \in Nat
  BY LenProperties
<1> QED  BY <1>1, <1>2, AppendProperties DEF Announced

LEMMA AnnouncedTail ==
    ASSUME NEW m \in Machine, NEW s \in Seq(Byte), s # <<>>, Announced(m, s)
    PROVE  /\ Announced(m, Tail(s))
           /\ Head(s) = Hello(m) => Carries(Tail(s), "L")
<1>1. /\ Len(s) \in Nat \ {0} /\ Len(Tail(s)) = Len(s) - 1
      /\ \A k \in 1 .. Len(Tail(s)) : Tail(s)[k] = s[k + 1]
  BY HeadTailProperties, LenProperties, EmptySeq
<1>2. ASSUME NEW i \in 1 .. Len(Tail(s)), Tail(s)[i] = Hello(m)
      PROVE  \E j \in i + 1 .. Len(Tail(s)) : Tail(s)[j] = "L"
  <2>1. i + 1 \in 1 .. Len(s) /\ s[i + 1] = Hello(m)
    BY <1>1, <1>2
  <2>2. PICK k \in i + 2 .. Len(s) : s[k] = "L"
    BY <1>1, <2>1 DEF Announced
  <2>3. k - 1 \in i + 1 .. Len(Tail(s)) /\ Tail(s)[k - 1] = "L"
    BY <1>1, <2>2
  <2> QED  BY <2>3
<1>3. ASSUME Head(s) = Hello(m)
      PROVE  Carries(Tail(s), "L")
  <2>1. s[1] = Hello(m)
    BY <1>3
  <2>2. PICK k \in 2 .. Len(s) : s[k] = "L"
    BY <1>1, <2>1 DEF Announced
  <2>3. k - 1 \in 1 .. Len(Tail(s)) /\ Tail(s)[k - 1] = "L"
    BY <1>1, <2>2
  <2> QED  BY <2>3 DEF Carries
<1> QED  BY <1>2, <1>3 DEF Announced

-----------------------------------------------------------------------------
(* The parts of the inductive invariant.                                   *)

\* No step, of either machine, makes the menu remember a game.
LEMMA MenuStep ==
    ASSUME TypeOK, MenuIsReset, Next
    PROVE  MenuIsReset'
<1> PICK m \in Machine : User(m) \/ System(m)
  BY DEF Next
<1> USE DEF TypeOK, MenuIsReset
<1>1. CASE EscKey(m)
  BY <1>1 DEF EscKey, game_reset
<1>2. CASE game_keyboard_handler(m)
  BY <1>2 DEF game_keyboard_handler
<1>3. CASE Menu(m)
  <2>1. CASE single_player(m) \/ multiple_player(m)
    BY <2>1 DEF single_player, multiple_player
  <2>2. CASE how_to(m)
    BY <2>2 DEF how_to
  <2>3. CASE exit_game(m)
    <3>1. won' = won \/ won' = [won EXCEPT ![m] = FALSE]
      BY <2>3 DEF exit_game, Unserved, ServeByte, Dispatch
    <3>2. UNCHANGED <<state, isMultiplayer>>
      BY <2>3 DEF exit_game, Unserved, ServeByte
    <3> QED  BY <2>3, <3>1, <3>2 DEF exit_game
  <2> QED  BY <1>3, <2>1, <2>2, <2>3 DEF Menu
<1>4. CASE Restart(m)
  BY <1>4 DEF Restart, game_reset
<1>5. CASE game_main_loop(m)
  BY <1>5 DEF game_main_loop, WinGame, DrawGame
<1>6. CASE Arrive(m) \/ Noise(m) \/ DeafInterrupt(m)
  BY <1>6 DEF Arrive, Noise, DeafInterrupt, player
<1>7. CASE SerialInterrupt(m)
  <2>1. won' = won \/ won' = [won EXCEPT ![m] = FALSE]
    BY <1>7 DEF SerialInterrupt, ServeByte, Dispatch
  <2> QED  BY <1>7, <2>1 DEF SerialInterrupt, ServeByte
<1> QED  BY <1>1, <1>2, <1>3, <1>4, <1>5, <1>6, <1>7 DEF User, System

\* On a paced line the serial handler serves exactly the byte that the
\* notification was for.
LEMMA PacedServe ==
    ASSUME Paced, TypeOK, PortIsSound, NEW m \in Machine, ServeByte(m)
    PROVE  /\ notified[m] /\ rbr[m] # NoByte
           /\ notified' = [notified EXCEPT ![m] = FALSE]
           /\ rbr' = [rbr EXCEPT ![m] = NoByte]
           /\ c' = [c EXCEPT ![m] = rbr[m]]
           /\ Dispatch(m, rbr[m], line[m])
<1>1. notified[m] /\ rbr[m] # NoByte /\ received(m) = rbr[m]
  BY DEF ServeByte, PortIsSound, received
<1>2. SubSeq(line[m], 1, Len(line[m])) = line[m]
  BY SubSeqFull DEF TypeOK
<1>3. PICK n \in Overtaken(m) :
          /\ notified' = [notified EXCEPT ![m] = n > 0 /\ running'[m]]
          /\ Dispatch(m, received(m), SubSeq(line[m], n + 1, Len(line[m])))
  BY DEF ServeByte
<1>4. n = 0
  BY <1>3 DEF Overtaken
<1>5. notified' = [notified EXCEPT ![m] = FALSE]
  <2>1. (n > 0 /\ running'[m]) = FALSE
    BY <1>4
  <2> QED  BY <1>3, <2>1, Zenon
<1>6. Dispatch(m, received(m), SubSeq(line[m], 1, Len(line[m])))
  <2>1. n + 1 = 1
    BY <1>4
  <2> QED  BY <1>3, <2>1, Zenon
<1>7. Dispatch(m, rbr[m], line[m])
  BY <1>1, <1>2, <1>6, Zenon
<1> QED  BY <1>1, <1>5, <1>7 DEF ServeByte

\* The bytes that are appended to the cable are none of them a NUL.
LEMMA HelloIsByte ==
    ASSUME NEW m \in Machine
    PROVE  Hello(m) \in Byte /\ Hello(m) # "NUL" /\ Hello(m) # "L"
BY DEF Hello, Byte

\* Without noise, and with the register served byte by byte, no NUL appears
\* and no notification is left without its byte.
LEMMA PortStep ==
    ASSUME Paced, ~LineNoise, TypeOK, PortIsSound, Next
    PROVE  PortIsSound'
<1> PICK m \in Machine : User(m) \/ System(m)
  BY DEF Next
<1> DEFINE NoNul(s) == \A i \in 1 .. Len(s) : s[i] # "NUL"
<1>a. /\ PortIsSound <=> \A p \in Machine : /\ notified[p] => rbr[p] # NoByte
                                            /\ c[p] # "NUL" /\ rbr[p] # "NUL"
                                            /\ NoNul(line[p])
      /\ PortIsSound' <=> \A p \in Machine : /\ notified'[p] => rbr'[p] # NoByte
                                             /\ c'[p] # "NUL" /\ rbr'[p] # "NUL"
                                             /\ NoNul(line'[p])
  BY DEF PortIsSound
<1>b. \A s \in Seq(Byte), e \in Byte :
          NoNul(s) /\ e # "NUL" => NoNul(Append(s, e))
  <2> TAKE s \in Seq(Byte), e \in Byte
  <2> QED  BY AppendProperties, LenProperties
<1>c. \A s \in Seq(Byte) : s # <<>> /\ NoNul(s) => NoNul(Tail(s)) /\ Head(s) # "NUL"
  <2> SUFFICES ASSUME NEW s \in Seq(Byte), s # <<>>, NoNul(s)
               PROVE  NoNul(Tail(s)) /\ Head(s) # "NUL"
    OBVIOUS
  <2>1. Len(s) \in Nat \ {0} /\ Len(Tail(s)) = Len(s) - 1
    BY HeadTailProperties, EmptySeq, LenProperties
  <2>2. Head(s) = s[1]
    OBVIOUS
  <2> QED  BY <2>1, <2>2, HeadTailProperties
<1> HIDE DEF NoNul
<1>1. CASE EscKey(m) \/ game_keyboard_handler(m)
  BY <1>a, <1>1 DEF EscKey, game_keyboard_handler, port
<1>2. CASE single_player(m) \/ how_to(m)
  BY <1>a, <1>2 DEF single_player, how_to, port
<1>3. CASE multiple_player(m)
  BY <1>a, <1>b, <1>3, HelloIsByte, PeerIsOther DEF multiple_player, port, TypeOK
<1>4. CASE exit_game(m) /\ Unserved(m)
  BY <1>a, <1>4 DEF Unserved, TypeOK
<1>5. CASE Restart(m)
  <2>1. c' = [c EXCEPT ![m] = One] /\ One # "NUL"
    BY <1>5 DEF Restart, One
  <2>2. PICK raised \in BOOLEAN :
            notified' = [notified EXCEPT ![m] = raised /\ rbr[m] # NoByte]
    BY <1>5 DEF Restart
  <2>3. \A p \in Machine : notified'[p] => notified[p] \/ rbr[p] # NoByte
    BY <2>2, Zenon DEF TypeOK
  <2> QED  BY <1>a, <1>5, <2>1, <2>3 DEF Restart, TypeOK
<1>6. CASE game_main_loop(m)
  <2>1. "L" \in Byte /\ "L" # "NUL"
    BY DEF Byte
  <2>2. \/ line' = line
        \/ line' = [line EXCEPT ![Peer(m)] = Append(@, "L")]
    BY <1>6 DEF game_main_loop, WinGame, DrawGame
  <2>3. NoNul(Append(line[Peer(m)], "L"))
    BY <1>a, <1>b, <2>1, PeerIsOther DEF TypeOK
  <2>4. \A p \in Machine : NoNul(line'[p])
    BY <1>a, <2>2, <2>3, PeerIsOther DEF TypeOK
  <2> QED  BY <1>a, <1>6, <2>4 DEF game_main_loop, port
<1>7. CASE Arrive(m)
  <2>1. Head(line[m]) # "NUL" /\ NoNul(Tail(line[m])) /\ Head(line[m]) \in Byte
    BY <1>a, <1>c, <1>7, HeadTailProperties DEF Arrive, TypeOK
  <2>2. Head(line[m]) # NoByte
    BY <2>1 DEF Byte, NoByte
  <2> QED  BY <1>a, <1>7, <2>1, <2>2 DEF Arrive, TypeOK
<1>8. CASE ServeByte(m)
  <2>1. \/ line' = [line EXCEPT ![m] = line[m], ![Peer(m)] = @ \o Reply(m)]
        \/ line' = [line EXCEPT ![m] = line[m]]
    BY <1>8, PacedServe DEF Dispatch
  <2>2. \A s \in Seq(Byte) : NoNul(s) => NoNul(s \o Reply(m))
    <3>1. \A s \in Seq(Byte) : s \o <<>> = s /\ s \o <<Hello(m)>> = Append(s, Hello(m))
      BY HelloIsByte, ConcatEmptySeq, AppendIsConcat
    <3> QED  BY <1>b, <3>1, HelloIsByte DEF Reply
  <2>3. \A p \in Machine : NoNul(line'[p])
    <3>1. NoNul(line[Peer(m)] \o Reply(m))
      BY <1>a, <2>2, PeerIsOther DEF TypeOK
    <3> QED  BY <1>a, <2>1, <3>1, PeerIsOther DEF TypeOK
  <2>4. NoByte # "NUL"
    BY DEF NoByte
  <2>5. \A p \in Machine : /\ notified'[p] => p # m /\ notified[p]
                           /\ rbr'[p] = IF p = m THEN NoByte ELSE rbr[p]
                           /\ c'[p] = IF p = m THEN rbr[m] ELSE c[p]
    BY <1>8, PacedServe DEF TypeOK
  <2> QED  BY <1>a, <2>3, <2>4, <2>5
<1>9. CASE DeafInterrupt(m) \/ Noise(m)
  BY <1>9 DEF DeafInterrupt, Noise, PortIsSound
<1> QED  BY <1>1, <1>2, <1>3, <1>4, <1>5, <1>6, <1>7, <1>8, <1>9
         DEF User, System, Menu, exit_game, SerialInterrupt

\* The step that makes both machines players sends a byte, and the byte that
\* is served lets the client in or is answered with one that will.
LEMMA StrandStep ==
    ASSUME Paced, ~LineNoise, TypeOK, MenuIsReset, PortIsSound,
           ClientIsNeverStranded, Next
    PROVE  ClientIsNeverStranded'
<1> SUFFICES ASSUME Waits(Client)', InMatch(Host)'
             PROVE  Pending(Client, "M")' \/ Pending(Host, "S")'
  BY DEF ClientIsNeverStranded
<1> PICK m \in Machine : User(m) \/ System(m)
  BY DEF Next
<1>m. /\ Host \in Machine /\ Client \in Machine /\ Host # Client
      /\ m = Host \/ m = Client
      /\ Peer(Host) = Client /\ Peer(Client) = Host
      /\ Hello(Host) = "M" /\ Hello(Client) = "S"
  BY MachinesDiffer DEF Machine, Peer, Hello
<1>b. "M" \in Byte /\ "S" \in Byte /\ "L" \in Byte
  BY DEF Byte
<1>in. ASSUME Waits(Client), InMatch(Host)
       PROVE  Pending(Client, "M") \/ Pending(Host, "S")
  BY <1>in DEF ClientIsNeverStranded
<1>1. CASE EscKey(m) \/ single_player(m) \/ how_to(m) \/ Restart(m)
  <2>1. ~InMatch(m)'
    BY <1>1 DEF EscKey, single_player, how_to, Restart, game_reset, InMatch,
                TypeOK
  <2> QED  BY <1>m, <2>1 DEF Waits
<1>2. CASE exit_game(m)
  <2>1. ~InMatch(m)'
    BY <1>2 DEF exit_game, Unserved, ServeByte, InMatch
  <2> QED  BY <1>m, <2>1 DEF Waits
<1>3. CASE game_keyboard_handler(m) \/ Noise(m)
  BY <1>in, <1>3 DEF game_keyboard_handler, Noise, port, Waits, InMatch, Pending
<1>4. CASE multiple_player(m)
  <2>1. line' = [line EXCEPT ![Peer(m)] = Append(line[Peer(m)], Hello(m))]
    BY <1>4 DEF multiple_player
  <2>2. Carries(Append(line[Peer(m)], Hello(m)), Hello(m))
    BY PeerIsOther, HelloIsByte, CarriesAppend DEF TypeOK
  <2>3. Carries(line'[Peer(m)], Hello(m))
    BY <2>1, <2>2, PeerIsOther DEF TypeOK
  <2> QED  BY <1>m, <2>3 DEF Pending
<1>5. CASE game_main_loop(m)
  <2>1. Waits(Client) /\ InMatch(Host)
    BY <1>5, <1>m DEF game_main_loop, WinGame, DrawGame, Waits, InMatch, TypeOK
  <2>2. \A p \in Machine : \A b : Carries(line[p], b) => Carries(line'[p], b)
    <3>1. \A b : Carries(line[Peer(m)], b) => Carries(Append(line[Peer(m)], "L"), b)
      BY <1>b, PeerIsOther, CarriesAppend DEF TypeOK
    <3>2. \/ line' = line
          \/ line' = [line EXCEPT ![Peer(m)] = Append(line[Peer(m)], "L")]
      BY <1>5 DEF game_main_loop, WinGame, DrawGame
    <3> QED  BY <3>1, <3>2, PeerIsOther DEF TypeOK
  <2>3. notified' = notified /\ rbr' = rbr
    BY <1>5 DEF game_main_loop, port
  <2> QED  BY <1>in, <1>m, <2>1, <2>2, <2>3 DEF Pending
<1>6. CASE Arrive(m)
  <2>1. Waits(Client) /\ InMatch(Host) /\ running[m] /\ ~notified[m]
    BY <1>6, <1>m DEF Arrive, player, Waits, InMatch, MenuIsReset
  <2>2. \A b : Carries(line[m], b) => Head(line[m]) = b \/ Carries(Tail(line[m]), b)
    BY <1>6, CarriesTail DEF Arrive, TypeOK
  <2>3. \A p \in Machine :
            /\ notified'[p] = IF p = m THEN TRUE ELSE notified[p]
            /\ rbr'[p] = IF p = m THEN Head(line[m]) ELSE rbr[p]
            /\ line'[p] = IF p = m THEN Tail(line[m]) ELSE line[p]
    BY <1>6, <2>1 DEF Arrive, TypeOK
  <2>4. \A b : Pending(m, b) => Pending(m, b)'
    BY <2>1, <2>2, <2>3 DEF Pending
  <2>5. \A p \in Machine : \A b : p # m /\ Pending(p, b) => Pending(p, b)'
    BY <2>3 DEF Pending
  <2> QED  BY <1>in, <1>m, <2>1, <2>4, <2>5
<1>7. CASE SerialInterrupt(m)
  <2>1. Waits(Client) /\ InMatch(Host)
    BY <1>7, <1>m DEF SerialInterrupt, ServeByte, Dispatch, Waits, InMatch, TypeOK
  <2>2. /\ rbr[m] # NoByte
        /\ notified' = [notified EXCEPT ![m] = FALSE]
        /\ rbr' = [rbr EXCEPT ![m] = NoByte]
        /\ Dispatch(m, rbr[m], line[m])
    BY <1>7, PacedServe DEF SerialInterrupt
  <2>3. Reply(m) \in Seq(Byte)
    <3>1. Hello(m) \in Byte
      BY HelloIsByte
    <3> QED  BY <3>1 DEF Reply
  <2>4. \A b : Carries(line[Peer(m)], b) => Carries(line[Peer(m)] \o Reply(m), b)
    BY <2>3, PeerIsOther, CarriesConcat DEF TypeOK
  <2>5. \A p \in Machine : \A b : Carries(line[p], b) => Carries(line'[p], b)
    <3>1. \/ line' = [line EXCEPT ![m] = line[m],
                               ![Peer(m)] = line[Peer(m)] \o Reply(m)]
          \/ line' = [line EXCEPT ![m] = line[m]]
      BY <2>2 DEF Dispatch
    <3>2. CASE line' = [line EXCEPT ![m] = line[m],
                                    ![Peer(m)] = line[Peer(m)] \o Reply(m)]
      <4>1. \A p \in Machine : p # Peer(m) => line'[p] = line[p]
        BY <3>2, PeerIsOther DEF TypeOK
      <4>2. line'[Peer(m)] = line[Peer(m)] \o Reply(m)
        BY <3>2, PeerIsOther DEF TypeOK
      <4> QED  BY <2>4, <4>1, <4>2
    <3>3. CASE line' = [line EXCEPT ![m] = line[m]]
      BY <3>3 DEF TypeOK
    <3> QED  BY <3>1, <3>2, <3>3
  <2>6. \A p \in Machine : \A b : p # m /\ Pending(p, b) => Pending(p, b)'
    BY <2>2, <2>5 DEF Pending, TypeOK
  <2>7. \A b : Pending(m, b) /\ rbr[m] # b => Pending(m, b)'
    BY <2>5 DEF Pending
  <2>8. CASE m = Client /\ rbr[m] = "M"
    <3>1. Activates(m, rbr[m])
      BY <2>1, <2>8 DEF Activates, can_enter_multiplayer, Waits
    <3>2. gameState'[Client] = "Running"
      BY <2>2, <2>8, <3>1, <1>m DEF Dispatch, Loses, TypeOK
    <3> QED  BY <3>2 DEF Waits
  <2>9. CASE m = Host /\ rbr[m] = "S"
    <3>1. Reply(m) = <<"M">>
      BY <1>m, <2>1, <2>9 DEF Reply, InMatch
    <3>2. Carries(<<"M">>, "M")
      BY DEF Carries
    <3>3. Carries(line[Client] \o <<"M">>, "M")
      BY <1>m, <1>b, <3>1, <3>2, <2>3, CarriesConcat DEF TypeOK
    <3>4. line' = [line EXCEPT ![m] = line[m], ![Peer(m)] = line[Peer(m)] \o Reply(m)]
      BY <2>2, <2>9 DEF Dispatch, Activates, Loses
    <3>5. line'[Client] = line[Client] \o <<"M">>
      BY <1>m, <2>9, <3>1, <3>4 DEF TypeOK
    <3> QED  BY <3>3, <3>5 DEF Pending
  <2> QED  BY <1>in, <1>m, <2>1, <2>6, <2>7, <2>8, <2>9
<1>8. CASE DeafInterrupt(m)
  BY <1>8 DEF DeafInterrupt, PortIsSound
<1> QED  BY <1>1, <1>2, <1>3, <1>4, <1>5, <1>6, <1>7, <1>8
         DEF User, System, Menu

\* A step that touches neither p's game nor what travels to p.
LEMMA ToldUnchanged ==
    ASSUME NEW w, NEW p, WinnerHasToldOf(w, p),
           gameState'[p] = gameState[p], notified'[p] = notified[p],
           rbr'[p] = rbr[p], line'[p] = line[p], Apart(p) => Apart(p)'
    PROVE  WinnerHasToldOf(w, p)'
BY DEF WinnerHasToldOf, Pending

\* The winner's own steps: it wins, and tells; it is started again, and is no
\* winner; it leaves, and is none.
LEMMA ToldByWinner ==
    ASSUME Paced, ~LineNoise, TypeOK, MenuIsReset, PortIsSound,
           NEW w \in Machine, User(w) \/ System(w),
           Winner(w) => WinnerHasToldOf(w, Peer(w)), Winner(w)'
    PROVE  WinnerHasToldOf(w, Peer(w))'
<1> DEFINE p == Peer(w)
<1>p. p \in Machine /\ p # w
  BY PeerIsOther
<1> HIDE DEF p
<1> USE <1>p
<1>same. ASSUME Winner(w), UNCHANGED <<running, state, isMultiplayer>>,
                gameState'[p] = gameState[p], notified'[p] = notified[p],
                rbr'[p] = rbr[p], line'[p] = line[p]
         PROVE  WinnerHasToldOf(w, p)'
  <2>1. Apart(p) => Apart(p)'
    BY <1>same DEF Apart
  <2> QED  BY <1>same, <2>1, ToldUnchanged DEF p
<1>1. CASE EscKey(w) \/ single_player(w) \/ how_to(w) \/ Restart(w) \/ exit_game(w)
  <2>1. ~InMatch(w)'
    BY <1>1 DEF EscKey, single_player, how_to, Restart, exit_game, Unserved,
                ServeByte, game_reset, InMatch, TypeOK
  <2> QED  BY <2>1 DEF Winner
<1>2. CASE multiple_player(w)
  BY <1>2 DEF multiple_player, Winner, MenuIsReset
<1>3. CASE game_keyboard_handler(w)
  BY <1>3, <1>same DEF game_keyboard_handler, port, Winner, InMatch, p
<1>4. CASE game_main_loop(w)
  <2>1. isMultiplayer[w]
    BY <1>4 DEF game_main_loop, Winner, InMatch
  <2>2. CASE WinGame(w)
    <3>1. line' = [line EXCEPT ![p] = Append(line[p], "L")]
      BY <2>1, <2>2 DEF WinGame, p
    <3>2. line'[p] = Append(line[p], "L")
      BY <3>1 DEF TypeOK
    <3>3. "L" \in Byte /\ line[p] \in Seq(Byte)
      BY DEF Byte, TypeOK
    <3>4. Carries(line'[p], "L")
      BY <3>2, <3>3, CarriesAppend
    <3>5. Announced(w, line'[p])
      BY <3>2, <3>3, AnnouncedAppend
    <3> QED  BY <3>4, <3>5 DEF WinnerHasToldOf, Pending, Announced, Hello, p
  <2>3. CASE DrawGame(w)
    BY <1>4, <2>3, <1>same DEF game_main_loop, DrawGame, port, Winner, InMatch, p
  <2> QED  BY <1>4, <2>2, <2>3 DEF game_main_loop
<1>5. CASE Arrive(w)
  <2>1. Winner(w)
    BY <1>5 DEF Arrive, player, Winner, InMatch
  <2> QED  BY <1>5, <2>1, <1>same DEF Arrive, player, TypeOK, p
<1>6. CASE SerialInterrupt(w)
  <2>1. /\ notified' = [notified EXCEPT ![w] = FALSE]
        /\ rbr' = [rbr EXCEPT ![w] = NoByte]
        /\ Dispatch(w, rbr[w], line[w])
    BY <1>6, PacedServe DEF SerialInterrupt
  <2>2. gameState'[w] = "Finish" /\ won'[w]
    BY DEF Winner
  <2>3. /\ line' = [line EXCEPT ![w] = line[w]]
        /\ UNCHANGED <<gameState, won>>
    BY <2>1, <2>2 DEF Dispatch, TypeOK
  <2>4. Winner(w)
    BY <1>6, <2>3 DEF SerialInterrupt, ServeByte, Winner, InMatch
  <2> QED  BY <1>6, <2>1, <2>3, <2>4, <1>same DEF SerialInterrupt, ServeByte, TypeOK, p
<1>7. CASE DeafInterrupt(w) \/ Noise(w)
  BY <1>7 DEF DeafInterrupt, Noise, PortIsSound
<1> QED  BY <1>1, <1>2, <1>3, <1>4, <1>5, <1>6, <1>7 DEF User, System, Menu, p

\* The peer's steps: what starts its game again has the announcement behind
\* it, and only the announcement itself, or leaving, takes it from the way.
LEMMA ToldByPeer ==
    ASSUME Paced, ~LineNoise, TypeOK, MenuIsReset, PortIsSound,
           NEW w \in Machine, User(Peer(w)) \/ System(Peer(w)),
           Winner(w) => WinnerHasToldOf(w, Peer(w)), Winner(w)'
    PROVE  WinnerHasToldOf(w, Peer(w))'
<1> DEFINE p == Peer(w)
<1>p. p \in Machine /\ p # w /\ Peer(p) = w
  BY PeerIsOther, MachinesDiffer DEF Peer, Machine
<1> HIDE DEF p
<1> USE <1>p
<1>a. User(p) \/ System(p)
  BY DEF p
<1>w. Winner(w)
  <2>1. /\ state'[w] = state[w] /\ isMultiplayer'[w] = isMultiplayer[w]
        /\ gameState'[w] = gameState[w] /\ won'[w] = won[w]
    <3>1. CASE User(p) /\ ~exit_game(p)
      BY <3>1 DEF User, Menu, EscKey, game_keyboard_handler, single_player,
                  multiple_player, how_to, Restart, game_reset, TypeOK
    <3>2. CASE game_main_loop(p) \/ SerialInterrupt(p) \/ exit_game(p)
      BY <3>2 DEF game_main_loop, WinGame, DrawGame, SerialInterrupt, exit_game,
                  Unserved, ServeByte, Dispatch, TypeOK
    <3>3. CASE Arrive(p) \/ Noise(p) \/ DeafInterrupt(p)
      BY <3>3 DEF Arrive, Noise, DeafInterrupt, player
    <3> QED  BY <1>a, <3>1, <3>2, <3>3 DEF System
  <2> QED  BY <2>1 DEF Winner, InMatch
<1>told. WinnerHasToldOf(w, p)
  BY <1>w DEF p
<1>1. CASE EscKey(p) \/ Restart(p)
  <2>1. gameState'[p] = "Waiting" /\ rbr'[p] = rbr[p] /\ line'[p] = line[p]
    BY <1>1 DEF EscKey, Restart, game_reset, port, TypeOK
  <2> QED  BY <1>told, <2>1 DEF WinnerHasToldOf, p
<1>2. CASE single_player(p) \/ (exit_game(p) /\ Unserved(p))
  <2>1. Apart(p)' /\ rbr'[p] = rbr[p] /\ line'[p] = line[p]
    BY <1>2 DEF single_player, exit_game, Unserved, Apart, port, TypeOK
  <2> QED  BY <1>told, <2>1 DEF WinnerHasToldOf, p
<1>3. CASE multiple_player(p) \/ how_to(p)
  <2>1. ~Apart(p)
    BY <1>3 DEF multiple_player, how_to, Apart
  <2>2. /\ gameState'[p] = gameState[p] /\ notified'[p] = notified[p]
        /\ rbr'[p] = rbr[p] /\ line'[p] = line[p]
    BY <1>3 DEF multiple_player, how_to, port, TypeOK
  <2> QED  BY <1>told, <2>1, <2>2, ToldUnchanged DEF p
<1>4. CASE game_keyboard_handler(p)
  <2>1. Apart(p) => Apart(p)'
    BY <1>4 DEF game_keyboard_handler, Apart
  <2> QED  BY <1>told, <1>4, <2>1, ToldUnchanged
           DEF game_keyboard_handler, port, p
<1>5. CASE game_main_loop(p)
  <2>1. rbr'[p] = rbr[p] /\ notified'[p] = notified[p] /\ line'[p] = line[p]
    BY <1>5 DEF game_main_loop, WinGame, DrawGame, port, TypeOK
  <2>2. CASE WinGame(p)
    <3>1. gameState'[p] = "Finish"
      BY <2>2 DEF WinGame, TypeOK
    <3> QED  BY <1>told, <2>1, <3>1 DEF WinnerHasToldOf, p
  <2>3. CASE DrawGame(p)
    <3>1. gameState'[p] = gameState[p] /\ (Apart(p) => Apart(p)')
      BY <1>5, <2>3 DEF game_main_loop, DrawGame, Apart
    <3> QED  BY <1>told, <2>1, <3>1, ToldUnchanged DEF p
  <2> QED  BY <1>5, <2>2, <2>3 DEF game_main_loop
<1>6. CASE Arrive(p)
  <2>1. /\ rbr'[p] = Head(line[p]) /\ line'[p] = Tail(line[p])
        /\ notified'[p] = running[p] /\ ~notified[p]
        /\ gameState' = gameState /\ (Apart(p)' <=> Apart(p))
    BY <1>6 DEF Arrive, player, Apart, TypeOK
  <2>2. line[p] # <<>> /\ line[p] \in Seq(Byte)
    BY <1>6 DEF Arrive, TypeOK
  <2>3. /\ Announced(w, Tail(line[p]))
        /\ Head(line[p]) = Hello(w) => Carries(Tail(line[p]), "L")
    BY <1>told, <2>2, AnnouncedTail DEF WinnerHasToldOf
  <2>4. ASSUME gameState[p] = "Running", ~Apart(p)
        PROVE  Head(line[p]) = "L" \/ Carries(Tail(line[p]), "L")
    <3>1. Carries(line[p], "L")
      BY <1>told, <2>1, <2>4 DEF WinnerHasToldOf, Pending
    <3> QED  BY <2>2, <3>1, CarriesTail
  <2>5. ~Apart(p) => running[p]
    BY DEF Apart
  <2> QED  BY <2>1, <2>3, <2>4, <2>5
           DEF WinnerHasToldOf, Pending, Announced, Hello, p
<1>7. CASE ServeByte(p) /\ (Apart(p) => Apart(p)')
  <2>1. /\ rbr' = [rbr EXCEPT ![p] = NoByte]
        /\ Dispatch(p, rbr[p], line[p])
    BY <1>7, PacedServe
  <2>2. line'[p] = line[p]
    BY <2>1 DEF Dispatch, TypeOK
  <2>3. rbr'[p] # Hello(w)
    BY <2>1, HelloIsByte DEF NoByte, Byte, TypeOK
  <2>5. ASSUME gameState'[p] = "Running", ~Apart(p)
        PROVE  Carries(line[p], "L")
    <3>1. CASE Activates(p, rbr[p])
      <4>1. rbr[p] = Hello(w)
        BY <3>1, MachinesDiffer DEF Activates, Hello, Machine
      <4> QED  BY <1>told, <4>1 DEF WinnerHasToldOf
    <3>2. CASE ~Activates(p, rbr[p])
      <4>1. gameState[p] = "Running" /\ rbr[p] # "L"
        BY <2>1, <2>5, <3>2 DEF Dispatch, Loses, can_lose, TypeOK
      <4> QED  BY <1>told, <2>5, <4>1 DEF WinnerHasToldOf, Pending
    <3> QED  BY <3>1, <3>2
  <2> QED  BY <1>told, <1>7, <2>2, <2>3, <2>5
           DEF WinnerHasToldOf, Pending, Announced, Hello, p
<1>8. CASE DeafInterrupt(p) \/ Noise(p)
  BY <1>8 DEF DeafInterrupt, Noise, PortIsSound
<1>9. ASSUME exit_game(p) \/ SerialInterrupt(p)
      PROVE  (exit_game(p) /\ Unserved(p)) \/ (ServeByte(p) /\ (Apart(p) => Apart(p)'))
  BY <1>9 DEF exit_game, SerialInterrupt, ServeByte, Apart, TypeOK
<1> QED  BY <1>a, <1>1, <1>2, <1>3, <1>4, <1>5, <1>6, <1>7, <1>8, <1>9
         DEF User, System, Menu, p

-----------------------------------------------------------------------------
(* The theorems.                                                           *)

LEMMA InvariantInit == Init => IInv
BY EmptySeq, MachinesDiffer
   DEF Init, IInv, MenuIsReset, PortIsSound, ClientIsNeverStranded, Waits,
       InMatch, Winner, Machine, One, NoByte

LEMMA InvariantStep ==
    ASSUME Paced, ~LineNoise, TypeOK, IInv, [Next]_vars
    PROVE  IInv'
<1>1. CASE Next
  <2>1. MenuIsReset' /\ PortIsSound' /\ ClientIsNeverStranded'
    BY <1>1, MenuStep, PortStep, StrandStep DEF IInv
  <2>2. ASSUME NEW w \in Machine, Winner(w)'
        PROVE  WinnerHasToldOf(w, Peer(w))'
    <3>1. PICK m \in Machine : User(m) \/ System(m)
      BY <1>1 DEF Next
    <3>2. m = w \/ m = Peer(w)
      BY DEF Machine, Peer
    <3> QED  BY <2>2, <3>1, <3>2, ToldByWinner, ToldByPeer DEF IInv
  <2> QED  BY <2>1, <2>2 DEF IInv
<1>2. CASE UNCHANGED vars
  BY <1>2 DEF vars, IInv, MenuIsReset, PortIsSound, ClientIsNeverStranded,
              Waits, InMatch, Winner, WinnerHasToldOf, Apart, Announced, Hello,
              Peer, Machine, Pending, Carries
<1> QED  BY <1>1, <1>2

\* On a paced line without noise the announcements of both machines are
\* never lost: the strengthened invariant holds in every state.
THEOREM InvariantHolds ==
    ASSUME Paced, ~LineNoise
    PROVE  Spec => []IInv
<1>1. Init => IInv
  BY InvariantInit
<1>2. TypeOK /\ IInv /\ [Next]_vars => IInv'
  BY InvariantStep
<1> QED  BY <1>1, <1>2, TypeCorrect, PTL DEF Spec

\* A client that waits while the host plays is always about to be let in:
\* the handshake of multiple_player and game_activate_multiplayer, for every
\* interleaving of players who come and go.
THEOREM ClientIsLetIn ==
    ASSUME Paced, ~LineNoise
    PROVE  Spec => []ClientIsNeverStranded
<1>1. IInv => ClientIsNeverStranded
  BY DEF IInv
<1> QED  BY <1>1, InvariantHolds, PTL

\* A player who races on against a finished winner is about to be told: the
\* 'L' of game_main_loop reaches the opponent in the state it is meant for.
THEOREM WinnerIsHeard ==
    ASSUME Paced, ~LineNoise
    PROVE  Spec => []WinnerIsAnnounced
<1>1. IInv => WinnerIsAnnounced
  <2> SUFFICES ASSUME IInv, NEW m \in Machine, Winner(m), InMatch(Peer(m)),
                      gameState[Peer(m)] = "Running"
               PROVE  Pending(Peer(m), "L")
    BY DEF WinnerIsAnnounced
  <2>1. WinnerHasToldOf(m, Peer(m))
    BY DEF IInv
  <2>2. running[Peer(m)]
    BY PeerIsOther DEF IInv, MenuIsReset, InMatch
  <2> QED  BY <2>1, <2>2 DEF WinnerHasToldOf, Apart, InMatch
<1> QED  BY <1>1, InvariantHolds, PTL

-----------------------------------------------------------------------------
(* What holds on any line, noisy or overrun.                               *)

LEMMA MenuHolds == Spec => [](TypeOK /\ MenuIsReset)
<1>1. Init => MenuIsReset
  BY DEF Init, MenuIsReset
<1>2. TypeOK /\ MenuIsReset /\ [Next]_vars => MenuIsReset'
  <2>1. ASSUME TypeOK, MenuIsReset, UNCHANGED vars PROVE MenuIsReset'
    BY <2>1 DEF vars, MenuIsReset
  <2> QED  BY <2>1, MenuStep
<1> QED  BY <1>1, <1>2, TypeCorrect, PTL DEF Spec

\* No byte, late, repeated or made up by the line, starts the finished game
\* of the client again: only the player leaves the result screen.
THEOREM ClientStaysFinished == Spec => ClientFinishIsFinal
<1>1. ASSUME TypeOK, Next, state[Client] = "Game", gameState[Client] = "Finish",
             gameState'[Client] # "Finish"
      PROVE  state'[Client] = "Menu" /\ gameState'[Client] = "Waiting"
  <2>c. Client \in Machine /\ Client # Host
    BY MachinesDiffer DEF Machine
  <2>1. PICK m \in Machine : User(m) \/ System(m)
    BY <1>1 DEF Next
  <2>2. CASE EscKey(m) \/ Restart(m)
    BY <1>1, <2>2, <2>c DEF EscKey, Restart, game_reset, TypeOK
  <2>3. CASE game_keyboard_handler(m) \/ single_player(m) \/ multiple_player(m)
             \/ how_to(m) \/ Unserved(m)
    BY <1>1, <2>3, <2>c DEF game_keyboard_handler, single_player,
                            multiple_player, how_to, Unserved, TypeOK
  <2>4. CASE game_main_loop(m)
    BY <1>1, <2>4, <2>c DEF game_main_loop, WinGame, DrawGame, TypeOK
  <2>5. CASE Arrive(m) \/ Noise(m) \/ DeafInterrupt(m)
    BY <1>1, <2>5 DEF Arrive, Noise, DeafInterrupt, player
  <2>6. CASE ServeByte(m)
    BY <1>1, <2>6, <2>c DEF ServeByte, Dispatch, Activates, Loses,
                            can_enter_multiplayer, can_lose, TypeOK
  <2> QED  BY <2>1, <2>2, <2>3, <2>4, <2>5, <2>6
           DEF User, System, Menu, exit_game, SerialInterrupt
<1>2. TypeOK /\ [Next]_vars =>
          [/\ state[Client] = "Game" /\ gameState[Client] = "Finish"
           /\ gameState'[Client] # "Finish"
           => state'[Client] = "Menu" /\ gameState'[Client] = "Waiting"]_vars
  BY <1>1
<1> QED  BY <1>2, TypeCorrect, PTL DEF Spec, ClientFinishIsFinal

\* Only a machine in a multiplayer game puts bytes on the cable, whatever it
\* reads from it.
THEOREM OnlyPlayersSend == Spec => QuietOutsideMatch
<1> DEFINE Quiet == \A m \in Machine :
              LET sent == line'[Peer(m)]
              IN  Len(sent) > Len(line[Peer(m)]) /\ sent[Len(sent)] # "NUL"
                      => state'[m] = "Game" /\ isMultiplayer'[m]
<1>1. ASSUME TypeOK, MenuIsReset, Next, NEW q \in Machine,
             Len(line'[Peer(q)]) > Len(line[Peer(q)]),
             line'[Peer(q)][Len(line'[Peer(q)])] # "NUL"
      PROVE  state'[q] = "Game" /\ isMultiplayer'[q]
  <2>q. Peer(q) \in Machine /\ Peer(q) # q /\ Len(line[Peer(q)]) \in Nat
    BY <1>1, PeerIsOther, LenProperties DEF TypeOK
  <2>1. PICK m \in Machine : User(m) \/ System(m)
    BY <1>1 DEF Next
  <2>m. m = q \/ m = Peer(q)
    BY DEF Machine, Peer
  <2>p. Peer(m) = Peer(q) <=> m = q
    BY <2>m, MachinesDiffer DEF Machine, Peer
  <2>2. CASE multiple_player(m)
    BY <1>1, <2>2, <2>m, <2>p, <2>q, PeerIsOther DEF multiple_player, TypeOK
  <2>3. CASE game_main_loop(m)
    <3>1. isMultiplayer[m] /\ m = q
      BY <1>1, <2>3, <2>m, <2>p, <2>q, PeerIsOther
         DEF game_main_loop, WinGame, DrawGame, TypeOK
    <3> QED  BY <2>3, <3>1 DEF game_main_loop
  <2>4. CASE Arrive(m)
    <3>1. Len(Tail(line[m])) < Len(line[m])
      BY <1>1, <2>4, HeadTailProperties, LenProperties DEF Arrive, TypeOK
    <3> QED  BY <1>1, <2>4, <2>m, <2>q, <3>1 DEF Arrive, TypeOK
  <2>5. CASE Noise(m)
    <3>1. "NUL" \in Byte
      BY DEF Byte
    <3>2. Append(line[m], "NUL")[Len(Append(line[m], "NUL"))] = "NUL"
      BY <1>1, <3>1, AppendProperties, LenProperties DEF TypeOK
    <3> QED  BY <1>1, <2>5, <2>m, <2>q, <3>2 DEF Noise, TypeOK
  <2>6. CASE ServeByte(m)
    <3>1. PICK n \in Overtaken(m) :
              Dispatch(m, received(m), SubSeq(line[m], n + 1, Len(line[m])))
      BY <2>6 DEF ServeByte
    <3>2. ~(Len(SubSeq(line[m], n + 1, Len(line[m]))) > Len(line[m]))
      <4>1. line[m] \in Seq(Byte) /\ Len(line[m]) \in Nat
        BY <1>1, LenProperties DEF TypeOK
      <4>2. n \in 0 .. Len(line[m])
        BY <3>1, <4>1 DEF Overtaken
      <4>3. \A i \in n + 1 .. Len(line[m]) : line[m][i] \in Byte
        BY <4>1, <4>2, ElementOfSeq
      <4> QED  BY <4>1, <4>2, <4>3, SubSeqProperties
    <3>3. m = q
      <4>1. ASSUME m = Peer(q) PROVE FALSE
        <5>1. line'[m] = SubSeq(line[m], n + 1, Len(line[m]))
          BY <1>1, <3>1, PeerIsOther DEF Dispatch, TypeOK
        <5>2. Len(line'[m]) > Len(line[m])
          BY <1>1, <4>1, Zenon
        <5> QED  BY <3>2, <5>1, <5>2, Zenon
      <4> QED  BY <2>m, <4>1
    <3>4. isMultiplayer[m]
      <4>1. ASSUME ~isMultiplayer[m] PROVE line'[Peer(m)] = line[Peer(m)]
        <5>1. line[Peer(m)] \o Reply(m) = line[Peer(m)]
          BY <1>1, <4>1, PeerIsOther, ConcatEmptySeq DEF Reply, TypeOK
        <5> QED  BY <1>1, <3>1, <5>1, PeerIsOther DEF Dispatch, TypeOK
      <4> QED  BY <1>1, <3>3, <4>1, <2>q
    <3> QED  BY <1>1, <2>6, <3>3, <3>4 DEF ServeByte, MenuIsReset, TypeOK
  <2>7. CASE \/ EscKey(m) \/ game_keyboard_handler(m) \/ single_player(m)
             \/ how_to(m) \/ Unserved(m) \/ Restart(m) \/ DeafInterrupt(m)
    BY <1>1, <2>7, <2>q DEF EscKey, game_keyboard_handler, single_player, how_to,
                            Unserved, Restart, DeafInterrupt
  <2> QED  BY <2>1, <2>2, <2>3, <2>4, <2>5, <2>6, <2>7
           DEF User, System, Menu, exit_game, SerialInterrupt
<1>2. TypeOK /\ MenuIsReset /\ [Next]_vars => [Quiet]_vars
  BY <1>1
<1> QED  BY <1>2, MenuHolds, PTL DEF Spec, QuietOutsideMatch

-----------------------------------------------------------------------------
(* The match behind the machines.                                          *)

\* One element put before a sequence.
LEMMA OneBefore ==
    ASSUME NEW S, NEW s \in Seq(S), NEW b \in S
    PROVE  /\ <<b>> \o s \in Seq(S) /\ <<b>> \o s # <<>>
           /\ Head(<<b>> \o s) = b /\ Tail(<<b>> \o s) = s
<1> DEFINE t == <<b>> \o s
<1>1. <<b>> \in Seq(S) /\ Len(<<b>>) = 1 /\ Len(s) \in Nat
  BY LenProperties
<1>2. /\ t \in Seq(S) /\ Len(t) = 1 + Len(s) /\ t[1] = b
      /\ \A i \in 1 .. Len(s) : t[i + 1] = s[i]
  BY <1>1, ConcatProperties
<1> HIDE DEF t
<1>3. t # <<>> /\ Head(t) = b
  BY <1>1, <1>2, EmptySeq
<1>4. /\ Tail(t) \in Seq(S) /\ Len(Tail(t)) = Len(s)
      /\ \A i \in 1 .. Len(s) : Tail(t)[i] = s[i]
  BY <1>1, <1>2, <1>3, HeadTailProperties
<1>5. Tail(t) = s
  BY <1>4, SeqEqual
<1> QED  BY <1>2, <1>3, <1>5 DEF t

LEMMA OneBeforeAppend ==
    ASSUME NEW S, NEW s \in Seq(S), NEW b \in S, NEW e \in S
    PROVE  <<b>> \o Append(s, e) = Append(<<b>> \o s, e)
<1>1. <<b>> \in Seq(S) /\ <<e>> \in Seq(S) /\ <<b>> \o s \in Seq(S)
  BY OneBefore
<1>2. Append(s, e) = s \o <<e>> /\ Append(<<b>> \o s, e) = (<<b>> \o s) \o <<e>>
  BY <1>1, AppendIsConcat
<1> QED  BY <1>1, <1>2, ConcatAssociative

LEMMA OneBeforeRest ==
    ASSUME NEW S, NEW s \in Seq(S), s # <<>>
    PROVE  <<Head(s)>> \o Tail(s) = s
<1> DEFINE t == <<Head(s)>> \o Tail(s)
<1>1. /\ Head(s) \in S /\ Tail(s) \in Seq(S) /\ Head(s) = s[1]
      /\ Len(s) \in Nat \ {0} /\ Len(Tail(s)) = Len(s) - 1
      /\ \A i \in 1 .. Len(Tail(s)) : Tail(s)[i] = s[i + 1]
  BY HeadTailProperties, LenProperties, EmptySeq
<1>2. /\ <<Head(s)>> \in Seq(S) /\ Len(<<Head(s)>>) = 1
  BY <1>1
<1>3. /\ t \in Seq(S) /\ Len(t) = Len(s) /\ t[1] = s[1]
      /\ \A i \in 1 .. Len(Tail(s)) : t[i + 1] = Tail(s)[i]
  BY <1>1, <1>2, ConcatProperties
<1> HIDE DEF t
<1>4. ASSUME NEW i \in 1 .. Len(s) PROVE t[i] = s[i]
  <2>1. CASE i = 1
    BY <1>3, <2>1
  <2>2. CASE i # 1
    <3>1. i - 1 \in 1 .. Len(Tail(s)) /\ (i - 1) + 1 = i
      BY <1>1, <2>2
    <3> QED  BY <1>1, <1>3, <3>1
  <2> QED  BY <2>1, <2>2
<1>5. t = s
  BY <1>3, <1>4, SeqEqual
<1> QED  BY <1>5 DEF t

\* The byte in the register is the oldest message, those on the cable follow.
LEMMA MailShape ==
    ASSUME TypeOK, NEW p \in Machine
    PROVE  /\ line[p] \in Seq(Byte) /\ Mail(p) \in Seq(Byte)
           /\ rbr[p] # NoByte => /\ rbr[p] \in Byte
                                 /\ Mail(p) = <<rbr[p]>> \o line[p]
                                 /\ Mail(p) # <<>>
                                 /\ Head(Mail(p)) = rbr[p]
                                 /\ Tail(Mail(p)) = line[p]
<1>1. line[p] \in Seq(Byte) /\ (rbr[p] # NoByte => rbr[p] \in Byte)
  BY DEF TypeOK
<1>2. CASE rbr[p] = NoByte
  BY <1>1, <1>2 DEF Mail
<1>3. CASE rbr[p] # NoByte
  <2>1. Mail(p) = <<rbr[p]>> \o line[p]
    BY <1>3 DEF Mail
  <2> QED  BY <1>1, <1>3, <2>1, OneBefore
<1> QED  BY <1>2, <1>3

\* A byte put on the cable is the youngest message.
LEMMA MailSent ==
    ASSUME TypeOK, NEW p \in Machine, NEW b \in Byte,
           rbr'[p] = rbr[p], line'[p] = Append(line[p], b)
    PROVE  Mail(p)' = Append(Mail(p), b)
<1>1. CASE rbr[p] = NoByte
  BY <1>1 DEF Mail
<1>2. CASE rbr[p] # NoByte
  <2>1. Mail(p)' = <<rbr[p]>> \o Append(line[p], b)
    BY <1>2 DEF Mail
  <2>2. Mail(p) = <<rbr[p]>> \o line[p]
    BY <1>2, MailShape
  <2> QED  BY <1>2, <2>1, <2>2, MailShape, OneBeforeAppend
<1> QED  BY <1>1, <1>2

\* A step of m that leaves the peer's player alone, seen as functions.
LEMMA AsFunctions ==
    ASSUME NEW m \in Machine,
           \A q \in Machine \ {m} : /\ PlaceOf(q)' = PlaceOf(q)
                                    /\ PhaseOf(q)' = PhaseOf(q)
    PROVE  /\ [q \in Machine |-> PlaceOf(q)]'
                  = [[q \in Machine |-> PlaceOf(q)] EXCEPT ![m] = PlaceOf(m)']
           /\ [q \in Machine |-> PhaseOf(q)]'
                  = [[q \in Machine |-> PhaseOf(q)] EXCEPT ![m] = PhaseOf(m)']
OBVIOUS

LEMMA MatchInit == Init => TheMatch!Init
BY DEF Init, TheMatch!Init, TheMatch!Player, Machine, PlaceOf, PhaseOf, Mail

\* The rules by which the step of one machine is a step of the match.
LEMMA MatchStep ==
    ASSUME Paced, ~LineNoise, TypeOK, MenuIsReset, PortIsSound,
           NEW m \in Machine, User(m) \/ System(m)
    PROVE  [TheMatch!Next]_(TheMatch!vars)
<1> DEFINE place == [q \in Machine |-> PlaceOf(q)]
           phase == [q \in Machine |-> PhaseOf(q)]
           mail == [q \in Machine |-> Mail(q)]
           p == Peer(m)
<1>m. /\ p \in Machine /\ p # m /\ \A q \in Machine : q = m \/ q = p
      /\ TheMatch!Player = Machine /\ TheMatch!Other(m) = p
      /\ TheMatch!Call(m) = Hello(m) /\ TheMatch!Call(p) = Hello(p)
      /\ TheMatch!Verdict = "L"
  BY PeerIsOther, MachinesDiffer
     DEF Machine, Peer, Hello, TheMatch!Player, TheMatch!Other, TheMatch!Call, TheMatch!Verdict
<1>n. ASSUME \/ TheMatch!Enter(m) \/ TheMatch!PlayAlone(m) \/ TheMatch!Leave(m)
             \/ TheMatch!Start(m) \/ TheMatch!Win(m) \/ TheMatch!Lose(m)
             \/ TheMatch!Ignore(m)
      PROVE  TheMatch!Next
  BY <1>m, <1>n DEF TheMatch!Next
<1>stay. ASSUME state'[p] = state[p], isMultiplayer'[p] = isMultiplayer[p],
                gameState'[p] = gameState[p], won'[p] = won[p]
         PROVE  \A q \in Machine \ {m} : PlaceOf(q)' = PlaceOf(q) /\ PhaseOf(q)' = PhaseOf(q)
  BY <1>m, <1>stay DEF PlaceOf, PhaseOf
<1>keep. ASSUME rbr' = rbr, line' = line
         PROVE  mail' = mail
  BY <1>keep DEF Mail
<1>1. CASE EscKey(m) \/ Restart(m)
  <2>1. /\ state'[m] = "Menu" /\ gameState'[m] = "Waiting" /\ rbr' = rbr /\ line' = line
        /\ state'[p] = state[p] /\ isMultiplayer'[p] = isMultiplayer[p]
        /\ gameState'[p] = gameState[p] /\ won'[p] = won[p]
    BY <1>1, <1>m DEF EscKey, Restart, game_reset, port, TypeOK
  <2>2. PlaceOf(m)' = "away" /\ PhaseOf(m)' = "waiting"
    BY <2>1 DEF PlaceOf, PhaseOf
  <2>3. TheMatch!Leave(m)
    BY <2>1, <2>2, <1>stay, <1>keep, AsFunctions DEF TheMatch!Leave
  <2> QED  BY <2>3, <1>n
<1>2. CASE \/ game_keyboard_handler(m) \/ how_to(m) \/ DeafInterrupt(m)
           \/ Unserved(m) \/ (game_main_loop(m) /\ DrawGame(m))
  <2>1. /\ rbr' = rbr /\ line' = line /\ gameState' = gameState /\ won' = won
        /\ isMultiplayer' = isMultiplayer
        /\ \A q \in Machine : (state'[q] = "Game") <=> (state[q] = "Game")
    BY <1>2 DEF game_keyboard_handler, how_to, DeafInterrupt, Unserved,
                game_main_loop, DrawGame, port, player, TypeOK
  <2>2. place' = place /\ phase' = phase
    BY <2>1 DEF PlaceOf, PhaseOf
  <2> QED  BY <2>1, <2>2, <1>keep DEF TheMatch!vars
<1>3. CASE single_player(m)
  <2>1. /\ state[m] = "Menu" /\ state'[m] = "Game" /\ gameState'[m] = "Running"
        /\ ~isMultiplayer'[m] /\ rbr' = rbr /\ line' = line
        /\ state'[p] = state[p] /\ isMultiplayer'[p] = isMultiplayer[p]
        /\ gameState'[p] = gameState[p] /\ won'[p] = won[p]
    BY <1>3, <1>m DEF single_player, port, TypeOK
  <2>2. PlaceOf(m) = "away" /\ PlaceOf(m)' = "alone" /\ PhaseOf(m)' = "racing"
    BY <2>1 DEF PlaceOf, PhaseOf
  <2>3. TheMatch!PlayAlone(m)
    BY <2>1, <2>2, <1>stay, <1>keep, AsFunctions DEF TheMatch!PlayAlone
  <2> QED  BY <2>3, <1>n
<1>4. CASE multiple_player(m)
  <2>1. /\ state[m] = "Menu" /\ state'[m] = "Game" /\ isMultiplayer'[m]
        /\ gameState' = gameState /\ won' = won /\ rbr' = rbr
        /\ line'[m] = line[m] /\ line'[p] = Append(line[p], Hello(m))
        /\ state'[p] = state[p] /\ isMultiplayer'[p] = isMultiplayer[p]
    BY <1>4, <1>m DEF multiple_player, port, TypeOK
  <2>2. PlaceOf(m) = "away" /\ PlaceOf(m)' = "match" /\ PhaseOf(m)' = PhaseOf(m)
    BY <2>1 DEF PlaceOf, PhaseOf
  <2>3. Mail(m)' = Mail(m) /\ Mail(p)' = Append(Mail(p), Hello(m))
    BY <2>1, <1>m, MailSent, HelloIsByte DEF Mail
  <2>4. mail' = [mail EXCEPT ![p] = Append(mail[p], Hello(m))]
    BY <2>3, <1>m
  <2>5. place' = [place EXCEPT ![m] = "match"] /\ phase' = phase
    BY <2>1, <2>2, <1>stay, AsFunctions
  <2>6. TheMatch!Enter(m)
    BY <2>2, <2>4, <2>5, <1>m DEF TheMatch!Enter
  <2> QED  BY <2>6, <1>n
<1>5. CASE game_main_loop(m) /\ WinGame(m)
  <2>1. /\ state[m] = "Game" /\ state' = state /\ isMultiplayer' = isMultiplayer
        /\ gameState[m] = "Running" /\ gameState'[m] = "Finish" /\ won'[m]
        /\ rbr' = rbr /\ line'[m] = line[m]
        /\ line'[p] = IF isMultiplayer[m] THEN Append(line[p], "L") ELSE line[p]
        /\ gameState'[p] = gameState[p] /\ won'[p] = won[p]
    BY <1>5, <1>m DEF game_main_loop, WinGame, port, TypeOK
  <2>2. /\ PlaceOf(m) = IF isMultiplayer[m] THEN "match" ELSE "alone"
        /\ PlaceOf(m)' = PlaceOf(m)
        /\ PhaseOf(m) = "racing" /\ PhaseOf(m)' = "won"
    BY <2>1 DEF PlaceOf, PhaseOf
  <2>3. /\ Mail(m)' = Mail(m)
        /\ Mail(p)' = IF isMultiplayer[m] THEN Append(Mail(p), "L") ELSE Mail(p)
    <3>1. "L" \in Byte
      BY DEF Byte
    <3>2. CASE isMultiplayer[m]
      BY <2>1, <3>1, <3>2, <1>m, MailSent DEF Mail
    <3>3. CASE ~isMultiplayer[m]
      BY <2>1, <3>3 DEF Mail
    <3> QED  BY <3>2, <3>3
  <2>4. mail' = IF isMultiplayer[m] THEN [mail EXCEPT ![p] = Append(mail[p], "L")] ELSE mail
    BY <2>3, <1>m
  <2>5. place' = place /\ phase' = [phase EXCEPT ![m] = "won"]
    BY <2>1, <2>2, <1>stay, AsFunctions
  <2>6. TheMatch!Win(m)
    BY <2>2, <2>4, <2>5, <1>m DEF TheMatch!Win
  <2> QED  BY <2>6, <1>n
<1>6. CASE Arrive(m)
  <2>1. /\ place' = place /\ phase' = phase /\ line[m] # <<>>
        /\ rbr'[m] = Head(line[m]) /\ line'[m] = Tail(line[m])
        /\ rbr'[p] = rbr[p] /\ line'[p] = line[p]
    BY <1>6, <1>m DEF Arrive, player, PlaceOf, PhaseOf, TypeOK
  <2>2. Head(line[m]) \in Byte /\ line[m] \in Seq(Byte)
    BY <2>1, HeadTailProperties DEF TypeOK
  <2>3. Head(line[m]) # NoByte
    BY <2>2 DEF Byte, NoByte
  <2>4. Mail(m)' = line[m] /\ Mail(p)' = Mail(p)
    <3>1. Mail(m)' = <<Head(line[m])>> \o Tail(line[m])
      BY <2>1, <2>3 DEF Mail
    <3>2. <<Head(line[m])>> \o Tail(line[m]) = line[m]
      BY <2>1, <2>2, OneBeforeRest
    <3> QED  BY <2>1, <3>1, <3>2 DEF Mail
  <2>5. CASE rbr[m] = NoByte
    <3>1. mail' = mail
      BY <2>4, <2>5, <1>m DEF Mail
    <3> QED  BY <2>1, <3>1 DEF TheMatch!vars
  <2>6. CASE rbr[m] # NoByte
    <3>1. mail' = [mail EXCEPT ![m] = Tail(mail[m])]
      BY <2>4, <2>6, <1>m, MailShape
    <3>2. TheMatch!Ignore(m)
      BY <2>1, <2>6, <3>1, MailShape DEF TheMatch!Ignore
    <3> QED  BY <3>2, <1>n
  <2> QED  BY <2>5, <2>6
<1>7. CASE ServeByte(m) /\ state' = state /\ isMultiplayer' = isMultiplayer
  <2>1. /\ rbr[m] # NoByte /\ rbr' = [rbr EXCEPT ![m] = NoByte]
        /\ Dispatch(m, rbr[m], line[m])
    BY <1>7, PacedServe
  <2>2. /\ mail[m] # <<>> /\ Head(mail[m]) = rbr[m] /\ Tail(mail[m]) = line[m]
        /\ rbr[m] \in Byte
    BY <2>1, MailShape
  <2>3. place' = place
    BY <1>7 DEF PlaceOf
  <2>4. /\ rbr'[m] = NoByte /\ rbr'[p] = rbr[p] /\ line'[m] = line[m]
    BY <2>1, <1>m DEF Dispatch, TypeOK
  <2>5. Mail(m)' = line[m]
    BY <2>4 DEF Mail
  <2>6. CASE /\ Activates(m, rbr[m])
             /\ gameState' = [gameState EXCEPT ![m] = "Running"]
             /\ line' = [line EXCEPT ![m] = line[m], ![Peer(m)] = @ \o Reply(m)]
             /\ UNCHANGED won
    <3>1. rbr[m] = Hello(p) /\ (m = Client => gameState[m] = "Waiting")
      BY <2>6, <1>m, MachinesDiffer DEF Activates, can_enter_multiplayer, Hello, Machine, Peer
    <3>2. place[m] = "match" <=> isMultiplayer[m]
      BY DEF PlaceOf, MenuIsReset
    <3>3. line'[p] = line[p] \o Reply(m)
      BY <2>6, <1>m DEF TypeOK
    <3>4. Mail(p)' = IF isMultiplayer[m] THEN Append(Mail(p), Hello(m)) ELSE Mail(p)
      <4>1. CASE isMultiplayer[m]
        <5>1. line'[p] = Append(line[p], Hello(m))
          BY <3>3, <4>1, <1>m, HelloIsByte, AppendIsConcat DEF Reply, TypeOK
        <5> QED  BY <2>4, <4>1, <5>1, <1>m, HelloIsByte, MailSent
      <4>2. CASE ~isMultiplayer[m]
        <5>1. line'[p] = line[p]
          BY <3>3, <4>2, <1>m, ConcatEmptySeq DEF Reply, TypeOK
        <5> QED  BY <2>4, <4>2, <5>1 DEF Mail
      <4> QED  BY <4>1, <4>2
    <3>5. mail' = [mail EXCEPT ![m] = Tail(mail[m]),
                               ![p] = IF isMultiplayer[m]
                                      THEN Append(mail[p], Hello(m)) ELSE mail[p]]
      BY <2>2, <2>5, <3>4, <1>m
    <3>6. phase' = [phase EXCEPT ![m] = "racing"]
      <4>1. PhaseOf(m)' = "racing"
        BY <2>6 DEF PhaseOf, TypeOK
      <4>2. PhaseOf(p)' = PhaseOf(p)
        BY <2>6, <1>m DEF PhaseOf, TypeOK
      <4> QED  BY <4>1, <4>2, <1>m
    <3>7. m = Client => phase[m] = "waiting"
      BY <3>1 DEF PhaseOf
    <3>8. TheMatch!Start(m)
      BY <2>2, <2>3, <3>1, <3>2, <3>5, <3>6, <3>7, <1>m DEF TheMatch!Start
    <3> QED  BY <3>8, <1>n
  <2>7. CASE /\ Loses(m, rbr[m])
             /\ gameState' = [gameState EXCEPT ![m] = "Finish"]
             /\ won' = [won EXCEPT ![m] = FALSE]
             /\ line' = [line EXCEPT ![m] = line[m]]
    <3>1. rbr[m] = "L" /\ PhaseOf(m) = "racing" /\ PhaseOf(m)' = "lost"
      BY <2>7 DEF Loses, can_lose, PhaseOf, TypeOK
    <3>2. PhaseOf(p)' = PhaseOf(p) /\ Mail(p)' = Mail(p)
      BY <2>4, <2>7, <1>m DEF PhaseOf, Mail, TypeOK
    <3>3. mail' = [mail EXCEPT ![m] = Tail(mail[m])]
      BY <2>2, <2>5, <3>2, <1>m
    <3>4. phase' = [phase EXCEPT ![m] = "lost"]
      BY <3>1, <3>2, <1>m
    <3>5. TheMatch!Lose(m)
      BY <2>2, <2>3, <3>1, <3>3, <3>4, <1>m DEF TheMatch!Lose
    <3> QED  BY <3>5, <1>n
  <2>8. CASE line' = [line EXCEPT ![m] = line[m]] /\ UNCHANGED <<gameState, won>>
    <3>1. phase' = phase
      BY <2>8 DEF PhaseOf
    <3>2. Mail(p)' = Mail(p)
      BY <2>4, <2>8, <1>m DEF Mail, TypeOK
    <3>3. mail' = [mail EXCEPT ![m] = Tail(mail[m])]
      BY <2>2, <2>5, <3>2, <1>m
    <3>4. TheMatch!Ignore(m)
      BY <2>2, <2>3, <3>1, <3>3 DEF TheMatch!Ignore
    <3> QED  BY <3>4, <1>n
  <2> QED  BY <2>1, <2>6, <2>7, <2>8 DEF Dispatch
<1>8. ~Noise(m)
  BY DEF Noise
<1>9. ServeByte(m) => state' = state /\ isMultiplayer' = isMultiplayer
  BY DEF ServeByte
<1> QED  BY <1>1, <1>2, <1>3, <1>4, <1>5, <1>6, <1>7, <1>8, <1>9
         DEF User, System, Menu, exit_game, SerialInterrupt, game_main_loop

\* The two machines and their cable play the match that Match describes: a
\* message is read once and in order, and made up by nobody.
THEOREM PlaysTheMatch ==
    ASSUME Paced, ~LineNoise
    PROVE  Spec => IsMatch
<1>1. TypeOK /\ IInv /\ [Next]_vars => [TheMatch!Next]_(TheMatch!vars)
  <2>1. ASSUME TypeOK, IInv, Next PROVE [TheMatch!Next]_(TheMatch!vars)
    BY <2>1, MatchStep DEF IInv, Next
  <2>2. ASSUME UNCHANGED vars PROVE [TheMatch!Next]_(TheMatch!vars)
    BY <2>2 DEF vars, TheMatch!vars, PlaceOf, PhaseOf, Mail
  <2> QED  BY <2>1, <2>2
<1> QED  BY <1>1, MatchInit, TypeCorrect, InvariantHolds, PTL
         DEF Spec, IsMatch, TheMatch!Spec

=============================================================================
