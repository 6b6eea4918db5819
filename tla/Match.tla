------------------------------- MODULE Match -------------------------------
(***************************************************************************)
(* What the two programs promise their players once the cable, the UART,   *)
(* the interrupts and the screens are forgotten: two players, a mailbox    *)
(* each, and the rules by which a race starts and ends.  A message is read *)
(* once, in the order it was sent; nobody but a player in the match sends  *)
(* one, a race is lost only by the peer's message, and the client's result *)
(* stands until the client leaves.                                         *)
(***************************************************************************)
EXTENDS Sequences

CONSTANTS Host, Client

VARIABLES
    place,      \* where a player is: away, alone or in the match
    phase,      \* waiting, racing, won or lost
    mail        \* the messages on their way to a player, oldest first

vars == <<place, phase, mail>>

Player == {Host, Client}
Other(p) == IF p = Host THEN Client ELSE Host
Call(p) == IF p = Host THEN "M" ELSE "S"
Verdict == "L"

Init ==
    /\ place = [p \in Player |-> "away"]
    /\ phase = [p \in Player |-> "waiting"]
    /\ mail = [p \in Player |-> <<>>]

\* The player asks the other to play.
Enter(p) ==
    /\ place[p] = "away"
    /\ place' = [place EXCEPT ![p] = "match"]
    /\ mail' = [mail EXCEPT ![Other(p)] = Append(@, Call(p))]
    /\ UNCHANGED phase

PlayAlone(p) ==
    /\ place[p] = "away"
    /\ place' = [place EXCEPT ![p] = "alone"]
    /\ phase' = [phase EXCEPT ![p] = "racing"]
    /\ UNCHANGED mail

\* The player leaves and forgets the race; what was sent is still on its way.
Leave(p) ==
    /\ place' = [place EXCEPT ![p] = "away"]
    /\ phase' = [phase EXCEPT ![p] = "waiting"]
    /\ UNCHANGED mail

\* The race begins by a call, which a player in the match answers with one.
Start(p) ==
    /\ mail[p] # <<>> /\ Head(mail[p]) = Call(Other(p))
    /\ p = Client => phase[p] = "waiting"
    /\ phase' = [phase EXCEPT ![p] = "racing"]
    /\ mail' = [mail EXCEPT ![p] = Tail(@),
                            ![Other(p)] = IF place[p] = "match"
                                          THEN Append(@, Call(p)) ELSE @]
    /\ UNCHANGED place

\* The first at the exit has won, and a match sends its verdict to the other.
Win(p) ==
    /\ place[p] # "away" /\ phase[p] = "racing"
    /\ phase' = [phase EXCEPT ![p] = "won"]
    /\ mail' = IF place[p] = "match"
               THEN [mail EXCEPT ![Other(p)] = Append(@, Verdict)]
               ELSE mail
    /\ UNCHANGED place

Lose(p) ==
    /\ mail[p] # <<>> /\ Head(mail[p]) = Verdict
    /\ phase[p] = "racing"
    /\ phase' = [phase EXCEPT ![p] = "lost"]
    /\ mail' = [mail EXCEPT ![p] = Tail(@)]
    /\ UNCHANGED place

\* A message that comes at the wrong time has no effect.
Ignore(p) ==
    /\ mail[p] # <<>>
    /\ mail' = [mail EXCEPT ![p] = Tail(@)]
    /\ UNCHANGED <<place, phase>>

Next ==
    \E p \in Player :
        \/ Enter(p) \/ PlayAlone(p) \/ Leave(p)
        \/ Start(p) \/ Win(p) \/ Lose(p) \/ Ignore(p)

Spec == Init /\ [][Next]_vars

=============================================================================
