--------------------------- MODULE LCOMazeClaims ---------------------------
(***************************************************************************)
(* What the README and the comments of LCOMaze say of a multiplayer game   *)
(* and the program does not keep.  Each run that checks one of these ends  *)
(* with the behaviour that breaks it.                                      *)
(***************************************************************************)
EXTENDS LCOMaze

\* "the one who finishes his labyrinth faster wins" (README.md:67): the two
\* players of a match are not both told that they won.
OneWinner == ~(Winner(Host) /\ Winner(Client))

\* "This mutual exchange of bytes ensures that both players have selected
\* Multiplayer mode, triggering the simultaneous start of the game on both
\* machines" (README.md:236): when both stay in the match, neither waits for
\* ever.
BothGetIn ==
    \A m \in Machine :
        <>[](InMatch(Host) /\ InMatch(Client)) => <>[](~Waits(m))

=============================================================================
