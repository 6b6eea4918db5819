--------------------------- MODULE MCInputDevices ---------------------------
(***************************************************************************)
(* The button up and down; motions that look like a first byte (8, 9) and  *)
(* one that does not (1); one upwards in the sign of bit 5 (40, 247).      *)
(***************************************************************************)
EXTENDS InputDevices

MCPackets == {<<8, 0, 0>>, <<9, 0, 1>>, <<9, 8, 9>>, <<40, 1, 247>>}
MCKeys == {Esc, 17}
MCButtons == [row \in 0 .. Height |->
    CASE row = 1 -> "Game" [] row = 2 -> "HowTo" [] row = 3 -> "Off" [] OTHER -> "none"]

=============================================================================
