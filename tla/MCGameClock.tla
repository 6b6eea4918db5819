---------------------------- MODULE MCGameClock ----------------------------
(***************************************************************************)
(* The program is started in the last second of a minute, an hour and a    *)
(* day, which alone a read of the registers can run over; one second       *)
(* before a day's last; or in the middle of a minute.                      *)
(***************************************************************************)
EXTENDS GameClock

MCPowerOn == {36059, 35999, 86399, 86398, 43210}
MCNoon == {43210}

=============================================================================
