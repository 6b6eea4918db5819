---------------------------- MODULE MCSerialPort ----------------------------
(***************************************************************************)
(* A queue of two places and up to five characters on the cable: enough to *)
(* fill the queue in one handler, to wrap it, and to come back to rest.    *)
(***************************************************************************)
EXTENDS SerialPort

MCChar == 0 .. 6

=============================================================================
