---------------------------- MODULE MCWaMessages ----------------------------
(* Small instances of WaMessages for TLC.                                   *)
EXTENDS WaMessages, TLC

CONSTANTS s1, t1
OneSender == [m \in Messages |-> s1]
OneTenant == [m \in Messages |-> t1]
=============================================================================
