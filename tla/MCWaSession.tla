---------------------------- MODULE MCWaSession ----------------------------
(* A small instance of WaSession for TLC: two pages, two scans, one fault.  *)
EXTENDS WaSession
=============================================================================
