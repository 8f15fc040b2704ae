------------------------------ MODULE MCPanels ------------------------------
(* A small instance of Panels for TLC.                                      *)
EXTENDS Panels

\* One selection of each of two tenants, and a wider one of the first.
MCTenantOf == [s \in {"s1", "s2", "s3"} |-> IF s = "s2" THEN "t2" ELSE "t1"]
MCRowsOf   == [s \in {"s1", "s2", "s3"} |-> IF s = "s3" THEN {1, 2} ELSE {1}]
=============================================================================
