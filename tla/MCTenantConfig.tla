--------------------------- MODULE MCTenantConfig ---------------------------
(* Small instances of TenantConfig for TLC.                                 *)
EXTENDS TenantConfig, TLC

MCInitial == [name |-> "n1", slims_base_url |-> "u1", status |-> "pending"]
MCValues  == {"n1", "n2", "u1", "u2", "pending", "connected", "disconnected"}

\* The form sends all three fields; other clients send some.
MCPatches == {[name |-> "n2", slims_base_url |-> "u1", status |-> "pending"],
              [name |-> "n1", slims_base_url |-> "u2", status |-> "connected"],
              [slims_base_url |-> "u2"]}
Symmetry  == Permutations(Callers)
=============================================================================
