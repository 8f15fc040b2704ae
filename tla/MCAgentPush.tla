---------------------------- MODULE MCAgentPush ----------------------------
(* Small instances of AgentPush for TLC.                                    *)
EXTENDS AgentPush, TLC

Symmetry == Permutations(Procs)
=============================================================================
