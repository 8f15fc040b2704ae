----------------------------- MODULE MCBackfill -----------------------------
(* Small instances of Backfill for TLC.                                     *)
EXTENDS Backfill, TLC

\* With chunks of two days: a range of two chunks, the first all active and the
\* second not, and a one-day range that starts within it.
MCActiveDays == [t \in Tenants |-> {1, 2, 4}]
MCRequested  == {<<1, 4>>, <<3, 3>>}
MCOneRange   == {<<1, 4>>}
Symmetry     == Permutations(JobIds) \cup Permutations(Callers)
=============================================================================
