--------------------------- MODULE BackfillLedger ---------------------------
(***************************************************************************)
(* What backfill promises, without requests, queue or worker: days of      *)
(* daily_stats_v2 are only added, only days the campus was active, and a   *)
(* job claims a prefix of its range as imported only when the active days  *)
(* of that prefix are stored.  A claim may be taken back (a rerun after a  *)
(* crash starts over, a failed chunk spoils it).                           *)
(***************************************************************************)
EXTENDS Naturals

CONSTANTS Tenants, JobIds, Days, ActiveDays

VARIABLES
  assigned,  \* per job: {} or the one [tenant, dateStart, dateEnd] it is for
  claimed,   \* per job: the days it claims to have imported
  stored     \* per tenant: the days stored

ledger == <<assigned, claimed, stored>>

Init ==
  /\ assigned = [j \in JobIds |-> {}]
  /\ claimed = [j \in JobIds |-> {}]
  /\ stored = [t \in Tenants |-> {}]

\* A job is created for a range, once.
Open(j, t, s, e) ==
  /\ assigned[j] = {}
  /\ assigned' = [assigned EXCEPT ![j] = {[tenant |-> t, dateStart |-> s, dateEnd |-> e]}]
  /\ UNCHANGED <<claimed, stored>>

\* Active days of a tenant are stored.
Store(t, D) ==
  /\ D \subseteq ActiveDays[t]
  /\ stored' = [stored EXCEPT ![t] = @ \cup D]
  /\ UNCHANGED <<assigned, claimed>>

\* A job claims its range up to a day of it.
Claim(j, d) ==
  /\ \E a \in assigned[j] :
       /\ d \in a.dateStart .. a.dateEnd
       /\ ActiveDays[a.tenant] \cap (a.dateStart .. d) \subseteq stored[a.tenant]
       /\ claimed' = [claimed EXCEPT ![j] = a.dateStart .. d]
  /\ UNCHANGED <<assigned, stored>>

\* A job takes its claim back.
Retract(j) ==
  /\ claimed' = [claimed EXCEPT ![j] = {}]
  /\ UNCHANGED <<assigned, stored>>

Next ==
  \/ \E j \in JobIds :
       \/ \E t \in Tenants, s \in Days, e \in Days : Open(j, t, s, e)
       \/ \E d \in Days : Claim(j, d)
       \/ Retract(j)
  \/ \E t \in Tenants, D \in SUBSET Days : Store(t, D)

Spec == Init /\ [][Next]_ledger
=============================================================================
