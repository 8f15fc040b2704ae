---------------------------- MODULE RetryOutbox ----------------------------
(***************************************************************************)
(* What the retry queue of the agent promises, without the file, the       *)
(* indices in it or the copies that processes make of it: a bag of owed    *)
(* items.  A payload that could not be sent is owed once more, and an item *)
(* is given up in two ways only: the cloud has its payload, or its last    *)
(* attempt failed.  Between them its attempts are counted one by one.      *)
(***************************************************************************)
EXTENDS Naturals

CONSTANTS Payloads, MaxRetries

VARIABLES
  delivered,  \* the payloads the cloud has
  owed        \* how many times each item is owed

outbox == <<delivered, owed>>

Items == [payload: Payloads, attempts: 0 .. MaxRetries - 1]

Init ==
  /\ delivered = {}
  /\ owed = [x \in Items |-> 0]

\* The cloud gets a payload, from the outbox or not.
Deliver(p) ==
  /\ delivered' = delivered \cup {p}
  /\ UNCHANGED owed

\* A payload is owed, not yet tried again.
Owe(p) ==
  /\ owed' = [owed EXCEPT ![[payload |-> p, attempts |-> 0]] = @ + 1]
  /\ UNCHANGED delivered

\* An item whose payload the cloud has is settled.
Settle(x) ==
  /\ owed[x] > 0 /\ x.payload \in delivered
  /\ owed' = [owed EXCEPT ![x] = @ - 1]
  /\ UNCHANGED delivered

\* An attempt failed that was not the last one ...
Fail(x) ==
  /\ owed[x] > 0 /\ x.attempts + 1 < MaxRetries
  /\ owed' = [owed EXCEPT ![x] = @ - 1, ![[x EXCEPT !.attempts = @ + 1]] = @ + 1]
  /\ UNCHANGED delivered

\* ... and one that was.
GiveUp(x) ==
  /\ owed[x] > 0 /\ x.attempts + 1 = MaxRetries
  /\ owed' = [owed EXCEPT ![x] = @ - 1]
  /\ UNCHANGED delivered

Next ==
  \/ \E p \in Payloads : Deliver(p) \/ Owe(p)
  \/ \E x \in Items : Settle(x) \/ Fail(x) \/ GiveUp(x)

Spec == Init /\ [][Next]_outbox
=============================================================================
