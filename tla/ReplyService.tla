---------------------------- MODULE ReplyService ----------------------------
(***************************************************************************)
(* What the message pipeline promises for each message id, without the     *)
(* handlers, the queue's bookkeeping, the conversations and the delays: a  *)
(* message is worked on in runs, at most Runs of them while the id is      *)
(* known.  A run answers at most once, logs only what it has answered,     *)
(* apologises at most once and only when it failed, and settles only by    *)
(* its log or because there was nobody to answer for.  A run may be lost   *)
(* at any point, with all others.                                          *)
(***************************************************************************)
EXTENDS Naturals

CONSTANTS Messages, Runs

VARIABLES
  phase,  \* where a message is
  used,   \* its runs that ended without settling it
  said    \* what was said of it since its id is known

service == <<phase, used, said>>

InRun == {"open", "answered", "settled", "sorry", "ended"}

Nothing == [answers |-> 0, apologies |-> 0, logged |-> 0, skipped |-> FALSE]

Init ==
  /\ phase = [m \in Messages |-> "unknown"]
  /\ used = [m \in Messages |-> 0]
  /\ said = [m \in Messages |-> Nothing]

\* m goes from one of the phases P to one of the phases Q.
Moves(m, P, Q) == phase[m] \in P /\ \E q \in Q : phase' = [phase EXCEPT ![m] = q]

Queue(m) == Moves(m, {"unknown"}, {"queued"}) /\ UNCHANGED <<used, said>>
Begin(m) == Moves(m, {"queued"}, {"open"}) /\ UNCHANGED <<used, said>>

\* An answer may be accepted and the run fail all the same ...
Answer(m) ==
  /\ Moves(m, {"open"}, {"answered", "sorry"})
  /\ said' = [said EXCEPT ![m].answers = @ + 1]
  /\ UNCHANGED used

\* ... and so may its log.
Log(m) ==
  /\ Moves(m, {"answered"}, {"settled", "sorry"})
  /\ said' = [said EXCEPT ![m].logged = @ + 1]
  /\ UNCHANGED used

\* There is nobody to answer for.
Skip(m) ==
  /\ Moves(m, {"open"}, {"settled"})
  /\ said' = [said EXCEPT ![m].skipped = TRUE]
  /\ UNCHANGED used

\* The run fails, before it knows whom to apologise to or after.
Fail(m) ==
  /\ Moves(m, {"open"}, {"sorry", "ended"}) \/ Moves(m, {"answered"}, {"sorry"})
  /\ UNCHANGED <<used, said>>

Apologise(m) ==
  /\ Moves(m, {"sorry"}, {"ended"})
  /\ said' = [said EXCEPT ![m].apologies = @ + 1] \/ UNCHANGED said
  /\ UNCHANGED used

Complete(m) == Moves(m, {"settled"}, {"done"}) /\ UNCHANGED <<used, said>>

\* A run that failed or was lost is repeated while one is left, or given up.
Repeat(m) ==
  /\ \/ Moves(m, {"ended", "lost"}, {"queued"}) /\ used[m] + 1 < Runs
     \/ Moves(m, {"ended", "lost"}, {"failed"}) /\ used[m] + 1 <= Runs
  /\ used' = [used EXCEPT ![m] = @ + 1]
  /\ UNCHANGED said

Forget(m) ==
  /\ Moves(m, {"done", "failed"}, {"unknown"})
  /\ used' = [used EXCEPT ![m] = 0]
  /\ said' = [said EXCEPT ![m] = Nothing]

\* All runs are lost.
Crash ==
  /\ phase' = [m \in Messages |-> IF phase[m] \in InRun THEN "lost" ELSE phase[m]]
  /\ UNCHANGED <<used, said>>

Next ==
  \/ \E m \in Messages :
       \/ Queue(m) \/ Begin(m) \/ Answer(m) \/ Log(m) \/ Skip(m) \/ Fail(m)
       \/ Apologise(m) \/ Complete(m) \/ Repeat(m) \/ Forget(m)
  \/ Crash

Spec == Init /\ [][Next]_service
=============================================================================
