----------------------------- MODULE AgentPush -----------------------------
(***************************************************************************)
(* The campus side of the push path: the exporter that sends one day's     *)
(* aggregates to the cloud in two payload versions, the retry queue it     *)
(* keeps in pending_exports.json, the backfill engine that exports a range *)
(* day by day under a lock kept in backfill_state.json, and the cloud's    *)
(* two ingestion routes.                                                   *)
(*                                                                         *)
(* A process is a cron run or a web request that carries an agent command. *)
(* The files are shared and nothing is locked: a process reads a file in   *)
(* one step and renames its new contents over it in another.               *)
(***************************************************************************)
EXTENDS Integers, Sequences, FiniteSets

CONSTANTS
  Procs,        \* PHP processes
  MaxDay,       \* last day of the calendar
  V2Enabled,    \* config v2_enabled
  BatchDays,    \* BATCH_SIZE (30 in the code)
  MaxRetries,   \* MAX_RETRIES (5 in the code)
  Kinds,        \* the runs of an instance: subset of AllKinds
  ReadsFail,    \* whether reading a state file may fail
  WritesFail,   \* whether writing a state file may fail
  MaxRuns,      \* bound on runs in a behaviour
  MaxCrashes    \* bound on killed processes

Days     == 1..MaxDay
AllKinds == {"cron", "command", "backfill"}

ASSUME AgentPushAssumption ==
  /\ MaxDay \in Nat /\ BatchDays \in Nat \ {0} /\ MaxRetries \in Nat \ {0}
  /\ MaxRuns \in Nat /\ MaxCrashes \in Nat
  /\ {V2Enabled, ReadsFail, WritesFail} \subseteq BOOLEAN
  /\ Kinds \subseteq AllKinds

VARIABLES
  stored,    \* the payloads the cloud has a row for (daily_stats, daily_stats_v2)
  queue,     \* pending_exports.json
  state,     \* backfill_state.json
  proc,      \* the processes
  runs, crashes

vars == <<stored, queue, state, proc, runs, crashes>>

Versions == {"v1", "v2"}
Payload  == [version: Versions, date: Days]
Item     == [payload: Payload, attempts: Nat]
Due      == [index: Nat, payload: Payload]

BackfillState == [inProgress: BOOLEAN, from: Nat, to: Nat, completed: Nat]
NoBackfill    == [inProgress |-> FALSE, from |-> 0, to |-> 0, completed |-> 0]

ProcState ==
  [pc: {"idle", "send", "enqueueRead", "enqueueWrite", "due", "retry",
        "markRead", "markWrite", "lock", "init", "batch", "halt"},
   kind: AllKinds \cup {"none"},
   version: Versions, date: Nat,      \* the payload being exported
   from: Nat, to: Nat, completed: Nat, \* backfill: the range, its days done
   buf: Seq(Item),                    \* the queue as this process read it
   due: SUBSET Due,                   \* retry items not tried yet
   index: Nat, sent: BOOLEAN]         \* the item tried, and the result

Idle == [pc |-> "idle", kind |-> "none", version |-> "v1", date |-> 0, from |-> 0,
         to |-> 0, completed |-> 0, buf |-> <<>>, due |-> {}, index |-> 0,
         sent |-> FALSE]

Init ==
  /\ stored = {}
  /\ queue = <<>>
  /\ state = NoBackfill
  /\ proc = [p \in Procs |-> Idle]
  /\ runs = 0
  /\ crashes = 0

-----------------------------------------------------------------------------
(* Files and the cloud. *)

\* A file read gives its contents, or the empty value on any error.
Readable(file, empty) == IF ReadsFail THEN {file, empty} ELSE {file}

\* A file write replaces the contents, or fails and nobody looks at the result.
Written(file, new) == IF WritesFail THEN {file, new} ELSE {new}

\* POST of a payload: stored and acknowledged (200, or 409 when the day is there
\* already), stored but the answer lost, or neither.
Post(x, answer) ==
  stored' = IF answer = "error" THEN stored ELSE stored \cup {x}

Answers == {"ok", "timeout", "error"}

Step(p, r) == proc' = [proc EXCEPT ![p] = r]

-----------------------------------------------------------------------------
(* export($date) *)

BeginExport(r, d) ==
  [r EXCEPT !.pc = "send", !.date = d, !.version = IF V2Enabled THEN "v2" ELSE "v1"]

BatchEnd(r) ==
  IF r.from + r.completed + BatchDays - 1 > r.to
  THEN r.to ELSE r.from + r.completed + BatchDays - 1

\* Mutant: a backfill that goes on after a failed day.
AfterExportIgnored(r, result) ==
  CASE r.kind = "cron"     -> [Idle EXCEPT !.kind = "cron", !.pc = "due"]
    [] r.kind = "command"  -> Idle
    [] r.kind = "backfill" ->
         IF r.date < BatchEnd(r) THEN BeginExport(r, r.date + 1)
         ELSE [r EXCEPT !.pc = "batch", !.completed = r.date - r.from + 1]

\* What the caller of export does with its result.
AfterExport(r, result) ==
  CASE r.kind = "cron"     -> [Idle EXCEPT !.kind = "cron", !.pc = "due"]
    [] r.kind = "command"  -> Idle
    [] r.kind = "backfill" ->
         IF ~result THEN [r EXCEPT !.pc = "halt"]
         ELSE IF r.date < BatchEnd(r) THEN BeginExport(r, r.date + 1)
         ELSE [r EXCEPT !.pc = "batch", !.completed = r.date - r.from + 1]

\* sendPayload for the version at hand; v1 follows v2, and export returns true
\* when v1 is through.
Send(p) ==
  /\ proc[p].pc = "send"
  /\ \E answer \in Answers :
       /\ Post([version |-> proc[p].version, date |-> proc[p].date], answer)
       /\ \/ /\ answer = "ok" /\ proc[p].version = "v2"
             /\ Step(p, [proc[p] EXCEPT !.version = "v1"])
          \/ /\ answer = "ok" /\ proc[p].version = "v1"
             /\ Step(p, AfterExport(proc[p], TRUE))
          \/ /\ answer # "ok"
             /\ Step(p, [proc[p] EXCEPT !.pc = "enqueueRead"])
  /\ UNCHANGED <<queue, state, runs, crashes>>

\* enqueue: the queue is read ...
EnqueueRead(p) ==
  /\ proc[p].pc = "enqueueRead"
  /\ \E q \in Readable(queue, <<>>) :
       Step(p, [proc[p] EXCEPT !.pc = "enqueueWrite", !.buf = q])
  /\ UNCHANGED <<stored, queue, state, runs, crashes>>

\* Mutant: the attempts counted from minus one.
EnqueueWriteNegative(p) ==
  /\ proc[p].pc = "enqueueWrite"
  /\ queue' \in Written(queue, Append(proc[p].buf,
       [payload  |-> [version |-> proc[p].version, date |-> proc[p].date],
        attempts |-> -1]))
  /\ Step(p, AfterExport([proc[p] EXCEPT !.buf = <<>>], FALSE))
  /\ UNCHANGED <<stored, state, runs, crashes>>

\* ... and written back with the payload at its end; export returns false.
EnqueueWrite(p) ==
  /\ proc[p].pc = "enqueueWrite"
  /\ queue' \in Written(queue, Append(proc[p].buf,
       [payload  |-> [version |-> proc[p].version, date |-> proc[p].date],
        attempts |-> 0]))
  /\ Step(p, AfterExport([proc[p] EXCEPT !.buf = <<>>], FALSE))
  /\ UNCHANGED <<stored, state, runs, crashes>>

-----------------------------------------------------------------------------
(* processRetryQueue() *)

\* getDueItems: any of the items may be due; index and payload are remembered.
GetDueItems(p) ==
  /\ proc[p].pc = "due"
  /\ \E D \in SUBSET (1..Len(queue)) :
       Step(p, IF D = {} THEN Idle
               ELSE [proc[p] EXCEPT !.pc = "retry", !.due =
                       {[index |-> i, payload |-> queue[i].payload] : i \in D}])
  /\ UNCHANGED <<stored, queue, state, runs, crashes>>

\* Mutant: the due items taken in queue order.
IsNextAscending(x, D) == \A y \in D : x.index <= y.index

\* The due items are taken from the highest index down.
IsNext(x, D) == \A y \in D : y.index <= x.index

Retry(p) ==
  /\ proc[p].pc = "retry"
  /\ \E x \in proc[p].due, answer \in Answers :
       /\ IsNext(x, proc[p].due)
       /\ Post(x.payload, answer)
       /\ Step(p, [proc[p] EXCEPT !.pc = "markRead", !.due = @ \ {x},
                                  !.index = x.index, !.sent = answer = "ok"])
  /\ UNCHANGED <<queue, state, runs, crashes>>

AfterMark(r) ==
  IF r.due = {} THEN Idle
  ELSE [Idle EXCEPT !.pc = "retry", !.kind = r.kind, !.due = r.due]

\* markSuccess and markFailed: the queue is read; an index that is not in it any
\* more is passed over ...
MarkRead(p) ==
  /\ proc[p].pc = "markRead"
  /\ \E q \in Readable(queue, <<>>) :
       Step(p, IF proc[p].index \in 1..Len(q)
               THEN [proc[p] EXCEPT !.pc = "markWrite", !.buf = q]
               ELSE AfterMark(proc[p]))
  /\ UNCHANGED <<stored, queue, state, runs, crashes>>

Without(q, i) == SubSeq(q, 1, i - 1) \o SubSeq(q, i + 1, Len(q))

\* The queue after the item at i was sent, or failed once more.
Marked(q, i, sent) ==
  IF sent \/ q[i].attempts + 1 >= MaxRetries THEN Without(q, i)
  ELSE [q EXCEPT ![i].attempts = @ + 1]

\* ... and written back without the item at that index, or with one more attempt.
MarkWrite(p) ==
  /\ proc[p].pc = "markWrite"
  /\ queue' \in Written(queue, Marked(proc[p].buf, proc[p].index, proc[p].sent))
  /\ Step(p, AfterMark(proc[p]))
  /\ UNCHANGED <<stored, state, runs, crashes>>

-----------------------------------------------------------------------------
(* BackfillEngine::start() *)

WriteState(r, inProgress) ==
  state' \in Written(state, [inProgress |-> inProgress, from |-> r.from,
                             to |-> r.to, completed |-> r.completed])

\* The lock check.
BackfillLock(p) ==
  /\ proc[p].pc = "lock"
  /\ \E s \in Readable(state, NoBackfill) :
       Step(p, IF s.inProgress THEN Idle ELSE [proc[p] EXCEPT !.pc = "init"])
  /\ UNCHANGED <<stored, queue, state, runs, crashes>>

\* The initial state is written: the lock is taken.
BackfillInit(p) ==
  /\ proc[p].pc = "init"
  /\ WriteState(proc[p], TRUE)
  /\ Step(p, [proc[p] EXCEPT !.pc = "batch"])
  /\ UNCHANGED <<stored, queue, runs, crashes>>

\* Head of the batch loop: the position is written and the batch's first day
\* exported; after the last batch the lock is released.  An inverted range has
\* no batch.
BackfillBatch(p) ==
  LET r == proc[p] IN
  /\ r.pc = "batch"
  /\ \/ /\ r.from + r.completed <= r.to
        /\ WriteState(r, TRUE)
        /\ Step(p, BeginExport(r, r.from + r.completed))
     \/ /\ r.from + r.completed > r.to
        /\ WriteState(r, FALSE)
        /\ Step(p, Idle)
  /\ UNCHANGED <<stored, queue, runs, crashes>>

\* Mutant: the lock released after a failure.
BackfillHaltReleases(p) ==
  /\ proc[p].pc = "halt"
  /\ WriteState(proc[p], FALSE)
  /\ Step(p, Idle)
  /\ UNCHANGED <<stored, queue, runs, crashes>>

\* An export failed: the resume position is saved, in_progress stays true.
BackfillHalt(p) ==
  /\ proc[p].pc = "halt"
  /\ WriteState(proc[p], TRUE)
  /\ Step(p, Idle)
  /\ UNCHANGED <<stored, queue, runs, crashes>>

-----------------------------------------------------------------------------
(* Runs *)

\* cron.php: today's export, then the retry queue.
Cron(p, d) == Step(p, BeginExport([Idle EXCEPT !.kind = "cron"], d))

\* Agent commands trigger_export and backfill.
TriggerExport(p, d) == Step(p, BeginExport([Idle EXCEPT !.kind = "command"], d))

Backfill(p, s, e) ==
  Step(p, [Idle EXCEPT !.pc = "lock", !.kind = "backfill", !.from = s, !.to = e])

StartRun(p) ==
  /\ proc[p].pc = "idle"
  /\ runs < MaxRuns
  /\ runs' = runs + 1
  /\ \E d \in Days : \/ "cron" \in Kinds /\ Cron(p, d)
                     \/ "command" \in Kinds /\ TriggerExport(p, d)
                     \/ "backfill" \in Kinds /\ \E e \in Days : Backfill(p, d, e)
  /\ UNCHANGED <<stored, queue, state, crashes>>

\* The process is killed, or PHP's time limit ends it.
Killed(p) ==
  /\ proc[p].pc # "idle"
  /\ crashes < MaxCrashes
  /\ crashes' = crashes + 1
  /\ Step(p, Idle)
  /\ UNCHANGED <<stored, queue, state, runs>>

ExportStep(p) ==
  \/ Send(p) \/ EnqueueRead(p) \/ EnqueueWrite(p)
  \/ GetDueItems(p) \/ Retry(p) \/ MarkRead(p) \/ MarkWrite(p)
  \/ BackfillLock(p) \/ BackfillInit(p) \/ BackfillBatch(p) \/ BackfillHalt(p)

Next == \E p \in Procs : StartRun(p) \/ ExportStep(p) \/ Killed(p)

Spec == Init /\ [][Next]_vars

\* A started process runs on.
FairSpec == Spec /\ \A p \in Procs : WF_vars(ExportStep(p))

-----------------------------------------------------------------------------
(* Properties *)

TypeOK ==
  /\ stored \subseteq Payload
  /\ queue \in Seq(Item)
  /\ state \in BackfillState
  /\ proc \in [Procs -> ProcState]
  /\ runs \in Nat /\ crashes \in Nat

\* The versions of a day's aggregates the configuration asks for.
Required == IF V2Enabled THEN Versions ELSE {"v1"}
DayStored(d) == \A v \in Required : [version |-> v, date |-> d] \in stored

\* The progress the state file shows has been sent: the first completed_days of
\* its range are in the cloud in every version, whichever backfill wrote it and
\* whatever other processes, crashes and failed writes did.
ResumePositionIsBacked ==
  \A d \in Days : state.from <= d /\ d < state.from + state.completed => DayStored(d)

\* A released lock means the whole range of the backfill that released it is in
\* the cloud.
ReleasedIsComplete ==
  ~state.inProgress => \A d \in state.from .. state.to \cap Days : DayStored(d)

QueuedPayloads == {queue[i].payload : i \in 1..Len(queue)}

\* A payload leaves the retry queue only when the cloud has it or its last
\* attempt failed.
LeavesDeliveredOrExhausted ==
  [][\A x \in QueuedPayloads \ QueuedPayloads' :
       \/ x \in stored
       \/ \E i \in 1..Len(queue) :
            queue[i].payload = x /\ queue[i].attempts + 1 >= MaxRetries]_vars

-----------------------------------------------------------------------------
(* AgentPush implements RetryOutbox: where an item is in the file is left out, how *)
(* often it is there is not. *)

Kept == [payload: Payload, attempts: 0 .. MaxRetries - 1]

Copies(q, x) == Cardinality({i \in 1..Len(q) : q[i] = x})

Outbox == INSTANCE RetryOutbox WITH
            Payloads <- Payload, delivered <- stored,
            owed <- [x \in Kept |-> Copies(queue, x)]

\* With one process at a time the file is an outbox: enqueue, markSuccess and
\* markFailed find by its index the very item that was tried, so that none is
\* counted, dropped or kept in place of another, whatever writes fail and wherever
\* the process is killed.
OutboxSpec == Outbox!Spec

=============================================================================
