------------------------------ MODULE Backfill ------------------------------
(***************************************************************************)
(* Historical backfill of the cloud: the rows of backfill_jobs, the web    *)
(* requests that create and cancel them, the BullMQ queue that carries     *)
(* them and the single worker that pulls each job's date range from the    *)
(* campus agent chunk by chunk and upserts it into daily_stats_v2.         *)
(*                                                                         *)
(* One action is the code between two awaits: every await is a point where *)
(* the other requests, the worker and BullMQ may run, or a process die.    *)
(* Dates are day numbers, 0 stands for SQL NULL.                           *)
(***************************************************************************)
EXTENDS Integers, Sequences, FiniteSets

CONSTANTS
  Tenants,          \* tenant ids
  JobIds,           \* the uuids backfill_jobs rows may get; also their number
  Callers,          \* web requests in flight at the same time
  None,             \* "no job", "no tenant"
  MaxDay,           \* last day of the calendar
  ChunkDays,        \* CHUNK_DAYS (90 in the code)
  MaxBackfillDays,  \* MAX_BACKFILL_DAYS of the start route (1825)
  MaxRangeDays,     \* MAX_RANGE_DAYS of the pull-now route (366)
  ActiveDays,       \* per tenant, the days with activity in the campus database
  Requested,        \* the (date_start, date_end) pairs users ask for
  MaxStalled,       \* BullMQ's maxStalledCount (default 1)
  MaxCrashes,       \* bound on worker crashes in a behaviour
  MaxDbErrors       \* bound on database errors that escape the handler

Days == 1..MaxDay

ASSUME BackfillAssumption ==
  /\ MaxDay \in Nat /\ ChunkDays \in Nat \ {0}
  /\ MaxBackfillDays \in Nat /\ MaxRangeDays \in Nat
  /\ MaxStalled \in Nat /\ MaxCrashes \in Nat /\ MaxDbErrors \in Nat
  /\ ActiveDays \in [Tenants -> SUBSET Days]
  /\ Requested \subseteq Days \X Days
  /\ None \notin Tenants /\ None \notin JobIds

VARIABLES
  rows,          \* the backfill_jobs table
  queue,         \* BullMQ wait list, the next job first
  stalled,       \* jobs whose worker died and whose lock has not expired yet
  stalls,        \* BullMQ's stalled counter of each job
  caller,        \* the web requests in flight
  worker,        \* the handler of the job being processed
  stats,         \* per tenant, the days that have a row in daily_stats_v2
  pullStatus,    \* tenants.last_pull_status
  crashes, dbErrors,   \* faults so far
  everCancelled  \* history: the jobs a cancel request has written to

vars == <<rows, queue, stalled, stalls, caller, worker, stats, pullStatus,
          crashes, dbErrors, everCancelled>>

Active   == {"pending", "running"}
Terminal == {"completed", "failed", "cancelled"}
Status   == {"absent"} \cup Active \cup Terminal

Row == [status: Status, tenant: Tenants \cup {None},
        dateStart: Nat, dateEnd: Nat, totalDays: Nat,
        processedDays: Nat, failedDays: Nat, lastProcessedDate: Nat]

NoRow == [status |-> "absent", tenant |-> None, dateStart |-> 0, dateEnd |-> 0,
          totalDays |-> 0, processedDays |-> 0, failedDays |-> 0,
          lastProcessedDate |-> 0]

\* Mutant: the operands of the day count swapped.
NewRowNegative(t, s, e) ==
  [NoRow EXCEPT !.status = "pending", !.tenant = t, !.dateStart = s,
                !.dateEnd = e, !.totalDays = s - e + 1]

NewRow(t, s, e) ==
  [NoRow EXCEPT !.status = "pending", !.tenant = t, !.dateStart = s,
                !.dateEnd = e, !.totalDays = e - s + 1]

CallerState == [pc: {"idle", "checked", "inserted", "lookPending", "cancelling"},
                tenant: Tenants \cup {None}, dateStart: Nat, dateEnd: Nat,
                job: JobIds \cup {None}]

IdleCaller == [pc |-> "idle", tenant |-> None, dateStart |-> 0, dateEnd |-> 0,
               job |-> None]

WorkerState ==
  [pc: {"idle", "starting", "check", "pull", "store", "flush", "report",
        "finish", "ack"},
   job: JobIds \cup {None}, cursor: Nat, processedChunks: Nat,
   failedChunks: Nat, totalDaysImported: Nat, lastProcessedDate: Nat]

IdleWorker == [pc |-> "idle", job |-> None, cursor |-> 0, processedChunks |-> 0,
               failedChunks |-> 0, totalDaysImported |-> 0,
               lastProcessedDate |-> 0]

Init ==
  /\ rows = [j \in JobIds |-> NoRow]
  /\ queue = <<>>
  /\ stalled = {}
  /\ stalls = [j \in JobIds |-> 0]
  /\ caller = [c \in Callers |-> IdleCaller]
  /\ worker = IdleWorker
  /\ stats = [t \in Tenants |-> {}]
  /\ pullStatus = [t \in Tenants |-> "none"]
  /\ crashes = 0
  /\ dbErrors = 0
  /\ everCancelled = {}

-----------------------------------------------------------------------------
(* Web requests.  A request that validation or a lookup turns down changes *)
(* nothing.                                                                *)

HasStatus(t, S) == {j \in JobIds : rows[j].tenant = t /\ rows[j].status \in S}

webUnchanged == <<stalled, stalls, worker, stats, pullStatus, crashes, dbErrors>>

\* POST /backfill/start: validation and the read that looks for an active job.
StartCheck(c, t, s, e) ==
  /\ caller[c].pc = "idle"
  /\ s <= e
  /\ e - s + 1 <= MaxBackfillDays
  /\ HasStatus(t, Active) = {}
  /\ caller' = [caller EXCEPT ![c] = [IdleCaller EXCEPT
                  !.pc = "checked", !.tenant = t, !.dateStart = s, !.dateEnd = e]]
  /\ UNCHANGED <<rows, queue, everCancelled, webUnchanged>>

\* POST /backfill/start: the insert, after the read and not in its transaction.
StartInsert(c, j) ==
  /\ caller[c].pc = "checked"
  /\ rows[j].status = "absent"
  /\ rows' = [rows EXCEPT ![j] =
                NewRow(caller[c].tenant, caller[c].dateStart, caller[c].dateEnd)]
  /\ caller' = [caller EXCEPT ![c].pc = "inserted", ![c].job = j]
  /\ UNCHANGED <<queue, everCancelled, webUnchanged>>

\* POST /tenants/:id/pull-now with mode "backfill": no look at active jobs.
PullNowInsert(c, t, s, e, j) ==
  /\ caller[c].pc = "idle"
  /\ s <= e
  /\ e - s <= MaxRangeDays
  /\ rows[j].status = "absent"
  /\ rows' = [rows EXCEPT ![j] = NewRow(t, s, e)]
  /\ caller' = [caller EXCEPT ![c] = [IdleCaller EXCEPT !.pc = "inserted",
                                                        !.job = j]]
  /\ UNCHANGED <<queue, everCancelled, webUnchanged>>

\* Mutant: an add that is retried although the first call got through.
EnqueueTwice(c) ==
  /\ caller[c].pc = "inserted"
  /\ queue' = queue \o <<caller[c].job, caller[c].job>>
  /\ caller' = [caller EXCEPT ![c] = IdleCaller]
  /\ UNCHANGED <<rows, everCancelled, webUnchanged>>

\* backfillQueue.add, the last await of both routes.
Enqueue(c) ==
  /\ caller[c].pc = "inserted"
  /\ queue' = Append(queue, caller[c].job)
  /\ caller' = [caller EXCEPT ![c] = IdleCaller]
  /\ UNCHANGED <<rows, everCancelled, webUnchanged>>

\* POST /backfill/cancel with a jobId: the read that finds it cancellable.
CancelById(c, j) ==
  /\ caller[c].pc = "idle"
  /\ rows[j].status \in Active
  /\ caller' = [caller EXCEPT ![c] = [IdleCaller EXCEPT !.pc = "cancelling",
                                                        !.job = j]]
  /\ UNCHANGED <<rows, queue, everCancelled, webUnchanged>>

\* POST /backfill/cancel without one: a running job first ...
CancelLookRunning(c, t) ==
  /\ caller[c].pc = "idle"
  /\ \/ \E j \in HasStatus(t, {"running"}) :
          caller' = [caller EXCEPT ![c] = [IdleCaller EXCEPT !.pc = "cancelling",
                                                             !.job = j]]
     \/ /\ HasStatus(t, {"running"}) = {}
        /\ caller' = [caller EXCEPT ![c] = [IdleCaller EXCEPT
                                              !.pc = "lookPending", !.tenant = t]]
  /\ UNCHANGED <<rows, queue, everCancelled, webUnchanged>>

\* ... then, in a second read, a pending one; 404 when there is none.
CancelLookPending(c) ==
  /\ caller[c].pc = "lookPending"
  /\ \/ \E j \in HasStatus(caller[c].tenant, {"pending"}) :
          caller' = [caller EXCEPT ![c] = [IdleCaller EXCEPT !.pc = "cancelling",
                                                             !.job = j]]
     \/ /\ HasStatus(caller[c].tenant, {"pending"}) = {}
        /\ caller' = [caller EXCEPT ![c] = IdleCaller]
  /\ UNCHANGED <<rows, queue, everCancelled, webUnchanged>>

\* Mutant: cancelling deletes the row.
CancelDeletes(c) ==
  /\ caller[c].pc = "cancelling"
  /\ rows' = [rows EXCEPT ![caller[c].job] = NoRow]
  /\ everCancelled' = everCancelled \cup {caller[c].job}
  /\ caller' = [caller EXCEPT ![c] = IdleCaller]
  /\ UNCHANGED <<queue, webUnchanged>>

\* The write of the cancel route, whatever the status has become meanwhile.
CancelWrite(c) ==
  /\ caller[c].pc = "cancelling"
  /\ rows' = [rows EXCEPT ![caller[c].job].status = "cancelled"]
  /\ everCancelled' = everCancelled \cup {caller[c].job}
  /\ caller' = [caller EXCEPT ![c] = IdleCaller]
  /\ UNCHANGED <<queue, webUnchanged>>

\* A request dies at an await: database or Redis error, web process killed.
RequestAborted(c) ==
  /\ caller[c].pc # "idle"
  /\ caller' = [caller EXCEPT ![c] = IdleCaller]
  /\ UNCHANGED <<rows, queue, everCancelled, webUnchanged>>

-----------------------------------------------------------------------------
(* The worker: concurrency 1, so one handler at a time.  The missing-key   *)
(* and missing-tenant branches of the handler are not modelled: worker.ts  *)
(* exits at boot without the key, and the foreign key of backfill_jobs     *)
(* keeps a tenant that has a job.                                          *)

job      == rows[worker.job]
ChunkEnd == IF worker.cursor + ChunkDays - 1 > job.dateEnd
            THEN job.dateEnd
            ELSE worker.cursor + ChunkDays - 1
\* Mutant: the chunk's last day taken as exclusive.
PulledExclusive == ActiveDays[job.tenant] \cap (worker.cursor .. ChunkEnd - 1)

\* The days of the chunk at the cursor for which the agent reports activity.
Pulled   == ActiveDays[job.tenant] \cap (worker.cursor .. ChunkEnd)

workerUnchanged == <<caller, stalls, crashes, everCancelled>>

\* BullMQ hands over the oldest waiting job.
WorkerTake ==
  /\ worker.pc = "idle"
  /\ queue # <<>>
  /\ worker' = [IdleWorker EXCEPT !.pc = "starting", !.job = Head(queue)]
  /\ queue' = Tail(queue)
  /\ UNCHANGED <<rows, stalled, stats, pullStatus, dbErrors, workerUnchanged>>

\* The row becomes `running`, whatever it was; the locals start from scratch.
WorkerStart ==
  /\ worker.pc = "starting"
  /\ rows' = [rows EXCEPT ![worker.job].status = "running"]
  /\ worker' = [worker EXCEPT !.pc = "check", !.cursor = job.dateStart]
  /\ UNCHANGED <<queue, stalled, stats, pullStatus, dbErrors, workerUnchanged>>

\* Head of the chunk loop: the poll for a cancellation.
WorkerCheck ==
  /\ worker.pc = "check"
  /\ worker' = [worker EXCEPT !.pc = IF job.status = "cancelled"
                                     THEN "report" ELSE "pull"]
  /\ UNCHANGED <<rows, queue, stalled, stats, pullStatus, dbErrors,
                 workerUnchanged>>

\* Mutants of the chunk's catch: the failure not counted; the chunk passed off as
\* an empty one.
ChunkUncounted == [worker EXCEPT !.pc = "flush"]
ChunkSkipped   == [worker EXCEPT !.pc = "flush", !.lastProcessedDate = ChunkEnd]

ChunkFailed == [worker EXCEPT !.pc = "flush", !.failedChunks = @ + 1]
ChunkDone(n) == [worker EXCEPT !.pc = "flush", !.totalDaysImported = @ + n,
                               !.lastProcessedDate = ChunkEnd]

\* pullAgentDailyAggregate returns: an error (or a 2xx body without days), no
\* active day, or days to store.
WorkerPull ==
  /\ worker.pc = "pull"
  /\ \/ worker' = ChunkFailed
     \/ /\ Pulled = {}
        /\ worker' = ChunkDone(0)
     \/ /\ Pulled # {}
        /\ worker' = [worker EXCEPT !.pc = "store"]
  /\ UNCHANGED <<rows, queue, stalled, stats, pullStatus, dbErrors,
                 workerUnchanged>>

\* bulkUpsertDailyStatsV2 stores the days, or throws into the chunk's catch
\* (before or after the statement took effect).
WorkerStore ==
  /\ worker.pc = "store"
  /\ \/ /\ stats' = [stats EXCEPT ![job.tenant] = @ \cup Pulled]
        /\ worker' \in {ChunkDone(Cardinality(Pulled)), ChunkFailed}
     \/ /\ worker' = ChunkFailed
        /\ UNCHANGED stats
  /\ UNCHANGED <<rows, queue, stalled, pullStatus, dbErrors, workerUnchanged>>

\* Mutant: the counter added to the row's instead of written over it.
WithProgressAdded(r) ==
  [r EXCEPT !.processedDays = @ + worker.totalDaysImported,
            !.failedDays = worker.failedChunks,
            !.lastProcessedDate = worker.lastProcessedDate]

WithProgress(r) ==
  [r EXCEPT !.processedDays = worker.totalDaysImported,
            !.failedDays = worker.failedChunks,
            !.lastProcessedDate = worker.lastProcessedDate]

\* The progress flush that ends an iteration, and the step to the next chunk.
WorkerFlush ==
  /\ worker.pc = "flush"
  /\ rows' = [rows EXCEPT ![worker.job] = WithProgress(@)]
  /\ worker' = [worker EXCEPT !.pc = IF ChunkEnd + 1 > job.dateEnd
                                     THEN "report" ELSE "check",
                              !.cursor = ChunkEnd + 1,
                              !.processedChunks = @ + 1]
  /\ UNCHANGED <<queue, stalled, stats, pullStatus, dbErrors, workerUnchanged>>

FinalStatus ==
  IF worker.failedChunks = worker.processedChunks /\ worker.processedChunks > 0
  THEN "failed" ELSE "completed"

\* updateTenantPullStatus after the loop.
WorkerReport ==
  /\ worker.pc = "report"
  /\ pullStatus' = [pullStatus EXCEPT ![job.tenant] =
                      IF FinalStatus = "completed" THEN "ok" ELSE "partial"]
  /\ worker' = [worker EXCEPT !.pc = "finish"]
  /\ UNCHANGED <<rows, queue, stalled, stats, dbErrors, workerUnchanged>>

\* Mutant: the final update without the status.
FinishWithoutStatus ==
  /\ worker.pc = "finish"
  /\ rows' = [rows EXCEPT ![worker.job] = WithProgress(@)]
  /\ worker' = [worker EXCEPT !.pc = "ack"]
  /\ UNCHANGED <<queue, stalled, stats, pullStatus, dbErrors, workerUnchanged>>

\* The final row update, unconditional on the row's status.
WorkerFinish ==
  /\ worker.pc = "finish"
  /\ rows' = [rows EXCEPT ![worker.job] =
                [WithProgress(@) EXCEPT !.status = FinalStatus]]
  /\ worker' = [worker EXCEPT !.pc = "ack"]
  /\ UNCHANGED <<queue, stalled, stats, pullStatus, dbErrors, workerUnchanged>>

\* The handler returns and BullMQ moves the job to its completed set.
WorkerAck ==
  /\ worker.pc = "ack"
  /\ worker' = IdleWorker
  /\ UNCHANGED <<rows, queue, stalled, stats, pullStatus, dbErrors,
                 workerUnchanged>>

\* A database error outside the chunk's try block rejects the handler; with
\* attempts = 1 BullMQ fails the job and nothing touches its row again.
HandlerThrows ==
  /\ worker.pc \in {"starting", "check", "flush", "report", "finish"}
  /\ dbErrors < MaxDbErrors
  /\ dbErrors' = dbErrors + 1
  /\ worker' = IdleWorker
  /\ UNCHANGED <<rows, queue, stalled, stats, pullStatus, workerUnchanged>>

\* The worker process dies and is restarted; its job's lock is left to expire.
WorkerCrash ==
  /\ worker.pc # "idle"
  /\ crashes < MaxCrashes
  /\ crashes' = crashes + 1
  /\ stalled' = stalled \cup {worker.job}
  /\ worker' = IdleWorker
  /\ UNCHANGED <<rows, queue, stalls, caller, stats, pullStatus, dbErrors,
                 everCancelled>>

\* Mutant: the job redelivered but left in the stalled set.
StalledCheckKeeps(j) ==
  /\ j \in stalled
  /\ stalls[j] < MaxStalled
  /\ stalls' = [stalls EXCEPT ![j] = @ + 1]
  /\ queue' = <<j>> \o queue
  /\ UNCHANGED <<rows, stalled, caller, worker, stats, pullStatus, crashes,
                 dbErrors, everCancelled>>

\* BullMQ's stalled check: back to the head of the wait list, or failed for good.
StalledCheck(j) ==
  /\ j \in stalled
  /\ stalled' = stalled \ {j}
  /\ \/ /\ stalls[j] < MaxStalled
        /\ stalls' = [stalls EXCEPT ![j] = @ + 1]
        /\ queue' = <<j>> \o queue
     \/ /\ stalls[j] >= MaxStalled
        /\ UNCHANGED <<stalls, queue>>
  /\ UNCHANGED <<rows, caller, worker, stats, pullStatus, crashes, dbErrors,
                 everCancelled>>

-----------------------------------------------------------------------------
WebStep ==
  \E c \in Callers :
    \/ \E t \in Tenants, r \in Requested :
         \/ StartCheck(c, t, r[1], r[2])
         \/ \E j \in JobIds : PullNowInsert(c, t, r[1], r[2], j)
    \/ \E j \in JobIds : StartInsert(c, j) \/ CancelById(c, j)
    \/ Enqueue(c)
    \/ \E t \in Tenants : CancelLookRunning(c, t)
    \/ CancelLookPending(c)
    \/ CancelWrite(c)
    \/ RequestAborted(c)

WorkerStep ==
  \/ WorkerTake \/ WorkerStart \/ WorkerCheck \/ WorkerPull \/ WorkerStore
  \/ WorkerFlush \/ WorkerReport \/ WorkerFinish \/ WorkerAck

Fault == HandlerThrows \/ WorkerCrash

Next == WebStep \/ WorkerStep \/ Fault \/ \E j \in JobIds : StalledCheck(j)

Spec == Init /\ [][Next]_vars

\* The worker process keeps running its handler and BullMQ its stalled check;
\* nobody is obliged to send a request.
FairSpec ==
  /\ Spec
  /\ WF_vars(WorkerStep)
  /\ \A j \in JobIds : WF_vars(StalledCheck(j))

-----------------------------------------------------------------------------
(* Properties *)

\* The shape of the state.
TypeOK ==
  /\ rows \in [JobIds -> Row]
  /\ queue \in Seq(JobIds)
  /\ stalled \subseteq JobIds
  /\ stalls \in [JobIds -> Nat]
  /\ caller \in [Callers -> CallerState]
  /\ worker \in WorkerState
  /\ stats \in [Tenants -> SUBSET Days]
  /\ pullStatus \in [Tenants -> {"none", "ok", "partial"}]
  /\ crashes \in Nat /\ dbErrors \in Nat
  /\ everCancelled \subseteq JobIds

Queued(j)   == \E i \in DOMAIN queue : queue[i] = j
InFlight(j) == Queued(j) \/ worker.job = j \/ j \in stalled

ActiveIn(j, d) == ActiveDays[rows[j].tenant] \cap (rows[j].dateStart .. d)

\* A row that reports progress up to a date without a failed chunk has every
\* active day up to that date in daily_stats_v2 -- also after crashes, reruns,
\* cancellations and with other jobs on the same tenant (backfill-worker.ts
\* flushes progress only after the upsert).
ProgressIsBacked ==
  \A j \in JobIds :
    rows[j].status # "absent" /\ rows[j].failedDays = 0 =>
      ActiveIn(j, rows[j].lastProcessedDate) \subseteq stats[rows[j].tenant]

\* A job that ends `completed` with no failed chunk, and that nobody cancelled,
\* has imported every active day of the whole range that was asked for.
CompletedIsComplete ==
  \A j \in JobIds :
    rows[j].status = "completed" /\ rows[j].failedDays = 0
      /\ j \notin everCancelled =>
        ActiveIn(j, rows[j].dateEnd) \subseteq stats[rows[j].tenant]

\* processed_days never exceeds total_days (the status route turns the two into
\* a percentage), although a crashed job is processed from the start again.
ImportedWithinTotal ==
  \A j \in JobIds : rows[j].processedDays <= rows[j].totalDays

\* What BullMQ delivers always has its row: the worker's updates by job id never
\* miss (both routes insert the row before they enqueue).
DeliveredHasRow ==
  \A j \in JobIds : InFlight(j) => rows[j].status # "absent"

\* A job is at one place at most: waiting once, or with the worker, or stalled.
SingleDelivery ==
  /\ \A i, k \in DOMAIN queue : queue[i] = queue[k] => i = k
  /\ \A j \in JobIds :
       /\ Queued(j) => worker.job # j /\ j \notin stalled
       /\ worker.job = j => j \notin stalled

\* Once the worker has finished with a job nothing but a cancel request that
\* read the row while it was active, or a redelivery of the same job, takes its
\* outcome away.
OutcomeIsKept ==
  [][\A j \in JobIds :
       rows[j].status \in {"completed", "failed"} /\ rows'[j].status # rows[j].status =>
         \/ \E c \in Callers : caller[c].pc = "cancelling" /\ caller[c].job = j
         \/ stalls[j] > 0 /\ worker.job = j]_vars

\* Every job that reaches the queue ends up, and stays, in a terminal status
\* with nothing of it in flight -- as long as the worker dies no more often than
\* BullMQ redelivers and no database error escapes the handler.
QueuedJobsSettle ==
  \A j \in JobIds :
    Queued(j) ~> [](rows[j].status \in Terminal /\ ~InFlight(j))

\* The abstract specification, with the row a job's range is read from ...
Assigned ==
  [j \in JobIds |->
     IF rows[j].status = "absent" THEN {}
     ELSE {[tenant |-> rows[j].tenant, dateStart |-> rows[j].dateStart,
            dateEnd |-> rows[j].dateEnd]}]

\* ... and the days it claims: those up to lastProcessedDate, while it reports no
\* failed chunk.
Claimed ==
  [j \in JobIds |->
     IF /\ rows[j].status # "absent"
        /\ rows[j].failedDays = 0 /\ rows[j].lastProcessedDate # 0
     THEN rows[j].dateStart .. rows[j].lastProcessedDate
     ELSE {}]

Ledger == INSTANCE BackfillLedger WITH
            assigned <- Assigned, claimed <- Claimed, stored <- stats

\* Backfill keeps the ledger's promise in every behaviour, faults included: the
\* worker stores only active days, and a row claims progress only over stored ones.
LedgerSpec == Ledger!Spec

-----------------------------------------------------------------------------
(* A claim of the repository's comments that the code does not keep. *)

\* backfill-worker.ts: "Cancelled jobs bail out cleanly"; cancel/route.ts: the
\* worker "stops when it sees this".
CancelSticks ==
  [][\A j \in JobIds : rows[j].status = "cancelled" => rows'[j].status = "cancelled"]_vars

=============================================================================
