--------------------------- MODULE BackfillProofs ---------------------------
(***************************************************************************)
(* Theorems about Backfill for every set of tenants, jobs and requests,    *)
(* every calendar, chunk size and number of faults.                        *)
(***************************************************************************)
EXTENDS Backfill, FiniteSetTheorems, TLAPS

-----------------------------------------------------------------------------
(* The inductive invariant. *)

Present(j) == rows[j].status # "absent"

\* A row's range never changes and was checked before it was inserted.
RowShape ==
  \A j \in JobIds :
    IF Present(j)
    THEN /\ rows[j].tenant \in Tenants
         /\ rows[j].dateStart \in Days /\ rows[j].dateEnd \in Days
         /\ rows[j].dateStart <= rows[j].dateEnd
         /\ rows[j].totalDays = rows[j].dateEnd - rows[j].dateStart + 1
    ELSE rows[j].processedDays = 0

\* A request about to write has been through the route's checks.
CallerOK(s) ==
  /\ s.pc \in {"inserted", "cancelling"} => s.job \in JobIds /\ Present(s.job)
  /\ s.pc = "checked" => /\ s.tenant \in Tenants
                         /\ s.dateStart \in Days /\ s.dateEnd \in Days
                         /\ s.dateStart <= s.dateEnd

\* Whatever holds a job id holds that of a row.
Referenced ==
  /\ \A i \in 1..Len(queue) : Present(queue[i])
  /\ \A j \in stalled : Present(j)
  /\ worker.pc # "idle" => worker.job \in JobIds /\ Present(worker.job)
  /\ worker.pc = "idle" => worker.job = None
  /\ \A c \in Callers : CallerOK(caller[c])

CancelledIsRecorded ==
  \A j \in JobIds : rows[j].status = "cancelled" => j \in everCancelled

\* The first day of the range the handler has not dealt with.
Frontier == IF worker.pc = "flush" THEN ChunkEnd + 1 ELSE worker.cursor

Covered == {d \in ActiveDays[job.tenant] : job.dateStart <= d /\ d < Frontier}

\* The handler's locals describe what it has done so far.
LocalsAreTrue ==
  /\ worker.pc = "starting" =>
       worker.totalDaysImported = 0 /\ worker.lastProcessedDate = 0
  /\ worker.pc \notin {"idle", "starting"} =>
       /\ job.dateStart <= worker.cursor
       /\ worker.cursor <= job.dateEnd + 1
       /\ worker.pc \in {"check", "pull", "store", "flush"} =>
            worker.cursor <= job.dateEnd
       /\ worker.lastProcessedDate < Frontier
       /\ worker.failedChunks = 0 => Covered \subseteq stats[job.tenant]
       /\ worker.totalDaysImported <= Frontier - job.dateStart
       /\ worker.pc \in {"report", "finish"} =>
            worker.cursor = job.dateEnd + 1 \/ worker.job \in everCancelled
       /\ worker.pc # "ack" => job.status \in {"running", "cancelled"}

IInv ==
  /\ TypeOK /\ RowShape /\ Referenced /\ CancelledIsRecorded /\ LocalsAreTrue
  /\ ProgressIsBacked /\ CompletedIsComplete /\ ImportedWithinTotal

-----------------------------------------------------------------------------
(* Facts the steps share. *)

\* What IInv says of the job in the handler's hands.
LEMMA JobFacts ==
  ASSUME IInv, worker.pc # "idle"
  PROVE  /\ worker.job \in JobIds /\ job \in Row
         /\ job.status # "absent" /\ job.tenant \in Tenants
         /\ job.dateStart \in Days /\ job.dateEnd \in Days
         /\ job.dateStart <= job.dateEnd
         /\ worker \in WorkerState
BY DEF IInv, TypeOK, RowShape, Referenced, Present, job

\* A write of the status column alone.
LEMMA StatusWrite ==
  ASSUME rows \in [JobIds -> Row], NEW j \in JobIds, NEW st \in Status
  PROVE  LET written == [rows EXCEPT ![j].status = st] IN
         /\ written \in [JobIds -> Row]
         /\ \A i \in JobIds :
              /\ written[i].status = IF i = j THEN st ELSE rows[i].status
              /\ written[i].tenant = rows[i].tenant
              /\ written[i].dateStart = rows[i].dateStart
              /\ written[i].dateEnd = rows[i].dateEnd
              /\ written[i].totalDays = rows[i].totalDays
              /\ written[i].processedDays = rows[i].processedDays
              /\ written[i].failedDays = rows[i].failedDays
              /\ written[i].lastProcessedDate = rows[i].lastProcessedDate
<1> DEFINE r == [rows[j] EXCEPT !.status = st]
           written == [rows EXCEPT ![j].status = st]
<1>1. /\ r \in Row /\ r.status = st /\ r.tenant = rows[j].tenant
      /\ r.dateStart = rows[j].dateStart /\ r.dateEnd = rows[j].dateEnd
      /\ r.totalDays = rows[j].totalDays /\ r.processedDays = rows[j].processedDays
      /\ r.failedDays = rows[j].failedDays
      /\ r.lastProcessedDate = rows[j].lastProcessedDate
  BY DEF Row
<1>2. written = [rows EXCEPT ![j] = r]
  OBVIOUS
<1> HIDE DEF r, written
<1>3. /\ written \in [JobIds -> Row] /\ written[j] = r
      /\ \A i \in JobIds \ {j} : written[i] = rows[i]
  BY <1>1, <1>2
<1> QED
  BY <1>1, <1>3 DEF written

\* A chunk starts at the cursor, ends inside the range and is not empty
\* (buildChunks).
LEMMA ChunkBounds ==
  ASSUME IInv, worker.pc \in {"check", "pull", "store", "flush"}
  PROVE  /\ ChunkEnd \in Int /\ worker.cursor \in Int
         /\ worker.cursor <= ChunkEnd /\ ChunkEnd <= job.dateEnd
<1>1. worker.cursor \in Nat /\ job.dateEnd \in Nat /\ worker.cursor <= job.dateEnd
  BY JobFacts DEF IInv, LocalsAreTrue, WorkerState, Row
<1>2. ChunkDays \in Nat /\ ChunkDays >= 1
  BY BackfillAssumption
<1> QED
  BY <1>1, <1>2 DEF ChunkEnd

\* An upsert stores at most as many days as its chunk has.
LEMMA PulledFitsChunk ==
  ASSUME IInv, worker.pc \in {"pull", "store"}
  PROVE  /\ IsFiniteSet(Pulled) /\ Cardinality(Pulled) \in Nat
         /\ Cardinality(Pulled) <= ChunkEnd - worker.cursor + 1
<1>1. /\ ChunkEnd \in Int /\ worker.cursor \in Int
      /\ worker.cursor <= ChunkEnd
  BY ChunkBounds
<1>2. /\ IsFiniteSet(worker.cursor .. ChunkEnd)
      /\ Cardinality(worker.cursor .. ChunkEnd) = ChunkEnd - worker.cursor + 1
  BY <1>1, FS_Interval
<1>3. Pulled \subseteq worker.cursor .. ChunkEnd
  BY DEF Pulled
<1>4. /\ IsFiniteSet(Pulled)
      /\ Cardinality(Pulled) <= Cardinality(worker.cursor .. ChunkEnd)
  BY <1>2, <1>3, FS_Subset
<1>5. Cardinality(Pulled) \in Nat
  BY <1>4, FS_CardinalityType
<1> QED
  BY <1>2, <1>4, <1>5

-----------------------------------------------------------------------------
(* The invariant holds initially. *)

LEMMA InitIInv == Init => IInv
<1> SUFFICES ASSUME Init PROVE IInv
  OBVIOUS
<1>1. TypeOK
  BY DEF Init, TypeOK, Row, NoRow, Status, Active, Terminal, CallerState,
         IdleCaller, WorkerState, IdleWorker
<1>2. RowShape /\ CancelledIsRecorded /\ ProgressIsBacked
      /\ CompletedIsComplete /\ ImportedWithinTotal
  BY DEF Init, NoRow, RowShape, Present, CancelledIsRecorded, ProgressIsBacked,
         CompletedIsComplete, ImportedWithinTotal
<1>3. Referenced /\ LocalsAreTrue
  BY DEF Init, Referenced, LocalsAreTrue, IdleWorker, IdleCaller, CallerOK
<1> QED
  BY <1>1, <1>2, <1>3 DEF IInv

-----------------------------------------------------------------------------
(* Every step keeps it: first the web requests. *)

\* A request that only changes its own state: the reads of the start and cancel
\* routes, and a request that dies.
LEMMA ReadStepIInv ==
  ASSUME IInv, NEW c \in Callers,
         \/ \E t \in Tenants, r \in Requested : StartCheck(c, t, r[1], r[2])
         \/ \E j \in JobIds : CancelById(c, j)
         \/ \E t \in Tenants : CancelLookRunning(c, t)
         \/ CancelLookPending(c) \/ RequestAborted(c)
  PROVE  IInv'
<1>1. /\ UNCHANGED <<rows, queue, everCancelled>>
      /\ UNCHANGED webUnchanged
  BY DEF StartCheck, CancelById, CancelLookRunning, CancelLookPending,
         RequestAborted
<1>2. /\ \A r \in Requested : r[1] \in Days /\ r[2] \in Days
      /\ Days \subseteq Nat
  BY BackfillAssumption DEF Days
<1> DEFINE To(s) == s \in CallerState /\ CallerOK(s)
                      /\ caller' = [caller EXCEPT ![c] = s]
<1>3. \E s : To(s)
  <2>1. ASSUME NEW t \in Tenants, NEW r \in Requested,
               StartCheck(c, t, r[1], r[2])
        PROVE  \E s : To(s)
    <3> DEFINE s == [IdleCaller EXCEPT !.pc = "checked", !.tenant = t,
                                       !.dateStart = r[1], !.dateEnd = r[2]]
    <3>1. s \in CallerState
      BY <1>2 DEF IdleCaller, CallerState
    <3>2. r[1] <= r[2] /\ caller' = [caller EXCEPT ![c] = s]
      BY <2>1 DEF StartCheck
    <3>3. CallerOK(s)
      BY <1>2, <3>2 DEF IdleCaller, CallerOK
    <3> QED
      BY <3>1, <3>2, <3>3
  <2>2. ASSUME NEW i \in JobIds, rows[i].status \in Active,
               caller' = [caller EXCEPT ![c] =
                            [IdleCaller EXCEPT !.pc = "cancelling", !.job = i]]
        PROVE  \E s : To(s)
    <3> DEFINE s == [IdleCaller EXCEPT !.pc = "cancelling", !.job = i]
    <3>1. s \in CallerState /\ s.pc = "cancelling" /\ s.job = i
      BY DEF IdleCaller, CallerState
    <3>2. CallerOK(s)
      BY <2>2, <3>1 DEF Active, Present, CallerOK
    <3>3. caller' = [caller EXCEPT ![c] = s]
      BY <2>2
    <3> HIDE DEF s
    <3> QED
      BY <3>1, <3>2, <3>3
  <2>3. ASSUME caller' = [caller EXCEPT ![c] = IdleCaller]
        PROVE  \E s : To(s)
    <3>1. IdleCaller \in CallerState /\ CallerOK(IdleCaller)
      BY DEF IdleCaller, CallerState, CallerOK
    <3> QED
      BY <2>3, <3>1
  <2>4. ASSUME NEW j \in JobIds, CancelById(c, j)
        PROVE  \E s : To(s)
    BY <2>2, <2>4 DEF CancelById
  <2>5. ASSUME NEW t \in Tenants, CancelLookRunning(c, t)
        PROVE  \E s : To(s)
    <3>1. CASE \E i \in HasStatus(t, {"running"}) :
                 caller' = [caller EXCEPT ![c] =
                              [IdleCaller EXCEPT !.pc = "cancelling", !.job = i]]
      BY <2>2, <3>1 DEF HasStatus, Active
    <3>2. CASE caller' = [caller EXCEPT ![c] =
                            [IdleCaller EXCEPT !.pc = "lookPending", !.tenant = t]]
      <4> DEFINE s == [IdleCaller EXCEPT !.pc = "lookPending", !.tenant = t]
      <4>1. s \in CallerState /\ CallerOK(s)
        BY DEF IdleCaller, CallerState, CallerOK
      <4>2. caller' = [caller EXCEPT ![c] = s]
        BY <3>2
      <4> HIDE DEF s
      <4> QED
        BY <4>1, <4>2
    <3> QED
      BY <2>5, <3>1, <3>2 DEF CancelLookRunning
  <2>6. CASE CancelLookPending(c)
    BY <2>2, <2>3, <2>6 DEF CancelLookPending, HasStatus, Active
  <2>7. CASE RequestAborted(c)
    BY <2>3, <2>7 DEF RequestAborted
  <2> QED
    BY <2>1, <2>4, <2>5, <2>6, <2>7
<1>4. TypeOK'
  BY <1>1, <1>3 DEF IInv, TypeOK, webUnchanged
<1>5. Referenced'
  BY <1>1, <1>3 DEF IInv, TypeOK, Referenced, Present, CallerOK, webUnchanged
<1>6. RowShape' /\ CancelledIsRecorded' /\ ProgressIsBacked'
      /\ CompletedIsComplete' /\ ImportedWithinTotal' /\ LocalsAreTrue'
  BY <1>1 DEF IInv, RowShape, Present, CancelledIsRecorded, ProgressIsBacked,
         CompletedIsComplete, ImportedWithinTotal, LocalsAreTrue, ActiveIn,
         Covered, Frontier, ChunkEnd, job, webUnchanged
<1> QED
  BY <1>4, <1>5, <1>6 DEF IInv

\* A new row, with the request that made it.
LEMMA InsertIInv ==
  ASSUME IInv, NEW c \in Callers, NEW j \in JobIds, NEW t \in Tenants,
         NEW s \in Days, NEW e \in Days, s <= e,
         NEW x \in CallerState, x.pc = "inserted", x.job = j,
         ~Present(j),
         rows' = [rows EXCEPT ![j] = NewRow(t, s, e)],
         caller' = [caller EXCEPT ![c] = x],
         UNCHANGED <<queue, everCancelled>>, UNCHANGED webUnchanged
  PROVE  IInv'
<1>1. NewRow(t, s, e) \in Row
  <2>1. s \in Nat /\ e \in Nat /\ e - s + 1 \in Nat
    BY BackfillAssumption DEF Days
  <2>2. NoRow \in Row
    BY DEF NoRow, Row, Status
  <2> QED
    BY <2>1, <2>2 DEF NewRow, Row, Status, Active
<1>2. /\ rows' \in [JobIds -> Row]
      /\ rows'[j] = NewRow(t, s, e)
      /\ \A i \in JobIds \ {j} : rows'[i] = rows[i]
  BY <1>1 DEF IInv, TypeOK
<1>3. \A i \in JobIds : Present(i) => i # j /\ Present(i)'
  BY <1>2 DEF Present
<1>4. /\ NewRow(t, s, e).status = "pending" /\ NewRow(t, s, e).tenant = t
      /\ NewRow(t, s, e).dateStart = s /\ NewRow(t, s, e).dateEnd = e
      /\ NewRow(t, s, e).totalDays = e - s + 1
      /\ NewRow(t, s, e).processedDays = 0
      /\ NewRow(t, s, e).lastProcessedDate = 0
  BY DEF NewRow, NoRow
<1>5. Present(j)'
  BY <1>2, <1>4 DEF Present
<1>6. TypeOK'
  BY <1>2 DEF IInv, TypeOK, webUnchanged
<1>7. RowShape'
  BY <1>2, <1>3, <1>4, <1>5 DEF IInv, RowShape, Present
<1>8. Referenced'
  <2>1. ASSUME NEW d \in Callers
        PROVE  CallerOK(caller[d])'
    <3>1. CASE d = c
      <4>1. caller'[d] = x
        BY <3>1 DEF IInv, TypeOK
      <4> QED
        BY <1>5, <4>1 DEF CallerOK
    <3>2. CASE d # c
      <4>1. caller'[d] = caller[d] /\ CallerOK(caller[d])
        BY <3>2 DEF IInv, TypeOK, Referenced
      <4> QED
        BY <1>3, <4>1 DEF CallerOK
    <3> QED
      BY <3>1, <3>2
  <2>2. /\ \A i \in 1..Len(queue) : queue[i] \in JobIds
        /\ stalled \subseteq JobIds
    BY DEF IInv, TypeOK
  <2>3. UNCHANGED <<queue, stalled, worker>>
    BY DEF webUnchanged
  <2> QED
    BY <1>3, <2>1, <2>2, <2>3 DEF IInv, Referenced
<1>9. CancelledIsRecorded'
  BY <1>2, <1>4 DEF IInv, CancelledIsRecorded
<1>10. ImportedWithinTotal'
  BY <1>2, <1>4 DEF IInv, ImportedWithinTotal, Days
<1>11. ProgressIsBacked' /\ CompletedIsComplete'
  <2>1. ActiveDays[t] \cap (s .. 0) = {}
    BY DEF Days
  <2> QED
    BY <1>2, <1>4, <2>1
    DEF IInv, ProgressIsBacked, CompletedIsComplete, ActiveIn, webUnchanged
<1>12. LocalsAreTrue'
  <2>1. worker.pc # "idle" => job' = job
    BY <1>2, <1>3 DEF IInv, Referenced, job, webUnchanged
  <2> QED
    BY <2>1 DEF IInv, LocalsAreTrue, Frontier, Covered, ChunkEnd, webUnchanged
<1> QED
  BY <1>6, <1>7, <1>8, <1>9, <1>10, <1>11, <1>12 DEF IInv

LEMMA StartInsertIInv ==
  ASSUME IInv, NEW c \in Callers, NEW j \in JobIds, StartInsert(c, j)
  PROVE  IInv'
<1> DEFINE x == [caller[c] EXCEPT !.pc = "inserted", !.job = j]
<1>1. caller[c] \in CallerState /\ CallerOK(caller[c])
  BY DEF IInv, TypeOK, Referenced
<1>2. x \in CallerState /\ x.pc = "inserted" /\ x.job = j
  BY <1>1 DEF CallerState
<1>3. caller' = [caller EXCEPT ![c] = x]
  BY <1>1 DEF StartInsert, IInv, TypeOK, CallerState
<1>4. /\ caller[c].tenant \in Tenants
      /\ caller[c].dateStart \in Days /\ caller[c].dateEnd \in Days
      /\ caller[c].dateStart <= caller[c].dateEnd
  BY <1>1 DEF StartInsert, CallerOK
<1>5. /\ ~Present(j)
      /\ rows' = [rows EXCEPT ![j] = NewRow(caller[c].tenant, caller[c].dateStart,
                                            caller[c].dateEnd)]
      /\ UNCHANGED <<queue, everCancelled>> /\ UNCHANGED webUnchanged
  BY DEF StartInsert, Present
<1> HIDE DEF x
<1> QED
  BY <1>2, <1>3, <1>4, <1>5, InsertIInv

LEMMA PullNowInsertIInv ==
  ASSUME IInv, NEW c \in Callers, NEW t \in Tenants, NEW r \in Requested,
         NEW j \in JobIds, PullNowInsert(c, t, r[1], r[2], j)
  PROVE  IInv'
<1> DEFINE x == [IdleCaller EXCEPT !.pc = "inserted", !.job = j]
<1>1. x \in CallerState /\ x.pc = "inserted" /\ x.job = j
  BY DEF IdleCaller, CallerState
<1>2. caller' = [caller EXCEPT ![c] = x]
  BY DEF PullNowInsert
<1>3. r[1] \in Days /\ r[2] \in Days
  BY BackfillAssumption
<1>4. /\ ~Present(j) /\ r[1] <= r[2]
      /\ rows' = [rows EXCEPT ![j] = NewRow(t, r[1], r[2])]
      /\ UNCHANGED <<queue, everCancelled>> /\ UNCHANGED webUnchanged
  BY DEF PullNowInsert, Present
<1> HIDE DEF x
<1> QED
  BY <1>1, <1>2, <1>3, <1>4, InsertIInv

\* Putting a job that has a row at the back of the queue.
LEMMA EnqueueIInv ==
  ASSUME IInv, NEW c \in Callers, Enqueue(c)
  PROVE  IInv'
<1>1. /\ queue' = Append(queue, caller[c].job)
      /\ caller' = [caller EXCEPT ![c] = IdleCaller]
      /\ UNCHANGED <<rows, everCancelled>> /\ UNCHANGED webUnchanged
  BY DEF Enqueue
<1>2. caller[c].job \in JobIds /\ Present(caller[c].job)
  BY DEF Enqueue, IInv, Referenced, CallerOK
<1>3. IdleCaller \in CallerState /\ IdleCaller.pc = "idle"
  BY DEF IdleCaller, CallerState
<1>4. TypeOK'
  BY <1>1, <1>2, <1>3 DEF IInv, TypeOK, webUnchanged
<1>5. Referenced'
  <2>1. ASSUME NEW i \in 1..Len(queue') PROVE Present(queue'[i])
    BY <1>1, <1>2 DEF IInv, TypeOK, Referenced
  <2>2. ASSUME NEW d \in Callers PROVE CallerOK(caller'[d])
    BY <1>1, <1>3 DEF IInv, TypeOK, Referenced, CallerOK
  <2> QED
    BY <1>1, <2>1, <2>2 DEF IInv, Referenced, CallerOK, Present, webUnchanged
<1>6. RowShape' /\ CancelledIsRecorded' /\ ProgressIsBacked'
      /\ CompletedIsComplete' /\ ImportedWithinTotal' /\ LocalsAreTrue'
  BY <1>1 DEF IInv, RowShape, Present, CancelledIsRecorded, ProgressIsBacked,
         CompletedIsComplete, ImportedWithinTotal, LocalsAreTrue, ActiveIn,
         Covered, Frontier, ChunkEnd, job, webUnchanged
<1> QED
  BY <1>4, <1>5, <1>6 DEF IInv

\* The cancel route's write changes the status only, and is recorded.
LEMMA CancelWriteIInv ==
  ASSUME IInv, NEW c \in Callers, CancelWrite(c)
  PROVE  IInv'
<1> DEFINE j == caller[c].job
<1>1. /\ rows' = [rows EXCEPT ![j].status = "cancelled"]
      /\ everCancelled' = everCancelled \cup {j}
      /\ caller' = [caller EXCEPT ![c] = IdleCaller]
      /\ UNCHANGED queue /\ UNCHANGED webUnchanged
  BY DEF CancelWrite
<1>2. j \in JobIds /\ Present(j)
  BY DEF CancelWrite, IInv, Referenced, CallerOK
<1> HIDE DEF j
<1>3. IdleCaller \in CallerState /\ IdleCaller.pc = "idle"
  BY DEF IdleCaller, CallerState
<1>4. /\ rows' \in [JobIds -> Row]
      /\ \A i \in JobIds :
           /\ rows'[i].status = IF i = j THEN "cancelled" ELSE rows[i].status
           /\ rows'[i].tenant = rows[i].tenant
           /\ rows'[i].dateStart = rows[i].dateStart
           /\ rows'[i].dateEnd = rows[i].dateEnd
           /\ rows'[i].totalDays = rows[i].totalDays
           /\ rows'[i].processedDays = rows[i].processedDays
           /\ rows'[i].failedDays = rows[i].failedDays
           /\ rows'[i].lastProcessedDate = rows[i].lastProcessedDate
  <2>1. "cancelled" \in Status /\ rows \in [JobIds -> Row]
    BY DEF IInv, TypeOK, Status, Terminal
  <2> QED
    BY <1>1, <1>2, <2>1, StatusWrite
<1>5. \A i \in JobIds : Present(i)' <=> Present(i)
  BY <1>2, <1>4 DEF Present
<1>6. TypeOK'
  BY <1>1, <1>2, <1>3, <1>4 DEF IInv, TypeOK, webUnchanged
<1>7. RowShape'
  BY <1>4, <1>5 DEF IInv, RowShape
<1>8. Referenced'
  <2>1. ASSUME NEW d \in Callers PROVE CallerOK(caller[d])'
    BY <1>1, <1>3, <1>5 DEF IInv, TypeOK, Referenced, CallerOK
  <2>2. /\ \A i \in 1..Len(queue) : queue[i] \in JobIds
        /\ stalled \subseteq JobIds
    BY DEF IInv, TypeOK
  <2>3. UNCHANGED <<queue, stalled, worker>>
    BY <1>1 DEF webUnchanged
  <2> QED
    BY <1>5, <2>1, <2>2, <2>3 DEF IInv, Referenced
<1>9. CancelledIsRecorded'
  BY <1>1, <1>4 DEF IInv, CancelledIsRecorded
<1>10. ImportedWithinTotal'
  BY <1>4 DEF IInv, ImportedWithinTotal
<1>11. ProgressIsBacked' /\ CompletedIsComplete'
  BY <1>1, <1>2, <1>4, <1>5
  DEF IInv, ProgressIsBacked, CompletedIsComplete, ActiveIn, Present, webUnchanged
<1>12. LocalsAreTrue'
  <2>1. worker.pc # "idle" =>
          /\ job'.tenant = job.tenant /\ job'.dateStart = job.dateStart
          /\ job'.dateEnd = job.dateEnd /\ job'.status \in {job.status, "cancelled"}
    BY <1>1, <1>4 DEF IInv, Referenced, job, webUnchanged
  <2>2. everCancelled \subseteq everCancelled' /\ UNCHANGED <<worker, stats>>
    BY <1>1 DEF webUnchanged
  <2> QED
    BY <2>1, <2>2 DEF IInv, LocalsAreTrue, Frontier, Covered, ChunkEnd
<1> QED
  BY <1>6, <1>7, <1>8, <1>9, <1>10, <1>11, <1>12 DEF IInv

-----------------------------------------------------------------------------
(* Steps of the worker and of BullMQ that leave the table and the stored    *)
(* days alone: the claims about rows carry over at once.                    *)

LEMMA RowClaimsCarryOver ==
  ASSUME IInv, UNCHANGED <<rows, stats, everCancelled>>
  PROVE  /\ RowShape' /\ CancelledIsRecorded' /\ ProgressIsBacked'
         /\ CompletedIsComplete' /\ ImportedWithinTotal'
BY DEF IInv, RowShape, Present, CancelledIsRecorded, ProgressIsBacked,
       CompletedIsComplete, ImportedWithinTotal, ActiveIn

LEMMA WorkerTakeIInv ==
  ASSUME IInv, WorkerTake
  PROVE  IInv'
<1>1. /\ queue # <<>> /\ queue' = Tail(queue)
      /\ worker' = [IdleWorker EXCEPT !.pc = "starting", !.job = Head(queue)]
      /\ UNCHANGED <<rows, stalled, stats, pullStatus, dbErrors, workerUnchanged>>
  BY DEF WorkerTake
<1>2. queue \in Seq(JobIds) /\ Head(queue) = queue[1] /\ 1 \in 1..Len(queue)
  BY <1>1 DEF IInv, TypeOK
<1>3. Head(queue) \in JobIds /\ Present(Head(queue))
  BY <1>1, <1>2 DEF IInv, TypeOK, Referenced
<1>4. worker'.pc = "starting" /\ worker'.job = Head(queue) /\ worker' \in WorkerState
  BY <1>1, <1>3 DEF IdleWorker, WorkerState
<1>5. TypeOK'
  BY <1>1, <1>2, <1>4 DEF IInv, TypeOK, workerUnchanged
<1>6. Referenced'
  <2>1. ASSUME NEW i \in 1..Len(queue') PROVE Present(queue'[i])
    <3>1. i + 1 \in 1..Len(queue) /\ queue'[i] = queue[i + 1]
      BY <1>1, <1>2
    <3> QED
      BY <3>1 DEF IInv, Referenced
  <2> QED
    BY <1>1, <1>3, <1>4, <2>1
    DEF IInv, Referenced, CallerOK, Present, workerUnchanged
<1>7. LocalsAreTrue'
  BY <1>1, <1>4 DEF LocalsAreTrue, IdleWorker
<1> QED
  BY <1>1, <1>5, <1>6, <1>7, RowClaimsCarryOver DEF IInv, workerUnchanged

LEMMA WorkerCheckIInv ==
  ASSUME IInv, WorkerCheck
  PROVE  IInv'
<1>1. /\ worker.pc = "check"
      /\ worker' = [worker EXCEPT !.pc = IF job.status = "cancelled"
                                         THEN "report" ELSE "pull"]
      /\ UNCHANGED <<rows, queue, stalled, stats, pullStatus, dbErrors,
                     workerUnchanged>>
  BY DEF WorkerCheck
<1>2. worker \in WorkerState
  BY DEF IInv, TypeOK
<1>3. TypeOK'
  BY <1>1, <1>2 DEF IInv, TypeOK, WorkerState, workerUnchanged
<1>4. Referenced'
  BY <1>1, <1>2 DEF IInv, Referenced, WorkerState, CallerOK, Present, workerUnchanged
<1>5. LocalsAreTrue'
  <2>1. job.status = "cancelled" => worker.job \in everCancelled
    BY <1>1, JobFacts DEF IInv, CancelledIsRecorded, job
  <2>2. job' = job /\ Frontier' = Frontier /\ Covered' = Covered
    BY <1>1, <1>2 DEF WorkerState, job, Frontier, Covered
  <2> QED
    BY <1>1, <1>2, <2>1, <2>2
    DEF IInv, LocalsAreTrue, WorkerState, workerUnchanged
<1> QED
  BY <1>1, <1>3, <1>4, <1>5, RowClaimsCarryOver DEF IInv, workerUnchanged

\* What a chunk leaves in the locals, failed or done with n days stored.
LEMMA ChunkOutcome ==
  ASSUME IInv, worker.pc \in {"pull", "store"}, NEW n \in Nat
  PROVE  /\ ChunkFailed \in WorkerState /\ ChunkDone(n) \in WorkerState
         /\ ChunkFailed.job = worker.job /\ ChunkDone(n).job = worker.job
         /\ ChunkFailed.pc = "flush" /\ ChunkDone(n).pc = "flush"
<1>1. worker \in WorkerState /\ ChunkEnd \in Nat
  BY ChunkBounds DEF IInv, TypeOK, WorkerState
<1>2. worker.failedChunks + 1 \in Nat /\ worker.totalDaysImported + n \in Nat
  BY <1>1 DEF WorkerState
<1>3. ChunkFailed \in WorkerState /\ ChunkFailed.job = worker.job
      /\ ChunkFailed.pc = "flush"
  BY <1>1, <1>2 DEF ChunkFailed, WorkerState
<1>4. ChunkDone(n) \in WorkerState /\ ChunkDone(n).job = worker.job
      /\ ChunkDone(n).pc = "flush"
  BY <1>1, <1>2 DEF ChunkDone, WorkerState
<1> QED
  BY <1>3, <1>4

\* A chunk that failed or has no active day moves the frontier past it.
LEMMA WorkerPullIInv ==
  ASSUME IInv, WorkerPull
  PROVE  IInv'
<1>1. /\ worker.pc = "pull"
      /\ \/ worker' = ChunkFailed
         \/ Pulled = {} /\ worker' = ChunkDone(0)
         \/ worker' = [worker EXCEPT !.pc = "store"]
      /\ UNCHANGED <<rows, queue, stalled, stats, pullStatus, dbErrors,
                     workerUnchanged>>
  BY DEF WorkerPull
<1>2. worker \in WorkerState
  BY DEF IInv, TypeOK
<1>3. ChunkEnd \in Nat /\ worker.cursor \in Nat /\ worker.cursor <= ChunkEnd
  BY <1>1, <1>2, ChunkBounds DEF WorkerState
<1>4. TypeOK'
  <2>1. ChunkFailed \in WorkerState /\ ChunkDone(0) \in WorkerState
    BY <1>1, ChunkOutcome
  <2>2. [worker EXCEPT !.pc = "store"] \in WorkerState
    BY <1>2 DEF WorkerState
  <2> QED
    BY <1>1, <2>1, <2>2 DEF IInv, TypeOK, workerUnchanged
<1>5. Referenced'
  BY <1>1, <1>2
  DEF IInv, Referenced, WorkerState, CallerOK, Present, ChunkFailed, ChunkDone,
      workerUnchanged
<1>6. LocalsAreTrue'
  <2>1. job' = job /\ ChunkEnd' = ChunkEnd /\ worker'.cursor = worker.cursor
        /\ worker'.job = worker.job /\ job \in Row
    BY <1>1, <1>2, JobFacts
    DEF WorkerState, job, ChunkEnd, ChunkFailed, ChunkDone
  <2>2. CASE worker' = ChunkFailed
    BY <1>1, <1>2, <1>3, <2>1, <2>2
    DEF IInv, LocalsAreTrue, Frontier, WorkerState, ChunkFailed, Row
  <2>3. CASE Pulled = {} /\ worker' = ChunkDone(0)
    <3>1. Frontier' = ChunkEnd + 1 /\ Frontier = worker.cursor
      BY <1>1, <1>2, <2>1, <2>3 DEF Frontier, WorkerState, ChunkDone
    <3>2. ActiveDays[job.tenant] \subseteq Nat
      BY BackfillAssumption, JobFacts, <1>1 DEF Days
    <3>3. Covered' \subseteq Covered
      BY <1>3, <2>1, <2>3, <3>1, <3>2 DEF Covered, Pulled
    <3> QED
      BY <1>1, <1>2, <1>3, <2>1, <2>3, <3>1, <3>3
      DEF IInv, LocalsAreTrue, WorkerState, ChunkDone, Row
  <2>4. CASE worker' = [worker EXCEPT !.pc = "store"]
    <3>1. Frontier' = Frontier /\ Covered' = Covered
      BY <1>1, <1>2, <2>1, <2>4 DEF Frontier, Covered, WorkerState
    <3> QED
      BY <1>1, <1>2, <2>1, <2>4, <3>1 DEF IInv, LocalsAreTrue, WorkerState
  <2> QED
    BY <1>1, <2>2, <2>3, <2>4
<1> QED
  BY <1>1, <1>4, <1>5, <1>6, RowClaimsCarryOver DEF IInv, workerUnchanged

LEMMA WorkerReportIInv ==
  ASSUME IInv, WorkerReport
  PROVE  IInv'
<1>1. /\ worker.pc = "report"
      /\ worker' = [worker EXCEPT !.pc = "finish"]
      /\ pullStatus' = [pullStatus EXCEPT ![job.tenant] =
                          IF FinalStatus = "completed" THEN "ok" ELSE "partial"]
      /\ UNCHANGED <<rows, queue, stalled, stats, dbErrors, workerUnchanged>>
  BY DEF WorkerReport
<1>2. worker \in WorkerState
  BY DEF IInv, TypeOK
<1>3. TypeOK'
  <2>1. pullStatus' \in [Tenants -> {"none", "ok", "partial"}]
    <3> DEFINE v == IF FinalStatus = "completed" THEN "ok" ELSE "partial"
    <3>1. v \in {"ok", "partial"}
      OBVIOUS
    <3>2. pullStatus' = [pullStatus EXCEPT ![job.tenant] = v]
      BY <1>1
    <3> HIDE DEF v
    <3> QED
      BY <3>1, <3>2 DEF IInv, TypeOK
  <2>2. worker' \in WorkerState
    BY <1>1, <1>2 DEF WorkerState
  <2> QED
    BY <1>1, <2>1, <2>2 DEF IInv, TypeOK, workerUnchanged
<1>4. Referenced'
  BY <1>1, <1>2 DEF IInv, Referenced, WorkerState, CallerOK, Present, workerUnchanged
<1>5. LocalsAreTrue'
  <2>1. job' = job /\ Frontier' = Frontier /\ Covered' = Covered
    BY <1>1, <1>2 DEF WorkerState, job, Frontier, Covered
  <2> QED
    BY <1>1, <1>2, <2>1 DEF IInv, LocalsAreTrue, WorkerState, workerUnchanged
<1> QED
  BY <1>1, <1>3, <1>4, <1>5, RowClaimsCarryOver DEF IInv, workerUnchanged

\* The handler ends, normally or not, or its process dies.
LEMMA HandlerEndsIInv ==
  ASSUME IInv, WorkerAck \/ HandlerThrows \/ WorkerCrash
  PROVE  IInv'
<1>1. /\ worker' = IdleWorker
      /\ stalled' \in {stalled, stalled \cup {worker.job}}
      /\ UNCHANGED <<rows, queue, stalls, caller, stats, pullStatus, everCancelled>>
  BY DEF WorkerAck, HandlerThrows, WorkerCrash, workerUnchanged
<1>2. worker.pc # "idle"
  BY DEF WorkerAck, HandlerThrows, WorkerCrash
<1>3. worker.job \in JobIds /\ Present(worker.job)
  BY <1>2 DEF IInv, Referenced
<1>4. IdleWorker \in WorkerState /\ IdleWorker.pc = "idle" /\ IdleWorker.job = None
  BY DEF IdleWorker, WorkerState
<1>5. crashes' \in Nat /\ dbErrors' \in Nat
  BY DEF WorkerAck, HandlerThrows, WorkerCrash, workerUnchanged, IInv, TypeOK
<1>6. TypeOK'
  BY <1>1, <1>3, <1>4, <1>5 DEF IInv, TypeOK
<1>7. Referenced'
  BY <1>1, <1>3, <1>4 DEF IInv, Referenced, CallerOK, Present
<1>8. LocalsAreTrue'
  BY <1>1, <1>4 DEF LocalsAreTrue
<1> QED
  BY <1>1, <1>6, <1>7, <1>8, RowClaimsCarryOver DEF IInv

LEMMA StalledCheckIInv ==
  ASSUME IInv, NEW j \in JobIds, StalledCheck(j)
  PROVE  IInv'
<1>1. /\ j \in stalled /\ stalled' = stalled \ {j}
      /\ UNCHANGED <<rows, caller, worker, stats, pullStatus, crashes, dbErrors,
                     everCancelled>>
      /\ \/ /\ stalls' = [stalls EXCEPT ![j] = @ + 1]
            /\ queue' = <<j>> \o queue
         \/ UNCHANGED <<stalls, queue>>
  BY DEF StalledCheck
<1>2. queue' \in Seq(JobIds) /\ \A i \in 1..Len(queue') : Present(queue'[i])
  <2>1. Present(j)
    BY <1>1 DEF IInv, Referenced
  <2>2. queue \in Seq(JobIds) /\ \A i \in 1..Len(queue) : Present(queue[i])
    BY DEF IInv, TypeOK, Referenced
  <2>3. CASE queue' = <<j>> \o queue
    <3>1. queue' \in Seq(JobIds) /\ Len(queue') = Len(queue) + 1
      BY <2>2, <2>3
    <3>2. ASSUME NEW i \in 1..Len(queue') PROVE Present(queue'[i])
      <4>1. CASE i = 1
        BY <2>1, <2>2, <2>3, <4>1
      <4>2. CASE i # 1
        <5>1. i - 1 \in 1..Len(queue) /\ queue'[i] = queue[i - 1]
          BY <2>2, <2>3, <3>1, <4>2
        <5> QED
          BY <2>2, <5>1
      <4> QED
        BY <4>1, <4>2
    <3> QED
      BY <3>1, <3>2
  <2>4. CASE UNCHANGED queue
    BY <2>2, <2>4
  <2> QED
    BY <1>1, <2>3, <2>4
<1>3. TypeOK'
  <2>1. stalls' \in [JobIds -> Nat] /\ stalled' \subseteq JobIds
    BY <1>1 DEF IInv, TypeOK
  <2>2. UNCHANGED <<rows, caller, worker, stats, pullStatus, crashes, dbErrors,
                    everCancelled>>
    BY <1>1
  <2> QED
    BY <1>2, <2>1, <2>2 DEF IInv, TypeOK
<1>4. Referenced'
  BY <1>1, <1>2 DEF IInv, Referenced, CallerOK, Present
<1>5. LocalsAreTrue'
  BY <1>1 DEF IInv, LocalsAreTrue, Covered, Frontier, ChunkEnd, job
<1> QED
  BY <1>1, <1>3, <1>4, <1>5, RowClaimsCarryOver DEF IInv

-----------------------------------------------------------------------------
(* The worker steps that write the table or store days. *)

\* The row becomes running; nothing is claimed by it that was not before.
LEMMA WorkerStartIInv ==
  ASSUME IInv, WorkerStart
  PROVE  IInv'
<1> DEFINE j == worker.job
<1>1. /\ worker.pc = "starting"
      /\ rows' = [rows EXCEPT ![j].status = "running"]
      /\ worker' = [worker EXCEPT !.pc = "check", !.cursor = job.dateStart]
      /\ UNCHANGED <<queue, stalled, stats, pullStatus, dbErrors, workerUnchanged>>
  BY DEF WorkerStart
<1>2. /\ j \in JobIds /\ job = rows[j] /\ worker \in WorkerState
      /\ job.dateStart \in Nat /\ job.dateEnd \in Nat
      /\ job.dateStart <= job.dateEnd
  BY <1>1, JobFacts DEF job, Row
<1> HIDE DEF j
<1>3. /\ rows' \in [JobIds -> Row]
      /\ \A i \in JobIds :
           /\ rows'[i].status = IF i = j THEN "running" ELSE rows[i].status
           /\ rows'[i].tenant = rows[i].tenant
           /\ rows'[i].dateStart = rows[i].dateStart
           /\ rows'[i].dateEnd = rows[i].dateEnd
           /\ rows'[i].totalDays = rows[i].totalDays
           /\ rows'[i].processedDays = rows[i].processedDays
           /\ rows'[i].failedDays = rows[i].failedDays
           /\ rows'[i].lastProcessedDate = rows[i].lastProcessedDate
  <2>1. "running" \in Status /\ rows \in [JobIds -> Row]
    BY DEF IInv, TypeOK, Status, Active
  <2> QED
    BY <1>1, <1>2, <2>1, StatusWrite
<1>4. \A i \in JobIds : Present(i)' <=> Present(i)
  BY <1>1, <1>2, <1>3, JobFacts DEF Present
<1>5. worker' \in WorkerState /\ worker'.pc = "check" /\ worker'.job = worker.job
      /\ worker'.cursor = job.dateStart
      /\ worker'.failedChunks = worker.failedChunks
  BY <1>1, <1>2 DEF WorkerState
<1>6. TypeOK'
  BY <1>1, <1>3, <1>5 DEF IInv, TypeOK, workerUnchanged
<1>7. RowShape' /\ CancelledIsRecorded' /\ ImportedWithinTotal'
  BY <1>1, <1>3, <1>4
  DEF IInv, RowShape, CancelledIsRecorded, ImportedWithinTotal, workerUnchanged
<1>8. ProgressIsBacked' /\ CompletedIsComplete'
  BY <1>1, <1>2, <1>3, <1>4
  DEF IInv, ProgressIsBacked, CompletedIsComplete, ActiveIn, Present, workerUnchanged
<1>9. Referenced'
  <2>1. \A c \in Callers : CallerOK(caller[c])'
    BY <1>1, <1>4 DEF IInv, TypeOK, Referenced, CallerOK, workerUnchanged
  <2>2. /\ \A i \in 1..Len(queue) : queue[i] \in JobIds
        /\ stalled \subseteq JobIds
    BY DEF IInv, TypeOK
  <2> QED
    BY <1>1, <1>2, <1>4, <1>5, <2>1, <2>2 DEF IInv, Referenced, j
<1>10. LocalsAreTrue'
  <2>1. /\ job'.tenant = job.tenant /\ job'.dateStart = job.dateStart
        /\ job'.dateEnd = job.dateEnd /\ job'.status = "running"
    BY <1>2, <1>3, <1>5 DEF job, j
  <2>2. /\ worker'.totalDaysImported = 0 /\ worker'.lastProcessedDate = 0
    BY <1>1, <1>2 DEF IInv, LocalsAreTrue, WorkerState
  <2>3. Frontier' = job.dateStart /\ Covered' = {}
    BY <1>2, <1>5, <2>1, BackfillAssumption, JobFacts, <1>1
    DEF Frontier, Covered, Days
  <2>4. job.dateStart >= 1
    BY <1>1, JobFacts, BackfillAssumption DEF Days
  <2> QED
    BY <1>2, <1>5, <2>1, <2>2, <2>3, <2>4 DEF LocalsAreTrue
<1> QED
  BY <1>6, <1>7, <1>8, <1>9, <1>10 DEF IInv

\* The days of a chunk are stored, or the chunk is counted as failed.
LEMMA WorkerStoreIInv ==
  ASSUME IInv, WorkerStore
  PROVE  IInv'
<1> DEFINE n == Cardinality(Pulled)
<1>1. /\ worker.pc = "store"
      /\ \/ /\ stats' = [stats EXCEPT ![job.tenant] = @ \cup Pulled]
            /\ worker' \in {ChunkDone(n), ChunkFailed}
         \/ worker' = ChunkFailed /\ UNCHANGED stats
      /\ UNCHANGED <<rows, queue, stalled, pullStatus, dbErrors, workerUnchanged>>
  BY DEF WorkerStore
<1>2. n \in Nat /\ n <= ChunkEnd - worker.cursor + 1
  BY <1>1, PulledFitsChunk
<1> HIDE DEF n
<1>3. /\ worker.job \in JobIds /\ job.tenant \in Tenants
      /\ worker \in WorkerState /\ job \in Row
  BY <1>1, JobFacts
<1>4. ChunkEnd \in Nat /\ worker.cursor \in Nat /\ worker.cursor <= ChunkEnd
      /\ ChunkEnd <= job.dateEnd
  BY <1>1, <1>3, ChunkBounds DEF WorkerState
<1>5. worker' \in WorkerState /\ worker'.pc = "flush" /\ worker'.job = worker.job
  BY <1>1, <1>2, ChunkOutcome
<1>6. Pulled \subseteq Days
  BY <1>3, BackfillAssumption DEF Pulled
<1>7. /\ stats' \in [Tenants -> SUBSET Days]
      /\ \A t \in Tenants : stats[t] \subseteq stats'[t]
      /\ worker' = ChunkDone(n) => Pulled \subseteq stats'[job.tenant]
         \/ worker' = ChunkFailed
  BY <1>1, <1>3, <1>6 DEF IInv, TypeOK
<1>8. TypeOK'
  BY <1>1, <1>5, <1>7 DEF IInv, TypeOK, workerUnchanged
<1>9. Referenced'
  BY <1>1, <1>5 DEF IInv, Referenced, CallerOK, Present, workerUnchanged
<1>10. RowShape' /\ CancelledIsRecorded' /\ ImportedWithinTotal'
  BY <1>1 DEF IInv, RowShape, Present, CancelledIsRecorded, ImportedWithinTotal,
              workerUnchanged
<1>11. ProgressIsBacked' /\ CompletedIsComplete'
  BY <1>1, <1>7
  DEF IInv, RowShape, Present, ProgressIsBacked, CompletedIsComplete, ActiveIn,
      workerUnchanged
<1>12. LocalsAreTrue'
  <2>1. job' = job /\ Frontier = worker.cursor
    BY <1>1, <1>5 DEF job, Frontier
  <2>2. CASE worker' = ChunkFailed
    <3>1. worker'.cursor = worker.cursor /\ worker'.failedChunks # 0
          /\ worker'.totalDaysImported = worker.totalDaysImported
          /\ worker'.lastProcessedDate = worker.lastProcessedDate
      BY <1>3, <2>2 DEF ChunkFailed, WorkerState
    <3>2. ChunkEnd' = ChunkEnd /\ Frontier' = ChunkEnd + 1
      BY <1>5, <2>1, <3>1 DEF ChunkEnd, Frontier
    <3> QED
      BY <1>1, <1>3, <1>4, <1>5, <2>1, <3>1, <3>2
      DEF IInv, LocalsAreTrue, WorkerState, Row
  <2>3. CASE worker' = ChunkDone(n) /\ worker' # ChunkFailed
    <3>1. worker'.cursor = worker.cursor /\ worker'.failedChunks = worker.failedChunks
          /\ worker'.totalDaysImported = worker.totalDaysImported + n
          /\ worker'.lastProcessedDate = ChunkEnd
      BY <1>3, <2>3 DEF ChunkDone, WorkerState
    <3>2. ChunkEnd' = ChunkEnd /\ Frontier' = ChunkEnd + 1
      BY <1>5, <2>1, <3>1 DEF ChunkEnd, Frontier
    <3>3. ActiveDays[job.tenant] \subseteq Nat
      BY BackfillAssumption, <1>3 DEF Days
    <3>4. Covered' \subseteq Covered \cup Pulled
      BY <1>4, <2>1, <3>2, <3>3 DEF Covered, Pulled
    <3>5. Pulled \subseteq stats'[job.tenant] /\ stats[job.tenant] \subseteq stats'[job.tenant]
      BY <1>3, <1>7, <2>3
    <3> QED
      BY <1>1, <1>2, <1>3, <1>4, <1>5, <2>1, <3>1, <3>2, <3>4, <3>5
      DEF IInv, LocalsAreTrue, WorkerState, Row
  <2> QED
    BY <1>1, <2>2, <2>3
<1> QED
  BY <1>8, <1>9, <1>10, <1>11, <1>12 DEF IInv

\* The two writes of progress into the row of the job in hand.
LEMMA ProgressWrite ==
  ASSUME IInv, worker.pc \in {"flush", "finish"}, NEW st \in Status, st # "absent",
         st = "completed" => worker.pc = "finish",
         st = "cancelled" => job.status = "cancelled",
         rows' = [rows EXCEPT ![worker.job] = [WithProgress(@) EXCEPT !.status = st]],
         worker' \in WorkerState, worker'.pc # "idle", worker'.job = worker.job,
         UNCHANGED <<queue, stalled, stats, pullStatus, dbErrors, workerUnchanged>>
  PROVE  /\ TypeOK' /\ RowShape' /\ Referenced' /\ CancelledIsRecorded'
         /\ ProgressIsBacked' /\ CompletedIsComplete' /\ ImportedWithinTotal'
         /\ job' = [WithProgress(job) EXCEPT !.status = st]
<1> DEFINE j == worker.job
           new == [WithProgress(job) EXCEPT !.status = st]
<1>1. /\ j \in JobIds /\ job = rows[j] /\ worker \in WorkerState /\ job \in Row
      /\ Present(j) /\ job.tenant \in Tenants
      /\ job.dateStart \in Days /\ job.dateEnd \in Days
  BY JobFacts DEF job, Present
<1>2. /\ new \in Row /\ new.status = st /\ new.tenant = job.tenant
      /\ new.dateStart = job.dateStart /\ new.dateEnd = job.dateEnd
      /\ new.totalDays = job.totalDays
      /\ new.processedDays = worker.totalDaysImported
      /\ new.failedDays = worker.failedChunks
      /\ new.lastProcessedDate = worker.lastProcessedDate
  <2>1. WithProgress(job) \in Row
    BY <1>1 DEF WithProgress, Row, WorkerState
  <2>2. /\ WithProgress(job).tenant = job.tenant
        /\ WithProgress(job).dateStart = job.dateStart
        /\ WithProgress(job).dateEnd = job.dateEnd
        /\ WithProgress(job).totalDays = job.totalDays
        /\ WithProgress(job).processedDays = worker.totalDaysImported
        /\ WithProgress(job).failedDays = worker.failedChunks
        /\ WithProgress(job).lastProcessedDate = worker.lastProcessedDate
    BY <1>1 DEF WithProgress, Row
  <2> QED
    BY <2>1, <2>2 DEF Row
<1>3. rows' = [rows EXCEPT ![j] = new]
  BY <1>1
<1> HIDE DEF new, j
<1>4. /\ rows' \in [JobIds -> Row] /\ rows'[j] = new
      /\ \A i \in JobIds \ {j} : rows'[i] = rows[i]
  BY <1>1, <1>2, <1>3 DEF IInv, TypeOK
<1>5. \A i \in JobIds : Present(i)' <=> Present(i)
  BY <1>1, <1>2, <1>4 DEF Present
<1>6. TypeOK'
  BY <1>4 DEF IInv, TypeOK, workerUnchanged
<1>7. Referenced'
  <2>1. \A c \in Callers : CallerOK(caller[c])'
    BY <1>5 DEF IInv, TypeOK, Referenced, CallerOK, workerUnchanged
  <2>2. /\ \A i \in 1..Len(queue) : queue[i] \in JobIds
        /\ stalled \subseteq JobIds
    BY DEF IInv, TypeOK
  <2> QED
    BY <1>1, <1>5, <2>1, <2>2 DEF IInv, Referenced, j
<1>8. /\ worker.lastProcessedDate < Frontier /\ Frontier <= job.dateEnd + 1
      /\ worker.totalDaysImported <= Frontier - job.dateStart
      /\ worker.failedChunks = 0 => Covered \subseteq stats[job.tenant]
      /\ worker.pc = "finish" => Frontier = job.dateEnd + 1 \/ j \in everCancelled
      /\ Frontier \in Int
  <2>1. worker.pc = "flush" => ChunkEnd <= job.dateEnd /\ ChunkEnd \in Int
    BY ChunkBounds
  <2>2. worker.cursor \in Nat /\ job.dateEnd \in Nat
    BY <1>1 DEF WorkerState, Row
  <2> QED
    BY <1>1, <2>1, <2>2 DEF IInv, LocalsAreTrue, Frontier, j
<1>9. RowShape' /\ CancelledIsRecorded'
  <2>1. ASSUME NEW i \in JobIds
        PROVE  IF rows'[i].status # "absent"
               THEN /\ rows'[i].tenant \in Tenants
                    /\ rows'[i].dateStart \in Days /\ rows'[i].dateEnd \in Days
                    /\ rows'[i].dateStart <= rows'[i].dateEnd
                    /\ rows'[i].totalDays = rows'[i].dateEnd - rows'[i].dateStart + 1
               ELSE rows'[i].processedDays = 0
    <3>1. CASE i = j
      <4>1. rows'[i] = new
        BY <1>4, <3>1
      <4>2. job.dateStart <= job.dateEnd
            /\ job.totalDays = job.dateEnd - job.dateStart + 1
        BY <1>1 DEF IInv, RowShape
      <4>3. new.status # "absent" /\ new.dateStart <= new.dateEnd
            /\ new.totalDays = new.dateEnd - new.dateStart + 1
        BY <1>2, <4>2
      <4> QED
        BY <1>1, <1>2, <4>1, <4>3
    <3>2. CASE i # j
      <4>1. rows'[i] = rows[i]
        BY <1>4, <3>2
      <4> QED
        BY <4>1 DEF IInv, RowShape, Present
    <3> QED
      BY <3>1, <3>2
  <2>2. st = "cancelled" => j \in everCancelled
    BY <1>1 DEF IInv, CancelledIsRecorded
  <2>3. RowShape'
    BY <2>1 DEF RowShape, Present
  <2>4. CancelledIsRecorded'
    BY <1>2, <1>4, <2>2 DEF IInv, CancelledIsRecorded, workerUnchanged
  <2> QED
    BY <2>3, <2>4
<1>10. ImportedWithinTotal'
  <2>1. job.totalDays = job.dateEnd - job.dateStart + 1
    BY <1>1 DEF IInv, RowShape
  <2>2. worker.totalDaysImported <= job.totalDays
    BY <1>1, <1>8, <2>1 DEF WorkerState, Row
  <2> QED
    BY <1>2, <1>4, <2>2 DEF IInv, ImportedWithinTotal
<1>11. ProgressIsBacked' /\ CompletedIsComplete'
  <2>1. ActiveDays[job.tenant] \subseteq Nat
    BY <1>1, BackfillAssumption DEF Days
  <2>2. ActiveDays[job.tenant] \cap (job.dateStart .. worker.lastProcessedDate)
          \subseteq Covered
    BY <1>1, <1>8, <2>1 DEF Covered, WorkerState, Row
  <2>3. worker.pc = "finish" /\ j \notin everCancelled =>
          ActiveDays[job.tenant] \cap (job.dateStart .. job.dateEnd) \subseteq Covered
    BY <1>1, <1>8, <2>1 DEF Covered, Row
  <2>4. UNCHANGED <<stats, everCancelled>>
    BY DEF workerUnchanged
  <2>5. ProgressIsBacked'
    <3>1. ASSUME NEW i \in JobIds, rows'[i].status # "absent", rows'[i].failedDays = 0
          PROVE  ActiveDays[rows'[i].tenant]
                     \cap (rows'[i].dateStart .. rows'[i].lastProcessedDate)
                   \subseteq stats[rows'[i].tenant]
      <4>1. CASE i = j
        <5>1. /\ worker.failedChunks = 0 /\ rows'[i].tenant = job.tenant
              /\ rows'[i].dateStart = job.dateStart
              /\ rows'[i].lastProcessedDate = worker.lastProcessedDate
          BY <1>2, <1>4, <3>1, <4>1
        <5> QED
          BY <1>8, <2>2, <5>1
      <4>2. CASE i # j
        BY <1>4, <3>1, <4>2 DEF IInv, ProgressIsBacked, ActiveIn
      <4> QED
        BY <4>1, <4>2
    <3> QED
      BY <2>4, <3>1 DEF ProgressIsBacked, ActiveIn
  <2>6. CompletedIsComplete'
    <3>1. ASSUME NEW i \in JobIds, rows'[i].status = "completed",
                 rows'[i].failedDays = 0, i \notin everCancelled
          PROVE  ActiveDays[rows'[i].tenant]
                     \cap (rows'[i].dateStart .. rows'[i].dateEnd)
                   \subseteq stats[rows'[i].tenant]
      <4>1. CASE i = j
        <5>1. /\ new.status = "completed" /\ new.failedDays = 0 /\ j \notin everCancelled
              /\ rows'[i].tenant = job.tenant /\ rows'[i].dateStart = job.dateStart
              /\ rows'[i].dateEnd = job.dateEnd
          BY <1>2, <1>4, <3>1, <4>1
        <5>2. worker.pc = "finish" /\ Covered \subseteq stats[job.tenant]
          BY <1>1, <1>2, <1>8, <5>1
        <5> QED
          BY <2>3, <5>1, <5>2
      <4>2. CASE i # j
        BY <1>4, <3>1, <4>2 DEF IInv, CompletedIsComplete, ActiveIn
      <4> QED
        BY <4>1, <4>2
    <3> QED
      BY <2>4, <3>1 DEF CompletedIsComplete, ActiveIn
  <2> QED
    BY <2>5, <2>6
<1>12. job' = new
  BY <1>4 DEF job, j
<1> QED
  BY <1>6, <1>7, <1>9, <1>10, <1>11, <1>12 DEF new

LEMMA WorkerFlushIInv ==
  ASSUME IInv, WorkerFlush
  PROVE  IInv'
<1>1. /\ worker.pc = "flush"
      /\ rows' = [rows EXCEPT ![worker.job] = WithProgress(@)]
      /\ worker' = [worker EXCEPT !.pc = IF ChunkEnd + 1 > job.dateEnd
                                         THEN "report" ELSE "check",
                                  !.cursor = ChunkEnd + 1,
                                  !.processedChunks = @ + 1]
      /\ UNCHANGED <<queue, stalled, stats, pullStatus, dbErrors, workerUnchanged>>
  BY DEF WorkerFlush
<1>2. /\ worker.job \in JobIds /\ job = rows[worker.job] /\ job \in Row
      /\ job.status # "absent" /\ job.tenant \in Tenants
      /\ job.dateStart \in Nat /\ job.dateEnd \in Nat
      /\ worker \in WorkerState
  BY <1>1, JobFacts DEF job, Row
<1>3. /\ ChunkEnd \in Nat /\ worker.cursor <= ChunkEnd /\ ChunkEnd <= job.dateEnd
      /\ worker.cursor \in Nat
  BY <1>1, <1>2, ChunkBounds DEF WorkerState
<1>4. worker.processedChunks + 1 \in Nat /\ ChunkEnd + 1 \in Nat
  BY <1>2, <1>3 DEF WorkerState
<1>5. /\ worker' \in WorkerState /\ worker'.job = worker.job
      /\ worker'.pc = IF ChunkEnd + 1 > job.dateEnd THEN "report" ELSE "check"
      /\ worker'.cursor = ChunkEnd + 1
      /\ worker'.lastProcessedDate = worker.lastProcessedDate
      /\ worker'.failedChunks = worker.failedChunks
      /\ worker'.totalDaysImported = worker.totalDaysImported
  BY <1>1, <1>2, <1>4 DEF WorkerState
<1>6. WithProgress(job) = [WithProgress(job) EXCEPT !.status = job.status]
  <2>1. WithProgress(job) \in Row
    BY <1>2 DEF WithProgress, Row, WorkerState
  <2>2. WithProgress(job).status = job.status
    BY <1>2 DEF WithProgress, Row
  <2> QED
    BY <2>1, <2>2 DEF Row
<1>7. job.status \in {"running", "cancelled"} /\ job.status \in Status
  BY <1>1, <1>2 DEF IInv, LocalsAreTrue, Row
<1>8. rows' = [rows EXCEPT ![worker.job] =
                 [WithProgress(@) EXCEPT !.status = job.status]]
  BY <1>1, <1>2, <1>6
<1>9. /\ TypeOK' /\ RowShape' /\ Referenced' /\ CancelledIsRecorded'
      /\ ProgressIsBacked' /\ CompletedIsComplete' /\ ImportedWithinTotal'
      /\ job' = [WithProgress(job) EXCEPT !.status = job.status]
  <2> DEFINE st == job.status
  <2>1. /\ st \in Status /\ st # "absent" /\ st # "completed"
        /\ st = "cancelled" => job.status = "cancelled"
        /\ rows' = [rows EXCEPT ![worker.job] = [WithProgress(@) EXCEPT !.status = st]]
        /\ worker.pc \in {"flush", "finish"}
    BY <1>1, <1>7, <1>8
  <2>2. worker'.pc # "idle"
    BY <1>5
  <2>3. job' = [WithProgress(job) EXCEPT !.status = st] =>
          job' = [WithProgress(job) EXCEPT !.status = job.status]
    OBVIOUS
  <2> HIDE DEF st
  <2> QED
    BY <1>1, <1>5, <2>1, <2>2, <2>3, ProgressWrite
<1>10. LocalsAreTrue'
  <2>1. /\ job'.status = job.status /\ job'.tenant = job.tenant
        /\ job'.dateStart = job.dateStart /\ job'.dateEnd = job.dateEnd
    BY <1>2, <1>6, <1>9 DEF WithProgress, Row
  <2>2. Frontier = ChunkEnd + 1 /\ Frontier' = ChunkEnd + 1
    BY <1>1, <1>5 DEF Frontier
  <2>3. Covered' = Covered
    BY <2>1, <2>2 DEF Covered
  <2>4. /\ job.dateStart <= worker.cursor
        /\ worker.lastProcessedDate < ChunkEnd + 1
        /\ worker.failedChunks = 0 => Covered \subseteq stats[job.tenant]
        /\ worker.totalDaysImported <= ChunkEnd + 1 - job.dateStart
    <3>1. worker.pc = "flush" /\ Frontier = ChunkEnd + 1
      BY <1>1, <2>2
    <3>2. /\ job.dateStart <= worker.cursor
          /\ worker.lastProcessedDate < Frontier
          /\ worker.failedChunks = 0 => Covered \subseteq stats[job.tenant]
          /\ worker.totalDaysImported <= Frontier - job.dateStart
      BY <3>1 DEF IInv, LocalsAreTrue
    <3> QED
      BY <1>2, <1>3, <3>1, <3>2 DEF WorkerState
  <2>5. stats' = stats
    BY <1>1
  <2> QED
    BY <1>2, <1>3, <1>5, <1>7, <2>1, <2>2, <2>3, <2>4, <2>5 DEF LocalsAreTrue
<1> QED
  BY <1>9, <1>10 DEF IInv

LEMMA WorkerFinishIInv ==
  ASSUME IInv, WorkerFinish
  PROVE  IInv'
<1>1. /\ worker.pc = "finish"
      /\ rows' = [rows EXCEPT ![worker.job] =
                    [WithProgress(@) EXCEPT !.status = FinalStatus]]
      /\ worker' = [worker EXCEPT !.pc = "ack"]
      /\ UNCHANGED <<queue, stalled, stats, pullStatus, dbErrors, workerUnchanged>>
  BY DEF WorkerFinish
<1>2. /\ worker.job \in JobIds /\ job = rows[worker.job] /\ job \in Row
      /\ worker \in WorkerState
  BY <1>1, JobFacts DEF job
<1>3. /\ worker' \in WorkerState /\ worker'.job = worker.job /\ worker'.pc = "ack"
      /\ worker'.cursor = worker.cursor
      /\ worker'.lastProcessedDate = worker.lastProcessedDate
      /\ worker'.failedChunks = worker.failedChunks
      /\ worker'.totalDaysImported = worker.totalDaysImported
  BY <1>1, <1>2 DEF WorkerState
<1>4. FinalStatus \in {"failed", "completed"} /\ FinalStatus \in Status
  BY DEF FinalStatus, Status, Terminal
<1>5. /\ TypeOK' /\ RowShape' /\ Referenced' /\ CancelledIsRecorded'
      /\ ProgressIsBacked' /\ CompletedIsComplete' /\ ImportedWithinTotal'
      /\ job' = [WithProgress(job) EXCEPT !.status = FinalStatus]
  BY <1>1, <1>3, <1>4, ProgressWrite
<1>6. LocalsAreTrue'
  <2>1. /\ job'.tenant = job.tenant
        /\ job'.dateStart = job.dateStart /\ job'.dateEnd = job.dateEnd
    BY <1>2, <1>5 DEF WithProgress, Row
  <2>2. Frontier = worker.cursor /\ Frontier' = worker.cursor
    BY <1>1, <1>3 DEF Frontier
  <2>3. Covered' = Covered
    BY <2>1, <2>2 DEF Covered
  <2>4. /\ job.dateStart <= worker.cursor /\ worker.cursor <= job.dateEnd + 1
        /\ worker.lastProcessedDate < worker.cursor
        /\ worker.failedChunks = 0 => Covered \subseteq stats[job.tenant]
        /\ worker.totalDaysImported <= worker.cursor - job.dateStart
    BY <1>1, <2>2 DEF IInv, LocalsAreTrue
  <2>5. stats' = stats
    BY <1>1
  <2> QED
    BY <1>3, <2>1, <2>2, <2>3, <2>4, <2>5 DEF LocalsAreTrue
<1> QED
  BY <1>5, <1>6 DEF IInv

-----------------------------------------------------------------------------
(* The theorems. *)

LEMMA NextIInv == IInv /\ [Next]_vars => IInv'
<1> SUFFICES ASSUME IInv, [Next]_vars
             PROVE  IInv'
  OBVIOUS
<1>1. CASE WebStep
  <2> PICK c \in Callers :
        \/ \E t \in Tenants, r \in Requested :
             \/ StartCheck(c, t, r[1], r[2])
             \/ \E j \in JobIds : PullNowInsert(c, t, r[1], r[2], j)
        \/ \E j \in JobIds : StartInsert(c, j) \/ CancelById(c, j)
        \/ Enqueue(c)
        \/ \E t \in Tenants : CancelLookRunning(c, t)
        \/ CancelLookPending(c) \/ CancelWrite(c) \/ RequestAborted(c)
    BY <1>1 DEF WebStep
  <2>1. CASE \/ \E t \in Tenants, r \in Requested : StartCheck(c, t, r[1], r[2])
             \/ \E j \in JobIds : CancelById(c, j)
             \/ \E t \in Tenants : CancelLookRunning(c, t)
             \/ CancelLookPending(c) \/ RequestAborted(c)
    BY <2>1, ReadStepIInv
  <2>2. CASE \E t \in Tenants, r \in Requested, j \in JobIds :
               PullNowInsert(c, t, r[1], r[2], j)
    BY <2>2, PullNowInsertIInv
  <2>3. CASE \E j \in JobIds : StartInsert(c, j)
    BY <2>3, StartInsertIInv
  <2>4. CASE Enqueue(c)
    BY <2>4, EnqueueIInv
  <2>5. CASE CancelWrite(c)
    BY <2>5, CancelWriteIInv
  <2> QED
    BY <2>1, <2>2, <2>3, <2>4, <2>5
<1>2. CASE WorkerStep
  <2>1. CASE WorkerTake
    BY <2>1, WorkerTakeIInv
  <2>2. CASE WorkerStart
    BY <2>2, WorkerStartIInv
  <2>3. CASE WorkerCheck
    BY <2>3, WorkerCheckIInv
  <2>4. CASE WorkerPull
    BY <2>4, WorkerPullIInv
  <2>5. CASE WorkerStore
    BY <2>5, WorkerStoreIInv
  <2>6. CASE WorkerFlush
    BY <2>6, WorkerFlushIInv
  <2>7. CASE WorkerReport
    BY <2>7, WorkerReportIInv
  <2>8. CASE WorkerFinish
    BY <2>8, WorkerFinishIInv
  <2>9. CASE WorkerAck
    BY <2>9, HandlerEndsIInv
  <2> QED
    BY <1>2, <2>1, <2>2, <2>3, <2>4, <2>5, <2>6, <2>7, <2>8, <2>9 DEF WorkerStep
<1>3. CASE Fault
  BY <1>3, HandlerEndsIInv DEF Fault
<1>4. CASE \E j \in JobIds : StalledCheck(j)
  BY <1>4, StalledCheckIInv
<1>5. CASE UNCHANGED vars
  BY <1>5 DEF vars, IInv, TypeOK, RowShape, Present, Referenced, CallerOK,
              CancelledIsRecorded, LocalsAreTrue, Frontier, Covered, ChunkEnd, job,
              ProgressIsBacked, CompletedIsComplete, ImportedWithinTotal, ActiveIn
<1> QED
  BY <1>1, <1>2, <1>3, <1>4, <1>5 DEF Next

\* The inductive invariant holds in every reachable state.
THEOREM Invariance == Spec => []IInv
<1>1. Init => IInv
  BY InitIInv
<1>2. IInv /\ [Next]_vars => IInv'
  BY NextIInv
<1> QED
  BY <1>1, <1>2, PTL DEF Spec

\* Type correctness of the table, the queue, the requests and the handler.
THEOREM TypeCorrect == Spec => []TypeOK
<1>1. IInv => TypeOK
  BY DEF IInv
<1> QED
  BY <1>1, Invariance, PTL

\* The progress a row shows is in daily_stats_v2: the handler's flush comes
\* after its upserts, whatever crashes, reruns and other jobs do.
THEOREM ProgressBacked == Spec => []ProgressIsBacked
<1>1. IInv => ProgressIsBacked
  BY DEF IInv
<1> QED
  BY <1>1, Invariance, PTL

\* An uncancelled job reported completed without failed chunks is complete.
THEOREM CompletionIsComplete == Spec => []CompletedIsComplete
<1>1. IInv => CompletedIsComplete
  BY DEF IInv
<1> QED
  BY <1>1, Invariance, PTL

\* processed_days stays within total_days: chunks are disjoint, lie in the
\* range, and a rerun starts counting from zero.
THEOREM ImportsWithinTotal == Spec => []ImportedWithinTotal
<1>1. IInv => ImportedWithinTotal
  BY DEF IInv
<1> QED
  BY <1>1, Invariance, PTL

\* What is in flight has a row.
LEMMA InFlightHasRow == IInv => DeliveredHasRow
<1> SUFFICES ASSUME IInv, NEW j \in JobIds, InFlight(j)
             PROVE  Present(j)
  BY DEF DeliveredHasRow, Present
<1>1. CASE Queued(j)
  <2> PICK i \in DOMAIN queue : queue[i] = j
    BY <1>1 DEF Queued
  <2>1. i \in 1..Len(queue)
    BY DEF IInv, TypeOK
  <2> QED
    BY <2>1 DEF IInv, Referenced
<1>2. CASE worker.job = j
  <2>1. worker.pc # "idle"
    BY <1>2, BackfillAssumption DEF IInv, Referenced
  <2> QED
    BY <1>2, <2>1 DEF IInv, Referenced
<1>3. CASE j \in stalled
  BY <1>3 DEF IInv, Referenced
<1> QED
  BY <1>1, <1>2, <1>3 DEF InFlight

\* No delivery of a job whose row does not exist.
THEOREM DeliveryHasRow == Spec => []DeliveredHasRow
BY InFlightHasRow, Invariance, PTL

-----------------------------------------------------------------------------
(* One delivery at a time.  A request holds a job from its insert to its    *)
(* enqueue, then the wait list, the worker or the stalled set does; a job   *)
(* that was never redelivered has not run before the worker starts it.      *)

Inserted(c, j) == caller[c].pc = "inserted" /\ caller[c].job = j

\* No worker has run the job.
Unstarted(j) == rows[j].status \in {"pending", "cancelled"}

HeldOnce ==
  \A c \in Callers, j \in JobIds :
    Inserted(c, j) =>
      /\ ~InFlight(j) /\ Unstarted(j)
      /\ \A d \in Callers : Inserted(d, j) => d = c

FirstRunIsFirst ==
  \A j \in JobIds :
    stalls[j] = 0 /\ (Queued(j) \/ (worker.pc = "starting" /\ worker.job = j)) =>
      Unstarted(j)

DeliveryInv == SingleDelivery /\ HeldOnce /\ FirstRunIsFirst

\* A step that moves no job: nobody new holds one, and a row is started only by
\* the worker that has it.
LEMMA QuietStep ==
  ASSUME DeliveryInv, UNCHANGED <<queue, stalled, stalls>>,
         worker'.job = worker.job,
         worker'.pc = "starting" => worker.pc = "starting",
         \A c \in Callers : caller'[c] = caller[c] \/ caller'[c].pc # "inserted",
         \A j \in JobIds :
           \/ rows'[j].status \in {rows[j].status, "cancelled"}
           \/ worker.job = j /\ worker'.pc # "starting"
  PROVE  DeliveryInv'
<1>1. \A j \in JobIds : /\ Queued(j)' <=> Queued(j)
                        /\ InFlight(j)' <=> InFlight(j)
  BY DEF Queued, InFlight
<1>2. SingleDelivery'
  BY <1>1 DEF DeliveryInv, SingleDelivery
<1>3. HeldOnce'
  <2>1. \A c \in Callers, j \in JobIds : Inserted(c, j)' => Inserted(c, j)
    BY DEF Inserted
  <2>2. \A j \in JobIds : ~InFlight(j) => worker.job # j
    BY DEF InFlight
  <2> QED
    BY <1>1, <2>1, <2>2 DEF DeliveryInv, HeldOnce, Unstarted
<1>4. FirstRunIsFirst'
  <2>1. \A j \in JobIds : Queued(j) => worker.job # j
    BY DEF DeliveryInv, SingleDelivery
  <2> QED
    BY <1>1, <2>1 DEF DeliveryInv, FirstRunIsFirst, Unstarted
<1> QED
  BY <1>2, <1>3, <1>4 DEF DeliveryInv

\* A request that has just inserted a row is the only one to hold its job.
LEMMA InsertHolds ==
  ASSUME IInv, DeliveryInv, NEW c \in Callers, NEW j \in JobIds, ~Present(j),
         NEW t, NEW s, NEW e, rows' = [rows EXCEPT ![j] = NewRow(t, s, e)],
         NEW x, x.job = j, caller' = [caller EXCEPT ![c] = x],
         UNCHANGED queue, UNCHANGED webUnchanged
  PROVE  DeliveryInv'
<1>1. ~InFlight(j)
  BY InFlightHasRow DEF DeliveredHasRow, Present
<1>2. \A d \in Callers : ~Inserted(d, j)
  BY DEF Inserted, IInv, Referenced, CallerOK
<1>3. \A i \in JobIds : /\ Queued(i)' <=> Queued(i)
                        /\ InFlight(i)' <=> InFlight(i)
  BY DEF Queued, InFlight, webUnchanged
<1>4. Unstarted(j)' /\ \A i \in JobIds \ {j} : Unstarted(i)' <=> Unstarted(i)
  <2>1. NewRow(t, s, e).status = "pending"
    BY DEF NewRow, NoRow
  <2> QED
    BY <2>1 DEF Unstarted, IInv, TypeOK
<1>5. /\ \A i \in JobIds : Inserted(c, i)' => i = j
      /\ \A d \in Callers \ {c}, i \in JobIds : Inserted(d, i)' <=> Inserted(d, i)
  BY DEF Inserted, IInv, TypeOK
<1>6. SingleDelivery'
  BY <1>3 DEF DeliveryInv, SingleDelivery, webUnchanged
<1>7. HeldOnce'
  <2> SUFFICES ASSUME NEW d \in Callers, NEW i \in JobIds, Inserted(d, i)'
               PROVE  /\ ~InFlight(i)' /\ Unstarted(i)'
                      /\ \A b \in Callers : Inserted(b, i)' => b = d
    BY DEF HeldOnce
  <2>1. CASE i = j
    BY <1>1, <1>2, <1>3, <1>4, <1>5, <2>1
  <2>2. CASE i # j
    BY <1>3, <1>4, <1>5, <2>2 DEF DeliveryInv, HeldOnce
  <2> QED
    BY <2>1, <2>2
<1>8. FirstRunIsFirst'
  BY <1>3, <1>4 DEF DeliveryInv, FirstRunIsFirst, webUnchanged
<1> QED
  BY <1>6, <1>7, <1>8 DEF DeliveryInv

\* The job passes from its request to the back of the wait list.
LEMMA EnqueueDelivers ==
  ASSUME IInv, DeliveryInv, NEW c \in Callers, Enqueue(c)
  PROVE  DeliveryInv'
<1> DEFINE j == caller[c].job
<1>1. /\ caller[c].pc = "inserted" /\ queue' = Append(queue, j)
      /\ caller' = [caller EXCEPT ![c] = IdleCaller]
      /\ UNCHANGED rows /\ UNCHANGED webUnchanged
  BY DEF Enqueue
<1>2. j \in JobIds /\ Inserted(c, j)
  BY <1>1 DEF Inserted, IInv, Referenced, CallerOK
<1> HIDE DEF j
<1>3. /\ ~InFlight(j) /\ Unstarted(j)
      /\ \A d \in Callers : Inserted(d, j) => d = c
  BY <1>2 DEF DeliveryInv, HeldOnce
<1>4. /\ DOMAIN queue = 1..Len(queue) /\ Len(queue) \in Nat
      /\ DOMAIN queue' = 1..(Len(queue) + 1)
      /\ queue'[Len(queue) + 1] = j
      /\ \A i \in 1..Len(queue) : queue'[i] = queue[i]
  BY <1>1, <1>2 DEF IInv, TypeOK
<1>5. \A i \in JobIds : Queued(i)' <=> Queued(i) \/ i = j
  BY <1>4 DEF Queued
<1>6. \A d \in Callers, i \in JobIds : Inserted(d, i)' => d # c /\ Inserted(d, i)
  BY <1>1 DEF Inserted, IdleCaller, IInv, TypeOK
<1>7. SingleDelivery'
  <2>1. ~Queued(j) /\ worker.job # j /\ j \notin stalled
    BY <1>3 DEF InFlight
  <2>2. \A i, k \in DOMAIN queue' : queue'[i] = queue'[k] => i = k
    <3>1. \A i \in 1..Len(queue) : queue[i] # j
      BY <1>4, <2>1 DEF Queued
    <3>2. \A i, k \in 1..Len(queue) : queue[i] = queue[k] => i = k
      BY <1>4 DEF DeliveryInv, SingleDelivery
    <3> QED
      BY <1>4, <3>1, <3>2
  <2> QED
    BY <1>1, <1>5, <2>1, <2>2 DEF DeliveryInv, SingleDelivery, webUnchanged
<1>8. HeldOnce'
  BY <1>1, <1>3, <1>5, <1>6
  DEF DeliveryInv, HeldOnce, InFlight, Unstarted, webUnchanged
<1>9. FirstRunIsFirst'
  BY <1>1, <1>3, <1>5 DEF DeliveryInv, FirstRunIsFirst, Unstarted, webUnchanged
<1> QED
  BY <1>7, <1>8, <1>9 DEF DeliveryInv

\* The head of the wait list passes to the idle worker.
LEMMA TakeDelivers ==
  ASSUME IInv, DeliveryInv, WorkerTake
  PROVE  DeliveryInv'
<1> DEFINE j == Head(queue)
<1>1. /\ worker.pc = "idle" /\ queue # <<>> /\ queue' = Tail(queue)
      /\ worker' = [IdleWorker EXCEPT !.pc = "starting", !.job = j]
      /\ UNCHANGED <<rows, stalled, stalls, caller>>
  BY DEF WorkerTake, workerUnchanged
<1>2. /\ queue \in Seq(JobIds) /\ Len(queue) \in Nat \ {0}
      /\ DOMAIN queue = 1..Len(queue) /\ j = queue[1]
      /\ DOMAIN queue' = 1..(Len(queue) - 1)
      /\ \A i \in 1..(Len(queue) - 1) : queue'[i] = queue[i + 1]
  BY <1>1 DEF IInv, TypeOK
<1>3. j \in JobIds /\ Queued(j) /\ worker'.job = j
  BY <1>1, <1>2 DEF Queued, IdleWorker
<1> HIDE DEF j
<1>4. \A i, k \in 1..Len(queue) : queue[i] = queue[k] => i = k
  BY <1>2 DEF DeliveryInv, SingleDelivery
<1>5. \A i \in JobIds : Queued(i)' => Queued(i) /\ i # j
  <2> SUFFICES ASSUME NEW i \in JobIds, NEW k \in 1..(Len(queue) - 1), queue'[k] = i
               PROVE  Queued(i) /\ i # j
    BY <1>2 DEF Queued
  <2>1. k + 1 \in 1..Len(queue) /\ 1 \in 1..Len(queue) /\ k + 1 # 1
    BY <1>2
  <2>2. queue[k + 1] = i
    BY <1>2
  <2> QED
    BY <1>2, <1>4, <2>1, <2>2 DEF Queued
<1>6. j \notin stalled
  BY <1>3 DEF DeliveryInv, SingleDelivery
<1>7. SingleDelivery'
  <2>1. \A i, k \in DOMAIN queue' : queue'[i] = queue'[k] => i = k
    BY <1>2, <1>4
  <2> QED
    BY <1>1, <1>3, <1>5, <1>6, <2>1 DEF DeliveryInv, SingleDelivery
<1>8. HeldOnce'
  <2>1. \A i \in JobIds : InFlight(i)' => InFlight(i)
    BY <1>1, <1>3, <1>5 DEF InFlight
  <2> QED
    BY <1>1, <2>1 DEF DeliveryInv, HeldOnce, Inserted, Unstarted
<1>9. FirstRunIsFirst'
  <2> SUFFICES ASSUME NEW i \in JobIds, stalls'[i] = 0,
                      Queued(i)' \/ worker'.job = i
               PROVE  Unstarted(i)'
    BY DEF FirstRunIsFirst
  <2>1. Queued(i) /\ stalls[i] = 0
    BY <1>1, <1>3, <1>5
  <2> QED
    BY <1>1, <2>1 DEF DeliveryInv, FirstRunIsFirst, Unstarted
<1> QED
  BY <1>7, <1>8, <1>9 DEF DeliveryInv

\* The worker lets go of its job; when it died, the stalled set takes it.
LEMMA HandlerEndDelivers ==
  ASSUME IInv, DeliveryInv, WorkerAck \/ HandlerThrows \/ WorkerCrash
  PROVE  DeliveryInv'
<1>1. /\ worker'.job = None /\ worker'.pc = "idle"
      /\ stalled' \in {stalled, stalled \cup {worker.job}}
      /\ UNCHANGED <<rows, queue, stalls, caller>>
  BY DEF WorkerAck, HandlerThrows, WorkerCrash, workerUnchanged, IdleWorker
<1>2. \A j \in JobIds : worker'.job # j
  BY <1>1, BackfillAssumption
<1>3. \A j \in JobIds : /\ Queued(j)' <=> Queued(j)
                        /\ InFlight(j)' => InFlight(j)
  BY <1>1, <1>2 DEF Queued, InFlight
<1>4. SingleDelivery'
  BY <1>1, <1>2, <1>3 DEF DeliveryInv, SingleDelivery
<1>5. HeldOnce'
  BY <1>1, <1>3 DEF DeliveryInv, HeldOnce, Inserted, Unstarted
<1>6. FirstRunIsFirst'
  <2> SUFFICES ASSUME NEW i \in JobIds, stalls'[i] = 0, Queued(i)'
               PROVE  Unstarted(i)'
    BY <1>1 DEF FirstRunIsFirst
  <2>1. Queued(i) /\ stalls[i] = 0
    BY <1>1, <1>3
  <2> QED
    BY <1>1, <2>1 DEF DeliveryInv, FirstRunIsFirst, Unstarted
<1> QED
  BY <1>4, <1>5, <1>6 DEF DeliveryInv

\* A stalled job goes back to the head of the wait list, as a redelivery.
LEMMA StalledCheckDelivers ==
  ASSUME IInv, DeliveryInv, NEW j \in JobIds, StalledCheck(j)
  PROVE  DeliveryInv'
<1>1. /\ j \in stalled /\ stalled' = stalled \ {j}
      /\ UNCHANGED <<rows, caller, worker>>
  BY DEF StalledCheck
<1>2. ~Queued(j) /\ worker.job # j
  BY <1>1 DEF DeliveryInv, SingleDelivery
<1>3. CASE stalls' = [stalls EXCEPT ![j] = @ + 1] /\ queue' = <<j>> \o queue
  <2>1. /\ Len(queue) \in Nat /\ DOMAIN queue = 1..Len(queue)
        /\ DOMAIN queue' = 1..(Len(queue) + 1) /\ queue'[1] = j
        /\ \A i \in 2..(Len(queue) + 1) : queue'[i] = queue[i - 1]
    BY <1>3 DEF IInv, TypeOK
  <2>2. \A i \in JobIds : Queued(i)' => Queued(i) \/ i = j
    <3> SUFFICES ASSUME NEW i \in JobIds, NEW k \in 1..(Len(queue) + 1),
                        queue'[k] = i, i # j
                 PROVE  Queued(i)
      BY <2>1 DEF Queued
    <3>1. k \in 2..(Len(queue) + 1) /\ k - 1 \in 1..Len(queue)
      BY <2>1
    <3> QED
      BY <2>1, <3>1 DEF Queued
  <2>3. \A i, k \in DOMAIN queue' : queue'[i] = queue'[k] => i = k
    <3>1. \A i \in 1..Len(queue) : queue[i] # j
      BY <1>2, <2>1 DEF Queued
    <3>2. \A i, k \in 1..Len(queue) : queue[i] = queue[k] => i = k
      BY <2>1 DEF DeliveryInv, SingleDelivery
    <3>3. \A i \in 2..(Len(queue) + 1) : i - 1 \in 1..Len(queue) /\ queue'[i] # j
      BY <2>1, <3>1
    <3> SUFFICES ASSUME NEW i \in 1..(Len(queue) + 1), NEW k \in 1..(Len(queue) + 1),
                        queue'[i] = queue'[k]
                 PROVE  i = k
      BY <2>1
    <3>4. CASE i = 1 \/ k = 1
      BY <2>1, <3>3, <3>4
    <3>5. CASE i # 1 /\ k # 1
      <4>1. i \in 2..(Len(queue) + 1) /\ k \in 2..(Len(queue) + 1)
        BY <2>1, <3>5
      <4>2. queue[i - 1] = queue[k - 1]
        BY <2>1, <4>1
      <4>3. i - 1 = k - 1
        BY <3>2, <3>3, <4>1, <4>2
      <4> QED
        BY <4>3
    <3> QED
      BY <3>4, <3>5
  <2>4. SingleDelivery'
    BY <1>1, <1>2, <2>2, <2>3 DEF DeliveryInv, SingleDelivery
  <2>5. HeldOnce'
    <3>1. \A i \in JobIds : InFlight(i)' => InFlight(i)
      BY <1>1, <2>2 DEF InFlight
    <3> QED
      BY <1>1, <3>1 DEF DeliveryInv, HeldOnce, Inserted, Unstarted
  <2>6. FirstRunIsFirst'
    <3>1. /\ stalls'[j] # 0
          /\ \A i \in JobIds \ {j} : stalls'[i] = stalls[i]
      BY <1>3 DEF IInv, TypeOK
    <3> QED
      BY <1>1, <2>2, <3>1 DEF DeliveryInv, FirstRunIsFirst, Unstarted
  <2> QED
    BY <2>4, <2>5, <2>6 DEF DeliveryInv
<1>4. CASE UNCHANGED <<stalls, queue>>
  <2>1. \A i \in JobIds : /\ Queued(i)' <=> Queued(i)
                          /\ InFlight(i)' => InFlight(i)
    BY <1>1, <1>4 DEF Queued, InFlight
  <2>2. SingleDelivery'
    BY <1>1, <1>4, <2>1 DEF DeliveryInv, SingleDelivery
  <2>3. HeldOnce'
    BY <1>1, <2>1 DEF DeliveryInv, HeldOnce, Inserted, Unstarted
  <2>4. FirstRunIsFirst'
    BY <1>1, <1>4, <2>1 DEF DeliveryInv, FirstRunIsFirst, Unstarted
  <2> QED
    BY <2>2, <2>3, <2>4 DEF DeliveryInv
<1> QED
  BY <1>3, <1>4 DEF StalledCheck

LEMMA DeliveryStep ==
  ASSUME IInv, DeliveryInv, [Next]_vars
  PROVE  DeliveryInv'
<1>1. CASE WebStep
  <2> PICK c \in Callers :
        \/ \E t \in Tenants, r \in Requested :
             \/ StartCheck(c, t, r[1], r[2])
             \/ \E j \in JobIds : PullNowInsert(c, t, r[1], r[2], j)
        \/ \E j \in JobIds : StartInsert(c, j) \/ CancelById(c, j)
        \/ Enqueue(c)
        \/ \E t \in Tenants : CancelLookRunning(c, t)
        \/ CancelLookPending(c) \/ CancelWrite(c) \/ RequestAborted(c)
    BY <1>1 DEF WebStep
  <2>1. CASE \/ \E t \in Tenants, r \in Requested : StartCheck(c, t, r[1], r[2])
             \/ \E j \in JobIds : CancelById(c, j)
             \/ \E t \in Tenants : CancelLookRunning(c, t)
             \/ CancelLookPending(c) \/ RequestAborted(c)
    <3>1. UNCHANGED <<rows, queue, stalled, stalls, worker>>
      BY <2>1 DEF StartCheck, CancelById, CancelLookRunning, CancelLookPending,
                  RequestAborted, webUnchanged
    <3>2. \E s : s.pc # "inserted" /\ caller' = [caller EXCEPT ![c] = s]
      <4> DEFINE To(s) == s.pc # "inserted" /\ caller' = [caller EXCEPT ![c] = s]
      <4>1. ASSUME NEW t, NEW b, NEW e, StartCheck(c, t, b, e) PROVE \E s : To(s)
        <5> DEFINE s == [IdleCaller EXCEPT !.pc = "checked", !.tenant = t,
                                           !.dateStart = b, !.dateEnd = e]
        <5>1. s.pc # "inserted"
          BY DEF IdleCaller
        <5>2. To(s)
          BY <4>1, <5>1 DEF StartCheck
        <5> QED
          BY <5>2
      <4>2. ASSUME NEW i,
                   caller' = [caller EXCEPT ![c] = [IdleCaller EXCEPT
                                                      !.pc = "cancelling", !.job = i]]
            PROVE  \E s : To(s)
        <5> DEFINE s == [IdleCaller EXCEPT !.pc = "cancelling", !.job = i]
        <5>1. s.pc # "inserted"
          BY DEF IdleCaller
        <5>2. To(s)
          BY <4>2, <5>1
        <5> QED
          BY <5>2
      <4>3. ASSUME NEW t,
                   caller' = [caller EXCEPT ![c] = [IdleCaller EXCEPT
                                                      !.pc = "lookPending", !.tenant = t]]
            PROVE  \E s : To(s)
        <5> DEFINE s == [IdleCaller EXCEPT !.pc = "lookPending", !.tenant = t]
        <5>1. s.pc # "inserted"
          BY DEF IdleCaller
        <5>2. To(s)
          BY <4>3, <5>1
        <5> QED
          BY <5>2
      <4>4. ASSUME caller' = [caller EXCEPT ![c] = IdleCaller] PROVE \E s : To(s)
        BY <4>4 DEF IdleCaller
      <4> QED
        BY <2>1, <4>1, <4>2, <4>3, <4>4
        DEF CancelById, CancelLookRunning, CancelLookPending, RequestAborted
    <3>3. \A d \in Callers : caller'[d] = caller[d] \/ caller'[d].pc # "inserted"
      BY <3>2 DEF IInv, TypeOK
    <3> QED
      BY <3>1, <3>3, QuietStep
  <2>2. ASSUME NEW t \in Tenants, NEW r \in Requested, NEW j \in JobIds,
               PullNowInsert(c, t, r[1], r[2], j)
        PROVE  DeliveryInv'
    <3> DEFINE x == [IdleCaller EXCEPT !.pc = "inserted", !.job = j]
    <3>1. x.job = j
      BY DEF IdleCaller
    <3>2. caller' = [caller EXCEPT ![c] = x]
      BY <2>2 DEF PullNowInsert
    <3> HIDE DEF x
    <3> QED
      BY <2>2, <3>1, <3>2, InsertHolds DEF PullNowInsert, Present
  <2>3. ASSUME NEW j \in JobIds, StartInsert(c, j)
        PROVE  DeliveryInv'
    <3> DEFINE x == [caller[c] EXCEPT !.pc = "inserted", !.job = j]
    <3>1. caller[c] \in CallerState
      BY DEF IInv, TypeOK
    <3>2. x.job = j /\ caller' = [caller EXCEPT ![c] = x]
      BY <2>3, <3>1 DEF StartInsert, CallerState, IInv, TypeOK
    <3> HIDE DEF x
    <3> QED
      BY <2>3, <3>2, InsertHolds DEF StartInsert, Present
  <2>4. CASE Enqueue(c)
    BY <2>4, EnqueueDelivers
  <2>5. CASE CancelWrite(c)
    <3>1. /\ UNCHANGED <<queue, stalled, stalls, worker>>
          /\ caller' = [caller EXCEPT ![c] = IdleCaller]
          /\ rows' = [rows EXCEPT ![caller[c].job].status = "cancelled"]
      BY <2>5 DEF CancelWrite, webUnchanged
    <3>2. \A d \in Callers : caller'[d] = caller[d] \/ caller'[d].pc # "inserted"
      BY <3>1 DEF IInv, TypeOK, IdleCaller
    <3>3. \A j \in JobIds : rows'[j].status \in {rows[j].status, "cancelled"}
      <4>1. /\ rows \in [JobIds -> Row] /\ "cancelled" \in Status
            /\ caller[c].job \in JobIds
        BY <2>5 DEF IInv, TypeOK, Status, Terminal, CancelWrite, Referenced, CallerOK
      <4> QED
        BY <3>1, <4>1, StatusWrite
    <3> QED
      BY <3>1, <3>2, <3>3, QuietStep
  <2> QED
    BY <2>1, <2>2, <2>3, <2>4, <2>5
<1>2. CASE \/ WorkerStart \/ WorkerCheck \/ WorkerPull \/ WorkerStore
           \/ WorkerFlush \/ WorkerReport \/ WorkerFinish
  <2>1. worker \in WorkerState
    BY DEF IInv, TypeOK
  <2>2. UNCHANGED <<queue, stalled, stalls, caller>>
    BY <1>2 DEF WorkerStart, WorkerCheck, WorkerPull, WorkerStore, WorkerFlush,
                WorkerReport, WorkerFinish, workerUnchanged
  <2>3. worker'.job = worker.job /\ worker'.pc # "starting"
    BY <1>2, <2>1
    DEF WorkerStart, WorkerCheck, WorkerPull, WorkerStore, WorkerFlush, WorkerReport,
        WorkerFinish, WorkerState, ChunkFailed, ChunkDone
  <2>4. \A j \in JobIds : rows'[j] = rows[j] \/ worker.job = j
    BY <1>2
    DEF WorkerStart, WorkerCheck, WorkerPull, WorkerStore, WorkerFlush, WorkerReport,
        WorkerFinish, IInv, TypeOK
  <2> QED
    BY <2>2, <2>3, <2>4, QuietStep
<1>3. CASE WorkerTake
  BY <1>3, TakeDelivers
<1>4. CASE WorkerAck \/ HandlerThrows \/ WorkerCrash
  BY <1>4, HandlerEndDelivers
<1>5. CASE \E j \in JobIds : StalledCheck(j)
  BY <1>5, StalledCheckDelivers
<1>6. CASE UNCHANGED vars
  BY <1>6, QuietStep DEF vars
<1> QED
  BY <1>1, <1>2, <1>3, <1>4, <1>5, <1>6 DEF Next, WorkerStep, Fault

\* Each job is with one request, once in the wait list, with the worker or stalled,
\* never at two of them.
LEMMA Delivery == Spec => []DeliveryInv
<1>1. Init => DeliveryInv
  BY BackfillAssumption
  DEF Init, DeliveryInv, SingleDelivery, HeldOnce, FirstRunIsFirst, Queued, InFlight,
      Inserted, IdleCaller, IdleWorker
<1>2. IInv /\ DeliveryInv /\ [Next]_vars => DeliveryInv'
  BY DeliveryStep
<1> QED
  BY <1>1, <1>2, Invariance, PTL DEF Spec

\* A job is in one place at most: BullMQ's redelivery takes it out of the stalled
\* set, and a request enqueues the row it inserted and no other.
THEOREM OneDelivery == Spec => []SingleDelivery
<1>1. DeliveryInv => SingleDelivery
  BY DEF DeliveryInv
<1> QED
  BY <1>1, Delivery, PTL

\* An outcome the worker wrote is overwritten only by a cancel request that read
\* the row before, or by a redelivery of the same job.
THEOREM OutcomesKept == Spec => OutcomeIsKept
<1> DEFINE Kept ==
      \A j \in JobIds :
        rows[j].status \in {"completed", "failed"} /\ rows'[j].status # rows[j].status =>
          \/ \E c \in Callers : caller[c].pc = "cancelling" /\ caller[c].job = j
          \/ stalls[j] > 0 /\ worker.job = j
<1>1. ASSUME IInv, DeliveryInv, [Next]_vars PROVE Kept
  <2> SUFFICES ASSUME NEW j \in JobIds, rows[j].status \in {"completed", "failed"},
                      rows'[j].status # rows[j].status
               PROVE  \/ \E c \in Callers : caller[c].pc = "cancelling"
                                            /\ caller[c].job = j
                      \/ stalls[j] > 0 /\ worker.job = j
    OBVIOUS
  <2>1. /\ rows \in [JobIds -> Row] /\ rows[j] \in Row
        /\ stalls \in [JobIds -> Nat] /\ worker \in WorkerState
    BY <1>1 DEF IInv, TypeOK
  <2>2. ASSUME NEW c \in Callers, CancelWrite(c)
        PROVE  caller[c].pc = "cancelling" /\ caller[c].job = j
    BY <2>1, <2>2 DEF CancelWrite
  <2>3. ASSUME NEW i \in JobIds, rows[i].status = "absent",
               NEW r, rows' = [rows EXCEPT ![i] = r]
        PROVE  FALSE
    BY <2>1, <2>3
  <2>4. CASE WorkerStart
    <3>1. worker.job = j /\ worker.pc = "starting"
      BY <2>1, <2>4 DEF WorkerStart
    <3>2. stalls[j] # 0
      BY <1>1, <3>1 DEF DeliveryInv, FirstRunIsFirst, Unstarted
    <3> QED
      BY <2>1, <3>1, <3>2
  <2>5. CASE WorkerFlush
    <3>1. rows' = [rows EXCEPT ![worker.job] = WithProgress(@)]
      BY <2>5 DEF WorkerFlush
    <3>2. WithProgress(rows[j]).status = rows[j].status
      BY <2>1 DEF WithProgress, Row
    <3> QED
      BY <2>1, <3>1, <3>2
  <2>6. CASE WorkerFinish
    <3>1. worker.job = j /\ worker.pc = "finish"
      BY <2>1, <2>6 DEF WorkerFinish
    <3> QED
      BY <1>1, <3>1 DEF IInv, LocalsAreTrue, job
  <2>7. ASSUME UNCHANGED rows PROVE FALSE
    BY <2>7
  <2>8. CASE WebStep
    BY <2>2, <2>3, <2>7, <2>8
    DEF WebStep, StartCheck, StartInsert, PullNowInsert, Enqueue, CancelById,
        CancelLookRunning, CancelLookPending, RequestAborted
  <2>9. CASE \/ WorkerTake \/ WorkerCheck \/ WorkerPull \/ WorkerStore
             \/ WorkerReport \/ WorkerAck \/ HandlerThrows \/ WorkerCrash
             \/ \E i \in JobIds : StalledCheck(i)
             \/ UNCHANGED vars
    BY <2>7, <2>9
    DEF WorkerTake, WorkerCheck, WorkerPull, WorkerStore, WorkerReport, WorkerAck,
        HandlerThrows, WorkerCrash, StalledCheck, vars
  <2> QED
    BY <1>1, <2>4, <2>5, <2>6, <2>8, <2>9 DEF Next, WorkerStep, Fault
<1>2. IInv /\ DeliveryInv /\ [Next]_vars => [Kept]_vars
  BY <1>1
<1> QED
  BY <1>2, Invariance, Delivery, PTL DEF Spec, OutcomeIsKept

-----------------------------------------------------------------------------
(* Backfill implements BackfillLedger.  Every step of Next opens a job,     *)
(* stores days, moves one job's claim, or leaves the ledger alone.          *)

\* A new row opens its job in the ledger.
LEMMA InsertOpens ==
  ASSUME IInv, NEW j \in JobIds, NEW t \in Tenants, NEW s \in Days, NEW e \in Days,
         ~Present(j), rows' = [rows EXCEPT ![j] = NewRow(t, s, e)], UNCHANGED stats
  PROVE  Ledger!Next
<1>1. /\ NewRow(t, s, e).status = "pending" /\ NewRow(t, s, e).tenant = t
      /\ NewRow(t, s, e).dateStart = s /\ NewRow(t, s, e).dateEnd = e
      /\ NewRow(t, s, e).lastProcessedDate = 0
  BY DEF NewRow, NoRow
<1>2. /\ rows'[j] = NewRow(t, s, e) /\ rows[j].status = "absent"
      /\ \A i \in JobIds \ {j} : rows'[i] = rows[i]
  BY DEF IInv, TypeOK, Present
<1>3. Assigned[j] = {} /\ Claimed' = Claimed
  BY <1>1, <1>2 DEF Assigned, Claimed
<1>4. Assigned' = [Assigned EXCEPT ![j] = {[tenant |-> t, dateStart |-> s,
                                           dateEnd |-> e]}]
  BY <1>1, <1>2 DEF Assigned
<1>5. Ledger!Open(j, t, s, e)
  BY <1>3, <1>4 DEF Ledger!Open
<1> QED
  BY <1>5 DEF Ledger!Next

\* A write of the status of a present row does not show in the ledger.
LEMMA StatusWriteStutters ==
  ASSUME IInv, NEW j \in JobIds, Present(j), NEW st \in Status, st # "absent",
         rows' = [rows EXCEPT ![j].status = st], UNCHANGED stats
  PROVE  UNCHANGED Ledger!ledger
<1>1. \A i \in JobIds :
        /\ rows'[i].status = "absent" <=> rows[i].status = "absent"
        /\ rows'[i].tenant = rows[i].tenant
        /\ rows'[i].dateStart = rows[i].dateStart
        /\ rows'[i].dateEnd = rows[i].dateEnd
        /\ rows'[i].failedDays = rows[i].failedDays
        /\ rows'[i].lastProcessedDate = rows[i].lastProcessedDate
  <2>1. rows \in [JobIds -> Row]
    BY DEF IInv, TypeOK
  <2> QED
    BY <2>1, StatusWrite DEF Present
<1> QED
  BY <1>1 DEF Ledger!ledger, Assigned, Claimed

\* Progress written into the row claims a prefix of the job's range, or nothing.
LEMMA ProgressWriteClaims ==
  ASSUME IInv, IInv', worker.pc \in {"flush", "finish"}, NEW st \in Status,
         st # "absent",
         rows' = [rows EXCEPT ![worker.job] = [WithProgress(@) EXCEPT !.status = st]],
         UNCHANGED stats
  PROVE  Ledger!Next
<1> DEFINE j == worker.job
           new == [WithProgress(job) EXCEPT !.status = st]
           d == worker.lastProcessedDate
           claims == worker.failedChunks = 0 /\ d # 0
<1>1. /\ j \in JobIds /\ job = rows[j] /\ worker \in WorkerState /\ job \in Row
      /\ job.status # "absent" /\ job.dateStart \in Days /\ job.dateEnd \in Days
  BY JobFacts DEF job
<1>2. /\ new.status = st /\ new.tenant = job.tenant
      /\ new.dateStart = job.dateStart /\ new.dateEnd = job.dateEnd
      /\ new.failedDays = worker.failedChunks /\ new.lastProcessedDate = d
  BY <1>1 DEF WithProgress, Row
<1>3. rows' = [rows EXCEPT ![j] = new]
  BY <1>1
<1> HIDE DEF new
<1>4. /\ rows'[j] = new /\ \A i \in JobIds \ {j} : rows'[i] = rows[i]
  BY <1>1, <1>3 DEF IInv, TypeOK
<1>5. Assigned' = Assigned
  BY <1>1, <1>2, <1>4 DEF Assigned
<1>6. Assigned[j] = {[tenant |-> job.tenant, dateStart |-> job.dateStart,
                      dateEnd |-> job.dateEnd]}
  BY <1>1 DEF Assigned
<1>7. Claimed' = [Claimed EXCEPT ![j] = IF claims THEN job.dateStart .. d ELSE {}]
  <2>1. Claimed'[j] = IF claims THEN job.dateStart .. d ELSE {}
    BY <1>1, <1>2, <1>4 DEF Claimed
  <2>2. \A i \in JobIds \ {j} : Claimed'[i] = Claimed[i]
    BY <1>4 DEF Claimed
  <2>3. /\ Claimed = [i \in JobIds |-> Claimed[i]]
        /\ Claimed' = [i \in JobIds |-> Claimed'[i]]
    BY DEF Claimed
  <2> HIDE DEF claims
  <2> QED
    BY <1>1, <2>1, <2>2, <2>3
<1>8. d \in Nat /\ d <= job.dateEnd /\ job.dateStart \in Nat /\ job.dateEnd \in Nat
  <2>1. d \in Nat /\ worker.cursor \in Nat
        /\ job.dateStart \in Nat /\ job.dateEnd \in Nat
    BY <1>1 DEF WorkerState, Row
  <2>2. d < Frontier /\ worker.cursor <= job.dateEnd + 1
    BY DEF IInv, LocalsAreTrue
  <2>3. worker.pc = "flush" => ChunkEnd \in Int /\ ChunkEnd <= job.dateEnd
    BY ChunkBounds
  <2> QED
    BY <2>1, <2>2, <2>3 DEF Frontier
<1>9. CASE claims /\ job.dateStart <= d
  <2>1. ActiveDays[job.tenant] \cap (job.dateStart .. d) \subseteq stats[job.tenant]
    BY <1>1, <1>2, <1>4, <1>9 DEF IInv, ProgressIsBacked, ActiveIn
  <2>2. d \in Days
    BY <1>1, <1>8, <1>9, BackfillAssumption DEF Days
  <2>3. Ledger!Claim(j, d)
    BY <1>5, <1>6, <1>7, <1>8, <1>9, <2>1 DEF Ledger!Claim
  <2> QED
    BY <1>1, <2>2, <2>3 DEF Ledger!Next
<1>10. CASE ~(claims /\ job.dateStart <= d)
  <2>1. Claimed' = [Claimed EXCEPT ![j] = {}]
    <3>1. d < job.dateStart => job.dateStart .. d = {}
      BY <1>8
    <3>2. claims => d < job.dateStart
      BY <1>8, <1>10
    <3> HIDE DEF claims, d
    <3> QED
      BY <1>7, <3>1, <3>2
  <2>2. Ledger!Retract(j)
    BY <1>5, <2>1 DEF Ledger!Retract
  <2> QED
    BY <1>1, <2>2 DEF Ledger!Next
<1> QED
  BY <1>9, <1>10

\* Every step of Backfill is a step of the ledger or leaves it alone.
LEMMA StepIsLedgerStep ==
  ASSUME IInv, IInv', [Next]_vars
  PROVE  [Ledger!Next]_(Ledger!ledger)
<1>1. ASSUME UNCHANGED <<rows, stats>> PROVE UNCHANGED Ledger!ledger
  BY <1>1 DEF Ledger!ledger, Assigned, Claimed
<1>2. ASSUME NEW c \in Callers, NEW j \in JobIds, StartInsert(c, j)
      PROVE  Ledger!Next
  <2>1. /\ caller[c].tenant \in Tenants
        /\ caller[c].dateStart \in Days /\ caller[c].dateEnd \in Days
    BY <1>2 DEF StartInsert, IInv, Referenced, CallerOK
  <2> QED
    BY <1>2, <2>1, InsertOpens DEF StartInsert, Present, webUnchanged
<1>3. ASSUME NEW c \in Callers, NEW t \in Tenants, NEW r \in Requested,
             NEW j \in JobIds, PullNowInsert(c, t, r[1], r[2], j)
      PROVE  Ledger!Next
  <2>1. r[1] \in Days /\ r[2] \in Days
    BY BackfillAssumption
  <2> QED
    BY <1>3, <2>1, InsertOpens DEF PullNowInsert, Present, webUnchanged
<1>4. ASSUME NEW c \in Callers, CancelWrite(c)
      PROVE  UNCHANGED Ledger!ledger
  <2>1. caller[c].job \in JobIds /\ Present(caller[c].job)
    BY <1>4 DEF CancelWrite, IInv, Referenced, CallerOK
  <2>2. "cancelled" \in Status
    BY DEF Status, Terminal
  <2> QED
    BY <1>4, <2>1, <2>2, StatusWriteStutters DEF CancelWrite, webUnchanged
<1>5. CASE WorkerStart
  <2>1. worker.job \in JobIds /\ Present(worker.job)
    BY <1>5 DEF WorkerStart, IInv, Referenced
  <2>2. "running" \in Status
    BY DEF Status, Active
  <2> QED
    BY <1>5, <2>1, <2>2, StatusWriteStutters DEF WorkerStart
<1>6. CASE WorkerStore
  <2>1. job.tenant \in Tenants
    BY <1>6, JobFacts DEF WorkerStore
  <2>2. Pulled \subseteq ActiveDays[job.tenant] /\ Pulled \in SUBSET Days
    BY <2>1, BackfillAssumption DEF Pulled
  <2>3. UNCHANGED <<Assigned, Claimed>>
    BY <1>6 DEF WorkerStore, Assigned, Claimed
  <2>4. CASE stats' = [stats EXCEPT ![job.tenant] = @ \cup Pulled]
    <3>1. Ledger!Store(job.tenant, Pulled)
      BY <2>2, <2>3, <2>4 DEF Ledger!Store
    <3> QED
      BY <2>1, <2>2, <3>1 DEF Ledger!Next
  <2>5. CASE UNCHANGED stats
    BY <1>1, <1>6, <2>5 DEF WorkerStore
  <2> QED
    BY <1>6, <2>4, <2>5 DEF WorkerStore
<1>7. CASE WorkerFlush
  <2> DEFINE st == job.status
  <2>1. /\ worker.pc = "flush" /\ UNCHANGED stats
        /\ rows' = [rows EXCEPT ![worker.job] = WithProgress(@)]
    BY <1>7 DEF WorkerFlush
  <2>2. /\ worker.job \in JobIds /\ job = rows[worker.job] /\ job \in Row
        /\ st \in Status /\ st # "absent"
    BY <2>1, JobFacts DEF job, Row
  <2>3. WithProgress(job) = [WithProgress(job) EXCEPT !.status = st]
    BY <2>2 DEF WithProgress, Row
  <2>4. rows' = [rows EXCEPT ![worker.job] = [WithProgress(@) EXCEPT !.status = st]]
    BY <2>1, <2>2, <2>3
  <2> HIDE DEF st
  <2> QED
    BY <2>1, <2>2, <2>4, ProgressWriteClaims
<1>8. CASE WorkerFinish
  <2>1. FinalStatus \in Status /\ FinalStatus # "absent"
    BY DEF FinalStatus, Status, Terminal
  <2> QED
    BY <1>8, <2>1, ProgressWriteClaims DEF WorkerFinish
<1>9. CASE WebStep
  <2> PICK c \in Callers :
        \/ \E t \in Tenants, r \in Requested :
             \/ StartCheck(c, t, r[1], r[2])
             \/ \E j \in JobIds : PullNowInsert(c, t, r[1], r[2], j)
        \/ \E j \in JobIds : StartInsert(c, j) \/ CancelById(c, j)
        \/ Enqueue(c)
        \/ \E t \in Tenants : CancelLookRunning(c, t)
        \/ CancelLookPending(c) \/ CancelWrite(c) \/ RequestAborted(c)
    BY <1>9 DEF WebStep
  <2>1. CASE \/ \E t \in Tenants, r \in Requested : StartCheck(c, t, r[1], r[2])
             \/ \E j \in JobIds : CancelById(c, j)
             \/ Enqueue(c)
             \/ \E t \in Tenants : CancelLookRunning(c, t)
             \/ CancelLookPending(c) \/ RequestAborted(c)
    BY <1>1, <2>1 DEF StartCheck, CancelById, Enqueue, CancelLookRunning,
                      CancelLookPending, RequestAborted, webUnchanged
  <2> QED
    BY <1>2, <1>3, <1>4, <2>1
<1>10. CASE \/ WorkerTake \/ WorkerCheck \/ WorkerPull \/ WorkerReport \/ WorkerAck
            \/ HandlerThrows \/ WorkerCrash
            \/ \E j \in JobIds : StalledCheck(j)
  BY <1>1, <1>10 DEF WorkerTake, WorkerCheck, WorkerPull, WorkerReport, WorkerAck,
                     HandlerThrows, WorkerCrash, StalledCheck
<1>11. CASE UNCHANGED vars
  BY <1>1, <1>11 DEF vars
<1> QED
  BY <1>5, <1>6, <1>7, <1>8, <1>9, <1>10, <1>11 DEF Next, WorkerStep, Fault

\* Backfill implements its abstract specification: only active days are stored,
\* and whatever a row of backfill_jobs claims as imported is in daily_stats_v2,
\* through crashes, reruns, cancellations and failed chunks.
THEOREM ImplementsLedger == Spec => LedgerSpec
<1>1. Init => Ledger!Init
  BY DEF Init, NoRow, Ledger!Init, Assigned, Claimed
<1>2. IInv /\ IInv' /\ [Next]_vars => [Ledger!Next]_(Ledger!ledger)
  BY StepIsLedgerStep
<1> QED
  BY <1>1, <1>2, Invariance, PTL DEF Spec, LedgerSpec, Ledger!Spec

=============================================================================
