-------------------------- MODULE AgentPushProofs --------------------------
(***************************************************************************)
(* Theorems about AgentPush for any number of processes, any calendar and  *)
(* batch size, with failing reads and writes and killed processes; at the  *)
(* end, about the retry queue with one process, which is shown to implement an outbox. *)
(***************************************************************************)
EXTENDS AgentPush, SequenceTheorems, FiniteSetTheorems, TLAPS

-----------------------------------------------------------------------------
(* The inductive invariant. *)

Exporting == {"send", "enqueueRead", "enqueueWrite"}

\* The day is in S in every required version; all days from f up to, and without,
\* t are.
HasDay(S, d) == \A v \in Required : [version |-> v, date |-> d] \in S
HasFromTo(S, f, t) == \A d \in Days : f <= d /\ d < t => HasDay(S, d)

\* What the locals r of a process say of the payloads S in the cloud.
ProcOK(S, r) ==
  /\ r.pc \in Exporting => r.date \in Days /\ r.kind # "none"
  /\ r.kind = "backfill" =>
       /\ r.from \in Days /\ r.to \in Days
       /\ HasFromTo(S, r.from, r.from + r.completed)
       /\ r.pc \in Exporting => r.from <= r.date /\ HasFromTo(S, r.from, r.date)
  /\ r.pc = "send" /\ r.version = "v1" /\ V2Enabled =>
       [version |-> "v2", date |-> r.date] \in S
  /\ r.version = "v2" => V2Enabled
  /\ r.pc \in {"lock", "init", "batch", "halt"} => r.kind = "backfill"
  /\ r.pc \in {"due", "retry", "markRead", "markWrite"} => r.kind = "cron"
  /\ r.pc = "markWrite" => r.index \in 1..Len(r.buf)

LocalsAreTrue == \A p \in Procs : ProcOK(stored, proc[p])

IInv == TypeOK /\ LocalsAreTrue /\ ResumePositionIsBacked /\ ReleasedIsComplete

-----------------------------------------------------------------------------
(* Types of the values the steps write. *)

LEMMA IdleType == Idle \in ProcState /\ \A S : ProcOK(S, Idle)
<1>1. <<>> \in Seq(Item)
  OBVIOUS
<1>2. Idle \in ProcState
  BY <1>1 DEF Idle, ProcState, Versions
<1> QED
  BY <1>2 DEF Idle, ProcOK, Exporting

\* A file read or written holds a value of the file's type.
LEMMA ReadableType ==
  ASSUME NEW T, NEW file \in T, NEW empty \in T, NEW x \in Readable(file, empty)
  PROVE  x \in T
BY DEF Readable

LEMMA WrittenType ==
  ASSUME NEW T, NEW file \in T, NEW new \in T, NEW x \in Written(file, new)
  PROVE  x \in T
BY DEF Written

\* Starting on a day: nothing is claimed of it yet.
LEMMA BeginExportType ==
  ASSUME AgentPushAssumption, NEW S, NEW r \in ProcState, NEW d \in Days,
         r.kind # "none",
         r.kind = "backfill" =>
           /\ r.from \in Days /\ r.to \in Days /\ r.from <= d
           /\ HasFromTo(S, r.from, r.from + r.completed)
           /\ HasFromTo(S, r.from, d)
  PROVE  BeginExport(r, d) \in ProcState /\ ProcOK(S, BeginExport(r, d))
<1> DEFINE v == IF V2Enabled THEN "v2" ELSE "v1"
<1>1. v \in Versions /\ (v = "v1" => ~V2Enabled) /\ (v = "v2" => V2Enabled)
  BY DEF Versions
<1>2. d \in Nat
  BY DEF Days
<1>3. BeginExport(r, d) = [r EXCEPT !.pc = "send", !.date = d, !.version = v]
  BY DEF BeginExport
<1> HIDE DEF v
<1>4. /\ BeginExport(r, d) \in ProcState
      /\ BeginExport(r, d).pc = "send" /\ BeginExport(r, d).date = d
      /\ BeginExport(r, d).version = v /\ BeginExport(r, d).kind = r.kind
      /\ BeginExport(r, d).from = r.from /\ BeginExport(r, d).to = r.to
      /\ BeginExport(r, d).completed = r.completed
  BY <1>1, <1>2, <1>3 DEF ProcState
<1> QED
  BY <1>1, <1>4 DEF ProcOK, Exporting

\* export has returned: true only when the day is in the cloud.
LEMMA AfterExportType ==
  ASSUME AgentPushAssumption, NEW S, NEW r \in ProcState, ProcOK(S, r),
         r.pc \in Exporting, NEW result \in BOOLEAN, result => HasDay(S, r.date)
  PROVE  AfterExport(r, result) \in ProcState /\ ProcOK(S, AfterExport(r, result))
<1>1. r.date \in Days /\ r.kind \in AllKinds
  BY DEF ProcOK, ProcState
<1>2. CASE r.kind = "cron"
  <2>1. AfterExport(r, result) = [Idle EXCEPT !.kind = "cron", !.pc = "due"]
    BY <1>2 DEF AfterExport
  <2>2. /\ AfterExport(r, result) \in ProcState
        /\ AfterExport(r, result).pc = "due" /\ AfterExport(r, result).kind = "cron"
        /\ AfterExport(r, result).version = "v1"
    BY <2>1, IdleType DEF ProcState, AllKinds, Idle
  <2> QED
    BY <2>2 DEF ProcOK, Exporting
<1>3. CASE r.kind = "command"
  <2>1. AfterExport(r, result) = Idle
    BY <1>3 DEF AfterExport
  <2> QED
    BY <2>1, IdleType
<1>4. CASE r.kind = "backfill"
  <2>1. /\ r.from \in Days /\ r.to \in Days /\ r.from <= r.date
        /\ r.from \in Nat /\ r.to \in Nat /\ r.date \in Nat /\ r.completed \in Nat
        /\ HasFromTo(S, r.from, r.from + r.completed) /\ HasFromTo(S, r.from, r.date)
    BY <1>1, <1>4 DEF ProcOK, ProcState, Days
  <2>2. CASE ~result
    <3>1. AfterExport(r, result) = [r EXCEPT !.pc = "halt"]
      BY <1>4, <2>2 DEF AfterExport
    <3>2. /\ AfterExport(r, result) \in ProcState
          /\ AfterExport(r, result).pc = "halt" /\ AfterExport(r, result).kind = r.kind
          /\ AfterExport(r, result).from = r.from /\ AfterExport(r, result).to = r.to
          /\ AfterExport(r, result).completed = r.completed
          /\ AfterExport(r, result).version = r.version
      BY <3>1 DEF ProcState
    <3> QED
      BY <1>4, <2>1, <3>2 DEF ProcOK, Exporting
  <2>3. result => HasFromTo(S, r.from, r.date + 1)
    BY <2>1 DEF HasFromTo, Days
  <2>4. CASE result /\ r.date < BatchEnd(r)
    <3>1. AfterExport(r, result) = BeginExport(r, r.date + 1)
      BY <1>4, <2>4 DEF AfterExport
    <3>2. BatchEnd(r) <= r.to /\ BatchEnd(r) \in Int
      BY <2>1, AgentPushAssumption DEF BatchEnd
    <3>3. r.date + 1 \in Days
      BY <2>1, <2>4, <3>2, AgentPushAssumption DEF Days
    <3>4. r.from <= r.date + 1
      BY <2>1
    <3> QED
      BY <1>4, <2>1, <2>3, <2>4, <3>1, <3>3, <3>4, BeginExportType
  <2>5. CASE result /\ ~(r.date < BatchEnd(r))
    <3>1. AfterExport(r, result) =
            [r EXCEPT !.pc = "batch", !.completed = r.date - r.from + 1]
      BY <1>4, <2>5 DEF AfterExport
    <3>2. r.date - r.from + 1 \in Nat
      BY <2>1
    <3>3. /\ AfterExport(r, result) \in ProcState
          /\ AfterExport(r, result).pc = "batch" /\ AfterExport(r, result).kind = r.kind
          /\ AfterExport(r, result).from = r.from /\ AfterExport(r, result).to = r.to
          /\ AfterExport(r, result).completed = r.date - r.from + 1
          /\ AfterExport(r, result).version = r.version
      BY <3>1, <3>2 DEF ProcState
    <3>4. r.from + (r.date - r.from + 1) = r.date + 1
      BY <2>1
    <3> QED
      BY <1>4, <2>1, <2>3, <2>5, <3>3, <3>4 DEF ProcOK, Exporting
  <2> QED
    BY <2>2, <2>4, <2>5
<1> QED
  BY <1>1, <1>2, <1>3, <1>4 DEF AllKinds

-----------------------------------------------------------------------------
(* What a step of one process leaves true of the others and of the files. *)

\* The cloud only gains payloads, so what holds of a process goes on holding.
LEMMA StoredGrows ==
  ASSUME NEW S, NEW T, S \subseteq T, NEW r, ProcOK(S, r)
  PROVE  ProcOK(T, r)
<1>1. \A d : HasDay(S, d) => HasDay(T, d)
  BY DEF HasDay
<1>2. \A f, t : HasFromTo(S, f, t) => HasFromTo(T, f, t)
  BY <1>1 DEF HasFromTo
<1> QED
  BY <1>2 DEF ProcOK

\* A step of p to locals r that are true of the cloud after it.
LEMMA StepKeepsLocals ==
  ASSUME TypeOK, LocalsAreTrue, NEW p \in Procs, NEW r \in ProcState, Step(p, r),
         ProcOK(stored', r), stored \subseteq stored'
  PROVE  proc' \in [Procs -> ProcState] /\ LocalsAreTrue'
<1>1. proc' = [proc EXCEPT ![p] = r] /\ proc \in [Procs -> ProcState]
  BY DEF Step, TypeOK
<1>2. proc' \in [Procs -> ProcState]
  BY <1>1
<1>3. ASSUME NEW q \in Procs PROVE ProcOK(stored', proc'[q])
  <2>1. CASE q = p
    BY <1>1, <2>1
  <2>2. CASE q # p
    <3>1. proc'[q] = proc[q]
      BY <1>1, <2>2
    <3>2. ProcOK(stored, proc[q])
      BY DEF LocalsAreTrue
    <3> QED
      BY <3>1, <3>2, StoredGrows
  <2> QED
    BY <2>1, <2>2
<1> QED
  BY <1>2, <1>3 DEF LocalsAreTrue

\* The claims the state file makes go on holding while it is not written.
LEMMA StateKept ==
  ASSUME ResumePositionIsBacked, ReleasedIsComplete, stored \subseteq stored',
         state' = state
  PROVE  ResumePositionIsBacked' /\ ReleasedIsComplete'
<1>1. \A d : DayStored(d) => DayStored(d)'
  BY DEF DayStored
<1>2. ResumePositionIsBacked'
  BY <1>1 DEF ResumePositionIsBacked
<1>3. ReleasedIsComplete'
  BY <1>1 DEF ReleasedIsComplete
<1> QED
  BY <1>2, <1>3

\* A step that leaves the state file alone.
LEMMA StepKeepsIInv ==
  ASSUME IInv, NEW p \in Procs, NEW r \in ProcState, Step(p, r), ProcOK(stored', r),
         stored \subseteq stored', stored' \subseteq Payload, queue' \in Seq(Item),
         state' = state, runs' \in Nat, crashes' \in Nat
  PROVE  IInv'
<1>1. proc' \in [Procs -> ProcState] /\ LocalsAreTrue'
  BY StepKeepsLocals DEF IInv
<1>2. ResumePositionIsBacked' /\ ReleasedIsComplete'
  BY StateKept DEF IInv
<1>3. TypeOK'
  BY <1>1 DEF IInv, TypeOK
<1> QED
  BY <1>1, <1>2, <1>3 DEF IInv

\* A step that writes the state file, from a process that runs a backfill, with
\* in_progress released only when the range is done.
LEMMA WriteKeepsIInv ==
  ASSUME AgentPushAssumption, IInv, NEW p \in Procs, NEW r \in ProcState, Step(p, r),
         ProcOK(stored, r), proc[p].kind = "backfill", NEW b \in BOOLEAN,
         WriteState(proc[p], b),
         b \/ proc[p].from + proc[p].completed > proc[p].to,
         UNCHANGED <<stored, queue, runs, crashes>>
  PROVE  IInv'
<1>1. proc' \in [Procs -> ProcState] /\ LocalsAreTrue'
  BY StepKeepsLocals DEF IInv
<1> DEFINE c == proc[p]
           new == [inProgress |-> b, from |-> c.from, to |-> c.to,
                   completed |-> c.completed]
<1>2. c \in ProcState /\ ProcOK(stored, c) /\ c.kind = "backfill"
  BY DEF IInv, TypeOK, LocalsAreTrue
<1>3. /\ c.from \in Nat /\ c.to \in Nat /\ c.completed \in Nat
      /\ HasFromTo(stored, c.from, c.from + c.completed)
      /\ b \/ c.from + c.completed > c.to
  BY <1>2 DEF ProcState, ProcOK
<1>4. state' \in {state, new}
  BY DEF WriteState, Written
<1> HIDE DEF c
<1>5. \A d \in Days : DayStored(d)' <=> HasDay(stored, d)
  BY DEF DayStored, HasDay
<1>6. CASE state' = state
  BY <1>1, <1>6, StateKept DEF IInv, TypeOK
<1>7. CASE state' = new
  <2>1. /\ new \in BackfillState /\ new.inProgress = b /\ new.from = c.from
        /\ new.to = c.to /\ new.completed = c.completed
    BY <1>3 DEF BackfillState
  <2> HIDE DEF new
  <2>2. TypeOK'
    BY <1>1, <1>7, <2>1 DEF IInv, TypeOK
  <2>3. ResumePositionIsBacked'
    BY <1>3, <1>5, <1>7, <2>1 DEF ResumePositionIsBacked, HasFromTo
  <2>4. ReleasedIsComplete'
    <3>1. ASSUME ~b, NEW d \in (c.from .. c.to) \cap Days PROVE DayStored(d)'
      <4>1. c.from <= d /\ d < c.from + c.completed
        BY <1>3, <3>1 DEF Days
      <4> QED
        BY <1>3, <1>5, <4>1 DEF HasFromTo
    <3> QED
      BY <1>7, <2>1, <3>1 DEF ReleasedIsComplete
  <2> QED
    BY <1>1, <2>2, <2>3, <2>4 DEF IInv
<1> QED
  BY <1>4, <1>6, <1>7

-----------------------------------------------------------------------------
(* One lemma per step. *)

LEMMA InitIInv == Init => IInv
<1> SUFFICES ASSUME Init PROVE IInv
  OBVIOUS
<1>1. <<>> \in Seq(Item) /\ NoBackfill \in BackfillState
  BY DEF NoBackfill, BackfillState
<1>2. TypeOK /\ LocalsAreTrue
  BY <1>1, IdleType DEF Init, TypeOK, LocalsAreTrue
<1>3. \A d \in Days : d \in Nat /\ d > 0
  BY DEF Days
<1>4. ResumePositionIsBacked /\ ReleasedIsComplete
  BY <1>3 DEF Init, NoBackfill, ResumePositionIsBacked, ReleasedIsComplete
<1> QED
  BY <1>2, <1>4 DEF IInv

LEMMA SendIInv ==
  ASSUME AgentPushAssumption, IInv, NEW p \in Procs, Send(p)
  PROVE  IInv'
<1> DEFINE c == proc[p]
           x == [version |-> c.version, date |-> c.date]
<1>1. PICK answer \in Answers :
        /\ Post(x, answer)
        /\ \/ /\ answer = "ok" /\ c.version = "v2"
              /\ Step(p, [c EXCEPT !.version = "v1"])
           \/ /\ answer = "ok" /\ c.version = "v1"
              /\ Step(p, AfterExport(c, TRUE))
           \/ /\ answer # "ok"
              /\ Step(p, [c EXCEPT !.pc = "enqueueRead"])
  BY DEF Send
<1>2. /\ c \in ProcState /\ ProcOK(stored, c) /\ c.pc = "send"
      /\ stored \subseteq Payload
  BY DEF IInv, TypeOK, LocalsAreTrue, Send
<1>3. x \in Payload /\ c.date \in Days /\ c.kind # "none"
  BY <1>2 DEF Payload, ProcOK, Exporting, ProcState
<1>4. /\ stored \subseteq stored' /\ stored' \subseteq Payload
      /\ answer = "ok" => x \in stored'
  BY <1>1, <1>2, <1>3 DEF Post
<1>5. ProcOK(stored', c)
  BY <1>2, <1>4, StoredGrows
<1>6. /\ queue' \in Seq(Item) /\ state' = state /\ runs' \in Nat /\ crashes' \in Nat
  BY DEF Send, IInv, TypeOK
<1>7. CASE answer = "ok" /\ c.version = "v2" /\ Step(p, [c EXCEPT !.version = "v1"])
  <2> DEFINE r == [c EXCEPT !.version = "v1"]
  <2>1. /\ r \in ProcState /\ r.pc = "send" /\ r.kind = c.kind /\ r.date = c.date
        /\ r.from = c.from /\ r.to = c.to /\ r.completed = c.completed
        /\ r.version = "v1"
    BY <1>2 DEF ProcState, Versions
  <2>2. [version |-> "v2", date |-> r.date] \in stored'
    BY <1>4, <1>7, <2>1
  <2>3. Step(p, r)
    BY <1>7
  <2> HIDE DEF r
  <2>4. ProcOK(stored', r)
    BY <1>2, <1>5, <2>1, <2>2 DEF ProcOK, Exporting
  <2> QED
    BY <1>4, <1>6, <2>1, <2>3, <2>4, StepKeepsIInv
<1>8. CASE answer = "ok" /\ c.version = "v1" /\ Step(p, AfterExport(c, TRUE))
  <2>1. V2Enabled => [version |-> "v2", date |-> c.date] \in stored'
    BY <1>2, <1>5, <1>8 DEF ProcOK
  <2>2. [version |-> "v1", date |-> c.date] \in stored'
    BY <1>4, <1>8
  <2>3. HasDay(stored', c.date)
    BY <2>1, <2>2 DEF HasDay, Required, Versions
  <2>4. /\ AfterExport(c, TRUE) \in ProcState
        /\ ProcOK(stored', AfterExport(c, TRUE))
    BY <1>2, <1>5, <2>3, AfterExportType DEF Exporting
  <2> QED
    BY <1>4, <1>6, <1>8, <2>4, StepKeepsIInv
<1>9. CASE answer # "ok" /\ Step(p, [c EXCEPT !.pc = "enqueueRead"])
  <2> DEFINE r == [c EXCEPT !.pc = "enqueueRead"]
  <2>1. /\ r \in ProcState /\ r.pc = "enqueueRead" /\ r.kind = c.kind
        /\ r.date = c.date /\ r.from = c.from /\ r.to = c.to
        /\ r.completed = c.completed /\ r.version = c.version
    BY <1>2 DEF ProcState
  <2>2. Step(p, r)
    BY <1>9
  <2> HIDE DEF r
  <2>3. ProcOK(stored', r)
    BY <1>2, <1>5, <2>1 DEF ProcOK, Exporting
  <2> QED
    BY <1>4, <1>6, <2>1, <2>2, <2>3, StepKeepsIInv
<1> QED
  BY <1>1, <1>7, <1>8, <1>9

LEMMA EnqueueReadIInv ==
  ASSUME AgentPushAssumption, IInv, NEW p \in Procs, EnqueueRead(p)
  PROVE  IInv'
<1> DEFINE c == proc[p]
<1>1. PICK q \in Readable(queue, <<>>) :
        Step(p, [c EXCEPT !.pc = "enqueueWrite", !.buf = q])
  BY DEF EnqueueRead
<1> DEFINE r == [c EXCEPT !.pc = "enqueueWrite", !.buf = q]
<1>2. c \in ProcState /\ ProcOK(stored, c) /\ c.pc = "enqueueRead"
  BY DEF IInv, TypeOK, LocalsAreTrue, EnqueueRead
<1>3. q \in Seq(Item)
  <2>1. queue \in Seq(Item) /\ <<>> \in Seq(Item)
    BY DEF IInv, TypeOK
  <2> QED
    BY ONLY <1>1, <2>1, ReadableType
<1>4. /\ r \in ProcState /\ r.pc = "enqueueWrite" /\ r.kind = c.kind
      /\ r.date = c.date /\ r.from = c.from /\ r.to = c.to
      /\ r.completed = c.completed /\ r.version = c.version
  BY <1>2, <1>3 DEF ProcState
<1>5. Step(p, r)
  BY <1>1
<1> HIDE DEF r
<1>6. ProcOK(stored, r)
  BY <1>2, <1>4 DEF ProcOK, Exporting
<1>7. /\ stored' = stored /\ stored \subseteq Payload /\ queue' \in Seq(Item)
      /\ state' = state /\ runs' \in Nat /\ crashes' \in Nat
  BY DEF EnqueueRead, IInv, TypeOK
<1> QED
  BY <1>4, <1>5, <1>6, <1>7, StepKeepsIInv

LEMMA EnqueueWriteIInv ==
  ASSUME AgentPushAssumption, IInv, NEW p \in Procs, EnqueueWrite(p)
  PROVE  IInv'
<1> DEFINE c == proc[p]
           b == [c EXCEPT !.buf = <<>>]
           item == [payload  |-> [version |-> c.version, date |-> c.date],
                    attempts |-> 0]
<1>1. /\ c \in ProcState /\ ProcOK(stored, c) /\ c.pc = "enqueueWrite"
      /\ queue \in Seq(Item)
  BY DEF IInv, TypeOK, LocalsAreTrue, EnqueueWrite
<1>2. item \in Item
  BY <1>1 DEF Item, Payload, ProcOK, Exporting, ProcState
<1>3. c.buf \in Seq(Item)
  BY <1>1 DEF ProcState
<1>4. queue' \in Written(queue, Append(c.buf, item)) /\ Step(p, AfterExport(b, FALSE))
  BY DEF EnqueueWrite
<1> HIDE DEF item
<1>5. queue' \in Seq(Item)
  <2>1. Append(c.buf, item) \in Seq(Item)
    BY <1>2, <1>3, AppendProperties
  <2> QED
    BY <1>1, <1>4, <2>1, WrittenType
<1>6. <<>> \in Seq(Item)
  OBVIOUS
<1>7. /\ b \in ProcState /\ b.pc = "enqueueWrite" /\ b.kind = c.kind
      /\ b.date = c.date /\ b.from = c.from /\ b.to = c.to
      /\ b.completed = c.completed /\ b.version = c.version
  BY <1>1, <1>6 DEF ProcState
<1> HIDE DEF b
<1>8. ProcOK(stored, b)
  BY <1>1, <1>7 DEF ProcOK, Exporting
<1>9. AfterExport(b, FALSE) \in ProcState /\ ProcOK(stored, AfterExport(b, FALSE))
  BY <1>7, <1>8, AfterExportType DEF Exporting
<1>10. /\ stored' = stored /\ stored \subseteq Payload
       /\ state' = state /\ runs' \in Nat /\ crashes' \in Nat
  BY DEF EnqueueWrite, IInv, TypeOK
<1> QED
  BY <1>4, <1>5, <1>9, <1>10, StepKeepsIInv

LEMMA GetDueItemsIInv ==
  ASSUME AgentPushAssumption, IInv, NEW p \in Procs, GetDueItems(p)
  PROVE  IInv'
<1> DEFINE c == proc[p]
           due(D) == {[index |-> i, payload |-> queue[i].payload] : i \in D}
<1>1. PICK D \in SUBSET (1..Len(queue)) :
        Step(p, IF D = {} THEN Idle ELSE [c EXCEPT !.pc = "retry", !.due = due(D)])
  BY DEF GetDueItems
<1>2. /\ c \in ProcState /\ ProcOK(stored, c) /\ c.pc = "due"
      /\ queue \in Seq(Item)
  BY DEF IInv, TypeOK, LocalsAreTrue, GetDueItems
<1>3. \A i \in D : i \in Nat /\ queue[i] \in Item
  BY <1>2, ElementOfSeq
<1>4. due(D) \subseteq Due
  <2> SUFFICES ASSUME NEW i \in D
               PROVE  [index |-> i, payload |-> queue[i].payload] \in Due
    OBVIOUS
  <2>1. i \in Nat /\ queue[i].payload \in Payload
    BY <1>3 DEF Item
  <2> QED
    BY <2>1 DEF Due
<1> DEFINE r == [c EXCEPT !.pc = "retry", !.due = due(D)]
<1>5. /\ r \in ProcState /\ r.pc = "retry" /\ r.kind = c.kind
      /\ r.date = c.date /\ r.from = c.from /\ r.to = c.to
      /\ r.completed = c.completed /\ r.version = c.version
  <2> HIDE DEF due
  <2> QED
    BY <1>2, <1>4 DEF ProcState
<1>6. Step(p, Idle) \/ Step(p, r)
  BY <1>1
<1> HIDE DEF r
<1>7. ProcOK(stored, r)
  BY <1>2, <1>5 DEF ProcOK, Exporting
<1>8. /\ stored' = stored /\ stored \subseteq Payload /\ queue' \in Seq(Item)
      /\ state' = state /\ runs' \in Nat /\ crashes' \in Nat
  BY DEF GetDueItems, IInv, TypeOK
<1>9. CASE Step(p, Idle)
  BY <1>8, <1>9, IdleType, StepKeepsIInv
<1>10. CASE Step(p, r)
  BY <1>5, <1>7, <1>8, <1>10, StepKeepsIInv
<1> QED
  BY <1>6, <1>9, <1>10

LEMMA RetryIInv ==
  ASSUME AgentPushAssumption, IInv, NEW p \in Procs, Retry(p)
  PROVE  IInv'
<1> DEFINE c == proc[p]
<1>1. PICK x \in c.due, answer \in Answers :
        /\ Post(x.payload, answer)
        /\ Step(p, [c EXCEPT !.pc = "markRead", !.due = @ \ {x},
                             !.index = x.index, !.sent = answer = "ok"])
  BY DEF Retry
<1>2. /\ c \in ProcState /\ ProcOK(stored, c) /\ c.pc = "retry"
      /\ stored \subseteq Payload
  BY DEF IInv, TypeOK, LocalsAreTrue, Retry
<1>3. x \in Due /\ c.due \subseteq Due
  BY <1>2 DEF ProcState
<1>4. x.index \in Nat /\ x.payload \in Payload /\ (c.due \ {x}) \subseteq Due
  BY <1>3 DEF Due
<1>5. stored \subseteq stored' /\ stored' \subseteq Payload
  BY <1>1, <1>2, <1>4 DEF Post
<1> DEFINE sent == answer = "ok"
<1>6. sent \in BOOLEAN
  OBVIOUS
<1> HIDE DEF sent
<1> DEFINE r == [c EXCEPT !.pc = "markRead", !.due = @ \ {x},
                          !.index = x.index, !.sent = sent]
<1>7. /\ r \in ProcState /\ r.pc = "markRead" /\ r.kind = c.kind
      /\ r.date = c.date /\ r.from = c.from /\ r.to = c.to
      /\ r.completed = c.completed /\ r.version = c.version
  BY <1>2, <1>4, <1>6 DEF ProcState
<1>8. Step(p, r)
  BY <1>1 DEF sent
<1> HIDE DEF r
<1>9. ProcOK(stored', r)
  <2>1. ProcOK(stored', c)
    BY <1>2, <1>5, StoredGrows
  <2> QED
    BY <1>2, <1>7, <2>1 DEF ProcOK, Exporting
<1>10. /\ queue' \in Seq(Item) /\ state' = state /\ runs' \in Nat /\ crashes' \in Nat
  BY DEF Retry, IInv, TypeOK
<1> QED
  BY <1>5, <1>7, <1>8, <1>9, <1>10, StepKeepsIInv

\* After an item is marked: the next one, or the run is over.
LEMMA AfterMarkType ==
  ASSUME NEW S, NEW r \in ProcState, r.kind = "cron"
  PROVE  AfterMark(r) \in ProcState /\ ProcOK(S, AfterMark(r))
<1>1. CASE r.due = {}
  BY <1>1, IdleType DEF AfterMark
<1>2. CASE r.due # {}
  <2> DEFINE n == [Idle EXCEPT !.pc = "retry", !.kind = r.kind, !.due = r.due]
  <2>1. /\ n \in ProcState /\ n.pc = "retry" /\ n.kind = r.kind /\ n.version = "v1"
    BY IdleType DEF ProcState, Idle
  <2>2. AfterMark(r) = n
    BY <1>2 DEF AfterMark
  <2> HIDE DEF n
  <2> QED
    BY <2>1, <2>2 DEF ProcOK, Exporting
<1> QED
  BY <1>1, <1>2

LEMMA MarkReadIInv ==
  ASSUME AgentPushAssumption, IInv, NEW p \in Procs, MarkRead(p)
  PROVE  IInv'
<1> DEFINE c == proc[p]
<1>1. PICK q \in Readable(queue, <<>>) :
        Step(p, IF c.index \in 1..Len(q)
                THEN [c EXCEPT !.pc = "markWrite", !.buf = q] ELSE AfterMark(c))
  BY DEF MarkRead
<1> DEFINE r == [c EXCEPT !.pc = "markWrite", !.buf = q]
<1>2. c \in ProcState /\ ProcOK(stored, c) /\ c.pc = "markRead" /\ c.kind = "cron"
  BY DEF IInv, TypeOK, LocalsAreTrue, MarkRead, ProcOK
<1>3. q \in Seq(Item)
  <2>1. queue \in Seq(Item) /\ <<>> \in Seq(Item)
    BY DEF IInv, TypeOK
  <2> QED
    BY ONLY <1>1, <2>1, ReadableType
<1>4. /\ stored' = stored /\ stored \subseteq Payload /\ queue' \in Seq(Item)
      /\ state' = state /\ runs' \in Nat /\ crashes' \in Nat
  BY DEF MarkRead, IInv, TypeOK
<1>5. CASE c.index \in 1..Len(q)
  <2>1. /\ r \in ProcState /\ r.pc = "markWrite" /\ r.kind = c.kind
        /\ r.date = c.date /\ r.from = c.from /\ r.to = c.to
        /\ r.completed = c.completed /\ r.version = c.version
        /\ r.index = c.index /\ r.buf = q
    BY <1>2, <1>3 DEF ProcState
  <2>2. Step(p, r)
    BY <1>1, <1>5
  <2> HIDE DEF r
  <2>3. ProcOK(stored, r)
    BY <1>2, <1>5, <2>1 DEF ProcOK, Exporting
  <2> QED
    BY <1>4, <2>1, <2>2, <2>3, StepKeepsIInv
<1>6. CASE c.index \notin 1..Len(q)
  <2>1. Step(p, AfterMark(c))
    BY <1>1, <1>6
  <2>2. AfterMark(c) \in ProcState /\ ProcOK(stored, AfterMark(c))
    BY <1>2, AfterMarkType
  <2> QED
    BY <1>4, <2>1, <2>2, StepKeepsIInv
<1> QED
  BY <1>5, <1>6

\* The queue stays a queue when an item is taken out or its attempts counted.
LEMMA WithoutType ==
  ASSUME NEW q \in Seq(Item), NEW i \in 1..Len(q)
  PROVE  Without(q, i) \in Seq(Item)
<1>1. Len(q) \in Nat /\ \A j \in 1..Len(q) : q[j] \in Item
  BY ElementOfSeq
<1>2. SubSeq(q, 1, i - 1) \in Seq(Item)
  BY <1>1, SubSeqProperties
<1>3. SubSeq(q, i + 1, Len(q)) \in Seq(Item)
  BY <1>1, SubSeqProperties
<1> QED
  BY <1>2, <1>3, ConcatProperties DEF Without

LEMMA MarkedType ==
  ASSUME NEW q \in Seq(Item), NEW i \in 1..Len(q), NEW sent \in BOOLEAN
  PROVE  Marked(q, i, sent) \in Seq(Item)
<1>1. CASE sent \/ q[i].attempts + 1 >= MaxRetries
  BY <1>1, WithoutType DEF Marked
<1>2. CASE ~(sent \/ q[i].attempts + 1 >= MaxRetries)
  <2> DEFINE item == [q[i] EXCEPT !.attempts = @ + 1]
  <2>1. q[i] \in Item
    BY ElementOfSeq
  <2>2. item \in Item
    BY <2>1 DEF Item
  <2>3. Marked(q, i, sent) = [q EXCEPT ![i] = item]
    BY <1>2 DEF Marked
  <2> HIDE DEF item
  <2> QED
    BY <2>2, <2>3, ExceptSeq
<1> QED
  BY <1>1, <1>2

LEMMA MarkWriteIInv ==
  ASSUME AgentPushAssumption, IInv, NEW p \in Procs, MarkWrite(p)
  PROVE  IInv'
<1> DEFINE c == proc[p]
<1>1. c \in ProcState /\ ProcOK(stored, c) /\ c.kind = "cron" /\ queue \in Seq(Item)
  BY DEF IInv, TypeOK, LocalsAreTrue, MarkWrite, ProcOK
<1>2. c.buf \in Seq(Item) /\ c.index \in 1..Len(c.buf) /\ c.sent \in BOOLEAN
  BY <1>1 DEF ProcState, ProcOK, MarkWrite
<1>3. /\ queue' \in Written(queue, Marked(c.buf, c.index, c.sent))
      /\ Step(p, AfterMark(c))
  BY DEF MarkWrite
<1>4. queue' \in Seq(Item)
  <2>1. Marked(c.buf, c.index, c.sent) \in Seq(Item)
    BY <1>2, MarkedType
  <2> QED
    BY <1>1, <1>3, <2>1, WrittenType
<1>5. AfterMark(c) \in ProcState /\ ProcOK(stored, AfterMark(c))
  BY <1>1, AfterMarkType
<1>6. /\ stored' = stored /\ stored \subseteq Payload
      /\ state' = state /\ runs' \in Nat /\ crashes' \in Nat
  BY DEF MarkWrite, IInv, TypeOK
<1> QED
  BY <1>3, <1>4, <1>5, <1>6, StepKeepsIInv

LEMMA BackfillLockIInv ==
  ASSUME AgentPushAssumption, IInv, NEW p \in Procs, BackfillLock(p)
  PROVE  IInv'
<1> DEFINE c == proc[p]
           r == [c EXCEPT !.pc = "init"]
<1>1. c \in ProcState /\ ProcOK(stored, c) /\ c.pc = "lock" /\ c.kind = "backfill"
  BY DEF IInv, TypeOK, LocalsAreTrue, BackfillLock, ProcOK
<1>2. /\ r \in ProcState /\ r.pc = "init" /\ r.kind = c.kind
      /\ r.date = c.date /\ r.from = c.from /\ r.to = c.to
      /\ r.completed = c.completed /\ r.version = c.version
  BY <1>1 DEF ProcState
<1>3. Step(p, Idle) \/ Step(p, r)
  BY DEF BackfillLock
<1> HIDE DEF r
<1>4. ProcOK(stored, r)
  BY <1>1, <1>2 DEF ProcOK, Exporting
<1>5. /\ stored' = stored /\ stored \subseteq Payload /\ queue' \in Seq(Item)
      /\ state' = state /\ runs' \in Nat /\ crashes' \in Nat
  BY DEF BackfillLock, IInv, TypeOK
<1>6. CASE Step(p, Idle)
  BY <1>5, <1>6, IdleType, StepKeepsIInv
<1>7. CASE Step(p, r)
  BY <1>2, <1>4, <1>5, <1>7, StepKeepsIInv
<1> QED
  BY <1>3, <1>6, <1>7

LEMMA BackfillInitIInv ==
  ASSUME AgentPushAssumption, IInv, NEW p \in Procs, BackfillInit(p)
  PROVE  IInv'
<1> DEFINE c == proc[p]
           r == [c EXCEPT !.pc = "batch"]
<1>1. c \in ProcState /\ ProcOK(stored, c) /\ c.pc = "init" /\ c.kind = "backfill"
  BY DEF IInv, TypeOK, LocalsAreTrue, BackfillInit, ProcOK
<1>2. /\ r \in ProcState /\ r.pc = "batch" /\ r.kind = c.kind
      /\ r.date = c.date /\ r.from = c.from /\ r.to = c.to
      /\ r.completed = c.completed /\ r.version = c.version
  BY <1>1 DEF ProcState
<1>3. /\ Step(p, r) /\ WriteState(c, TRUE)
      /\ UNCHANGED <<stored, queue, runs, crashes>>
  BY DEF BackfillInit
<1> HIDE DEF r
<1>4. ProcOK(stored, r)
  BY <1>1, <1>2 DEF ProcOK, Exporting
<1> QED
  BY <1>1, <1>2, <1>3, <1>4, WriteKeepsIInv

LEMMA BackfillBatchIInv ==
  ASSUME AgentPushAssumption, IInv, NEW p \in Procs, BackfillBatch(p)
  PROVE  IInv'
<1> DEFINE c == proc[p]
<1>1. c \in ProcState /\ ProcOK(stored, c) /\ c.pc = "batch" /\ c.kind = "backfill"
  BY DEF IInv, TypeOK, LocalsAreTrue, BackfillBatch, ProcOK
<1>2. /\ c.from \in Days /\ c.to \in Days /\ c.completed \in Nat
      /\ HasFromTo(stored, c.from, c.from + c.completed)
  BY <1>1 DEF ProcOK, ProcState
<1>3. UNCHANGED <<stored, queue, runs, crashes>>
  BY DEF BackfillBatch
<1>4. CASE /\ c.from + c.completed <= c.to /\ WriteState(c, TRUE)
           /\ Step(p, BeginExport(c, c.from + c.completed))
  <2>1. c.from + c.completed \in Days /\ c.from <= c.from + c.completed
    BY <1>2, <1>4, AgentPushAssumption DEF Days
  <2>2. /\ BeginExport(c, c.from + c.completed) \in ProcState
        /\ ProcOK(stored, BeginExport(c, c.from + c.completed))
    BY <1>1, <1>2, <2>1, BeginExportType
  <2> QED
    BY <1>1, <1>3, <1>4, <2>2, WriteKeepsIInv
<1>5. CASE /\ c.from + c.completed > c.to /\ WriteState(c, FALSE) /\ Step(p, Idle)
  BY <1>1, <1>3, <1>5, IdleType, WriteKeepsIInv
<1> QED
  BY <1>4, <1>5 DEF BackfillBatch

LEMMA BackfillHaltIInv ==
  ASSUME AgentPushAssumption, IInv, NEW p \in Procs, BackfillHalt(p)
  PROVE  IInv'
<1>1. proc[p].kind = "backfill"
  BY DEF IInv, LocalsAreTrue, BackfillHalt, ProcOK
<1>2. /\ WriteState(proc[p], TRUE) /\ Step(p, Idle)
      /\ UNCHANGED <<stored, queue, runs, crashes>>
  BY DEF BackfillHalt
<1> QED
  BY <1>1, <1>2, IdleType, WriteKeepsIInv

LEMMA StartRunIInv ==
  ASSUME AgentPushAssumption, IInv, NEW p \in Procs, StartRun(p)
  PROVE  IInv'
<1>1. /\ stored' = stored /\ stored \subseteq Payload /\ queue' \in Seq(Item)
      /\ state' = state /\ runs' \in Nat /\ crashes' \in Nat
  BY DEF StartRun, IInv, TypeOK
<1>2. ASSUME NEW d \in Days, NEW k \in {"cron", "command"},
             Step(p, BeginExport([Idle EXCEPT !.kind = k], d))
      PROVE  IInv'
  <2> DEFINE r == [Idle EXCEPT !.kind = k]
  <2>1. r \in ProcState /\ r.kind = k
    BY IdleType DEF Idle, ProcState, AllKinds
  <2> HIDE DEF r
  <2>2. BeginExport(r, d) \in ProcState /\ ProcOK(stored, BeginExport(r, d))
    BY <2>1, BeginExportType
  <2>3. Step(p, BeginExport(r, d))
    BY <1>2 DEF r
  <2> QED
    BY <1>1, <2>2, <2>3, StepKeepsIInv
<1>3. ASSUME NEW s \in Days, NEW e \in Days, Backfill(p, s, e)
      PROVE  IInv'
  <2> DEFINE r == [Idle EXCEPT !.pc = "lock", !.kind = "backfill", !.from = s, !.to = e]
  <2>1. s \in Nat /\ e \in Nat
    BY DEF Days
  <2>2. /\ r \in ProcState /\ r.pc = "lock" /\ r.kind = "backfill"
        /\ r.from = s /\ r.to = e /\ r.completed = 0 /\ r.version = "v1"
    BY <2>1, IdleType DEF Idle, ProcState, AllKinds
  <2>3. Step(p, r)
    BY <1>3 DEF Backfill
  <2> HIDE DEF r
  <2>4. HasFromTo(stored, s, s + 0)
    BY <2>1 DEF HasFromTo, Days
  <2>5. ProcOK(stored, r)
    BY <2>2, <2>4 DEF ProcOK, Exporting
  <2> QED
    BY <1>1, <2>2, <2>3, <2>5, StepKeepsIInv
<1>4. PICK d \in Days : \/ Cron(p, d) \/ TriggerExport(p, d)
                        \/ \E e \in Days : Backfill(p, d, e)
  BY DEF StartRun
<1> QED
  BY <1>2, <1>3, <1>4 DEF Cron, TriggerExport

LEMMA KilledIInv ==
  ASSUME AgentPushAssumption, IInv, NEW p \in Procs, Killed(p)
  PROVE  IInv'
<1>1. /\ stored' = stored /\ stored \subseteq Payload /\ queue' \in Seq(Item)
      /\ state' = state /\ runs' \in Nat /\ crashes' \in Nat /\ Step(p, Idle)
  BY DEF Killed, IInv, TypeOK
<1> QED
  BY <1>1, IdleType, StepKeepsIInv

LEMMA StutterIInv ==
  ASSUME IInv, UNCHANGED vars
  PROVE  IInv'
<1> USE DEF vars
<1>1. TypeOK'
  BY DEF IInv, TypeOK
<1>2. LocalsAreTrue'
  BY DEF IInv, LocalsAreTrue
<1>3. ResumePositionIsBacked' /\ ReleasedIsComplete'
  BY StateKept DEF IInv
<1> QED
  BY <1>1, <1>2, <1>3 DEF IInv

-----------------------------------------------------------------------------
(* The theorems. *)

\* IInv is inductive.
LEMMA NextIInv ==
  ASSUME AgentPushAssumption, IInv, [Next]_vars
  PROVE  IInv'
<1>1. ASSUME NEW p \in Procs, ExportStep(p) PROVE IInv'
  BY <1>1, SendIInv, EnqueueReadIInv, EnqueueWriteIInv, GetDueItemsIInv, RetryIInv,
     MarkReadIInv, MarkWriteIInv, BackfillLockIInv, BackfillInitIInv,
     BackfillBatchIInv, BackfillHaltIInv DEF ExportStep
<1>2. CASE Next
  BY <1>1, <1>2, StartRunIInv, KilledIInv DEF Next
<1>3. CASE UNCHANGED vars
  BY <1>3, StutterIInv
<1> QED
  BY <1>2, <1>3

\* Every reachable state satisfies the inductive invariant.
THEOREM PushInvariance == Spec => []IInv
BY InitIInv, NextIInv, AgentPushAssumption, PTL DEF Spec

\* The files, the cloud and the locals of every process keep their types: the queue
\* file is a list of retry items with a natural number of attempts whatever process
\* wrote it last.
THEOREM PushTypeCorrect == Spec => []TypeOK
<1>1. IInv => TypeOK
  BY DEF IInv
<1> QED
  BY <1>1, PushInvariance, PTL

\* The completed days of backfill_state.json are in the cloud in every required
\* version, for any number of backfills that share the file.
THEOREM ResumeBacked == Spec => []ResumePositionIsBacked
<1>1. IInv => ResumePositionIsBacked
  BY DEF IInv
<1> QED
  BY <1>1, PushInvariance, PTL

\* in_progress is false only over a range that is in the cloud as a whole.
THEOREM ReleaseComplete == Spec => []ReleasedIsComplete
<1>1. IInv => ReleasedIsComplete
  BY DEF IInv
<1> QED
  BY <1>1, PushInvariance, PTL

-----------------------------------------------------------------------------
(* The retry queue with one process at a time.  With two of them the        *)
(* property is false: they write the queue over each other.                 *)

OneProcess == \A p, q \in Procs : p = q

PointsAt(Q, y) == y.index \in 1..Len(Q) /\ Q[y.index].payload = y.payload

\* What a process r remembers of the queue Q, and of the payloads S in the cloud.
CopyOK(Q, S, r) ==
  /\ r.pc \in {"enqueueWrite", "markWrite"} => r.buf = Q
  /\ r.pc \in {"retry", "markRead", "markWrite"} => \A y \in r.due : PointsAt(Q, y)
  /\ r.pc \in {"markRead", "markWrite"} =>
       /\ r.index \in 1..Len(Q)
       /\ \A y \in r.due : y.index < r.index
       /\ r.sent => Q[r.index].payload \in S

CopyInv == \A p \in Procs : CopyOK(queue, stored, proc[p])

Forgetful == {"idle", "send", "enqueueRead", "due", "lock", "init", "batch", "halt"}

LEMMA StepKeepsCopy ==
  ASSUME OneProcess, TypeOK, NEW p \in Procs, NEW r, Step(p, r),
         CopyOK(queue', stored', r)
  PROVE  CopyInv'
<1>1. proc' = [proc EXCEPT ![p] = r] /\ proc \in [Procs -> ProcState]
  BY DEF Step, TypeOK
<1>2. \A q \in Procs : proc'[q] = r
  BY <1>1 DEF OneProcess
<1> QED
  BY <1>2 DEF CopyInv

LEMMA ForgetfulKeepsCopy ==
  ASSUME OneProcess, TypeOK, NEW p \in Procs, NEW r, Step(p, r), r.pc \in Forgetful
  PROVE  CopyInv'
<1>1. CopyOK(queue', stored', r)
  BY DEF CopyOK, Forgetful
<1> QED
  BY <1>1, StepKeepsCopy

\* After an export the process remembers nothing of the queue.
LEMMA AfterExportForgets ==
  ASSUME NEW r \in ProcState, r.kind # "none", NEW result \in BOOLEAN
  PROVE  AfterExport(r, result).pc \in Forgetful
<1>1. r.kind \in AllKinds
  BY DEF ProcState
<1>2. \A d : BeginExport(r, d).pc = "send"
  BY DEF BeginExport, ProcState
<1>3. CASE r.kind = "cron"
  BY <1>3 DEF AfterExport, Idle, Forgetful
<1>4. CASE r.kind = "command"
  BY <1>4 DEF AfterExport, Idle, Forgetful
<1>5. CASE r.kind = "backfill"
  <2>1. /\ [r EXCEPT !.pc = "halt"].pc = "halt"
        /\ \A n : [r EXCEPT !.pc = "batch", !.completed = n].pc = "batch"
    BY DEF ProcState
  <2> QED
    BY <1>2, <1>5, <2>1 DEF AfterExport, Forgetful
<1> QED
  BY <1>1, <1>3, <1>4, <1>5 DEF AllKinds

\* Taking the item at i out of a queue moves those behind it and no other.
LEMMA WithoutElements ==
  ASSUME NEW q \in Seq(Item), NEW i \in 1..Len(q)
  PROVE  /\ Len(Without(q, i)) = Len(q) - 1
         /\ \A k \in 1..(i - 1) : Without(q, i)[k] = q[k]
         /\ \A k \in (i + 1)..Len(q) : Without(q, i)[k - 1] = q[k]
<1> DEFINE a == SubSeq(q, 1, i - 1)
           b == SubSeq(q, i + 1, Len(q))
<1>1. Len(q) \in Nat /\ \A j \in 1..Len(q) : q[j] \in Item
  BY ElementOfSeq
<1>2. /\ a \in Seq(Item) /\ Len(a) = i - 1
      /\ \A k \in 1..(i - 1) : a[k] = q[k]
  BY <1>1, SubSeqProperties
<1>3. /\ b \in Seq(Item) /\ Len(b) = Len(q) - i
      /\ \A k \in 1..(Len(q) - i) : b[k] = q[i + k]
  BY <1>1, SubSeqProperties
<1>4. Without(q, i) = a \o b
  BY DEF Without
<1> HIDE DEF a, b
<1>5. /\ Len(a \o b) = Len(a) + Len(b)
      /\ \A k \in 1..(Len(a) + Len(b)) :
           (a \o b)[k] = IF k <= Len(a) THEN a[k] ELSE b[k - Len(a)]
  BY <1>2, <1>3, ConcatProperties
<1>6. ASSUME NEW k \in 1..(i - 1) PROVE (a \o b)[k] = q[k]
  BY <1>1, <1>2, <1>3, <1>5, <1>6
<1>7. ASSUME NEW k \in (i + 1)..Len(q) PROVE (a \o b)[k - 1] = q[k]
  <2>1. /\ k - 1 \in 1..(Len(a) + Len(b)) /\ ~(k - 1 <= Len(a))
        /\ (k - 1) - Len(a) = k - i /\ k - i \in 1..(Len(q) - i)
    BY <1>1, <1>2, <1>3
  <2>2. i + (k - i) = k
    BY <1>1
  <2>3. (a \o b)[k - 1] = b[k - i]
    BY <1>5, <2>1
  <2>4. b[k - i] = q[i + (k - i)]
    BY <1>3, <2>1
  <2> QED
    BY <2>2, <2>3, <2>4
<1> QED
  BY <1>1, <1>2, <1>3, <1>4, <1>5, <1>6, <1>7

\* The queue m after the item of q at i was marked: the items before it are in
\* their places, and every payload but that of an item sent or exhausted is there.
KeepsOthers(q, i, sent, m) ==
  /\ \A k \in 1..(i - 1) : k \in 1..Len(m) /\ m[k].payload = q[k].payload
  /\ \A k \in 1..Len(q) :
       \/ \E n \in 1..Len(m) : m[n].payload = q[k].payload
       \/ k = i /\ (sent \/ q[i].attempts + 1 >= MaxRetries)

LEMMA MarkedElements ==
  ASSUME NEW q \in Seq(Item), NEW i \in 1..Len(q), NEW sent \in BOOLEAN
  PROVE  KeepsOthers(q, i, sent, Marked(q, i, sent))
<1> DEFINE m == Marked(q, i, sent)
<1>1. Len(q) \in Nat /\ \A j \in 1..Len(q) : q[j] \in Item
  BY ElementOfSeq
<1>2. CASE sent \/ q[i].attempts + 1 >= MaxRetries
  <2>1. m = Without(q, i)
    BY <1>2 DEF Marked
  <2> HIDE DEF m
  <2>2. /\ Len(m) = Len(q) - 1
        /\ \A k \in 1..(i - 1) : m[k] = q[k]
        /\ \A k \in (i + 1)..Len(q) : m[k - 1] = q[k]
    BY <2>1, WithoutElements
  <2>3. ASSUME NEW k \in 1..(i - 1)
        PROVE  k \in 1..Len(m) /\ m[k].payload = q[k].payload
    BY <1>1, <2>2
  <2>4. ASSUME NEW k \in 1..Len(q), k # i
        PROVE  \E n \in 1..Len(m) : m[n].payload = q[k].payload
    <3>1. CASE k < i
      BY <1>1, <2>3, <3>1
    <3>2. CASE k > i
      <4>1. k \in (i + 1)..Len(q) /\ k - 1 \in 1..Len(m)
        BY <1>1, <2>2, <3>2
      <4> QED
        BY <2>2, <4>1
    <3> QED
      BY <1>1, <2>4, <3>1, <3>2
  <2> QED
    BY <1>2, <2>3, <2>4 DEF m, KeepsOthers
<1>3. CASE ~(sent \/ q[i].attempts + 1 >= MaxRetries)
  <2>1. m = [q EXCEPT ![i].attempts = @ + 1]
    BY <1>3 DEF Marked
  <2> HIDE DEF m
  <2>2. Len(m) = Len(q)
    BY <1>1, <2>1
  <2>3. \A k \in 1..Len(q) : m[k].payload = q[k].payload
    <3> DEFINE item == [q[i] EXCEPT !.attempts = @ + 1]
    <3>1. item.payload = q[i].payload
      BY <1>1 DEF Item
    <3>2. m = [q EXCEPT ![i] = item]
      BY <2>1
    <3> HIDE DEF item
    <3> QED
      BY <1>1, <3>1, <3>2
  <2> QED
    BY <1>1, <2>2, <2>3 DEF m, KeepsOthers
<1> QED
  BY <1>2, <1>3

\* With one process and reads that succeed its copy of the queue is the queue.
LEMMA CopyStep ==
  ASSUME AgentPushAssumption, OneProcess, ~ReadsFail, IInv, CopyInv, [Next]_vars
  PROVE  CopyInv'
<1> USE DEF IInv
<1>1. ASSUME NEW p \in Procs, StartRun(p) PROVE CopyInv'
  <2>1. /\ \A k, d : BeginExport([Idle EXCEPT !.kind = k], d).pc = "send"
        /\ \A s, e : [Idle EXCEPT !.pc = "lock", !.kind = "backfill", !.from = s,
                                  !.to = e].pc = "lock"
    BY DEF BeginExport, Idle
  <2>2. PICK r : Step(p, r) /\ r.pc \in {"send", "lock"}
    BY <1>1, <2>1 DEF StartRun, Cron, TriggerExport, Backfill
  <2> QED
    BY <2>2, ForgetfulKeepsCopy DEF Forgetful
<1>2. ASSUME NEW p \in Procs, Send(p) PROVE CopyInv'
  <2>1. proc[p] \in ProcState /\ proc[p].kind # "none"
    BY <1>2 DEF Send, TypeOK, LocalsAreTrue, ProcOK, Exporting
  <2>2. /\ [proc[p] EXCEPT !.version = "v1"].pc = proc[p].pc
        /\ [proc[p] EXCEPT !.pc = "enqueueRead"].pc = "enqueueRead"
    BY <2>1 DEF ProcState
  <2>3. AfterExport(proc[p], TRUE).pc \in Forgetful
    BY <2>1, AfterExportForgets
  <2>4. PICK r : Step(p, r) /\ r.pc \in Forgetful
    BY <1>2, <2>2, <2>3 DEF Send, Forgetful
  <2> QED
    BY <2>4, ForgetfulKeepsCopy
<1>3. ASSUME NEW p \in Procs, EnqueueRead(p) PROVE CopyInv'
  <2> DEFINE r == [proc[p] EXCEPT !.pc = "enqueueWrite", !.buf = queue]
  <2>1. Step(p, r) /\ queue' = queue
    BY <1>3 DEF EnqueueRead, Readable
  <2>2. proc[p] \in ProcState
    BY DEF TypeOK
  <2>3. r.pc = "enqueueWrite" /\ r.buf = queue
    BY <2>2 DEF ProcState
  <2> HIDE DEF r
  <2>4. CopyOK(queue', stored', r)
    BY <2>1, <2>3 DEF CopyOK
  <2> QED
    BY <2>1, <2>4, StepKeepsCopy
<1>4. ASSUME NEW p \in Procs, EnqueueWrite(p) PROVE CopyInv'
  <2> DEFINE b == [proc[p] EXCEPT !.buf = <<>>]
  <2>1. <<>> \in Seq(Item)
    OBVIOUS
  <2>2. proc[p] \in ProcState /\ proc[p].kind # "none"
    BY <1>4 DEF EnqueueWrite, TypeOK, LocalsAreTrue, ProcOK, Exporting
  <2>3. b \in ProcState /\ b.kind = proc[p].kind
    BY <2>1, <2>2 DEF ProcState
  <2>4. Step(p, AfterExport(b, FALSE))
    BY <1>4 DEF EnqueueWrite
  <2> HIDE DEF b
  <2> QED
    BY <2>2, <2>3, <2>4, AfterExportForgets, ForgetfulKeepsCopy
<1>5. ASSUME NEW p \in Procs, GetDueItems(p) PROVE CopyInv'
  <2>1. PICK D \in SUBSET (1..Len(queue)) :
          Step(p, IF D = {} THEN Idle
                  ELSE [proc[p] EXCEPT !.pc = "retry", !.due =
                          {[index |-> i, payload |-> queue[i].payload] : i \in D}])
    BY <1>5 DEF GetDueItems
  <2> DEFINE due == {[index |-> i, payload |-> queue[i].payload] : i \in D}
             r == [proc[p] EXCEPT !.pc = "retry", !.due = due]
  <2>2. \A y \in due : PointsAt(queue, y)
    BY DEF PointsAt
  <2> HIDE DEF due
  <2>3. proc[p] \in ProcState /\ queue' = queue
    BY <1>5 DEF TypeOK, GetDueItems
  <2>4. r.pc = "retry" /\ r.due = due
    BY <2>3 DEF ProcState
  <2>5. Step(p, Idle) \/ Step(p, r)
    BY <2>1 DEF due
  <2> HIDE DEF r
  <2>6. CopyOK(queue', stored', r)
    BY <2>2, <2>3, <2>4 DEF CopyOK
  <2>7. Idle.pc \in Forgetful
    BY DEF Idle, Forgetful
  <2> QED
    BY <2>5, <2>6, <2>7, StepKeepsCopy, ForgetfulKeepsCopy
<1>6. ASSUME NEW p \in Procs, Retry(p) PROVE CopyInv'
  <2> DEFINE c == proc[p]
  <2>1. PICK x \in c.due, answer \in Answers :
          /\ IsNext(x, c.due)
          /\ Post(x.payload, answer)
          /\ Step(p, [c EXCEPT !.pc = "markRead", !.due = @ \ {x},
                               !.index = x.index, !.sent = answer = "ok"])
    BY <1>6 DEF Retry
  <2>2. c \in ProcState /\ c.pc = "retry" /\ queue' = queue /\ CopyOK(queue, stored, c)
    BY <1>6 DEF TypeOK, Retry, CopyInv
  <2>3. c.due \subseteq Due /\ \A y \in c.due : PointsAt(queue, y)
    BY <2>2 DEF ProcState, CopyOK
  <2> DEFINE sent == answer = "ok"
             r == [c EXCEPT !.pc = "markRead", !.due = @ \ {x},
                            !.index = x.index, !.sent = sent]
  <2>4. sent => x.payload \in stored'
    BY <2>1 DEF Post
  <2>5. Step(p, r)
    BY <2>1
  <2> HIDE DEF sent
  <2>6. /\ r.pc = "markRead" /\ r.due = c.due \ {x} /\ r.index = x.index
        /\ r.sent = sent
    BY <2>2 DEF ProcState
  <2> HIDE DEF r
  <2>7. ASSUME NEW y \in c.due \ {x} PROVE y.index < x.index
    <3>1. y.index \in Nat /\ x.index \in Nat /\ y.index <= x.index
      BY <2>1, <2>3 DEF Due, IsNext
    <3>2. CASE y.index = x.index
      <4>1. y.payload = x.payload
        BY <2>3, <3>2 DEF PointsAt
      <4>2. y = x
        BY <2>3, <3>2, <4>1 DEF Due
      <4> QED
        BY <4>2
    <3> QED
      BY <3>1, <3>2
  <2>8. CopyOK(queue', stored', r)
    BY <2>2, <2>3, <2>4, <2>6, <2>7 DEF CopyOK, PointsAt
  <2> QED
    BY <2>5, <2>8, StepKeepsCopy
<1>7. ASSUME NEW p \in Procs, MarkRead(p) PROVE CopyInv'
  <2> DEFINE c == proc[p]
             r == [c EXCEPT !.pc = "markWrite", !.buf = queue]
  <2>1. /\ c \in ProcState /\ c.pc = "markRead" /\ CopyOK(queue, stored, c)
        /\ queue' = queue /\ stored' = stored
    BY <1>7 DEF TypeOK, MarkRead, CopyInv
  <2>2. c.index \in 1..Len(queue)
    BY <2>1 DEF CopyOK
  <2>3. Step(p, r)
    BY <1>7, <2>2 DEF MarkRead, Readable
  <2>4. /\ r.pc = "markWrite" /\ r.buf = queue /\ r.due = c.due
        /\ r.index = c.index /\ r.sent = c.sent
    BY <2>1 DEF ProcState
  <2> HIDE DEF r
  <2>5. CopyOK(queue', stored', r)
    BY <2>1, <2>4 DEF CopyOK
  <2> QED
    BY <2>3, <2>5, StepKeepsCopy
<1>8. ASSUME NEW p \in Procs, MarkWrite(p) PROVE CopyInv'
  <2> DEFINE c == proc[p]
             m == Marked(queue, c.index, c.sent)
  <2>1. /\ c \in ProcState /\ c.pc = "markWrite" /\ CopyOK(queue, stored, c)
        /\ queue \in Seq(Item) /\ Step(p, AfterMark(c))
    BY <1>8 DEF TypeOK, MarkWrite, CopyInv
  <2>2. /\ c.buf = queue /\ c.index \in 1..Len(queue) /\ c.sent \in BOOLEAN
        /\ \A y \in c.due : PointsAt(queue, y) /\ y.index < c.index
    BY <2>1 DEF CopyOK, ProcState
  <2>3. queue' \in {queue, m}
    BY <1>8, <2>2 DEF MarkWrite, Written
  <2>4. \A k \in 1..(c.index - 1) : k \in 1..Len(m) /\ m[k].payload = queue[k].payload
    BY <2>1, <2>2, MarkedElements DEF KeepsOthers
  <2> HIDE DEF m
  <2>5. ASSUME NEW y \in c.due PROVE PointsAt(queue', y)
    <3>1. y.index \in 1..(c.index - 1) /\ PointsAt(queue, y)
      <4>1. Len(queue) \in Nat
        BY <2>1
      <4> QED
        BY <2>2, <4>1 DEF PointsAt
    <3> QED
      BY <2>3, <2>4, <3>1 DEF PointsAt
  <2> DEFINE n == [Idle EXCEPT !.pc = "retry", !.kind = c.kind, !.due = c.due]
  <2>6. n.pc = "retry" /\ n.due = c.due /\ Idle.pc \in Forgetful
    BY DEF Idle, Forgetful
  <2>7. Step(p, Idle) \/ Step(p, n)
    BY <2>1 DEF AfterMark
  <2> HIDE DEF n
  <2>8. CopyOK(queue', stored', n)
    BY <2>5, <2>6 DEF CopyOK
  <2> QED
    BY <2>6, <2>7, <2>8, StepKeepsCopy, ForgetfulKeepsCopy
<1>9. ASSUME NEW p \in Procs,
             BackfillLock(p) \/ BackfillInit(p) \/ BackfillBatch(p) \/ BackfillHalt(p)
             \/ Killed(p)
      PROVE  CopyInv'
  <2>1. proc[p] \in ProcState
    BY DEF TypeOK
  <2>2. /\ [proc[p] EXCEPT !.pc = "init"].pc = "init"
        /\ [proc[p] EXCEPT !.pc = "batch"].pc = "batch"
        /\ \A d : BeginExport(proc[p], d).pc = "send"
        /\ Idle.pc = "idle"
    BY <2>1 DEF ProcState, BeginExport, Idle
  <2>3. PICK r : Step(p, r) /\ r.pc \in {"idle", "init", "batch", "send"}
    BY <1>9, <2>2
    DEF BackfillLock, BackfillInit, BackfillBatch, BackfillHalt, Killed
  <2> QED
    BY <2>3, ForgetfulKeepsCopy DEF Forgetful
<1>10. CASE UNCHANGED vars
  BY <1>10 DEF vars, CopyInv
<1> QED
  BY <1>1, <1>2, <1>3, <1>4, <1>5, <1>6, <1>7, <1>8, <1>9, <1>10
  DEF Next, ExportStep

\* With one process at a time and a queue file that can be read, a payload leaves
\* the retry queue only when the cloud has it or its last attempt failed, whatever
\* writes fail and wherever the process is killed.
THEOREM QueueLosesNothing ==
  ASSUME OneProcess, ~ReadsFail
  PROVE  Spec => LeavesDeliveredOrExhausted
<1> DEFINE Leaves ==
      \A x \in QueuedPayloads \ QueuedPayloads' :
        \/ x \in stored
        \/ \E i \in 1..Len(queue) :
             queue[i].payload = x /\ queue[i].attempts + 1 >= MaxRetries
<1>1. Init => CopyInv
  <2>1. Idle.pc = "idle"
    BY DEF Idle
  <2> QED
    BY <2>1 DEF Init, CopyInv, CopyOK
<1>2. IInv /\ CopyInv /\ [Next]_vars => CopyInv'
  BY CopyStep, AgentPushAssumption
<1>3. ASSUME IInv, CopyInv, [Next]_vars PROVE Leaves
  <2>1. queue \in Seq(Item) /\ \A p \in Procs : proc[p] \in ProcState
    BY <1>3 DEF IInv, TypeOK
  <2>2. ASSUME queue' = queue PROVE Leaves
    BY <2>2 DEF QueuedPayloads
  <2>3. ASSUME NEW p \in Procs, EnqueueWrite(p) PROVE Leaves
    <3> DEFINE item == [payload  |-> [version |-> proc[p].version,
                                      date |-> proc[p].date],
                        attempts |-> 0]
    <3>1. proc[p].buf = queue
      BY <1>3, <2>3 DEF CopyInv, CopyOK, EnqueueWrite
    <3>2. queue' \in {queue, Append(queue, item)}
      BY <2>3, <3>1 DEF EnqueueWrite, Written
    <3> HIDE DEF item
    <3>3. \A k \in 1..Len(queue) : k \in 1..Len(queue') /\ queue'[k] = queue[k]
      BY <2>1, <3>2
    <3> QED
      BY <3>3 DEF QueuedPayloads
  <2>4. ASSUME NEW p \in Procs, MarkWrite(p) PROVE Leaves
    <3> DEFINE i == proc[p].index
               sent == proc[p].sent
               m == Marked(queue, i, sent)
    <3>1. /\ proc[p].buf = queue /\ i \in 1..Len(queue) /\ sent \in BOOLEAN
          /\ sent => queue[i].payload \in stored
      BY <1>3, <2>1, <2>4 DEF CopyInv, CopyOK, MarkWrite, ProcState
    <3>2. queue' \in {queue, m}
      BY <2>4, <3>1 DEF MarkWrite, Written
    <3> HIDE DEF i, sent
    <3>3. \A k \in 1..Len(queue) :
            \/ \E n \in 1..Len(m) : m[n].payload = queue[k].payload
            \/ k = i /\ (sent \/ queue[i].attempts + 1 >= MaxRetries)
      <4>1. KeepsOthers(queue, i, sent, m)
        BY <2>1, <3>1, MarkedElements
      <4> HIDE DEF m
      <4> QED
        BY <4>1 DEF KeepsOthers
    <3> HIDE DEF m
    <3>4. CASE queue' = m
      <4> SUFFICES ASSUME NEW k \in 1..Len(queue),
                          queue[k].payload \notin QueuedPayloads'
                   PROVE  \/ queue[k].payload \in stored
                          \/ queue[k].attempts + 1 >= MaxRetries
        BY DEF QueuedPayloads
      <4>1. ~\E n \in 1..Len(m) : m[n].payload = queue[k].payload
        BY <3>4 DEF QueuedPayloads
      <4> QED
        BY <3>1, <3>3, <4>1
    <3> QED
      BY <2>2, <3>2, <3>4
  <2>5. \/ queue' = queue
        \/ \E p \in Procs : EnqueueWrite(p) \/ MarkWrite(p)
    BY <1>3 DEF Next, ExportStep, StartRun, Killed, Send, EnqueueRead, GetDueItems,
                Retry, MarkRead, BackfillLock, BackfillInit, BackfillBatch,
                BackfillHalt, vars
  <2> QED
    BY <2>2, <2>3, <2>4, <2>5
<1>4. IInv /\ CopyInv /\ [Next]_vars => [Leaves]_vars
  BY <1>3
<1> QED
  BY <1>1, <1>2, <1>4, PushInvariance, PTL DEF Spec, LeavesDeliveredOrExhausted

-----------------------------------------------------------------------------
(* The queue as an outbox: how often each item is in it. *)

\* Where an item is in the queue.
Places(q, x) == {i \in 1..Len(q) : q[i] = x}

\* The copies of an item are its places, counted.
LEMMA PlacesFinite ==
  ASSUME NEW q \in Seq(Item), NEW x
  PROVE  /\ IsFiniteSet(Places(q, x)) /\ Copies(q, x) = Cardinality(Places(q, x))
         /\ Copies(q, x) \in Nat
<1>1. Len(q) \in Nat
  OBVIOUS
<1>2. IsFiniteSet(1..Len(q))
  BY <1>1, FS_Interval
<1>3. IsFiniteSet(Places(q, x))
  BY <1>2, FS_Subset DEF Places
<1> QED
  BY <1>3, FS_CardinalityType DEF Copies, Places

\* An item appended is counted once more.
LEMMA CopiesAppend ==
  ASSUME NEW q \in Seq(Item), NEW y \in Item, NEW x
  PROVE  Copies(Append(q, y), x) = Copies(q, x) + (IF x = y THEN 1 ELSE 0)
<1> DEFINE n == Len(q) + 1
           a == Append(q, y)
<1>1. /\ Len(q) \in Nat /\ a \in Seq(Item) /\ Len(a) = n /\ a[n] = y
      /\ \A i \in 1..Len(q) : a[i] = q[i]
  BY AppendProperties
<1>2. Places(a, x) = IF x = y THEN Places(q, x) \cup {n} ELSE Places(q, x)
  <2> HIDE DEF a
  <2> QED
    BY <1>1 DEF Places
<1>3. n \notin Places(q, x)
  BY <1>1 DEF Places
<1> HIDE DEF a, n
<1>6. /\ Copies(a, x) = Cardinality(Places(a, x))
      /\ Copies(q, x) = Cardinality(Places(q, x)) /\ Copies(q, x) \in Nat
  BY <1>1, PlacesFinite
<1>4. CASE x = y
  <2>1. Cardinality(Places(q, x) \cup {n}) = Cardinality(Places(q, x)) + 1
    BY <1>3, PlacesFinite, FS_AddElement
  <2> QED
    BY <1>1, <1>2, <1>4, <1>6, <2>1 DEF a
<1>5. CASE x # y
  BY <1>1, <1>2, <1>5, <1>6 DEF a
<1> QED
  BY <1>4, <1>5

\* What is behind the item that is taken out moves up by one.
LEMMA CopiesWithout ==
  ASSUME NEW q \in Seq(Item), NEW i \in 1..Len(q), NEW x
  PROVE  Copies(Without(q, i), x) = Copies(q, x) - (IF x = q[i] THEN 1 ELSE 0)
<1> DEFINE w == Without(q, i)
           S == Places(q, x) \ {i}
           T == Places(w, x)
           f == [k \in S |-> IF k < i THEN k ELSE k - 1]
<1>1. /\ w \in Seq(Item) /\ Len(q) \in Nat /\ Len(w) = Len(q) - 1 /\ i \in Nat
      /\ \A k \in 1..(i - 1) : w[k] = q[k]
      /\ \A k \in (i + 1)..Len(q) : w[k - 1] = q[k]
  <2>1. Len(q) \in Nat
    OBVIOUS
  <2>2. i \in Nat
    BY <2>1
  <2>3. w \in Seq(Item)
    BY WithoutType
  <2> QED
    BY <2>1, <2>2, <2>3, WithoutElements
<1> HIDE DEF w
<1>2. ASSUME NEW k \in S
      PROVE  f[k] \in T /\ (f[k] < i <=> k < i) /\ k \in Nat
             /\ f[k] = IF k < i THEN k ELSE k - 1
  <2>0. f[k] = IF k < i THEN k ELSE k - 1
    OBVIOUS
  <2>1. k \in 1..Len(q) /\ k # i /\ q[k] = x /\ k \in Nat
    BY <1>1 DEF Places
  <2> HIDE DEF f, S
  <2>2. CASE k < i
    <3>1. k \in 1..(i - 1) /\ k \in 1..Len(w)
      BY <1>1, <2>1, <2>2
    <3>2. f[k] = k /\ f[k] \in T
      BY <1>1, <2>0, <2>1, <2>2, <3>1 DEF Places
    <3> QED
      BY <2>0, <2>1, <2>2, <3>2
  <2>3. CASE ~(k < i)
    <3>1. k \in (i + 1)..Len(q) /\ k - 1 \in 1..Len(w) /\ ~(k - 1 < i)
      BY <1>1, <2>1, <2>3
    <3>2. w[k - 1] = x
      BY <1>1, <2>1, <3>1
    <3>3. f[k] = k - 1 /\ f[k] \in T
      BY <2>0, <2>3, <3>1, <3>2 DEF Places
    <3> QED
      BY <2>0, <2>1, <2>3, <3>1, <3>3
  <2> QED
    BY <2>2, <2>3
<1>3. ASSUME NEW t \in T PROVE \E k \in S : f[k] = t
  <2>1. t \in 1..Len(w) /\ w[t] = x
    BY DEF Places
  <2>2. CASE t < i
    <3>1. t \in 1..(i - 1) /\ t \in 1..Len(q)
      BY <1>1, <2>1, <2>2
    <3>2. t \in S
      BY <1>1, <2>1, <2>2, <3>1 DEF Places
    <3> QED
      BY <2>2, <3>2
  <2>3. CASE ~(t < i)
    <3>1. t + 1 \in (i + 1)..Len(q) /\ t + 1 \in 1..Len(q) /\ (t + 1) - 1 = t
      BY <1>1, <2>1, <2>3
    <3>2. q[t + 1] = x
      BY <1>1, <2>1, <3>1
    <3>3. t + 1 \in S
      BY <1>1, <2>3, <3>1, <3>2 DEF Places
    <3>4. f[t + 1] = t
      BY <1>1, <2>3, <3>1, <3>3
    <3> QED
      BY <3>3, <3>4
  <2> QED
    BY <2>2, <2>3
<1>4. ASSUME NEW a \in S, NEW b \in S, f[a] = f[b] PROVE a = b
  <2>1. /\ f[a] = IF a < i THEN a ELSE a - 1
        /\ f[b] = IF b < i THEN b ELSE b - 1
        /\ (f[a] < i <=> a < i) /\ (f[b] < i <=> b < i)
        /\ a \in Nat /\ b \in Nat
    BY <1>2
  <2>2. (a < i <=> b < i) /\ f[a] = f[b]
    BY <1>4, <2>1
  <2> HIDE DEF f, S
  <2> QED
    BY <2>1, <2>2
<1>5. f \in Bijection(S, T)
  <2>1. f \in [S -> T]
    <3>1. \A k \in S : f[k] \in T
      BY <1>2
    <3> HIDE DEF T, S
    <3> QED
      BY <3>1
  <2> HIDE DEF f, S, T
  <2>2. f \in Injection(S, T)
    BY <1>4, <2>1 DEF Injection, IsInjective
  <2>3. f \in Surjection(S, T)
    BY <1>3, <2>1 DEF Surjection
  <2> QED
    BY <2>2, <2>3 DEF Bijection
<1>6. IsFiniteSet(S) /\ Cardinality(S) = Copies(q, x) - (IF x = q[i] THEN 1 ELSE 0)
  <2>1. i \in Places(q, x) <=> x = q[i]
    BY DEF Places
  <2> QED
    BY <2>1, PlacesFinite, FS_RemoveElement
<1>7. Cardinality(T) = Cardinality(S)
  <2> HIDE DEF f, S, T
  <2> QED
    BY <1>5, <1>6, FS_Bijection DEF ExistsBijection
<1>8. Copies(w, x) = Cardinality(T)
  BY <1>1, PlacesFinite
<1> QED
  BY <1>6, <1>7, <1>8 DEF w

\* An item that is written in the place of another is counted in its stead.
LEMMA CopiesExcept ==
  ASSUME NEW q \in Seq(Item), NEW i \in 1..Len(q), NEW y \in Item, y # q[i], NEW x
  PROVE  Copies([q EXCEPT ![i] = y], x) =
           IF x = y THEN Copies(q, x) + 1 ELSE IF x = q[i] THEN Copies(q, x) - 1
           ELSE Copies(q, x)
<1> DEFINE e == [q EXCEPT ![i] = y]
<1>1. /\ e \in Seq(Item) /\ Len(e) = Len(q)
      /\ \A j \in 1..Len(q) : e[j] = IF j = i THEN y ELSE q[j]
  BY ExceptSeq
<1> HIDE DEF e
<1>2. /\ x = y => Places(e, x) = Places(q, x) \cup {i} /\ i \notin Places(q, x)
      /\ x = q[i] => Places(e, x) = Places(q, x) \ {i} /\ i \in Places(q, x)
      /\ x # y /\ x # q[i] => Places(e, x) = Places(q, x)
  BY <1>1 DEF Places
<1>3. /\ Copies(e, x) = Cardinality(Places(e, x)) /\ Copies(q, x) = Cardinality(Places(q, x))
      /\ IsFiniteSet(Places(q, x))
  BY <1>1, PlacesFinite
<1>4. CASE x = y
  BY <1>2, <1>3, <1>4, FS_AddElement DEF e
<1>5. CASE x = q[i]
  BY <1>2, <1>3, <1>5, FS_RemoveElement DEF e
<1>6. CASE x # y /\ x # q[i]
  BY <1>2, <1>3, <1>6 DEF e
<1> QED
  BY <1>4, <1>5, <1>6

\* An item that is in the queue is counted.
LEMMA CopiesPositive ==
  ASSUME NEW q \in Seq(Item), NEW i \in 1..Len(q)
  PROVE  Copies(q, q[i]) > 0
<1>1. i \in Places(q, q[i])
  BY DEF Places
<1>2. Cardinality(Places(q, q[i])) # 0
  BY <1>1, PlacesFinite, FS_EmptySet
<1> QED
  BY <1>2, PlacesFinite

LEMMA KeptIsItem == Kept \subseteq Item
<1>1. 0 .. MaxRetries - 1 \subseteq Nat
  OBVIOUS
<1> QED
  BY <1>1 DEF Kept, Item

\* No item of the file has used up its attempts.
AllKept(q) == \A i \in 1..Len(q) : q[i] \in Kept
FileIsKept == AllKept(queue)

\* What the three ways to write the queue do to the count of its items.
Owed(q) == [x \in Kept |-> Copies(q, x)]

LEMMA OwedAppend ==
  ASSUME NEW q \in Seq(Item), NEW y \in Kept, AllKept(q)
  PROVE  /\ AllKept(Append(q, y))
         /\ Owed(Append(q, y)) = [Owed(q) EXCEPT ![y] = @ + 1]
<1>0. y \in Item
  BY KeptIsItem
<1> DEFINE a == Append(q, y)
<1>1. /\ a \in Seq(Item) /\ Len(q) \in Nat /\ Len(a) = Len(q) + 1
      /\ \A i \in 1..Len(q) : a[i] = q[i]
      /\ a[Len(q) + 1] = y
  BY <1>0, AppendProperties
<1>2. \A x : Copies(a, x) = Copies(q, x) + (IF x = y THEN 1 ELSE 0)
  BY <1>0, CopiesAppend
<1>3. \A x : Copies(q, x) \in Nat
  BY PlacesFinite
<1> HIDE DEF a
<1>4. AllKept(a)
  BY <1>1 DEF AllKept
<1>5. \A x \in Kept : Copies(a, x) = IF x = y THEN Copies(q, x) + 1 ELSE Copies(q, x)
  BY <1>2, <1>3
<1>6. Owed(a) = [Owed(q) EXCEPT ![y] = @ + 1]
  BY <1>5 DEF Owed
<1> QED
  BY <1>4, <1>6 DEF a

LEMMA OwedWithout ==
  ASSUME NEW q \in Seq(Item), NEW i \in 1..Len(q), AllKept(q)
  PROVE  /\ AllKept(Without(q, i))
         /\ Owed(Without(q, i)) = [Owed(q) EXCEPT ![q[i]] = @ - 1]
<1> DEFINE w == Without(q, i)
<1>1. /\ Len(q) \in Nat /\ Len(w) = Len(q) - 1
      /\ \A k \in 1..(i - 1) : w[k] = q[k]
      /\ \A k \in (i + 1)..Len(q) : w[k - 1] = q[k]
  BY WithoutElements
<1>2. \A x : Copies(w, x) = Copies(q, x) - (IF x = q[i] THEN 1 ELSE 0)
  BY CopiesWithout
<1>3. \A x : Copies(q, x) \in Nat
  BY PlacesFinite
<1> HIDE DEF w
<1>4. ASSUME NEW k \in 1..Len(w) PROVE w[k] \in Kept
  <2>1. CASE k < i
    BY <1>1, <2>1 DEF AllKept
  <2>2. CASE ~(k < i)
    <3>1. k + 1 \in (i + 1)..Len(q) /\ k + 1 \in 1..Len(q) /\ (k + 1) - 1 = k
      BY <1>1, <2>2
    <3>2. w[k] = q[k + 1]
      BY <1>1, <3>1
    <3> QED
      BY <3>1, <3>2 DEF AllKept
  <2> QED
    BY <2>1, <2>2
<1>5. \A x \in Kept : Copies(w, x) = IF x = q[i] THEN Copies(q, x) - 1 ELSE Copies(q, x)
  BY <1>2, <1>3
<1>6. Owed(w) = [Owed(q) EXCEPT ![q[i]] = @ - 1]
  BY <1>5 DEF Owed
<1> QED
  BY <1>4, <1>6 DEF w, AllKept

LEMMA OwedExcept ==
  ASSUME NEW q \in Seq(Item), NEW i \in 1..Len(q), AllKept(q),
         NEW y \in Kept, y # q[i]
  PROVE  /\ AllKept([q EXCEPT ![i] = y])
         /\ Owed([q EXCEPT ![i] = y]) = [Owed(q) EXCEPT ![q[i]] = @ - 1, ![y] = @ + 1]
<1>0. y \in Item
  BY KeptIsItem
<1> DEFINE e == [q EXCEPT ![i] = y]
<1>1. /\ Len(e) = Len(q)
      /\ \A j \in 1..Len(q) : e[j] = IF j = i THEN y ELSE q[j]
  BY <1>0, ExceptSeq
<1>2. \A x : Copies(e, x) = IF x = y THEN Copies(q, x) + 1
                            ELSE IF x = q[i] THEN Copies(q, x) - 1 ELSE Copies(q, x)
  BY <1>0, CopiesExcept
<1> HIDE DEF e
<1>3. AllKept(e)
  BY <1>1 DEF AllKept
<1>4. Owed(e) = [Owed(q) EXCEPT ![q[i]] = @ - 1, ![y] = @ + 1]
  BY <1>2 DEF Owed
<1> QED
  BY <1>3, <1>4 DEF e

\* markSuccess and markFailed settle the item, count one attempt more, or give it up.
LEMMA OwedMarked ==
  ASSUME AgentPushAssumption, NEW q \in Seq(Item), NEW i \in 1..Len(q), AllKept(q),
         NEW sent \in BOOLEAN
  PROVE  /\ AllKept(Marked(q, i, sent))
         /\ \/ /\ sent \/ q[i].attempts + 1 = MaxRetries
               /\ Owed(Marked(q, i, sent)) = [Owed(q) EXCEPT ![q[i]] = @ - 1]
            \/ /\ q[i].attempts + 1 < MaxRetries
               /\ Owed(Marked(q, i, sent)) =
                    [Owed(q) EXCEPT ![q[i]] = @ - 1,
                                    ![[q[i] EXCEPT !.attempts = @ + 1]] = @ + 1]
<1> DEFINE x == q[i]
           y == [x EXCEPT !.attempts = @ + 1]
<1>1. /\ x \in Kept /\ x.attempts \in Nat /\ x.attempts + 1 <= MaxRetries
      /\ MaxRetries \in Nat /\ x.payload \in Payload
  BY AgentPushAssumption DEF AllKept, Kept
<1>2. CASE sent \/ x.attempts + 1 >= MaxRetries
  <2>1. Marked(q, i, sent) = Without(q, i)
    BY <1>2 DEF Marked
  <2>2. sent \/ x.attempts + 1 = MaxRetries
    BY <1>1, <1>2
  <2> QED
    BY <2>1, <2>2, OwedWithout
<1>3. CASE ~(sent \/ x.attempts + 1 >= MaxRetries)
  <2>1. Marked(q, i, sent) = [q EXCEPT ![i] = y]
    BY <1>3 DEF Marked
  <2>2. x.attempts + 1 < MaxRetries
    BY <1>1, <1>3
  <2>3. x.attempts + 1 \in 0 .. MaxRetries - 1
    BY <1>1, <2>2
  <2>4. y \in Kept /\ y.attempts = x.attempts + 1
    BY <1>1, <2>3 DEF Kept
  <2> HIDE DEF y
  <2>5. y # x
    <3>1. y.attempts # x.attempts
      BY <1>1, <2>4
    <3> QED
      BY <3>1
  <2>6. /\ AllKept([q EXCEPT ![i] = y])
        /\ Owed([q EXCEPT ![i] = y]) = [Owed(q) EXCEPT ![q[i]] = @ - 1, ![y] = @ + 1]
    BY <2>4, <2>5, OwedExcept
  <2> QED
    BY <2>1, <2>2, <2>6 DEF y
<1> QED
  BY <1>2, <1>3

\* A step that leaves the queue alone delivers one payload, or changes nothing.
LEMMA DeliverStep ==
  ASSUME queue' = queue,
         stored' = stored \/ \E x \in Payload : stored' = stored \cup {x}
  PROVE  [Outbox!Next]_(Outbox!outbox)
BY DEF Outbox!Next, Outbox!outbox, Outbox!Deliver

LEMMA OutboxStep ==
  ASSUME AgentPushAssumption, OneProcess, ~ReadsFail, IInv, CopyInv, FileIsKept,
         [Next]_vars
  PROVE  FileIsKept' /\ [Outbox!Next]_(Outbox!outbox)
<1> DEFINE Goal == FileIsKept' /\ [Outbox!Next]_(Outbox!outbox)
<1>1. queue \in Seq(Item) /\ \A p \in Procs : proc[p] \in ProcState
  BY DEF IInv, TypeOK
<1>2. ASSUME queue' = queue,
             stored' = stored \/ \E x \in Payload : stored' = stored \cup {x}
      PROVE  Goal
  <2>1. FileIsKept'
    BY <1>2 DEF FileIsKept
  <2> QED
    BY <1>2, <2>1, DeliverStep
<1>3. ASSUME NEW p \in Procs, Send(p) PROVE Goal
  <2>1. proc[p].pc = "send" /\ ProcOK(stored, proc[p]) /\ proc[p].version \in Versions
    BY <1>1, <1>3 DEF Send, IInv, LocalsAreTrue, ProcState
  <2>2. [version |-> proc[p].version, date |-> proc[p].date] \in Payload
    BY <2>1 DEF ProcOK, Exporting, Payload
  <2>3. /\ queue' = queue
        /\ stored' = stored
           \/ stored' = stored \cup {[version |-> proc[p].version, date |-> proc[p].date]}
    BY <1>3 DEF Send, Post
  <2> QED
    BY <1>2, <2>2, <2>3
<1>4. ASSUME NEW p \in Procs, Retry(p) PROVE Goal
  <2>1. PICK x \in proc[p].due : stored' = stored \/ stored' = stored \cup {x.payload}
    BY <1>4 DEF Retry, Post
  <2>2. x.payload \in Payload
    BY <1>1, <2>1 DEF ProcState, Due
  <2> QED
    BY <1>2, <1>4, <2>1, <2>2 DEF Retry
<1>5. ASSUME NEW p \in Procs, EnqueueWrite(p) PROVE Goal
  <2> DEFINE d == [version |-> proc[p].version, date |-> proc[p].date]
             item == [payload |-> d, attempts |-> 0]
  <2>1. /\ proc[p].pc = "enqueueWrite" /\ ProcOK(stored, proc[p])
        /\ proc[p].version \in Versions /\ proc[p].buf = queue
    BY <1>1, <1>5 DEF EnqueueWrite, IInv, LocalsAreTrue, ProcState, CopyInv, CopyOK
  <2>2. d \in Payload
    BY <2>1 DEF ProcOK, Exporting, Payload
  <2>3. queue' \in {queue, Append(queue, item)} /\ stored' = stored
    BY <1>5, <2>1 DEF EnqueueWrite, Written
  <2> HIDE DEF d
  <2>4. item \in Kept
    BY <2>2, AgentPushAssumption DEF Kept
  <2>5. CASE queue' = Append(queue, item)
    <3>1. AllKept(queue') /\ Owed(queue') = [Owed(queue) EXCEPT ![item] = @ + 1]
      BY <1>1, <2>4, <2>5, OwedAppend DEF FileIsKept
    <3>2. Outbox!Owe(d)
      BY <2>3, <3>1 DEF Outbox!Owe, Owed
    <3> QED
      BY <2>2, <3>1, <3>2 DEF FileIsKept, Outbox!Next
  <2> QED
    BY <1>2, <2>3, <2>5
<1>6. ASSUME NEW p \in Procs, MarkWrite(p) PROVE Goal
  <2> DEFINE i == proc[p].index
             x == queue[i]
             sent == proc[p].sent
             m == Marked(queue, i, sent)
  <2>1. /\ proc[p].buf = queue /\ i \in 1..Len(queue) /\ sent \in BOOLEAN
        /\ sent => queue[i].payload \in stored
    BY <1>1, <1>6 DEF CopyInv, CopyOK, MarkWrite, ProcState
  <2>2. queue' \in {queue, m} /\ stored' = stored
    BY <1>6, <2>1 DEF MarkWrite, Written
  <2> HIDE DEF i, sent
  <2>3. /\ x \in Kept /\ Copies(queue, x) > 0 /\ Owed(queue)[x] = Copies(queue, x)
    BY <1>1, <2>1, CopiesPositive DEF FileIsKept, AllKept, Owed
  <2>4. /\ AllKept(m)
        /\ \/ /\ sent \/ x.attempts + 1 = MaxRetries
              /\ Owed(m) = [Owed(queue) EXCEPT ![x] = @ - 1]
           \/ /\ x.attempts + 1 < MaxRetries
              /\ Owed(m) = [Owed(queue) EXCEPT ![x] = @ - 1,
                              ![[x EXCEPT !.attempts = @ + 1]] = @ + 1]
    BY <1>1, <2>1, OwedMarked DEF FileIsKept
  <2> HIDE DEF m, x
  <2>5. CASE queue' = m
    <3>1. FileIsKept'
      BY <2>4, <2>5 DEF FileIsKept
    <3>2. \/ Outbox!Settle(x) \/ Outbox!Fail(x) \/ Outbox!GiveUp(x)
      BY <2>1, <2>2, <2>3, <2>4, <2>5
      DEF Outbox!Settle, Outbox!Fail, Outbox!GiveUp, Owed, x
    <3> QED
      BY <2>3, <3>1, <3>2 DEF Outbox!Next, Outbox!Items, Kept
  <2> QED
    BY <1>2, <2>2, <2>5
<1>7. \/ queue' = queue /\ stored' = stored
      \/ \E p \in Procs : Send(p) \/ Retry(p) \/ EnqueueWrite(p) \/ MarkWrite(p)
  BY DEF Next, ExportStep, StartRun, Killed, EnqueueRead, GetDueItems,
         MarkRead, BackfillLock, BackfillInit, BackfillBatch,
         BackfillHalt, vars
<1> QED
  BY <1>2, <1>3, <1>4, <1>5, <1>6, <1>7

\* With one process at a time and a queue file that can be read, the agent implements
\* the retry outbox: each payload that could not be sent is owed exactly as often as
\* it was queued, its attempts are counted one by one, and it is settled only when
\* the cloud has it or given up only at the last attempt, whatever writes fail and
\* wherever the process is killed.
THEOREM ImplementsOutbox ==
  ASSUME OneProcess, ~ReadsFail
  PROVE  Spec => OutboxSpec
<1>1. Init => CopyInv
  <2>1. Idle.pc = "idle"
    BY DEF Idle
  <2> QED
    BY <2>1 DEF Init, CopyInv, CopyOK
<1>2. IInv /\ CopyInv /\ [Next]_vars => CopyInv'
  BY CopyStep, AgentPushAssumption
<1>3. Init => FileIsKept /\ Outbox!Init
  <2> SUFFICES ASSUME Init PROVE FileIsKept /\ Outbox!Init
    OBVIOUS
  <2>1. queue = <<>> /\ stored = {} /\ <<>> \in Seq(Item)
    BY DEF Init
  <2>2. \A x : Copies(queue, x) = 0
    <3>1. \A x : Places(queue, x) = {}
      BY <2>1 DEF Places
    <3> QED
      BY <2>1, <3>1, PlacesFinite, FS_EmptySet
  <2> QED
    BY <2>1, <2>2 DEF FileIsKept, AllKept, Outbox!Init, Outbox!Items, Kept
<1>4. IInv /\ CopyInv /\ FileIsKept /\ [Next]_vars
      => FileIsKept' /\ [Outbox!Next]_(Outbox!outbox)
  BY OutboxStep, AgentPushAssumption
<1> QED
  BY <1>1, <1>2, <1>3, <1>4, PushInvariance, PTL DEF Spec, OutboxSpec, Outbox!Spec

=============================================================================
