-------------------------- MODULE DailyStatsProofs --------------------------
(***************************************************************************)
(* The inductive invariant of DailyStats and the theorems that follow.     *)
(*                                                                         *)
(* A row is right because of what was known when its reading was made, so  *)
(* the invariant speaks of the readings on their way: none exceeds what    *)
(* the campus has now, none is wrong about a day that was over, and none   *)
(* was made before the day of a scheduled pull that ended ok.              *)
(***************************************************************************)
EXTENDS DailyStats, TLAPS

\* A pull on its way is true of the days that were over when it was read.
PullOK(w) ==
  pull[w].pc # "idle" =>
    /\ pull[w].tenant \in Tenants
    /\ pull[w].readOn <= today
    /\ \A t \in Tenants : okDay[t] <= pull[w].readOn
    /\ pull[w].pc = "upsert" =>
         \A d \in Days :
           /\ pull[w].answer[d].loans <= campus[pull[w].tenant][d].loans
           /\ HasActivity(pull[w].answer[d]) /\ d < pull[w].readOn
                => pull[w].answer[d] = PulledDay(pull[w].tenant, d)

\* A payload on its way has no more loans than its day.
PushOK(a) ==
  push[a].pc # "idle" =>
    /\ push[a].tenant \in Tenants
    /\ push[a].is.loans <= campus[push[a].tenant][push[a].day].loans

RowsBounded == \A t \in Tenants, d \in Days :
                 rows[t][d].stored => rows[t][d].is.loans <= campus[t][d].loans

\* While a run is on, nothing on its way was read on an earlier day.
RunOK ==
  /\ pull[Scheduler].pc # "idle" => run.on
  /\ run.on => /\ run.day <= today
               /\ \A c \in Clients : pull[c].pc # "idle" => run.day <= pull[c].readOn
               /\ \A t \in Tenants : okDay[t] <= run.day
               /\ pull[Scheduler].pc # "idle" => run.day <= pull[Scheduler].readOn

InRun(d) == d >= WindowStart(run.day) /\ d < run.day

\* What the run has read, and then stored, are the final numbers of its days.
SchedulerOK ==
  /\ pull[Scheduler].pc = "upsert" =>
       \A d \in Days : InRun(d) =>
         pull[Scheduler].answer[d] = PulledDay(pull[Scheduler].tenant, d)
  /\ pull[Scheduler].pc = "ok" =>
       \A d \in Days : InRun(d) => Exact(pull[Scheduler].tenant, d)

OkDays == \A t \in Tenants : okDay[t] <= today

IInv ==
  /\ TypeOK
  /\ \A w \in Pullers : PullOK(w)
  /\ \A a \in Agents : PushOK(a)
  /\ RowsBounded
  /\ RunOK
  /\ SchedulerOK
  /\ OkDays
  /\ OkWindowIsExact

-----------------------------------------------------------------------------
(* The initial states satisfy the invariant.                               *)
LEMMA InitInv == Init => IInv
<1> SUFFICES ASSUME Init PROVE IInv
  OBVIOUS
<1>0. 1 \in Days /\ \A d \in Days : d \in Nat
  BY DailyStatsAssumption DEF Days
<1>1. TypeOK
  <2>1. NoRow \in Row /\ NoCounts \in Counts
    BY DEF NoRow, Row, Zero, Numbers, NoCounts, Counts
  <2>2. NoPull \in PullState
    BY <1>0 DEF NoPull, PullState, Zero, Numbers
  <2>3. NoPush \in PushState
    BY <1>0 DEF NoPush, PushState, Zero, Numbers
  <2>4. NoRun \in RunState
    BY DEF NoRun, RunState
  <2> QED
    BY <2>1, <2>2, <2>3, <2>4, <1>0 DEF Init, TypeOK
<1>2. \A w \in Pullers : pull[w].pc = "idle"
  BY DEF Init, NoPull
<1>3. Scheduler \in Pullers
  BY DEF Pullers
<1>4. \A a \in Agents : push[a].pc = "idle"
  BY DEF Init, NoPush
<1>5. \A t \in Tenants, d \in Days : ~rows[t][d].stored
  BY DEF Init, NoRow
<1>6. ~run.on
  BY DEF Init, NoRun
<1>7. today = 1 /\ \A t \in Tenants : okDay[t] = 0
  BY DEF Init
<1>8. \A d \in Days : ~(d < 0)
  BY DEF Days
<1>9. OkDays
  <2>1. ASSUME NEW t \in Tenants PROVE okDay[t] <= 1
    <3>1. okDay[t] = 0 /\ 0 <= 1
      BY <1>7
    <3> QED
      BY <3>1
  <2> QED
    BY <1>7, <2>1 DEF OkDays
<1>10. OkWindowIsExact
  BY <1>7, <1>8 DEF OkWindowIsExact
<1>11. RowsBounded
  BY <1>5 DEF RowsBounded
<1>12. RunOK /\ SchedulerOK
  BY <1>2, <1>3, <1>6 DEF RunOK, SchedulerOK
<1> QED
  BY <1>1, <1>2, <1>4, <1>9, <1>10, <1>11, <1>12 DEF IInv, PullOK, PushOK

-----------------------------------------------------------------------------
(* Lemmas about the writes of rows and the readings.                       *)

\* What a pull and a push say of a day has the day's loans.
LEMMA DaySays ==
  ASSUME TypeOK, NEW t \in Tenants, NEW d \in Days
  PROVE  /\ PulledDay(t, d) \in Numbers /\ PulledDay(t, d).loans = campus[t][d].loans
         /\ PushedDay(t, d) \in Numbers /\ PushedDay(t, d).loans = campus[t][d].loans
         /\ campus[t][d].loans \in Nat
         /\ ~HasActivity(PulledDay(t, d)) => PulledDay(t, d) = Zero
<1>1. campus[t][d].loans \in Nat /\ campus[t][d].logged \in Nat /\ campus[t][d].counted \in Nat
  BY DEF TypeOK, Counts
<1> QED
  BY <1>1 DEF PulledDay, PushedDay, Numbers, HasActivity, Zero

\* The range of an answer.
LEMMA AnswerIs ==
  ASSUME TypeOK, NEW t \in Tenants, NEW from, NEW to
  PROVE  /\ Answer(t, from, to) \in [Days -> Numbers]
         /\ \A d \in Days : /\ Answer(t, from, to)[d].loans <= campus[t][d].loans
                            /\ HasActivity(Answer(t, from, to)[d])
                                 => Answer(t, from, to)[d] = PulledDay(t, d)
                            /\ d \in from .. to => Answer(t, from, to)[d] = PulledDay(t, d)
<1>1. Zero \in Numbers /\ Zero.loans = 0 /\ ~HasActivity(Zero)
  BY DEF Zero, Numbers, HasActivity
<1>2. ASSUME NEW d \in Days
      PROVE  /\ Answer(t, from, to)[d] \in {PulledDay(t, d), Zero}
             /\ d \in from .. to => Answer(t, from, to)[d] = PulledDay(t, d)
  BY DEF Answer
<1>3. Answer(t, from, to) \in [Days -> Numbers]
  BY <1>1, DaySays DEF Answer
<1>4. ASSUME NEW d \in Days
      PROVE  /\ Answer(t, from, to)[d].loans <= campus[t][d].loans
             /\ HasActivity(Answer(t, from, to)[d]) => Answer(t, from, to)[d] = PulledDay(t, d)
  <2>1. CASE Answer(t, from, to)[d] = PulledDay(t, d)
    BY <2>1, DaySays
  <2>2. CASE Answer(t, from, to)[d] = Zero
    BY <2>2, <1>1, DaySays
  <2> QED
    BY <1>2, <2>1, <2>2
<1> QED
  BY <1>2, <1>3, <1>4

\* An upsert of readings that are true of closed days keeps the rows bounded and
\* every day exact that was exact and over when the reading was made.
LEMMA UpsertRows ==
  ASSUME IInv, NEW w \in Pullers, pull[w].pc = "upsert",
         rows' = Upserted(pull[w].tenant, pull[w].answer), campus' = campus
  PROVE  /\ rows' \in [Tenants -> [Days -> Row]]
         /\ RowsBounded'
         /\ \A t \in Tenants, d \in Days :
               d < pull[w].readOn /\ Exact(t, d) => Exact(t, d)'
         /\ \A t \in Tenants, d \in Days :
               t = pull[w].tenant /\ pull[w].answer[d] = PulledDay(t, d) => Exact(t, d)'
<1> DEFINE T == pull[w].tenant
           A == pull[w].answer
<1>1. /\ T \in Tenants /\ A \in [Days -> Numbers]
      /\ \A d \in Days : A[d].loans <= campus[T][d].loans
      /\ \A d \in Days : HasActivity(A[d]) /\ d < pull[w].readOn => A[d] = PulledDay(T, d)
  BY DEF IInv, PullOK, TypeOK, PullState
<1>2. /\ rows \in [Tenants -> [Days -> Row]]
      /\ \A t \in Tenants, d \in Days :
           /\ campus[t][d].loans \in Nat
           /\ PulledDay(t, d).loans = campus[t][d].loans
           /\ ~HasActivity(PulledDay(t, d)) => PulledDay(t, d) = Zero
           /\ PulledDay(t, d)' = PulledDay(t, d)
  BY DaySays DEF IInv, TypeOK, PulledDay
<1>3. \A n \in Numbers : [stored |-> TRUE, is |-> n] \in Row
  BY DEF Row
<1>4. rows' = [rows EXCEPT ![T] = [d \in Days |->
         IF HasActivity(A[d]) THEN [stored |-> TRUE, is |-> A[d]] ELSE rows[T][d]]]
  BY DEF Upserted
<1> HIDE DEF T, A
<1>5. \A t \in Tenants : t # T => rows'[t] = rows[t]
  BY <1>2, <1>4
<1>6. ASSUME NEW d \in Days
      PROVE  /\ HasActivity(A[d]) => rows'[T][d].stored /\ rows'[T][d].is = A[d]
             /\ ~HasActivity(A[d]) => rows'[T][d] = rows[T][d]
  <2>1. rows'[T] = [e \in Days |->
           IF HasActivity(A[e]) THEN [stored |-> TRUE, is |-> A[e]] ELSE rows[T][e]]
    BY <1>1, <1>2, <1>4
  <2>2. rows'[T][d] = IF HasActivity(A[d]) THEN [stored |-> TRUE, is |-> A[d]] ELSE rows[T][d]
    BY <2>1
  <2> QED
    BY <2>2
<1>7. rows' \in [Tenants -> [Days -> Row]]
  BY <1>1, <1>2, <1>3, <1>4
<1>8. \A t \in Tenants, d \in Days :
        rows[t][d].stored => rows[t][d].is.loans <= campus[t][d].loans
  BY DEF IInv, RowsBounded
<1>9. \A d \in Days : HasActivity(A[d]) => rows'[T][d].stored /\ rows'[T][d].is = A[d]
  BY <1>6
<1>10. \A d \in Days : ~HasActivity(A[d]) => rows'[T][d] = rows[T][d]
  BY <1>6
<1>11. \A t \in Tenants, d \in Days :
         rows'[t][d].stored => rows'[t][d].is.loans <= campus[t][d].loans
  <2> SUFFICES ASSUME NEW t \in Tenants, NEW d \in Days, rows'[t][d].stored
               PROVE  rows'[t][d].is.loans <= campus[t][d].loans
    OBVIOUS
  <2>1. CASE t # T
    BY <2>1, <1>5, <1>8
  <2>2. CASE t = T /\ HasActivity(A[d])
    BY <2>2, <1>1, <1>9
  <2>3. CASE t = T /\ ~HasActivity(A[d])
    BY <2>3, <1>8, <1>10
  <2> QED
    BY <2>1, <2>2, <2>3
<1>12. ASSUME NEW t \in Tenants, NEW d \in Days, d < pull[w].readOn, Exact(t, d)
       PROVE  Exact(t, d)'
  <2>1. CASE t # T
    BY <2>1, <1>2, <1>5, <1>12 DEF Exact
  <2>2. CASE t = T /\ HasActivity(A[d])
    <3>1. rows'[t][d].stored /\ rows'[t][d].is = PulledDay(t, d)
      BY <2>2, <1>1, <1>9, <1>12
    <3> QED
      BY <3>1, <1>2 DEF Exact
  <2>3. CASE t = T /\ ~HasActivity(A[d])
    BY <2>3, <1>2, <1>10, <1>12 DEF Exact
  <2> QED
    BY <2>1, <2>2, <2>3
<1>13. ASSUME NEW t \in Tenants, NEW d \in Days, t = T, A[d] = PulledDay(t, d)
       PROVE  Exact(t, d)'
  <2>1. CASE HasActivity(A[d])
    <3>1. rows'[t][d].stored /\ rows'[t][d].is = PulledDay(t, d)
      BY <2>1, <1>9, <1>13
    <3> QED
      BY <3>1, <1>2 DEF Exact
  <2>2. CASE ~HasActivity(A[d])
    <3>1. campus[t][d].loans = 0 /\ ~HasActivity(PulledDay(t, d))
      BY <2>2, <1>2, <1>13 DEF Zero
    <3>2. rows[t][d].stored => rows[t][d].is.loans = 0
      <4>1. rows[t][d].is.loans \in Nat
        BY <1>2 DEF Row, Numbers
      <4> QED
        BY <4>1, <3>1, <1>8
    <3>3. (HasActivity(PulledDay(t, d)))' <=> HasActivity(PulledDay(t, d))
      BY <1>2
    <3> QED
      BY <2>2, <3>1, <3>2, <3>3, <1>10, <1>13 DEF Exact
  <2> QED
    BY <2>1, <2>2
<1> QED
  BY <1>7, <1>11, <1>12, <1>13 DEF RowsBounded, T, A

\* What changes when one puller changes.
LEMMA PullUpdate ==
  ASSUME TypeOK, NEW w \in Pullers, NEW p \in PullState, pull' = [pull EXCEPT ![w] = p]
  PROVE  /\ pull' \in [Pullers -> PullState]
         /\ pull'[w] = p
         /\ \A v \in Pullers : v # w => pull'[v] = pull[v]
BY DEF TypeOK

\* The states that actions give to a puller.
LEMMA PullStates ==
  ASSUME TypeOK, NEW w \in Pullers
  PROVE  /\ NoPull \in PullState /\ NoPull.pc = "idle"
         /\ \A v \in {"ok", "catch"} :
              /\ [pull[w] EXCEPT !.pc = v] \in PullState
              /\ [pull[w] EXCEPT !.pc = v].pc = v
              /\ [pull[w] EXCEPT !.pc = v].tenant = pull[w].tenant
              /\ [pull[w] EXCEPT !.pc = v].readOn = pull[w].readOn
<1>1. pull[w] \in PullState
  BY DEF TypeOK
<1>2. NoPull \in PullState /\ NoPull.pc = "idle"
  BY DEF NoPull, PullState, Zero, Numbers
<1> QED
  BY <1>1, <1>2 DEF PullState

\* The pullers that did not move are as good as before.
LEMMA PullsKept ==
  ASSUME IInv, NEW w \in Pullers, today' = today, campus' = campus, okDay' = okDay,
         \A v \in Pullers : v # w => pull'[v] = pull[v]
  PROVE  \A v \in Pullers : v # w => PullOK(v)'
BY DEF IInv, PullOK, PulledDay

\* Nothing but the pulls and the run moves.
LEMMA RowsKept ==
  ASSUME IInv, today' = today, campus' = campus, okDay' = okDay, rows' = rows, push' = push
  PROVE  /\ RowsBounded' /\ OkDays' /\ OkWindowIsExact' /\ \A a \in Agents : PushOK(a)'
         /\ \A t \in Tenants, d \in Days : Exact(t, d) => Exact(t, d)'
BY DEF IInv, RowsBounded, OkDays, OkWindowIsExact, Exact, PulledDay, WindowStart, PushOK

LEMMA SchedulerIs == Scheduler \in Pullers /\ Scheduler \notin Clients
                     /\ \A c \in Clients : c \in Pullers /\ c # Scheduler
BY DailyStatsAssumption DEF Scheduler, Pullers

-----------------------------------------------------------------------------
(* One lemma per action.                                                   *)

LEMMA VisitInv == ASSUME IInv, NEW t \in Tenants, Visit(t) PROVE IInv'
<1> USE SchedulerIs
<1>1. /\ today \in Days /\ \A d \in Days : d \in Int
      /\ \A u \in Tenants, d \in Days : campus[u][d] \in Counts
      /\ campus \in [Tenants -> [Days -> Counts]]
  <2>1. \A d \in Days : d \in Int
    BY DEF Days
  <2> QED
    BY <2>1 DEF IInv, TypeOK
<1>2. PICK count \in {"loans", "logged", "counted"} :
        campus' = [campus EXCEPT ![t][today][count] = campus[t][today][count] + 1]
  BY DEF Visit
<1>3. UNCHANGED <<today, rows, status, due, stalls, run, pull, push, faults, okDay>>
  BY DEF Visit
<1> DEFINE c == campus[t][today]
           cc == [c EXCEPT ![count] = c[count] + 1]
<1>4. cc \in Counts /\ c.loans <= cc.loans
  <2>1. c \in Counts
    BY <1>1
  <2> HIDE DEF c
  <2>2. CASE count = "loans"
    BY <2>1, <2>2 DEF Counts
  <2>3. CASE count = "logged"
    BY <2>1, <2>3 DEF Counts
  <2>4. CASE count = "counted"
    BY <2>1, <2>4 DEF Counts
  <2> QED
    BY <2>2, <2>3, <2>4
<1>5. campus' = [campus EXCEPT ![t] = [campus[t] EXCEPT ![today] = cc]]
  BY <1>1, <1>2
<1> HIDE DEF cc
<1>6. campus' \in [Tenants -> [Days -> Counts]]
  BY <1>1, <1>4, <1>5
<1>7. \A u \in Tenants, d \in Days : /\ d # today => campus'[u][d] = campus[u][d]
                                     /\ campus'[u][d] \in {campus[u][d], cc}
                                     /\ campus'[u][d] = cc => campus[u][d] = c \/ campus'[u][d] = campus[u][d]
  BY <1>1, <1>5
<1>8. \A u \in Tenants, d \in Days : /\ d # today => campus'[u][d] = campus[u][d]
                                     /\ d # today => PulledDay(u, d)' = PulledDay(u, d)
                                     /\ campus[u][d].loans \in Nat /\ campus'[u][d].loans \in Nat
                                     /\ campus[u][d].loans <= campus'[u][d].loans
  <2> SUFFICES ASSUME NEW u \in Tenants, NEW d \in Days
               PROVE  /\ d # today => campus'[u][d] = campus[u][d]
                      /\ d # today => PulledDay(u, d)' = PulledDay(u, d)
                      /\ campus[u][d].loans \in Nat /\ campus'[u][d].loans \in Nat
                      /\ campus[u][d].loans <= campus'[u][d].loans
    OBVIOUS
  <2>1. campus[u][d].loans \in Nat /\ campus'[u][d].loans \in Nat
    BY <1>1, <1>6 DEF Counts
  <2>2. campus[u][d].loans <= campus'[u][d].loans
    <3>1. CASE campus'[u][d] = campus[u][d]
      BY <2>1, <3>1
    <3>2. CASE campus'[u][d] = cc /\ campus[u][d] = c
      BY <1>4, <3>2
    <3> QED
      BY <1>7, <3>1, <3>2
  <2> QED
    BY <1>7, <2>1, <2>2 DEF PulledDay
<1> HIDE DEF c
<1>9. TypeOK'
  BY <1>3, <1>6 DEF IInv, TypeOK
<1>10. \A u \in Tenants, d \in Days : d < today /\ Exact(u, d) => Exact(u, d)'
  <2> SUFFICES ASSUME NEW u \in Tenants, NEW d \in Days, d < today, Exact(u, d)
               PROVE  Exact(u, d)'
    OBVIOUS
  <2>1. campus'[u][d] = campus[u][d] /\ PulledDay(u, d)' = PulledDay(u, d)
    BY <1>1, <1>8
  <2> QED
    BY <1>3, <2>1 DEF Exact, HasActivity
<1>11. \A w \in Pullers : PullOK(w)'
  <2> SUFFICES ASSUME NEW w \in Pullers, pull[w].pc # "idle"
               PROVE  PullOK(w)'
    BY <1>3 DEF PullOK
  <2>1. /\ pull[w].tenant \in Tenants /\ pull[w].readOn <= today
        /\ \A u \in Tenants : okDay[u] <= pull[w].readOn
        /\ pull[w].readOn \in Nat
    BY DEF IInv, PullOK, TypeOK, PullState
  <2>2. PICK u \in Tenants : u = pull[w].tenant
    BY <2>1
  <2>3. ASSUME pull[w].pc = "upsert", NEW d \in Days
        PROVE  /\ pull[w].answer[d].loans <= campus'[u][d].loans
               /\ HasActivity(pull[w].answer[d]) /\ d < pull[w].readOn
                    => pull[w].answer[d] = PulledDay(u, d)'
    <3>1. /\ pull[w].answer[d].loans <= campus[u][d].loans
          /\ HasActivity(pull[w].answer[d]) /\ d < pull[w].readOn
               => pull[w].answer[d] = PulledDay(u, d)
      BY <2>2, <2>3 DEF IInv, PullOK
    <3>2. pull[w].answer[d].loans \in Nat
      BY DEF IInv, TypeOK, PullState, Numbers
    <3>3. d < pull[w].readOn => d # today
      BY <1>1, <2>1
    <3> QED
      BY <1>8, <3>1, <3>2, <3>3
  <2>4. pull'[w] = pull[w] /\ okDay' = okDay /\ today' = today
    BY <1>3
  <2> QED
    BY <2>1, <2>2, <2>3, <2>4 DEF PullOK, HasActivity, PulledDay
<1>12. \A a \in Agents : PushOK(a)'
  <2> SUFFICES ASSUME NEW a \in Agents, push[a].pc # "idle"
               PROVE  PushOK(a)'
    BY <1>3 DEF PushOK
  <2>1. /\ push[a].tenant \in Tenants /\ push[a].day \in Days /\ push[a].is.loans \in Nat
        /\ push[a].is.loans <= campus[push[a].tenant][push[a].day].loans
    BY DEF IInv, PushOK, TypeOK, PushState, Numbers
  <2> QED
    BY <1>3, <1>8, <2>1 DEF PushOK
<1>13. RowsBounded'
  <2> SUFFICES ASSUME NEW u \in Tenants, NEW d \in Days, rows[u][d].stored
               PROVE  rows[u][d].is.loans <= campus'[u][d].loans
    BY <1>3 DEF RowsBounded
  <2>1. rows[u][d].is.loans \in Nat /\ rows[u][d].is.loans <= campus[u][d].loans
    BY DEF IInv, TypeOK, Row, Numbers, RowsBounded
  <2> QED
    BY <1>8, <2>1
<1>14. RunOK' /\ OkDays'
  BY <1>3 DEF IInv, RunOK, OkDays
<1>15. SchedulerOK'
  <2>1. run.on => run.day <= today /\ run.day \in Nat
    BY DEF IInv, RunOK, TypeOK, RunState
  <2>2. pull[Scheduler].pc # "idle" => run.on /\ pull[Scheduler].tenant \in Tenants
    BY DEF IInv, RunOK, PullOK
  <2>3. \A d \in Days : run.on /\ InRun(d) => d < today
    BY <1>1, <2>1 DEF InRun
  <2>4. (\A d \in Days : InRun(d)' <=> InRun(d)) /\ pull' = pull
    BY <1>3 DEF InRun, WindowStart
  <2>5. ASSUME pull[Scheduler].pc = "upsert", NEW d \in Days, InRun(d)
        PROVE  pull[Scheduler].answer[d] = PulledDay(pull[Scheduler].tenant, d)'
    <3>1. pull[Scheduler].answer[d] = PulledDay(pull[Scheduler].tenant, d)
      BY <2>5 DEF IInv, SchedulerOK
    <3>2. d # today /\ pull[Scheduler].tenant \in Tenants
      BY <1>1, <2>2, <2>3, <2>5
    <3> QED
      BY <1>8, <2>4, <3>1, <3>2 DEF PulledDay
  <2>6. ASSUME pull[Scheduler].pc = "ok", NEW d \in Days, InRun(d)
        PROVE  Exact(pull[Scheduler].tenant, d)'
    <3>1. Exact(pull[Scheduler].tenant, d)
      BY <2>6 DEF IInv, SchedulerOK
    <3>2. PICK u \in Tenants : u = pull[Scheduler].tenant
      BY <2>2, <2>6
    <3>3. Exact(u, d)'
      BY <1>10, <2>2, <2>3, <2>6, <3>1, <3>2
    <3> QED
      BY <2>4, <3>2, <3>3 DEF Exact, PulledDay, HasActivity
  <2> QED
    BY <2>4, <2>5, <2>6 DEF SchedulerOK, PulledDay
<1>16. OkWindowIsExact'
  <2>1. \A u \in Tenants : okDay[u] <= today /\ okDay[u] \in Nat
    BY DEF IInv, OkDays, TypeOK
  <2> QED
    BY <1>1, <1>3, <1>10, <2>1 DEF IInv, OkWindowIsExact, WindowStart
<1> QED
  BY <1>9, <1>11, <1>12, <1>13, <1>14, <1>15, <1>16 DEF IInv

LEMMA NextDayInv == ASSUME IInv, NextDay PROVE IInv'
<1>1. /\ today \in Nat /\ today + 1 \in Days
      /\ today' = today + 1 /\ due' = TRUE /\ stalls' = 0
      /\ UNCHANGED <<campus, rows, status, run, pull, push, faults, okDay>>
  BY DailyStatsAssumption DEF IInv, TypeOK, NextDay, Days
<1>2. TypeOK'
  BY <1>1 DEF IInv, TypeOK
<1>3. \A w \in Pullers : pull[w].readOn \in Nat
  BY DEF IInv, TypeOK, PullState
<1>4. run.day \in Nat /\ \A t \in Tenants : okDay[t] \in Nat
  BY DEF IInv, TypeOK, RunState
<1>5. \A w \in Pullers : PullOK(w)'
  BY <1>1, <1>3 DEF IInv, PullOK, PulledDay
<1>6. (\A a \in Agents : PushOK(a)') /\ RowsBounded'
  BY <1>1 DEF IInv, PushOK, RowsBounded
<1>7. RunOK' /\ OkDays'
  BY <1>1, <1>4 DEF IInv, RunOK, OkDays
<1>8. SchedulerOK' /\ OkWindowIsExact'
  BY <1>1 DEF IInv, SchedulerOK, OkWindowIsExact, InRun, WindowStart, Exact, PulledDay
<1> QED
  BY <1>2, <1>5, <1>6, <1>7, <1>8 DEF IInv

\* A pull of a range by a client, whichever way the call ends.
LEMMA PullNowInv ==
  ASSUME IInv, NEW c \in Clients, NEW r \in Asked, PullNow(c, r)
  PROVE  IInv'
<1> USE SchedulerIs
<1> DEFINE t == r[1]
<1>0. t \in Tenants
  BY DailyStatsAssumption
<1> HIDE DEF t
<1>1. /\ UNCHANGED <<today, campus, rows, status, due, stalls, push, okDay, run>>
      /\ faults' \in Nat
  BY DEF PullNow, AgentCall, Fault, NoFault, IInv, TypeOK
<1>2. today \in Nat /\ \A u \in Tenants : okDay[u] \in Nat
  BY DEF IInv, TypeOK, Days
<1>3. PICK p \in PullState : /\ pull' = [pull EXCEPT ![c] = p]
                             /\ p.pc # "idle" /\ p.tenant = t /\ p.readOn = today
                             /\ p.pc = "upsert" => p.answer = Answer(t, r[2], r[3])
  <2>1. CASE pull' = [pull EXCEPT ![c] = [pc |-> "upsert", tenant |-> t, readOn |-> today,
                                          answer |-> Answer(t, r[2], r[3])]]
    <3> DEFINE A == Answer(t, r[2], r[3])
    <3>1. A \in [Days -> Numbers]
      BY <1>0, AnswerIs DEF IInv
    <3> HIDE DEF A
    <3>2. [pc |-> "upsert", tenant |-> t, readOn |-> today, answer |-> A] \in PullState
      BY <1>0, <1>2, <3>1 DEF PullState
    <3> QED
      BY <2>1, <3>2 DEF A
  <2>2. CASE pull' = [pull EXCEPT ![c] = [NoPull EXCEPT !.pc = "failed", !.tenant = t,
                                                        !.readOn = today]]
    <3>1. [NoPull EXCEPT !.pc = "failed", !.tenant = t, !.readOn = today] \in PullState
      BY <1>0, <1>2 DEF NoPull, PullState, Zero, Numbers
    <3> QED
      BY <2>2, <3>1 DEF NoPull
  <2> QED
    BY <2>1, <2>2 DEF PullNow, AgentCall, t
<1>4. /\ pull' \in [Pullers -> PullState] /\ pull'[c] = p
      /\ \A v \in Pullers : v # c => pull'[v] = pull[v]
  BY <1>3, PullUpdate DEF IInv
<1>5. TypeOK'
  BY <1>1, <1>4 DEF IInv, TypeOK
<1>6. PullOK(c)'
  <2>1. p.pc = "upsert" =>
          \A d \in Days : /\ p.answer[d].loans <= campus[t][d].loans
                          /\ HasActivity(p.answer[d]) => p.answer[d] = PulledDay(t, d)
    BY <1>0, <1>3, AnswerIs DEF IInv
  <2> QED
    BY <1>0, <1>1, <1>2, <1>3, <1>4, <2>1 DEF IInv, OkDays, PullOK, PulledDay
<1>7. \A w \in Pullers : PullOK(w)'
  BY <1>1, <1>4, <1>6, PullsKept
<1>8. RunOK'
  BY <1>1, <1>2, <1>3, <1>4 DEF IInv, RunOK
<1>9. SchedulerOK'
  BY <1>1, <1>4 DEF IInv, SchedulerOK, InRun, WindowStart, Exact, PulledDay
<1> QED
  BY <1>1, <1>5, <1>7, <1>8, <1>9, RowsKept DEF IInv

LEMMA PullNowUpsertInv ==
  ASSUME IInv, NEW c \in Clients, PullNowUpsert(c) PROVE IInv'
<1> USE SchedulerIs
<1>1. /\ pull[c].pc = "upsert"
      /\ UNCHANGED <<today, campus, status, due, stalls, run, push, okDay>>
      /\ faults' \in Nat
  BY DEF PullNowUpsert, Fault, NoFault, IInv, TypeOK
<1>2. PICK p \in PullState : /\ pull' = [pull EXCEPT ![c] = p]
                             /\ p.pc \in {"idle", "ok"}
                             /\ p.pc # "idle" => /\ p.tenant = pull[c].tenant
                                                 /\ p.readOn = pull[c].readOn
  BY PullStates DEF PullNowUpsert, IInv
<1>3. /\ pull' \in [Pullers -> PullState] /\ pull'[c] = p
      /\ \A v \in Pullers : v # c => pull'[v] = pull[v]
  BY <1>2, PullUpdate DEF IInv
<1>4. /\ rows' \in [Tenants -> [Days -> Row]]
      /\ RowsBounded'
      /\ \A t \in Tenants, d \in Days : d < pull[c].readOn /\ Exact(t, d) => Exact(t, d)'
  <2>1. CASE rows' = Upserted(pull[c].tenant, pull[c].answer)
    BY <1>1, <2>1, UpsertRows
  <2>2. CASE rows' = rows
    BY <1>1, <2>2 DEF IInv, TypeOK, RowsBounded, Exact, PulledDay
  <2> QED
    BY <2>1, <2>2 DEF PullNowUpsert
<1>5. TypeOK'
  BY <1>1, <1>3, <1>4 DEF IInv, TypeOK
<1>6. PullOK(c)'
  BY <1>1, <1>2, <1>3 DEF IInv, PullOK
<1>7. \A w \in Pullers : PullOK(w)'
  BY <1>1, <1>3, <1>6, PullsKept
<1>8. RunOK'
  BY <1>1, <1>2, <1>3 DEF IInv, RunOK
<1>9. (\A a \in Agents : PushOK(a)') /\ OkDays'
  BY <1>1 DEF IInv, PushOK, OkDays
<1>10. /\ pull[c].readOn \in Nat /\ run.day \in Nat
       /\ (\A t \in Tenants : okDay[t] \in Nat) /\ (\A d \in Days : d \in Nat)
  BY DEF IInv, TypeOK, PullState, RunState, Days
<1>11. SchedulerOK'
  <2>1. pull'[Scheduler] = pull[Scheduler] /\ \A d \in Days : InRun(d)' <=> InRun(d)
    BY <1>1, <1>3 DEF InRun, WindowStart
  <2>2. ASSUME pull[Scheduler].pc = "ok", NEW d \in Days, InRun(d)
        PROVE  Exact(pull[Scheduler].tenant, d)'
    <3>1. /\ Exact(pull[Scheduler].tenant, d) /\ pull[Scheduler].tenant \in Tenants
          /\ run.day <= pull[c].readOn
      BY <1>1, <2>2 DEF IInv, SchedulerOK, PullOK, RunOK
    <3>2. d < pull[c].readOn
      BY <1>10, <2>2, <3>1 DEF InRun
    <3>3. PICK t \in Tenants : t = pull[Scheduler].tenant
      BY <3>1
    <3>4. Exact(t, d)'
      BY <1>4, <3>1, <3>2, <3>3
    <3> QED
      BY <2>1, <3>3, <3>4 DEF Exact, PulledDay
  <2> QED
    BY <1>1, <2>1, <2>2 DEF IInv, SchedulerOK, PulledDay
<1>12. OkWindowIsExact'
  <2>1. \A t \in Tenants : okDay[t] <= pull[c].readOn
    BY <1>1 DEF IInv, PullOK
  <2> QED
    BY <1>1, <1>4, <1>10, <2>1 DEF IInv, OkWindowIsExact, WindowStart
<1> QED
  BY <1>4, <1>5, <1>7, <1>8, <1>9, <1>11, <1>12 DEF IInv

LEMMA PullNowReportInv ==
  ASSUME IInv, NEW c \in Clients, PullNowReport(c) PROVE IInv'
<1> USE SchedulerIs
<1>1. /\ pull[c].pc \in {"ok", "failed"}
      /\ UNCHANGED <<today, campus, rows, due, stalls, run, push, okDay>>
      /\ faults' \in Nat /\ status' \in [Tenants -> {"none", "ok", "failed"}]
  BY DEF PullNowReport, Fault, NoFault, IInv, TypeOK
<1>2. NoPull \in PullState /\ NoPull.pc = "idle"
  BY PullStates DEF IInv
<1>3. /\ pull' \in [Pullers -> PullState] /\ pull'[c] = NoPull
      /\ \A v \in Pullers : v # c => pull'[v] = pull[v]
  BY <1>2, PullUpdate DEF IInv, PullNowReport
<1>4. TypeOK'
  BY <1>1, <1>3 DEF IInv, TypeOK
<1>5. \A w \in Pullers : PullOK(w)'
  BY <1>1, <1>2, <1>3, PullsKept DEF PullOK
<1>6. RunOK'
  BY <1>1, <1>2, <1>3 DEF IInv, RunOK
<1>7. SchedulerOK'
  BY <1>1, <1>3 DEF IInv, SchedulerOK, InRun, WindowStart, Exact, PulledDay
<1> QED
  BY <1>1, <1>4, <1>5, <1>6, <1>7, RowsKept DEF IInv

\* What the scheduled pull does to the types and to the other conjuncts when its
\* own reading changes and neither the rows nor the okDay do.
LEMMA SchedulerMoves ==
  ASSUME IInv, NEW p \in PullState, pull' = [pull EXCEPT ![Scheduler] = p],
         UNCHANGED <<today, campus, rows, push, okDay>>, PullOK(Scheduler)',
         RunOK', SchedulerOK', due' \in BOOLEAN, stalls' \in Nat, faults' \in Nat,
         run' \in RunState, status' \in [Tenants -> {"none", "ok", "failed"}]
  PROVE  IInv'
<1> USE SchedulerIs
<1>1. /\ pull' \in [Pullers -> PullState]
      /\ \A v \in Pullers : v # Scheduler => pull'[v] = pull[v]
  BY PullUpdate DEF IInv
<1>2. TypeOK'
  BY <1>1 DEF IInv, TypeOK
<1>3. \A w \in Pullers : PullOK(w)'
  BY <1>1, PullsKept
<1> QED
  BY <1>2, <1>3, RowsKept DEF IInv

\* The types of what the steps of the scheduled pull leave alone.
LEMMA Types ==
  ASSUME IInv
  PROVE  /\ today \in Nat /\ due \in BOOLEAN /\ stalls \in Nat /\ faults \in Nat
         /\ run \in RunState /\ run.day \in Nat
         /\ status \in [Tenants -> {"none", "ok", "failed"}]
         /\ rows \in [Tenants -> [Days -> Row]]
         /\ \A w \in Pullers : pull[w] \in PullState /\ pull[w].readOn \in Nat
         /\ \A t \in Tenants : okDay[t] \in Nat
<1>1. today \in Nat
  BY DEF IInv, TypeOK, Days
<1> QED
  BY <1>1 DEF IInv, TypeOK, RunState, PullState

LEMMA ScheduleStartInv == ASSUME IInv, ScheduleStart PROVE IInv'
<1> USE SchedulerIs, Types
<1>1. /\ run' = [on |-> TRUE, day |-> today, left |-> Tenants] /\ due' = FALSE
      /\ UNCHANGED <<today, campus, rows, status, stalls, pull, push, faults, okDay>>
      /\ \A c \in Clients : pull[c].pc = "idle" \/ pull[c].readOn = today
  BY DEF ScheduleStart
<1>2. pull[Scheduler].pc = "idle"
  BY DEF ScheduleStart, IInv, RunOK
<1>3. run' \in RunState
  BY <1>1 DEF RunState
<1>4. TypeOK'
  BY <1>1, <1>3 DEF IInv, TypeOK
<1>5. run'.on /\ run'.day = today
  BY <1>1
<1>6. RunOK'
  BY <1>1, <1>2, <1>5 DEF IInv, RunOK, OkDays
<1>7. SchedulerOK'
  BY <1>1, <1>2 DEF SchedulerOK
<1>8. \A w \in Pullers : PullOK(w)'
  BY <1>1 DEF IInv, PullOK, PulledDay
<1> QED
  BY <1>1, <1>4, <1>6, <1>7, <1>8, RowsKept DEF IInv

LEMMA SchedulePullInv ==
  ASSUME IInv, NEW t \in Tenants, SchedulePull(t) PROVE IInv'
<1> USE SchedulerIs, Types
<1> DEFINE A == Answer(t, WindowStart(run.day), run.day)
<1>1. /\ run.on /\ run' = [run EXCEPT !.left = run.left \ {t}]
      /\ UNCHANGED <<today, campus, rows, status, due, stalls, push, okDay>>
      /\ faults' \in Nat
  BY DEF SchedulePull, AgentCall, Fault, NoFault
<1>2. run' \in RunState /\ run'.on /\ run'.day = run.day
  BY <1>1 DEF RunState
<1>3. /\ A \in [Days -> Numbers]
      /\ \A d \in Days : /\ A[d].loans <= campus[t][d].loans
                         /\ HasActivity(A[d]) => A[d] = PulledDay(t, d)
                         /\ d \in WindowStart(run.day) .. run.day => A[d] = PulledDay(t, d)
  BY AnswerIs DEF IInv
<1>4. PICK p \in PullState : /\ pull' = [pull EXCEPT ![Scheduler] = p]
                             /\ p.pc \in {"upsert", "failed"} /\ p.tenant = t
                             /\ p.readOn = today
                             /\ p.pc = "upsert" => p.answer = A
  <2>1. CASE pull' = [pull EXCEPT ![Scheduler] =
                        [pc |-> "upsert", tenant |-> t, readOn |-> today, answer |-> A]]
    <3> HIDE DEF A
    <3>1. [pc |-> "upsert", tenant |-> t, readOn |-> today, answer |-> A] \in PullState
      BY <1>3 DEF PullState
    <3> QED
      BY <2>1, <3>1
  <2>2. CASE pull' = [pull EXCEPT ![Scheduler] =
                        [NoPull EXCEPT !.pc = "failed", !.tenant = t, !.readOn = today]]
    <3>1. [NoPull EXCEPT !.pc = "failed", !.tenant = t, !.readOn = today] \in PullState
      BY DEF NoPull, PullState, Zero, Numbers
    <3> QED
      BY <2>2, <3>1 DEF NoPull
  <2> QED
    BY <2>1, <2>2 DEF SchedulePull, AgentCall
<1>5. /\ pull'[Scheduler] = p
      /\ \A v \in Pullers : v # Scheduler => pull'[v] = pull[v]
  BY <1>4, PullUpdate DEF IInv
<1>6. PullOK(Scheduler)'
  BY <1>1, <1>3, <1>4, <1>5 DEF IInv, OkDays, PullOK, PulledDay
<1>7. RunOK'
  BY <1>1, <1>2, <1>4, <1>5 DEF IInv, RunOK
<1>8. SchedulerOK'
  <2>1. \A d \in Days : InRun(d)' => d \in WindowStart(run.day) .. run.day
    <3>1. WindowStart(run.day) \in Int /\ \A d \in Days : d \in Int
      BY DailyStatsAssumption DEF WindowStart, Days
    <3>2. \A d \in Days : InRun(d)' => d >= WindowStart(run.day) /\ d < run.day
      BY <1>2 DEF InRun, WindowStart
    <3> QED
      BY <3>1, <3>2
  <2> HIDE DEF A
  <2>2. p.pc = "upsert" => \A d \in Days : InRun(d)' => p.answer[d] = PulledDay(p.tenant, d)'
    BY <1>1, <1>3, <1>4, <2>1 DEF PulledDay
  <2> QED
    BY <1>4, <1>5, <2>2 DEF SchedulerOK, PulledDay
<1> QED
  BY <1>1, <1>2, <1>4, <1>6, <1>7, <1>8, SchedulerMoves

LEMMA ScheduleUpsertInv == ASSUME IInv, ScheduleUpsert PROVE IInv'
<1> USE SchedulerIs, Types
<1> DEFINE w == Scheduler
<1>1. /\ pull[w].pc = "upsert"
      /\ UNCHANGED <<today, campus, status, due, stalls, run, push, okDay>>
      /\ faults' \in Nat
  BY DEF ScheduleUpsert, Fault, NoFault
<1>2. PICK p \in PullState : /\ pull' = [pull EXCEPT ![w] = p]
                             /\ p.pc \in {"ok", "catch"}
                             /\ p.pc = "ok" => rows' = Upserted(pull[w].tenant, pull[w].answer)
                             /\ p.tenant = pull[w].tenant /\ p.readOn = pull[w].readOn
  BY PullStates DEF ScheduleUpsert, IInv
<1>3. /\ pull' \in [Pullers -> PullState] /\ pull'[w] = p
      /\ \A v \in Pullers : v # w => pull'[v] = pull[v]
  BY <1>2, PullUpdate DEF IInv
<1>4. /\ rows' \in [Tenants -> [Days -> Row]]
      /\ RowsBounded'
      /\ \A t \in Tenants, d \in Days : d < pull[w].readOn /\ Exact(t, d) => Exact(t, d)'
  <2>1. CASE rows' = Upserted(pull[w].tenant, pull[w].answer)
    BY <1>1, <2>1, UpsertRows
  <2>2. CASE rows' = rows
    BY <1>1, <2>2 DEF IInv, RowsBounded, Exact, PulledDay
  <2> QED
    BY <2>1, <2>2 DEF ScheduleUpsert
<1>5. TypeOK'
  BY <1>1, <1>3, <1>4 DEF IInv, TypeOK
<1>6. PullOK(w)'
  BY <1>1, <1>2, <1>3 DEF IInv, PullOK
<1>7. \A v \in Pullers : PullOK(v)'
  BY <1>1, <1>3, <1>6, PullsKept
<1>8. RunOK'
  BY <1>1, <1>2, <1>3 DEF IInv, RunOK
<1>9. (\A a \in Agents : PushOK(a)') /\ OkDays'
  BY <1>1 DEF IInv, PushOK, OkDays
<1>10. \A d \in Days : d \in Nat
  BY DEF Days
<1>11. SchedulerOK'
  <2>1. \A d \in Days : InRun(d)' <=> InRun(d)
    BY <1>1 DEF InRun, WindowStart
  <2>2. pull[w].tenant \in Tenants
    BY <1>1 DEF IInv, PullOK
  <2>3. ASSUME p.pc = "ok", NEW d \in Days, InRun(d), NEW t \in Tenants, t = pull[w].tenant
        PROVE  Exact(t, d)'
    <3>1. pull[w].answer[d] = PulledDay(t, d)
      BY <1>1, <2>3 DEF IInv, SchedulerOK
    <3> QED
      BY <1>1, <1>2, <2>3, <3>1, UpsertRows
  <2> QED
    BY <1>2, <1>3, <2>1, <2>2, <2>3 DEF SchedulerOK, Exact, PulledDay
<1>12. OkWindowIsExact'
  <2>1. \A t \in Tenants : okDay[t] <= pull[w].readOn
    BY <1>1 DEF IInv, PullOK
  <2> QED
    BY <1>1, <1>4, <1>10, <2>1 DEF IInv, OkWindowIsExact, WindowStart
<1> QED
  BY <1>4, <1>5, <1>7, <1>8, <1>9, <1>11, <1>12 DEF IInv

\* A pull that ends ok makes the days of its window exact.
LEMMA ScheduleReportInv == ASSUME IInv, ScheduleReport PROVE IInv'
<1> USE SchedulerIs, Types
<1> DEFINE w == Scheduler
           T == pull[w].tenant
<1>1. /\ pull[w].pc \in {"ok", "failed"}
      /\ UNCHANGED <<today, campus, rows, due, stalls, run, push>>
      /\ faults' \in Nat /\ status' \in [Tenants -> {"none", "ok", "failed"}]
  BY DEF ScheduleReport, Fault, NoFault
<1>2. /\ run.on /\ run.day <= today /\ T \in Tenants
      /\ \A c \in Clients : pull[c].pc # "idle" => run.day <= pull[c].readOn
      /\ \A t \in Tenants : okDay[t] <= run.day
  BY <1>1 DEF IInv, RunOK, PullOK
<1>3. /\ NoPull \in PullState /\ NoPull.pc = "idle"
      /\ [pull[w] EXCEPT !.pc = "catch"] \in PullState
      /\ [pull[w] EXCEPT !.pc = "catch"].pc = "catch"
      /\ [pull[w] EXCEPT !.pc = "catch"].tenant = T
      /\ [pull[w] EXCEPT !.pc = "catch"].readOn = pull[w].readOn
  BY PullStates DEF IInv
<1>4. CASE /\ okDay' = IF pull[w].pc = "ok" THEN [okDay EXCEPT ![T] = run.day] ELSE okDay
           /\ pull' = [pull EXCEPT ![w] = NoPull]
  <2>1. /\ pull' \in [Pullers -> PullState] /\ pull'[w] = NoPull
        /\ \A v \in Pullers : v # w => pull'[v] = pull[v]
    BY <1>3, <1>4, PullUpdate DEF IInv
  <2>2. okDay \in [Tenants -> Nat]
    BY DEF IInv, TypeOK
  <2>3. /\ okDay' \in [Tenants -> Nat]
        /\ \A t \in Tenants : \/ okDay'[t] = okDay[t]
                              \/ pull[w].pc = "ok" /\ t = T /\ okDay'[t] = run.day
    BY <1>2, <1>4, <2>2
  <2> HIDE DEF T
  <2>4. \A t \in Tenants : okDay'[t] <= run.day
    BY <1>2, <2>3
  <2>5. TypeOK'
    BY <1>1, <2>1, <2>3 DEF IInv, TypeOK
  <2>6. \A v \in Pullers : PullOK(v)'
    <3> SUFFICES ASSUME NEW v \in Pullers, pull'[v].pc # "idle"
                 PROVE  PullOK(v)'
      BY DEF PullOK
    <3>1. v \in Clients /\ pull'[v] = pull[v]
      BY <1>3, <2>1 DEF Pullers
    <3>2. \A t \in Tenants : okDay'[t] <= pull[v].readOn
      <4>1. run.day <= pull[v].readOn /\ \A t \in Tenants : okDay'[t] \in Nat
        BY <1>2, <2>3, <3>1
      <4> QED
        BY <2>4, <4>1
    <3> QED
      BY <1>1, <3>1, <3>2 DEF IInv, PullOK, PulledDay
  <2>7. RunOK' /\ OkDays'
    <3>1. \A t \in Tenants : okDay'[t] <= today
      <4>1. \A t \in Tenants : okDay'[t] \in Nat
        BY <2>3
      <4> QED
        BY <1>2, <2>4, <4>1
    <3> QED
      BY <1>1, <1>2, <1>3, <2>1, <2>4, <3>1 DEF RunOK, OkDays
  <2>8. SchedulerOK'
    BY <1>3, <2>1 DEF SchedulerOK
  <2>9. OkWindowIsExact'
    <3> SUFFICES ASSUME NEW t \in Tenants, NEW d \in Days,
                        d < okDay'[t], d >= WindowStart(okDay'[t])
                 PROVE  Exact(t, d)
      BY <1>1 DEF OkWindowIsExact, Exact, PulledDay, WindowStart
    <3>1. CASE okDay'[t] = okDay[t]
      BY <3>1 DEF IInv, OkWindowIsExact
    <3>2. CASE pull[w].pc = "ok" /\ t = T /\ okDay'[t] = run.day
      BY <3>2 DEF IInv, SchedulerOK, InRun, T
    <3> QED
      BY <2>3, <3>1, <3>2
  <2>10. RowsBounded' /\ \A a \in Agents : PushOK(a)'
    BY <1>1 DEF IInv, RowsBounded, PushOK
  <2> QED
    BY <2>5, <2>6, <2>7, <2>8, <2>9, <2>10 DEF IInv
<1>5. CASE pull' = [pull EXCEPT ![w].pc = "catch"] /\ okDay' = okDay
  <2>1. pull'[w] = [pull[w] EXCEPT !.pc = "catch"]
        /\ \A v \in Pullers : v # w => pull'[v] = pull[v]
    BY <1>3, <1>5, PullUpdate DEF IInv
  <2>2. PullOK(w)'
    BY <1>1, <1>3, <1>5, <2>1 DEF IInv, PullOK
  <2>3. RunOK' /\ SchedulerOK'
    BY <1>1, <1>3, <1>5, <2>1 DEF IInv, RunOK, SchedulerOK
  <2> QED
    BY <1>1, <1>3, <1>5, <2>2, <2>3, SchedulerMoves
<1> QED
  BY <1>4, <1>5 DEF ScheduleReport

\* A run that ends, however it does, leaves no reading of its own.
LEMMA RunEnds ==
  ASSUME IInv, UNCHANGED <<today, campus, rows, push, okDay>>,
         pull' = [pull EXCEPT ![Scheduler] = NoPull], run' = NoRun \/ run' = run,
         due' \in BOOLEAN, stalls' \in Nat, faults' \in Nat,
         status' \in [Tenants -> {"none", "ok", "failed"}]
  PROVE  IInv'
<1> USE SchedulerIs, Types
<1>1. NoPull \in PullState /\ NoPull.pc = "idle"
  BY PullStates DEF IInv
<1>2. NoRun \in RunState /\ ~NoRun.on
  BY DEF NoRun, RunState
<1>3. pull'[Scheduler] = NoPull /\ \A v \in Pullers : v # Scheduler => pull'[v] = pull[v]
  BY <1>1, PullUpdate DEF IInv
<1>4. PullOK(Scheduler)' /\ SchedulerOK'
  BY <1>1, <1>3 DEF PullOK, SchedulerOK
<1>5. RunOK'
  BY <1>1, <1>2, <1>3 DEF IInv, RunOK
<1> QED
  BY <1>1, <1>2, <1>4, <1>5, SchedulerMoves

LEMMA ScheduleCatchInv == ASSUME IInv, ScheduleCatch PROVE IInv'
<1> USE Types
<1>1. /\ UNCHANGED <<today, campus, rows, due, stalls, push, okDay>>
      /\ pull' = [pull EXCEPT ![Scheduler] = NoPull]
      /\ run' = NoRun \/ run' = run
      /\ faults' \in Nat /\ status' \in [Tenants -> {"none", "ok", "failed"}]
  BY DEF ScheduleCatch, Fault, NoFault
<1> QED
  BY <1>1, RunEnds

LEMMA ScheduleCrashInv == ASSUME IInv, ScheduleCrash PROVE IInv'
<1> USE Types
<1>1. /\ UNCHANGED <<today, campus, rows, status, push, okDay>>
      /\ pull' = [pull EXCEPT ![Scheduler] = NoPull]
      /\ run' = NoRun /\ due' \in BOOLEAN /\ stalls' \in Nat /\ faults' \in Nat
  <2>1. \/ stalls' = stalls + 1 /\ due' = TRUE
        \/ stalls' = stalls /\ due' = due
    BY Zenon DEF ScheduleCrash
  <2>2. faults' = faults + 1
    BY DEF ScheduleCrash, Fault
  <2>3. stalls' \in Nat /\ due' \in BOOLEAN
    <3>1. CASE stalls' = stalls + 1 /\ due' = TRUE
      BY <3>1
    <3>2. CASE stalls' = stalls /\ due' = due
      BY <3>2
    <3> QED
      BY <2>1, <3>1, <3>2
  <2> QED
    BY <2>2, <2>3 DEF ScheduleCrash
<1> QED
  BY <1>1, RunEnds

LEMMA ScheduleEndInv == ASSUME IInv, ScheduleEnd PROVE IInv'
<1> USE Types
<1>1. /\ pull[Scheduler].pc = "idle" /\ run' = NoRun
      /\ UNCHANGED <<today, campus, rows, status, due, stalls, pull, push, faults, okDay>>
  BY DEF ScheduleEnd
<1>2. NoRun \in RunState /\ ~NoRun.on
  BY DEF NoRun, RunState
<1>3. TypeOK'
  BY <1>1, <1>2 DEF IInv, TypeOK
<1>4. RunOK' /\ SchedulerOK'
  BY <1>1, <1>2 DEF RunOK, SchedulerOK
<1>5. \A w \in Pullers : PullOK(w)'
  BY <1>1 DEF IInv, PullOK, PulledDay
<1> QED
  BY <1>1, <1>3, <1>4, <1>5, RowsKept DEF IInv

\* A step that moves nothing but one agent's payload.
LEMMA PushMoves ==
  ASSUME IInv, NEW a \in Agents, NEW p \in PushState, push' = [push EXCEPT ![a] = p],
         p.pc # "idle" => p.tenant \in Tenants /\ p.is.loans <= campus[p.tenant][p.day].loans,
         UNCHANGED <<today, campus, status, due, stalls, run, pull, okDay>>, faults' \in Nat,
         rows' \in [Tenants -> [Days -> Row]], RowsBounded',
         \A t \in Tenants, d \in Days : Exact(t, d) => Exact(t, d)'
  PROVE  IInv'
<1> USE SchedulerIs
<1>1. /\ push' \in [Agents -> PushState] /\ push'[a] = p
      /\ \A b \in Agents : b # a => push'[b] = push[b]
  BY DEF IInv, TypeOK
<1>2. TypeOK'
  BY <1>1 DEF IInv, TypeOK
<1>3. \A b \in Agents : PushOK(b)'
  BY <1>1 DEF IInv, PushOK
<1>4. (\A w \in Pullers : PullOK(w)') /\ RunOK' /\ OkDays'
  BY DEF IInv, PullOK, RunOK, OkDays, PulledDay
<1>5. SchedulerOK'
  <2>1. \A d \in Days : InRun(d)' <=> InRun(d)
    BY DEF InRun, WindowStart
  <2>2. pull[Scheduler].pc # "idle" => pull[Scheduler].tenant \in Tenants
    BY DEF IInv, PullOK
  <2>3. ASSUME pull[Scheduler].pc = "ok", NEW d \in Days, InRun(d),
               NEW t \in Tenants, t = pull[Scheduler].tenant
        PROVE  Exact(t, d)'
    BY <2>3 DEF IInv, SchedulerOK
  <2> QED
    BY <2>1, <2>2, <2>3 DEF IInv, SchedulerOK, Exact, PulledDay
<1>6. OkWindowIsExact'
  BY DEF IInv, OkWindowIsExact, WindowStart
<1> QED
  BY <1>2, <1>3, <1>4, <1>5, <1>6 DEF IInv

LEMMA PushBeginInv ==
  ASSUME IInv, NEW a \in Agents, NEW s \in Sent, PushBegin(a, s[1], s[2])
  PROVE  IInv'
<1> DEFINE t == s[1]
           d == s[2]
           n == PushedDay(t, d)
           p == [pc |-> "insert", tenant |-> t, day |-> d, is |-> n]
<1>1. /\ push' = [push EXCEPT ![a] = p]
      /\ UNCHANGED <<today, campus, rows, status, due, stalls, run, pull, faults, okDay>>
  BY DEF PushBegin
<1>2. t \in Tenants /\ d \in Days
  BY DailyStatsAssumption
<1>3. n \in Numbers /\ n.loans = campus[t][d].loans /\ campus[t][d].loans \in Nat
  BY <1>2, DaySays DEF IInv
<1>4. p \in PushState /\ p.tenant = t /\ p.day = d /\ p.is = n
  <2> HIDE DEF n, t, d
  <2> QED
    BY <1>2, <1>3 DEF PushState
<1>5. p.tenant \in Tenants /\ p.is.loans <= campus[p.tenant][p.day].loans
  BY <1>2, <1>3, <1>4
<1>6. /\ faults' \in Nat /\ rows' \in [Tenants -> [Days -> Row]] /\ RowsBounded'
      /\ \A u \in Tenants, e \in Days : Exact(u, e) => Exact(u, e)'
  BY <1>1 DEF IInv, TypeOK, RowsBounded, Exact, PulledDay
<1> HIDE DEF p
<1> QED
  BY <1>1, <1>4, <1>5, <1>6, PushMoves

\* A push fills a day without a row: an exact day without a row is one that the
\* pull finds without activity, and so without a loan.
LEMMA PushInsertInv == ASSUME IInv, NEW a \in Agents, PushInsert(a) PROVE IInv'
<1> DEFINE T == push[a].tenant
           D == push[a].day
           R == [stored |-> TRUE, is |-> push[a].is]
<1>1. /\ push[a].pc = "insert" /\ push' = [push EXCEPT ![a] = NoPush]
      /\ UNCHANGED <<today, campus, status, due, stalls, run, pull, okDay>>
      /\ faults' \in Nat
      /\ \/ ~rows[T][D].stored /\ rows' = [rows EXCEPT ![T][D] = R]
         \/ rows' = rows
  BY Types DEF PushInsert, Fault, NoFault
<1>2. /\ NoPush \in PushState /\ NoPush.pc = "idle"
  <2>1. 1 \in Days
    BY DailyStatsAssumption DEF Days
  <2> QED
    BY <2>1 DEF NoPush, PushState, Zero, Numbers
<1>3. /\ T \in Tenants /\ D \in Days /\ R.is.loans \in Nat
      /\ R.is.loans <= campus[T][D].loans /\ campus[T][D].loans \in Nat
      /\ R \in Row /\ R.stored
  <2>1. push[a] \in PushState
    BY DEF IInv, TypeOK
  <2>2. T \in Tenants /\ push[a].is.loans <= campus[T][D].loans
    BY <1>1 DEF IInv, PushOK
  <2>3. D \in Days /\ push[a].is \in Numbers
    BY <2>1 DEF PushState
  <2>4. campus[T][D].loans \in Nat
    BY <2>2, <2>3, DaySays DEF IInv
  <2> QED
    BY <2>2, <2>3, <2>4 DEF Row, Numbers
<1>4. rows \in [Tenants -> [Days -> Row]]
  BY DEF IInv, TypeOK
<1> HIDE DEF T, D, R
<1>5. rows' \in [Tenants -> [Days -> Row]]
  BY <1>1, <1>3, <1>4
<1>6. \A u \in Tenants, e \in Days :
        \/ rows'[u][e] = rows[u][e]
        \/ u = T /\ e = D /\ ~rows[u][e].stored /\ rows'[u][e] = R
  BY <1>1, <1>3, <1>4
<1>7. RowsBounded'
  <2> SUFFICES ASSUME NEW u \in Tenants, NEW e \in Days, rows'[u][e].stored
               PROVE  rows'[u][e].is.loans <= campus[u][e].loans
    BY <1>1 DEF RowsBounded
  <2>1. CASE rows'[u][e] = rows[u][e]
    BY <2>1 DEF IInv, RowsBounded
  <2>2. CASE u = T /\ e = D /\ rows'[u][e] = R
    BY <1>3, <2>2
  <2> QED
    BY <1>6, <2>1, <2>2
<1>8. ASSUME NEW u \in Tenants, NEW e \in Days, Exact(u, e)
      PROVE  Exact(u, e)'
  <2>1. CASE rows'[u][e] = rows[u][e]
    BY <1>1, <1>8, <2>1 DEF Exact, PulledDay
  <2>2. CASE u = T /\ e = D /\ ~rows[u][e].stored /\ rows'[u][e] = R
    <3>1. ~HasActivity(PulledDay(u, e))
      BY <1>8, <2>2 DEF Exact
    <3>2. campus[u][e].loans = 0
      BY <3>1, DaySays DEF Zero, IInv
    <3>3. R.is.loans = 0
      BY <1>3, <2>2, <3>2
    <3>4. PulledDay(u, e)' = PulledDay(u, e) /\ campus'[u][e].loans = 0
      BY <1>1, <3>2 DEF PulledDay
    <3>5. ~HasActivity(PulledDay(u, e)')
      BY <3>1, <3>4
    <3> QED
      BY <2>2, <3>3, <3>4, <3>5 DEF Exact
  <2> QED
    BY <1>6, <2>1, <2>2
<1> QED
  BY <1>1, <1>2, <1>5, <1>7, <1>8, PushMoves

-----------------------------------------------------------------------------
(* The theorems.                                                           *)

\* Stuttering steps keep the invariant.
LEMMA StutterInv == ASSUME IInv, UNCHANGED vars PROVE IInv'
<1>1. TypeOK'
  BY DEF vars, IInv, TypeOK
<1>2. (\A w \in Pullers : PullOK(w)') /\ RunOK' /\ SchedulerOK'
  BY DEF vars, IInv, PullOK, RunOK, SchedulerOK, InRun, WindowStart, Exact, PulledDay
<1> QED
  BY <1>1, <1>2, RowsKept DEF vars, IInv

\* IInv is inductive: every state of every behaviour satisfies it.
THEOREM DailyInvariance == Spec => []IInv
<1>1. Init => IInv
  BY InitInv
<1>2. IInv /\ [Next]_vars => IInv'
  <2> SUFFICES ASSUME IInv, [Next]_vars PROVE IInv'
    OBVIOUS
  <2>1. ASSUME NEW t \in Tenants, Visit(t) PROVE IInv'
    BY <2>1, VisitInv
  <2>2. CASE NextDay
    BY <2>2, NextDayInv
  <2>3. CASE ScheduleStep
    BY <2>3, ScheduleStartInv, ScheduleUpsertInv, ScheduleReportInv, ScheduleCatchInv,
       ScheduleEndInv, SchedulePullInv DEF ScheduleStep
  <2>4. CASE ScheduleCrash
    BY <2>4, ScheduleCrashInv
  <2>5. ASSUME NEW c \in Clients, NEW r \in Asked, PullNow(c, r)
        PROVE  IInv'
    BY <2>5, PullNowInv
  <2>6. ASSUME NEW c \in Clients, PullNowStep(c) PROVE IInv'
    BY <2>6, PullNowUpsertInv, PullNowReportInv DEF PullNowStep
  <2>7. ASSUME NEW a \in Agents, NEW s \in Sent, PushBegin(a, s[1], s[2])
        PROVE  IInv'
    BY <2>7, PushBeginInv
  <2>8. ASSUME NEW a \in Agents, PushInsert(a) PROVE IInv'
    BY <2>8, PushInsertInv
  <2>9. CASE UNCHANGED vars
    BY <2>9, StutterInv
  <2> QED
    BY <2>1, <2>2, <2>3, <2>4, <2>5, <2>6, <2>7, <2>8, <2>9 DEF Next
<1> QED
  BY <1>1, <1>2, PTL DEF Spec

\* The variables keep their types, whatever the numbers of days, tenants, agents
\* and clients: no row, answer or payload is ever negative or of no day.
THEOREM DailyTypeCorrect == Spec => []TypeOK
<1>1. IInv => TypeOK
  BY DEF IInv
<1> QED
  BY <1>1, DailyInvariance, PTL

\* The closed days of a window that was pulled ok are right and stay right, in the
\* columns pull and push compute alike and in the pull's own numbers of an active
\* day (the upsert of daily-stats-bulk.ts, the duplicate check of the push route).
THEOREM OkWindowExact == Spec => []OkWindowIsExact
<1>1. IInv => OkWindowIsExact
  BY DEF IInv
<1> QED
  BY <1>1, DailyInvariance, PTL
=============================================================================
