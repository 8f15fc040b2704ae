----------------------------- MODULE DailyStats -----------------------------
(***************************************************************************)
(* The values of a day in daily_stats_v2 and everybody who writes them:    *)
(* the agent's push (stored once), the scheduled pull of the last days of  *)
(* every connected tenant, and pulls over a range that a user asks for (or *)
(* a backfill chunk, which does the same to a day).  The numbers of a day  *)
(* grow while the day lasts, each reader sees them at another moment, and  *)
(* a reading is stored some time after it was made.                        *)
(*                                                                         *)
(* Two columns stand for the daily ones.  loans is a number that the pull  *)
(* and the push compute alike (loan_count, new_member_count).  visitors is *)
(* one that each computes in its own way: the pull from visitor_log, the   *)
(* push from visitor_count, with predicates that differ for other columns. *)
(* The snapshot columns, the numbers that the pull sends as 0 and the      *)
(* flags are left out; AnomalyFlags has the flags.                         *)
(***************************************************************************)
EXTENDS Integers

CONSTANTS
  Tenants,      \* connected tenants
  Clients,      \* requests and backfill workers that pull a range
  Agents,       \* agent processes that push a day
  None,         \* no tenant
  LastDay,      \* bound: the days of a behaviour are 1 .. LastDay
  MaxCount,     \* bound on each number of a day
  Open,         \* the days on which a library has visitors and loans, <<tenant, day>>
  Asked,        \* the pulls that are asked for, <<tenant, from, to>>
  Sent,         \* the days that agents push, <<tenant, day>>
  Lookback,     \* PULL_LOOKBACK_DAYS
  MaxStalled,   \* how often BullMQ redelivers a stalled job
  MaxFaults     \* bound on failed calls and crashes

Days == 1 .. LastDay

ASSUME DailyStatsAssumption ==
  /\ LastDay \in Nat \ {0} /\ MaxCount \in Nat /\ Lookback \in Nat \ {0}
  /\ MaxStalled \in Nat /\ MaxFaults \in Nat
  /\ Open \subseteq Tenants \X Days /\ Sent \subseteq Tenants \X Days
  /\ Asked \subseteq {r \in Tenants \X Days \X Days : r[2] <= r[3]}
  /\ None \notin Tenants
  /\ "scheduler" \notin Clients

VARIABLES
  today,   \* the day it is
  campus,  \* the numbers of each day in the tenant's SLiMS
  rows,    \* daily_stats_v2
  status,  \* tenants.last_pull_status
  due,     \* the scheduled-pull queue holds a job
  stalls,  \* redeliveries of that job
  run,     \* the scheduled pull: its day and the tenants it has not begun
  pull,    \* per puller: the answer it holds
  push,    \* per agent process: the payload on its way
  faults,  \* failed calls and crashes so far
  okDay    \* history: the day of the tenant's last scheduled pull that ended ok

vars == <<today, campus, rows, status, due, stalls, run, pull, push, faults, okDay>>

Scheduler == "scheduler"
Pullers   == Clients \cup {Scheduler}
\* The numbers of a day: those both compute alike, the visitor_log and the visitor_count.
Counts    == [loans: Nat, logged: Nat, counted: Nat]
NoCounts  == [loans |-> 0, logged |-> 0, counted |-> 0]
\* What a reading holds and a row stores.
Numbers   == [loans: Nat, visitors: Nat]
Zero      == [loans |-> 0, visitors |-> 0]
Row       == [stored: BOOLEAN, is: Numbers]
\* Mistake: a day without a row counts as negative.
NoRowNegative == [stored |-> FALSE, is |-> [loans |-> -1, visitors |-> 0]]

NoRow     == [stored |-> FALSE, is |-> Zero]

PullState == [pc: {"idle", "upsert", "ok", "failed", "catch"},
              tenant: Tenants \cup {None}, readOn: Nat, answer: [Days -> Numbers]]
NoPull    == [pc |-> "idle", tenant |-> None, readOn |-> 0, answer |-> [d \in Days |-> Zero]]
PushState == [pc: {"idle", "insert"}, tenant: Tenants \cup {None}, day: Days, is: Numbers]
NoPush    == [pc |-> "idle", tenant |-> None, day |-> 1, is |-> Zero]
RunState  == [on: BOOLEAN, day: Nat, left: SUBSET Tenants]
NoRun     == [on |-> FALSE, day |-> 0, left |-> {}]

TypeOK ==
  /\ today \in Days
  /\ campus \in [Tenants -> [Days -> Counts]]
  /\ rows \in [Tenants -> [Days -> Row]]
  /\ status \in [Tenants -> {"none", "ok", "failed"}]
  /\ due \in BOOLEAN
  /\ stalls \in Nat
  /\ run \in RunState
  /\ pull \in [Pullers -> PullState]
  /\ push \in [Agents -> PushState]
  /\ faults \in Nat
  /\ okDay \in [Tenants -> Nat]

Init ==
  /\ today = 1
  /\ campus = [t \in Tenants |-> [d \in Days |-> NoCounts]]
  /\ rows = [t \in Tenants |-> [d \in Days |-> NoRow]]
  /\ status = [t \in Tenants |-> "none"]
  /\ due = FALSE
  /\ stalls = 0
  /\ run = NoRun
  /\ pull = [w \in Pullers |-> NoPull]
  /\ push = [a \in Agents |-> NoPush]
  /\ faults = 0
  /\ okDay = [t \in Tenants |-> 0]

\* A call that fails.
Fault == faults < MaxFaults /\ faults' = faults + 1
NoFault == UNCHANGED faults

-----------------------------------------------------------------------------
(* The campus and the calendar.                                            *)

\* A loan, or a visitor in one of the two tables: only the day that lasts gains.
Visit(t) ==
  /\ <<t, today>> \in Open
  /\ \E count \in {"loans", "logged", "counted"} :
       /\ campus[t][today][count] < MaxCount
       /\ campus' = [campus EXCEPT ![t][today][count] = @ + 1]
  /\ UNCHANGED <<today, rows, status, due, stalls, run, pull, push, faults, okDay>>

\* The day turns, and the job scheduler of BullMQ adds the day's job.  A run
\* takes less than a day: the job of a day has been taken when the day ends.
NextDay ==
  /\ today < LastDay
  /\ ~due
  /\ today' = today + 1
  /\ due' = TRUE
  /\ stalls' = 0
  /\ UNCHANGED <<campus, rows, status, run, pull, push, faults, okDay>>

-----------------------------------------------------------------------------
(* What all pulls share.                                                   *)

\* What a pull and a push say of a day.
PulledDay(t, d) == [loans |-> campus[t][d].loans, visitors |-> campus[t][d].logged]
PushedDay(t, d) == [loans |-> campus[t][d].loans, visitors |-> campus[t][d].counted]

\* dayHasActivity: the two numbers stand for its eight keys.
HasActivity(n) == n.loans > 0 \/ n.visitors > 0

\* The agent's answer for a range; a day of zeros is one that it leaves out.
Answer(t, from, to) == [d \in Days |-> IF d \in from .. to THEN PulledDay(t, d) ELSE Zero]

\* Mistake: the conflict clause does nothing instead of overwriting.
UpsertedOnce(t, answer) ==
  [rows EXCEPT ![t] = [d \in Days |->
     IF HasActivity(answer[d]) /\ ~rows[t][d].stored THEN [stored |-> TRUE, is |-> answer[d]]
     ELSE rows[t][d]]]

\* bulkUpsertDailyStatsV2: a day of the answer replaces the row.
Upserted(t, answer) ==
  [rows EXCEPT ![t] = [d \in Days |->
     IF HasActivity(answer[d]) THEN [stored |-> TRUE, is |-> answer[d]] ELSE rows[t][d]]]

\* The call to the agent, which answers, or fails or times out.
AgentCall(w, t, from, to) ==
  /\ \/ /\ NoFault
        /\ pull' = [pull EXCEPT ![w] = [pc |-> "upsert", tenant |-> t, readOn |-> today,
                                        answer |-> Answer(t, from, to)]]
     \/ /\ Fault
        /\ pull' = [pull EXCEPT ![w] = [NoPull EXCEPT !.pc = "failed", !.tenant = t,
                                                      !.readOn = today]]
  /\ UNCHANGED <<today, campus, rows, status, due, stalls, push, okDay>>

-----------------------------------------------------------------------------
(* Pull-now in immediate mode, and a chunk of a backfill.                  *)

PullNow(c, r) ==
  /\ pull[c].pc = "idle"
  /\ AgentCall(c, r[1], r[2], r[3])
  /\ UNCHANGED run

\* A database error ends the request with 500.
PullNowUpsert(c) ==
  /\ pull[c].pc = "upsert"
  /\ \/ /\ NoFault
        /\ rows' = Upserted(pull[c].tenant, pull[c].answer)
        /\ pull' = [pull EXCEPT ![c].pc = "ok"]
     \/ /\ Fault
        /\ pull' = [pull EXCEPT ![c] = NoPull]
        /\ UNCHANGED rows
  /\ UNCHANGED <<today, campus, status, due, stalls, run, push, okDay>>

PullNowReport(c) ==
  /\ pull[c].pc \in {"ok", "failed"}
  /\ pull' = [pull EXCEPT ![c] = NoPull]
  /\ \/ NoFault /\ status' = [status EXCEPT ![pull[c].tenant] = pull[c].pc]
     \/ Fault /\ UNCHANGED status
  /\ UNCHANGED <<today, campus, rows, due, stalls, run, push, okDay>>

-----------------------------------------------------------------------------
(* The scheduled pull: runScheduledPull and its BullMQ worker.             *)

\* Mistake: the window begins with today.
WindowStartToday(day) == day

\* The first day of the window of a run.
WindowStart(day) == day - (Lookback - 1)

\* The worker takes the job, lists the connected tenants and fixes the window.
\* The run begins two hours after the day turned and a call to the agent lasts
\* at most a minute: no answer of another day is on its way.
ScheduleStart ==
  /\ due /\ ~run.on
  /\ \A c \in Clients : pull[c].pc = "idle" \/ pull[c].readOn = today
  /\ due' = FALSE
  /\ run' = [on |-> TRUE, day |-> today, left |-> Tenants]
  /\ UNCHANGED <<today, campus, rows, status, stalls, pull, push, faults, okDay>>

SchedulePull(t) ==
  /\ run.on /\ pull[Scheduler].pc = "idle"
  /\ t \in run.left
  /\ run' = [run EXCEPT !.left = @ \ {t}]
  /\ AgentCall(Scheduler, t, WindowStart(run.day), run.day)

\* An error of the database goes to the catch block of the tenant.
ScheduleUpsert ==
  /\ pull[Scheduler].pc = "upsert"
  /\ \/ /\ NoFault
        /\ rows' = Upserted(pull[Scheduler].tenant, pull[Scheduler].answer)
        /\ pull' = [pull EXCEPT ![Scheduler].pc = "ok"]
     \/ /\ Fault
        /\ pull' = [pull EXCEPT ![Scheduler].pc = "catch"]
        /\ UNCHANGED rows
  /\ UNCHANGED <<today, campus, status, due, stalls, run, push, okDay>>

\* The status update, of a success or of the agent's failure.
ScheduleReport ==
  LET t == pull[Scheduler].tenant IN
  /\ pull[Scheduler].pc \in {"ok", "failed"}
  /\ \/ /\ NoFault
        /\ status' = [status EXCEPT ![t] = pull[Scheduler].pc]
        /\ okDay' = IF pull[Scheduler].pc = "ok" THEN [okDay EXCEPT ![t] = run.day] ELSE okDay
        /\ pull' = [pull EXCEPT ![Scheduler] = NoPull]
     \/ /\ Fault
        /\ pull' = [pull EXCEPT ![Scheduler].pc = "catch"]
        /\ UNCHANGED <<status, okDay>>
  /\ UNCHANGED <<today, campus, rows, due, stalls, run, push>>

\* The catch block updates the status too; when that throws, nothing catches it
\* and the job fails, with whatever tenants are left.
ScheduleCatch ==
  /\ pull[Scheduler].pc = "catch"
  /\ pull' = [pull EXCEPT ![Scheduler] = NoPull]
  /\ \/ /\ NoFault
        /\ status' = [status EXCEPT ![pull[Scheduler].tenant] = "failed"]
        /\ UNCHANGED run
     \/ /\ Fault
        /\ run' = NoRun
        /\ UNCHANGED status
  /\ UNCHANGED <<today, campus, rows, due, stalls, push, okDay>>

ScheduleEnd ==
  /\ run.on /\ run.left = {} /\ pull[Scheduler].pc = "idle"
  /\ run' = NoRun
  /\ UNCHANGED <<today, campus, rows, status, due, stalls, pull, push, faults, okDay>>

\* The worker process dies: BullMQ finds the job stalled and hands it out again,
\* or gives it up.
ScheduleCrash ==
  /\ run.on
  /\ Fault
  /\ run' = NoRun
  /\ pull' = [pull EXCEPT ![Scheduler] = NoPull]
  /\ \/ stalls < MaxStalled /\ stalls' = stalls + 1 /\ due' = TRUE
     \/ stalls >= MaxStalled /\ UNCHANGED <<stalls, due>>
  /\ UNCHANGED <<today, campus, rows, status, push, okDay>>

-----------------------------------------------------------------------------
(* A push: POST /api/v2/aggregate.                                         *)

\* The agent computes the numbers of a day and sends them.
PushBegin(a, t, d) ==
  /\ push[a].pc = "idle"
  /\ d <= today
  /\ push' = [push EXCEPT ![a] = [pc |-> "insert", tenant |-> t, day |-> d,
                                  is |-> PushedDay(t, d)]]
  /\ UNCHANGED <<today, campus, rows, status, due, stalls, run, pull, faults, okDay>>

\* insertDailyStatV2: a day that has a row is a duplicate (409), any other error
\* a 500; the row stays as it is.
PushInsert(a) ==
  LET p == push[a] IN
  /\ p.pc = "insert"
  /\ push' = [push EXCEPT ![a] = NoPush]
  /\ \/ /\ NoFault /\ ~rows[p.tenant][p.day].stored
        /\ rows' = [rows EXCEPT ![p.tenant][p.day] = [stored |-> TRUE, is |-> p.is]]
     \/ NoFault /\ rows[p.tenant][p.day].stored /\ UNCHANGED rows
     \/ Fault /\ UNCHANGED rows
  /\ UNCHANGED <<today, campus, status, due, stalls, run, pull, okDay>>

-----------------------------------------------------------------------------
ScheduleStep == \/ ScheduleStart \/ ScheduleUpsert \/ ScheduleReport \/ ScheduleCatch
                \/ ScheduleEnd \/ \E t \in Tenants : SchedulePull(t)
PullNowStep(c) == PullNowUpsert(c) \/ PullNowReport(c)

Next ==
  \/ \E t \in Tenants : Visit(t)
  \/ NextDay
  \/ ScheduleStep
  \/ ScheduleCrash
  \/ \E c \in Clients : \/ \E r \in Asked : PullNow(c, r)
                        \/ PullNowStep(c)
  \/ \E a \in Agents : \/ \E s \in Sent : PushBegin(a, s[1], s[2])
                       \/ PushInsert(a)

Spec == Init /\ [][Next]_vars

\* Days pass, requests end, and the worker is restarted by its supervisor.
FairSpec == /\ Spec
            /\ WF_vars(NextDay)
            /\ WF_vars(ScheduleStep)
            /\ \A c \in Clients : WF_vars(PullNowStep(c))

-----------------------------------------------------------------------------
(* Properties                                                              *)

\* The row of a day has the campus's number in the columns that pull and push
\* compute alike, and a day that the pull finds active holds all that it says of it.
Exact(t, d) ==
  /\ rows[t][d].stored => rows[t][d].is.loans = campus[t][d].loans
  /\ HasActivity(PulledDay(t, d)) => rows[t][d].stored /\ rows[t][d].is = PulledDay(t, d)

\* Once a scheduled pull has ended ok, the days of its window that were over are
\* right, and stay right: no push made at noon, no pull that was read earlier and
\* no failed pull leaves or puts another number there.  The claim is about the
\* columns both sides compute alike, and about the pull's own daily numbers of an
\* active day; it is not about the snapshot columns, which a later pull changes,
\* nor the columns that the pull sends as 0, nor the visitors of a day that only
\* the push finds.  (runScheduledPull, the upsert and the duplicate check of the
\* push route.)
OkWindowIsExact ==
  \A t \in Tenants, d \in Days :
     d < okDay[t] /\ d >= WindowStart(okDay[t]) => Exact(t, d)

\* The lookback heals: every day whose window lies within the behaviour ends up
\* with its final numbers, in the sense of Exact, although a push stored it
\* half-way, a pull overwrote it with an older reading, or runs failed or were
\* killed, also by the error that the catch block of another tenant throws, as
\* long as those are fewer than the windows that see the day closed.
ClosedDaysBecomeFinal ==
  \A t \in Tenants, d \in Days :
     d + Lookback - 1 <= LastDay => <>[]Exact(t, d)

=============================================================================
