---------------------------- MODULE AnomalyFlags ----------------------------
(***************************************************************************)
(* The anomaly flags of the rows of daily_stats_v2: the rules of the       *)
(* cloud, the rules of the agent they replace (AnomalyTagger.php), and the *)
(* three writers of the flags: a push computes them from the rows that are *)
(* stored at that moment, a pull stores rows without flags, and the        *)
(* maintenance script recomputes the flags of every row, day by day, while *)
(* the other two go on.                                                    *)
(*                                                                         *)
(* One tenant stands for all: no statement looks at another tenant's rows. *)
(* The days are over, so the campus's numbers no longer change; how a      *)
(* reading ages while its day lasts is the subject of DailyStats.          *)
(***************************************************************************)
EXTENDS Integers, FiniteSets, Functions

CONSTANTS
  LastDay,    \* bound: the days are 1 .. LastDay
  Window,     \* BASELINE_WINDOW_DAYS
  Weekdays,   \* Monday to Friday
  DayNumbers, \* bound: what a day of the campus can look like
  Agents,     \* pushes that can be in progress
  Ranges,     \* the ranges of days that are pulled, <<from, to>>
  Years,      \* what the script is run for: sets of days
  MaxFaults   \* bound: calls to the database that fail

Days    == 1 .. LastDay
Metrics == {"visitor", "loan", "overdue"}
Numbers == [visitor: Nat, loan: Nat, overdue: Nat]

\* A day of the campus: the numbers a push sends (MetricsCollector), the visitors a
\* pull counts, which it takes from another table, whether any of the eight numbers
\* is positive that a pull looks at (dayHasActivity), and the loans that are out.
DayState == [own: Numbers, logged: Nat, active: BOOLEAN, lent: Nat]

ASSUME AnomalyAssumption ==
  /\ LastDay \in Nat \ {0} /\ Window \in Nat \ {0} /\ MaxFaults \in Nat
  /\ Weekdays \subseteq Days
  /\ DayNumbers \subseteq {n \in DayState : n.own.loan > 0 \/ n.logged > 0 => n.active}
  /\ Ranges \subseteq {r \in Days \X Days : r[1] <= r[2]}
  /\ Years \subseteq SUBSET Days

VARIABLES
  campus,  \* per day: what the agent reads of it
  rows,    \* daily_stats_v2: per day whether it is stored, and its numbers
  flags,   \* anomaly_flags of the rows
  push,    \* per push: where it is
  script,  \* recompute-anomalies
  faults,  \* failed calls so far
  touched  \* history: a row was stored since the script made its list

vars == <<campus, rows, flags, push, script, faults, touched>>

Flags   == {"visitor_spike", "zero_visitors_weekday", "loan_spike", "overdue_spike"}
Nothing == [visitor |-> 0, loan |-> 0, overdue |-> 0]
Row     == [stored: BOOLEAN, is: Numbers]
NoRow   == [stored |-> FALSE, is |-> Nothing]

PushState   == [pc: {"idle", "flags", "insert"}, day: Days, flags: SUBSET Flags]
ScriptState == [pc: {"idle", "next", "flags", "update", "done"}, listed: SUBSET Days,
                left: SUBSET Days, day: Days, is: Numbers, flags: SUBSET Flags]
NoPush      == [pc |-> "idle", day |-> 1, flags |-> {}]
NoScript    == [pc |-> "idle", listed |-> {}, left |-> {}, day |-> 1, is |-> Nothing,
                flags |-> {}]

TypeOK ==
  /\ campus \in [Days -> DayState]
  /\ rows \in [Days -> Row]
  /\ flags \in [Days -> SUBSET Flags]
  /\ push \in [Agents -> PushState]
  /\ script \in ScriptState
  /\ faults \in Nat
  /\ touched \in BOOLEAN

Init ==
  /\ campus \in [Days -> DayNumbers]
  /\ rows = [d \in Days |-> NoRow]
  /\ flags = [d \in Days |-> {}]
  /\ push = [a \in Agents |-> NoPush]
  /\ script = NoScript
  /\ faults = 0
  /\ touched = FALSE

Fault   == faults < MaxFaults /\ faults' = faults + 1
NoFault == UNCHANGED faults

-----------------------------------------------------------------------------
(* The rules.  A mean is compared without dividing by the number of days.  *)

\* The days before a day; the day itself does not count.
WindowOf(day) == (day - Window) .. (day - 1)

\* Mistake: the day itself is part of its baseline.
BaselineOfToday(rs, day) == {e \in (day - Window) .. day : e \in Days /\ rs[e].stored}

\* loadBaselines: a day without a row does not count.
Baseline(rs, day) == {e \in WindowOf(day) : e \in Days /\ rs[e].stored}

SumOf(f, es) == FoldFunctionOnSet(+, 0, f, es)
Total(rs, k, es) == SumOf([e \in Days |-> rs[e].is[k]], es)

\* Mistake: a flag of a name that the readers of the column do not know.
SpikeOfMetric == [visitor |-> "visitor_spike", loan |-> "loan_spike", overdue |-> "overdue"]

SpikeOf   == [visitor |-> "visitor_spike", loan |-> "loan_spike", overdue |-> "overdue_spike"]
Threshold == [visitor |-> 2, loan |-> 2, overdue |-> 3]

\* Mistake: no minimum-baseline guard, and no row counts as a mean of 0.
SpikesUnguarded(rs, day, n) ==
  {SpikeOf[k] : k \in {m \in Metrics :
     LET es == Baseline(rs, day) IN
     \/ n[m] * Cardinality(es) > Threshold[m] * Total(rs, m, es)
     \/ Total(rs, m, es) = 0 /\ n[m] > 0}}

\* Three of the rules of applyRules; a mean of 0 is no baseline.
Spikes(rs, day, n) ==
  {SpikeOf[k] : k \in {m \in Metrics :
     LET es == Baseline(rs, day) IN
     /\ Total(rs, m, es) > 0
     /\ n[m] * Cardinality(es) > Threshold[m] * Total(rs, m, es)}}

ZeroOnWeekday(day, n) ==
  IF n.visitor = 0 /\ day \in Weekdays THEN {"zero_visitors_weekday"} ELSE {}

\* applyRules.
Rules(rs, day, n) == Spikes(rs, day, n) \cup ZeroOnWeekday(day, n)

\* The agent's rules, which asked SLiMS for each of the days of the window: every
\* day counts, and there is no minimum.  (computeBaseline, detectAnomalies)
CampusTotal(k, day) ==
  SumOf([e \in Days |-> campus[e].own[k]], WindowOf(day) \cap Days)
DetectAnomalies(day) ==
  LET n == campus[day].own IN
  {SpikeOf[k] : k \in {m \in Metrics : n[m] * Window > Threshold[m] * CampusTotal(m, day)}}
    \cup ZeroOnWeekday(day, n)

-----------------------------------------------------------------------------
(* A push: POST /api/v2/aggregate.                                         *)

PushBegin(a, d) ==
  /\ push[a].pc = "idle"
  /\ push' = [push EXCEPT ![a] = [NoPush EXCEPT !.pc = "flags", !.day = d]]
  /\ UNCHANGED <<campus, rows, flags, script, faults, touched>>

\* computeAnomalyFlags; when it fails the row is stored without flags.
PushFlags(a) ==
  LET d == push[a].day IN
  /\ push[a].pc = "flags"
  /\ \/ /\ NoFault
        /\ push' = [push EXCEPT ![a].pc = "insert",
                                ![a].flags = Rules(rows, d, campus[d].own)]
     \/ Fault /\ push' = [push EXCEPT ![a].pc = "insert"]
  /\ UNCHANGED <<campus, rows, flags, script, touched>>

\* insertDailyStatV2: a day that is stored is a duplicate.
PushInsert(a) ==
  LET d == push[a].day IN
  /\ push[a].pc = "insert"
  /\ push' = [push EXCEPT ![a] = NoPush]
  /\ \/ /\ NoFault /\ ~rows[d].stored
        /\ rows' = [rows EXCEPT ![d] = [stored |-> TRUE, is |-> campus[d].own]]
        /\ flags' = [flags EXCEPT ![d] = push[a].flags]
        /\ touched' = TRUE
     \/ NoFault /\ rows[d].stored /\ UNCHANGED <<rows, flags, touched>>
     \/ Fault /\ UNCHANGED <<rows, flags, touched>>
  /\ UNCHANGED <<campus, script>>

-----------------------------------------------------------------------------
(* A pull of a range of days.                                              *)

\* The agent leaves out the days without activity.  Of the three numbers it answers
\* with, only the loans are the push's: it counts the visitors in visitor_log where
\* the push counts them in visitor_count, and its snapshot, of the range's last day
\* for all of them, counts every loan that is out where the push counts the late ones.
HasActivity(d) == campus[d].active
Pulled(r)      == {d \in r[1] .. r[2] : HasActivity(d)}
PulledRow(d, r) ==
  [stored |-> TRUE, is |-> [visitor |-> campus[d].logged, loan |-> campus[d].own.loan,
                            overdue |-> campus[r[2]].lent]]

\* bulkUpsertDailyStatsV2 overwrites the numbers and the flags, with none.
Pull(r) ==
  /\ rows' = [d \in Days |-> IF d \in Pulled(r) THEN PulledRow(d, r) ELSE rows[d]]
  /\ flags' = [d \in Days |-> IF d \in Pulled(r) THEN {} ELSE flags[d]]
  /\ touched' = (touched \/ Pulled(r) # {})
  /\ UNCHANGED <<campus, push, script, faults>>

-----------------------------------------------------------------------------
(* The script.                                                             *)

\* listAllDailyStatsV2Dates, and the filter for a year.
ScriptStart(year) ==
  /\ script.pc \in {"idle", "done"}
  /\ LET list == {d \in year : rows[d].stored} IN
     script' = [NoScript EXCEPT !.pc = "next", !.listed = list, !.left = list]
  /\ touched' = FALSE
  /\ UNCHANGED <<campus, rows, flags, push, faults>>

\* recomputeFlagsForRow: the row's own numbers, oldest day first.
ScriptRead(d) ==
  /\ script.pc = "next"
  /\ d \in script.left /\ \A e \in script.left : d <= e
  /\ script' = [script EXCEPT !.pc = "flags", !.left = @ \ {d}, !.day = d,
                              !.is = rows[d].is]
  /\ UNCHANGED <<campus, rows, flags, push, faults, touched>>

\* computeAnomalyFlags.
ScriptFlags ==
  /\ script.pc = "flags"
  /\ script' = [script EXCEPT !.pc = "update",
                              !.flags = Rules(rows, script.day, script.is)]
  /\ UNCHANGED <<campus, rows, flags, push, faults, touched>>

ScriptNext ==
  [NoScript EXCEPT !.pc = "next", !.listed = script.listed, !.left = script.left]

\* Mistake: a row that gets no flag is not written.
UpdateFlagged ==
  /\ script.pc = "update"
  /\ flags' = IF script.flags = {} THEN flags
              ELSE [flags EXCEPT ![script.day] = script.flags]
  /\ script' = ScriptNext
  /\ UNCHANGED <<campus, rows, push, faults, touched>>

ScriptUpdate ==
  /\ script.pc = "update"
  /\ flags' = [flags EXCEPT ![script.day] = script.flags]
  /\ script' = ScriptNext
  /\ UNCHANGED <<campus, rows, push, faults, touched>>

ScriptDone ==
  /\ script.pc = "next" /\ script.left = {}
  /\ script' = [script EXCEPT !.pc = "done"]
  /\ UNCHANGED <<campus, rows, flags, push, faults, touched>>

\* An error of the database ends the process; what it wrote stays.
ScriptFail ==
  /\ script.pc \notin {"idle", "done"}
  /\ Fault
  /\ script' = NoScript
  /\ UNCHANGED <<campus, rows, flags, push, touched>>

-----------------------------------------------------------------------------
Script == \/ \E y \in Years : ScriptStart(y)
          \/ \E d \in Days : ScriptRead(d)
          \/ ScriptFlags \/ ScriptUpdate \/ ScriptDone \/ ScriptFail
Push(a) == \/ \E d \in Days : PushBegin(a, d)
           \/ PushFlags(a) \/ PushInsert(a)

Next == Script \/ (\E a \in Agents : Push(a)) \/ (\E r \in Ranges : Pull(r))

Spec == Init /\ [][Next]_vars

-----------------------------------------------------------------------------
(* Properties                                                              *)

\* The script repairs: when it has ended and no row was stored since it made its
\* list, the flags of every listed row are those the rules give for the rows of
\* the table, whatever pulls had emptied, failed pushes had left out and late days
\* had made stale.  (recompute-anomalies.ts, recomputeFlagsForRow)
RecomputedFlags ==
  script.pc = "done" /\ ~touched =>
    \A d \in script.listed : flags[d] = Rules(rows, d, rows[d].is)

\* "A tenant only gets flagged once it has a meaningful historical average": a row
\* flagged with a spike of loans has a stored day in its window on which there were
\* any, also when the flags were computed while rows were missing or when rows were
\* replaced since.  Nothing is claimed of the visitors and the late loans: a pull
\* may replace the one day they rest on by a row with 0.  (applyRules, loadBaselines)
SpikesHaveHistory ==
  \A d \in Days :
     SpikeOf.loan \in flags[d] => \E e \in Baseline(rows, d) : rows[e].is.loan > 0

\* The cloud's rules against those they port.  When the rows of the window say what
\* the campus says and only days with nothing to count are missing, a spike of the
\* cloud is one of the agent.  When no day is missing, the agent's spikes are the
\* cloud's, except where the agent has no minimum.  (applyRules and loadBaselines
\* against AnomalyTagger's detectAnomalies and computeBaseline)
AgreesWithTagger ==
  \A d \in Days, k \in Metrics :
    LET window   == WindowOf(d)
        cloud    == SpikeOf[k] \in Rules(rows, d, campus[d].own)
        agent    == SpikeOf[k] \in DetectAnomalies(d)
        truthful == \A e \in window : IF rows[e].stored THEN rows[e].is[k] = campus[e].own[k]
                                      ELSE campus[e].own[k] = 0
    IN window \subseteq Days /\ truthful =>
         /\ cloud => agent
         /\ agent /\ CampusTotal(k, d) > 0 /\ (\A e \in window : rows[e].stored) => cloud

=============================================================================
