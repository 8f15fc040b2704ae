------------------------- MODULE AnomalyFlagsProofs -------------------------
(***************************************************************************)
(* Proofs about AnomalyFlags.  The rules read the rows and never the flags *)
(* of other days, so that an update of the script leaves every day it has  *)
(* already done as it was; a row that is stored meanwhile ends the claim   *)
(* (touched).  A spike rests on a sum that is not 0, so on a row that has  *)
(* a number, and such rows are never lost.                                 *)
(***************************************************************************)
EXTENDS AnomalyFlags, FiniteSetTheorems, TLAPS

-----------------------------------------------------------------------------
(* Type correctness.                                                       *)

\* The rules know four flags.  (ANOMALY_FLAGS)
LEMMA RulesType ==
  ASSUME NEW rs, NEW d, NEW n
  PROVE  Rules(rs, d, n) \in SUBSET Flags
<1>1. \A k \in Metrics : SpikeOf[k] \in Flags
  BY DEF Metrics, SpikeOf, Flags
<1>2. Spikes(rs, d, n) \subseteq Flags
  BY <1>1, Zenon DEF Spikes
<1>3. ZeroOnWeekday(d, n) \subseteq Flags
  BY DEF ZeroOnWeekday, Flags
<1> QED
  BY <1>2, <1>3 DEF Rules

\* What a pull stores is a row.
LEMMA PulledRowType ==
  ASSUME AnomalyAssumption, TypeOK, NEW r \in Ranges, NEW d \in Days
  PROVE  PulledRow(d, r) \in Row
<1>1. r[2] \in Days
  BY DEF AnomalyAssumption
<1>2. campus[d] \in DayState /\ campus[r[2]] \in DayState
  BY <1>1 DEF TypeOK
<1> QED
  BY <1>2 DEF PulledRow, Row, DayState, Numbers

LEMMA InitTypes ==
  ASSUME AnomalyAssumption, Init
  PROVE  TypeOK
<1>1. 1 \in Days
  BY DEF AnomalyAssumption, Days
<1>2. Nothing \in Numbers
  BY DEF Nothing, Numbers
<1>3. NoRow \in Row
  BY <1>2 DEF NoRow, Row
<1>4. NoPush \in PushState /\ NoScript \in ScriptState
  BY <1>1, <1>2 DEF NoPush, PushState, NoScript, ScriptState
<1>5. campus \in [Days -> DayState]
  BY DEF Init, AnomalyAssumption
<1> QED
  BY <1>3, <1>4, <1>5 DEF Init, TypeOK

LEMMA ScriptTypes ==
  ASSUME AnomalyAssumption, TypeOK, Script
  PROVE  TypeOK'
<1>1. 1 \in Days
  BY DEF AnomalyAssumption, Days
<1>2. Nothing \in Numbers
  BY DEF Nothing, Numbers
<1>3. NoScript \in ScriptState
  BY <1>1, <1>2 DEF NoScript, ScriptState
<1>4. ASSUME NEW y \in Years, ScriptStart(y) PROVE TypeOK'
  <2> DEFINE list == {d \in y : rows[d].stored}
  <2>1. list \in SUBSET Days
    BY DEF AnomalyAssumption
  <2>2. script' = [NoScript EXCEPT !.pc = "next", !.listed = list, !.left = list]
    BY <1>4 DEF ScriptStart
  <2>3. script' \in ScriptState
    BY <1>3, <2>1, <2>2 DEF ScriptState
  <2> QED
    BY <1>4, <2>3 DEF ScriptStart, TypeOK
<1>5. ASSUME NEW d \in Days, ScriptRead(d) PROVE TypeOK'
  <2>1. script \in ScriptState /\ rows[d].is \in Numbers
    BY DEF TypeOK, Row
  <2>2. script' \in ScriptState
    BY <1>5, <2>1 DEF ScriptRead, ScriptState
  <2> QED
    BY <1>5, <2>2 DEF ScriptRead, TypeOK
<1>6. CASE ScriptFlags
  <2>1. Rules(rows, script.day, script.is) \in SUBSET Flags
    BY RulesType
  <2>2. script' \in ScriptState
    BY <1>6, <2>1 DEF ScriptFlags, ScriptState, TypeOK
  <2> QED
    BY <1>6, <2>2 DEF ScriptFlags, TypeOK
<1>7. ScriptNext \in ScriptState
  BY <1>3 DEF ScriptNext, ScriptState, TypeOK
<1>8. CASE ScriptUpdate
  <2>1. script.day \in Days /\ script.flags \in SUBSET Flags
    BY DEF TypeOK, ScriptState
  <2>2. flags' \in [Days -> SUBSET Flags]
    BY <1>8, <2>1 DEF ScriptUpdate, TypeOK
  <2> QED
    BY <1>7, <1>8, <2>2 DEF ScriptUpdate, TypeOK
<1>9. CASE ScriptDone
  BY <1>9 DEF ScriptDone, TypeOK, ScriptState
<1>10. CASE ScriptFail
  BY <1>3, <1>10 DEF ScriptFail, Fault, TypeOK
<1> QED
  BY <1>4, <1>5, <1>6, <1>8, <1>9, <1>10 DEF Script

LEMMA PushTypes ==
  ASSUME AnomalyAssumption, TypeOK, NEW a \in Agents, Push(a)
  PROVE  TypeOK'
<1>1. 1 \in Days
  BY DEF AnomalyAssumption, Days
<1>2. NoPush \in PushState
  BY <1>1 DEF NoPush, PushState
<1>3. push[a] \in PushState
  BY DEF TypeOK
<1>4. ASSUME NEW d \in Days, PushBegin(a, d) PROVE TypeOK'
  <2>1. [NoPush EXCEPT !.pc = "flags", !.day = d] \in PushState
    BY <1>2 DEF PushState
  <2> QED
    BY <1>4, <2>1 DEF PushBegin, TypeOK
<1>5. CASE PushFlags(a)
  <2> DEFINE d == push[a].day
  <2>1. Rules(rows, d, campus[d].own) \in SUBSET Flags
    BY RulesType
  <2>2. PICK p \in PushState : push' = [push EXCEPT ![a] = p]
    <3>1. CASE push' = [push EXCEPT ![a].pc = "insert",
                                    ![a].flags = Rules(rows, d, campus[d].own)]
      <4>1. [push[a] EXCEPT !.pc = "insert", !.flags = Rules(rows, d, campus[d].own)]
              \in PushState
        BY <1>3, <2>1 DEF PushState
      <4>2. push' = [push EXCEPT ![a] = [push[a] EXCEPT !.pc = "insert",
                                          !.flags = Rules(rows, d, campus[d].own)]]
        BY <3>1 DEF TypeOK
      <4> QED
        BY <4>1, <4>2
    <3>2. CASE push' = [push EXCEPT ![a].pc = "insert"]
      <4>1. [push[a] EXCEPT !.pc = "insert"] \in PushState
        BY <1>3 DEF PushState
      <4> QED
        BY <3>2, <4>1 DEF TypeOK
    <3> QED
      BY <1>5, <3>1, <3>2 DEF PushFlags
  <2>3. faults' \in Nat
    BY <1>5 DEF PushFlags, NoFault, Fault, TypeOK
  <2> QED
    BY <1>5, <2>2, <2>3 DEF PushFlags, TypeOK
<1>6. CASE PushInsert(a)
  <2> DEFINE d == push[a].day
  <2>1. d \in Days /\ push[a].flags \in SUBSET Flags
    BY <1>3 DEF PushState
  <2>2. [stored |-> TRUE, is |-> campus[d].own] \in Row
    BY <2>1 DEF Row, DayState, TypeOK
  <2>3. push' \in [Agents -> PushState] /\ faults' \in Nat
    BY <1>2, <1>6 DEF PushInsert, NoFault, Fault, TypeOK
  <2>4. rows' \in [Days -> Row]
    BY <1>6, <2>2 DEF PushInsert, TypeOK
  <2>5. flags' \in [Days -> SUBSET Flags]
    BY <1>6, <2>1 DEF PushInsert, TypeOK
  <2>6. touched' \in BOOLEAN
    BY <1>6 DEF PushInsert, TypeOK
  <2> QED
    BY <1>6, <2>3, <2>4, <2>5, <2>6 DEF PushInsert, TypeOK
<1> QED
  BY <1>4, <1>5, <1>6 DEF Push

LEMMA PullTypes ==
  ASSUME AnomalyAssumption, TypeOK, NEW r \in Ranges, Pull(r)
  PROVE  TypeOK'
<1>1. rows' \in [Days -> Row]
  <2>1. \A d \in Days : PulledRow(d, r) \in Row
    BY PulledRowType
  <2> QED
    BY <2>1 DEF Pull, TypeOK
<1>2. flags' \in [Days -> SUBSET Flags]
  BY DEF Pull, TypeOK
<1>3. touched' \in BOOLEAN
  BY DEF Pull, TypeOK
<1> QED
  BY <1>1, <1>2, <1>3 DEF Pull, TypeOK

LEMMA StepTypes ==
  ASSUME AnomalyAssumption, TypeOK, [Next]_vars
  PROVE  TypeOK'
<1>1. CASE UNCHANGED vars
  BY <1>1 DEF vars, TypeOK
<1> QED
  BY <1>1, ScriptTypes, PushTypes, PullTypes DEF Next

\* The rows, their flags, the pushes and the script keep their types; above all
\* the flags that are stored are among those the readers of the column know.
THEOREM AnomalyTypeCorrect == Spec => []TypeOK
<1> USE AnomalyAssumption
<1>1. Init => TypeOK
  BY InitTypes
<1>2. TypeOK /\ [Next]_vars => TypeOK'
  BY StepTypes
<1> QED
  BY <1>1, <1>2, PTL DEF Spec

-----------------------------------------------------------------------------
(* The script repairs.                                                     *)

\* The flags of a day are those of the rules.
Right(d) == flags[d] = Rules(rows, d, rows[d].is)

\* The day the script holds, until it is written.
InHand == script.pc \in {"flags", "update"}

\* As long as no row is stored: every day that is done is right, and what the
\* script holds is right for the day it holds.
RepairInv ==
  ~touched /\ script.pc # "idle" =>
    /\ \A d \in script.listed \ script.left : Right(d) \/ (InHand /\ d = script.day)
    /\ InHand => script.is = rows[script.day].is
    /\ script.pc = "update" => script.flags = Rules(rows, script.day, script.is)
    /\ script.pc = "done" => script.left = {}

LEMMA ScriptRepairs ==
  ASSUME TypeOK, RepairInv, Script
  PROVE  RepairInv'
<1>0. script \in ScriptState /\ script.listed \subseteq Days
  BY DEF TypeOK, ScriptState
<1>1. ASSUME NEW y \in Years, ScriptStart(y) PROVE RepairInv'
  <2> DEFINE list == {d \in y : rows[d].stored}
  <2>1. script' = [NoScript EXCEPT !.pc = "next", !.listed = list, !.left = list]
    BY <1>1 DEF ScriptStart
  <2>2. script'.pc = "next" /\ script'.listed = list /\ script'.left = list
    BY <2>1 DEF NoScript
  <2> QED
    BY <2>2 DEF RepairInv, InHand
<1>2. ASSUME NEW d \in Days, ScriptRead(d) PROVE RepairInv'
  <2>1. /\ script'.pc = "flags" /\ script'.left = script.left \ {d} /\ script'.day = d
        /\ script'.is = rows[d].is /\ script'.listed = script.listed
    BY <1>0, <1>2 DEF ScriptRead, ScriptState
  <2>2. rows' = rows /\ flags' = flags /\ touched' = touched /\ script.pc = "next"
    BY <1>2 DEF ScriptRead
  <2>3. \A e : Right(e) => Right(e)'
    BY <2>2 DEF Right
  <2> QED
    BY <2>1, <2>2, <2>3 DEF RepairInv, InHand
<1>3. CASE ScriptFlags
  <2>1. /\ script'.pc = "update" /\ script'.left = script.left /\ script'.day = script.day
        /\ script'.is = script.is /\ script'.listed = script.listed
        /\ script'.flags = Rules(rows, script.day, script.is)
    BY <1>0, <1>3 DEF ScriptFlags, ScriptState
  <2>2. rows' = rows /\ flags' = flags /\ touched' = touched /\ script.pc = "flags"
    BY <1>3 DEF ScriptFlags
  <2>3. \A e : Right(e) => Right(e)'
    BY <2>2 DEF Right
  <2> QED
    BY <2>1, <2>2, <2>3 DEF RepairInv, InHand
<1>4. CASE ScriptUpdate
  <2>1. /\ script'.pc = "next" /\ script'.left = script.left
        /\ script'.listed = script.listed
    BY <1>4 DEF ScriptUpdate, ScriptNext, NoScript
  <2>2. /\ rows' = rows /\ touched' = touched /\ script.pc = "update"
        /\ flags' = [flags EXCEPT ![script.day] = script.flags]
    BY <1>4 DEF ScriptUpdate
  <2>3. ASSUME ~touched, NEW d \in script.listed \ script.left PROVE Right(d)'
    <3>1. CASE d = script.day
      <4>1. script.flags = Rules(rows, d, rows[d].is)
        BY <2>2, <2>3, <3>1 DEF RepairInv, InHand
      <4>2. flags'[d] = script.flags
        BY <1>0, <2>2, <2>3, <3>1 DEF TypeOK
      <4> QED
        BY <2>2, <4>1, <4>2 DEF Right
    <3>2. CASE d # script.day
      <4>1. Right(d)
        BY <2>2, <2>3, <3>2 DEF RepairInv
      <4>2. flags'[d] = flags[d]
        BY <1>0, <2>2, <2>3, <3>2 DEF TypeOK
      <4> QED
        BY <2>2, <4>1, <4>2 DEF Right
    <3> QED
      BY <3>1, <3>2
  <2> QED
    BY <2>1, <2>2, <2>3 DEF RepairInv, InHand
<1>5. CASE ScriptDone
  <2>1. /\ script'.pc = "done" /\ script'.left = script.left /\ script.left = {}
        /\ script'.listed = script.listed /\ script.pc = "next"
    BY <1>0, <1>5 DEF ScriptDone, ScriptState
  <2>2. rows' = rows /\ flags' = flags /\ touched' = touched
    BY <1>5 DEF ScriptDone
  <2>3. \A e : Right(e) => Right(e)'
    BY <2>2 DEF Right
  <2> QED
    BY <2>1, <2>2, <2>3 DEF RepairInv, InHand
<1>6. CASE ScriptFail
  <2>1. script'.pc = "idle"
    BY <1>6 DEF ScriptFail, NoScript
  <2> QED
    BY <2>1 DEF RepairInv
<1> QED
  BY <1>1, <1>2, <1>3, <1>4, <1>5, <1>6 DEF Script

\* A step that stores nothing and leaves the script alone changes nothing here.
LEMMA IdleStepsKeep ==
  ASSUME RepairInv, UNCHANGED <<rows, flags, script, touched>>
  PROVE  RepairInv'
<1>1. \A e : Right(e) => Right(e)'
  BY DEF Right
<1> QED
  BY <1>1 DEF RepairInv, InHand

LEMMA PushRepairs ==
  ASSUME RepairInv, NEW a \in Agents, Push(a)
  PROVE  RepairInv'
<1>1. ASSUME NEW d \in Days, PushBegin(a, d) PROVE RepairInv'
  BY <1>1, IdleStepsKeep DEF PushBegin
<1>2. CASE PushFlags(a)
  BY <1>2, IdleStepsKeep DEF PushFlags
<1>3. CASE PushInsert(a)
  <2>1. CASE touched' = TRUE
    BY <2>1 DEF RepairInv
  <2>2. CASE UNCHANGED <<rows, flags, touched>>
    BY <1>3, <2>2, IdleStepsKeep DEF PushInsert
  <2> QED
    BY <1>3, <2>1, <2>2 DEF PushInsert
<1> QED
  BY <1>1, <1>2, <1>3 DEF Push

LEMMA PullRepairs ==
  ASSUME TypeOK, RepairInv, NEW r \in Ranges, Pull(r)
  PROVE  RepairInv'
<1>1. CASE Pulled(r) = {}
  <2>1. rows' = rows /\ flags' = flags
    BY <1>1 DEF Pull, TypeOK
  <2>2. touched' = touched
    BY <1>1 DEF Pull, TypeOK
  <2> QED
    BY <2>1, <2>2, IdleStepsKeep DEF Pull
<1>2. CASE Pulled(r) # {}
  <2>1. touched' = TRUE
    BY <1>2 DEF Pull
  <2> QED
    BY <2>1 DEF RepairInv
<1> QED
  BY <1>1, <1>2

LEMMA StepRepairs ==
  ASSUME TypeOK, RepairInv, [Next]_vars
  PROVE  RepairInv'
<1>1. CASE UNCHANGED vars
  BY <1>1, IdleStepsKeep DEF vars
<1> QED
  BY <1>1, ScriptRepairs, PushRepairs, PullRepairs DEF Next

\* When the script has ended and no row was stored since it made its list, the
\* flags of every day it listed are right, for any number of days, any window and
\* any numbers.  (recompute-anomalies.ts)
THEOREM ScriptRecomputes == Spec => []RecomputedFlags
<1>1. Init => RepairInv
  BY DEF Init, NoScript, RepairInv
<1>2. TypeOK /\ RepairInv /\ [Next]_vars => RepairInv'
  BY StepRepairs
<1>3. RepairInv => RecomputedFlags
  BY DEF RepairInv, RecomputedFlags, Right, InHand
<1> QED
  BY <1>1, <1>2, <1>3, AnomalyTypeCorrect, PTL DEF Spec

-----------------------------------------------------------------------------
(* Sums over a set of days.  The fold of the library is a recursive function,  *)
(* of which the equation must be proved before it can be used; induction is on *)
(* the smallest set of which a claim fails.                                    *)

\* A family of subsets of a finite set has a smallest member.  This is the form of
\* induction the proofs below use: the smallest set of which a claim fails.
LEMMA SmallestSet ==
  ASSUME NEW S, IsFiniteSet(S), NEW F \in SUBSET SUBSET S, F # {}
  PROVE  \E T \in F : \A U \in F : U \subseteq T => U = T
<1>1. IsWellFoundedOn(StrictSubsetOrdering(S), SUBSET S)
  BY FS_StrictSubsetOrderingWellFounded, FS_FiniteSubsetsOfFinite
<1>2. PICK T \in F : \A U \in F : ~ (<<U, T>> \in StrictSubsetOrdering(S))
  BY <1>1, WFMin
<1>3. \A U \in F : U \subseteq T => U = T
  BY <1>2 DEF StrictSubsetOrdering
<1> QED
  BY <1>3

\* The element a fold takes out of a set next.
Pick(s) == CHOOSE x \in s : TRUE

\* The functions the fold is defined by.
IsFold(g, f, S) ==
  g = [s \in SUBSET S |-> IF s = {} THEN 0 ELSE f[Pick(s)] + g[s \ {Pick(s)}]]

\* Two folds agree on the sets both know.
LEMMA FoldsAgree ==
  ASSUME NEW f, NEW S, NEW T, IsFiniteSet(S), NEW g, NEW h, IsFold(g, f, S),
         IsFold(h, f, T), NEW R \in SUBSET S, R \subseteq T
  PROVE  g[R] = h[R]
<1> DEFINE F == {s \in SUBSET S : s \subseteq T /\ g[s] # h[s]}
<1>1. SUFFICES ASSUME F # {} PROVE FALSE
  OBVIOUS
<1>2. PICK s \in F : \A u \in F : u \subseteq s => u = s
  <2>1. F \in SUBSET SUBSET S
    OBVIOUS
  <2> HIDE DEF F
  <2> QED
    BY <1>1, <2>1, SmallestSet
<1>3. g[s] = IF s = {} THEN 0 ELSE f[Pick(s)] + g[s \ {Pick(s)}]
  BY DEF IsFold
<1>4. h[s] = IF s = {} THEN 0 ELSE f[Pick(s)] + h[s \ {Pick(s)}]
  BY DEF IsFold
<1>5. s # {}
  BY <1>3, <1>4
<1>6. Pick(s) \in s
  BY <1>5 DEF Pick
<1>7. s \ {Pick(s)} \notin F
  BY <1>2, <1>6
<1>8. g[s \ {Pick(s)}] = h[s \ {Pick(s)}]
  BY <1>7
<1> QED
  BY <1>3, <1>4, <1>8

\* There is one for every finite set.
LEMMA FoldExists ==
  ASSUME NEW f, NEW S, IsFiniteSet(S)
  PROVE  \E g : IsFold(g, f, S)
<1> DEFINE F == {s \in SUBSET S : ~ \E g : IsFold(g, f, s)}
<1>1. SUFFICES ASSUME F # {} PROVE FALSE
  OBVIOUS
<1>2. PICK s \in F : \A u \in F : u \subseteq s => u = s
  <2>1. F \in SUBSET SUBSET S
    OBVIOUS
  <2> HIDE DEF F
  <2> QED
    BY <1>1, <2>1, SmallestSet
<1> DEFINE G(u) == CHOOSE g : IsFold(g, f, u)
           rest(u) == u \ {Pick(u)}
           h == [u \in SUBSET s |-> IF u = {} THEN 0 ELSE f[Pick(u)] + G(rest(u))[rest(u)]]
<1>3. ASSUME NEW u \in SUBSET s, u # s PROVE IsFold(G(u), f, u)
  <2>1. u \notin F
    BY <1>2, <1>3
  <2>2. \E g : IsFold(g, f, u)
    BY <2>1
  <2> QED
    BY <2>2
<1>4. ASSUME NEW u \in SUBSET s, u # {} PROVE rest(u) \in SUBSET u /\ rest(u) # u /\ rest(u) # s
  <2>1. Pick(u) \in u
    BY <1>4 DEF Pick
  <2> QED
    BY <2>1
<1>5. ASSUME NEW u \in SUBSET s, u # s PROVE h[u] = G(u)[u]
  <2>1. IsFold(G(u), f, u)
    BY <1>3, <1>5
  <2> DEFINE Gu == G(u)
  <2>2. Gu[u] = IF u = {} THEN 0 ELSE f[Pick(u)] + Gu[rest(u)]
    <3> HIDE DEF Gu
    <3>1. IsFold(Gu, f, u)
      BY <2>1 DEF Gu
    <3> QED
      BY <3>1 DEF IsFold
  <2>3. CASE u = {}
    BY <2>2, <2>3
  <2>4. CASE u # {}
    <3>1. /\ rest(u) \in SUBSET u /\ rest(u) # s
          /\ rest(u) \in SUBSET s
      BY <1>4, <2>4
    <3>2. IsFold(G(rest(u)), f, rest(u))
      BY <1>3, <3>1
    <3>3. IsFiniteSet(u)
      BY FS_Subset
    <3> DEFINE r == rest(u)  Gr == G(r)
    <3>4. Gu[r] = Gr[r]
      <4>1. r \in SUBSET u /\ r \subseteq r
        BY <3>1
      <4> HIDE DEF Gu, Gr, r
      <4> QED
        BY <2>1, <3>2, <3>3, <4>1, FoldsAgree DEF Gu, Gr, r
    <3> QED
      BY <2>2, <2>4, <3>4
  <2> QED
    BY <2>3, <2>4
<1>6. h = [u \in SUBSET s |-> IF u = {} THEN 0 ELSE f[Pick(u)] + h[rest(u)]]
  <2>1. ASSUME NEW u \in SUBSET s, u # {} PROVE h[rest(u)] = G(rest(u))[rest(u)]
    BY <1>4, <1>5, <2>1
  <2> DEFINE by(u) == f[Pick(u)] + G(rest(u))[rest(u)]
             as(u) == f[Pick(u)] + h[rest(u)]
  <2>2. \A u \in SUBSET s : u # {} => by(u) = as(u)
    BY <2>1
  <2>3. h = [u \in SUBSET s |-> IF u = {} THEN 0 ELSE by(u)]
    OBVIOUS
  <2>4. h = [u \in SUBSET s |-> IF u = {} THEN 0 ELSE as(u)]
    <3> HIDE DEF by, as, h
    <3> QED
      BY <2>2, <2>3
  <2> QED
    BY <2>4
<1>7. IsFold(h, f, s)
  BY <1>6 DEF IsFold
<1> QED
  BY <1>2, <1>7

\* The sum satisfies the equation it is defined by.
LEMMA SumOfEquation ==
  ASSUME NEW f, NEW S, IsFiniteSet(S)
  PROVE  SumOf(f, S) = IF S = {} THEN 0 ELSE f[Pick(S)] + SumOf(f, S \ {Pick(S)})
<1> DEFINE G(T) == CHOOSE g : IsFold(g, f, T)
<1>1. \A T : SumOf(f, T) = G(T)[T]
  BY DEF SumOf, FoldFunctionOnSet, MapThenFoldSet, IsFold, Pick
<1> DEFINE R == S \ {Pick(S)}
<1>2. IsFiniteSet(R) /\ R \in SUBSET S
  BY FS_Subset
<1>3. IsFold(G(S), f, S) /\ IsFold(G(R), f, R)
  BY <1>2, FoldExists
<1> HIDE DEF G
<1>4. G(S)[S] = IF S = {} THEN 0 ELSE f[Pick(S)] + G(S)[R]
  BY <1>3 DEF IsFold
<1>5. G(S)[R] = G(R)[R]
  <2>1. R \subseteq R
    OBVIOUS
  <2> HIDE DEF R
  <2> QED
    BY <1>2, <1>3, <2>1, FoldsAgree
<1> QED
  BY <1>1, <1>4, <1>5

\* Nothing is summed, or the element that is taken first is.
LEMMA SumOfPick ==
  ASSUME NEW f, NEW S, IsFiniteSet(S), S # {}
  PROVE  /\ Pick(S) \in S
         /\ SumOf(f, S) = f[Pick(S)] + SumOf(f, S \ {Pick(S)})
BY SumOfEquation DEF Pick

LEMMA SumOfEmpty ==
  ASSUME NEW f
  PROVE  SumOf(f, {}) = 0
BY SumOfEquation, FS_EmptySet

\* A sum of naturals is one.
LEMMA SumOfType ==
  ASSUME NEW f, NEW S, IsFiniteSet(S), \A x \in S : f[x] \in Nat
  PROVE  SumOf(f, S) \in Nat
<1> DEFINE F == {s \in SUBSET S : SumOf(f, s) \notin Nat}
<1>1. SUFFICES ASSUME F # {} PROVE FALSE
  OBVIOUS
<1>2. PICK s \in F : \A u \in F : u \subseteq s => u = s
  <2>1. F \in SUBSET SUBSET S
    OBVIOUS
  <2> HIDE DEF F
  <2> QED
    BY <1>1, <2>1, SmallestSet
<1>3. IsFiniteSet(s) /\ s # {}
  <2>1. IsFiniteSet(s)
    BY FS_Subset
  <2>2. SumOf(f, s) \notin Nat
    OBVIOUS
  <2> QED
    BY <2>1, <2>2, SumOfEmpty
<1>4. Pick(s) \in s /\ SumOf(f, s) = f[Pick(s)] + SumOf(f, s \ {Pick(s)})
  BY <1>3, SumOfPick
<1>5. SumOf(f, s \ {Pick(s)}) \in Nat
  BY <1>2, <1>4
<1>6. f[Pick(s)] \in Nat
  BY <1>4
<1>7. SumOf(f, s) \in Nat
  <2> HIDE DEF F
  <2> QED
    BY <1>4, <1>5, <1>6
<1> QED
  BY <1>7

\* Any element of the set can be summed first.
LEMMA SumOfRemove ==
  ASSUME NEW f, NEW S, IsFiniteSet(S), \A x \in S : f[x] \in Nat, NEW y \in S
  PROVE  SumOf(f, S) = f[y] + SumOf(f, S \ {y})
<1> DEFINE F == {s \in SUBSET S : \E x \in s : SumOf(f, s) # f[x] + SumOf(f, s \ {x})}
<1>1. SUFFICES ASSUME F # {} PROVE FALSE
  OBVIOUS
<1>2. PICK s \in F : \A u \in F : u \subseteq s => u = s
  <2>1. F \in SUBSET SUBSET S
    OBVIOUS
  <2> HIDE DEF F
  <2> QED
    BY <1>1, <2>1, SmallestSet
<1>3. PICK x \in s : SumOf(f, s) # f[x] + SumOf(f, s \ {x})
  OBVIOUS
<1> DEFINE p == Pick(s)
<1>4. IsFiniteSet(s)
  BY FS_Subset
<1>5. p \in s /\ SumOf(f, s) = f[p] + SumOf(f, s \ {p})
  BY <1>3, <1>4, SumOfPick
<1>6. p # x
  BY <1>3, <1>5
<1>7. s \ {p} \notin F /\ s \ {x} \notin F
  BY <1>2, <1>5
<1>8. SumOf(f, s \ {p}) = f[x] + SumOf(f, (s \ {p}) \ {x})
  BY <1>6, <1>7
<1>9. SumOf(f, s \ {x}) = f[p] + SumOf(f, (s \ {x}) \ {p})
  BY <1>5, <1>6, <1>7
<1>10. (s \ {p}) \ {x} = (s \ {x}) \ {p}
  OBVIOUS
<1>11. SumOf(f, (s \ {p}) \ {x}) \in Nat /\ f[p] \in Nat /\ f[x] \in Nat
  <2>1. IsFiniteSet((s \ {p}) \ {x}) /\ \A z \in (s \ {p}) \ {x} : f[z] \in Nat
    BY FS_Subset
  <2> QED
    BY <1>5, <2>1, SumOfType
<1> HIDE DEF p, F
<1> QED
  BY <1>3, <1>5, <1>8, <1>9, <1>10, <1>11

\* A sum depends on the values at the elements of the set, and on nothing else.
LEMMA SumOfSame ==
  ASSUME NEW f, NEW g, NEW S, IsFiniteSet(S), \A x \in S : f[x] = g[x]
  PROVE  SumOf(f, S) = SumOf(g, S)
<1> DEFINE F == {s \in SUBSET S : SumOf(f, s) # SumOf(g, s)}
<1>1. SUFFICES ASSUME F # {} PROVE FALSE
  OBVIOUS
<1>2. PICK s \in F : \A u \in F : u \subseteq s => u = s
  <2>1. F \in SUBSET SUBSET S
    OBVIOUS
  <2> HIDE DEF F
  <2> QED
    BY <1>1, <2>1, SmallestSet
<1>3. IsFiniteSet(s) /\ s # {}
  BY FS_Subset, SumOfEmpty
<1>4. /\ Pick(s) \in s
      /\ SumOf(f, s) = f[Pick(s)] + SumOf(f, s \ {Pick(s)})
      /\ SumOf(g, s) = g[Pick(s)] + SumOf(g, s \ {Pick(s)})
  BY <1>3, SumOfPick
<1>5. SumOf(f, s \ {Pick(s)}) = SumOf(g, s \ {Pick(s)})
  BY <1>2, <1>4
<1> QED
  BY <1>4, <1>5

\* Elements that count for nothing can be left out.
LEMMA SumOfSkip ==
  ASSUME NEW f, NEW S, IsFiniteSet(S), \A x \in S : f[x] \in Nat,
         NEW T \in SUBSET S, \A x \in S \ T : f[x] = 0
  PROVE  SumOf(f, S) = SumOf(f, T)
<1> DEFINE F == {s \in SUBSET S : T \subseteq s /\ SumOf(f, s) # SumOf(f, T)}
<1>1. SUFFICES ASSUME F # {} PROVE FALSE
  OBVIOUS
<1>2. PICK s \in F : \A u \in F : u \subseteq s => u = s
  <2>1. F \in SUBSET SUBSET S
    OBVIOUS
  <2> HIDE DEF F
  <2> QED
    BY <1>1, <2>1, SmallestSet
<1>3. PICK x \in s : x \notin T
  <2>1. s # T
    OBVIOUS
  <2> QED
    BY <2>1
<1>4. f[x] = 0 /\ IsFiniteSet(s) /\ \A z \in s : f[z] \in Nat
  BY <1>3, FS_Subset
<1>5. SumOf(f, s) = f[x] + SumOf(f, s \ {x})
  BY <1>4, SumOfRemove
<1>6. SumOf(f, s \ {x}) = SumOf(f, T)
  BY <1>2, <1>3
<1>7. SumOf(f, T) \in Nat
  <2>1. IsFiniteSet(T) /\ \A z \in T : f[z] \in Nat
    BY FS_Subset
  <2> QED
    BY <2>1, SumOfType
<1> QED
  BY <1>4, <1>5, <1>6, <1>7

\* A sum that is not 0 has a summand that is not.
LEMMA SumOfPositive ==
  ASSUME NEW f, NEW S, IsFiniteSet(S), \A x \in S : f[x] \in Nat, SumOf(f, S) > 0
  PROVE  \E x \in S : f[x] > 0
<1> SUFFICES ASSUME \A x \in S : f[x] = 0 PROVE FALSE
  OBVIOUS
<1>1. {} \in SUBSET S /\ \A x \in S \ {} : f[x] = 0
  OBVIOUS
<1>2. SumOf(f, S) = SumOf(f, {})
  BY <1>1, SumOfSkip
<1> QED
  BY <1>2, SumOfEmpty

-----------------------------------------------------------------------------
(* A spike needs a history.                                                *)

\* The window before a day, and the days of it that count, are finite.
LEMMA BaselineFinite ==
  ASSUME AnomalyAssumption, NEW d \in Days, NEW rs
  PROVE  /\ IsFiniteSet(WindowOf(d)) /\ Cardinality(WindowOf(d)) = Window
         /\ Baseline(rs, d) \in SUBSET WindowOf(d) /\ Baseline(rs, d) \in SUBSET Days
         /\ IsFiniteSet(Baseline(rs, d))
<1>1. d - Window \in Int /\ d - 1 \in Int /\ Window \in Nat /\ Window > 0
  BY DEF AnomalyAssumption, Days
<1>2. IsFiniteSet(WindowOf(d)) /\ Cardinality(WindowOf(d)) = Window
  <2> DEFINE lo == d - Window  hi == d - 1
  <2>1. lo <= hi /\ hi - lo + 1 = Window
    BY <1>1 DEF Days
  <2>2. WindowOf(d) = lo .. hi
    BY DEF WindowOf
  <2>3. lo \in Int /\ hi \in Int
    BY <1>1
  <2> HIDE DEF lo, hi
  <2>4. IsFiniteSet(lo .. hi) /\ Cardinality(lo .. hi) = hi - lo + 1
    BY <2>1, <2>3, FS_Interval
  <2> QED
    BY <2>1, <2>2, <2>4
<1>3. Baseline(rs, d) \in SUBSET WindowOf(d) /\ Baseline(rs, d) \in SUBSET Days
  BY DEF Baseline
<1> QED
  BY <1>2, <1>3, FS_Subset

\* What makes a number a spike.
Over(rs, k, d, n) ==
  LET es == Baseline(rs, d) IN
  /\ Total(rs, k, es) > 0
  /\ n[k] * Cardinality(es) > Threshold[k] * Total(rs, k, es)

\* The name of a spike says which number it is about.
LEMMA SpikeNames ==
  ASSUME NEW k \in Metrics, NEW rs, NEW d, NEW n
  PROVE  SpikeOf[k] \in Rules(rs, d, n) <=> Over(rs, k, d, n)
<1>1. \A m \in Metrics : SpikeOf[m] = SpikeOf[k] => m = k
  BY DEF SpikeOf, Metrics
<1>2. SpikeOf[k] \notin ZeroOnWeekday(d, n)
  BY DEF SpikeOf, Metrics, ZeroOnWeekday
<1>3. Spikes(rs, d, n) = {SpikeOf[m] : m \in {m \in Metrics : Over(rs, m, d, n)}}
  BY DEF Spikes, Over
<1> QED
  BY <1>1, <1>2, <1>3 DEF Rules

\* The metric a pull stores as a push does; its visitors and its overdue loans are
\* other numbers.  (computeDailyMetricsForDate, computeSnapshotMetrics)
Counted == {"loan"}

\* A stored day on which there were any, in the window before a day.
HasHistory(rs, k, d) == \E e \in Baseline(rs, d) : rs[e].is[k] > 0

\* Rows say what the campus says of the loans, and whoever holds a spike holds one with a
\* history: the table, a push before it stores, the script before it writes.
HistoryInv ==
  /\ \A d \in Days, k \in Counted : rows[d].stored => rows[d].is[k] = campus[d].own[k]
  /\ \A d \in Days, k \in Counted : SpikeOf[k] \in flags[d] => HasHistory(rows, k, d)
  /\ \A a \in Agents, k \in Counted :
       SpikeOf[k] \in push[a].flags => HasHistory(rows, k, push[a].day)
  /\ \A k \in Counted : SpikeOf[k] \in script.flags => HasHistory(rows, k, script.day)
  /\ script.pc = "next" => script.flags = {}

\* A day's numbers are naturals.
LEMMA NumbersOf ==
  ASSUME NEW rs \in [Days -> Row], NEW e \in Days, NEW k \in Metrics
  PROVE  rs[e].is[k] \in Nat
<1>1. rs[e].is \in Numbers
  BY DEF Row
<1> QED
  BY <1>1 DEF Numbers, Metrics

\* The total of a metric over days.
LEMMA TotalOf ==
  ASSUME AnomalyAssumption, NEW rs \in [Days -> Row], NEW k \in Metrics,
         NEW es \in SUBSET Days, IsFiniteSet(es)
  PROVE  /\ Total(rs, k, es) \in Nat
         /\ Total(rs, k, es) > 0 => \E e \in es : rs[e].is[k] > 0
<1> DEFINE f == [e \in Days |-> rs[e].is[k]]
<1>1. \A e \in es : f[e] = rs[e].is[k] /\ f[e] \in Nat
  BY NumbersOf
<1>2. Total(rs, k, es) = SumOf(f, es)
  BY DEF Total
<1> HIDE DEF f
<1>3. SumOf(f, es) \in Nat
  BY <1>1, SumOfType
<1>4. SumOf(f, es) > 0 => \E e \in es : f[e] > 0
  BY <1>1, SumOfPositive
<1> QED
  BY <1>1, <1>2, <1>3, <1>4

\* The rules flag a spike only of a day with a history.
LEMMA RulesNeedHistory ==
  ASSUME AnomalyAssumption, NEW rs \in [Days -> Row], NEW d \in Days, NEW n,
         NEW k \in Metrics, SpikeOf[k] \in Rules(rs, d, n)
  PROVE  HasHistory(rs, k, d)
<1>1. Total(rs, k, Baseline(rs, d)) > 0
  BY SpikeNames DEF Over
<1>2. IsFiniteSet(Baseline(rs, d)) /\ Baseline(rs, d) \in SUBSET Days
  BY BaselineFinite
<1> QED
  BY <1>1, <1>2, TotalOf DEF HasHistory

\* What is stored is not lost: rows stay stored, with the campus's numbers.
LEMMA RowsStay ==
  ASSUME AnomalyAssumption, TypeOK, HistoryInv, [Next]_vars,
         NEW d \in Days, NEW k \in Counted
  PROVE  /\ rows[d].stored => rows'[d].stored /\ rows'[d].is[k] = rows[d].is[k]
         /\ rows'[d].stored => rows'[d].is[k] = campus'[d].own[k]
<1>1. rows[d].stored => rows[d].is[k] = campus[d].own[k]
  BY DEF HistoryInv
<1>2. CASE UNCHANGED <<rows, campus>>
  BY <1>1, <1>2
<1>3. CASE Script
  BY <1>2, <1>3 DEF Script, ScriptStart, ScriptRead, ScriptFlags, ScriptUpdate, ScriptDone,
                    ScriptFail
<1>4. ASSUME NEW a \in Agents, Push(a)
      PROVE  UNCHANGED <<rows, campus>> \/
             (/\ campus' = campus /\ ~rows[push[a].day].stored
              /\ rows' = [rows EXCEPT ![push[a].day] =
                            [stored |-> TRUE, is |-> campus[push[a].day].own]])
  BY <1>4 DEF Push, PushBegin, PushFlags, PushInsert
<1>5. ASSUME NEW a \in Agents, /\ campus' = campus /\ ~rows[push[a].day].stored
              /\ rows' = [rows EXCEPT ![push[a].day] =
                            [stored |-> TRUE, is |-> campus[push[a].day].own]]
      PROVE  /\ rows[d].stored => rows'[d].stored /\ rows'[d].is[k] = rows[d].is[k]
             /\ rows'[d].stored => rows'[d].is[k] = campus'[d].own[k]
  <2>1. CASE d = push[a].day
    <3>1. rows'[d] = [stored |-> TRUE, is |-> campus[d].own]
      BY <1>5, <2>1 DEF TypeOK
    <3> QED
      BY <1>5, <2>1, <3>1
  <2>2. CASE d # push[a].day
    <3>1. rows'[d] = rows[d]
      BY <1>5, <2>2 DEF TypeOK
    <3> QED
      BY <1>1, <1>5, <3>1
  <2> QED
    BY <2>1, <2>2
<1>6. ASSUME NEW r \in Ranges, Pull(r)
      PROVE  /\ rows[d].stored => rows'[d].stored /\ rows'[d].is[k] = rows[d].is[k]
             /\ rows'[d].stored => rows'[d].is[k] = campus'[d].own[k]
  <2>1. campus' = campus /\ rows'[d] = IF d \in Pulled(r) THEN PulledRow(d, r) ELSE rows[d]
    BY <1>6 DEF Pull
  <2>2. PulledRow(d, r).stored /\ PulledRow(d, r).is[k] = campus[d].own[k]
    <3>1. k = "loan"
      BY DEF Counted
    <3> QED
      BY <3>1 DEF PulledRow
  <2> QED
    BY <1>1, <2>1, <2>2
<1> QED
  BY <1>2, <1>3, <1>4, <1>5, <1>6 DEF Next, vars

\* A day that has a history keeps it.
LEMMA HistoryStays ==
  ASSUME NEW rs, NEW new, NEW k, NEW d \in Days, HasHistory(rs, k, d),
         \A e \in Days : rs[e].stored => new[e].stored /\ new[e].is[k] = rs[e].is[k]
  PROVE  HasHistory(new, k, d)
BY DEF HasHistory, Baseline

\* What is flagged after a step has a history among the rows before it.
LEMMA ScriptKeepsHistory ==
  ASSUME AnomalyAssumption, TypeOK, HistoryInv, Script
  PROVE  /\ \A d \in Days, k \in Counted : SpikeOf[k] \in flags'[d] => HasHistory(rows, k, d)
         /\ \A k \in Counted :
              SpikeOf[k] \in script'.flags => HasHistory(rows, k, script'.day)
         /\ script'.pc = "next" => script'.flags = {}
<1> DEFINE Goal ==
         /\ \A d \in Days, k \in Counted : SpikeOf[k] \in flags'[d] => HasHistory(rows, k, d)
         /\ \A k \in Counted :
              SpikeOf[k] \in script'.flags => HasHistory(rows, k, script'.day)
         /\ script'.pc = "next" => script'.flags = {}
<1>0. script \in ScriptState /\ script.day \in Days
  BY DEF TypeOK, ScriptState
<1>1. /\ \A d \in Days, k \in Counted : SpikeOf[k] \in flags[d] => HasHistory(rows, k, d)
      /\ \A k \in Counted : SpikeOf[k] \in script.flags => HasHistory(rows, k, script.day)
      /\ script.pc = "next" => script.flags = {}
  BY DEF HistoryInv
<1>2. ASSUME flags' = flags, script'.flags = {} PROVE Goal
  BY <1>1, <1>2
<1>3. ASSUME NEW y \in Years, ScriptStart(y) PROVE Goal
  <2>1. script'.flags = {} /\ flags' = flags
    BY <1>3 DEF ScriptStart, NoScript
  <2> QED
    BY <1>2, <2>1
<1>4. ASSUME NEW d \in Days, ScriptRead(d) PROVE Goal
  <2>1. script'.flags = script.flags /\ flags' = flags /\ script.pc = "next"
    BY <1>0, <1>4 DEF ScriptRead, ScriptState
  <2> QED
    BY <1>1, <1>2, <2>1
<1>5. CASE ScriptFlags
  <2>1. /\ script'.flags = Rules(rows, script.day, script.is) /\ script'.day = script.day
        /\ script'.pc = "update" /\ flags' = flags
    BY <1>0, <1>5 DEF ScriptFlags, ScriptState
  <2>2. \A k \in Counted :
          SpikeOf[k] \in Rules(rows, script.day, script.is) => HasHistory(rows, k, script.day)
    BY <1>0, RulesNeedHistory DEF TypeOK, Counted, Metrics
  <2> QED
    BY <1>1, <2>1, <2>2
<1>6. CASE ScriptUpdate
  <2>1. script'.flags = {} /\ flags' = [flags EXCEPT ![script.day] = script.flags]
    BY <1>6 DEF ScriptUpdate, ScriptNext, NoScript
  <2>2. \A d \in Days : flags'[d] = IF d = script.day THEN script.flags ELSE flags[d]
    BY <2>1 DEF TypeOK
  <2> QED
    BY <1>1, <2>1, <2>2
<1>7. CASE ScriptDone
  <2>1. /\ script'.flags = script.flags /\ flags' = flags /\ script.pc = "next"
    BY <1>0, <1>7 DEF ScriptDone, ScriptState
  <2> QED
    BY <1>1, <1>2, <2>1
<1>8. CASE ScriptFail
  BY <1>2, <1>8 DEF ScriptFail, NoScript
<1>9. Goal
  BY <1>3, <1>4, <1>5, <1>6, <1>7, <1>8, Zenon DEF Script
<1> QED
  BY <1>9

LEMMA PushKeepsHistory ==
  ASSUME AnomalyAssumption, TypeOK, HistoryInv, NEW a \in Agents, Push(a)
  PROVE  /\ \A d \in Days, k \in Counted : SpikeOf[k] \in flags'[d] => HasHistory(rows, k, d)
         /\ \A b \in Agents, k \in Counted :
              SpikeOf[k] \in push'[b].flags => HasHistory(rows, k, push'[b].day)
<1> DEFINE Goal ==
         /\ \A d \in Days, k \in Counted : SpikeOf[k] \in flags'[d] => HasHistory(rows, k, d)
         /\ \A b \in Agents, k \in Counted :
              SpikeOf[k] \in push'[b].flags => HasHistory(rows, k, push'[b].day)
<1>0. push[a] \in PushState /\ push[a].day \in Days
  BY DEF TypeOK, PushState
<1>1. /\ \A d \in Days, k \in Counted : SpikeOf[k] \in flags[d] => HasHistory(rows, k, d)
      /\ \A b \in Agents, k \in Counted :
           SpikeOf[k] \in push[b].flags => HasHistory(rows, k, push[b].day)
  BY DEF HistoryInv
<1>2. \A b \in Agents \ {a} : push'[b] = push[b]
  BY DEF Push, PushBegin, PushFlags, PushInsert, TypeOK
<1>3. ASSUME NEW d \in Days, PushBegin(a, d) PROVE Goal
  <2>1. push'[a].flags = {} /\ flags' = flags
    BY <1>3 DEF PushBegin, NoPush, TypeOK
  <2> QED
    BY <1>1, <1>2, <2>1
<1>4. CASE PushFlags(a)
  <2>1. /\ flags' = flags /\ push'[a].day = push[a].day
        /\ push'[a].flags \in {push[a].flags, Rules(rows, push[a].day, campus[push[a].day].own)}
    BY <1>0, <1>4 DEF PushFlags, TypeOK, PushState
  <2>2. \A k \in Counted :
          SpikeOf[k] \in Rules(rows, push[a].day, campus[push[a].day].own)
             => HasHistory(rows, k, push[a].day)
    BY <1>0, RulesNeedHistory DEF TypeOK, Counted, Metrics
  <2> QED
    BY <1>1, <1>2, <2>1, <2>2
<1>5. CASE PushInsert(a)
  <2>1. push'[a].flags = {}
    BY <1>5 DEF PushInsert, NoPush, TypeOK
  <2>2. \A d \in Days : flags'[d] \in {flags[d], IF d = push[a].day THEN push[a].flags ELSE flags[d]}
    BY <1>5 DEF PushInsert, TypeOK
  <2> QED
    BY <1>1, <1>2, <2>1, <2>2
<1>6. Goal
  BY <1>3, <1>4, <1>5, Zenon DEF Push
<1> QED
  BY <1>6

LEMMA StepKeepsHistory ==
  ASSUME AnomalyAssumption, TypeOK, HistoryInv, [Next]_vars
  PROVE  HistoryInv'
<1>1. \A d \in Days, k \in Counted :
         /\ rows[d].stored => rows'[d].stored /\ rows'[d].is[k] = rows[d].is[k]
         /\ rows'[d].stored => rows'[d].is[k] = campus'[d].own[k]
  BY RowsStay
<1>2. \A d \in Days, k \in Counted : HasHistory(rows, k, d) => HasHistory(rows', k, d)
  BY <1>1, HistoryStays
<1> DEFINE Goal ==
      /\ \A d \in Days, k \in Counted : SpikeOf[k] \in flags'[d] => HasHistory(rows, k, d)
      /\ \A a \in Agents, k \in Counted :
           SpikeOf[k] \in push'[a].flags => HasHistory(rows, k, push'[a].day)
      /\ \A k \in Counted : SpikeOf[k] \in script'.flags => HasHistory(rows, k, script'.day)
      /\ script'.pc = "next" => script'.flags = {}
<1>3. /\ \A d \in Days, k \in Counted : SpikeOf[k] \in flags[d] => HasHistory(rows, k, d)
      /\ \A a \in Agents, k \in Counted :
           SpikeOf[k] \in push[a].flags => HasHistory(rows, k, push[a].day)
      /\ \A k \in Counted : SpikeOf[k] \in script.flags => HasHistory(rows, k, script.day)
      /\ script.pc = "next" => script.flags = {}
  BY DEF HistoryInv
<1>4. ASSUME UNCHANGED vars PROVE Goal
  BY <1>3, <1>4 DEF vars
<1>5. ASSUME Script PROVE Goal
  <2>1. push' = push
    BY <1>5 DEF Script, ScriptStart, ScriptRead, ScriptFlags, ScriptUpdate, ScriptDone, ScriptFail
  <2> QED
    BY <1>3, <1>5, <2>1, ScriptKeepsHistory
<1>6. ASSUME NEW a \in Agents, Push(a) PROVE Goal
  <2>1. script' = script
    BY <1>6 DEF Push, PushBegin, PushFlags, PushInsert
  <2> QED
    BY <1>3, <1>6, <2>1, PushKeepsHistory
<1>7. ASSUME NEW r \in Ranges, Pull(r) PROVE Goal
  <2>1. push' = push /\ script' = script
        /\ \A d \in Days : flags'[d] = IF d \in Pulled(r) THEN {} ELSE flags[d]
    BY <1>7 DEF Pull
  <2> QED
    BY <1>3, <2>1
<1>8. Goal
  BY <1>4, <1>5, <1>6, <1>7, Zenon DEF Next
<1>9. \A a \in Agents : push'[a].day \in Days
  BY StepTypes DEF TypeOK, PushState
<1>10. script'.day \in Days
  BY StepTypes DEF TypeOK, ScriptState
<1> QED
  BY <1>1, <1>2, <1>8, <1>9, <1>10 DEF HistoryInv

\* A row flagged with a spike of loans has a stored day in its window on which there
\* were any, for any window, any number of days and of pushes at a time,
\* and whatever pulls and failed calls came between the computation of the flags and
\* their storage.  (applyRules, loadBaselines)
THEOREM SpikesRestOnHistory == Spec => []SpikesHaveHistory
<1> USE AnomalyAssumption
<1>1. Init => HistoryInv
  BY DEF Init, NoRow, NoPush, NoScript, HistoryInv
<1>2. TypeOK /\ HistoryInv /\ [Next]_vars => HistoryInv'
  BY StepKeepsHistory
<1>3. HistoryInv => SpikesHaveHistory
  BY DEF HistoryInv, SpikesHaveHistory, HasHistory, Counted
<1> QED
  BY <1>1, <1>2, <1>3, AnomalyTypeCorrect, PTL DEF Spec

-----------------------------------------------------------------------------
(* The cloud's rules against the agent's.                                  *)

\* A day of the window that is missing counts for nothing, if there was nothing to
\* count: then both count the same.
LEMMA SameTotals ==
  ASSUME AnomalyAssumption, TypeOK, NEW d \in Days, NEW k \in Metrics,
         WindowOf(d) \subseteq Days,
         \A e \in WindowOf(d) : IF rows[e].stored THEN rows[e].is[k] = campus[e].own[k]
                                ELSE campus[e].own[k] = 0
  PROVE  Total(rows, k, Baseline(rows, d)) = CampusTotal(k, d)
<1> DEFINE es == Baseline(rows, d)
           w  == WindowOf(d)
           f  == [e \in Days |-> rows[e].is[k]]
           g  == [e \in Days |-> campus[e].own[k]]
<1>1. /\ IsFiniteSet(w) /\ IsFiniteSet(es) /\ es \in SUBSET w /\ w \in SUBSET Days
      /\ \A e \in w : e \in es <=> rows[e].stored
  BY BaselineFinite DEF Baseline
<1>2. \A e \in es : f[e] = g[e]
  BY <1>1
<1>3. \A e \in w \ es : g[e] = 0
  BY <1>1
<1>4. \A e \in w : g[e] \in Nat
  BY <1>1 DEF TypeOK, DayState, Numbers, Metrics
<1>5. Total(rows, k, es) = SumOf(f, es) /\ CampusTotal(k, d) = SumOf(g, w)
  <2>1. w \cap Days = w
    BY <1>1
  <2> QED
    BY <2>1 DEF Total, CampusTotal
<1> HIDE DEF f, g, es, w
<1>6. SumOf(f, es) = SumOf(g, es)
  BY <1>1, <1>2, SumOfSame
<1>7. SumOf(g, w) = SumOf(g, es)
  BY <1>1, <1>3, <1>4, SumOfSkip
<1> QED
  BY <1>5, <1>6, <1>7 DEF es

\* What the agent flags as a spike.
LEMMA AgentSpikeNames ==
  ASSUME NEW k \in Metrics, NEW d
  PROVE  SpikeOf[k] \in DetectAnomalies(d) <=>
           campus[d].own[k] * Window > Threshold[k] * CampusTotal(k, d)
<1> DEFINE Above(m) == campus[d].own[m] * Window > Threshold[m] * CampusTotal(m, d)
<1>1. \A m \in Metrics : SpikeOf[m] = SpikeOf[k] => m = k
  BY DEF SpikeOf, Metrics
<1>2. SpikeOf[k] \notin ZeroOnWeekday(d, campus[d].own)
  BY DEF SpikeOf, Metrics, ZeroOnWeekday
<1>3. DetectAnomalies(d) = {SpikeOf[m] : m \in {m \in Metrics : Above(m)}}
                             \cup ZeroOnWeekday(d, campus[d].own)
  BY DEF DetectAnomalies
<1> HIDE DEF Above
<1>4. SpikeOf[k] \in DetectAnomalies(d) <=> Above(k)
  BY <1>1, <1>2, <1>3
<1> QED
  BY <1>4 DEF Above

\* Multiplying by more days makes no less.
LEMMA MoreDays ==
  ASSUME NEW n \in Nat, NEW c \in Nat, NEW w \in Nat, c <= w
  PROVE  n * c <= n * w
OBVIOUS

\* The cloud flags as a spike only what the agent flags, when nothing but days
\* without activity is missing; when no day is missing it flags all of it, except
\* where the mean is 0: in every state, for every window.  (applyRules and
\* loadBaselines against detectAnomalies and computeBaseline)
THEOREM RulesAgree == Spec => []AgreesWithTagger
<1> USE AnomalyAssumption
<1>1. TypeOK => AgreesWithTagger
  <2> SUFFICES ASSUME TypeOK, NEW d \in Days, NEW k \in Metrics,
                      WindowOf(d) \subseteq Days,
                      \A e \in WindowOf(d) : IF rows[e].stored
                                             THEN rows[e].is[k] = campus[e].own[k]
                                             ELSE campus[e].own[k] = 0
               PROVE  LET cloud == SpikeOf[k] \in Rules(rows, d, campus[d].own)
                          agent == SpikeOf[k] \in DetectAnomalies(d)
                      IN /\ cloud => agent
                         /\ agent /\ CampusTotal(k, d) > 0
                              /\ (\A e \in WindowOf(d) : rows[e].stored) => cloud
    BY DEF AgreesWithTagger
  <2> DEFINE es == Baseline(rows, d)
             n  == campus[d].own[k]
             c  == Cardinality(es)
             t  == CampusTotal(k, d)
             th == Threshold[k]
  <2>1. Total(rows, k, es) = t
    BY SameTotals
  <2>2. /\ IsFiniteSet(WindowOf(d)) /\ Cardinality(WindowOf(d)) = Window
        /\ es \in SUBSET WindowOf(d) /\ IsFiniteSet(es) /\ es \in SUBSET Days
    BY BaselineFinite
  <2>3. c \in Nat /\ c <= Window /\ Window \in Nat
    BY <2>2, FS_CardinalityType, FS_Subset DEF AnomalyAssumption
  <2>4. n \in Nat /\ th \in Nat /\ t \in Nat
    <3>1. Total(rows, k, es) \in Nat
      BY <2>2, TotalOf DEF TypeOK
    <3>2. n \in Nat
      BY DEF TypeOK, DayState, Numbers, Metrics
    <3> QED
      BY <2>1, <3>1, <3>2 DEF Threshold, Metrics
  <2>5. SpikeOf[k] \in Rules(rows, d, campus[d].own) <=> t > 0 /\ n * c > th * t
    BY <2>1, SpikeNames DEF Over
  <2>6. SpikeOf[k] \in DetectAnomalies(d) <=> n * Window > th * t
    BY AgentSpikeNames
  <2>7. (\A e \in WindowOf(d) : rows[e].stored) => c = Window
    <3>1. ASSUME \A e \in WindowOf(d) : rows[e].stored PROVE es = WindowOf(d)
      BY <3>1 DEF Baseline
    <3> QED
      BY <2>2, <3>1
  <2> HIDE DEF es, n, c, t, th
  <2>8. n * c > th * t => n * Window > th * t
    <3>1. n * c <= n * Window
      BY <2>3, <2>4, MoreDays
    <3>2. n * c \in Nat /\ n * Window \in Nat /\ th * t \in Nat
      BY <2>3, <2>4
    <3> QED
      BY <3>1, <3>2
  <2> QED
    BY <2>5, <2>6, <2>7, <2>8 DEF t
<1> QED
  BY <1>1, AnomalyTypeCorrect, PTL

=============================================================================
