------------------------- MODULE TenantConfigProofs -------------------------
(***************************************************************************)
(* Proofs about TenantConfig, for any number of requests, any values and   *)
(* any faults.                                                             *)
(***************************************************************************)
EXTENDS TenantConfig, TLAPS

\* The first row is a row, and an idle request a request.
LEMMA IdleIsRequest == Idle \in Request /\ FirstRow \in Row
<1>1. FirstRow \in Row
  BY TenantConfigAssumption DEF FirstRow, Row
<1>2. [f \in {} |-> 0] \in [{} -> Values] /\ {} \in SUBSET Fields
  OBVIOUS
<1>3. [f \in {} |-> 0] \in Change
  BY <1>2 DEF Change
<1>4. QED
  BY <1>1, <1>3 DEF Idle, Request, PCs

\* The steps, by what they do and not by the button that starts them.
Steps ==
  \/ \E c \in Callers :
       \/ Load(c) \/ Aborted(c) \/ RequestStep(c)
       \/ \E p \in Change, checked \in BOOLEAN : PatchRead(c, p, checked)
       \/ Regenerate(c) \/ Rotate(c) \/ ZipRead(c) \/ TestRead(c) \/ DeleteCheck(c)
  \/ Install \/ Push

\* Whatever a page sends is a change of fields to values.
LEMMA NextIsSteps ==
  ASSUME TypeOK, Next
  PROVE  Steps
<1>1. Patches \subseteq Change
  BY TenantConfigAssumption
<1>2. {"status"} \in SUBSET Fields /\ "disconnected" \in Values
  BY TenantConfigAssumption DEF Fields
<1>3. ASSUME NEW c \in Callers, Save(c)
      PROVE  \E p \in Change, checked \in BOOLEAN : PatchRead(c, p, checked)
  <2>1. PICK p \in Patches : /\ DOMAIN p = Fields
                             /\ \E s \in {p["status"], form[c].field["status"]} :
                                  PatchRead(c, [p EXCEPT !["status"] = s], FALSE)
    BY <1>3 DEF Save
  <2>2. PICK s \in {p["status"], form[c].field["status"]} :
               PatchRead(c, [p EXCEPT !["status"] = s], FALSE)
    BY <2>1
  <2>3. form[c].field \in [Fields -> Values]
    BY DEF TypeOK, Form
  <2>4. p \in [Fields -> Values]
    BY <1>1, <2>1 DEF Change
  <2>5. p["status"] \in Values /\ form[c].field["status"] \in Values
    BY <2>3, <2>4 DEF Fields
  <2>6. [p EXCEPT !["status"] = s] \in [Fields -> Values]
    BY <2>2, <2>4, <2>5
  <2>7. [p EXCEPT !["status"] = s] \in Change
    BY <2>6 DEF Change
  <2> QED
    BY <2>2, <2>7
<1>4. ASSUME NEW c \in Callers, Disconnect(c)
      PROVE  \E p \in Change, checked \in BOOLEAN : PatchRead(c, p, checked)
  <2>1. DisconnectBody \in [{"status"} -> Values]
    BY <1>2 DEF DisconnectBody
  <2>2. DisconnectBody \in Change
    BY <1>2, <2>1 DEF Change
  <2> QED
    BY <1>4, <2>2 DEF Disconnect
<1>5. ASSUME NEW c \in Callers, PatchIfUnchanged(c)
      PROVE  \E p \in Change, checked \in BOOLEAN : PatchRead(c, p, checked)
  <2>1. PICK p \in Patches : PatchRead(c, p, TRUE)
    BY <1>5 DEF PatchIfUnchanged
  <2> QED
    BY <1>1, <2>1
<1>6. ASSUME NEW c \in Callers,
             \/ Load(c) \/ Aborted(c) \/ RequestStep(c)
             \/ Editor(c) \/ ListButtons(c)
             \/ PatchIfUnchanged(c) \/ Regenerate(c)
      PROVE  Steps
  BY <1>3, <1>4, <1>5, <1>6 DEF Steps, Editor, ListButtons, Credentials
<1>7. CASE Install \/ Push
  BY <1>7 DEF Steps
<1> QED
  BY <1>6, <1>7, Zenon DEF Next

\* What a PATCH changes is a change.
LEMMA PatchIsChange ==
  ASSUME NEW p \in Change, NEW r \in Row,
         NEW change, change = [f \in {g \in DOMAIN p : p[g] # r.field[g]} |-> p[f]]
  PROVE  change \in Change /\ DOMAIN change \subseteq Fields
<1> DEFINE S == {g \in DOMAIN p : p[g] # r.field[g]}
<1>0. PICK T \in SUBSET Fields : p \in [T -> Values]
  BY DEF Change
<1>1. S \in SUBSET Fields
  BY <1>0
<1>2. \A f \in S : p[f] \in Values
  BY <1>0
<1>3. change \in [S -> Values]
  BY <1>2
<1>4. QED
  BY <1>1, <1>3 DEF Change

\* The columns of a row, and rows with other values in them.
LEMMA RowType ==
  ASSUME NEW r \in Row
  PROVE  /\ r.field \in [Fields -> Values]
         /\ r.secret \in Nat /\ r.key \in Nat /\ r.version \in Nat
         /\ \A v \in Nat : /\ [r EXCEPT !.secret = @ + 1, !.version = v] \in Row
                           /\ [[r EXCEPT !.key = @ + 1] EXCEPT !.version = v] \in Row
         /\ [r EXCEPT !.key = @ + 1] \in Row
         /\ \A f \in [Fields -> Values], v \in Nat : [r EXCEPT !.field = f, !.version = v] \in Row
         /\ \A x \in Values, v \in Nat : [r EXCEPT !.field["status"] = x, !.version = v] \in Row
<1>1. r.field \in [Fields -> Values] /\ r.secret \in Nat /\ r.key \in Nat /\ r.version \in Nat
  BY DEF Row
<1>2. r.secret + 1 \in Nat /\ r.key + 1 \in Nat
  BY <1>1
<1>3. \A v, n \in Nat : [r EXCEPT !.secret = n, !.version = v] \in Row
  BY DEF Row
<1>4. \A n \in Nat : [r EXCEPT !.key = n] \in Row
  BY DEF Row
<1>5. \A v, n \in Nat : [[r EXCEPT !.key = n] EXCEPT !.version = v] \in Row
  BY DEF Row
<1>6. \A f \in [Fields -> Values], v \in Nat : [r EXCEPT !.field = f, !.version = v] \in Row
  BY DEF Row
<1>7. ASSUME NEW x \in Values, NEW v \in Nat
      PROVE  [r EXCEPT !.field["status"] = x, !.version = v] \in Row
  <2>1. [r.field EXCEPT !["status"] = x] \in [Fields -> Values]
    BY <1>1 DEF Fields
  <2>2. [r EXCEPT !.field = [r.field EXCEPT !["status"] = x], !.version = v] \in Row
    BY <2>1, <1>6
  <2> QED
    BY <2>2
<1> QED
  BY <1>1, <1>2, <1>3, <1>4, <1>5, <1>6, <1>7

\* The locals of a request, and requests with other values in them.
LEMMA RequestType ==
  ASSUME NEW r \in Request
  PROVE  /\ r.pc \in PCs /\ r.change \in Change /\ r.todo \subseteq Fields
         /\ r.old \in Row /\ r.version \in Nat /\ r.checked \in BOOLEAN
         /\ r.forZip \in BOOLEAN /\ r.secret \in Nat /\ r.key \in Nat
         /\ r.alone \in BOOLEAN
         /\ \A pc \in PCs : [r EXCEPT !.pc = pc] \in Request
         /\ \A pc \in PCs, n \in Nat : /\ [r EXCEPT !.pc = pc, !.secret = n] \in Request
                                       /\ [r EXCEPT !.pc = pc, !.key = n] \in Request
         /\ \A pc \in PCs, b \in BOOLEAN : [r EXCEPT !.pc = pc, !.ok = b] \in Request
         /\ \A b \in BOOLEAN : [r EXCEPT !.alone = b] \in Request
         /\ \A pc \in PCs, f \in Fields : [r EXCEPT !.todo = @ \ {f}, !.pc = pc] \in Request
<1>1. /\ r.pc \in PCs /\ r.change \in Change /\ r.todo \subseteq Fields
      /\ r.old \in Row /\ r.version \in Nat /\ r.checked \in BOOLEAN
      /\ r.forZip \in BOOLEAN /\ r.secret \in Nat /\ r.key \in Nat
      /\ r.alone \in BOOLEAN
  BY DEF Request
<1>2. \A pc \in PCs : [r EXCEPT !.pc = pc] \in Request
  BY DEF Request
<1>3. \A pc \in PCs, n \in Nat : [r EXCEPT !.pc = pc, !.secret = n] \in Request
  BY DEF Request
<1>4. \A pc \in PCs, n \in Nat : [r EXCEPT !.pc = pc, !.key = n] \in Request
  BY DEF Request
<1>5. \A pc \in PCs, b \in BOOLEAN : [r EXCEPT !.pc = pc, !.ok = b] \in Request
  BY DEF Request
<1>6. \A b \in BOOLEAN : [r EXCEPT !.alone = b] \in Request
  BY DEF Request
<1>7. ASSUME NEW pc \in PCs, NEW f \in Fields
      PROVE  [r EXCEPT !.todo = @ \ {f}, !.pc = pc] \in Request
  <2>1. r.todo \ {f} \in SUBSET Fields
    BY <1>1
  <2>2. [r EXCEPT !.todo = r.todo \ {f}, !.pc = pc] \in Request
    BY <2>1 DEF Request
  <2> QED
    BY <2>2
<1> QED
  BY <1>1, <1>2, <1>3, <1>4, <1>5, <1>6, <1>7

\* Fields of a change that are fields of the row.
LEMMA ChangeValues ==
  ASSUME NEW change \in Change
  PROVE  DOMAIN change \subseteq Fields /\ \A f \in DOMAIN change : change[f] \in Values
BY DEF Change

\* A step that replaces one request by another.
LEMMA OneRequest ==
  ASSUME NEW c \in Callers, NEW r \in Request, req \in [Callers -> Request], Becomes(c, r)
  PROVE  /\ req' \in [Callers -> Request]
         /\ req'[c] = r
         /\ \A d \in Callers \ {c} : req'[d] = req[d]
BY DEF Becomes

\* A step that begins a request for credentials.
LEMMA OneBegins ==
  ASSUME NEW c \in Callers, NEW r \in Request, req \in [Callers -> Request],
         BeginTouching(c, r)
  PROVE  /\ req' \in [Callers -> Request]
         /\ req'[c] = [r EXCEPT !.alone =
                         \A e \in Callers \ {c} : req[e].pc \notin Changing]
         /\ \A d \in Callers \ {c} : req'[d] = [req[d] EXCEPT !.alone = FALSE]
<1> DEFINE b == \A e \in Callers \ {c} : req[e].pc \notin Changing
<1>1. b \in BOOLEAN
  OBVIOUS
<1>2. [r EXCEPT !.alone = b] \in Request
  BY <1>1, RequestType
<1>3. \A d \in Callers : [req[d] EXCEPT !.alone = FALSE] \in Request
  BY RequestType
<1> QED
  BY <1>2, <1>3 DEF BeginTouching

-----------------------------------------------------------------------------
(* Types.                                                                  *)

\* What is left to log is among what changes.
TodoInv == \A c \in Callers : req[c].todo \subseteq DOMAIN req[c].change

LEMMA InitType == Init => TypeOK /\ TodoInv
<1> SUFFICES ASSUME Init PROVE TypeOK /\ TodoInv
  OBVIOUS
<1>1. Idle \in Request /\ FirstRow \in Row /\ Initial \in [Fields -> Values]
  BY IdleIsRequest, TenantConfigAssumption
<1>2. req \in [Callers -> Request] /\ row \in Row
  BY <1>1 DEF Init
<1>3. form \in [Callers -> Form]
  BY <1>1 DEF Init, Form
<1>4. offer \in Env /\ campus \in Env
  BY DEF Init, Env, NoEnv
<1>5. TodoInv
  BY DEF Init, Idle, TodoInv
<1> QED
  BY <1>2, <1>3, <1>4, <1>5 DEF Init, TypeOK

\* Every step keeps the types.
LEMMA TypeStep == TypeOK /\ TodoInv /\ [Next]_vars => TypeOK' /\ TodoInv'
<1> SUFFICES ASSUME TypeOK, TodoInv, [Next]_vars PROVE TypeOK' /\ TodoInv'
  OBVIOUS
<1>a. Idle \in Request /\ FirstRow \in Row /\ Idle.todo = {}
  BY IdleIsRequest DEF Idle
<1>b. row \in Row /\ req \in [Callers -> Request] /\ clock \in Nat
  BY DEF TypeOK
<1>c. ASSUME NEW new \in Row, Store(new) PROVE row' \in Row
  BY <1>b, <1>c DEF Store
<1>d. ASSUME Tick PROVE clock' \in Nat
  BY <1>b, <1>d DEF Tick
\* A request becomes another one that has as much to log.
<1>e. ASSUME NEW c \in Callers, NEW r \in Request, Becomes(c, r),
             r.todo \subseteq DOMAIN r.change
      PROVE  req' \in [Callers -> Request] /\ TodoInv'
  <2>1. /\ req' \in [Callers -> Request] /\ req'[c] = r
        /\ \A d \in Callers \ {c} : req'[d] = req[d]
    BY <1>b, <1>e, OneRequest
  <2>2. \A d \in Callers : req'[d].todo \subseteq DOMAIN req'[d].change
    <3> TAKE d \in Callers
    <3>1. CASE d = c
      BY <1>e, <2>1, <3>1
    <3>2. CASE d # c
      <4>1. req'[d] = req[d] /\ req[d].todo \subseteq DOMAIN req[d].change
        BY <2>1, <3>2 DEF TodoInv
      <4> QED
        BY <4>1
    <3> QED
      BY <3>1, <3>2
  <2> QED
    BY <2>1, <2>2 DEF TodoInv
<1>f. ASSUME NEW c \in Callers, NEW pc \in PCs
      PROVE  LET r == [req[c] EXCEPT !.pc = pc]
             IN  r \in Request /\ r.todo \subseteq DOMAIN r.change
  <2> DEFINE r == [req[c] EXCEPT !.pc = pc]
  <2>1. r \in Request
    BY <1>b, <1>f, RequestType
  <2>2. r.todo = req[c].todo /\ r.change = req[c].change
    BY <1>b DEF Request
  <2>3. req[c].todo \subseteq DOMAIN req[c].change
    BY DEF TodoInv
  <2> QED
    BY <2>1, <2>2, <2>3
<1>g. ASSUME NEW c \in Callers, End(c) PROVE req' \in [Callers -> Request] /\ TodoInv'
  BY <1>a, <1>e, <1>g DEF End
<1>h. ASSUME NEW c \in Callers, NEW r \in Request, BeginTouching(c, r), r.todo = {}
      PROVE  req' \in [Callers -> Request] /\ TodoInv'
  <2> DEFINE b == \A e \in Callers \ {c} : req[e].pc \notin Changing
  <2>1. /\ req' \in [Callers -> Request]
        /\ req'[c] = [r EXCEPT !.alone = b]
        /\ \A d \in Callers \ {c} : req'[d] = [req[d] EXCEPT !.alone = FALSE]
    BY <1>b, <1>h, OneBegins
  <2>2. [r EXCEPT !.alone = b].todo = {}
    BY <1>h DEF Request
  <2>3. \A d \in Callers : req'[d].todo \subseteq DOMAIN req'[d].change
    <3> TAKE d \in Callers
    <3>1. CASE d = c
      BY <2>1, <2>2, <3>1
    <3>2. CASE d # c
      <4>1. req[d] \in Request /\ req[d].todo \subseteq DOMAIN req[d].change
        BY <1>b DEF TodoInv
      <4> DEFINE q == [req[d] EXCEPT !.alone = FALSE]
      <4>2. q.todo = req[d].todo /\ q.change = req[d].change
        BY <4>1 DEF Request
      <4>3. req'[d] = q
        BY <2>1, <3>2
      <4> QED
        BY <4>1, <4>2, <4>3
    <3> QED
      BY <3>1, <3>2
  <2> QED
    BY <2>1, <2>3 DEF TodoInv
<1>1. CASE UNCHANGED vars
  BY <1>1 DEF vars, TypeOK, TodoInv
<1>2. ASSUME NEW c \in Callers, Load(c) PROVE TypeOK' /\ TodoInv'
  <2>1. [field |-> row.field, version |-> row.version] \in Form
    BY <1>b, RowType DEF Form
  <2> QED
    BY <1>2, <2>1 DEF Load, TypeOK, TodoInv
<1>3. ASSUME NEW c \in Callers, Aborted(c) PROVE TypeOK' /\ TodoInv'
  BY <1>3, <1>g DEF Aborted, TypeOK
<1>4. ASSUME NEW c \in Callers, NEW p \in Change, NEW checked \in BOOLEAN,
             PatchRead(c, p, checked)
      PROVE  TypeOK' /\ TodoInv'
  <2> DEFINE change == [f \in {g \in DOMAIN p : p[g] # row.field[g]} |-> p[f]]
             r == [Idle EXCEPT !.pc = "audit", !.change = change, !.todo = DOMAIN change,
                               !.old = row, !.version = clock', !.checked = checked]
  <2>1. change \in Change /\ DOMAIN change \subseteq Fields
    BY <1>b, PatchIsChange
  <2>2. clock' \in Nat
    BY <1>4, <1>d DEF PatchRead
  <2>3. Becomes(c, r)
    BY <1>4 DEF PatchRead, Begin
  <2> HIDE DEF change
  <2>4. r \in Request /\ r.todo = DOMAIN r.change
    BY <1>a, <1>b, <2>1, <2>2 DEF Request, PCs
  <2>5. req' \in [Callers -> Request] /\ TodoInv'
    BY <1>e, <2>3, <2>4
  <2> QED
    BY <1>4, <2>2, <2>5 DEF PatchRead, TypeOK
<1>5. ASSUME NEW c \in Callers, PatchAudit(c) PROVE TypeOK' /\ TodoInv'
  <2>1. PICK f \in req[c].todo :
          /\ audit' = audit \cup {<<f, req[c].change[f]>>}
          /\ Becomes(c, [req[c] EXCEPT
                            !.todo = @ \ {f},
                            !.pc = IF req[c].todo = {f} THEN "update" ELSE "audit"])
    BY <1>5 DEF PatchAudit
  <2> DEFINE pc == IF req[c].todo = {f} THEN "update" ELSE "audit"
             r  == [req[c] EXCEPT !.todo = @ \ {f}, !.pc = pc]
  <2>2. f \in DOMAIN req[c].change /\ f \in Fields /\ req[c].change[f] \in Values
    BY <1>b, RequestType, ChangeValues DEF TodoInv
  <2>3. pc \in PCs
    BY DEF PCs
  <2>4. r \in Request
    BY <1>b, <2>2, <2>3, RequestType
  <2>5. r.todo \subseteq DOMAIN r.change
    <3>1. r.todo = req[c].todo \ {f} /\ r.change = req[c].change
      BY <1>b DEF Request
    <3>2. req[c].todo \subseteq DOMAIN req[c].change
      BY DEF TodoInv
    <3> QED
      BY <3>1, <3>2
  <2>6. req' \in [Callers -> Request] /\ TodoInv'
    BY <1>e, <2>1, <2>4, <2>5
  <2>7. audit' \subseteq Fields \X Values
    BY <2>1, <2>2 DEF TypeOK
  <2> QED
    BY <1>5, <2>6, <2>7 DEF PatchAudit, TypeOK
<1>6. ASSUME NEW c \in Callers, PatchUpdate(c) PROVE TypeOK' /\ TodoInv'
  <2>1. req[c].change \in Change /\ req[c].version \in Nat
    BY <1>b, RequestType
  <2>2. row.field \in [Fields -> Values]
    BY <1>b, RowType
  <2>3. [f \in Fields |-> IF f \in DOMAIN req[c].change THEN req[c].change[f]
                          ELSE row.field[f]] \in [Fields -> Values]
    BY <2>1, <2>2, ChangeValues
  <2>4. Patched(req[c]) \in Row
    BY <1>b, <2>1, <2>3, RowType DEF Patched
  <2>5. row' \in Row
    BY <1>6, <1>c, <2>4 DEF PatchUpdate
  <2> QED
    BY <1>6, <1>g, <2>5 DEF PatchUpdate, TypeOK
<1>7. ASSUME NEW c \in Callers, Regenerate(c) PROVE TypeOK' /\ TodoInv'
  <2>1. row.secret + 1 \in Nat /\ clock' \in Nat
    <3>1. row.secret \in Nat
      BY <1>b DEF Row
    <3>2. Tick
      BY <1>7 DEF Regenerate
    <3> QED
      BY <1>d, <3>1, <3>2
  <2>2. NewSecret \in Row
    BY <1>b, <2>1, RowType DEF NewSecret
  <2>3. [Idle EXCEPT !.pc = "shown", !.secret = row.secret + 1] \in Request
    BY <1>a, <2>1, RequestType DEF PCs, Changing
  <2>4. [Idle EXCEPT !.pc = "shown", !.secret = row.secret + 1].todo = {}
    BY DEF Idle
  <2>5. row' \in Row /\ req' \in [Callers -> Request] /\ TodoInv' /\ good' \in BOOLEAN
    BY <1>7, <1>c, <1>h, <2>2, <2>3, <2>4 DEF Regenerate, BeginTouching
  <2> QED
    BY <1>7, <2>1, <2>5 DEF Regenerate, TypeOK
<1>8. ASSUME NEW c \in Callers, RegenerateAnswer(c) PROVE TypeOK' /\ TodoInv'
  <2>1. [secret |-> req[c].secret, key |-> 0] \in Env
    BY <1>b, RequestType DEF Env
  <2> QED
    BY <1>8, <1>g, <2>1 DEF RegenerateAnswer, TypeOK
<1>9. ASSUME NEW c \in Callers, Rotate(c) PROVE TypeOK' /\ TodoInv'
  <2>1. clock' \in Nat
    BY <1>9, <1>d DEF Rotate
  <2>2. [NewKey EXCEPT !.version = clock'] \in Row
    BY <1>b, <2>1, RowType DEF NewKey
  <2>3. [Idle EXCEPT !.pc = "rotated"] \in Request
    BY <1>a, RequestType DEF PCs, Changing
  <2>4. [Idle EXCEPT !.pc = "rotated"].todo = {}
    BY DEF Idle
  <2>5. row' \in Row /\ req' \in [Callers -> Request] /\ TodoInv' /\ good' \in BOOLEAN
    BY <1>9, <1>c, <1>h, <2>2, <2>3, <2>4 DEF Rotate, BeginTouching
  <2> QED
    BY <1>9, <2>1, <2>5 DEF Rotate, TypeOK
<1>10. ASSUME NEW c \in Callers, RotateAnswer(c) \/ TestAnswer(c) \/ Orphaned(c)
       PROVE  TypeOK' /\ TodoInv'
  BY <1>10, <1>g DEF RotateAnswer, TestAnswer, Orphaned, TypeOK
<1>11. ASSUME NEW c \in Callers, ZipRead(c) PROVE TypeOK' /\ TodoInv'
  <2>1. [Idle EXCEPT !.pc = "zipUpdate", !.old = row, !.forZip = TRUE] \in Request
    BY <1>a, <1>b DEF Request, PCs, Changing
  <2>2. [Idle EXCEPT !.pc = "zipUpdate", !.old = row, !.forZip = TRUE].todo = {}
    BY DEF Idle
  <2>3. req' \in [Callers -> Request] /\ TodoInv' /\ good' \in BOOLEAN
    BY <1>11, <1>h, <2>1, <2>2 DEF ZipRead, BeginTouching
  <2> QED
    BY <1>11, <2>3 DEF ZipRead, TypeOK
<1>12. ASSUME NEW c \in Callers, TestRead(c) PROVE TypeOK' /\ TodoInv'
  <2>1. [Idle EXCEPT !.pc = "ensure", !.old = row] \in Request
    BY <1>a, <1>b DEF Request, PCs, Changing
  <2>2. [Idle EXCEPT !.pc = "ensure", !.old = row].todo = {}
    BY DEF Idle
  <2>3. req' \in [Callers -> Request] /\ TodoInv' /\ good' \in BOOLEAN
    BY <1>12, <1>h, <2>1, <2>2 DEF TestRead, BeginTouching
  <2> QED
    BY <1>12, <2>3 DEF TestRead, TypeOK
<1>13. ASSUME NEW c \in Callers, ZipUpdate(c) PROVE TypeOK' /\ TodoInv'
  <2>1. row.secret + 1 \in Nat /\ clock' \in Nat
    <3>1. row.secret \in Nat
      BY <1>b DEF Row
    <3>2. Tick
      BY <1>13 DEF ZipUpdate
    <3> QED
      BY <1>d, <3>1, <3>2
  <2>2. NewSecret \in Row
    BY <1>b, <2>1, RowType DEF NewSecret
  <2> DEFINE r == [req[c] EXCEPT !.pc = "ensure", !.secret = row.secret + 1]
  <2>3. r \in Request
    BY <1>b, <2>1, RequestType DEF PCs, Changing
  <2>4. r.todo \subseteq DOMAIN r.change
    <3>1. r.todo = req[c].todo /\ r.change = req[c].change
      BY <1>b DEF Request
    <3>2. req[c].todo \subseteq DOMAIN req[c].change
      BY DEF TodoInv
    <3> QED
      BY <3>1, <3>2
  <2>5. Becomes(c, r)
    BY <1>13 DEF ZipUpdate
  <2>6. row' \in Row /\ req' \in [Callers -> Request] /\ TodoInv'
    BY <1>13, <1>c, <1>e, <2>2, <2>3, <2>4, <2>5 DEF ZipUpdate
  <2> QED
    BY <1>13, <2>1, <2>6 DEF ZipUpdate, TypeOK
<1>i. ASSUME NEW c \in Callers, NEW k \in Nat, WithKey(c, k)
      PROVE  req' \in [Callers -> Request] /\ TodoInv'
  <2> DEFINE pc == IF req[c].forZip THEN "zipAnswer" ELSE "probe"
             r  == [req[c] EXCEPT !.pc = pc, !.key = k]
  <2>1. pc \in PCs
    BY DEF PCs, Changing
  <2>2. r \in Request
    BY <1>b, <2>1, RequestType
  <2>3. r.todo \subseteq DOMAIN r.change
    <3>1. r.todo = req[c].todo /\ r.change = req[c].change
      BY <1>b DEF Request
    <3>2. req[c].todo \subseteq DOMAIN req[c].change
      BY DEF TodoInv
    <3> QED
      BY <3>1, <3>2
  <2>4. Becomes(c, r)
    BY <1>i DEF WithKey
  <2> QED
    BY <1>e, <2>2, <2>3, <2>4
<1>14. ASSUME NEW c \in Callers, EnsureKey(c) PROVE TypeOK' /\ TodoInv'
  <2>1. row.key \in Nat /\ "generate" \in PCs
    BY <1>b, RowType DEF PCs, Changing
  <2>2. req' \in [Callers -> Request] /\ TodoInv'
    BY <1>14, <1>e, <1>f, <1>i, <2>1 DEF EnsureKey, Goto
  <2> QED
    BY <1>14, <2>2 DEF EnsureKey, TypeOK
<1>15. ASSUME NEW c \in Callers, GenerateKey(c) PROVE TypeOK' /\ TodoInv'
  <2>1. row.key + 1 \in Nat
    <3>1. row.key \in Nat
      BY <1>b DEF Row
    <3> QED
      BY <3>1
  <2>2. NewKey \in Row
    BY <1>b, RowType DEF NewKey
  <2>3. row' \in Row /\ req' \in [Callers -> Request] /\ TodoInv'
    BY <1>15, <1>c, <1>i, <2>1, <2>2 DEF GenerateKey
  <2> QED
    BY <1>15, <2>3 DEF GenerateKey, TypeOK
<1>16. ASSUME NEW c \in Callers, ZipAnswer(c) PROVE TypeOK' /\ TodoInv'
  <2>1. EnvOf(req[c]) \in Env /\ req[c].alone \in BOOLEAN
    BY <1>b, RequestType DEF EnvOf, Env
  <2> QED
    BY <1>16, <1>g, <2>1 DEF ZipAnswer, TypeOK
<1>17. ASSUME NEW c \in Callers, Probe(c) PROVE TypeOK' /\ TodoInv'
  <2>1. PICK ok \in BOOLEAN : Becomes(c, [req[c] EXCEPT !.pc = "testUpdate", !.ok = ok])
    BY <1>17 DEF Probe
  <2> DEFINE r == [req[c] EXCEPT !.pc = "testUpdate", !.ok = ok]
  <2>2. r \in Request
    BY <1>b, RequestType DEF PCs
  <2>3. r.todo \subseteq DOMAIN r.change
    <3>1. r.todo = req[c].todo /\ r.change = req[c].change
      BY <1>b DEF Request
    <3>2. req[c].todo \subseteq DOMAIN req[c].change
      BY DEF TodoInv
    <3> QED
      BY <3>1, <3>2
  <2>4. req' \in [Callers -> Request] /\ TodoInv'
    BY <1>e, <2>1, <2>2, <2>3
  <2> QED
    BY <1>17, <2>4 DEF Probe, TypeOK
<1>18. ASSUME NEW c \in Callers, TestUpdate(c) PROVE TypeOK' /\ TodoInv'
  <2> DEFINE x == IF req[c].ok THEN "connected" ELSE "disconnected"
  <2>1. x \in Values /\ clock' \in Nat /\ "testAnswer" \in PCs
    BY <1>18, <1>d, TenantConfigAssumption DEF TestUpdate, PCs
  <2>2. [row EXCEPT !.field["status"] = x, !.version = clock'] \in Row
    BY <1>b, <2>1, RowType
  <2>3. row' \in Row /\ req' \in [Callers -> Request] /\ TodoInv'
    BY <1>18, <1>c, <1>e, <1>f, <2>1, <2>2 DEF TestUpdate, Goto
  <2> QED
    BY <1>18, <2>1, <2>3 DEF TestUpdate, TypeOK
<1>19. ASSUME NEW c \in Callers, DeleteCheck(c) PROVE TypeOK' /\ TodoInv'
  <2> DEFINE r == [Idle EXCEPT !.pc = "deleteRows"]
  <2>1. r \in Request /\ r.todo \subseteq DOMAIN r.change
    BY <1>a, RequestType DEF PCs, Idle
  <2>2. req' \in [Callers -> Request] /\ TodoInv'
    BY <1>19, <1>e, <2>1 DEF DeleteCheck, Begin
  <2> QED
    BY <1>19, <2>2 DEF DeleteCheck, TypeOK
<1>20. ASSUME NEW c \in Callers, DeleteRows(c) PROVE TypeOK' /\ TodoInv'
  <2>1. req' \in [Callers -> Request] /\ TodoInv'
    BY <1>20, <1>e, <1>f DEF DeleteRows, Goto, PCs
  <2> QED
    BY <1>20, <2>1 DEF DeleteRows, TypeOK
<1>21. ASSUME NEW c \in Callers, DeleteTenant(c) PROVE TypeOK' /\ TodoInv'
  <2>1. present' \in BOOLEAN /\ audit' \subseteq Fields \X Values
    BY <1>21 DEF DeleteTenant, TypeOK
  <2> QED
    BY <1>21, <1>g, <2>1 DEF DeleteTenant, TypeOK
<1>22. CASE Install
  <2>1. campus' \in Env
    BY <1>22 DEF Install, TypeOK, Env
  <2> QED
    BY <1>22, <2>1 DEF Install, TypeOK, TodoInv
<1>23. CASE Push
  BY <1>23 DEF Push, TypeOK, TodoInv
<1> QED
  BY <1>1, <1>2, <1>3, <1>4, <1>5, <1>6, <1>7, <1>8, <1>9, <1>10, <1>11, <1>12, <1>13,
     <1>14, <1>15, <1>16, <1>17, <1>18, <1>19, <1>20, <1>21, <1>22, <1>23,
     NextIsSteps DEF Steps, RequestStep

\* The row, the form and the requests always have their types.
THEOREM TenantTypeCorrect == Spec => [](TypeOK /\ TodoInv)
<1>1. Init => TypeOK /\ TodoInv
  BY InitType
<1>2. TypeOK /\ TodoInv /\ [Next]_vars => (TypeOK /\ TodoInv)'
  BY TypeStep
<1> QED
  BY <1>1, <1>2, PTL DEF Spec

-----------------------------------------------------------------------------
(* What a step leaves alone.  Seven statements write the row, one of them  *)
(* the name and the URL.                                                   *)

Patching == {"audit", "update"}

\* A request is the one it was, but for being alone.
Same(d) ==
  /\ req'[d].pc = req[d].pc /\ req'[d].change = req[d].change
  /\ req'[d].todo = req[d].todo /\ req'[d].old = req[d].old
  /\ req'[d].version = req[d].version /\ req'[d].checked = req[d].checked
  /\ req'[d].forZip = req[d].forZip /\ req'[d].secret = req[d].secret
  /\ req'[d].key = req[d].key /\ (req'[d].alone => req[d].alone)

\* A statement leaves name and URL alone, and moves updatedAt if it sets a field.
Bumped ==
  /\ \A f \in {"name", "slims_base_url"} : row'.field[f] = row.field[f]
  /\ \/ row'.field = row.field /\ row'.version = row.version
     \/ row'.version = clock' /\ clock < clock'

\* What every step but those of a PATCH and Load does.
Quiet ==
  /\ present' => present /\ audit' = audit
  /\ form' = form
  /\ \A d \in Callers : Same(d) \/ req'[d].pc \notin Patching
  /\ clock' \in Nat /\ clock <= clock'
  /\ Bumped

\* The other requests.
LEMMA Elsewhere ==
  ASSUME NEW c \in Callers, NEW r, req \in [Callers -> Request], Becomes(c, r)
  PROVE  req'[c] = r /\ \A d \in Callers \ {c} : Same(d)
BY DEF Becomes, Same

LEMMA ElsewhereBegins ==
  ASSUME NEW c \in Callers, NEW r, req \in [Callers -> Request], BeginTouching(c, r)
  PROVE  /\ req'[c] = [r EXCEPT !.alone =
                         \A e \in Callers \ {c} : req[e].pc \notin Changing]
         /\ \A d \in Callers \ {c} : Same(d) /\ ~req'[d].alone
         /\ req[c].pc = "idle" /\ good' = FALSE
<1>1. \A d \in Callers \ {c} : req'[d] = [req[d] EXCEPT !.alone = FALSE]
  BY DEF BeginTouching
<1>2. \A d \in Callers \ {c} : Same(d) /\ ~req'[d].alone
  <2> TAKE d \in Callers \ {c}
  <2>1. req[d] \in Request
    OBVIOUS
  <2>2. req'[d] = [req[d] EXCEPT !.alone = FALSE]
    BY <1>1
  <2> QED
    BY <2>1, <2>2 DEF Request, Same
<1> QED
  BY <1>2 DEF BeginTouching

\* The statements that write the row.
LEMMA Statements ==
  ASSUME TypeOK
  PROVE  /\ Tick /\ Store(NewSecret) => Bumped
         /\ Tick /\ Store([NewKey EXCEPT !.version = clock']) => Bumped
         /\ Store(NewKey) => Bumped
         /\ \A x \in Values :
              Tick /\ Store([row EXCEPT !.field["status"] = x, !.version = clock']) => Bumped
         /\ row' = row => Bumped
         /\ Tick => clock' \in Nat /\ clock <= clock'
         /\ clock' = clock => clock' \in Nat /\ clock <= clock'
<1>1. row \in Row /\ clock \in Nat
  BY DEF TypeOK
<1>2. Tick => clock' = clock + 1
  BY DEF Tick
<1>3. ASSUME Tick, Store(NewSecret) PROVE Bumped
  BY <1>1, <1>2, <1>3 DEF Store, NewSecret, Bumped, Row
<1>4. ASSUME Tick, Store([NewKey EXCEPT !.version = clock']) PROVE Bumped
  BY <1>1, <1>2, <1>4 DEF Store, NewKey, Bumped, Row
<1>5. ASSUME Store(NewKey) PROVE Bumped
  BY <1>1, <1>5 DEF Store, NewKey, Bumped, Row
<1>6. ASSUME NEW x \in Values, Tick,
             Store([row EXCEPT !.field["status"] = x, !.version = clock'])
      PROVE  Bumped
  BY <1>1, <1>2, <1>6 DEF Store, Bumped, Row, Fields
<1>7. row' = row => Bumped
  BY DEF Bumped
<1>8. Tick => clock' \in Nat /\ clock <= clock'
  BY <1>1, <1>2
<1>9. clock' = clock => clock' \in Nat /\ clock <= clock'
  BY <1>1
<1> QED
  BY <1>3, <1>4, <1>5, <1>6, <1>7, <1>8, <1>9

LEMMA QuietSteps ==
  ASSUME TypeOK, [Next]_vars
  PROVE  \/ Quiet
         \/ \E c \in Callers : \/ Load(c) \/ PatchAudit(c) \/ PatchUpdate(c)
                               \/ \E p \in Change, checked \in BOOLEAN : PatchRead(c, p, checked)
<1>a. row \in Row /\ req \in [Callers -> Request] /\ clock \in Nat
  BY DEF TypeOK
<1>b. Idle.pc = "idle" /\ "idle" \notin Patching
  BY DEF Idle, Patching
<1>c. ASSUME NEW c \in Callers, NEW r, Becomes(c, r), r.pc \notin Patching
      PROVE  \A d \in Callers : Same(d) \/ req'[d].pc \notin Patching
  BY <1>a, <1>c, Elsewhere
<1>d. ASSUME NEW c \in Callers, End(c)
      PROVE  \A d \in Callers : Same(d) \/ req'[d].pc \notin Patching
  BY <1>b, <1>c, <1>d DEF End
<1>e. ASSUME NEW c \in Callers, NEW r \in Request, BeginTouching(c, r), r.pc \notin Patching
      PROVE  \A d \in Callers : Same(d) \/ req'[d].pc \notin Patching
  <2> DEFINE b == \A e \in Callers \ {c} : req[e].pc \notin Changing
  <2>0. [r EXCEPT !.alone = b].pc = r.pc
    BY DEF Request
  <2>1. req'[c].pc = r.pc
    BY <1>a, <1>e, <2>0, ElsewhereBegins
  <2> QED
    BY <1>a, <1>e, <2>1, ElsewhereBegins
<1>f. ASSUME NEW c \in Callers, NEW pc \in PCs, Goto(c, pc), pc \notin Patching
      PROVE  \A d \in Callers : Same(d) \/ req'[d].pc \notin Patching
  <2>1. [req[c] EXCEPT !.pc = pc].pc = pc
    BY <1>a DEF Request
  <2> QED
    BY <1>c, <1>f, <2>1 DEF Goto
<1>g. ASSUME NEW c \in Callers, NEW k, WithKey(c, k)
      PROVE  \A d \in Callers : Same(d) \/ req'[d].pc \notin Patching
  <2> DEFINE r == [req[c] EXCEPT !.pc = IF req[c].forZip THEN "zipAnswer" ELSE "probe",
                                 !.key = k]
  <2>1. r.pc \notin Patching
    BY <1>a DEF Request, Patching
  <2> QED
    BY <1>c, <1>g, <2>1 DEF WithKey
<1>1. CASE UNCHANGED vars
  <2>1. \A d \in Callers : Same(d)
    BY <1>1 DEF vars, Same
  <2> QED
    BY <1>1, <1>a, <2>1, Statements DEF vars, Quiet
<1>2. ASSUME NEW c \in Callers, Aborted(c) PROVE Quiet
  BY <1>2, <1>d, Statements DEF Aborted, Quiet
<1>3. ASSUME NEW c \in Callers, Regenerate(c) PROVE Quiet
  <2> DEFINE r == [Idle EXCEPT !.pc = "shown", !.secret = row.secret + 1]
  <2>0. row.secret + 1 \in Nat
    BY <1>a DEF Row
  <2>1. r \in Request /\ r.pc \notin Patching
    BY <2>0, IdleIsRequest, RequestType DEF PCs, Changing, Idle, Patching
  <2>2. \A d \in Callers : Same(d) \/ req'[d].pc \notin Patching
    BY <1>3, <1>e, <2>1 DEF Regenerate
  <2> QED
    BY <1>3, <2>2, Statements DEF Regenerate, Quiet
<1>4. ASSUME NEW c \in Callers, RegenerateAnswer(c) PROVE Quiet
  BY <1>4, <1>d, Statements DEF RegenerateAnswer, Quiet
<1>5. ASSUME NEW c \in Callers, Rotate(c) PROVE Quiet
  <2> DEFINE r == [Idle EXCEPT !.pc = "rotated"]
  <2>1. r \in Request /\ r.pc \notin Patching
    BY IdleIsRequest, RequestType DEF PCs, Changing, Idle, Patching
  <2>2. \A d \in Callers : Same(d) \/ req'[d].pc \notin Patching
    BY <1>5, <1>e, <2>1 DEF Rotate
  <2> QED
    BY <1>5, <2>2, Statements DEF Rotate, Quiet
<1>6. ASSUME NEW c \in Callers, RotateAnswer(c) \/ TestAnswer(c) \/ Orphaned(c) PROVE Quiet
  <2>1. End(c) /\ UNCHANGED <<present, row, audit, clock, form>>
    BY <1>6 DEF RotateAnswer, TestAnswer, Orphaned
  <2>2. \A d \in Callers : Same(d) \/ req'[d].pc \notin Patching
    BY <1>d, <2>1
  <2> QED
    BY <2>1, <2>2, Statements DEF Quiet
<1>7. ASSUME NEW c \in Callers, ZipRead(c) PROVE Quiet
  <2> DEFINE r == [Idle EXCEPT !.pc = "zipUpdate", !.old = row, !.forZip = TRUE]
  <2>1. r \in Request /\ r.pc \notin Patching
    BY <1>a, IdleIsRequest DEF Request, PCs, Changing, Patching
  <2>2. \A d \in Callers : Same(d) \/ req'[d].pc \notin Patching
    BY <1>7, <1>e, <2>1 DEF ZipRead
  <2> QED
    BY <1>7, <2>2, Statements DEF ZipRead, Quiet
<1>8. ASSUME NEW c \in Callers, TestRead(c) PROVE Quiet
  <2> DEFINE r == [Idle EXCEPT !.pc = "ensure", !.old = row]
  <2>1. r \in Request /\ r.pc \notin Patching
    BY <1>a, IdleIsRequest DEF Request, PCs, Changing, Patching
  <2>2. \A d \in Callers : Same(d) \/ req'[d].pc \notin Patching
    BY <1>8, <1>e, <2>1 DEF TestRead
  <2> QED
    BY <1>8, <2>2, Statements DEF TestRead, Quiet
<1>9. ASSUME NEW c \in Callers, ZipUpdate(c) PROVE Quiet
  <2> DEFINE r == [req[c] EXCEPT !.pc = "ensure", !.secret = row.secret + 1]
  <2>1. r.pc \notin Patching
    BY <1>a DEF Request, Patching
  <2>2. \A d \in Callers : Same(d) \/ req'[d].pc \notin Patching
    BY <1>9, <1>c, <2>1 DEF ZipUpdate
  <2> QED
    BY <1>9, <2>2, Statements DEF ZipUpdate, Quiet
<1>10. ASSUME NEW c \in Callers, EnsureKey(c) PROVE Quiet
  <2>1. \A d \in Callers : Same(d) \/ req'[d].pc \notin Patching
    BY <1>10, <1>f, <1>g DEF EnsureKey, PCs, Changing, Patching
  <2> QED
    BY <1>10, <2>1, Statements DEF EnsureKey, Quiet
<1>11. ASSUME NEW c \in Callers, GenerateKey(c) PROVE Quiet
  <2>1. \A d \in Callers : Same(d) \/ req'[d].pc \notin Patching
    BY <1>11, <1>g DEF GenerateKey
  <2> QED
    BY <1>11, <2>1, Statements DEF GenerateKey, Quiet
<1>12. ASSUME NEW c \in Callers, ZipAnswer(c) PROVE Quiet
  BY <1>12, <1>d, Statements DEF ZipAnswer, Quiet
<1>13. ASSUME NEW c \in Callers, Probe(c) PROVE Quiet
  <2>1. PICK ok \in BOOLEAN : Becomes(c, [req[c] EXCEPT !.pc = "testUpdate", !.ok = ok])
    BY <1>13 DEF Probe
  <2>2. [req[c] EXCEPT !.pc = "testUpdate", !.ok = ok].pc \notin Patching
    BY <1>a DEF Request, Patching
  <2>3. \A d \in Callers : Same(d) \/ req'[d].pc \notin Patching
    BY <1>c, <2>1, <2>2
  <2> QED
    BY <1>13, <2>3, Statements DEF Probe, Quiet
<1>14. ASSUME NEW c \in Callers, TestUpdate(c) PROVE Quiet
  <2> DEFINE x == IF req[c].ok THEN "connected" ELSE "disconnected"
  <2>1. x \in Values
    BY TenantConfigAssumption
  <2>2. \A d \in Callers : Same(d) \/ req'[d].pc \notin Patching
    BY <1>14, <1>f DEF TestUpdate, PCs, Patching
  <2>3. Bumped
    BY <1>14, <2>1, Statements DEF TestUpdate
  <2> QED
    BY <1>14, <2>2, <2>3, Statements DEF TestUpdate, Quiet
<1>15. ASSUME NEW c \in Callers, DeleteCheck(c) PROVE Quiet
  <2>1. [Idle EXCEPT !.pc = "deleteRows"].pc \notin Patching
    BY DEF Idle, Patching
  <2>2. \A d \in Callers : Same(d) \/ req'[d].pc \notin Patching
    BY <1>15, <1>c, <2>1 DEF DeleteCheck, Begin
  <2> QED
    BY <1>15, <2>2, Statements DEF DeleteCheck, Quiet
<1>16. ASSUME NEW c \in Callers, DeleteRows(c) PROVE Quiet
  <2>1. \A d \in Callers : Same(d) \/ req'[d].pc \notin Patching
    BY <1>16, <1>f DEF DeleteRows, PCs, Patching
  <2> QED
    BY <1>16, <2>1, Statements DEF DeleteRows, Quiet
<1>17. ASSUME NEW c \in Callers, DeleteTenant(c) PROVE Quiet
  <2>1. present' => present /\ audit' = audit
    BY <1>17 DEF DeleteTenant
  <2> QED
    BY <1>17, <1>d, <2>1, Statements DEF DeleteTenant, Quiet
<1>18. CASE Install \/ Push
  <2>1. \A d \in Callers : Same(d)
    BY <1>18 DEF Install, Push, Same
  <2> QED
    BY <1>18, <2>1, Statements DEF Install, Push, Quiet
<1> QED
  BY <1>1, <1>2, <1>3, <1>4, <1>5, <1>6, <1>7, <1>8, <1>9, <1>10, <1>11, <1>12, <1>13,
     <1>14, <1>15, <1>16, <1>17, <1>18, NextIsSteps DEF Steps, RequestStep

-----------------------------------------------------------------------------
(* The audit log.                                                          *)

Logged == {"name", "slims_base_url"}

\* What a PATCH will write is logged or still to be logged.
AuditInv ==
  /\ AuditCoversRow
  /\ \A c \in Callers : present /\ req[c].pc \in Patching =>
       \A f \in DOMAIN req[c].change : \/ f \in req[c].todo
                                       \/ <<f, req[c].change[f]>> \in audit
  /\ \A c \in Callers : req[c].pc = "update" => req[c].todo = {}

\* Log rows only come, and the requests that did not move keep theirs.
LEMMA AuditKept ==
  ASSUME AuditInv, present' => present /\ audit \subseteq audit',
         NEW S \in SUBSET Callers,
         \A d \in S : Same(d) \/ req'[d].pc \notin Patching
  PROVE  \A d \in S :
           /\ present' /\ req'[d].pc \in Patching =>
                \A f \in DOMAIN req'[d].change : \/ f \in req'[d].todo
                                                 \/ <<f, req'[d].change[f]>> \in audit'
           /\ req'[d].pc = "update" => req'[d].todo = {}
<1> TAKE d \in S
<1>1. CASE Same(d)
  BY <1>1 DEF AuditInv, Same
<1>2. CASE req'[d].pc \notin Patching
  BY <1>2 DEF Patching
<1> QED
  BY <1>1, <1>2

LEMMA AuditStep == TypeOK /\ TodoInv /\ AuditInv /\ [Next]_vars => AuditInv'
<1> SUFFICES ASSUME TypeOK, TodoInv, AuditInv, [Next]_vars PROVE AuditInv'
  OBVIOUS
<1>a. row \in Row /\ req \in [Callers -> Request]
  BY DEF TypeOK
<1>b. "name" \in Fields /\ "slims_base_url" \in Fields
  BY DEF Fields
<1>c. ASSUME present' => present /\ audit \subseteq audit',
             \A f \in {"name", "slims_base_url"} : row'.field[f] = row.field[f]
      PROVE  AuditCoversRow'
  BY <1>c DEF AuditInv, AuditCoversRow
<1>1. CASE Quiet
  <2>1. present' => present /\ audit \subseteq audit'
    BY <1>1 DEF Quiet
  <2>2. AuditCoversRow'
    BY <1>1, <1>c, <2>1 DEF Quiet, Bumped
  <2>3. \A d \in Callers : Same(d) \/ req'[d].pc \notin Patching
    BY <1>1 DEF Quiet
  <2> QED
    BY <2>1, <2>2, <2>3, AuditKept DEF AuditInv
<1>2. ASSUME NEW c \in Callers, Load(c) PROVE AuditInv'
  BY <1>2 DEF Load, AuditInv, AuditCoversRow
<1>3. ASSUME NEW c \in Callers, PatchAudit(c) PROVE AuditInv'
  <2>1. PICK f \in req[c].todo :
          /\ audit' = audit \cup {<<f, req[c].change[f]>>}
          /\ Becomes(c, [req[c] EXCEPT
                            !.todo = @ \ {f},
                            !.pc = IF req[c].todo = {f} THEN "update" ELSE "audit"])
    BY <1>3 DEF PatchAudit
  <2> DEFINE pc == IF req[c].todo = {f} THEN "update" ELSE "audit"
             r  == [req[c] EXCEPT !.todo = @ \ {f}, !.pc = pc]
  <2>2. r.pc = pc /\ r.todo = req[c].todo \ {f} /\ r.change = req[c].change
    BY <1>a DEF Request
  <2>3. req'[c] = r /\ \A d \in Callers \ {c} : Same(d)
    BY <1>a, <2>1, Elsewhere
  <2>4. present /\ present' /\ row' = row /\ req[c].pc = "audit"
    BY <1>3 DEF PatchAudit
  <2>5. AuditCoversRow'
    BY <1>c, <2>1, <2>4
  <2>6. \A d \in Callers \ {c} :
           /\ present' /\ req'[d].pc \in Patching =>
                \A g \in DOMAIN req'[d].change : \/ g \in req'[d].todo
                                                 \/ <<g, req'[d].change[g]>> \in audit'
           /\ req'[d].pc = "update" => req'[d].todo = {}
    BY <2>1, <2>3, <2>4, AuditKept
  <2>7. \A g \in DOMAIN req[c].change : \/ g \in req[c].todo
                                        \/ <<g, req[c].change[g]>> \in audit
    BY <2>4 DEF AuditInv, Patching
  <2>8. \A g \in DOMAIN req'[c].change : \/ g \in req'[c].todo
                                         \/ <<g, req'[c].change[g]>> \in audit'
    BY <2>1, <2>2, <2>3, <2>7
  <2>9. req'[c].pc = "update" => req'[c].todo = {}
    BY <2>2, <2>3
  <2> QED
    BY <2>5, <2>6, <2>8, <2>9 DEF AuditInv
<1>4. ASSUME NEW c \in Callers, PatchUpdate(c) PROVE AuditInv'
  <2>1. /\ req[c].pc = "update" /\ present' = present /\ audit' = audit
        /\ Store(Patched(req[c])) /\ End(c)
    BY <1>4 DEF PatchUpdate
  <2>2. req'[c] = Idle /\ \A d \in Callers \ {c} : Same(d)
    BY <1>a, <2>1, Elsewhere DEF End
  <2>3. Idle.pc \notin Patching
    BY DEF Idle, Patching
  <2>4. \A d \in Callers : Same(d) \/ req'[d].pc \notin Patching
    BY <2>2, <2>3
  <2>5. ASSUME present PROVE AuditCoversRow'
    <3>1. \A f \in DOMAIN req[c].change : <<f, req[c].change[f]>> \in audit
      BY <2>1, <2>5 DEF AuditInv, Patching
    <3>2. row'.field = [f \in Fields |-> IF f \in DOMAIN req[c].change
                                         THEN req[c].change[f] ELSE row.field[f]]
      BY <1>a, <2>1, <2>5 DEF Store, Patched, Row
    <3>3. \A f \in {"name", "slims_base_url"} :
             row.field[f] = Initial[f] \/ <<f, row.field[f]>> \in audit
      BY <2>5 DEF AuditInv, AuditCoversRow
    <3> QED
      BY <1>b, <2>1, <3>1, <3>2, <3>3 DEF AuditCoversRow
  <2>6. AuditCoversRow'
    BY <2>1, <2>5 DEF AuditCoversRow
  <2> QED
    BY <2>1, <2>4, <2>6, AuditKept DEF AuditInv
<1>5. ASSUME NEW c \in Callers, NEW p \in Change, NEW checked \in BOOLEAN,
             PatchRead(c, p, checked)
      PROVE  AuditInv'
  <2> DEFINE change == [f \in {g \in DOMAIN p : p[g] # row.field[g]} |-> p[f]]
             r == [Idle EXCEPT !.pc = "audit", !.change = change, !.todo = DOMAIN change,
                               !.old = row, !.version = clock', !.checked = checked]
  <2>1. Becomes(c, r) /\ row' = row /\ present' = present /\ audit' = audit
    BY <1>5 DEF PatchRead, Begin
  <2> HIDE DEF change
  <2>2. r.pc = "audit" /\ r.todo = DOMAIN r.change
    BY DEF Idle
  <2> HIDE DEF r
  <2>3. req'[c] = r /\ \A d \in Callers \ {c} : Same(d)
    BY <1>a, <2>1, Elsewhere
  <2>4. \A d \in Callers \ {c} :
           /\ present' /\ req'[d].pc \in Patching =>
                \A g \in DOMAIN req'[d].change : \/ g \in req'[d].todo
                                                 \/ <<g, req'[d].change[g]>> \in audit'
           /\ req'[d].pc = "update" => req'[d].todo = {}
    BY <2>1, <2>3, AuditKept
  <2>5. AuditCoversRow'
    BY <2>1 DEF AuditInv, AuditCoversRow
  <2> QED
    BY <2>2, <2>3, <2>4, <2>5 DEF AuditInv
<1> QED
  BY <1>1, <1>2, <1>3, <1>4, <1>5, QuietSteps

\* Every name and URL of the tenant is the first one or was logged.
THEOREM AuditCovers == Spec => []AuditCoversRow
<1>1. Init => AuditInv
  BY DEF Init, AuditInv, AuditCoversRow, FirstRow, Idle, Patching
<1>2. AuditInv => AuditCoversRow
  BY DEF AuditInv
<1> QED
  BY <1>1, <1>2, AuditStep, TenantTypeCorrect, PTL DEF Spec

-----------------------------------------------------------------------------
(* The optimistic check.                                                   *)

\* updatedAt names the fields of the row: every form with the moment of the row has
\* its fields, and a moment that a PATCH is about to store is nobody else's.
FreshInv ==
  /\ row.version <= clock
  /\ \A d \in Callers : /\ form[d].version <= clock
                        /\ form[d].version = row.version => form[d].field = row.field
  /\ \A c \in Callers : req[c].pc \in Patching =>
       /\ req[c].version <= clock /\ req[c].version # row.version
       /\ \A d \in Callers : form[d].version # req[c].version
       /\ \A d \in Callers \ {c} : req[d].pc \in Patching =>
                                     req[d].version # req[c].version
       /\ req[c].checked => req[c].old.field = form[c].field

LEMMA FreshStep == TypeOK /\ FreshInv /\ [Next]_vars => FreshInv'
<1> SUFFICES ASSUME TypeOK, FreshInv, [Next]_vars PROVE FreshInv'
  OBVIOUS
<1>a. row \in Row /\ req \in [Callers -> Request] /\ form \in [Callers -> Form] /\ clock \in Nat
  BY DEF TypeOK
<1>b. /\ row.version \in Nat /\ row.field \in [Fields -> Values]
      /\ \A d \in Callers : form[d].version \in Nat /\ req[d].version \in Nat
  BY <1>a DEF Row, Form, Request
<1>1. CASE Quiet
  <2>1. /\ form' = form /\ clock' \in Nat /\ clock <= clock'
        /\ \/ row'.field = row.field /\ row'.version = row.version
           \/ row'.version = clock' /\ clock < clock'
    BY <1>1 DEF Quiet, Bumped
  <2>2. \A d \in Callers : req'[d].pc \in Patching =>
           /\ req[d].pc \in Patching /\ req'[d].version = req[d].version
           /\ req'[d].checked = req[d].checked /\ req'[d].old = req[d].old
    BY <1>1 DEF Quiet, Same
  <2>3. row'.version <= clock'
    <3>1. row.version <= clock
      BY DEF FreshInv
    <3> QED
      BY <1>a, <1>b, <2>1, <3>1
  <2>4. \A d \in Callers : /\ form'[d].version <= clock'
                           /\ form'[d].version = row'.version => form'[d].field = row'.field
    BY <1>b, <1>a, <2>1 DEF FreshInv
  <2>5. ASSUME NEW c \in Callers, req'[c].pc \in Patching
        PROVE  /\ req'[c].version <= clock' /\ req'[c].version # row'.version
               /\ \A d \in Callers : form'[d].version # req'[c].version
               /\ \A d \in Callers \ {c} : req'[d].pc \in Patching =>
                                             req'[d].version # req'[c].version
               /\ req'[c].checked => req'[c].old.field = form'[c].field
    <3>1. /\ req[c].pc \in Patching /\ req'[c].version = req[c].version
          /\ req'[c].checked = req[c].checked /\ req'[c].old = req[c].old
      BY <2>2, <2>5
    <3>2. /\ req[c].version <= clock /\ req[c].version # row.version
          /\ \A d \in Callers : form[d].version # req[c].version
          /\ \A d \in Callers \ {c} : req[d].pc \in Patching =>
                                        req[d].version # req[c].version
          /\ req[c].checked => req[c].old.field = form[c].field
      BY <3>1 DEF FreshInv
    <3>3. req'[c].version <= clock' /\ req'[c].version # row'.version
      BY <1>a, <1>b, <2>1, <3>1, <3>2
    <3>4. \A d \in Callers \ {c} : req'[d].pc \in Patching =>
                                     req'[d].version # req'[c].version
      BY <2>2, <3>1, <3>2
    <3> QED
      BY <2>1, <3>1, <3>2, <3>3, <3>4
  <2> QED
    BY <2>3, <2>4, <2>5 DEF FreshInv
<1>2. ASSUME NEW c \in Callers, Load(c) PROVE FreshInv'
  <2>1. /\ req[c].pc = "idle" /\ req' = req /\ row' = row /\ clock' = clock
        /\ form'[c] = [field |-> row.field, version |-> row.version]
        /\ \A d \in Callers \ {c} : form'[d] = form[d]
    BY <1>2, <1>a DEF Load
  <2>2. \A d \in Callers : /\ form'[d].version <= clock'
                           /\ form'[d].version = row'.version => form'[d].field = row'.field
    BY <2>1 DEF FreshInv
  <2>3. \A d \in Callers : req[d].pc \in Patching => d # c
    BY <2>1 DEF Patching
  <2>4. \A e \in Callers : req[e].pc \in Patching =>
           /\ \A d \in Callers : form'[d].version # req[e].version
           /\ req[e].checked => req[e].old.field = form'[e].field
    BY <2>1, <2>3 DEF FreshInv
  <2> QED
    BY <2>1, <2>2, <2>4 DEF FreshInv
<1>3. ASSUME NEW c \in Callers, PatchAudit(c) PROVE FreshInv'
  <2>1. PICK f \in req[c].todo :
          Becomes(c, [req[c] EXCEPT
                         !.todo = @ \ {f},
                         !.pc = IF req[c].todo = {f} THEN "update" ELSE "audit"])
    BY <1>3 DEF PatchAudit
  <2> DEFINE pc == IF req[c].todo = {f} THEN "update" ELSE "audit"
             r  == [req[c] EXCEPT !.todo = @ \ {f}, !.pc = pc]
  <2>2. /\ r.version = req[c].version /\ r.checked = req[c].checked
        /\ r.old = req[c].old
    BY <1>a DEF Request
  <2>3. req'[c] = r /\ \A d \in Callers \ {c} : Same(d)
    BY <1>a, <2>1, Elsewhere
  <2>4. /\ row' = row /\ form' = form /\ clock' = clock /\ req[c].pc \in Patching
    BY <1>3 DEF PatchAudit, Patching
  <2>5. \A d \in Callers : req'[d].pc \in Patching =>
           /\ req[d].pc \in Patching /\ req'[d].version = req[d].version
           /\ req'[d].checked = req[d].checked /\ req'[d].old = req[d].old
    BY <2>2, <2>3, <2>4 DEF Same
  <2> QED
    BY <2>4, <2>5 DEF FreshInv
<1>4. ASSUME NEW c \in Callers, PatchUpdate(c) PROVE FreshInv'
  <2>1. /\ req[c].pc \in Patching /\ form' = form /\ clock' = clock
        /\ Store(Patched(req[c])) /\ End(c)
    BY <1>4 DEF PatchUpdate, Patching
  <2>2. req'[c] = Idle /\ \A d \in Callers \ {c} : Same(d)
    BY <1>a, <2>1, Elsewhere DEF End
  <2>3. \A d \in Callers : req'[d].pc \in Patching =>
           /\ d # c /\ req[d].pc \in Patching /\ req'[d].version = req[d].version
           /\ req'[d].checked = req[d].checked /\ req'[d].old = req[d].old
    BY <2>2 DEF Same, Idle, Patching
  <2>4. \/ row'.version = row.version /\ row'.field = row.field
        \/ row'.version = req[c].version
    BY <1>a, <2>1 DEF Store, Patched, Row
  <2>5. /\ req[c].version <= clock
        /\ \A d \in Callers : form[d].version # req[c].version
    BY <2>1 DEF FreshInv
  <2>6. row'.version <= clock
    BY <2>4, <2>5 DEF FreshInv
  <2>7. \A d \in Callers : /\ form[d].version <= clock
                           /\ form[d].version = row'.version => form[d].field = row'.field
    BY <2>4, <2>5 DEF FreshInv
  <2>8. \A d \in Callers : req'[d].pc \in Patching => req[d].version # row'.version
    BY <2>1, <2>3, <2>4 DEF FreshInv
  <2>9. \A e \in Callers : req'[e].pc \in Patching =>
          /\ req'[e].version <= clock
          /\ \A d \in Callers : form[d].version # req'[e].version
          /\ \A d \in Callers \ {e} : req'[d].pc \in Patching =>
                                        req'[d].version # req'[e].version
          /\ req'[e].checked => req'[e].old.field = form[e].field
    BY <2>3 DEF FreshInv
  <2> QED
    BY <2>1, <2>3, <2>6, <2>7, <2>8, <2>9 DEF FreshInv
<1>5. ASSUME NEW c \in Callers, NEW p \in Change, NEW checked \in BOOLEAN,
             PatchRead(c, p, checked)
      PROVE  FreshInv'
  <2> DEFINE change == [f \in {g \in DOMAIN p : p[g] # row.field[g]} |-> p[f]]
             r == [Idle EXCEPT !.pc = "audit", !.change = change, !.todo = DOMAIN change,
                               !.old = row, !.version = clock', !.checked = checked]
  <2>1. Becomes(c, r) /\ row' = row /\ form' = form /\ clock' = clock + 1
    BY <1>5 DEF PatchRead, Begin, Tick
  <2>2. checked => form[c].version = row.version
    BY <1>5 DEF PatchRead
  <2> HIDE DEF change
  <2>3. r.pc = "audit" /\ r.old = row /\ r.version = clock' /\ r.checked = checked
    BY DEF Idle
  <2> HIDE DEF r
  <2>4. req'[c] = r /\ \A d \in Callers \ {c} : Same(d)
    BY <1>a, <2>1, Elsewhere
  <2>5. row.version <= clock /\ \A d \in Callers : form[d].version <= clock
    BY DEF FreshInv
  <2>6. \A d \in Callers \ {c} : req'[d].pc \in Patching =>
           /\ req[d].pc \in Patching /\ req'[d].version = req[d].version
           /\ req'[d].checked = req[d].checked /\ req'[d].old = req[d].old
           /\ req[d].version <= clock
    BY <2>4 DEF Same, FreshInv
  <2>7. checked => row.field = form[c].field
    BY <2>2 DEF FreshInv
  <2>8. /\ req'[c].version <= clock' /\ req'[c].version # row.version
        /\ \A d \in Callers : form[d].version # req'[c].version
        /\ \A d \in Callers \ {c} : req'[d].pc \in Patching =>
                                      req'[d].version # req'[c].version
        /\ req'[c].checked => req'[c].old.field = form[c].field
    BY <1>a, <1>b, <2>1, <2>3, <2>4, <2>5, <2>6, <2>7
  <2>9. \A e \in Callers \ {c} : req'[e].pc \in Patching =>
          /\ req'[e].version <= clock' /\ req'[e].version # row.version
          /\ \A d \in Callers : form[d].version # req'[e].version
          /\ \A d \in Callers \ {e} : req'[d].pc \in Patching =>
                                        req'[d].version # req'[e].version
          /\ req'[e].checked => req'[e].old.field = form[e].field
    <3> TAKE e \in Callers \ {c}
    <3> HAVE req'[e].pc \in Patching
    <3>1. /\ req[e].pc \in Patching /\ req'[e].version = req[e].version
          /\ req'[e].checked = req[e].checked /\ req'[e].old = req[e].old
          /\ req[e].version <= clock
      BY <2>6
    <3>2. /\ req'[e].version <= clock' /\ req'[e].version # row.version
          /\ \A d \in Callers : form[d].version # req'[e].version
          /\ req'[e].checked => req'[e].old.field = form[e].field
      BY <1>a, <1>b, <2>1, <3>1 DEF FreshInv
    <3>3. ASSUME NEW d \in Callers \ {e}, req'[d].pc \in Patching
          PROVE  req'[d].version # req'[e].version
      <4>1. CASE d = c
        BY <2>8, <3>3, <4>1
      <4>2. CASE d # c
        BY <2>6, <3>1, <3>3, <4>2 DEF FreshInv
      <4> QED
        BY <4>1, <4>2
    <3> QED
      BY <3>2, <3>3
  <2>10. \A d \in Callers : /\ form[d].version <= clock'
                            /\ form[d].version = row.version => form[d].field = row.field
    BY <1>a, <1>b, <2>1, <2>5 DEF FreshInv
  <2>11. row.version <= clock'
    BY <1>a, <1>b, <2>1, <2>5
  <2> QED
    BY <2>1, <2>8, <2>9, <2>10, <2>11 DEF FreshInv
<1> QED
  BY <1>1, <1>2, <1>3, <1>4, <1>5, QuietSteps

\* A PATCH that passed the check has read what its page showed.
THEOREM CheckedFresh == Spec => []CheckedReadIsFresh
<1>1. Init => FreshInv
  BY DEF Init, FreshInv, FirstRow, Idle, Patching
<1>2. FreshInv => CheckedReadIsFresh
  BY DEF FreshInv, CheckedReadIsFresh, Patching
<1> QED
  BY <1>1, <1>2, FreshStep, TenantTypeCorrect, PTL DEF Spec

-----------------------------------------------------------------------------
(* Credentials.                                                            *)

Newer == row'.secret >= row.secret /\ row'.key >= row.key

\* Secrets and key pairs are only ever replaced by newer ones.
THEOREM RetiredStays == Spec => RetiredStaysRetired
<1>1. ASSUME TypeOK, [Next]_vars PROVE Newer
  <2>a. row \in Row /\ row.secret \in Nat /\ row.key \in Nat
    BY <1>1 DEF TypeOK, Row
  <2>b. ASSUME row' = row PROVE Newer
    BY <2>a, <2>b DEF Newer
  <2>1. ASSUME NEW c \in Callers, PatchUpdate(c)
        PROVE  Newer
    BY <2>1, <2>a DEF PatchUpdate, Store, Patched, Row, Newer
  <2>2. ASSUME NEW c \in Callers, Regenerate(c) \/ ZipUpdate(c)
        PROVE  Newer
    <3>1. Store(NewSecret)
      BY <2>2 DEF Regenerate, ZipUpdate
    <3> QED
      BY <3>1, <2>a DEF Store, NewSecret, Row, Newer
  <2>3. ASSUME NEW c \in Callers, Rotate(c)
        PROVE  Newer
    BY <2>3, <2>a DEF Rotate, Store, NewKey, Row, Newer
  <2>4. ASSUME NEW c \in Callers, GenerateKey(c)
        PROVE  Newer
    BY <2>4, <2>a DEF GenerateKey, Store, NewKey, Row, Newer
  <2>5. ASSUME NEW c \in Callers, TestUpdate(c)
        PROVE  Newer
    BY <2>5, <2>a DEF TestUpdate, Store, Row, Newer
  <2>6. ASSUME NEW c \in Callers, RequestStep(c) PROVE Newer
    <3>1. \/ row' = row \/ PatchUpdate(c) \/ ZipUpdate(c) \/ GenerateKey(c) \/ TestUpdate(c)
      BY <2>6 DEF RequestStep, PatchAudit, RegenerateAnswer, RotateAnswer, EnsureKey,
                  ZipAnswer, Probe, TestAnswer, DeleteRows, DeleteTenant, Orphaned
    <3> QED
      BY <3>1, <2>b, <2>1, <2>2, <2>4, <2>5
  <2>7. ASSUME NEW c \in Callers, Load(c) \/ Aborted(c) \/ ZipRead(c) \/ TestRead(c) \/ DeleteCheck(c)
        PROVE  Newer
    <3>1. row' = row
      BY <2>7 DEF Load, Aborted, ZipRead, TestRead, DeleteCheck
    <3> QED
      BY <3>1, <2>b
  <2>8. ASSUME NEW c \in Callers, NEW p \in Change, NEW checked \in BOOLEAN,
               PatchRead(c, p, checked)
        PROVE  Newer
    BY <2>8, <2>b DEF PatchRead
  <2>9. CASE Install \/ Push
    BY <2>9, <2>b DEF Install, Push
  <2>10. CASE UNCHANGED vars
    BY <2>10, <2>b DEF vars
  <2>11. ASSUME NEW c \in Callers,
                \/ Load(c) \/ Aborted(c) \/ RequestStep(c)
                \/ \E p \in Change, checked \in BOOLEAN : PatchRead(c, p, checked)
                \/ Regenerate(c) \/ Rotate(c) \/ ZipRead(c) \/ TestRead(c) \/ DeleteCheck(c)
         PROVE  Newer
    BY <2>11, <2>2, <2>3, <2>6, <2>7, <2>8
  <2>12. ASSUME Next PROVE Newer
    BY <1>1, <2>9, <2>11, <2>12, NextIsSteps, Zenon DEF Steps
  <2> QED
    BY <1>1, <2>10, <2>12
<1>2. TypeOK /\ [Next]_vars => [Newer]_vars
  BY <1>1
<1> QED
  BY <1>2, TenantTypeCorrect, PTL DEF Spec, RetiredStaysRetired, Newer

\* While a request for credentials is alone nobody else is at one, and what a
\* download has read or stored is what the row holds.
CredInv ==
  /\ \A c \in Callers : req[c].alone /\ req[c].pc \in Changing =>
       \A d \in Callers \ {c} : req[d].pc \notin Changing
  /\ \A c \in Callers : req[c].alone /\ req[c].forZip /\ present =>
       /\ req[c].pc \in {"ensure", "generate", "zipAnswer"} => req[c].secret = row.secret
       /\ req[c].pc = "zipAnswer" => req[c].key = row.key
  /\ \A c \in Callers : req[c].pc = "zipAnswer" => req[c].forZip
  /\ good => \A c \in Callers : req[c].pc \notin Changing
  /\ DownloadWorks

\* What every step does that is not about credentials.
Unrelated ==
  /\ present' => present /\ row'.secret = row.secret /\ row'.key = row.key
  /\ good' => good /\ offer' = offer
  /\ \A d \in Callers : Same(d) \/ req'[d].pc \notin Changing

LEMMA UnrelatedKeeps == TypeOK /\ CredInv /\ Unrelated => CredInv'
<1> SUFFICES ASSUME TypeOK, CredInv, Unrelated PROVE CredInv'
  OBVIOUS
<1>1. \A d \in Callers : req'[d].pc \in Changing =>
         /\ req[d].pc = req'[d].pc /\ (req'[d].alone => req[d].alone)
         /\ req'[d].forZip = req[d].forZip /\ req'[d].secret = req[d].secret
         /\ req'[d].key = req[d].key
  BY DEF Unrelated, Same
<1>2. {"ensure", "generate", "zipAnswer"} \subseteq Changing
  BY DEF Changing
<1>3. \A c \in Callers : req'[c].alone /\ req'[c].pc \in Changing =>
        \A d \in Callers \ {c} : req'[d].pc \notin Changing
  BY <1>1 DEF CredInv
<1>4. present' => present /\ row'.secret = row.secret /\ row'.key = row.key
  BY DEF Unrelated
<1>5. \A c \in Callers : req'[c].alone /\ req'[c].forZip /\ present' =>
        /\ req'[c].pc \in {"ensure", "generate", "zipAnswer"} => req'[c].secret = row'.secret
        /\ req'[c].pc = "zipAnswer" => req'[c].key = row'.key
  BY <1>1, <1>2, <1>4 DEF CredInv
<1>6. \A c \in Callers : req'[c].pc = "zipAnswer" => req'[c].forZip
  BY <1>1, <1>2 DEF CredInv
<1>7. good' => good /\ offer' = offer
  BY DEF Unrelated
<1>8. good' => \A c \in Callers : req'[c].pc \notin Changing
  BY <1>1, <1>7 DEF CredInv
<1>9. DownloadWorks'
  BY <1>4, <1>7 DEF CredInv, DownloadWorks
<1> QED
  BY <1>3, <1>5, <1>6, <1>8, <1>9 DEF CredInv

\* A request for credentials begins: the others are no longer alone.
LEMMA CredBegins ==
  ASSUME TypeOK, CredInv, NEW c \in Callers, NEW r \in Request, BeginTouching(c, r),
         r.pc \notin {"generate", "zipAnswer"}, r.pc = "ensure" => ~r.forZip
  PROVE  CredInv'
<1> DEFINE b == \A e \in Callers \ {c} : req[e].pc \notin Changing
<1>1. /\ req'[c] = [r EXCEPT !.alone = b]
      /\ \A d \in Callers \ {c} : Same(d) /\ ~req'[d].alone
      /\ good' = FALSE
  <2>1. req \in [Callers -> Request]
    BY DEF TypeOK
  <2> QED
    BY <2>1, ElsewhereBegins
<1>2. req'[c].alone = b /\ req'[c].pc = r.pc /\ req'[c].forZip = r.forZip
  BY <1>1 DEF Request
<1>3. \A d \in Callers \ {c} : req'[d].pc = req[d].pc /\ req'[d].forZip = req[d].forZip
  BY <1>1 DEF Same
<1>4. req'[c].alone => \A d \in Callers \ {c} : req'[d].pc \notin Changing
  BY <1>2, <1>3
<1> HIDE DEF b
<1>5. \A e \in Callers : req'[e].alone /\ req'[e].pc \in Changing =>
        \A d \in Callers \ {e} : req'[d].pc \notin Changing
  BY <1>1, <1>4
<1>6. \A e \in Callers : req'[e].alone /\ req'[e].forZip /\ present' =>
        /\ req'[e].pc \in {"ensure", "generate", "zipAnswer"} => req'[e].secret = row'.secret
        /\ req'[e].pc = "zipAnswer" => req'[e].key = row'.key
  BY <1>1, <1>2
<1>7. \A e \in Callers : req'[e].pc = "zipAnswer" => req'[e].forZip
  BY <1>2, <1>3 DEF CredInv
<1> QED
  BY <1>1, <1>5, <1>6, <1>7 DEF CredInv, DownloadWorks

\* A request that is at credentials goes on: if another one is alone at a
\* download, this one is not at credentials.
LEMMA CredGoesOn ==
  ASSUME TypeOK, CredInv, NEW c \in Callers, NEW r, Becomes(c, r), req[c].pc \in Changing,
         r.alone = req[c].alone,
         r.alone /\ r.forZip /\ present' =>
           /\ r.pc \in {"ensure", "generate", "zipAnswer"} => r.secret = row'.secret
           /\ r.pc = "zipAnswer" => r.key = row'.key,
         r.pc = "zipAnswer" => r.forZip,
         good' = good
  PROVE  CredInv'
<1>1. req'[c] = r /\ \A d \in Callers \ {c} : Same(d)
  <2>1. req \in [Callers -> Request]
    BY DEF TypeOK
  <2> QED
    BY <2>1, Elsewhere
<1>2. ~good
  BY DEF CredInv
<1>3. \A d \in Callers \ {c} : /\ req'[d].pc = req[d].pc /\ req'[d].forZip = req[d].forZip
                               /\ req'[d].alone => req[d].alone
  BY <1>1 DEF Same
<1>4. \A d \in Callers \ {c} : req'[d].pc \in Changing => ~req'[d].alone
  BY <1>3 DEF CredInv
<1>5. r.alone => \A d \in Callers \ {c} : req'[d].pc \notin Changing
  BY <1>3 DEF CredInv
<1>6. {"ensure", "generate", "zipAnswer"} \subseteq Changing
  BY DEF Changing
<1>7. \A e \in Callers : req'[e].alone /\ req'[e].pc \in Changing =>
        \A d \in Callers \ {e} : req'[d].pc \notin Changing
  BY <1>1, <1>4, <1>5
<1>8. \A e \in Callers : req'[e].alone /\ req'[e].forZip /\ present' =>
        /\ req'[e].pc \in {"ensure", "generate", "zipAnswer"} => req'[e].secret = row'.secret
        /\ req'[e].pc = "zipAnswer" => req'[e].key = row'.key
  BY <1>1, <1>4, <1>6
<1>9. \A e \in Callers : req'[e].pc = "zipAnswer" => req'[e].forZip
  BY <1>1, <1>3 DEF CredInv
<1> QED
  BY <1>2, <1>7, <1>8, <1>9 DEF CredInv, DownloadWorks

LEMMA CredStep == TypeOK /\ CredInv /\ [Next]_vars => CredInv'
<1> SUFFICES ASSUME TypeOK, CredInv, [Next]_vars PROVE CredInv'
  OBVIOUS
<1>a. row \in Row /\ req \in [Callers -> Request]
  BY DEF TypeOK
<1>b. ASSUME NEW c \in Callers, NEW r, Becomes(c, r), r.pc \notin Changing,
             present' => present /\ row'.secret = row.secret /\ row'.key = row.key,
             good' => good /\ offer' = offer
      PROVE  CredInv'
  <2>1. Unrelated
    BY <1>a, <1>b, Elsewhere DEF Unrelated
  <2> QED
    BY <2>1, UnrelatedKeeps
<1>c. ASSUME NEW c \in Callers, End(c),
             present' => present /\ row'.secret = row.secret /\ row'.key = row.key,
             good' => good /\ offer' = offer
      PROVE  CredInv'
  <2>1. Idle.pc \notin Changing
    BY DEF Idle, Changing
  <2> QED
    BY <1>b, <1>c, <2>1 DEF End
<1>d. ASSUME NEW c \in Callers, NEW pc \in PCs, Goto(c, pc), pc \notin Changing,
             present' => present /\ row'.secret = row.secret /\ row'.key = row.key,
             good' => good /\ offer' = offer
      PROVE  CredInv'
  <2>1. [req[c] EXCEPT !.pc = pc].pc = pc
    BY <1>a DEF Request
  <2> QED
    BY <1>b, <1>d, <2>1 DEF Goto
<1>e. ASSUME UNCHANGED <<present, row, req, offer, good>> PROVE CredInv'
  <2>1. Unrelated
    BY <1>e DEF Unrelated, Same
  <2> QED
    BY <2>1, UnrelatedKeeps
<1>1. CASE UNCHANGED vars
  BY <1>1, <1>e DEF vars
<1>2. ASSUME NEW c \in Callers, Load(c) PROVE CredInv'
  BY <1>2, <1>e DEF Load
<1>3. ASSUME NEW c \in Callers, Aborted(c) PROVE CredInv'
  BY <1>3, <1>c DEF Aborted
<1>4. ASSUME NEW c \in Callers, NEW p \in Change, NEW checked \in BOOLEAN,
             PatchRead(c, p, checked)
      PROVE  CredInv'
  <2> DEFINE change == [f \in {g \in DOMAIN p : p[g] # row.field[g]} |-> p[f]]
             r == [Idle EXCEPT !.pc = "audit", !.change = change, !.todo = DOMAIN change,
                               !.old = row, !.version = clock', !.checked = checked]
  <2>1. Becomes(c, r) /\ UNCHANGED <<present, row, offer, good>>
    BY <1>4 DEF PatchRead, Begin
  <2> HIDE DEF change
  <2>2. r.pc \notin Changing
    BY DEF Idle, Changing
  <2> QED
    BY <1>b, <2>1, <2>2
<1>5. ASSUME NEW c \in Callers, PatchAudit(c) PROVE CredInv'
  <2>1. PICK f \in req[c].todo :
          Becomes(c, [req[c] EXCEPT
                         !.todo = @ \ {f},
                         !.pc = IF req[c].todo = {f} THEN "update" ELSE "audit"])
    BY <1>5 DEF PatchAudit
  <2>2. [req[c] EXCEPT !.todo = @ \ {f},
                       !.pc = IF req[c].todo = {f} THEN "update" ELSE "audit"].pc \notin Changing
    BY <1>a DEF Request, Changing
  <2>3. UNCHANGED <<present, row, offer, good>>
    BY <1>5 DEF PatchAudit
  <2> QED
    BY <1>b, <2>1, <2>2, <2>3
<1>6. ASSUME NEW c \in Callers, PatchUpdate(c) PROVE CredInv'
  <2>1. present' => present /\ row'.secret = row.secret /\ row'.key = row.key
    BY <1>6, <1>a DEF PatchUpdate, Store, Patched, Row
  <2> QED
    BY <1>6, <1>c, <2>1 DEF PatchUpdate
<1>7. ASSUME NEW c \in Callers, Regenerate(c) PROVE CredInv'
  <2> DEFINE r == [Idle EXCEPT !.pc = "shown", !.secret = row.secret + 1]
  <2>1. row.secret + 1 \in Nat
    BY <1>a DEF Row
  <2>2. r \in Request /\ r.pc = "shown"
    BY <2>1, IdleIsRequest, RequestType DEF PCs, Changing, Idle
  <2>3. BeginTouching(c, r)
    BY <1>7 DEF Regenerate
  <2> QED
    BY <2>2, <2>3, CredBegins
<1>8. ASSUME NEW c \in Callers, RegenerateAnswer(c) PROVE CredInv'
  BY <1>8, <1>c DEF RegenerateAnswer
<1>9. ASSUME NEW c \in Callers, Rotate(c) PROVE CredInv'
  <2> DEFINE r == [Idle EXCEPT !.pc = "rotated"]
  <2>1. r \in Request /\ r.pc = "rotated"
    BY IdleIsRequest, RequestType DEF PCs, Changing, Idle
  <2>2. BeginTouching(c, r)
    BY <1>9 DEF Rotate
  <2> QED
    BY <2>1, <2>2, CredBegins
<1>10. ASSUME NEW c \in Callers, RotateAnswer(c) \/ TestAnswer(c) \/ Orphaned(c) PROVE CredInv'
  <2>1. End(c) /\ UNCHANGED <<present, row, offer, good>>
    BY <1>10 DEF RotateAnswer, TestAnswer, Orphaned
  <2> QED
    BY <1>c, <2>1
<1>11. ASSUME NEW c \in Callers, ZipRead(c) PROVE CredInv'
  <2> DEFINE r == [Idle EXCEPT !.pc = "zipUpdate", !.old = row, !.forZip = TRUE]
  <2>1. r \in Request /\ r.pc = "zipUpdate"
    BY <1>a, IdleIsRequest DEF Request, PCs, Changing
  <2>2. BeginTouching(c, r)
    BY <1>11 DEF ZipRead
  <2> QED
    BY <2>1, <2>2, CredBegins
<1>12. ASSUME NEW c \in Callers, TestRead(c) PROVE CredInv'
  <2> DEFINE r == [Idle EXCEPT !.pc = "ensure", !.old = row]
  <2>1. r \in Request /\ r.pc = "ensure" /\ ~r.forZip
    BY <1>a, IdleIsRequest DEF Request, PCs, Changing, Idle
  <2>2. BeginTouching(c, r)
    BY <1>12 DEF TestRead
  <2> QED
    BY <2>1, <2>2, CredBegins
<1>13. ASSUME NEW c \in Callers, ZipUpdate(c) PROVE CredInv'
  <2> DEFINE r == [req[c] EXCEPT !.pc = "ensure", !.secret = row.secret + 1]
  <2>1. r.pc = "ensure" /\ r.secret = row.secret + 1 /\ r.alone = req[c].alone
    BY <1>a DEF Request
  <2>2. /\ Becomes(c, r) /\ req[c].pc \in Changing /\ good' = good
        /\ Store(NewSecret) /\ present' = present
    BY <1>13 DEF ZipUpdate, Changing
  <2>3. present => row'.secret = row.secret + 1
    BY <1>a, <2>2 DEF Store, NewSecret, Row
  <2> HIDE DEF r
  <2> QED
    BY <2>1, <2>2, <2>3, CredGoesOn
<1>14. ASSUME NEW c \in Callers, EnsureKey(c) PROVE CredInv'
  <2>1. /\ req[c].pc = "ensure" /\ req[c].pc \in Changing
        /\ UNCHANGED <<present, row, offer, good>>
    BY <1>14 DEF EnsureKey, Changing
  <2>2. req[c].alone /\ req[c].forZip /\ present => req[c].secret = row.secret
    BY <2>1 DEF CredInv
  <2>3. CASE present /\ row.key # 0
    <3> DEFINE r == [req[c] EXCEPT !.pc = IF req[c].forZip THEN "zipAnswer" ELSE "probe",
                                   !.key = row.key]
    <3>1. /\ r.pc = IF req[c].forZip THEN "zipAnswer" ELSE "probe"
          /\ r.key = row.key /\ r.secret = req[c].secret /\ r.alone = req[c].alone
          /\ r.forZip = req[c].forZip
      BY <1>a DEF Request
    <3>2. Becomes(c, r)
      BY <1>14, <2>3 DEF EnsureKey, WithKey
    <3> HIDE DEF r
    <3> QED
      BY <2>1, <2>2, <3>1, <3>2, CredGoesOn
  <2>4. CASE ~(present /\ row.key # 0)
    <3> DEFINE r == [req[c] EXCEPT !.pc = "generate"]
    <3>1. /\ r.pc = "generate" /\ r.secret = req[c].secret /\ r.alone = req[c].alone
          /\ r.forZip = req[c].forZip
      BY <1>a DEF Request
    <3>2. Becomes(c, r)
      BY <1>14, <2>4 DEF EnsureKey, Goto
    <3> HIDE DEF r
    <3> QED
      BY <2>1, <2>2, <3>1, <3>2, CredGoesOn
  <2> QED
    BY <2>3, <2>4
<1>15. ASSUME NEW c \in Callers, GenerateKey(c) PROVE CredInv'
  <2> DEFINE r == [req[c] EXCEPT !.pc = IF req[c].forZip THEN "zipAnswer" ELSE "probe",
                                 !.key = row.key + 1]
  <2>1. /\ r.pc = IF req[c].forZip THEN "zipAnswer" ELSE "probe"
        /\ r.key = row.key + 1 /\ r.secret = req[c].secret /\ r.alone = req[c].alone
        /\ r.forZip = req[c].forZip
    BY <1>a DEF Request
  <2>2. /\ Becomes(c, r) /\ req[c].pc = "generate" /\ req[c].pc \in Changing
        /\ good' = good /\ Store(NewKey) /\ present' = present
    BY <1>15 DEF GenerateKey, WithKey, Changing
  <2>3. present => row'.key = row.key + 1 /\ row'.secret = row.secret
    BY <1>a, <2>2 DEF Store, NewKey, Row
  <2>4. req[c].alone /\ req[c].forZip /\ present => req[c].secret = row.secret
    BY <2>2 DEF CredInv
  <2> HIDE DEF r
  <2> QED
    BY <2>1, <2>2, <2>3, <2>4, CredGoesOn
<1>16. ASSUME NEW c \in Callers, ZipAnswer(c) PROVE CredInv'
  <2>1. /\ req[c].pc = "zipAnswer" /\ req[c].pc \in Changing /\ present /\ row' = row
        /\ present' = present /\ offer' = [secret |-> req[c].secret, key |-> req[c].key]
        /\ good' = req[c].alone /\ End(c)
    BY <1>16 DEF ZipAnswer, EnvOf, Changing
  <2>2. req'[c] = Idle /\ \A d \in Callers \ {c} : Same(d)
    BY <1>a, <2>1, Elsewhere DEF End
  <2>3. Idle.pc \notin Changing /\ "zipAnswer" \in Changing
    BY DEF Idle, Changing
  <2>4. req[c].alone => /\ offer' = [secret |-> row.secret, key |-> row.key]
                        /\ \A d \in Callers \ {c} : req[d].pc \notin Changing
    BY <2>1 DEF CredInv
  <2>5. good' => \A d \in Callers : req'[d].pc \notin Changing
    BY <2>1, <2>2, <2>3, <2>4, Zenon DEF Same
  <2>6. DownloadWorks'
    BY <2>1, <2>4, Zenon DEF DownloadWorks
  <2>7. \A d \in Callers : req'[d].pc \in Changing =>
           /\ req[d].pc = req'[d].pc /\ (req'[d].alone => req[d].alone)
           /\ req'[d].forZip = req[d].forZip /\ req'[d].secret = req[d].secret
           /\ req'[d].key = req[d].key
    BY <2>2, <2>3 DEF Same
  <2>8. {"ensure", "generate", "zipAnswer"} \subseteq Changing
    BY DEF Changing
  <2>9. \A e \in Callers : req'[e].alone /\ req'[e].pc \in Changing =>
          \A d \in Callers \ {e} : req'[d].pc \notin Changing
    BY <2>7 DEF CredInv
  <2>10. \A e \in Callers : req'[e].alone /\ req'[e].forZip /\ present' =>
           /\ req'[e].pc \in {"ensure", "generate", "zipAnswer"} => req'[e].secret = row'.secret
           /\ req'[e].pc = "zipAnswer" => req'[e].key = row'.key
    BY <2>1, <2>7, <2>8 DEF CredInv
  <2>11. \A e \in Callers : req'[e].pc = "zipAnswer" => req'[e].forZip
    BY <2>7, <2>8 DEF CredInv
  <2> QED
    BY <2>5, <2>6, <2>9, <2>10, <2>11 DEF CredInv
<1>17. ASSUME NEW c \in Callers, Probe(c) PROVE CredInv'
  <2>1. PICK ok \in BOOLEAN : Becomes(c, [req[c] EXCEPT !.pc = "testUpdate", !.ok = ok])
    BY <1>17 DEF Probe
  <2>2. [req[c] EXCEPT !.pc = "testUpdate", !.ok = ok].pc \notin Changing
    BY <1>a DEF Request, Changing
  <2>3. UNCHANGED <<present, row, offer, good>>
    BY <1>17 DEF Probe
  <2> QED
    BY <1>b, <2>1, <2>2, <2>3
<1>18. ASSUME NEW c \in Callers, TestUpdate(c) PROVE CredInv'
  <2>1. present' => present /\ row'.secret = row.secret /\ row'.key = row.key
    BY <1>18, <1>a DEF TestUpdate, Store, Row
  <2> QED
    BY <1>18, <1>d, <2>1 DEF TestUpdate, PCs, Changing
<1>19. ASSUME NEW c \in Callers, DeleteCheck(c) PROVE CredInv'
  <2>1. [Idle EXCEPT !.pc = "deleteRows"].pc \notin Changing
    BY DEF Idle, Changing
  <2> QED
    BY <1>19, <1>b, <2>1 DEF DeleteCheck, Begin
<1>20. ASSUME NEW c \in Callers, DeleteRows(c) PROVE CredInv'
  BY <1>20, <1>d DEF DeleteRows, PCs, Changing
<1>21. ASSUME NEW c \in Callers, DeleteTenant(c) PROVE CredInv'
  <2>1. present' => present
    BY <1>21 DEF DeleteTenant
  <2> QED
    BY <1>21, <1>c, <2>1 DEF DeleteTenant
<1>22. CASE Install \/ Push
  BY <1>22, <1>e DEF Install, Push
<1>23. ASSUME NEW c \in Callers,
              \/ Load(c) \/ Aborted(c) \/ RequestStep(c)
              \/ \E p \in Change, checked \in BOOLEAN : PatchRead(c, p, checked)
              \/ Regenerate(c) \/ Rotate(c) \/ ZipRead(c) \/ TestRead(c) \/ DeleteCheck(c)
       PROVE  CredInv'
  <2>1. ASSUME RequestStep(c) PROVE CredInv'
    BY <2>1, <1>5, <1>6, <1>8, <1>10, <1>13, <1>14, <1>15, <1>16, <1>17, <1>18, <1>20, <1>21
       DEF RequestStep
  <2> QED
    BY <1>23, <2>1, <1>2, <1>3, <1>4, <1>7, <1>9, <1>11, <1>12, <1>19
<1> QED
  BY <1>1, <1>22, <1>23, NextIsSteps, Zenon DEF Steps

\* A download that was alone holds the credentials of the tenant.
THEOREM Download == Spec => []DownloadWorks
<1>1. Init => CredInv
  BY DEF Init, CredInv, DownloadWorks, Idle, Changing
<1>2. CredInv => DownloadWorks
  BY DEF CredInv
<1> QED
  BY <1>1, <1>2, CredStep, TenantTypeCorrect, PTL DEF Spec
=============================================================================
