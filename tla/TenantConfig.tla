---------------------------- MODULE TenantConfig ----------------------------
(***************************************************************************)
(* The configuration of a tenant: its row, its audit log, its credentials  *)
(* and the copy of them that is installed on the campus.  Requests of the  *)
(* dashboard read the row, wait, and write it; a download and a connection *)
(* test make a key pair when there is none; the agent signs with what is   *)
(* installed.  One tenant: nothing here reads or writes two.               *)
(*                                                                         *)
(* Secrets and key pairs are numbered in the order they are stored, 0 is   *)
(* none.  updatedAt is the number of its moment: no two moments are equal. *)
(***************************************************************************)
EXTENDS Integers, FiniteSets

CONSTANTS
  Callers,   \* dashboard requests in flight
  Values,    \* values of a field
  Initial,   \* the fields of the tenant as it was created
  Patches,   \* what clients type: the fields of a PATCH and their values
  RightUrl,  \* the base URL under which the campus answers
  MaxClock,  \* bound on moments at which a row is written
  MaxFaults  \* bound on failed statements and dead requests

Fields == {"name", "slims_base_url", "status"}
Change == UNION {[S -> Values] : S \in SUBSET Fields}

ASSUME TenantConfigAssumption ==
  /\ Initial \in [Fields -> Values]
  /\ {"connected", "disconnected"} \subseteq Values
  /\ Patches \subseteq Change
  /\ MaxClock \in Nat /\ MaxFaults \in Nat

VARIABLES
  present,   \* the tenant has its row
  row,       \* that row
  v1,        \* daily_stats holds rows of the tenant
  audit,     \* field updates in tenant_audit_logs
  clock,     \* the last moment
  req,       \* per caller: the request and its locals
  form,      \* per caller: the row as its page was loaded
  offer,     \* the credentials of the last answer; key 0 when it showed a secret
  campus,    \* the .env on the campus
  faults,
  good       \* history: the offer is such a download, none has begun since

vars == <<present, row, v1, audit, clock, req, form, offer, campus, faults, good>>

Row  == [field: [Fields -> Values], secret: Nat, key: Nat, version: Nat]
Form == [field: [Fields -> Values], version: Nat]
Env  == [secret: Nat, key: Nat]
NoEnv == [secret |-> 0, key |-> 0]

Changing == {"zipUpdate", "ensure", "generate", "zipAnswer", "shown", "rotated"}
PCs == {"idle", "audit", "update", "probe", "testUpdate", "testAnswer",
        "deleteRows", "deleteTenant"} \cup Changing
Request == [pc: PCs, change: Change, todo: SUBSET Fields, old: Row, version: Nat,
            checked: BOOLEAN, forZip: BOOLEAN, secret: Nat, key: Nat, ok: BOOLEAN,
            alone: BOOLEAN]  \* history: no other request touched credentials meanwhile

FirstRow == [field |-> Initial, secret |-> 1, key |-> 0, version |-> 0]
Idle == [pc |-> "idle", change |-> [f \in {} |-> 0], todo |-> {}, old |-> FirstRow,
         version |-> 0, checked |-> FALSE, forZip |-> FALSE, secret |-> 0,
         key |-> 0, ok |-> FALSE, alone |-> FALSE]

TypeOK ==
  /\ present \in BOOLEAN /\ v1 \in BOOLEAN /\ good \in BOOLEAN
  /\ row \in Row
  /\ audit \subseteq Fields \X Values
  /\ clock \in Nat /\ faults \in Nat
  /\ req \in [Callers -> Request]
  /\ form \in [Callers -> Form]
  /\ offer \in Env /\ campus \in Env

Init ==
  /\ present = TRUE /\ row = FirstRow
  /\ v1 = FALSE
  /\ audit = {} /\ clock = 0 /\ faults = 0
  /\ req = [c \in Callers |-> Idle]
  /\ form = [c \in Callers |-> [field |-> Initial, version |-> 0]]
  /\ offer = [secret |-> 1, key |-> 0]
  /\ campus = NoEnv
  /\ good = FALSE

-----------------------------------------------------------------------------
(* What requests share.                                                    *)

Becomes(c, r) == req' = [req EXCEPT ![c] = r]
Begin(c, r)   == req[c].pc = "idle" /\ Becomes(c, r)
Goto(c, pc)   == Becomes(c, [req[c] EXCEPT !.pc = pc])
End(c)        == Becomes(c, Idle)
Tick          == clock < MaxClock /\ clock' = clock + 1

\* The row with some of its columns set, in the one UPDATE of a request; it
\* meets no row when the tenant is gone.
Store(new) == row' = IF present THEN new ELSE row

\* A request that may change credentials begins.
BeginTouching(c, r) ==
  /\ req[c].pc = "idle"
  /\ req' = [d \in Callers |->
               IF d = c
               THEN [r EXCEPT !.alone =
                       \A e \in Callers \ {c} : req[e].pc \notin Changing]
               ELSE [req[d] EXCEPT !.alone = FALSE]]
  /\ good' = FALSE

\* A statement fails or the request dies at an await: the statement has no
\* effect, the answer is a 500 or none.
Aborted(c) ==
  /\ req[c].pc # "idle" /\ faults < MaxFaults
  /\ faults' = faults + 1
  /\ End(c)
  /\ UNCHANGED <<present, row, v1, audit, clock, form, offer, campus, good>>

-----------------------------------------------------------------------------
(* PATCH /tenants/:id, and the page that sends it.                         *)

\* The page is rendered with the row, or a client GETs it.
Load(c) ==
  /\ req[c].pc = "idle" /\ present
  /\ form' = [form EXCEPT ![c] = [field |-> row.field, version |-> row.version]]
  /\ UNCHANGED <<present, row, v1, audit, clock, req, offer, campus, faults,
                 good>>

\* Reads the row; a stale expectedUpdatedAt is refused, a body that changes
\* nothing answered at once.
PatchRead(c, p, checked) ==
  LET change == [f \in {g \in DOMAIN p : p[g] # row.field[g]} |-> p[f]] IN
  /\ present
  /\ checked => form[c].version = row.version
  /\ DOMAIN change # {}
  /\ Tick
  /\ Begin(c, [Idle EXCEPT !.pc = "audit", !.change = change, !.todo = DOMAIN change,
                           !.old = row, !.version = clock', !.checked = checked])
  /\ UNCHANGED <<present, row, v1, audit, form, offer, campus, faults, good>>

\* The editor's form sends the name and the URL as they were typed and the status
\* of the row as its page was loaded, unless another was chosen.
Save(c) ==
  \E p \in Patches :
    /\ DOMAIN p = Fields
    /\ \E s \in {p["status"], form[c].field["status"]} :
         PatchRead(c, [p EXCEPT !["status"] = s], FALSE)

\* The list of connections offers the button beside a tenant it shows as connected.
ShownConnected(c) == form[c].field["status"] = "connected"
DisconnectBody    == [f \in {"status"} |-> "disconnected"]
Disconnect(c)     == ShownConnected(c) /\ PatchRead(c, DisconnectBody, FALSE)

\* A client of the API that sends back the updated_at it was shown.
PatchIfUnchanged(c) == \E p \in Patches : PatchRead(c, p, TRUE)

Rank == [name |-> 1, slims_base_url |-> 2, status |-> 3]

\* Mistake: the log rows are left for after the update.
PatchAuditLate(c) ==
  /\ req[c].pc = "audit" /\ present
  /\ Becomes(c, [req[c] EXCEPT !.todo = {}, !.pc = "update"])
  /\ UNCHANGED <<present, row, v1, audit, clock, form, offer, campus, faults,
                 good>>

\* One log row per changed field, before the update.  The foreign key refuses a
\* log row of a tenant that is gone (Orphaned).
PatchAudit(c) ==
  /\ req[c].pc = "audit" /\ present
  /\ \E f \in req[c].todo :
       /\ \A g \in req[c].todo : Rank[f] <= Rank[g]
       /\ audit' = audit \cup {<<f, req[c].change[f]>>}
       /\ Becomes(c, [req[c] EXCEPT
                         !.todo = @ \ {f},
                         !.pc = IF req[c].todo = {f} THEN "update" ELSE "audit"])
  /\ UNCHANGED <<present, row, v1, clock, form, offer, campus, faults, good>>

\* Mistake: the row is written as it was read, with the changes.
PatchedWhole(r) ==
  [r.old EXCEPT !.field = [f \in Fields |-> IF f \in DOMAIN r.change THEN r.change[f]
                                            ELSE r.old.field[f]],
                !.version = r.version]

\* Mistake: updatedAt is not among the columns.
PatchedSilently(r) ==
  [row EXCEPT !.field = [f \in Fields |-> IF f \in DOMAIN r.change THEN r.change[f]
                                          ELSE row.field[f]]]

\* Mistake: fields that the body leaves out are written as undefined.
PatchedUndefined(r) ==
  [row EXCEPT !.field = [f \in Fields |-> IF f \in DOMAIN r.change THEN r.change[f]
                                          ELSE "undefined"],
              !.version = r.version]

\* The columns of the update set: what changed against the row as it was read.
Patched(r) ==
  [row EXCEPT !.field = [f \in Fields |-> IF f \in DOMAIN r.change THEN r.change[f]
                                          ELSE row.field[f]],
              !.version = r.version]

PatchUpdate(c) ==
  /\ req[c].pc = "update"
  /\ Store(Patched(req[c]))
  /\ End(c)
  /\ UNCHANGED <<present, v1, audit, clock, form, offer, campus, faults, good>>

-----------------------------------------------------------------------------
(* Secrets and key pairs.                                                  *)

NewSecret == [row EXCEPT !.secret = @ + 1, !.version = clock']
NewKey    == [row EXCEPT !.key = @ + 1]

\* regenerate-secret stores a new secret without looking at the row ...
Regenerate(c) ==
  /\ Tick
  /\ Store(NewSecret)
  /\ BeginTouching(c, [Idle EXCEPT !.pc = "shown", !.secret = row.secret + 1])
  /\ UNCHANGED <<present, v1, audit, form, offer, campus, faults>>

\* ... and shows it when the log row is written.
RegenerateAnswer(c) ==
  /\ req[c].pc = "shown" /\ present
  /\ offer' = [secret |-> req[c].secret, key |-> 0]
  /\ good' = FALSE
  /\ End(c)
  /\ UNCHANGED <<present, row, v1, audit, clock, form, campus, faults>>

\* rotate-keypair replaces the key pair.
Rotate(c) ==
  /\ Tick
  /\ Store([NewKey EXCEPT !.version = clock'])
  /\ BeginTouching(c, [Idle EXCEPT !.pc = "rotated"])
  /\ UNCHANGED <<present, v1, audit, form, offer, campus, faults>>

RotateAnswer(c) ==
  /\ req[c].pc = "rotated" /\ present
  /\ End(c)
  /\ UNCHANGED <<present, row, v1, audit, clock, form, offer, campus, faults,
                 good>>

\* agent-zip: reads the tenant, stores a new secret, ensures a key pair.
ZipRead(c) ==
  /\ present
  /\ BeginTouching(c, [Idle EXCEPT !.pc = "zipUpdate", !.old = row, !.forZip = TRUE])
  /\ UNCHANGED <<present, row, v1, audit, clock, form, offer, campus, faults>>

ZipUpdate(c) ==
  /\ req[c].pc = "zipUpdate"
  /\ Tick
  /\ Store(NewSecret)
  /\ Becomes(c, [req[c] EXCEPT !.pc = "ensure", !.secret = row.secret + 1])
  /\ UNCHANGED <<present, v1, audit, form, offer, campus, faults, good>>

\* The request goes on with the key pair that ensureTenantKeypair returns.
WithKey(c, k) ==
  Becomes(c, [req[c] EXCEPT !.pc = IF req[c].forZip THEN "zipAnswer" ELSE "probe",
                            !.key = k])

\* ensureTenantKeypair, for a download or a test: the key pair there is ...
EnsureKey(c) ==
  /\ req[c].pc = "ensure"
  /\ IF present /\ row.key # 0
     THEN WithKey(c, row.key)
     ELSE Goto(c, "generate")
  /\ UNCHANGED <<present, row, v1, audit, clock, form, offer, campus, faults,
                 good>>

\* ... or a new one.
GenerateKey(c) ==
  /\ req[c].pc = "generate"
  /\ Store(NewKey)
  /\ WithKey(c, row.key + 1)
  /\ UNCHANGED <<present, v1, audit, clock, form, offer, campus, faults, good>>

\* Mistake: the .env holds the key of the row as it was first read.
EnvAsRead(r) == [secret |-> r.secret, key |-> r.old.key]

\* The .env of the archive.
EnvOf(r) == [secret |-> r.secret, key |-> r.key]

\* The log row, the archive and the answer.
ZipAnswer(c) ==
  /\ req[c].pc = "zipAnswer" /\ present
  /\ offer' = EnvOf(req[c])
  /\ good' = req[c].alone
  /\ End(c)
  /\ UNCHANGED <<present, row, v1, audit, clock, form, campus, faults>>

-----------------------------------------------------------------------------
(* test-connection and DELETE.                                             *)

TestRead(c) ==
  /\ present
  /\ BeginTouching(c, [Idle EXCEPT !.pc = "ensure", !.old = row])
  /\ UNCHANGED <<present, row, v1, audit, clock, form, offer, campus, faults>>

\* The probe is signed with the private key; the plugin verifies it with the
\* public key of its .env.  It may time out or find the campus ill.
Probe(c) ==
  LET reached == /\ req[c].old.field["slims_base_url"] = RightUrl
                 /\ campus.key = req[c].key IN
  /\ req[c].pc = "probe"
  /\ \E ok \in {reached, FALSE} :
       Becomes(c, [req[c] EXCEPT !.pc = "testUpdate", !.ok = ok])
  /\ UNCHANGED <<present, row, v1, audit, clock, form, offer, campus, faults,
                 good>>

TestUpdate(c) ==
  /\ req[c].pc = "testUpdate"
  /\ Tick
  /\ Store([row EXCEPT
              !.field["status"] = IF req[c].ok THEN "connected" ELSE "disconnected",
              !.version = clock'])
  /\ Goto(c, "testAnswer")
  /\ UNCHANGED <<present, v1, audit, form, offer, campus, faults, good>>

TestAnswer(c) ==
  /\ req[c].pc = "testAnswer" /\ present
  /\ End(c)
  /\ UNCHANGED <<present, row, v1, audit, clock, form, offer, campus, faults,
                 good>>

DeleteCheck(c) ==
  /\ present
  /\ Begin(c, [Idle EXCEPT !.pc = "deleteRows"])
  /\ UNCHANGED <<present, row, v1, audit, clock, form, offer, campus, faults,
                 good>>

DeleteRows(c) ==
  /\ req[c].pc = "deleteRows"
  /\ v1' = FALSE
  /\ Goto(c, "deleteTenant")
  /\ UNCHANGED <<present, row, audit, clock, form, offer, campus, faults, good>>

\* The tenant takes its log rows along; a row of daily_stats that came in the
\* meantime makes the statement fail, and so does one of any other table that
\* refers to the tenant (Aborted).
DeleteTenant(c) ==
  /\ req[c].pc = "deleteTenant"
  /\ IF v1 THEN UNCHANGED <<present, audit>>
     ELSE present' = FALSE /\ audit' = {}
  /\ End(c)
  /\ UNCHANGED <<row, v1, clock, form, offer, campus, faults, good>>

\* A request that meets the missing tenant at its log row ends there.
Orphaned(c) ==
  /\ ~present /\ req[c].pc \in {"audit", "shown", "rotated", "zipAnswer", "testAnswer"}
  /\ End(c)
  /\ UNCHANGED <<present, row, v1, audit, clock, form, offer, campus, faults,
                 good>>

-----------------------------------------------------------------------------
(* The campus.                                                             *)

\* The operator unpacks the archive, or puts the secret that was shown into the
\* .env that is there.
Install ==
  /\ campus' = [secret |-> offer.secret,
                 key |-> IF offer.key = 0 THEN campus.key ELSE offer.key]
  /\ UNCHANGED <<present, row, v1, audit, clock, req, form, offer, faults, good>>

\* A push is stored when its tenant is found by the hash of the secret it is
\* signed with.
Accepts(s) == present /\ s = row.secret

Push ==
  /\ Accepts(campus.secret)
  /\ v1' = TRUE
  /\ UNCHANGED <<present, row, audit, clock, req, form, offer, campus, faults,
                 good>>

-----------------------------------------------------------------------------
RequestStep(c) ==
  \/ PatchAudit(c) \/ PatchUpdate(c) \/ RegenerateAnswer(c) \/ RotateAnswer(c)
  \/ ZipUpdate(c) \/ EnsureKey(c) \/ GenerateKey(c) \/ ZipAnswer(c)
  \/ Probe(c) \/ TestUpdate(c) \/ TestAnswer(c)
  \/ DeleteRows(c) \/ DeleteTenant(c) \/ Orphaned(c)

\* The editor shows a public key with a button to rotate it, and the download.
Credentials(c) == (row.key # 0 /\ Rotate(c)) \/ ZipRead(c)

\* A button is disabled while the request it sent is in flight.
Editor(c)      == Save(c) \/ Credentials(c) \/ TestRead(c)
ListButtons(c) == Disconnect(c) \/ DeleteCheck(c)

Next ==
  \/ \E c \in Callers :
       \/ Load(c) \/ Aborted(c) \/ RequestStep(c)
       \/ Editor(c) \/ ListButtons(c)
       \/ PatchIfUnchanged(c) \/ Regenerate(c)
  \/ Install \/ Push

Spec == Init /\ [][Next]_vars

-----------------------------------------------------------------------------
(* Properties                                                              *)

\* Every name and URL the row ever holds is the first one or in the audit log:
\* the PATCH route logs before it writes, and writes only what it logged, however
\* requests overlap or die.
AuditCoversRow ==
  present => \A f \in {"name", "slims_base_url"} :
               row.field[f] = Initial[f] \/ <<f, row.field[f]>> \in audit

\* A PATCH that passed the optimistic check has read the very fields its page was
\* loaded with: every statement that changes a field also moves updatedAt.
CheckedReadIsFresh ==
  \A c \in Callers : req[c].pc \in {"audit", "update"} /\ req[c].checked
                       => req[c].old.field = form[c].field

\* The credentials of a download that overlapped no other request for credentials
\* are those of the tenant, whatever PATCHes and pushes ran beside it, until the
\* next such request: the plugin can be installed from it.
DownloadWorks ==
  good /\ present => offer = [secret |-> row.secret, key |-> row.key]

\* A replaced secret or key pair never comes back: no request writes credentials
\* it has read before.  (regenerate-secret says the old token is invalid at once.)
RetiredStaysRetired ==
  [][row'.secret >= row.secret /\ row'.key >= row.key]_vars

=============================================================================
