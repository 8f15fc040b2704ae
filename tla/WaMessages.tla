----------------------------- MODULE WaMessages -----------------------------
(***************************************************************************)
(* WhatsApp messages: the webhook queues them under their message id, up   *)
(* to five handlers of the worker process answer them at once, log the     *)
(* answer and remember the conversation in Redis.  A handler that throws   *)
(* apologises and is run again by BullMQ.                                  *)
(*                                                                         *)
(* One action is the code between two awaits that change state.  Reading   *)
(* the context and composing the answer (getContext, processMessage)       *)
(* change nothing and throw nothing, so they are part of the send.         *)
(***************************************************************************)
EXTENDS Integers, Sequences

CONSTANTS
  Messages,       \* message ids
  Senders,        \* sender JIDs
  Tenants,        \* campuses
  SenderOf,       \* who sent a message
  TenantOf,       \* whose device received it
  Handlers,       \* jobs the worker processes at once (concurrency 5)
  Attempts,       \* attempts of a job (3 in the code)
  MaxStalled,     \* redeliveries after a stall (BullMQ's default 1)
  MaxMessages,    \* MAX_MESSAGES of a context (10 in the code)
  None,           \* no message
  MaxDeliveries,  \* bound on webhook calls per message
  MaxFaults       \* bound on failing calls and worker crashes

ASSUME WaMessagesAssumption ==
  /\ SenderOf \in [Messages -> Senders] /\ TenantOf \in [Messages -> Tenants]
  /\ Attempts \in Nat \ {0} /\ MaxStalled \in Nat /\ MaxMessages \in Nat \ {0}
  /\ MaxDeliveries \in Nat /\ MaxFaults \in Nat
  /\ None \notin Messages

VARIABLES
  job,         \* wa-incoming: what BullMQ keeps of each message id
  handler,     \* the worker's handlers in progress
  ctx,         \* wa:ctx:{senderJid}
  sessions,    \* tenants with a whatsapp_sessions row
  trail,       \* history: replies and log rows since BullMQ last forgot the id
  answered,    \* history: messages answered at any time
  deliveries, faults

vars == <<job, handler, ctx, sessions, trail, answered, deliveries, faults>>

\* device_id of the event: the tenant's id, or the JID of the phone.
Devices == {"tenantId", "jid"}

Job == [status: {"absent", "waiting", "active", "delayed", "completed", "failed"},
        device: Devices, attempts: 0..Attempts, stalls: 0..MaxStalled + 1]
NoJob == [status |-> "absent", device |-> "tenantId", attempts |-> 0, stalls |-> 0]

Entry == [role: {"user", "assistant"}, message: Messages]

HandlerState ==
  [pc: {"idle", "lookup", "send", "log", "read", "write", "apology",
        "return", "throw"},
   message: Messages \cup {None},
   role: {"user", "assistant"},     \* the message that addMessage adds
   existing: Seq(Entry)]            \* the context as addMessage read it
Idle == [pc |-> "idle", message |-> None, role |-> "user", existing |-> <<>>]

Trail == [answers: Nat, apologies: Nat, logged: Nat, skipped: BOOLEAN]
NoTrail == [answers |-> 0, apologies |-> 0, logged |-> 0, skipped |-> FALSE]

Init ==
  /\ job = [m \in Messages |-> NoJob]
  /\ handler = [h \in Handlers |-> Idle]
  /\ ctx = [s \in Senders |-> <<>>]
  /\ sessions = {}
  /\ trail = [m \in Messages |-> NoTrail]
  /\ answered = {}
  /\ deliveries = [m \in Messages |-> 0]
  /\ faults = 0

\* A call fails, or the worker dies.
Fault == faults < MaxFaults /\ faults' = faults + 1
NoFault == UNCHANGED faults

-----------------------------------------------------------------------------
(* The webhook. *)

Queued(device) == [NoJob EXCEPT !.status = "waiting", !.device = device]

\* waIncomingQueue.add with jobId = messageId: an id BullMQ knows is not added.
Add(m, device) ==
  job' = IF job[m].status = "absent" THEN [job EXCEPT ![m] = Queued(device)] ELSE job

\* The engine delivers an event, the first time or again.  The route answers 200
\* whether or not the enqueue failed.
Webhook(m) ==
  /\ deliveries[m] < MaxDeliveries
  /\ deliveries' = [deliveries EXCEPT ![m] = @ + 1]
  /\ \/ NoFault /\ \E device \in Devices : Add(m, device)
     \/ Fault /\ UNCHANGED job
  /\ UNCHANGED <<handler, ctx, sessions, trail, answered>>

-----------------------------------------------------------------------------
(* The handler of the message worker. *)

Goto(h, pc) == handler' = [handler EXCEPT ![h].pc = pc]

\* A waiting message is handed to a free handler.
Take(h, m) ==
  /\ handler[h].pc = "idle" /\ job[m].status = "waiting"
  /\ job' = [job EXCEPT ![m].status = "active"]
  /\ handler' = [handler EXCEPT ![h] = [Idle EXCEPT !.pc = "lookup", !.message = m]]
  /\ UNCHANGED <<ctx, sessions, trail, answered, deliveries, faults>>

\* The session is looked up by device_id or tenant_id.  Without one the handler
\* returns.  tenant_id is a uuid column: PostgreSQL rejects the query when the
\* device id is a JID, as when the database fails, and no apology is sent
\* because the tenant is not known yet.
Lookup(h) ==
  LET m == handler[h].message IN
  /\ handler[h].pc = "lookup"
  /\ \/ /\ job[m].device = "tenantId" /\ TenantOf[m] \in sessions
        /\ Goto(h, "send") /\ UNCHANGED trail /\ NoFault
     \/ /\ job[m].device = "tenantId" /\ TenantOf[m] \notin sessions
        /\ Goto(h, "return") /\ trail' = [trail EXCEPT ![m].skipped = TRUE] /\ NoFault
     \/ /\ job[m].device = "jid"
        /\ Goto(h, "throw") /\ UNCHANGED trail /\ NoFault
     \/ /\ Fault
        /\ Goto(h, "throw") /\ UNCHANGED trail
  /\ UNCHANGED <<job, ctx, sessions, answered, deliveries>>

Accepted(m) ==
  /\ trail' = [trail EXCEPT ![m].answers = @ + 1]
  /\ answered' = answered \cup {m}

\* Mutant: a failed send is logged and forgotten.
SendSwallowed(h) ==
  /\ handler[h].pc = "send"
  /\ \/ Accepted(handler[h].message) /\ NoFault
     \/ UNCHANGED <<trail, answered>> /\ Fault
  /\ Goto(h, "log")
  /\ UNCHANGED <<job, ctx, sessions, deliveries>>

\* The answer is composed and sent.  A send that fails may have been accepted.
Send(h) ==
  /\ handler[h].pc = "send"
  /\ \/ Accepted(handler[h].message) /\ Goto(h, "log") /\ NoFault
     \/ Accepted(handler[h].message) /\ Goto(h, "apology") /\ Fault
     \/ UNCHANGED <<trail, answered>> /\ Goto(h, "apology") /\ Fault
  /\ UNCHANGED <<job, ctx, sessions, deliveries>>

\* wa_message_log gets its two rows.
Log(h) ==
  /\ handler[h].pc = "log"
  /\ \/ /\ trail' = [trail EXCEPT ![handler[h].message].logged = @ + 1]
        /\ \/ Goto(h, "read") /\ NoFault
           \/ Goto(h, "apology") /\ Fault
     \/ UNCHANGED trail /\ Goto(h, "apology") /\ Fault
  /\ UNCHANGED <<job, ctx, sessions, answered, deliveries>>

\* addMessage reads the context (an error reads as an empty one) ...
AddRead(h) ==
  /\ handler[h].pc = "read"
  /\ \E c \in {ctx[SenderOf[handler[h].message]], <<>>} :
       /\ handler' = [handler EXCEPT ![h].pc = "write", ![h].existing = c]
       /\ \/ c = ctx[SenderOf[handler[h].message]] /\ NoFault
          \/ c = <<>> /\ Fault
  /\ UNCHANGED <<job, ctx, sessions, trail, answered, deliveries>>

\* Mutant: the context grows without bound.
Untrimmed(c) == c

\* slice(-MAX_MESSAGES)
Trimmed(c) == IF Len(c) <= MaxMessages THEN c
              ELSE SubSeq(c, Len(c) - MaxMessages + 1, Len(c))

\* ... and writes it with the message at its end, first the sender's, then ours.
\* A write that fails is passed over.
AddWrite(h) ==
  LET r == handler[h]
      new == Append(r.existing, [role |-> r.role, message |-> r.message]) IN
  /\ r.pc = "write"
  /\ \/ ctx' = [ctx EXCEPT ![SenderOf[r.message]] = Trimmed(new)] /\ NoFault
     \/ UNCHANGED ctx /\ Fault
  /\ handler' = [handler EXCEPT ![h] =
       IF r.role = "user"
       THEN [r EXCEPT !.pc = "read", !.role = "assistant", !.existing = <<>>]
       ELSE [r EXCEPT !.pc = "return", !.existing = <<>>]]
  /\ UNCHANGED <<job, sessions, trail, answered, deliveries>>

\* Mutant: the error is not thrown again after the apology.
ApologyOnly(h) ==
  /\ handler[h].pc = "apology"
  /\ trail' = [trail EXCEPT ![handler[h].message].apologies = @ + 1]
  /\ NoFault
  /\ Goto(h, "return")
  /\ UNCHANGED <<job, ctx, sessions, answered, deliveries>>

\* catch: an apology is sent, best effort, and the error thrown again.
Apology(h) ==
  /\ handler[h].pc = "apology"
  /\ \/ /\ trail' = [trail EXCEPT ![handler[h].message].apologies = @ + 1]
        /\ NoFault
     \/ UNCHANGED trail /\ Fault
  /\ Goto(h, "throw")
  /\ UNCHANGED <<job, ctx, sessions, answered, deliveries>>

-----------------------------------------------------------------------------
(* BullMQ and Redis. *)

\* The handler has returned: the job is completed.
Complete(h) ==
  /\ handler[h].pc = "return"
  /\ job' = [job EXCEPT ![handler[h].message].status = "completed"]
  /\ handler' = [handler EXCEPT ![h] = Idle]
  /\ UNCHANGED <<ctx, sessions, trail, answered, deliveries, faults>>

\* Mutant: the attempts are not compared with their limit.
AfterThrowAlways(j) == [j EXCEPT !.status = "delayed", !.attempts = @ + 1]

\* Mutant: the attempts are not counted.
AfterThrowUncounted(j) ==
  [j EXCEPT !.status = IF j.attempts + 1 < Attempts THEN "delayed" ELSE "failed"]

\* A failed attempt is repeated after a delay, the last one fails the job.
AfterThrow(j) ==
  [j EXCEPT !.status = IF j.attempts + 1 < Attempts THEN "delayed" ELSE "failed",
            !.attempts = @ + 1]

Retry(h) ==
  /\ handler[h].pc = "throw"
  /\ job' = [job EXCEPT ![handler[h].message] = AfterThrow(@)]
  /\ handler' = [handler EXCEPT ![h] = Idle]
  /\ UNCHANGED <<ctx, sessions, trail, answered, deliveries, faults>>

\* The backoff delay is over.
Promote(m) ==
  /\ job[m].status = "delayed"
  /\ job' = [job EXCEPT ![m].status = "waiting"]
  /\ UNCHANGED <<handler, ctx, sessions, trail, answered, deliveries, faults>>

\* The worker process dies with all its handlers; their jobs stay active.
WorkerCrash ==
  /\ \E h \in Handlers : handler[h].pc # "idle"
  /\ Fault
  /\ handler' = [h \in Handlers |-> Idle]
  /\ UNCHANGED <<job, ctx, sessions, trail, answered, deliveries>>

InHand(m) == \E h \in Handlers : handler[h].message = m

\* Mutant: a job that runs for long counts as stalled, however often.
StalledWhileRunning(m) ==
  /\ job[m].status = "active"
  /\ job' = [job EXCEPT ![m].status = "waiting"]
  /\ UNCHANGED <<handler, ctx, sessions, trail, answered, deliveries, faults>>

\* An active job whose worker is gone is queued again, or failed when it has
\* stalled too often.
StalledCheck(m) ==
  /\ job[m].status = "active" /\ ~InHand(m)
  /\ job' = [job EXCEPT ![m].status = IF job[m].stalls >= MaxStalled
                                      THEN "failed" ELSE "waiting",
                        ![m].stalls = @ + 1]
  /\ UNCHANGED <<handler, ctx, sessions, trail, answered, deliveries, faults>>

\* removeOnComplete, removeOnFail: BullMQ forgets a finished job and its id.
Forget(m) ==
  /\ job[m].status \in {"completed", "failed"}
  /\ job' = [job EXCEPT ![m] = NoJob]
  /\ trail' = [trail EXCEPT ![m] = NoTrail]
  /\ UNCHANGED <<handler, ctx, sessions, answered, deliveries, faults>>

\* The context's time to live is over.
ContextExpires(s) ==
  /\ ctx[s] # <<>>
  /\ ctx' = [ctx EXCEPT ![s] = <<>>]
  /\ UNCHANGED <<job, handler, sessions, trail, answered, deliveries, faults>>

\* initSession inserts the tenant's row; no row is ever deleted.
SessionCreated(t) ==
  /\ t \notin sessions
  /\ sessions' = sessions \cup {t}
  /\ UNCHANGED <<job, handler, ctx, trail, answered, deliveries, faults>>

HandlerStep(h) ==
  \/ Lookup(h) \/ Send(h) \/ Log(h) \/ AddRead(h) \/ AddWrite(h) \/ Apology(h)
  \/ Complete(h) \/ Retry(h)

Next ==
  \/ \E m \in Messages : Webhook(m) \/ Promote(m) \/ StalledCheck(m) \/ Forget(m)
  \/ \E h \in Handlers, m \in Messages : Take(h, m)
  \/ \E h \in Handlers : HandlerStep(h)
  \/ \E s \in Senders : ContextExpires(s)
  \/ \E t \in Tenants : SessionCreated(t)
  \/ WorkerCrash

Spec == Init /\ [][Next]_vars

\* Handlers run on, waiting messages are handed out, delays end and stalled jobs
\* are found.
FairSpec ==
  /\ Spec
  /\ \A h \in Handlers : WF_vars(HandlerStep(h))
  /\ \A m \in Messages :
       /\ WF_vars(\E h \in Handlers : Take(h, m))
       /\ WF_vars(Promote(m)) /\ WF_vars(StalledCheck(m))

-----------------------------------------------------------------------------
(* Properties *)

TypeOK ==
  /\ job \in [Messages -> Job]
  /\ handler \in [Handlers -> HandlerState]
  /\ ctx \in [Senders -> Seq(Entry)]
  /\ sessions \subseteq Tenants
  /\ trail \in [Messages -> Trail]
  /\ answered \subseteq Messages
  /\ deliveries \in [Messages -> Nat]
  /\ faults \in Nat

\* A completed message was answered and logged, unless its tenant had no session:
\* nothing is acknowledged to BullMQ that the sender never heard of.
CompletedIsAnswered ==
  \A m \in Messages :
    job[m].status = "completed" /\ ~trail[m].skipped =>
      trail[m].answers > 0 /\ trail[m].logged > 0

\* However often the engine repeats an event, a call fails or the worker dies: as
\* long as BullMQ knows the id, a sender gets at most one answer and one apology
\* for each attempt and each redelivery.
RepliesAreBounded ==
  \A m \in Messages :
    /\ trail[m].answers <= Attempts + MaxStalled
    /\ trail[m].apologies <= Attempts + MaxStalled

\* A context holds the last messages of its sender only, and as our side of the
\* conversation only answers that were sent, whatever handlers write over each
\* other.
ContextIsTruthful ==
  \A s \in Senders :
    /\ Len(ctx[s]) <= MaxMessages
    /\ \A i \in 1..Len(ctx[s]) :
         /\ SenderOf[ctx[s][i].message] = s
         /\ ctx[s][i].message \in answered

\* Every message that is queued is completed or given up.
MessagesSettle ==
  \A m \in Messages :
    job[m].status = "waiting" ~> job[m].status \in {"completed", "failed"}

-----------------------------------------------------------------------------
(* WaMessages implements ReplyService: which handler has a message, the context  *)
(* it writes and how BullMQ tells attempts from stalls are left out.             *)

At(m, pcs) == \E h \in Handlers : handler[h].message = m /\ handler[h].pc \in pcs

Phase(m) ==
  CASE job[m].status = "absent"                  -> "unknown"
    [] job[m].status \in {"waiting", "delayed"}  -> "queued"
    [] job[m].status = "completed"               -> "done"
    [] job[m].status = "failed"                  -> "failed"
    [] job[m].status = "active" ->
         CASE At(m, {"lookup", "send"})          -> "open"
           [] At(m, {"log"})                     -> "answered"
           [] At(m, {"read", "write", "return"}) -> "settled"
           [] At(m, {"apology"})                 -> "sorry"
           [] At(m, {"throw"})                   -> "ended"
           [] OTHER                              -> "lost"

Phases == [m \in Messages |-> Phase(m)]

\* The runs that ended without settling the message.
RunsEnded == [m \in Messages |-> job[m].attempts + job[m].stalls]

Service == INSTANCE ReplyService WITH
             Runs <- Attempts + MaxStalled, phase <- Phases, used <- RunsEnded,
             said <- trail

\* For every message, whatever handlers work at once, calls fail and workers die:
\* the runs are counted and bounded, each answers at most once, logs only its own
\* answer, apologises at most once and only when it failed, and a message is
\* completed only by a run that logged its answer or found no session.
ServiceSpec == Service!Spec

=============================================================================
