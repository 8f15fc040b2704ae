-------------------------- MODULE WaMessagesProofs --------------------------
(***************************************************************************)
(* Theorems about WaMessages for any number of messages, senders, tenants  *)
(* and handlers, any bound on attempts and context, and any number of      *)
(* faults and repeated events; at the end, that it implements ReplyService. *)
(***************************************************************************)
EXTENDS WaMessages, SequenceTheorems, TLAPS

-----------------------------------------------------------------------------
(* The inductive invariant. *)

\* A context c of sender s holds s's messages, all among the answered ones A.
ContextOK(A, c, s) ==
  /\ Len(c) <= MaxMessages
  /\ \A i \in 1..Len(c) : SenderOf[c[i].message] = s /\ c[i].message \in A

\* How often BullMQ has ended a run of the job, and whether one is not yet counted.
Runs(j) == j.attempts + j.stalls
Open(j) == IF j.status \in {"active", "completed"} THEN 1 ELSE 0

\* What the trail t of a message says against its job j.
MessageOK(j, t) ==
  /\ j.status = "absent" => t = NoTrail
  /\ j.status \in {"waiting", "delayed", "active", "completed"} =>
       j.attempts < Attempts /\ j.stalls <= MaxStalled
  /\ Runs(j) <= Attempts + MaxStalled
  /\ t.answers <= Runs(j) + Open(j) /\ t.apologies <= Runs(j) + Open(j)
  /\ t.logged <= t.answers
  /\ j.status = "completed" /\ ~t.skipped => t.answers > 0 /\ t.logged > 0

\* What the locals r of a busy handler say of its message.
HandlerOK(r, j, t, A) ==
  /\ j.status = "active"
  /\ r.pc \in {"lookup", "send"} => t.answers <= Runs(j)
  /\ r.pc # "throw" => t.apologies <= Runs(j)
  /\ r.pc = "log" => t.logged < t.answers
  /\ r.pc \in {"read", "write"} => t.answers > 0 /\ t.logged > 0
  /\ r.pc \in {"log", "read", "write"} => r.message \in A
  /\ r.pc = "return" /\ ~t.skipped => t.answers > 0 /\ t.logged > 0
  /\ r.pc = "write" => ContextOK(A, r.existing, SenderOf[r.message])

\* A handler is busy exactly when it has a message, and has it alone.
Exclusive ==
  /\ \A h \in Handlers : handler[h].pc = "idle" <=> handler[h].message = None
  /\ \A g, h \in Handlers :
       handler[g].message = handler[h].message /\ handler[g].message # None => g = h

MessagesOK == \A m \in Messages : MessageOK(job[m], trail[m])

HandlersOK ==
  \A h \in Handlers : \A m \in Messages :
    handler[h].message = m => HandlerOK(handler[h], job[m], trail[m], answered)

ContextsOK == \A s \in Senders : ContextOK(answered, ctx[s], s)

IInv == TypeOK /\ Exclusive /\ MessagesOK /\ HandlersOK /\ ContextsOK

-----------------------------------------------------------------------------
(* Lemmas on the data. *)

\* More answered messages keep what a context and a handler say.
LEMMA AnsweredGrows ==
  ASSUME NEW A, NEW B, A \subseteq B
  PROVE  /\ \A c, s : ContextOK(A, c, s) => ContextOK(B, c, s)
         /\ \A r, j, t : HandlerOK(r, j, t, A) => HandlerOK(r, j, t, B)
<1>1. \A c, s : ContextOK(A, c, s) => ContextOK(B, c, s)
  BY DEF ContextOK
<1> QED
  BY <1>1 DEF HandlerOK

LEMMA EmptyContext == <<>> \in Seq(Entry) /\ \A A, s : ContextOK(A, <<>>, s)
<1>1. WaMessagesAssumption
  BY WaMessagesAssumption
<1> QED
  BY <1>1 DEF ContextOK, WaMessagesAssumption

LEMMA IdleType ==
  /\ Idle \in HandlerState /\ Idle.pc = "idle" /\ Idle.message = None
  /\ NoJob \in Job /\ NoTrail \in Trail /\ MessageOK(NoJob, NoTrail)
<1>1. <<>> \in Seq(Entry)
  OBVIOUS
<1>2. Idle \in HandlerState /\ Idle.pc = "idle" /\ Idle.message = None
  BY <1>1 DEF Idle, HandlerState
<1>3. NoJob \in Job /\ NoTrail \in Trail
  BY WaMessagesAssumption DEF NoJob, Job, Devices, NoTrail, Trail
<1>4. MessageOK(NoJob, NoTrail)
  BY WaMessagesAssumption DEF MessageOK, Runs, Open, NoJob, NoTrail
<1> QED
  BY <1>2, <1>3, <1>4

\* addMessage: the context it writes keeps to its bound and to its sender.
LEMMA AddedContext ==
  ASSUME NEW A, NEW s, NEW c \in Seq(Entry), ContextOK(A, c, s),
         NEW e \in Entry, SenderOf[e.message] = s, e.message \in A
  PROVE  /\ Trimmed(Append(c, e)) \in Seq(Entry)
         /\ ContextOK(A, Trimmed(Append(c, e)), s)
<1> DEFINE d == Append(c, e)
<1>1. /\ d \in Seq(Entry) /\ Len(d) = Len(c) + 1 /\ Len(c) \in Nat
      /\ \A i \in 1..Len(c) : d[i] = c[i]
      /\ d[Len(c) + 1] = e
  BY AppendProperties, LenProperties
<1> HIDE DEF d
<1>2. \A i \in 1..Len(d) : SenderOf[d[i].message] = s /\ d[i].message \in A
  <2>1. ASSUME NEW i \in 1..Len(d) PROVE d[i] = e \/ (i \in 1..Len(c) /\ d[i] = c[i])
    BY <1>1
  <2> QED
    BY <2>1 DEF ContextOK
<1>3. CASE Len(d) <= MaxMessages
  <2>1. Trimmed(d) = d
    BY <1>3 DEF Trimmed
  <2> QED
    BY <1>1, <1>2, <1>3, <2>1 DEF ContextOK, d
<1>4. CASE ~(Len(d) <= MaxMessages)
  <2> DEFINE from == Len(d) - MaxMessages + 1
             t == SubSeq(d, from, Len(d))
  <2>1. from \in 1..Len(d) /\ Len(d) \in Nat /\ Len(d) - from + 1 = MaxMessages
    BY <1>1, <1>4, WaMessagesAssumption
  <2>2. \A i \in from..Len(d) : d[i] \in Entry
    BY <1>1, <2>1, ElementOfSeq
  <2>3. /\ t \in Seq(Entry) /\ Len(t) = MaxMessages
        /\ \A i \in 1..MaxMessages : t[i] = d[from + i - 1]
    <3> HIDE DEF from
    <3>1. /\ t \in Seq(Entry)
          /\ Len(t) = IF from <= Len(d) THEN Len(d) - from + 1 ELSE 0
          /\ \A i \in 1..(Len(d) - from + 1) : t[i] = d[from + i - 1]
      BY <2>1, <2>2, SubSeqProperties
    <3> QED
      BY <2>1, <3>1
  <2>4. Trimmed(d) = t
    BY <1>4 DEF Trimmed
  <2> HIDE DEF t
  <2>5. \A i \in 1..MaxMessages : from + i - 1 \in 1..Len(d)
    BY <2>1, WaMessagesAssumption
  <2> HIDE DEF from
  <2>6. ASSUME NEW i \in 1..Len(t)
        PROVE  SenderOf[t[i].message] = s /\ t[i].message \in A
    <3>1. t[i] = d[from + i - 1] /\ from + i - 1 \in 1..Len(d)
      BY <2>3, <2>5
    <3> QED
      BY <1>2, <3>1
  <2>7. Len(t) <= MaxMessages
    BY <2>3, WaMessagesAssumption
  <2> QED
    BY <2>3, <2>4, <2>6, <2>7 DEF ContextOK, d
<1> QED
  BY <1>3, <1>4

-----------------------------------------------------------------------------
(* The shape of every step: one message changes, with its handler. *)

\* A step that gives message m a job j and a trail t, and leaves every handler as
\* it was, idle, or at work on m.
LEMMA MessageStep ==
  ASSUME IInv, NEW m \in Messages, NEW j \in Job, NEW t \in Trail, MessageOK(j, t),
         job' = [job EXCEPT ![m] = j], trail' = [trail EXCEPT ![m] = t],
         answered \subseteq answered', answered' \subseteq Messages,
         handler' \in [Handlers -> HandlerState],
         \A g \in Handlers :
           \/ handler'[g] = Idle
           \/ handler'[g] = handler[g] /\ handler[g].message # m
           \/ /\ handler'[g].message = m /\ handler'[g].pc # "idle"
              /\ HandlerOK(handler'[g], j, t, answered'),
         \A g, h \in Handlers :
           handler'[g].message = m /\ handler'[h].message = m => g = h,
         ctx' \in [Senders -> Seq(Entry)],
         \A s \in Senders : ContextOK(answered', ctx'[s], s),
         sessions' \subseteq Tenants, deliveries' \in [Messages -> Nat], faults' \in Nat
  PROVE  IInv'
<1>1. /\ job \in [Messages -> Job] /\ trail \in [Messages -> Trail]
      /\ handler \in [Handlers -> HandlerState]
  BY DEF IInv, TypeOK
<1>2. TypeOK'
  BY <1>1 DEF TypeOK
<1>3. /\ job'[m] = j /\ trail'[m] = t
      /\ \A x \in Messages \ {m} : job'[x] = job[x] /\ trail'[x] = trail[x]
  BY <1>1
<1>4. MessagesOK'
  BY <1>3 DEF IInv, MessagesOK
<1>5. Exclusive'
  <2>1. \A h \in Handlers : (handler[h].pc = "idle") <=> (handler[h].message = None)
    BY DEF IInv, Exclusive
  <2>2. m # None
    BY WaMessagesAssumption
  <2>3. \A h \in Handlers : (handler'[h].pc = "idle") <=> (handler'[h].message = None)
    BY <2>1, <2>2, IdleType
  <2>4. ASSUME NEW g \in Handlers, NEW h \in Handlers,
               handler'[g].message = handler'[h].message, handler'[g].message # None
        PROVE  g = h
    <3>1. CASE handler'[g].message = m
      BY <2>4, <3>1
    <3>2. CASE handler'[g].message # m
      <4>1. handler'[g] = handler[g] /\ handler'[h] = handler[h]
        BY <2>4, <3>2, IdleType
      <4> QED
        BY <2>4, <4>1 DEF IInv, Exclusive
    <3> QED
      BY <3>1, <3>2
  <2> QED
    BY <2>3, <2>4 DEF Exclusive
<1>6. HandlersOK'
  <2>1. ASSUME NEW h \in Handlers, NEW x \in Messages, handler'[h].message = x
        PROVE  HandlerOK(handler'[h], job'[x], trail'[x], answered')
    <3>1. x # None
      BY WaMessagesAssumption
    <3>2. CASE x = m
      BY <1>3, <2>1, <3>1, <3>2, IdleType
    <3>3. CASE x # m
      <4>1. handler'[h] = handler[h]
        BY <2>1, <3>1, <3>3, IdleType
      <4>2. HandlerOK(handler[h], job[x], trail[x], answered)
        BY <2>1, <4>1 DEF IInv, HandlersOK
      <4>3. HandlerOK(handler[h], job[x], trail[x], answered')
        BY <4>2, AnsweredGrows
      <4> QED
        BY <1>3, <3>3, <4>1, <4>3
    <3> QED
      BY <3>2, <3>3
  <2> QED
    BY <2>1 DEF HandlersOK
<1>7. ContextsOK'
  BY DEF ContextsOK
<1> QED
  BY <1>2, <1>4, <1>5, <1>6, <1>7 DEF IInv

\* What a step of a busy handler finds.
LEMMA BusyHandler ==
  ASSUME IInv, NEW h \in Handlers, handler[h].pc # "idle"
  PROVE  LET m == handler[h].message IN
         /\ m \in Messages /\ handler[h] \in HandlerState
         /\ job[m] \in Job /\ trail[m] \in Trail /\ MessageOK(job[m], trail[m])
         /\ HandlerOK(handler[h], job[m], trail[m], answered)
         /\ \A g \in Handlers \ {h} : handler[g].message # m
<1> DEFINE m == handler[h].message
<1>1. handler[h] \in HandlerState
  BY DEF IInv, TypeOK
<1>2. m \in Messages
  <2>1. m # None
    BY DEF IInv, Exclusive
  <2> QED
    BY <1>1, <2>1 DEF HandlerState
<1>3. job[m] \in Job /\ trail[m] \in Trail /\ MessageOK(job[m], trail[m])
  BY <1>2 DEF IInv, TypeOK, MessagesOK
<1>4. HandlerOK(handler[h], job[m], trail[m], answered)
  BY <1>2 DEF IInv, HandlersOK
<1>5. \A g \in Handlers \ {h} : handler[g].message # m
  BY <1>2, WaMessagesAssumption DEF IInv, Exclusive
<1> QED
  BY <1>1, <1>2, <1>3, <1>4, <1>5

\* A step of a busy handler that stays with its message, whose job it leaves alone.
LEMMA HandlerKeeps ==
  ASSUME IInv, NEW h \in Handlers, handler[h].pc # "idle",
         NEW r \in HandlerState, r.pc # "idle", r.message = handler[h].message,
         handler' = [handler EXCEPT ![h] = r],
         NEW t \in Trail, trail' = [trail EXCEPT ![handler[h].message] = t],
         MessageOK(job[handler[h].message], t),
         HandlerOK(r, job[handler[h].message], t, answered'),
         answered \subseteq answered', answered' \subseteq Messages,
         ctx' \in [Senders -> Seq(Entry)],
         \A s \in Senders : ContextOK(answered', ctx'[s], s),
         faults' \in Nat, UNCHANGED <<job, sessions, deliveries>>
  PROVE  IInv'
<1> DEFINE m == handler[h].message
<1>1. /\ m \in Messages /\ job[m] \in Job
      /\ \A g \in Handlers \ {h} : handler[g].message # m
  BY BusyHandler
<1>2. /\ handler \in [Handlers -> HandlerState] /\ job \in [Messages -> Job]
      /\ sessions' \subseteq Tenants /\ deliveries' \in [Messages -> Nat]
  BY DEF IInv, TypeOK
<1>3. /\ handler' \in [Handlers -> HandlerState] /\ handler'[h] = r
      /\ \A g \in Handlers \ {h} : handler'[g] = handler[g]
  BY <1>2
<1>4. job' = [job EXCEPT ![m] = job[m]]
  BY <1>1, <1>2
<1>5. \A g \in Handlers :
        \/ handler'[g] = Idle
        \/ handler'[g] = handler[g] /\ handler[g].message # m
        \/ /\ handler'[g].message = m /\ handler'[g].pc # "idle"
           /\ HandlerOK(handler'[g], job[m], t, answered')
  BY <1>1, <1>3
<1>6. \A g, k \in Handlers :
        handler'[g].message = m /\ handler'[k].message = m => g = k
  BY <1>1, <1>3
<1> HIDE DEF m
<1> QED
  BY <1>1, <1>2, <1>3, <1>4, <1>5, <1>6, MessageStep DEF m

\* A step of BullMQ on a message that no handler has: the handlers go on.
LEMMA JobStep ==
  ASSUME IInv, NEW m \in Messages, \A g \in Handlers : handler[g].message # m,
         NEW j \in Job, NEW t \in Trail, MessageOK(j, t),
         job' = [job EXCEPT ![m] = j], trail' = [trail EXCEPT ![m] = t],
         deliveries' \in [Messages -> Nat], faults' \in Nat,
         UNCHANGED <<handler, ctx, sessions, answered>>
  PROVE  IInv'
<1>1. /\ handler' \in [Handlers -> HandlerState] /\ answered' \subseteq Messages
      /\ ctx' \in [Senders -> Seq(Entry)] /\ sessions' \subseteq Tenants
      /\ \A s \in Senders : ContextOK(answered', ctx'[s], s)
  BY DEF IInv, TypeOK, ContextsOK
<1> QED
  BY <1>1, MessageStep

\* BullMQ ends a run: the handler is free again.
LEMMA RunEnds ==
  ASSUME IInv, NEW h \in Handlers, handler[h].pc # "idle",
         NEW j \in Job, MessageOK(j, trail[handler[h].message]),
         job' = [job EXCEPT ![handler[h].message] = j],
         handler' = [handler EXCEPT ![h] = Idle],
         UNCHANGED <<ctx, sessions, trail, answered, deliveries, faults>>
  PROVE  IInv'
<1> DEFINE m == handler[h].message
<1>1. /\ m \in Messages /\ trail[m] \in Trail
      /\ \A g \in Handlers \ {h} : handler[g].message # m
  BY BusyHandler
<1>2. /\ handler \in [Handlers -> HandlerState] /\ trail \in [Messages -> Trail]
      /\ sessions' \subseteq Tenants /\ deliveries' \in [Messages -> Nat]
      /\ faults' \in Nat /\ answered' \subseteq Messages
      /\ ctx' \in [Senders -> Seq(Entry)]
      /\ \A s \in Senders : ContextOK(answered', ctx'[s], s)
  BY DEF IInv, TypeOK, ContextsOK
<1>3. /\ handler' \in [Handlers -> HandlerState] /\ handler'[h] = Idle
      /\ \A g \in Handlers \ {h} : handler'[g] = handler[g]
  BY <1>2, IdleType
<1>4. trail' = [trail EXCEPT ![m] = trail[m]]
  BY <1>1, <1>2
<1>5. \A g \in Handlers :
        handler'[g] = Idle \/ (handler'[g] = handler[g] /\ handler[g].message # m)
  BY <1>1, <1>3
<1>6. \A g \in Handlers : handler'[g].message # m
  BY <1>1, <1>3, IdleType, WaMessagesAssumption
<1> HIDE DEF m
<1> QED
  BY <1>1, <1>2, <1>3, <1>4, <1>5, <1>6, MessageStep DEF m

-----------------------------------------------------------------------------
(* BullMQ's and Redis's steps. *)

\* The webhook adds a message that BullMQ does not know, or changes nothing.
LEMMA WebhookIInv ==
  ASSUME IInv, NEW m \in Messages, Webhook(m)
  PROVE  IInv'
<1>1. /\ job \in [Messages -> Job] /\ trail \in [Messages -> Trail]
      /\ deliveries \in [Messages -> Nat] /\ faults \in Nat
      /\ MessageOK(job[m], trail[m])
  BY DEF IInv, TypeOK, MessagesOK
<1>2. /\ deliveries' \in [Messages -> Nat] /\ faults' \in Nat
      /\ UNCHANGED <<handler, ctx, sessions, trail, answered>>
  BY <1>1 DEF Webhook, Fault, NoFault
<1>3. trail' = [trail EXCEPT ![m] = trail[m]]
  BY <1>1, <1>2
<1>4. CASE UNCHANGED job
  <2>1. \A x \in Messages : job'[x] = job[x]
    BY <1>4
  <2> QED
    BY <1>1, <1>2, <1>4 DEF IInv, TypeOK, Exclusive, MessagesOK, HandlersOK, ContextsOK
<1>5. ASSUME NEW device \in Devices, job[m].status = "absent",
             job' = [job EXCEPT ![m] = Queued(device)]
      PROVE  IInv'
  <2>1. /\ Queued(device) \in Job /\ Queued(device).status = "waiting"
        /\ Queued(device).attempts = 0 /\ Queued(device).stalls = 0
    <3>1. 0 \in 0..Attempts /\ 0 \in 0..MaxStalled + 1
      BY WaMessagesAssumption
    <3> QED
      BY <1>5, <3>1 DEF Queued, NoJob, Job
  <2>2. trail[m] = NoTrail
    BY <1>1, <1>5 DEF MessageOK
  <2>3. MessageOK(Queued(device), trail[m])
    BY <2>1, <2>2, WaMessagesAssumption DEF MessageOK, Runs, Open, NoTrail
  <2>4. \A g \in Handlers : handler[g].message # m
    BY <1>5 DEF IInv, HandlersOK, HandlerOK
  <2> QED
    BY <1>1, <1>2, <1>3, <1>5, <2>1, <2>3, <2>4, JobStep
<1>6. UNCHANGED job
      \/ \E device \in Devices :
           job[m].status = "absent" /\ job' = [job EXCEPT ![m] = Queued(device)]
  BY DEF Webhook, Add
<1> QED
  BY <1>4, <1>5, <1>6

\* BullMQ hands a waiting message to a free handler.
LEMMA TakeIInv ==
  ASSUME IInv, NEW h \in Handlers, NEW m \in Messages, Take(h, m)
  PROVE  IInv'
<1> DEFINE r == [Idle EXCEPT !.pc = "lookup", !.message = m]
           j == [job[m] EXCEPT !.status = "active"]
<1>1. /\ job \in [Messages -> Job] /\ job[m].status = "waiting" /\ job[m] \in Job
      /\ trail \in [Messages -> Trail] /\ MessageOK(job[m], trail[m])
      /\ handler \in [Handlers -> HandlerState] /\ handler[h].message = None
  BY DEF IInv, TypeOK, MessagesOK, Take, Exclusive
<1>2. /\ r \in HandlerState /\ r.pc = "lookup" /\ r.message = m
  BY IdleType DEF Idle, HandlerState
<1>3. /\ j \in Job /\ j.status = "active"
      /\ j.attempts = job[m].attempts /\ j.stalls = job[m].stalls
  BY <1>1 DEF Job
<1>4. /\ job' = [job EXCEPT ![m] = j] /\ handler' = [handler EXCEPT ![h] = r]
      /\ UNCHANGED <<ctx, sessions, trail, answered, deliveries, faults>>
  BY DEF Take
<1> HIDE DEF r, j
<1>5. trail[m] \in Trail /\ Runs(j) = Runs(job[m]) /\ Runs(j) \in Nat
  BY <1>1, <1>3 DEF Runs, Job
<1>6. trail[m].answers <= Runs(j) /\ trail[m].apologies <= Runs(j)
  BY <1>1, <1>5 DEF MessageOK, Open, Trail
<1>7. MessageOK(j, trail[m]) /\ HandlerOK(r, j, trail[m], answered)
  BY <1>1, <1>2, <1>3, <1>5, <1>6 DEF MessageOK, HandlerOK, Open, Trail
<1>8. \A g \in Handlers : handler[g].message # m
  BY <1>1 DEF IInv, HandlersOK, HandlerOK
<1>9. /\ handler' \in [Handlers -> HandlerState] /\ handler'[h] = r
      /\ \A g \in Handlers \ {h} : handler'[g] = handler[g]
  BY <1>1, <1>2, <1>4
<1>10. trail' = [trail EXCEPT ![m] = trail[m]]
  BY <1>1, <1>4
<1>11. /\ sessions' \subseteq Tenants /\ deliveries' \in [Messages -> Nat]
       /\ faults' \in Nat /\ answered' \subseteq Messages /\ answered \subseteq answered'
       /\ ctx' \in [Senders -> Seq(Entry)]
       /\ \A s \in Senders : ContextOK(answered', ctx'[s], s)
  BY <1>4 DEF IInv, TypeOK, ContextsOK
<1>12. \A g \in Handlers :
         \/ handler'[g] = handler[g] /\ handler[g].message # m
         \/ /\ handler'[g].message = m /\ handler'[g].pc # "idle"
            /\ HandlerOK(handler'[g], j, trail[m], answered')
  BY <1>2, <1>4, <1>7, <1>8, <1>9
<1>13. \A g, k \in Handlers :
         handler'[g].message = m /\ handler'[k].message = m => g = k
  BY <1>8, <1>9
<1> QED
  BY <1>3, <1>4, <1>5, <1>7, <1>9, <1>10, <1>11, <1>12, <1>13, MessageStep

\* The end of a delay and the stalled check: no handler has the message.
LEMMA PromoteIInv ==
  ASSUME IInv, NEW m \in Messages, Promote(m)
  PROVE  IInv'
<1> DEFINE j == [job[m] EXCEPT !.status = "waiting"]
<1>1. /\ job \in [Messages -> Job] /\ job[m].status = "delayed" /\ job[m] \in Job
      /\ trail \in [Messages -> Trail] /\ MessageOK(job[m], trail[m])
      /\ deliveries \in [Messages -> Nat] /\ faults \in Nat
  BY DEF IInv, TypeOK, MessagesOK, Promote
<1>2. /\ j \in Job /\ j.status = "waiting"
      /\ j.attempts = job[m].attempts /\ j.stalls = job[m].stalls
  BY <1>1 DEF Job
<1>3. /\ job' = [job EXCEPT ![m] = j] /\ trail' = [trail EXCEPT ![m] = trail[m]]
      /\ UNCHANGED <<handler, ctx, sessions, answered, deliveries, faults>>
  BY <1>1 DEF Promote
<1> HIDE DEF j
<1>4. MessageOK(j, trail[m])
  BY <1>1, <1>2 DEF MessageOK, Runs, Open
<1>5. \A g \in Handlers : handler[g].message # m
  BY <1>1 DEF IInv, HandlersOK, HandlerOK
<1> QED
  BY <1>1, <1>2, <1>3, <1>4, <1>5, JobStep

LEMMA StalledCheckIInv ==
  ASSUME IInv, NEW m \in Messages, StalledCheck(m)
  PROVE  IInv'
<1> DEFINE st == IF job[m].stalls >= MaxStalled THEN "failed" ELSE "waiting"
           j == [job[m] EXCEPT !.status = st, !.stalls = job[m].stalls + 1]
<1>1. /\ job \in [Messages -> Job] /\ job[m].status = "active" /\ job[m] \in Job
      /\ trail \in [Messages -> Trail] /\ MessageOK(job[m], trail[m])
      /\ deliveries \in [Messages -> Nat] /\ faults \in Nat
  BY DEF IInv, TypeOK, MessagesOK, StalledCheck
<1>2. job[m].stalls <= MaxStalled /\ job[m].attempts < Attempts
  BY <1>1 DEF MessageOK
<1>3. /\ j \in Job /\ j.status = st
      /\ j.attempts = job[m].attempts /\ j.stalls = job[m].stalls + 1
  <2>1. job[m].stalls + 1 \in 0..MaxStalled + 1
    BY <1>1, <1>2, WaMessagesAssumption DEF Job
  <2>2. st \in {"failed", "waiting"}
    OBVIOUS
  <2> HIDE DEF st
  <2> QED
    BY <1>1, <2>1, <2>2 DEF Job
<1>4. /\ job' = [job EXCEPT ![m] = j] /\ trail' = [trail EXCEPT ![m] = trail[m]]
      /\ UNCHANGED <<handler, ctx, sessions, answered, deliveries, faults>>
  BY <1>1 DEF StalledCheck
<1> HIDE DEF j
<1>5. /\ Runs(j) = Runs(job[m]) + 1 /\ Runs(job[m]) \in Nat /\ Open(job[m]) = 1
      /\ Open(j) = 0 /\ Runs(j) <= Attempts + MaxStalled
  BY <1>1, <1>2, <1>3, WaMessagesAssumption DEF Runs, Open, Job
<1>6. MessageOK(j, trail[m])
  BY <1>1, <1>2, <1>3, <1>5, WaMessagesAssumption DEF MessageOK, Job
<1>7. \A g \in Handlers : handler[g].message # m
  BY DEF StalledCheck, InHand
<1> QED
  BY <1>1, <1>3, <1>4, <1>6, <1>7, JobStep

\* BullMQ forgets a finished job, and the trail starts anew.
LEMMA ForgetIInv ==
  ASSUME IInv, NEW m \in Messages, Forget(m)
  PROVE  IInv'
<1>1. /\ job' = [job EXCEPT ![m] = NoJob] /\ trail' = [trail EXCEPT ![m] = NoTrail]
      /\ UNCHANGED <<handler, ctx, sessions, answered, deliveries, faults>>
      /\ deliveries \in [Messages -> Nat] /\ faults \in Nat
  BY DEF Forget, IInv, TypeOK
<1>2. \A g \in Handlers : handler[g].message # m
  BY DEF IInv, HandlersOK, HandlerOK, Forget
<1> QED
  BY <1>1, <1>2, IdleType, JobStep

-----------------------------------------------------------------------------
(* The handler's steps. *)

\* A step that moves a handler on and changes its message's trail to t.
LEMMA GotoIInv ==
  ASSUME IInv, NEW h \in Handlers, handler[h].pc # "idle",
         NEW pc \in {"send", "log", "read", "apology", "return", "throw"}, Goto(h, pc),
         NEW t \in Trail, trail' = [trail EXCEPT ![handler[h].message] = t],
         MessageOK(job[handler[h].message], t),
         pc = "send" => t.answers <= Runs(job[handler[h].message]),
         pc # "throw" => t.apologies <= Runs(job[handler[h].message]),
         pc = "log" => t.logged < t.answers,
         pc = "read" => t.answers > 0 /\ t.logged > 0,
         pc \in {"log", "read"} => handler[h].message \in answered',
         pc = "return" /\ ~t.skipped => t.answers > 0 /\ t.logged > 0,
         answered \subseteq answered', answered' \subseteq Messages,
         faults' \in Nat, UNCHANGED <<job, ctx, sessions, deliveries>>
  PROVE  IInv'
<1> DEFINE m == handler[h].message
           r == [handler[h] EXCEPT !.pc = pc]
<1>1. /\ m \in Messages /\ handler[h] \in HandlerState /\ job[m].status = "active"
  BY BusyHandler DEF HandlerOK
<1>2. r \in HandlerState /\ r.pc = pc /\ r.message = m
  BY <1>1 DEF HandlerState
<1>3. handler' = [handler EXCEPT ![h] = r]
  BY DEF Goto
<1> HIDE DEF r
<1>4. HandlerOK(r, job[m], t, answered')
  BY <1>1, <1>2 DEF HandlerOK
<1>5. ctx' \in [Senders -> Seq(Entry)]
  BY DEF IInv, TypeOK
<1>6. \A s \in Senders : ContextOK(answered', ctx'[s], s)
  BY AnsweredGrows DEF IInv, ContextsOK
<1> QED
  BY <1>2, <1>3, <1>4, <1>5, <1>6, HandlerKeeps

\* The trail with one count raised.
LEMMA TrailSteps ==
  ASSUME NEW t \in Trail
  PROVE  /\ [t EXCEPT !.answers = @ + 1] \in Trail
         /\ [t EXCEPT !.answers = @ + 1].answers = t.answers + 1
         /\ [t EXCEPT !.answers = @ + 1].apologies = t.apologies
         /\ [t EXCEPT !.answers = @ + 1].logged = t.logged
         /\ [t EXCEPT !.answers = @ + 1].skipped = t.skipped
         /\ [t EXCEPT !.apologies = @ + 1] \in Trail
         /\ [t EXCEPT !.apologies = @ + 1].answers = t.answers
         /\ [t EXCEPT !.apologies = @ + 1].apologies = t.apologies + 1
         /\ [t EXCEPT !.apologies = @ + 1].logged = t.logged
         /\ [t EXCEPT !.apologies = @ + 1].skipped = t.skipped
         /\ [t EXCEPT !.logged = @ + 1] \in Trail
         /\ [t EXCEPT !.logged = @ + 1].answers = t.answers
         /\ [t EXCEPT !.logged = @ + 1].apologies = t.apologies
         /\ [t EXCEPT !.logged = @ + 1].logged = t.logged + 1
         /\ [t EXCEPT !.logged = @ + 1].skipped = t.skipped
         /\ [t EXCEPT !.skipped = TRUE] \in Trail
         /\ [t EXCEPT !.skipped = TRUE].answers = t.answers
         /\ [t EXCEPT !.skipped = TRUE].apologies = t.apologies
         /\ [t EXCEPT !.skipped = TRUE].logged = t.logged
         /\ [t EXCEPT !.skipped = TRUE].skipped = TRUE
<1>0. t.answers + 1 \in Nat /\ t.apologies + 1 \in Nat /\ t.logged + 1 \in Nat
  BY DEF Trail
<1>1. /\ [t EXCEPT !.answers = t.answers + 1] \in Trail
      /\ [t EXCEPT !.answers = t.answers + 1].answers = t.answers + 1
      /\ [t EXCEPT !.answers = t.answers + 1].apologies = t.apologies
      /\ [t EXCEPT !.answers = t.answers + 1].logged = t.logged
      /\ [t EXCEPT !.answers = t.answers + 1].skipped = t.skipped
  BY <1>0 DEF Trail
<1>2. /\ [t EXCEPT !.apologies = t.apologies + 1] \in Trail
      /\ [t EXCEPT !.apologies = t.apologies + 1].answers = t.answers
      /\ [t EXCEPT !.apologies = t.apologies + 1].apologies = t.apologies + 1
      /\ [t EXCEPT !.apologies = t.apologies + 1].logged = t.logged
      /\ [t EXCEPT !.apologies = t.apologies + 1].skipped = t.skipped
  BY <1>0 DEF Trail
<1>3. /\ [t EXCEPT !.logged = t.logged + 1] \in Trail
      /\ [t EXCEPT !.logged = t.logged + 1].answers = t.answers
      /\ [t EXCEPT !.logged = t.logged + 1].apologies = t.apologies
      /\ [t EXCEPT !.logged = t.logged + 1].logged = t.logged + 1
      /\ [t EXCEPT !.logged = t.logged + 1].skipped = t.skipped
  BY <1>0 DEF Trail
<1>4. /\ [t EXCEPT !.skipped = TRUE] \in Trail
      /\ [t EXCEPT !.skipped = TRUE].answers = t.answers
      /\ [t EXCEPT !.skipped = TRUE].apologies = t.apologies
      /\ [t EXCEPT !.skipped = TRUE].logged = t.logged
      /\ [t EXCEPT !.skipped = TRUE].skipped = TRUE
  BY <1>0 DEF Trail
<1> QED
  BY <1>1, <1>2, <1>3, <1>4

\* What the steps below share about the message at hand.
LEMMA AtHand ==
  ASSUME IInv, NEW h \in Handlers, handler[h].pc # "idle"
  PROVE  LET m == handler[h].message IN
         /\ m \in Messages /\ trail[m] \in Trail /\ trail \in [Messages -> Trail]
         /\ MessageOK(job[m], trail[m])
         /\ HandlerOK(handler[h], job[m], trail[m], answered)
         /\ Runs(job[m]) \in Nat /\ Open(job[m]) = 1
         /\ Runs(job[m]) + 1 <= Attempts + MaxStalled
         /\ trail = [trail EXCEPT ![m] = trail[m]]
         /\ answered \subseteq Messages /\ faults \in Nat
<1> DEFINE m == handler[h].message
<1>1. /\ m \in Messages /\ trail[m] \in Trail /\ job[m] \in Job
      /\ MessageOK(job[m], trail[m])
      /\ HandlerOK(handler[h], job[m], trail[m], answered)
  BY BusyHandler
<1>2. job[m].status = "active"
  BY <1>1 DEF HandlerOK
<1>3. job[m].attempts < Attempts /\ job[m].stalls <= MaxStalled
  BY <1>1, <1>2 DEF MessageOK
<1>4. /\ Runs(job[m]) \in Nat /\ Open(job[m]) = 1
      /\ Runs(job[m]) + 1 <= Attempts + MaxStalled
  BY <1>1, <1>2, <1>3, WaMessagesAssumption DEF Runs, Open, Job
<1>5. /\ trail \in [Messages -> Trail] /\ answered \subseteq Messages /\ faults \in Nat
  BY DEF IInv, TypeOK
<1> QED
  BY <1>1, <1>4, <1>5

LEMMA FaultType == ASSUME faults \in Nat, Fault \/ NoFault PROVE faults' \in Nat
BY DEF Fault, NoFault

LEMMA LookupIInv ==
  ASSUME IInv, NEW h \in Handlers, Lookup(h)
  PROVE  IInv'
<1> DEFINE m == handler[h].message
           t == [trail[m] EXCEPT !.skipped = TRUE]
<1>1. /\ handler[h].pc = "lookup" /\ UNCHANGED <<job, ctx, sessions, answered, deliveries>>
      /\ Fault \/ NoFault
  BY DEF Lookup
<1>2. /\ m \in Messages /\ trail[m] \in Trail /\ MessageOK(job[m], trail[m])
      /\ trail[m].answers <= Runs(job[m]) /\ trail[m].apologies <= Runs(job[m])
      /\ trail = [trail EXCEPT ![m] = trail[m]]
      /\ answered' = answered /\ answered \subseteq Messages /\ faults' \in Nat
  BY <1>1, AtHand, FaultType DEF HandlerOK
<1>3. /\ t \in Trail /\ t.answers = trail[m].answers /\ t.skipped
      /\ t.apologies = trail[m].apologies /\ t.logged = trail[m].logged
  BY <1>2, TrailSteps
<1>4. \/ Goto(h, "send") /\ trail' = trail
      \/ Goto(h, "throw") /\ trail' = trail
      \/ Goto(h, "return") /\ trail' = [trail EXCEPT ![m] = t]
  BY DEF Lookup
<1> HIDE DEF t
<1>5. MessageOK(job[m], t)
  BY <1>2, <1>3, AtHand, <1>1 DEF MessageOK, HandlerOK
<1>6. CASE Goto(h, "send") /\ trail' = trail
  BY <1>1, <1>2, <1>6, GotoIInv
<1>7. CASE Goto(h, "throw") /\ trail' = trail
  BY <1>1, <1>2, <1>7, GotoIInv
<1>8. CASE Goto(h, "return") /\ trail' = [trail EXCEPT ![m] = t]
  BY <1>1, <1>2, <1>3, <1>5, <1>8, GotoIInv
<1> QED
  BY <1>4, <1>6, <1>7, <1>8

LEMMA SendIInv ==
  ASSUME IInv, NEW h \in Handlers, Send(h)
  PROVE  IInv'
<1> DEFINE m == handler[h].message
           t == [trail[m] EXCEPT !.answers = @ + 1]
<1>1. /\ handler[h].pc = "send" /\ UNCHANGED <<job, ctx, sessions, deliveries>>
      /\ Fault \/ NoFault
  BY DEF Send
<1>2. /\ m \in Messages /\ trail[m] \in Trail /\ MessageOK(job[m], trail[m])
      /\ job[m].status = "active" /\ Runs(job[m]) \in Nat /\ Open(job[m]) = 1
      /\ trail[m].answers <= Runs(job[m]) /\ trail[m].apologies <= Runs(job[m])
      /\ trail = [trail EXCEPT ![m] = trail[m]]
      /\ answered \subseteq Messages /\ faults' \in Nat
  BY <1>1, AtHand, FaultType DEF HandlerOK
<1>3. /\ t \in Trail /\ t.answers = trail[m].answers + 1 /\ t.skipped = trail[m].skipped
      /\ t.apologies = trail[m].apologies /\ t.logged = trail[m].logged
  BY <1>2, TrailSteps
<1>4. \/ /\ Goto(h, "log") \/ Goto(h, "apology")
         /\ trail' = [trail EXCEPT ![m] = t] /\ answered' = answered \cup {m}
      \/ Goto(h, "apology") /\ trail' = trail /\ answered' = answered
  BY DEF Send, Accepted
<1> HIDE DEF t
<1>5. trail[m].logged <= trail[m].answers /\ trail[m].logged \in Nat
      /\ trail[m].answers \in Nat /\ trail[m].apologies \in Nat
  BY <1>2 DEF MessageOK, Trail
<1>6. MessageOK(job[m], t) /\ t.logged < t.answers /\ t.apologies <= Runs(job[m])
  BY <1>2, <1>3, <1>5 DEF MessageOK
<1>7. ASSUME NEW pc \in {"log", "apology"}, Goto(h, pc),
             trail' = [trail EXCEPT ![m] = t], answered' = answered \cup {m}
      PROVE  IInv'
  BY <1>1, <1>2, <1>3, <1>6, <1>7, GotoIInv
<1>8. CASE Goto(h, "apology") /\ trail' = trail /\ answered' = answered
  BY <1>1, <1>2, <1>8, GotoIInv
<1> QED
  BY <1>4, <1>7, <1>8

LEMMA LogIInv ==
  ASSUME IInv, NEW h \in Handlers, Log(h)
  PROVE  IInv'
<1> DEFINE m == handler[h].message
           t == [trail[m] EXCEPT !.logged = @ + 1]
<1>1. /\ handler[h].pc = "log" /\ UNCHANGED <<job, ctx, sessions, answered, deliveries>>
      /\ Fault \/ NoFault
  BY DEF Log
<1>2. /\ m \in Messages /\ trail[m] \in Trail /\ MessageOK(job[m], trail[m])
      /\ job[m].status = "active" /\ Runs(job[m]) \in Nat
      /\ trail[m].logged < trail[m].answers /\ trail[m].apologies <= Runs(job[m])
      /\ trail = [trail EXCEPT ![m] = trail[m]] /\ m \in answered
      /\ answered' = answered /\ answered \subseteq Messages /\ faults' \in Nat
  BY <1>1, AtHand, FaultType DEF HandlerOK
<1>3. /\ t \in Trail /\ t.answers = trail[m].answers /\ t.skipped = trail[m].skipped
      /\ t.apologies = trail[m].apologies /\ t.logged = trail[m].logged + 1
  BY <1>2, TrailSteps
<1>4. \/ Goto(h, "read") /\ trail' = [trail EXCEPT ![m] = t]
      \/ Goto(h, "apology") /\ trail' = [trail EXCEPT ![m] = t]
      \/ Goto(h, "apology") /\ trail' = trail
  BY DEF Log
<1> HIDE DEF t
<1>5. trail[m].logged \in Nat /\ trail[m].answers \in Nat
  BY <1>2 DEF Trail
<1>6. MessageOK(job[m], t) /\ t.answers > 0 /\ t.logged > 0 /\ t.apologies <= Runs(job[m])
  BY <1>2, <1>3, <1>5 DEF MessageOK
<1>7. ASSUME NEW pc \in {"read", "apology"}, Goto(h, pc),
             trail' = [trail EXCEPT ![m] = t]
      PROVE  IInv'
  BY <1>1, <1>2, <1>3, <1>6, <1>7, GotoIInv
<1>8. CASE Goto(h, "apology") /\ trail' = trail
  BY <1>1, <1>2, <1>8, GotoIInv
<1> QED
  BY <1>4, <1>7, <1>8

LEMMA ApologyIInv ==
  ASSUME IInv, NEW h \in Handlers, Apology(h)
  PROVE  IInv'
<1> DEFINE m == handler[h].message
           t == [trail[m] EXCEPT !.apologies = @ + 1]
<1>1. /\ handler[h].pc = "apology"
      /\ UNCHANGED <<job, ctx, sessions, answered, deliveries>>
      /\ Fault \/ NoFault
  BY DEF Apology
<1>2. /\ m \in Messages /\ trail[m] \in Trail /\ MessageOK(job[m], trail[m])
      /\ job[m].status = "active" /\ Runs(job[m]) \in Nat /\ Open(job[m]) = 1
      /\ trail[m].apologies <= Runs(job[m])
      /\ trail = [trail EXCEPT ![m] = trail[m]]
      /\ answered' = answered /\ answered \subseteq Messages /\ faults' \in Nat
  BY <1>1, AtHand, FaultType DEF HandlerOK
<1>3. /\ t \in Trail /\ t.answers = trail[m].answers /\ t.skipped = trail[m].skipped
      /\ t.apologies = trail[m].apologies + 1 /\ t.logged = trail[m].logged
  BY <1>2, TrailSteps
<1>4. Goto(h, "throw") /\ (trail' = [trail EXCEPT ![m] = t] \/ trail' = trail)
  BY DEF Apology
<1> HIDE DEF t
<1>5. trail[m].apologies \in Nat
  BY <1>2 DEF Trail
<1>6. MessageOK(job[m], t)
  BY <1>2, <1>3, <1>5 DEF MessageOK
<1>7. CASE trail' = [trail EXCEPT ![m] = t]
  BY <1>1, <1>2, <1>3, <1>4, <1>6, <1>7, GotoIInv
<1>8. CASE trail' = trail
  BY <1>1, <1>2, <1>4, <1>8, GotoIInv
<1> QED
  BY <1>4, <1>7, <1>8

\* The context that addMessage reads is one of its sender, or none.
LEMMA AddReadIInv ==
  ASSUME IInv, NEW h \in Handlers, AddRead(h)
  PROVE  IInv'
<1> DEFINE m == handler[h].message
<1>1. /\ handler[h].pc = "read"
      /\ UNCHANGED <<job, ctx, sessions, trail, answered, deliveries>>
      /\ Fault \/ NoFault
  BY DEF AddRead
<1>2. /\ m \in Messages /\ trail[m] \in Trail /\ MessageOK(job[m], trail[m])
      /\ HandlerOK(handler[h], job[m], trail[m], answered)
      /\ handler[h] \in HandlerState
      /\ trail = [trail EXCEPT ![m] = trail[m]]
      /\ answered' = answered /\ answered \subseteq Messages /\ faults' \in Nat
  BY <1>1, AtHand, BusyHandler, FaultType
<1>3. PICK c \in {ctx[SenderOf[m]], <<>>} :
        handler' = [handler EXCEPT ![h].pc = "write", ![h].existing = c]
  BY DEF AddRead
<1>4. c \in Seq(Entry) /\ ContextOK(answered, c, SenderOf[m])
  <2>1. SenderOf[m] \in Senders
    BY <1>2, WaMessagesAssumption
  <2> QED
    BY <2>1, EmptyContext DEF IInv, TypeOK, ContextsOK
<1> DEFINE r == [handler[h] EXCEPT !.pc = "write", !.existing = c]
<1>5. /\ r \in HandlerState /\ r.pc = "write" /\ r.message = m /\ r.existing = c
  BY <1>2, <1>4 DEF HandlerState
<1>6. handler' = [handler EXCEPT ![h] = r]
  BY <1>2, <1>3
<1> HIDE DEF r, m
<1>7. HandlerOK(r, job[m], trail[m], answered')
  BY <1>1, <1>2, <1>4, <1>5 DEF HandlerOK, m
<1>8. /\ ctx' \in [Senders -> Seq(Entry)]
      /\ \A s \in Senders : ContextOK(answered', ctx'[s], s)
      /\ trail' = [trail EXCEPT ![m] = trail[m]]
  BY <1>1, <1>2 DEF IInv, TypeOK, ContextsOK
<1> QED
  BY <1>1, <1>2, <1>5, <1>6, <1>7, <1>8, HandlerKeeps DEF m

\* The context that addMessage writes stays within its bound and to its sender,
\* although another handler may have written since it was read.
LEMMA AddWriteIInv ==
  ASSUME IInv, NEW h \in Handlers, AddWrite(h)
  PROVE  IInv'
<1> DEFINE old == handler[h]
           m == old.message
           s == SenderOf[m]
           e == [role |-> old.role, message |-> m]
           new == Trimmed(Append(old.existing, e))
           r == IF old.role = "user"
                THEN [old EXCEPT !.pc = "read", !.role = "assistant", !.existing = <<>>]
                ELSE [old EXCEPT !.pc = "return", !.existing = <<>>]
<1>1. /\ old.pc = "write" /\ UNCHANGED <<job, sessions, trail, answered, deliveries>>
      /\ Fault \/ NoFault
      /\ ctx' = [ctx EXCEPT ![s] = new] \/ ctx' = ctx
      /\ handler' = [handler EXCEPT ![h] = r]
  BY DEF AddWrite
<1>2. /\ m \in Messages /\ trail[m] \in Trail /\ MessageOK(job[m], trail[m])
      /\ HandlerOK(old, job[m], trail[m], answered) /\ old \in HandlerState
      /\ trail = [trail EXCEPT ![m] = trail[m]]
      /\ answered' = answered /\ answered \subseteq Messages /\ faults' \in Nat
  BY <1>1, AtHand, BusyHandler, FaultType
<1>3. /\ s \in Senders /\ e \in Entry /\ e.message = m /\ m \in answered
      /\ old.existing \in Seq(Entry) /\ ContextOK(answered, old.existing, s)
  BY <1>1, <1>2, WaMessagesAssumption DEF HandlerOK, HandlerState, Entry
<1>4. /\ r \in HandlerState /\ r.pc \in {"read", "return"} /\ r.message = m
  <2>1. <<>> \in Seq(Entry)
    OBVIOUS
  <2> QED
    BY <1>2, <2>1 DEF HandlerState
<1> HIDE DEF r, e, old
<1>5. new \in Seq(Entry) /\ ContextOK(answered, new, s)
  BY <1>3, AddedContext
<1> HIDE DEF new, m
<1>6. HandlerOK(r, job[m], trail[m], answered')
  BY <1>1, <1>2, <1>3, <1>4 DEF HandlerOK
<1> HIDE DEF s
<1>7. /\ ctx \in [Senders -> Seq(Entry)]
      /\ \A x \in Senders : ContextOK(answered, ctx[x], x)
  BY DEF IInv, TypeOK, ContextsOK
<1>8. /\ ctx' \in [Senders -> Seq(Entry)]
      /\ \A x \in Senders : ContextOK(answered, ctx'[x], x)
  BY <1>1, <1>3, <1>5, <1>7
<1>9. trail' = [trail EXCEPT ![m] = trail[m]]
  BY <1>1, <1>2
<1> QED
  BY <1>1, <1>2, <1>4, <1>6, <1>8, <1>9, HandlerKeeps DEF m, old

\* The ends of a run.
LEMMA CompleteIInv ==
  ASSUME IInv, NEW h \in Handlers, Complete(h)
  PROVE  IInv'
<1> DEFINE m == handler[h].message
           j == [job[m] EXCEPT !.status = "completed"]
<1>1. /\ handler[h].pc = "return"
      /\ job' = [job EXCEPT ![m] = j] /\ handler' = [handler EXCEPT ![h] = Idle]
      /\ UNCHANGED <<ctx, sessions, trail, answered, deliveries, faults>>
  BY DEF Complete
<1>2. /\ job[m] \in Job /\ job[m].status = "active" /\ MessageOK(job[m], trail[m])
      /\ ~trail[m].skipped => trail[m].answers > 0 /\ trail[m].logged > 0
  BY <1>1, BusyHandler DEF HandlerOK
<1>3. /\ j \in Job /\ j.status = "completed"
      /\ j.attempts = job[m].attempts /\ j.stalls = job[m].stalls
  BY <1>2 DEF Job
<1> HIDE DEF j
<1>4. MessageOK(j, trail[m])
  BY <1>2, <1>3 DEF MessageOK, Runs, Open
<1> QED
  BY <1>1, <1>3, <1>4, RunEnds

LEMMA RetryIInv ==
  ASSUME IInv, NEW h \in Handlers, Retry(h)
  PROVE  IInv'
<1> DEFINE m == handler[h].message
           st == IF job[m].attempts + 1 < Attempts THEN "delayed" ELSE "failed"
           j == [job[m] EXCEPT !.status = st, !.attempts = job[m].attempts + 1]
<1>1. /\ handler[h].pc = "throw"
      /\ job' = [job EXCEPT ![m] = j] /\ handler' = [handler EXCEPT ![h] = Idle]
      /\ UNCHANGED <<ctx, sessions, trail, answered, deliveries, faults>>
  BY DEF Retry, AfterThrow
<1>2. /\ job[m] \in Job /\ job[m].status = "active" /\ MessageOK(job[m], trail[m])
      /\ Runs(job[m]) \in Nat /\ Open(job[m]) = 1
      /\ Runs(job[m]) + 1 <= Attempts + MaxStalled
  BY <1>1, BusyHandler, AtHand DEF HandlerOK
<1>3. job[m].attempts < Attempts /\ job[m].stalls <= MaxStalled
      /\ job[m].attempts \in Nat /\ job[m].stalls \in Nat
  BY <1>2 DEF MessageOK, Job
<1>4. /\ j \in Job /\ j.status = st
      /\ j.attempts = job[m].attempts + 1 /\ j.stalls = job[m].stalls
  <2>1. job[m].attempts + 1 \in 0..Attempts
    BY <1>3, WaMessagesAssumption
  <2>2. st \in {"delayed", "failed"}
    OBVIOUS
  <2> HIDE DEF st
  <2> QED
    BY <1>2, <2>1, <2>2 DEF Job
<1> HIDE DEF j
<1>5. Runs(j) = Runs(job[m]) + 1 /\ Open(j) = 0
  BY <1>3, <1>4 DEF Runs, Open
<1>6. MessageOK(j, trail[m])
  BY <1>2, <1>3, <1>4, <1>5 DEF MessageOK
<1> QED
  BY <1>1, <1>4, <1>6, RunEnds

-----------------------------------------------------------------------------
(* Steps of the surroundings. *)

LEMMA WorkerCrashIInv ==
  ASSUME IInv, WorkerCrash
  PROVE  IInv'
<1>1. /\ handler' = [h \in Handlers |-> Idle] /\ faults' \in Nat
      /\ UNCHANGED <<job, ctx, sessions, trail, answered, deliveries>>
  BY DEF WorkerCrash, Fault, IInv, TypeOK
<1>2. handler' \in [Handlers -> HandlerState]
  BY <1>1, IdleType
<1>3. \A h \in Handlers : handler'[h].pc = "idle" /\ handler'[h].message = None
  BY <1>1, IdleType
<1>4. TypeOK' /\ MessagesOK' /\ ContextsOK'
  BY <1>1, <1>2 DEF IInv, TypeOK, MessagesOK, ContextsOK
<1>5. Exclusive' /\ HandlersOK'
  BY <1>3, WaMessagesAssumption DEF Exclusive, HandlersOK
<1> QED
  BY <1>4, <1>5 DEF IInv

LEMMA SurroundingsIInv ==
  ASSUME IInv, (\E s \in Senders : ContextExpires(s))
               \/ (\E t \in Tenants : SessionCreated(t))
               \/ UNCHANGED vars
  PROVE  IInv'
<1>1. UNCHANGED <<job, handler, trail, answered, deliveries, faults>>
  BY DEF ContextExpires, SessionCreated, vars
<1>2. sessions' \subseteq Tenants
  BY DEF SessionCreated, ContextExpires, vars, IInv, TypeOK
<1>3. ctx' \in [Senders -> Seq(Entry)] /\ ContextsOK'
  <2>1. CASE UNCHANGED ctx
    BY <1>1, <2>1 DEF IInv, TypeOK, ContextsOK
  <2>2. ASSUME NEW s \in Senders, ctx' = [ctx EXCEPT ![s] = <<>>]
        PROVE  ctx' \in [Senders -> Seq(Entry)] /\ ContextsOK'
    BY <1>1, <2>2, EmptyContext DEF IInv, TypeOK, ContextsOK
  <2> QED
    BY <2>1, <2>2 DEF ContextExpires, SessionCreated, vars
<1>4. TypeOK'
  BY <1>1, <1>2, <1>3 DEF IInv, TypeOK
<1>5. Exclusive' /\ MessagesOK' /\ HandlersOK'
  BY <1>1 DEF IInv, Exclusive, MessagesOK, HandlersOK
<1> QED
  BY <1>3, <1>4, <1>5 DEF IInv

LEMMA InitIInv == Init => IInv
<1> SUFFICES ASSUME Init PROVE IInv
  OBVIOUS
<1>1. TypeOK
  BY IdleType, EmptyContext DEF Init, TypeOK
<1>2. Exclusive
  BY IdleType DEF Init, Exclusive
<1>3. MessagesOK
  BY IdleType DEF Init, MessagesOK
<1>4. HandlersOK
  BY IdleType, WaMessagesAssumption DEF Init, HandlersOK
<1>5. ContextsOK
  BY EmptyContext DEF Init, ContextsOK
<1> QED
  BY <1>1, <1>2, <1>3, <1>4, <1>5 DEF IInv

-----------------------------------------------------------------------------
(* The theorems. *)

\* Every reachable state satisfies the inductive invariant.
THEOREM MessagesInvariance == Spec => []IInv
<1>1. Init => IInv
  BY InitIInv
<1>2. IInv /\ [Next]_vars => IInv'
  <2> SUFFICES ASSUME IInv, [Next]_vars PROVE IInv'
    OBVIOUS
  <2>1. ASSUME NEW m \in Messages,
               Webhook(m) \/ Promote(m) \/ StalledCheck(m) \/ Forget(m)
        PROVE  IInv'
    BY <2>1, WebhookIInv, PromoteIInv, StalledCheckIInv, ForgetIInv
  <2>2. ASSUME NEW h \in Handlers, NEW m \in Messages, Take(h, m) PROVE IInv'
    BY <2>2, TakeIInv
  <2>3. ASSUME NEW h \in Handlers, HandlerStep(h) PROVE IInv'
    BY <2>3, LookupIInv, SendIInv, LogIInv, AddReadIInv, AddWriteIInv, ApologyIInv,
       CompleteIInv, RetryIInv DEF HandlerStep
  <2>4. CASE WorkerCrash
    BY <2>4, WorkerCrashIInv
  <2>5. CASE (\E s \in Senders : ContextExpires(s))
             \/ (\E t \in Tenants : SessionCreated(t))
             \/ UNCHANGED vars
    BY <2>5, SurroundingsIInv
  <2> QED
    BY <2>1, <2>2, <2>3, <2>4, <2>5 DEF Next
<1> QED
  BY <1>1, <1>2, PTL DEF Spec

\* Type correctness: a job's attempts and stalls stay within their bounds and a
\* context is a list of messages (message-queue.ts, conversation-context.ts).
THEOREM MessagesTypeCorrect == Spec => []TypeOK
<1>1. IInv => TypeOK
  BY DEF IInv
<1> QED
  BY <1>1, MessagesInvariance, PTL

\* A message that BullMQ counts as completed was answered and logged, or its tenant
\* had no session (message-worker.ts: every failure is thrown again).
THEOREM CompletionIsAnswer == Spec => []CompletedIsAnswered
<1>1. IInv => CompletedIsAnswered
  BY DEF IInv, MessagesOK, MessageOK, CompletedIsAnswered
<1> QED
  BY <1>1, MessagesInvariance, PTL

\* At most one answer and one apology for each attempt and redelivery, however
\* often the event is repeated (jobId = messageId in the webhook).
THEOREM RepliesBound == Spec => []RepliesAreBounded
<1>1. IInv => RepliesAreBounded
  <2> SUFFICES ASSUME IInv, NEW m \in Messages
               PROVE  /\ trail[m].answers <= Attempts + MaxStalled
                      /\ trail[m].apologies <= Attempts + MaxStalled
    BY DEF RepliesAreBounded
  <2>1. /\ MessageOK(job[m], trail[m]) /\ job[m] \in Job /\ trail[m] \in Trail
    BY DEF IInv, MessagesOK, TypeOK
  <2>2. Runs(job[m]) + Open(job[m]) <= Attempts + MaxStalled
    <3>1. CASE job[m].status \in {"active", "completed"}
      BY <2>1, <3>1, WaMessagesAssumption DEF MessageOK, Runs, Open, Job
    <3>2. CASE job[m].status \notin {"active", "completed"}
      BY <2>1, <3>2, WaMessagesAssumption DEF MessageOK, Runs, Open, Job
    <3> QED
      BY <3>1, <3>2
  <2>3. Runs(job[m]) \in Nat /\ Open(job[m]) \in Nat
    BY <2>1 DEF Runs, Open, Job
  <2> QED
    BY <2>1, <2>2, <2>3, WaMessagesAssumption DEF MessageOK, Trail
<1> QED
  BY <1>1, MessagesInvariance, PTL

\* A context stays within MAX_MESSAGES and to its sender, and everything in it was
\* answered, however many handlers write it (conversation-context.ts).
THEOREM ContextTruth == Spec => []ContextIsTruthful
<1>1. IInv => ContextIsTruthful
  BY DEF IInv, ContextsOK, ContextOK, ContextIsTruthful
<1> QED
  BY <1>1, MessagesInvariance, PTL

-----------------------------------------------------------------------------
(* WaMessages implements ReplyService. *)

\* The phase of m when the jobs are J and the handlers H.
IsAt(H, m, pcs) == \E h \in Handlers : H[h].message = m /\ H[h].pc \in pcs

PhaseOf(J, H, m) ==
  CASE J[m].status = "absent"                  -> "unknown"
    [] J[m].status \in {"waiting", "delayed"}  -> "queued"
    [] J[m].status = "completed"               -> "done"
    [] J[m].status = "failed"                  -> "failed"
    [] J[m].status = "active" ->
         CASE IsAt(H, m, {"lookup", "send"})          -> "open"
           [] IsAt(H, m, {"log"})                     -> "answered"
           [] IsAt(H, m, {"read", "write", "return"}) -> "settled"
           [] IsAt(H, m, {"apology"})                 -> "sorry"
           [] IsAt(H, m, {"throw"})                   -> "ended"
           [] OTHER                           -> "lost"

\* What it is for a message that a handler has at pc, and for one that none has.
PhaseAt(pc) ==
  CASE pc \in {"lookup", "send"}          -> "open"
    [] pc = "log"                         -> "answered"
    [] pc \in {"read", "write", "return"} -> "settled"
    [] pc = "apology"                     -> "sorry"
    [] pc = "throw"                       -> "ended"

PhaseFree(status) ==
  CASE status = "absent"                  -> "unknown"
    [] status \in {"waiting", "delayed"}  -> "queued"
    [] status = "completed"               -> "done"
    [] status = "failed"                  -> "failed"
    [] status = "active"                  -> "lost"

Has(H, h, m) == H[h].message = m

Statuses == {"absent", "waiting", "active", "delayed", "completed", "failed"}
BusyAt == {"lookup", "send", "log", "read", "write", "apology", "return", "throw"}

LEMMA PhasesAre ==
  /\ Phases = [m \in Messages |-> PhaseOf(job, handler, m)]
  /\ Phases' = [m \in Messages |-> PhaseOf(job', handler', m)]
BY DEF Phases, Phase, At, PhaseOf, IsAt

LEMMA HeldPhase ==
  ASSUME NEW J, NEW H, NEW m, NEW h \in Handlers, J[m].status = "active",
         Has(H, h, m), \A g \in Handlers : Has(H, g, m) => g = h,
         H[h].pc \in BusyAt
  PROVE  PhaseOf(J, H, m) = PhaseAt(H[h].pc)
<1>1. \A pcs : IsAt(H, m, pcs) <=> H[h].pc \in pcs
  BY DEF Has, IsAt
<1> DEFINE pc == H[h].pc
<1>2. /\ IsAt(H, m, {"lookup", "send"}) <=> pc \in {"lookup", "send"}
      /\ IsAt(H, m, {"log"}) <=> pc = "log"
      /\ IsAt(H, m, {"read", "write", "return"}) <=> pc \in {"read", "write", "return"}
      /\ IsAt(H, m, {"apology"}) <=> pc = "apology"
      /\ IsAt(H, m, {"throw"}) <=> pc = "throw"
  BY <1>1
<1> HIDE DEF pc
<1> QED
  BY <1>2 DEF PhaseOf, PhaseAt, BusyAt, pc

LEMMA FreePhase ==
  ASSUME NEW J, NEW H, NEW m, J[m].status \in Statuses,
         J[m].status = "active" => \A g \in Handlers : ~Has(H, g, m)
  PROVE  PhaseOf(J, H, m) = PhaseFree(J[m].status)
<1>1. CASE J[m].status = "active"
  <2>1. \A pcs : ~IsAt(H, m, pcs)
    BY <1>1 DEF Has, IsAt
  <2> QED
    BY <1>1, <2>1 DEF PhaseOf, PhaseFree
<1>2. CASE J[m].status # "active"
  BY <1>2 DEF PhaseOf, PhaseFree, Statuses
<1> QED
  BY <1>1, <1>2

\* A message whose job and whose handlers a step leaves alone keeps its phase.
LEMMA SamePhase ==
  ASSUME NEW J, NEW H, NEW K, NEW G, NEW m, K[m] = J[m],
         \A g \in Handlers : Has(H, g, m) \/ Has(G, g, m) => G[g] = H[g]
  PROVE  PhaseOf(K, G, m) = PhaseOf(J, H, m)
<1>1. \A pcs : IsAt(H, m, pcs) <=> IsAt(G, m, pcs)
  BY DEF Has, IsAt
<1> QED
  BY <1>1 DEF PhaseOf

\* A step that concerns one message.
LEMMA OnePhase ==
  ASSUME NEW m \in Messages,
         \A x \in Messages \ {m} : job'[x] = job[x],
         \A x \in Messages \ {m}, g \in Handlers :
            Has(handler, g, x) \/ Has(handler', g, x) => handler'[g] = handler[g]
  PROVE  /\ Phases' = [Phases EXCEPT ![m] = PhaseOf(job', handler', m)]
         /\ Phases[m] = PhaseOf(job, handler, m)
         /\ RunsEnded' = [RunsEnded EXCEPT ![m] = job'[m].attempts + job'[m].stalls]
         /\ RunsEnded[m] = job[m].attempts + job[m].stalls
<1>1. \A x \in Messages \ {m} : PhaseOf(job', handler', x) = PhaseOf(job, handler, x)
  BY SamePhase
<1>2. Phases' = [Phases EXCEPT ![m] = PhaseOf(job', handler', m)]
  BY <1>1, PhasesAre
<1>3. Phases[m] = PhaseOf(job, handler, m)
  BY PhasesAre
<1> QED
  BY <1>2, <1>3 DEF RunsEnded

\* Where a busy handler's message is.
LEMMA BusyPhase ==
  ASSUME IInv, NEW h \in Handlers, handler[h].pc # "idle"
  PROVE  Phases[handler[h].message] = PhaseAt(handler[h].pc)
<1> DEFINE m == handler[h].message
<1>1. /\ m \in Messages /\ handler[h].pc \in BusyAt /\ job[m].status = "active"
      /\ \A g \in Handlers \ {h} : handler[g].message # m
  BY BusyHandler DEF HandlerOK, HandlerState, BusyAt
<1>2. PhaseOf(job, handler, m) = PhaseAt(handler[h].pc)
  <2> HIDE DEF m
  <2>1. Has(handler, h, m) /\ \A g \in Handlers : Has(handler, g, m) => g = h
    BY <1>1 DEF Has, m
  <2> QED
    BY <1>1, <2>1, HeldPhase
<1> QED
  BY <1>1, <1>2, PhasesAre

\* A busy handler goes on with its message ...
LEMMA GoesOn ==
  ASSUME IInv, NEW h \in Handlers, handler[h].pc # "idle", job' = job,
         NEW r, handler' = [handler EXCEPT ![h] = r],
         r.message = handler[h].message, r.pc \in BusyAt
  PROVE  LET m == handler[h].message IN
         /\ m \in Messages /\ Phases[m] = PhaseAt(handler[h].pc)
         /\ Phases' = [Phases EXCEPT ![m] = PhaseAt(r.pc)]
         /\ RunsEnded' = RunsEnded
<1> DEFINE m == handler[h].message
<1>1. /\ m \in Messages /\ job[m].status = "active"
      /\ \A g \in Handlers \ {h} : handler[g].message # m
      /\ handler'[h] = r /\ \A g \in Handlers \ {h} : handler'[g] = handler[g]
  BY BusyHandler DEF HandlerOK, IInv, TypeOK
<1>2. /\ Has(handler', h, m) /\ handler'[h].pc = r.pc
      /\ \A g \in Handlers : Has(handler', g, m) => g = h
      /\ \A x \in Messages \ {m}, g \in Handlers :
            Has(handler, g, x) \/ Has(handler', g, x) => handler'[g] = handler[g]
  BY <1>1 DEF Has
<1> HIDE DEF m
<1>3. PhaseOf(job', handler', m) = PhaseAt(r.pc)
  <2>1. job'[m].status = "active" /\ handler'[h].pc \in BusyAt
    BY <1>1, <1>2
  <2>2. PhaseOf(job', handler', m) = PhaseAt(handler'[h].pc)
    BY ONLY <1>2, <2>1, HeldPhase
  <2> QED
    BY <1>2, <2>2
<1>4. Phases' = [Phases EXCEPT ![m] = PhaseAt(r.pc)]
  BY <1>1, <1>2, <1>3, OnePhase
<1>5. RunsEnded' = RunsEnded
  BY DEF RunsEnded
<1> QED
  BY <1>1, <1>4, <1>5, BusyPhase DEF m

\* ... or gives it back.
LEMMA GivesBack ==
  ASSUME IInv, NEW h \in Handlers, handler[h].pc # "idle",
         NEW j \in Job, j.status # "active", job' = [job EXCEPT ![handler[h].message] = j],
         handler' = [handler EXCEPT ![h] = Idle]
  PROVE  LET m == handler[h].message IN
         /\ m \in Messages /\ Phases[m] = PhaseAt(handler[h].pc)
         /\ Phases' = [Phases EXCEPT ![m] = PhaseFree(j.status)]
         /\ RunsEnded' = [RunsEnded EXCEPT ![m] = j.attempts + j.stalls]
         /\ RunsEnded[m] = job[m].attempts + job[m].stalls
<1> DEFINE m == handler[h].message
<1>1. /\ m \in Messages /\ \A g \in Handlers \ {h} : handler[g].message # m
      /\ handler'[h] = Idle /\ \A g \in Handlers \ {h} : handler'[g] = handler[g]
      /\ job'[m] = j /\ \A x \in Messages \ {m} : job'[x] = job[x]
  BY BusyHandler DEF IInv, TypeOK
<1>2. Idle.message \notin Messages
  BY IdleType, WaMessagesAssumption
<1>3. \A x \in Messages \ {m}, g \in Handlers :
            Has(handler, g, x) \/ Has(handler', g, x) => handler'[g] = handler[g]
  BY <1>1, <1>2 DEF Has
<1> HIDE DEF m
<1>4. PhaseOf(job', handler', m) = PhaseFree(j.status)
  <2>1. job'[m].status \in Statuses /\ job'[m].status # "active"
    BY <1>1 DEF Job, Statuses
  <2>2. PhaseOf(job', handler', m) = PhaseFree(job'[m].status)
    BY ONLY <2>1, FreePhase
  <2> QED
    BY <1>1, <2>2
<1>5. /\ Phases' = [Phases EXCEPT ![m] = PhaseFree(j.status)]
      /\ RunsEnded' = [RunsEnded EXCEPT ![m] = j.attempts + j.stalls]
      /\ RunsEnded[m] = job[m].attempts + job[m].stalls
  BY <1>1, <1>3, <1>4, OnePhase
<1>6. Phases[m] = PhaseAt(handler[h].pc)
  BY BusyPhase DEF m
<1> QED
  BY <1>1, <1>5, <1>6 DEF m

\* BullMQ moves a message that no handler has.
LEMMA FreeMoves ==
  ASSUME IInv, NEW m \in Messages, job[m].status = "active" => ~InHand(m),
         NEW j \in Job, j.status # "active", job' = [job EXCEPT ![m] = j],
         handler' = handler
  PROVE  /\ Phases[m] = PhaseFree(job[m].status)
         /\ Phases' = [Phases EXCEPT ![m] = PhaseFree(j.status)]
         /\ RunsEnded' = [RunsEnded EXCEPT ![m] = j.attempts + j.stalls]
         /\ RunsEnded[m] = job[m].attempts + job[m].stalls
<1>1. /\ job'[m] = j /\ \A x \in Messages \ {m} : job'[x] = job[x]
      /\ job[m] \in Job
  BY DEF IInv, TypeOK
<1>2. PhaseOf(job', handler', m) = PhaseFree(j.status)
  <2>1. job'[m].status \in Statuses /\ job'[m].status # "active"
    BY <1>1 DEF Job, Statuses
  <2>2. PhaseOf(job', handler', m) = PhaseFree(job'[m].status)
    BY ONLY <2>1, FreePhase
  <2> QED
    BY <1>1, <2>2
<1>3. PhaseOf(job, handler, m) = PhaseFree(job[m].status)
  BY <1>1, FreePhase DEF Job, Statuses, InHand, Has
<1> QED
  BY <1>1, <1>2, <1>3, OnePhase

\* BullMQ starts to count anew when it has forgotten an id.
ForgottenIsNew == \A m \in Messages : job[m].status = "absent" => job[m] = NoJob

LEMMA ForgottenStep ==
  ASSUME IInv, ForgottenIsNew, [Next]_vars
  PROVE  ForgottenIsNew'
<1>1. job \in [Messages -> Job]
  BY DEF IInv, TypeOK
<1>2. ASSUME NEW m \in Messages, NEW j, job' = [job EXCEPT ![m] = j],
             j.status = "absent" => j = NoJob
      PROVE  ForgottenIsNew'
  BY <1>1, <1>2 DEF ForgottenIsNew
<1>3. CASE job' = job
  BY <1>3 DEF ForgottenIsNew
<1>4. \A j \in Job, s \in Statuses : [j EXCEPT !.status = s].status = s
  BY DEF Job
<1>5. ASSUME NEW m \in Messages, Webhook(m) PROVE ForgottenIsNew'
  <2>1. \A d \in Devices : Queued(d).status = "waiting"
    BY DEF Queued, NoJob
  <2> QED
    BY <1>2, <1>3, <1>5, <2>1 DEF Webhook, Add
<1>6. ASSUME NEW m \in Messages, NEW h \in Handlers, Take(h, m) PROVE ForgottenIsNew'
  <2>1. [job[m] EXCEPT !.status = "active"].status = "active"
    BY <1>1, <1>4 DEF Statuses
  <2>2. job' = [job EXCEPT ![m] = [job[m] EXCEPT !.status = "active"]]
    BY <1>6 DEF Take
  <2> QED
    BY <1>2, <2>1, <2>2
<1>7. ASSUME NEW m \in Messages, Promote(m) PROVE ForgottenIsNew'
  <2>1. [job[m] EXCEPT !.status = "waiting"].status = "waiting"
    BY <1>1, <1>4 DEF Statuses
  <2>2. job' = [job EXCEPT ![m] = [job[m] EXCEPT !.status = "waiting"]]
    BY <1>7 DEF Promote
  <2> QED
    BY <1>2, <2>1, <2>2
<1>8. ASSUME NEW m \in Messages, StalledCheck(m) PROVE ForgottenIsNew'
  <2> DEFINE s == IF job[m].stalls >= MaxStalled THEN "failed" ELSE "waiting"
             j == [job[m] EXCEPT !.status = s, !.stalls = @ + 1]
  <2>1. j.status = s /\ s # "absent"
    BY <1>1 DEF Job
  <2>2. job' = [job EXCEPT ![m] = j]
    BY <1>1, <1>8 DEF StalledCheck
  <2> QED
    BY <1>2, <2>1, <2>2
<1>9. ASSUME NEW m \in Messages, Forget(m) PROVE ForgottenIsNew'
  BY <1>2, <1>9 DEF Forget
<1>10. ASSUME NEW h \in Handlers, HandlerStep(h) PROVE ForgottenIsNew'
  <2>1. CASE Complete(h)
    <3> DEFINE m == handler[h].message
    <3>1. m \in Messages
      BY <2>1, BusyHandler DEF Complete
    <3>2. [job[m] EXCEPT !.status = "completed"].status = "completed"
      BY <1>1, <1>4, <3>1 DEF Statuses
    <3>3. job' = [job EXCEPT ![m] = [job[m] EXCEPT !.status = "completed"]]
      BY <2>1 DEF Complete
    <3> QED
      BY <1>2, <3>1, <3>2, <3>3
  <2>2. CASE Retry(h)
    <3> DEFINE m == handler[h].message
    <3>1. m \in Messages
      BY <2>2, BusyHandler DEF Retry
    <3>2. AfterThrow(job[m]).status # "absent"
      BY <1>1, <3>1 DEF AfterThrow, Job
    <3>3. job' = [job EXCEPT ![m] = AfterThrow(job[m])]
      BY <2>2 DEF Retry
    <3> QED
      BY <1>2, <3>1, <3>2, <3>3
  <2> QED
    BY <1>3, <1>10, <2>1, <2>2
    DEF HandlerStep, Lookup, Send, Log, AddRead, AddWrite, Apology
<1> QED
  BY <1>3, <1>5, <1>6, <1>7, <1>8, <1>9, <1>10
  DEF Next, WorkerCrash, ContextExpires, SessionCreated, vars

\* A step that changes neither the jobs nor the handlers nor the trail.
LEMMA ServiceStutter ==
  ASSUME job' = job, handler' = handler, trail' = trail
  PROVE  UNCHANGED Service!service
<1>1. Phases' = Phases
  BY DEF Phases, Phase, At
<1>2. RunsEnded' = RunsEnded
  BY DEF RunsEnded
<1> QED
  BY <1>1, <1>2 DEF Service!service

LEMMA WebhookService ==
  ASSUME IInv, ForgottenIsNew, NEW m \in Messages, Webhook(m)
  PROVE  [Service!Next]_(Service!service)
<1>1. handler' = handler /\ trail' = trail
  BY DEF Webhook
<1>2. CASE job' = job
  BY <1>1, <1>2, ServiceStutter
<1>3. ASSUME NEW d \in Devices, job[m].status = "absent",
             job' = [job EXCEPT ![m] = Queued(d)]
      PROVE  Service!Queue(m)
  <2>1. /\ Queued(d) \in Job /\ Queued(d).status = "waiting"
        /\ Queued(d).attempts = 0 /\ Queued(d).stalls = 0
    BY IdleType DEF Queued, NoJob, Job
  <2>2. job[m].attempts = 0 /\ job[m].stalls = 0
    BY <1>3 DEF ForgottenIsNew, NoJob
  <2>3. /\ Phases[m] = PhaseFree("absent")
        /\ Phases' = [Phases EXCEPT ![m] = PhaseFree("waiting")]
        /\ RunsEnded' = [RunsEnded EXCEPT ![m] = 0 + 0]
        /\ RunsEnded[m] = 0 + 0
    BY <1>1, <1>3, <2>1, <2>2, FreeMoves
  <2>4. RunsEnded' = RunsEnded
    BY <2>3 DEF RunsEnded
  <2> QED
    BY <1>1, <2>3, <2>4 DEF Service!Queue, Service!Moves, PhaseFree
<1> QED
  BY <1>2, <1>3 DEF Webhook, Add, Service!Next

LEMMA TakeService ==
  ASSUME IInv, NEW m \in Messages, NEW h \in Handlers, Take(h, m)
  PROVE  Service!Begin(m)
<1> DEFINE r == [Idle EXCEPT !.pc = "lookup", !.message = m]
           j == [job[m] EXCEPT !.status = "active"]
<1>1. /\ handler[h].pc = "idle" /\ job[m].status = "waiting" /\ trail' = trail
      /\ job' = [job EXCEPT ![m] = j] /\ handler' = [handler EXCEPT ![h] = r]
  BY DEF Take
<1>2. /\ j.status = "active" /\ j.attempts = job[m].attempts /\ j.stalls = job[m].stalls
      /\ job'[m] = j /\ \A x \in Messages \ {m} : job'[x] = job[x]
  BY <1>1 DEF IInv, TypeOK, Job
<1>3. r.pc = "lookup" /\ r.message = m
  BY DEF Idle
<1>4. /\ \A g \in Handlers : ~Has(handler, g, m)
      /\ \A x \in Messages : ~Has(handler, h, x)
  <2>1. \A g \in Handlers : handler[g].message # m
    BY <1>1 DEF IInv, HandlersOK, HandlerOK
  <2>2. handler[h].message \notin Messages
    BY <1>1, WaMessagesAssumption DEF IInv, Exclusive
  <2> QED
    BY <2>1, <2>2 DEF Has
<1>5. handler'[h] = r /\ \A g \in Handlers \ {h} : handler'[g] = handler[g]
  BY <1>1 DEF IInv, TypeOK
<1> HIDE DEF r, j
<1>6. /\ Has(handler', h, m) /\ \A g \in Handlers : Has(handler', g, m) => g = h
      /\ \A x \in Messages \ {m}, g \in Handlers :
            Has(handler, g, x) \/ Has(handler', g, x) => handler'[g] = handler[g]
  BY <1>3, <1>4, <1>5 DEF Has
<1>7. PhaseOf(job', handler', m) = PhaseAt("lookup")
  <2>1. job'[m].status = "active" /\ handler'[h].pc = "lookup"
    BY <1>2, <1>3, <1>5
  <2>2. handler'[h].pc \in BusyAt
    BY <2>1 DEF BusyAt
  <2>3. PhaseOf(job', handler', m) = PhaseAt(handler'[h].pc)
    BY ONLY <1>6, <2>1, <2>2, HeldPhase
  <2> QED
    BY <2>1, <2>3
<1>8. PhaseOf(job, handler, m) = PhaseFree("waiting")
  BY <1>1, FreePhase DEF Statuses
<1>9. /\ Phases' = [Phases EXCEPT ![m] = PhaseAt("lookup")]
      /\ Phases[m] = PhaseFree("waiting")
      /\ RunsEnded' = [RunsEnded EXCEPT ![m] = job'[m].attempts + job'[m].stalls]
      /\ RunsEnded[m] = job[m].attempts + job[m].stalls
  BY <1>2, <1>6, <1>7, <1>8, OnePhase
<1>10. RunsEnded' = RunsEnded
  BY <1>2, <1>9 DEF RunsEnded
<1> QED
  BY <1>1, <1>9, <1>10 DEF Service!Begin, Service!Moves, PhaseAt, PhaseFree

LEMMA PromoteService ==
  ASSUME IInv, NEW m \in Messages, Promote(m)
  PROVE  UNCHANGED Service!service
<1> DEFINE j == [job[m] EXCEPT !.status = "waiting"]
<1>1. /\ job[m].status = "delayed" /\ job' = [job EXCEPT ![m] = j]
      /\ handler' = handler /\ trail' = trail
  BY DEF Promote
<1>2. /\ j \in Job /\ j.status = "waiting" /\ j.attempts = job[m].attempts
      /\ j.stalls = job[m].stalls
  BY DEF IInv, TypeOK, Job
<1> HIDE DEF j
<1>3. /\ Phases[m] = PhaseFree("delayed")
      /\ Phases' = [Phases EXCEPT ![m] = PhaseFree("waiting")]
      /\ RunsEnded' = [RunsEnded EXCEPT ![m] = j.attempts + j.stalls]
      /\ RunsEnded[m] = job[m].attempts + job[m].stalls
  BY <1>1, <1>2, FreeMoves
<1>4. PhaseFree("delayed") = PhaseFree("waiting")
  BY DEF PhaseFree
<1>5. Phases' = Phases
  BY <1>3, <1>4 DEF Phases
<1>6. RunsEnded' = RunsEnded
  BY <1>2, <1>3 DEF RunsEnded
<1> QED
  BY <1>1, <1>5, <1>6 DEF Service!service

LEMMA StalledService ==
  ASSUME IInv, NEW m \in Messages, StalledCheck(m)
  PROVE  Service!Repeat(m)
<1> DEFINE s == IF job[m].stalls >= MaxStalled THEN "failed" ELSE "waiting"
           j == [job[m] EXCEPT !.status = s, !.stalls = @ + 1]
<1>1. /\ job[m].status = "active" /\ ~InHand(m) /\ job' = [job EXCEPT ![m] = j]
      /\ handler' = handler /\ trail' = trail
  BY DEF StalledCheck, IInv, TypeOK
<1>2. /\ job[m].attempts \in Nat /\ job[m].stalls \in Nat
      /\ job[m].attempts < Attempts /\ job[m].stalls <= MaxStalled
      /\ job[m] \in Job
  BY <1>1 DEF IInv, TypeOK, MessagesOK, MessageOK, Job
<1>3. s \in {"failed", "waiting"} /\ (s = "waiting" => job[m].stalls < MaxStalled)
  BY <1>2, WaMessagesAssumption
<1> HIDE DEF s
<1>4. j.status = s /\ j.attempts = job[m].attempts /\ j.stalls = job[m].stalls + 1
  BY <1>2 DEF Job
<1>5. j \in Job
  <2>1. job[m].stalls + 1 \in 0 .. MaxStalled + 1
    BY <1>2, WaMessagesAssumption
  <2>2. [job[m] EXCEPT !.status = s, !.stalls = job[m].stalls + 1] \in Job
    BY <1>2, <1>3, <2>1 DEF Job
  <2> QED
    BY <2>2
<1> HIDE DEF j
<1>6. /\ Phases[m] = PhaseFree("active")
      /\ Phases' = [Phases EXCEPT ![m] = PhaseFree(s)]
      /\ RunsEnded' = [RunsEnded EXCEPT ![m] = j.attempts + j.stalls]
      /\ RunsEnded[m] = job[m].attempts + job[m].stalls
  BY <1>1, <1>3, <1>4, <1>5, FreeMoves
<1>7. j.attempts + j.stalls = RunsEnded[m] + 1
  BY <1>2, <1>4, <1>6
<1>8. /\ RunsEnded[m] + 1 <= Attempts + MaxStalled
      /\ s = "waiting" => RunsEnded[m] + 1 < Attempts + MaxStalled
  BY <1>2, <1>3, <1>6, WaMessagesAssumption
<1>9. PhaseFree("active") = "lost" /\ PhaseFree("waiting") = "queued"
      /\ PhaseFree("failed") = "failed"
  BY DEF PhaseFree
<1>10. RunsEnded' = [RunsEnded EXCEPT ![m] = @ + 1]
  BY <1>6, <1>7
<1> QED
  BY <1>1, <1>3, <1>6, <1>8, <1>9, <1>10 DEF Service!Repeat, Service!Moves

LEMMA ForgetService ==
  ASSUME IInv, NEW m \in Messages, Forget(m)
  PROVE  Service!Forget(m)
<1>1. /\ job[m].status \in {"completed", "failed"} /\ job' = [job EXCEPT ![m] = NoJob]
      /\ handler' = handler /\ trail' = [trail EXCEPT ![m] = NoTrail]
  BY DEF Forget
<1>2. /\ NoJob \in Job /\ NoJob.status = "absent" /\ NoJob.attempts + NoJob.stalls = 0
  BY IdleType DEF NoJob
<1>3. /\ Phases[m] = PhaseFree(job[m].status)
      /\ Phases' = [Phases EXCEPT ![m] = PhaseFree("absent")]
      /\ RunsEnded' = [RunsEnded EXCEPT ![m] = 0]
  BY <1>1, <1>2, FreeMoves
<1>4. /\ PhaseFree("absent") = "unknown"
      /\ PhaseFree(job[m].status) \in {"done", "failed"}
  BY <1>1 DEF PhaseFree
<1>5. Service!Nothing = NoTrail
  BY DEF Service!Nothing, NoTrail
<1> QED
  BY <1>1, <1>3, <1>4, <1>5 DEF Service!Forget, Service!Moves

\* A handler's step within its run.
LEMMA GotoService ==
  ASSUME IInv, NEW h \in Handlers, handler[h].pc # "idle", NEW pc \in BusyAt, Goto(h, pc),
         job' = job
  PROVE  LET m == handler[h].message IN
         /\ m \in Messages /\ Phases[m] = PhaseAt(handler[h].pc)
         /\ Phases' = [Phases EXCEPT ![m] = PhaseAt(pc)]
         /\ RunsEnded' = RunsEnded
<1> DEFINE r == [handler[h] EXCEPT !.pc = pc]
<1>1. handler[h] \in HandlerState
  BY BusyHandler
<1>2. r.pc = pc /\ r.message = handler[h].message
  BY <1>1 DEF HandlerState
<1>3. handler' = [handler EXCEPT ![h] = r]
  BY DEF Goto
<1> HIDE DEF r
<1>4. r.pc \in BusyAt
  BY <1>2
<1> QED
  BY ONLY IInv, handler[h].pc # "idle", job' = job, <1>2, <1>3, <1>4, GoesOn

\* A run that stays in its phase says nothing.
LEMMA PhaseKept ==
  ASSUME NEW m \in Messages, NEW a, Phases[m] = a, Phases' = [Phases EXCEPT ![m] = a],
         RunsEnded' = RunsEnded, trail' = trail
  PROVE  UNCHANGED Service!service
<1>1. Phases' = Phases
  BY DEF Phases
<1> QED
  BY <1>1 DEF Service!service

LEMMA LookupService ==
  ASSUME IInv, NEW h \in Handlers, Lookup(h)
  PROVE  [Service!Next]_(Service!service)
<1> DEFINE m == handler[h].message
<1>1. handler[h].pc = "lookup" /\ handler[h].pc # "idle" /\ job' = job
  BY DEF Lookup
<1>2. /\ PhaseAt("lookup") = "open" /\ PhaseAt("send") = "open"
      /\ PhaseAt("return") = "settled" /\ PhaseAt("throw") = "ended"
      /\ {"send", "return", "throw"} \subseteq BusyAt
  BY DEF PhaseAt, BusyAt
<1>3. m \in Messages /\ Phases[m] = "open"
  BY <1>1, <1>2, BusyHandler, BusyPhase
<1>4. ASSUME NEW pc \in {"send", "return", "throw"}, Goto(h, pc)
      PROVE  Phases' = [Phases EXCEPT ![m] = PhaseAt(pc)] /\ RunsEnded' = RunsEnded
  BY <1>1, <1>2, <1>4, GotoService
<1> HIDE DEF m
<1>5. CASE Goto(h, "send") /\ trail' = trail
  <2>1. Phases' = [Phases EXCEPT ![m] = "open"] /\ RunsEnded' = RunsEnded
    BY <1>2, <1>4, <1>5
  <2> QED
    BY <1>3, <1>5, <2>1, PhaseKept
<1>6. CASE Goto(h, "throw") /\ trail' = trail
  <2>1. Phases' = [Phases EXCEPT ![m] = "ended"] /\ RunsEnded' = RunsEnded
    BY <1>2, <1>4, <1>6
  <2>2. Service!Fail(m)
    BY <1>3, <1>6, <2>1 DEF Service!Fail, Service!Moves
  <2> QED
    BY <1>3, <2>2 DEF Service!Next
<1>7. CASE Goto(h, "return") /\ trail' = [trail EXCEPT ![m].skipped = TRUE]
  <2>1. Phases' = [Phases EXCEPT ![m] = "settled"] /\ RunsEnded' = RunsEnded
    BY <1>2, <1>4, <1>7
  <2>2. Service!Skip(m)
    BY <1>3, <1>7, <2>1 DEF Service!Skip, Service!Moves
  <2> QED
    BY <1>3, <2>2 DEF Service!Next
<1> QED
  BY <1>5, <1>6, <1>7 DEF Lookup, m

LEMMA SendService ==
  ASSUME IInv, NEW h \in Handlers, Send(h)
  PROVE  Service!Answer(handler[h].message) \/ Service!Fail(handler[h].message)
<1> DEFINE m == handler[h].message
<1>1. handler[h].pc = "send" /\ handler[h].pc # "idle" /\ job' = job
  BY DEF Send
<1>2. /\ PhaseAt("send") = "open" /\ PhaseAt("log") = "answered"
      /\ PhaseAt("apology") = "sorry" /\ {"log", "apology"} \subseteq BusyAt
  BY DEF PhaseAt, BusyAt
<1>3. m \in Messages /\ Phases[m] = "open"
  BY <1>1, <1>2, BusyHandler, BusyPhase
<1>4. ASSUME NEW pc \in {"log", "apology"}, Goto(h, pc)
      PROVE  Phases' = [Phases EXCEPT ![m] = PhaseAt(pc)] /\ RunsEnded' = RunsEnded
  BY <1>1, <1>2, <1>4, GotoService
<1> HIDE DEF m
<1>5. ASSUME NEW pc \in {"log", "apology"}, Goto(h, pc), Accepted(m)
      PROVE  Service!Answer(m)
  <2>1. PhaseAt(pc) \in {"answered", "sorry"}
    BY <1>2
  <2>2. Phases' = [Phases EXCEPT ![m] = PhaseAt(pc)] /\ RunsEnded' = RunsEnded
    BY <1>4, <1>5
  <2>3. trail' = [trail EXCEPT ![m].answers = @ + 1]
    BY <1>5 DEF Accepted
  <2> QED
    BY <1>3, <2>1, <2>2, <2>3 DEF Service!Answer, Service!Moves
<1>6. ASSUME Goto(h, "apology"), trail' = trail
      PROVE  Service!Fail(m)
  <2>1. Phases' = [Phases EXCEPT ![m] = "sorry"] /\ RunsEnded' = RunsEnded
    BY <1>2, <1>4, <1>6
  <2> QED
    BY <1>3, <1>6, <2>1 DEF Service!Fail, Service!Moves
<1> QED
  BY <1>5, <1>6 DEF Send, m

LEMMA LogService ==
  ASSUME IInv, NEW h \in Handlers, Log(h)
  PROVE  Service!Log(handler[h].message) \/ Service!Fail(handler[h].message)
<1> DEFINE m == handler[h].message
<1>1. handler[h].pc = "log" /\ handler[h].pc # "idle" /\ job' = job
  BY DEF Log
<1>2. /\ PhaseAt("log") = "answered" /\ PhaseAt("read") = "settled"
      /\ PhaseAt("apology") = "sorry" /\ {"read", "apology"} \subseteq BusyAt
  BY DEF PhaseAt, BusyAt
<1>3. m \in Messages /\ Phases[m] = "answered"
  BY <1>1, <1>2, BusyHandler, BusyPhase
<1>4. ASSUME NEW pc \in {"read", "apology"}, Goto(h, pc)
      PROVE  Phases' = [Phases EXCEPT ![m] = PhaseAt(pc)] /\ RunsEnded' = RunsEnded
  BY <1>1, <1>2, <1>4, GotoService
<1> HIDE DEF m
<1>5. ASSUME NEW pc \in {"read", "apology"}, Goto(h, pc),
             trail' = [trail EXCEPT ![m].logged = @ + 1]
      PROVE  Service!Log(m)
  <2>1. PhaseAt(pc) \in {"settled", "sorry"}
    BY <1>2
  <2>2. Phases' = [Phases EXCEPT ![m] = PhaseAt(pc)] /\ RunsEnded' = RunsEnded
    BY <1>4, <1>5
  <2> QED
    BY <1>3, <1>5, <2>1, <2>2 DEF Service!Log, Service!Moves
<1>6. ASSUME Goto(h, "apology"), trail' = trail
      PROVE  Service!Fail(m)
  <2>1. Phases' = [Phases EXCEPT ![m] = "sorry"] /\ RunsEnded' = RunsEnded
    BY <1>2, <1>4, <1>6
  <2> QED
    BY <1>3, <1>6, <2>1 DEF Service!Fail, Service!Moves
<1> QED
  BY <1>5, <1>6 DEF Log, m

LEMMA ApologyService ==
  ASSUME IInv, NEW h \in Handlers, Apology(h)
  PROVE  Service!Apologise(handler[h].message)
<1> DEFINE m == handler[h].message
<1>1. /\ handler[h].pc = "apology" /\ handler[h].pc # "idle" /\ job' = job
      /\ Goto(h, "throw")
      /\ trail' = [trail EXCEPT ![m].apologies = @ + 1] \/ trail' = trail
  BY DEF Apology
<1>2. /\ PhaseAt("apology") = "sorry" /\ PhaseAt("throw") = "ended" /\ "throw" \in BusyAt
  BY DEF PhaseAt, BusyAt
<1>3. m \in Messages /\ Phases[m] = "sorry"
  BY <1>1, <1>2, BusyHandler, BusyPhase
<1>4. Phases' = [Phases EXCEPT ![m] = "ended"] /\ RunsEnded' = RunsEnded
  BY <1>1, <1>2, GotoService
<1> HIDE DEF m
<1> QED
  BY <1>1, <1>3, <1>4 DEF Service!Apologise, Service!Moves, m

\* addMessage, twice: the run is settled before and after.
LEMMA AddService ==
  ASSUME IInv, NEW h \in Handlers, AddRead(h) \/ AddWrite(h)
  PROVE  UNCHANGED Service!service
<1> DEFINE m == handler[h].message
<1>1. /\ handler[h].pc \in {"read", "write"} /\ handler[h].pc # "idle" /\ job' = job
      /\ trail' = trail
  BY DEF AddRead, AddWrite
<1>2. handler[h] \in HandlerState
  BY <1>1, BusyHandler
<1>3. PICK r : /\ handler' = [handler EXCEPT ![h] = r] /\ r.message = handler[h].message
               /\ r.pc \in {"read", "write", "return"}
  <2>1. CASE AddRead(h)
    <3>1. PICK c : handler' = [handler EXCEPT ![h].pc = "write", ![h].existing = c]
      BY <2>1 DEF AddRead
    <3> DEFINE r == [handler[h] EXCEPT !.pc = "write", !.existing = c]
    <3>2. handler' = [handler EXCEPT ![h] = r]
      BY <3>1 DEF IInv, TypeOK
    <3>3. r.message = handler[h].message /\ r.pc = "write"
      BY <1>2 DEF HandlerState
    <3> HIDE DEF r
    <3> QED
      BY <3>2, <3>3
  <2>2. CASE AddWrite(h)
    <3> DEFINE r1 == [handler[h] EXCEPT !.pc = "read", !.role = "assistant",
                                        !.existing = <<>>]
               r2 == [handler[h] EXCEPT !.pc = "return", !.existing = <<>>]
    <3>1. /\ r1.message = handler[h].message /\ r1.pc = "read"
          /\ r2.message = handler[h].message /\ r2.pc = "return"
      BY <1>2 DEF HandlerState
    <3>2. handler' = [handler EXCEPT ![h] = r1] \/ handler' = [handler EXCEPT ![h] = r2]
      BY <2>2 DEF AddWrite
    <3> HIDE DEF r1, r2
    <3> QED
      BY <3>1, <3>2
  <2> QED
    BY <2>1, <2>2
<1>4. \A pc \in {"read", "write", "return"} : PhaseAt(pc) = "settled" /\ pc \in BusyAt
  BY DEF PhaseAt, BusyAt
<1>5. r.pc \in BusyAt
  BY <1>3, <1>4
<1>6. /\ m \in Messages /\ Phases[m] = PhaseAt(handler[h].pc)
      /\ Phases' = [Phases EXCEPT ![m] = PhaseAt(r.pc)] /\ RunsEnded' = RunsEnded
  BY <1>1, <1>3, <1>5, GoesOn
<1>7. PhaseAt(handler[h].pc) = "settled" /\ PhaseAt(r.pc) = "settled"
  BY <1>1, <1>3, <1>4
<1> HIDE DEF m
<1> QED
  BY <1>1, <1>6, <1>7, PhaseKept

LEMMA CompleteService ==
  ASSUME IInv, NEW h \in Handlers, Complete(h)
  PROVE  Service!Complete(handler[h].message)
<1> DEFINE m == handler[h].message
           j == [job[m] EXCEPT !.status = "completed"]
<1>1. /\ handler[h].pc = "return" /\ handler[h].pc # "idle"
      /\ job' = [job EXCEPT ![m] = j]
      /\ handler' = [handler EXCEPT ![h] = Idle] /\ trail' = trail
  BY DEF Complete
<1>2. m \in Messages /\ job[m] \in Job
  BY <1>1, BusyHandler
<1>3. /\ j \in Job /\ j.status = "completed" /\ j.attempts = job[m].attempts
      /\ j.stalls = job[m].stalls
  BY <1>2 DEF Job
<1> HIDE DEF j
<1>4. /\ Phases[m] = PhaseAt("return")
      /\ Phases' = [Phases EXCEPT ![m] = PhaseFree("completed")]
      /\ RunsEnded' = [RunsEnded EXCEPT ![m] = j.attempts + j.stalls]
      /\ RunsEnded[m] = job[m].attempts + job[m].stalls
  BY <1>1, <1>3, GivesBack
<1>5. RunsEnded' = RunsEnded
  BY <1>3, <1>4 DEF RunsEnded
<1>6. PhaseAt("return") = "settled" /\ PhaseFree("completed") = "done"
  BY DEF PhaseAt, PhaseFree
<1> HIDE DEF m
<1> QED
  BY <1>1, <1>4, <1>5, <1>6 DEF Service!Complete, Service!Moves, m

LEMMA RetryService ==
  ASSUME IInv, NEW h \in Handlers, Retry(h)
  PROVE  Service!Repeat(handler[h].message)
<1> DEFINE m == handler[h].message
           j == AfterThrow(job[m])
<1>1. /\ handler[h].pc = "throw" /\ handler[h].pc # "idle"
      /\ job' = [job EXCEPT ![m] = j]
      /\ handler' = [handler EXCEPT ![h] = Idle] /\ trail' = trail
  BY DEF Retry
<1>2. /\ m \in Messages /\ job[m] \in Job /\ job[m].status = "active"
      /\ MessageOK(job[m], trail[m])
  BY <1>1, BusyHandler DEF HandlerOK
<1>3. /\ job[m].attempts \in Nat /\ job[m].stalls \in Nat
      /\ job[m].attempts < Attempts /\ job[m].stalls <= MaxStalled
  BY <1>2 DEF MessageOK, Job
<1>4. /\ j.status \in {"delayed", "failed"} /\ j.attempts = job[m].attempts + 1
      /\ j.stalls = job[m].stalls
      /\ j.status = "delayed" => job[m].attempts + 1 < Attempts
  BY <1>2 DEF AfterThrow, Job
<1>5. j \in Job
  <2> DEFINE s == IF job[m].attempts + 1 < Attempts THEN "delayed" ELSE "failed"
  <2>1. job[m].attempts + 1 \in 0 .. Attempts /\ s \in {"delayed", "failed"}
    BY <1>3, WaMessagesAssumption
  <2> HIDE DEF s
  <2>2. [job[m] EXCEPT !.status = s, !.attempts = job[m].attempts + 1] \in Job
    BY <1>2, <2>1 DEF Job
  <2> QED
    BY <2>2 DEF AfterThrow, s
<1> HIDE DEF j
<1>6. /\ Phases[m] = PhaseAt("throw")
      /\ Phases' = [Phases EXCEPT ![m] = PhaseFree(j.status)]
      /\ RunsEnded' = [RunsEnded EXCEPT ![m] = j.attempts + j.stalls]
      /\ RunsEnded[m] = job[m].attempts + job[m].stalls
  BY <1>1, <1>4, <1>5, GivesBack
<1>7. j.attempts + j.stalls = RunsEnded[m] + 1
  BY <1>3, <1>4, <1>6
<1>8. /\ RunsEnded[m] + 1 <= Attempts + MaxStalled
      /\ j.status = "delayed" => RunsEnded[m] + 1 < Attempts + MaxStalled
  BY <1>3, <1>4, <1>6, WaMessagesAssumption
<1>9. /\ PhaseAt("throw") = "ended" /\ PhaseFree("delayed") = "queued"
      /\ PhaseFree("failed") = "failed"
  BY DEF PhaseAt, PhaseFree
<1>10. RunsEnded' = [RunsEnded EXCEPT ![m] = @ + 1]
  BY <1>6, <1>7
<1> HIDE DEF m
<1> QED
  BY <1>1, <1>4, <1>6, <1>8, <1>9, <1>10 DEF Service!Repeat, Service!Moves, m

LEMMA CrashService ==
  ASSUME IInv, WorkerCrash
  PROVE  Service!Crash
<1>1. handler' = [h \in Handlers |-> Idle] /\ job' = job /\ trail' = trail
  BY DEF WorkerCrash
<1>2. ASSUME NEW m \in Messages
      PROVE  PhaseOf(job', handler', m) =
               IF PhaseOf(job, handler, m) \in Service!InRun THEN "lost"
               ELSE PhaseOf(job, handler, m)
  <2>1. job[m].status \in Statuses /\ job'[m] = job[m]
    BY <1>1 DEF IInv, TypeOK, Job, Statuses
  <2>2. \A g \in Handlers : ~Has(handler', g, m)
    BY <1>1, IdleType, WaMessagesAssumption DEF Has
  <2>3. PhaseOf(job', handler', m) = PhaseFree(job'[m].status)
    BY <2>1, <2>2, FreePhase
  <2>4. CASE job[m].status # "active"
    <3>1. PhaseOf(job, handler, m) = PhaseFree(job[m].status)
      BY <2>1, <2>4, FreePhase
    <3>2. PhaseFree(job[m].status) \notin Service!InRun
      BY <2>1, <2>4 DEF PhaseFree, Service!InRun, Statuses
    <3> QED
      BY <2>1, <2>3, <3>1, <3>2
  <2>5. CASE job[m].status = "active"
    <3>1. PhaseOf(job', handler', m) = "lost"
      BY <2>1, <2>3, <2>5 DEF PhaseFree
    <3>2. PhaseOf(job, handler, m) \in Service!InRun \cup {"lost"}
      BY <2>5 DEF PhaseOf, Service!InRun
    <3> QED
      BY <3>1, <3>2
  <2> QED
    BY <2>4, <2>5
<1>3. Phases' = [m \in Messages |-> IF Phases[m] \in Service!InRun THEN "lost" ELSE Phases[m]]
  BY <1>2, PhasesAre
<1>4. RunsEnded' = RunsEnded
  BY <1>1 DEF RunsEnded
<1> QED
  BY <1>1, <1>3, <1>4 DEF Service!Crash

LEMMA ServiceStep ==
  ASSUME IInv, ForgottenIsNew, [Next]_vars
  PROVE  [Service!Next]_(Service!service)
<1>1. ASSUME NEW m \in Messages,
             Webhook(m) \/ Promote(m) \/ StalledCheck(m) \/ Forget(m)
      PROVE  [Service!Next]_(Service!service)
  BY <1>1, WebhookService, PromoteService, StalledService, ForgetService
  DEF Service!Next
<1>2. ASSUME NEW h \in Handlers, NEW m \in Messages, Take(h, m)
      PROVE  [Service!Next]_(Service!service)
  BY <1>2, TakeService DEF Service!Next
<1>3. ASSUME NEW h \in Handlers, HandlerStep(h)
      PROVE  [Service!Next]_(Service!service)
  <2>1. CASE Lookup(h) \/ AddRead(h) \/ AddWrite(h)
    BY <2>1, LookupService, AddService
  <2>2. CASE ~(Lookup(h) \/ AddRead(h) \/ AddWrite(h))
    <3>1. handler[h].pc # "idle"
      BY <1>3, <2>2 DEF HandlerStep, Send, Log, Apology, Complete, Retry
    <3>2. handler[h].message \in Messages
      BY <3>1, BusyHandler
    <3> QED
      BY <1>3, <2>2, <3>2, SendService, LogService, ApologyService, CompleteService,
         RetryService DEF HandlerStep, Service!Next
  <2> QED
    BY <2>1, <2>2
<1>4. CASE WorkerCrash
  BY <1>4, CrashService DEF Service!Next
<1>5. CASE (\E s \in Senders : ContextExpires(s))
           \/ (\E t \in Tenants : SessionCreated(t))
           \/ UNCHANGED vars
  BY <1>5, ServiceStutter DEF ContextExpires, SessionCreated, vars
<1> QED
  BY <1>1, <1>2, <1>3, <1>4, <1>5 DEF Next

\* The message pipeline implements the reply service: for any number of messages and
\* handlers, repeated events, failing calls and crashes, each message is worked on in
\* at most Attempts + MaxStalled runs, of which each answers, logs and apologises at
\* most once and in this order, and only one that logged its answer, or found no
\* session, completes it (message-worker.ts, message-queue.ts).
THEOREM ImplementsService == Spec => ServiceSpec
<1>1. Init => ForgottenIsNew /\ Service!Init
  <2> SUFFICES ASSUME Init PROVE ForgottenIsNew /\ Service!Init
    OBVIOUS
  <2>1. /\ job = [m \in Messages |-> NoJob] /\ trail = [m \in Messages |-> NoTrail]
    BY DEF Init
  <2>2. NoJob.status = "absent" /\ NoJob.attempts + NoJob.stalls = 0
    BY DEF NoJob
  <2>3. Phases = [m \in Messages |-> "unknown"]
    BY <2>1, <2>2 DEF Phases, Phase
  <2>4. RunsEnded = [m \in Messages |-> 0]
    BY <2>1, <2>2 DEF RunsEnded
  <2>5. Service!Nothing = NoTrail
    BY DEF Service!Nothing, NoTrail
  <2>6. ForgottenIsNew
    BY <2>1 DEF ForgottenIsNew
  <2> QED
    BY <2>1, <2>3, <2>4, <2>5, <2>6 DEF Service!Init
<1>2. IInv /\ ForgottenIsNew /\ [Next]_vars => ForgottenIsNew'
  BY ForgottenStep
<1>3. IInv /\ ForgottenIsNew /\ [Next]_vars => [Service!Next]_(Service!service)
  BY ServiceStep
<1> QED
  BY <1>1, <1>2, <1>3, MessagesInvariance, PTL DEF Spec, ServiceSpec, Service!Spec

=============================================================================
