--------------------------- MODULE WaSessionProofs ---------------------------
(***************************************************************************)
(* Proofs about WaSession, for every set of pages and all bounds.  The     *)
(* type invariant comes first.  OrderInv follows the events of the engine  *)
(* to the row: while none is lost, the last one that is on its way, or the *)
(* row when none is, says that a device that is not connected is not.      *)
(* LateInv follows the requests: a request that is about to write the row  *)
(* next to a connected device made its engine call before the scan, or in  *)
(* vain.                                                                   *)
(***************************************************************************)
EXTENDS WaSession, SequenceTheorems, TLAPS

USE WaSessionAssumption

-----------------------------------------------------------------------------
(* Types.                                                                  *)

\* A row of a card that is rendered again is a card.
LEMMA RenderedType ==
  ASSUME NEW card \in Page, NEW status \in Statuses, NEW open \in BOOLEAN
  PROVE  Rendered(card, status, open) \in Page
BY DEF Rendered, Page

LEMMA NoRequestType == NoRequest \in Request
BY DEF NoRequest, Request

LEMMA EngineType ==
  ASSUME TypeOK, Engine
  PROVE  TypeOK'
<1>1. CASE Scan
  <2>1. ASSUME NEW p \in Pages
        PROVE  [req[p] EXCEPT !.late = req[p].pc \in {"update", "disconnect"}] \in Request
    <3>1. req[p] \in Request
      BY DEF TypeOK
    <3>2. /\ [req[p] EXCEPT !.late = TRUE] \in Request
          /\ [req[p] EXCEPT !.late = FALSE] \in Request
      BY <3>1 DEF Request
    <3>3. CASE req[p].pc \in {"update", "disconnect"}
      <4>1. (req[p].pc \in {"update", "disconnect"}) = TRUE
        BY <3>3
      <4> QED BY <3>2, <4>1
    <3>4. CASE req[p].pc \notin {"update", "disconnect"}
      <4>1. (req[p].pc \in {"update", "disconnect"}) = FALSE
        BY <3>4
      <4> QED BY <3>2, <4>1
    <3> QED BY <3>3, <3>4
  <2>2. req' \in [Pages -> Request]
    BY <1>1, <2>1 DEF Scan
  <2>3. events' \in Seq(Events)
    BY <1>1 DEF Scan, TypeOK, Events
  <2> QED BY <1>1, <2>2, <2>3 DEF Scan, TypeOK
<1>2. CASE Unlink
  BY <1>2 DEF Unlink, TypeOK, Events
<1>3. CASE Expire
  BY <1>3 DEF Expire, TypeOK
<1> QED BY <1>1, <1>2, <1>3 DEF Engine

LEMMA WebhookType ==
  ASSUME TypeOK, Webhook
  PROVE  TypeOK'
<1>1. CASE HookStore
  BY <1>1 DEF HookStore, TypeOK, Statuses, Events
<1>2. CASE \E i \in 1 .. Len(events) : HookRead(i)
  <2>1. PICK i \in 1 .. Len(events) : HookRead(i)
    BY <1>2
  <2>2. events \in Seq(Events) /\ events[i] \in Events
    BY DEF TypeOK
  <2>3. events' \in Seq(Events)
    BY <2>1, <2>2 DEF HookRead, RemoveAt
  <2>4. hook' \in Events \cup {"none"} /\ lost' \in Nat
    BY <2>1, <2>2 DEF HookRead, TypeOK
  <2> QED BY <2>1, <2>3, <2>4 DEF HookRead, TypeOK
<1> QED BY <1>1, <1>2 DEF Webhook

LEMMA CardType ==
  ASSUME TypeOK, NEW p \in Pages, Card(p)
  PROVE  TypeOK'
<1>1. page[p] \in Page /\ req[p] \in Request /\ row \in Statuses
  BY DEF TypeOK
<1>2. CASE Load(p)
  <2>1. [shown |-> row, open |-> row = "pending_qr", polling |-> FALSE, heard |-> FALSE] \in Page
    BY <1>1 DEF Page
  <2> QED BY <1>2, <2>1 DEF Load, TypeOK
<1>3. CASE Open(p)
  <2>1. [page[p] EXCEPT !.open = TRUE] \in Page
    BY <1>1 DEF Page
  <2> QED BY <1>3, <2>1 DEF Open, TypeOK
<1>4. CASE Poll(p)
  <2>1. [page[p] EXCEPT !.heard = TRUE] \in Page
    BY <1>1 DEF Page
  <2> QED BY <1>4, <2>1 DEF Poll, TypeOK
<1>5. CASE Heard(p)
  <2>1. Rendered(page[p], row, FALSE) \in Page
    BY <1>1, RenderedType
  <2>2. [Rendered(page[p], row, FALSE) EXCEPT !.polling = FALSE, !.heard = FALSE] \in Page
    BY <2>1 DEF Page
  <2> QED BY <1>5, <2>2 DEF Heard, TypeOK
<1>6. CASE RequestQR(p)
  <2>1. [page[p] EXCEPT !.polling = FALSE] \in Page
    BY <1>1 DEF Page
  <2>2. [req[p] EXCEPT !.pc = "login", !.found = row # "absent"] \in Request
    BY <1>1 DEF Request
  <2> QED BY <1>6, <2>1, <2>2 DEF RequestQR, TypeOK
<1>7. CASE Disconnect(p)
  <2>1. [req[p] EXCEPT !.pc = "logout"] \in Request
    BY <1>1 DEF Request
  <2> QED BY <1>7, <2>1 DEF Disconnect, TypeOK
<1> QED BY <1>2, <1>3, <1>4, <1>5, <1>6, <1>7 DEF Card

LEMMA HandlerType ==
  ASSUME TypeOK, NEW p \in Pages, Handler(p)
  PROVE  TypeOK'
<1>1. page[p] \in Page /\ req[p] \in Request /\ row \in Statuses
  BY DEF TypeOK
<1>2. CASE InitLogin(p)
  <2>1. [req[p] EXCEPT !.pc = "update"] \in Request
    BY <1>1 DEF Request
  <2>2. req' \in [Pages -> Request] /\ page' = page
    BY <1>2, <2>1, NoRequestType DEF InitLogin, Refused, TypeOK
  <2>3. device' \in {"off", "qr", "seen", "on"} /\ failures' \in Nat
    BY <1>2 DEF InitLogin, Refused, Failure, NoFailure, TypeOK
  <2> QED BY <1>2, <2>2, <2>3 DEF InitLogin, TypeOK
<1>3. CASE InitStore(p)
  <2>1. [page[p] EXCEPT !.polling = TRUE] \in Page
    BY <1>1 DEF Page
  <2>2. req' \in [Pages -> Request] /\ page' \in [Pages -> Page]
    BY <1>3, <2>1, NoRequestType DEF InitStore, Refused, TypeOK
  <2>3. device' \in {"off", "qr", "seen", "on"} /\ failures' \in Nat /\ row' \in Statuses
    BY <1>3 DEF InitStore, Failure, NoFailure, TypeOK, Statuses
  <2> QED BY <1>3, <2>2, <2>3 DEF InitStore, TypeOK
<1>4. CASE Logout(p)
  <2>1. /\ [req[p] EXCEPT !.pc = "disconnect"] \in Request
        /\ [req[p] EXCEPT !.pc = "disconnect", !.failed = TRUE] \in Request
    BY <1>1 DEF Request
  <2>2. req' \in [Pages -> Request]
    BY <1>4, <2>1 DEF Logout, TypeOK
  <2>3. device' \in {"off", "qr", "seen", "on"} /\ failures' \in Nat
    BY <1>4 DEF Logout, Failure, NoFailure, TypeOK
  <2>4. events' \in Seq(Events)
    BY <1>4 DEF Logout, TypeOK, Events
  <2> QED BY <1>4, <2>2, <2>3, <2>4 DEF Logout, TypeOK
<1>5. CASE DisconnectStore(p)
  <2>1. Rendered(page[p], "disconnected", page[p].open) \in Page
    BY <1>1, RenderedType DEF Page, Statuses
  <2>2. page' \in [Pages -> Page]
    BY <1>5, <2>1 DEF DisconnectStore, TypeOK
  <2>3. row' \in Statuses /\ failures' \in Nat /\ req' \in [Pages -> Request]
    BY <1>5, NoRequestType DEF DisconnectStore, Failure, NoFailure, TypeOK, Statuses
  <2> QED BY <1>5, <2>2, <2>3 DEF DisconnectStore, TypeOK
<1> QED BY <1>2, <1>3, <1>4, <1>5 DEF Handler

LEMMA TypeStep ==
  ASSUME TypeOK, [Next]_vars
  PROVE  TypeOK'
<1>1. CASE UNCHANGED vars
  BY <1>1 DEF vars, TypeOK
<1>2. CASE Next
  BY <1>2, EngineType, WebhookType, CardType, HandlerType DEF Next
<1> QED BY <1>1, <1>2

LEMMA TypeInit ==
  ASSUME Init
  PROVE  TypeOK
<1>1. NoRequest \in Request
  BY NoRequestType
<1>2. [shown |-> "absent", open |-> FALSE, polling |-> FALSE, heard |-> FALSE] \in Page
  BY DEF Page, Statuses
<1> QED BY <1>1, <1>2 DEF Init, TypeOK, Statuses, Events

\* The row, the device, the events, the pages and the requests keep their types.
THEOREM SessionTypeCorrect == Spec => []TypeOK
BY TypeInit, TypeStep, PTL DEF Spec

-----------------------------------------------------------------------------
(* The order of the events.                                                *)

\* While no event is lost, a device that is not connected has a disconnected event
\* last on its way, or in its handler, or stored.
OrderInv ==
  lost = 0 /\ device # "on" =>
    \/ events # <<>> /\ events[Len(events)] = "disconnected"
    \/ events = <<>> /\ hook = "disconnected"
    \/ events = <<>> /\ hook = "none" /\ row # "connected"

LEMMA Appended ==
  ASSUME TypeOK, NEW e \in Events, events' = Append(events, e)
  PROVE  events' # <<>> /\ events'[Len(events')] = e
BY DEF TypeOK

LEMMA OrderEngine ==
  ASSUME TypeOK, OrderInv, Engine
  PROVE  OrderInv'
<1>1. CASE Scan
  BY <1>1 DEF Scan, OrderInv
<1>2. CASE Unlink
  BY <1>2, Appended DEF Unlink, OrderInv, Events
<1>3. CASE Expire
  BY <1>3 DEF Expire, OrderInv
<1> QED BY <1>1, <1>2, <1>3 DEF Engine

LEMMA OrderWebhook ==
  ASSUME TypeOK, OrderInv, Webhook
  PROVE  OrderInv'
<1>1. CASE HookStore
  BY <1>1 DEF HookStore, OrderInv, TypeOK, Events
<1>2. CASE \E i \in 1 .. Len(events) : HookRead(i)
  <2>1. PICK i \in 1 .. Len(events) : HookRead(i)
    BY <1>2
  <2>2. events \in Seq(Events) /\ Len(events) \in Nat /\ lost \in Nat
    BY DEF TypeOK
  <2> SUFFICES ASSUME lost' = 0, device' # "on"
               PROVE  \/ events' # <<>> /\ events'[Len(events')] = "disconnected"
                      \/ events' = <<>> /\ hook' = "disconnected"
                      \/ events' = <<>> /\ hook' = "none" /\ row' # "connected"
    BY DEF OrderInv
  <2>3. /\ i = 1 /\ lost = 0 /\ device # "on" /\ row' = row
        /\ hook' = IF row = "absent" THEN "none" ELSE events[1]
        /\ events' = RemoveAt(events, 1)
    BY <2>1, <2>2 DEF HookRead
  <2>4. events # <<>> /\ events[Len(events)] = "disconnected"
    BY <2>1, <2>2, <2>3 DEF OrderInv
  <2>5. events' = Tail(events)
    BY <2>2, <2>3, <2>4 DEF RemoveAt
  <2>6. CASE Len(events) = 1
    BY <2>2, <2>3, <2>4, <2>5, <2>6
  <2>7. CASE Len(events) > 1
    BY <2>2, <2>4, <2>5, <2>7
  <2>8. Len(events) = 1 \/ Len(events) > 1
    BY <2>1, <2>2
  <2> QED BY <2>6, <2>7, <2>8
<1> QED BY <1>1, <1>2 DEF Webhook

LEMMA OrderRequests ==
  ASSUME TypeOK, OrderInv, NEW p \in Pages, Card(p) \/ Handler(p)
  PROVE  OrderInv'
<1>1. CASE Card(p)
  BY <1>1 DEF Card, Load, Open, Poll, Heard, RequestQR, Disconnect, OrderInv
<1>2. CASE InitLogin(p)
  BY <1>2 DEF InitLogin, OrderInv
<1>3. CASE InitStore(p)
  BY <1>3 DEF InitStore, OrderInv
<1>4. CASE Logout(p)
  <2>1. CASE device = "on" /\ device' = "off"
    <3>1. events' = Append(events, "disconnected")
      BY <1>4, <2>1 DEF Logout
    <3> QED BY <3>1, Appended DEF OrderInv, Events
  <2>2. CASE ~(device = "on" /\ device' = "off")
    BY <1>4, <2>2 DEF Logout, OrderInv
  <2> QED BY <2>1, <2>2
<1>5. CASE DisconnectStore(p)
  BY <1>5 DEF DisconnectStore, OrderInv
<1> QED BY <1>1, <1>2, <1>3, <1>4, <1>5 DEF Handler

LEMMA OrderStep ==
  ASSUME TypeOK, OrderInv, [Next]_vars
  PROVE  OrderInv'
<1>1. CASE UNCHANGED vars
  BY <1>1 DEF vars, OrderInv
<1>2. CASE Next
  BY <1>2, OrderEngine, OrderWebhook, OrderRequests DEF Next
<1> QED BY <1>1, <1>2

LEMMA OrderImplies ==
  ASSUME TypeOK, OrderInv
  PROVE  ConnectedIsOn
<1> SUFFICES ASSUME lost = 0, row = "connected", device # "on"
             PROVE  Unstored # <<>> /\ Last(Unstored) = "disconnected"
  BY DEF ConnectedIsOn
<1>1. events \in Seq(Events) /\ hook \in Events \cup {"none"}
  BY DEF TypeOK
<1>2. CASE events # <<>> /\ events[Len(events)] = "disconnected"
  <2>1. CASE hook = "none"
    BY <1>1, <1>2, <2>1 DEF Unstored, Last
  <2>2. CASE hook # "none"
    <3>1. <<hook>> \in Seq(Events) /\ Len(<<hook>>) = 1
      BY <1>1, <2>2
    <3>2. /\ Len(<<hook>> \o events) = 1 + Len(events)
          /\ (<<hook>> \o events)[1 + Len(events)] = events[Len(events)]
      BY <1>1, <1>2, <3>1
    <3> QED BY <1>1, <1>2, <2>2, <3>2 DEF Unstored, Last
  <2> QED BY <2>1, <2>2
<1>3. CASE events = <<>> /\ hook = "disconnected"
  <2>1. Unstored = <<"disconnected">>
    BY <1>3 DEF Unstored
  <2> QED BY <2>1 DEF Last
<1> QED BY <1>2, <1>3 DEF OrderInv

\* A connected row belongs to a connected device, or the correction is on its way.
THEOREM ConnectedRowIsOn == Spec => []ConnectedIsOn
<1>1. Init => TypeOK /\ OrderInv
  BY TypeInit DEF Init, OrderInv
<1>2. TypeOK /\ OrderInv /\ [Next]_vars => (TypeOK /\ OrderInv)'
  BY TypeStep, OrderStep
<1>3. TypeOK /\ OrderInv => ConnectedIsOn
  BY OrderImplies
<1> QED BY <1>1, <1>2, <1>3, PTL DEF Spec

-----------------------------------------------------------------------------
(* Late writes.                                                            *)

\* A request about to write next to a connected device is late, or its call failed.
LateInv ==
  \A p \in Pages :
    req[p].pc \in {"update", "disconnect"} /\ device = "on" => req[p].late \/ req[p].failed

LEMMA LateStep ==
  ASSUME TypeOK, LateInv, [Next]_vars
  PROVE  LateInv'
<1> SUFFICES ASSUME NEW q \in Pages, req'[q].pc \in {"update", "disconnect"}, device' = "on"
             PROVE  req'[q].late \/ req'[q].failed
  BY DEF LateInv
<1>1. req \in [Pages -> Request] /\ req[q] \in Request
  BY DEF TypeOK
<1>2. CASE UNCHANGED <<req, device>>
  BY <1>2, Zenon DEF LateInv
<1>3. CASE Scan
  <2>1. req'[q] = [req[q] EXCEPT !.late = req[q].pc \in {"update", "disconnect"}]
    BY <1>3 DEF Scan
  <2>2. req'[q].pc = req[q].pc
    BY <1>1, <2>1 DEF Request
  <2>3. req'[q].late = (req[q].pc \in {"update", "disconnect"})
    BY <1>1, <2>1 DEF Request
  <2> QED BY <2>2, <2>3
<1>4. CASE Unlink \/ Expire
  BY <1>4 DEF Unlink, Expire
<1>5. CASE \E p \in Pages : RequestQR(p) \/ Disconnect(p)
  <2>1. PICK p \in Pages : RequestQR(p) \/ Disconnect(p)
    BY <1>5
  <2>2. device' = device /\ (req'[q] = req[q] \/ req'[q].pc \in {"login", "logout"})
    BY <1>1, <2>1 DEF RequestQR, Disconnect, Request
  <2>3. req'[q] = req[q]
    BY <2>2
  <2> QED BY <2>2, <2>3, Zenon DEF LateInv
<1>6. CASE \E p \in Pages : Handler(p)
  <2>1. PICK p \in Pages : Handler(p)
    BY <1>6
  <2>2. CASE q # p
    <3>1. req'[q] = req[q]
      BY <1>1, <2>1, <2>2 DEF Handler, InitLogin, InitStore, Refused, Logout, DisconnectStore
    <3>2. device = "on"
      BY <2>1 DEF Handler, InitLogin, InitStore, Logout, DisconnectStore
    <3> QED BY <3>1, <3>2, Zenon DEF LateInv
  <2>3. CASE q = p
    <3>1. req'[p] # NoRequest
      BY <2>3 DEF NoRequest
    <3>2. CASE InitLogin(p)
      BY <1>1, <2>3, <3>1, <3>2 DEF InitLogin, Refused
    <3>3. CASE InitStore(p) \/ DisconnectStore(p)
      BY <1>1, <3>1, <3>3 DEF InitStore, Refused, DisconnectStore
    <3>4. CASE Logout(p)
      <4>1. req' = [req EXCEPT ![p].pc = "disconnect", ![p].failed = TRUE]
        BY <3>4 DEF Logout
      <4>2. req'[p].failed = TRUE
        BY <1>1, <2>3, <4>1 DEF Request
      <4> QED BY <2>3, <4>2
    <3> QED BY <2>1, <3>2, <3>3, <3>4 DEF Handler
  <2> QED BY <2>2, <2>3
<1>7. HookStore \/ (\E i \in 1 .. Len(events) : HookRead(i)) => UNCHANGED <<req, device>>
  BY DEF HookStore, HookRead
<1>8. \A p \in Pages : Load(p) \/ Open(p) \/ Poll(p) \/ Heard(p) => UNCHANGED <<req, device>>
  BY DEF Load, Open, Poll, Heard
<1>9. UNCHANGED vars => UNCHANGED <<req, device>>
  BY DEF vars
<1> QED
  BY <1>2, <1>3, <1>4, <1>5, <1>6, <1>7, <1>8, <1>9 DEF Next, Engine, Webhook, Card

LEMMA LateImplies ==
  ASSUME TypeOK, LateInv, [Next]_vars, row = "connected", row' # "connected", device = "on"
  PROVE  \/ hook = "disconnected"
         \/ \E p \in Pages : /\ req[p].pc \in {"update", "disconnect"}
                             /\ req[p].late \/ req[p].failed
<1>1. CASE HookStore
  BY <1>1 DEF HookStore, TypeOK, Events
<1>2. CASE \E p \in Pages : Handler(p)
  <2>1. PICK p \in Pages : Handler(p)
    BY <1>2
  <2>2. req[p].pc \in {"update", "disconnect"}
    BY <2>1 DEF Handler, InitLogin, InitStore, Logout, DisconnectStore
  <2>3. req[p].late \/ req[p].failed
    BY <2>2 DEF LateInv
  <2> QED BY <2>2, <2>3, Zenon
<1>3. CASE \E p \in Pages : Card(p)
  BY <1>3 DEF Card, Load, Open, Poll, Heard, RequestQR, Disconnect
<1>4. CASE Engine \/ \E i \in 1 .. Len(events) : HookRead(i)
  BY <1>4 DEF Engine, Scan, Unlink, Expire, HookRead
<1>5. CASE UNCHANGED vars
  BY <1>5 DEF vars
<1> QED BY <1>1, <1>2, <1>3, <1>4, <1>5 DEF Next, Webhook

\* Only a write that was decided before the scan, or a failed logout, hides a
\* connection.
THEOREM LateWritesOnly == Spec => OnlyLateWritesHide
<1>1. Init => TypeOK /\ LateInv
  BY TypeInit DEF Init, LateInv
<1>2. TypeOK /\ LateInv /\ [Next]_vars => (TypeOK /\ LateInv)'
  BY TypeStep, LateStep
<1>3. TypeOK /\ LateInv /\ [Next]_vars =>
        [row = "connected" /\ row' # "connected" /\ device = "on" =>
           \/ hook = "disconnected"
           \/ \E p \in Pages : /\ req[p].pc \in {"update", "disconnect"}
                               /\ req[p].late \/ req[p].failed]_vars
  BY LateImplies
<1> QED BY <1>1, <1>2, <1>3, PTL DEF Spec, OnlyLateWritesHide

=============================================================================
