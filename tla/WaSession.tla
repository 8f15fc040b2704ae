----------------------------- MODULE WaSession -----------------------------
(***************************************************************************)
(* The WhatsApp session of one tenant: its row in whatsapp_sessions, the   *)
(* device the engine (GOWA) holds for it, the engine's connected and       *)
(* disconnected events, and the dashboard pages that ask for a QR code,    *)
(* poll the row and disconnect.  The row and the device change apart: a    *)
(* request reads the row, calls the engine and writes the row in three     *)
(* steps, an event is handled in two, and none of them locks anything.     *)
(***************************************************************************)
EXTENDS Integers, Sequences, SequencesExt

CONSTANTS
  Pages,       \* browser pages that show the tenant's card
  MaxScans,    \* bound: how often a phone scans a QR code
  MaxFaults    \* bound: events that are lost or overtaken, and calls of the engine
               \* or the database that fail

ASSUME WaSessionAssumption ==
  MaxScans \in Nat /\ MaxFaults \in Nat

VARIABLES
  row,      \* status of the session row
  device,   \* the engine's device: "seen" is a QR code that a page has shown
  events,   \* events the engine has not delivered, in the order they happened
  hook,     \* the event whose handler has read the row
  page,     \* per page: what it shows and what it waits for
  req,      \* per page: its request on the server
  scans,    \* scans so far
  lost,     \* events lost or overtaken so far
  failures  \* failed calls so far

vars == <<row, device, events, hook, page, req, scans, lost, failures>>

Statuses == {"absent", "pending_qr", "connected", "disconnected"}
Events   == {"connected", "disconnected"}

\* shown is the status the card was rendered with, open whether it has the QR
\* scanner, polling whether the scanner's interval is set, and heard a poll that
\* found the row connected and whose answer is on its way; other answers of a poll
\* do nothing.  Whether the scanner is idle, loads, shows a code or an error only
\* decides what it draws: in each of them but loading its button asks for a code.
Page == [shown: Statuses, open: BOOLEAN, polling: BOOLEAN, heard: BOOLEAN]
\* late and failed say that a phone was scanned since the request's engine call, and
\* that this call failed.
Request == [pc: {"idle", "login", "update", "logout", "disconnect"}, found: BOOLEAN,
            late: BOOLEAN, failed: BOOLEAN]
\* Mistake: an error leaves the request where it was.
NoRequestYet == [pc |-> "error", found |-> FALSE, late |-> FALSE, failed |-> FALSE]

NoRequest == [pc |-> "idle", found |-> FALSE, late |-> FALSE, failed |-> FALSE]

TypeOK ==
  /\ row \in Statuses
  /\ device \in {"off", "qr", "seen", "on"}
  /\ events \in Seq(Events)
  /\ hook \in Events \cup {"none"}
  /\ page \in [Pages -> Page]
  /\ req \in [Pages -> Request]
  /\ scans \in Nat
  /\ lost \in Nat
  /\ failures \in Nat

Init ==
  /\ row = "absent"
  /\ device = "off"
  /\ events = <<>>
  /\ hook = "none"
  /\ page = [p \in Pages |-> [shown |-> "absent", open |-> FALSE, polling |-> FALSE,
                              heard |-> FALSE]]
  /\ req = [p \in Pages |-> NoRequest]
  /\ scans = 0
  /\ lost = 0
  /\ failures = 0

Failure   == lost + failures < MaxFaults /\ failures' = failures + 1
NoFailure == UNCHANGED failures

-----------------------------------------------------------------------------
(* The engine and the phone.                                               *)

Scan ==
  /\ device = "seen" /\ scans < MaxScans
  /\ device' = "on"
  /\ scans' = scans + 1
  /\ events' = Append(events, "connected")
  /\ req' = [p \in Pages |-> [req[p] EXCEPT !.late = req[p].pc \in {"update", "disconnect"}]]
  /\ UNCHANGED <<row, hook, page, lost, failures>>

\* The user of the phone removes the linked device.
Unlink ==
  /\ device = "on"
  /\ device' = "off"
  /\ events' = Append(events, "disconnected")
  /\ UNCHANGED <<row, hook, page, req, scans, lost, failures>>

Expire ==
  /\ device \in {"qr", "seen"}
  /\ device' = "off"
  /\ UNCHANGED <<row, events, hook, page, req, scans, lost, failures>>

-----------------------------------------------------------------------------
(* The webhook: handleDeviceConnected and handleDeviceDisconnected.        *)

\* The handler reads the row; without one the event does nothing.  The handler
\* answers 200 whatever goes wrong, and the engine does not send again: an event
\* whose query fails is lost, and so is one that names the phone's JID, which the
\* query compares with a uuid.  The engine posts each event on its own, so that
\* an event may also overtake another.
HookRead(i) ==
  /\ hook = "none" /\ i \in DOMAIN events
  /\ events' = RemoveAt(events, i)
  /\ \/ /\ i = 1
        /\ hook' = IF row = "absent" THEN "none" ELSE events[i]
        /\ UNCHANGED lost
     \/ /\ lost + failures < MaxFaults /\ lost' = lost + 1
        /\ hook' \in {"none", IF row = "absent" THEN "none" ELSE events[i]}
  /\ UNCHANGED <<row, device, page, req, scans, failures>>

\* Mistake: a disconnected event leaves the row as it is.
HookStoreConnected ==
  /\ hook # "none"
  /\ row' = IF hook = "connected" THEN hook ELSE row
  /\ hook' = "none"
  /\ UNCHANGED <<device, events, page, req, scans, lost, failures>>

\* The update sets the status whatever the row says by now.
HookStore ==
  /\ hook # "none"
  /\ row' = hook
  /\ hook' = "none"
  /\ UNCHANGED <<device, events, page, req, scans, lost, failures>>

-----------------------------------------------------------------------------
(* The card of a page.                                                     *)

\* A reload of the page.
Load(p) ==
  /\ req[p].pc = "idle"
  /\ page' = [page EXCEPT ![p] =
       [shown |-> row, open |-> row = "pending_qr", polling |-> FALSE, heard |-> FALSE]]
  /\ UNCHANGED <<row, device, events, hook, req, scans, lost, failures>>

\* router.refresh: the card is rendered with the row of now and keeps its scanner,
\* except that the card of a row that is new to the page has one if it is pending.
Rendered(card, status, open) ==
  [card EXCEPT !.shown = status,
               !.open = IF card.shown = "absent" /\ status # "absent" THEN status = "pending_qr"
                        ELSE open]

\* What the card draws: without a session or with a disconnected one, and without a
\* scanner, a button that opens the scanner -- a pending session without a scanner has
\* none; with a connected one a button to disconnect.
ConnectButton(p)    == ~page[p].open /\ page[p].shown \in {"absent", "disconnected"}
DisconnectButton(p) == page[p].shown = "connected" /\ req[p].pc = "idle"

\* The scanner's button: for a first code, for another one, or after an error.
CodeButton(p) == page[p].open /\ req[p].pc = "idle"

\* Connect or reconnect: the card shows a scanner.
Open(p) ==
  /\ ConnectButton(p)
  /\ page' = [page EXCEPT ![p].open = TRUE]
  /\ UNCHANGED <<row, device, events, hook, req, scans, lost, failures>>

\* GET of the session: the row.
SessionStatus == row

\* The interval of the scanner reads the row; an answer that fails is ignored.
Poll(p) ==
  /\ page[p].polling /\ ~page[p].heard
  /\ SessionStatus = "connected"
  /\ page' = [page EXCEPT ![p].heard = TRUE]
  /\ UNCHANGED <<row, device, events, hook, req, scans, lost, failures>>

\* Mistake: the answer does not stop the polling.
HeardOn(p) ==
  /\ page[p].heard
  /\ page' = [page EXCEPT ![p] = [Rendered(@, row, FALSE) EXCEPT !.heard = FALSE]]
  /\ UNCHANGED <<row, device, events, hook, req, scans, lost, failures>>

\* The answer stops the polling, closes the scanner and refreshes the page; it is
\* not dropped when a new QR code was asked for in between.
Heard(p) ==
  /\ page[p].heard
  /\ page' = [page EXCEPT ![p] = [Rendered(@, row, FALSE) EXCEPT !.polling = FALSE,
                                                                !.heard = FALSE]]
  /\ UNCHANGED <<row, device, events, hook, req, scans, lost, failures>>

-----------------------------------------------------------------------------
(* POST: requestQR on the page, initSession on the server.                 *)

\* A connected session is refused with 409.
RequestQR(p) ==
  /\ CodeButton(p)
  /\ page' = [page EXCEPT ![p].polling = FALSE]
  /\ req' = IF row = "connected" THEN req
            ELSE [req EXCEPT ![p].pc = "login", ![p].found = row # "absent"]
  /\ UNCHANGED <<row, device, events, hook, scans, lost, failures>>

Refused(p) == req' = [req EXCEPT ![p] = NoRequest] /\ UNCHANGED page

\* Mistake: the row is set to pending before the engine is asked.
InitStoreLogin(p) ==
  /\ req[p].pc = "login"
  /\ row' = "pending_qr"
  /\ IF device = "on" THEN Refused(p) /\ UNCHANGED device
     ELSE /\ device' = IF device = "off" THEN "qr" ELSE device
          /\ req' = [req EXCEPT ![p].pc = "update"]
          /\ UNCHANGED page
  /\ UNCHANGED <<events, hook, scans, lost, failures>>

\* The engine makes a QR code unless the device is connected.  A call that fails
\* or runs into the timeout may have been carried out.
InitLogin(p) ==
  /\ req[p].pc = "login"
  /\ \/ /\ device # "on" /\ NoFailure
        /\ device' = IF device = "off" THEN "qr" ELSE device
        /\ req' = [req EXCEPT ![p].pc = "update"]
        /\ UNCHANGED page
     \/ /\ Refused(p)
        /\ \/ device = "on" /\ NoFailure /\ UNCHANGED device
           \/ /\ Failure
              /\ device' \in {device, IF device = "off" THEN "qr" ELSE device}
  /\ UNCHANGED <<row, events, hook, scans, lost>>

\* An existing row is updated whatever it says by now; a new one is inserted, which
\* the unique index refuses when another request was faster.  The page shows the
\* code and polls: startPolling clears the countdown that was just set, so that a
\* code is shown until the user asks for another.
InitStore(p) ==
  /\ req[p].pc = "update"
  /\ \/ /\ req[p].found \/ row = "absent"
        /\ NoFailure
        /\ row' = "pending_qr"
        /\ req' = [req EXCEPT ![p] = NoRequest]
        /\ page' = [page EXCEPT ![p].polling = TRUE]
        /\ device' = IF device = "qr" THEN "seen" ELSE device
     \/ /\ Refused(p)
        /\ \/ ~req[p].found /\ row # "absent" /\ NoFailure
           \/ Failure
        /\ UNCHANGED <<row, device>>
  /\ UNCHANGED <<events, hook, scans, lost>>

-----------------------------------------------------------------------------
(* DELETE: handleDisconnect on the card, disconnectSession on the server.  *)

Disconnect(p) ==
  /\ DisconnectButton(p)
  /\ req' = [req EXCEPT ![p].pc = "logout"]
  /\ UNCHANGED <<row, device, events, hook, page, scans, lost, failures>>

\* The logout is best effort; a failed one may have been carried out.
Logout(p) ==
  /\ req[p].pc = "logout"
  /\ \/ /\ NoFailure
        /\ device' = "off"
        /\ req' = [req EXCEPT ![p].pc = "disconnect"]
     \/ /\ Failure
        /\ device' \in {device, "off"}
        /\ req' = [req EXCEPT ![p].pc = "disconnect", ![p].failed = TRUE]
  /\ events' = IF device = "on" /\ device' = "off" THEN Append(events, "disconnected")
               ELSE events
  /\ UNCHANGED <<row, hook, page, scans, lost>>

DisconnectStore(p) ==
  /\ req[p].pc = "disconnect"
  /\ req' = [req EXCEPT ![p] = NoRequest]
  /\ \/ /\ NoFailure
        /\ row' = "disconnected"
        /\ page' = [page EXCEPT ![p] = Rendered(@, row', @.open)]
     \/ /\ Failure
        /\ UNCHANGED <<row, page>>
  /\ UNCHANGED <<device, events, hook, scans, lost>>

-----------------------------------------------------------------------------
Engine     == Scan \/ Unlink \/ Expire
Webhook    == HookStore \/ \E i \in 1 .. Len(events) : HookRead(i)
Card(p)    == Load(p) \/ Open(p) \/ Poll(p) \/ Heard(p) \/ RequestQR(p) \/ Disconnect(p)
Handler(p) == InitLogin(p) \/ InitStore(p) \/ Logout(p) \/ DisconnectStore(p)

Next == Engine \/ Webhook \/ \E p \in Pages : Card(p) \/ Handler(p)

Spec == Init /\ [][Next]_vars

\* Handlers run on, and the interval of a page fires and its fetch is answered.
FairSpec == /\ Spec
            /\ WF_vars(Webhook)
            /\ \A p \in Pages : WF_vars(Poll(p)) /\ WF_vars(Heard(p)) /\ WF_vars(Handler(p))

-----------------------------------------------------------------------------
(* Properties                                                              *)

\* The events still to be stored, in the order of the engine.
Unstored == IF hook = "none" THEN events ELSE <<hook>> \o events

\* As long as no event is lost or overtaken, a row that says connected belongs to a
\* device that is connected, or the event that corrects it is on its way: no
\* request, whatever it overlaps with, and no late connected event turns a dead
\* session into a connected one.  (initSession, disconnectSession, the webhook.)
ConnectedIsOn ==
  lost = 0 /\ row = "connected" /\ device # "on" =>
    Unstored # <<>> /\ Last(Unstored) = "disconnected"

\* A connected device loses its connected row only to a disconnected event that is
\* stored, to a write whose engine call came before the scan (the window between
\* gowa.login and the update of initSession, and the one of disconnectSession), or
\* to a disconnect whose logout failed.
OnlyLateWritesHide ==
  [][row = "connected" /\ row' # "connected" /\ device = "on" =>
       \/ hook = "disconnected"
       \/ \E p \in Pages : /\ req[p].pc \in {"update", "disconnect"}
                           /\ req[p].late \/ req[p].failed]_vars

\* A page that polls does not do so for ever next to a row that stays connected:
\* failed polls, other pages and late answers do not make it miss the connection.
PollingSeesConnection ==
  \A p \in Pages : ~<>[](page[p].polling /\ row = "connected")

=============================================================================
