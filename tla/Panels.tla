------------------------------- MODULE Panels -------------------------------
(***************************************************************************)
(* The panels of the dashboard that fetch what the user selected: the      *)
(* analytics panel with its route over daily_stats, the four panels whose  *)
(* routes ask the campus's agent, the WhatsApp statistics and the          *)
(* knowledge base.  The user selects faster than the server answers, so    *)
(* that answers for an earlier selection arrive late, calls fail, and rows *)
(* are stored or deleted between the statements of one request.            *)
(*                                                                         *)
(* The panels differ in what they do with a late answer and an error; a    *)
(* profile says so for each.  The rows of a tenant stand for its daily     *)
(* statistics, its loans, items, members, messages or entries: a row is a  *)
(* number, an answer the sets of the rows that its statements read.        *)
(***************************************************************************)
EXTENDS Integers, FiniteSets

CONSTANTS
  Selections,   \* what can be selected
  TenantOf,     \* the tenant of a selection
  HomeTenant,   \* the tenant of the user's account
  RowsOf,       \* the rows a selection asks for
  Tenants,
  Rows,
  Calls,        \* requests that can be in flight at a time
  None,         \* no answer
  MaxChanges,   \* bound: how often the user selects, reopens or changes an entry
  MaxRows,      \* bound: rows stored while the page is open
  MaxFailures   \* bound: requests that fail

ASSUME PanelsAssumption ==
  /\ TenantOf \in [Selections -> Tenants] /\ HomeTenant \in Tenants
  /\ RowsOf \in [Selections -> SUBSET Rows]
  /\ None \notin [sel: Selections, chart: SUBSET Rows, totals: SUBSET Rows,
                  types: SUBSET Rows, by: {"effect", "retry", "act", "save"}]
  /\ MaxChanges \in Nat /\ MaxRows \in Nat /\ MaxFailures \in Nat

VARIABLES
  panel,     \* the profile of the panel
  sel,       \* what is selected
  calls,     \* the requests in flight
  shown,     \* data: the last answer that was taken
  loading,   \* isLoading
  error,     \* an error is displayed instead of the data
  stored,    \* per tenant: the rows of the database or the campus
  changes,   \* of these so far
  failures   \* failed requests so far

vars == <<panel, sel, calls, shown, loading, error, stored, changes, failures>>

-----------------------------------------------------------------------------
(* The panels.  drops: a new selection aborts or ignores the request of the *)
(* old one; errors: a failed request is displayed; retries: its button      *)
(* fetches again; repeats: an interval fetches again; acts: the panel       *)
(* changes rows and then fetches; skeleton: a new selection shows that it   *)
(* loads; draws: the drawings in which there is also data that it holds;    *)
(* selects: those in which its selectors are there and enabled.             *)

Drawings == {"loading", "error", "data"}

AnalyticsPanel ==
  [source |-> "stats", drops |-> TRUE, errors |-> TRUE, retries |-> TRUE,
   repeats |-> FALSE, acts |-> FALSE, skeleton |-> TRUE,
   draws |-> {"data"}, selects |-> Drawings]
\* The message replaces the whole panel, its selector included.
ActivityPanel ==
  [source |-> "activity", drops |-> TRUE, errors |-> TRUE, retries |-> FALSE,
   repeats |-> FALSE, acts |-> FALSE, skeleton |-> TRUE,
   draws |-> {"data"}, selects |-> {"data"}]
\* The summary cards stay when another selection loads, under its label, and the
\* list beside an error.
DeadStockPanel ==
  [source |-> "dead", drops |-> TRUE, errors |-> TRUE, retries |-> FALSE,
   repeats |-> FALSE, acts |-> FALSE, skeleton |-> TRUE,
   draws |-> Drawings, selects |-> {"data", "error"}]
\* The list stays beside an error.
TopBooksPanel ==
  [source |-> "top", drops |-> TRUE, errors |-> TRUE, retries |-> FALSE,
   repeats |-> FALSE, acts |-> FALSE, skeleton |-> TRUE,
   draws |-> {"data", "error"}, selects |-> {"data", "error"}]
\* Nothing to select.
CollectionPanel ==
  [source |-> "collection", drops |-> TRUE, errors |-> TRUE, retries |-> FALSE,
   repeats |-> FALSE, acts |-> FALSE, skeleton |-> TRUE,
   draws |-> {"data"}, selects |-> {}]
\* Mistake: the statistics are fetched once for each tenant.
MessageStatsOnce ==
  [source |-> "messages", drops |-> FALSE, errors |-> FALSE, retries |-> FALSE,
   repeats |-> FALSE, acts |-> FALSE, skeleton |-> FALSE,
   draws |-> {"data"}, selects |-> Drawings]
\* Every 30 seconds, and a late answer for the tenant before is taken.
MessageStats ==
  [source |-> "messages", drops |-> FALSE, errors |-> FALSE, retries |-> FALSE,
   repeats |-> TRUE, acts |-> FALSE, skeleton |-> FALSE,
   draws |-> {"data"}, selects |-> Drawings]
\* A save, a toggle or a deletion ends with loadEntries of the tenant that was
\* selected when it was clicked.
KnowledgeBasePage ==
  [source |-> "entries", drops |-> FALSE, errors |-> FALSE, retries |-> FALSE,
   repeats |-> FALSE, acts |-> TRUE, skeleton |-> TRUE,
   draws |-> {"data"}, selects |-> Drawings]

AllPanels == {AnalyticsPanel, ActivityPanel, DeadStockPanel, TopBooksPanel, CollectionPanel,
              MessageStats, KnowledgeBasePage}

AgentSources == {"activity", "dead", "top", "collection"}
Profile == [source: AgentSources \cup {"stats", "messages", "entries"}, drops: BOOLEAN,
            errors: BOOLEAN, retries: BOOLEAN, repeats: BOOLEAN,
            acts: BOOLEAN, skeleton: BOOLEAN,
            draws: SUBSET Drawings, selects: SUBSET Drawings]
\* chart: what the first statement read; totals and types: the second and the third.
Answer == [sel: Selections, chart: SUBSET Rows, totals: SUBSET Rows,
           types: SUBSET Rows, by: {"effect", "retry", "act", "save"}]
\* act to third are the server's and the agent's steps; the last two are answers.
Call   == [pc: {"free", "act", "first", "asked", "second", "third", "ok", "failed"},
           answer: Answer]

TypeOK ==
  /\ panel \in Profile
  /\ sel \in Selections
  /\ calls \in [Calls -> Call]
  /\ shown \in Answer \cup {None}
  /\ loading \in BOOLEAN
  /\ error \in BOOLEAN
  /\ stored \in [Tenants -> SUBSET Rows]
  /\ changes \in Nat
  /\ failures \in Nat

\* A request for a selection, by the effect, the retry button, the form's save or
\* another act.
Request(s, by, pc) ==
  [pc |-> pc,
   answer |-> [sel |-> s, chart |-> {}, totals |-> {}, types |-> {}, by |-> by]]
FreeCall == Request(CHOOSE s \in Selections : TRUE, "effect", "free")
Free(c) == calls[c] = FreeCall

Init ==
  /\ panel \in AllPanels
  /\ sel \in Selections
  /\ \E c \in Calls : calls = [d \in Calls |-> IF d = c THEN Request(sel, "effect", "first")
                                              ELSE FreeCall]
  /\ shown = None
  /\ loading = TRUE
  /\ error = FALSE
  /\ stored = [t \in Tenants |-> {}]
  /\ changes = 0
  /\ failures = 0

\* The routes that ask the agent take the tenant of the session, the others the one
\* of their query.
TenantAsked(s) == IF panel.source \in AgentSources THEN HomeTenant ELSE TenantOf[s]

Stored(c) == stored[TenantAsked(calls[c].answer.sel)] \cap RowsOf[calls[c].answer.sel]

-----------------------------------------------------------------------------
(* The database and the campus.                                            *)

\* A day is pushed, a book is lent, a message answered, an entry added elsewhere.
Store(t, r) ==
  /\ r \notin stored[t] /\ Cardinality(UNION {stored[u] : u \in Tenants}) < MaxRows
  /\ stored' = [stored EXCEPT ![t] = @ \cup {r}]
  /\ UNCHANGED <<panel, sel, calls, shown, loading, error, changes, failures>>

-----------------------------------------------------------------------------
(* The page.                                                               *)

\* Mistake: the request of the selection before is neither aborted nor ignored.
KeptCalls == calls

\* What the cleanup of the effect leaves of the requests: a retry and an act are
\* not the effect's.
RemainingCalls ==
  [c \in Calls |-> IF panel.drops /\ calls[c].answer.by = "effect" THEN FreeCall ELSE calls[c]]

Drawn == IF loading THEN "loading" ELSE IF error THEN "error" ELSE "data"

\* Another selection: the effect runs again and fetches.
Select(s, c) ==
  /\ changes < MaxChanges
  /\ Drawn \in panel.selects
  /\ s # sel /\ RemainingCalls[c] = FreeCall
  /\ sel' = s
  /\ calls' = [RemainingCalls EXCEPT ![c] = Request(s, "effect", "first")]
  /\ loading' = (loading \/ panel.skeleton)
  /\ error' = FALSE
  /\ changes' = changes + 1
  /\ UNCHANGED <<panel, shown, stored, failures>>

\* The user looks at another tab and comes back: the panel is mounted anew, with
\* its default selection or the one of the URL, and the answers that were under way
\* reach nobody.
Reopen(s, c) ==
  /\ changes < MaxChanges
  /\ panel.source # "entries"
  /\ panel.source = "stats" => s = sel
  /\ sel' = s
  /\ calls' = [d \in Calls |-> IF d = c THEN Request(s, "effect", "first") ELSE FreeCall]
  /\ shown' = None
  /\ loading' = TRUE
  /\ error' = FALSE
  /\ changes' = changes + 1
  /\ UNCHANGED <<panel, stored, failures>>

\* handleRetry fetches what is selected now.
Retry(c) ==
  /\ panel.retries /\ error /\ Free(c)
  /\ calls' = [calls EXCEPT ![c] = Request(sel, "retry", "first")]
  /\ loading' = TRUE
  /\ error' = FALSE
  /\ UNCHANGED <<panel, sel, shown, stored, changes, failures>>

\* The interval fires.
Repeat(c) ==
  /\ panel.repeats /\ Free(c)
  /\ calls' = [calls EXCEPT ![c] = Request(sel, "effect", "first")]
  /\ UNCHANGED <<panel, sel, shown, loading, error, stored, changes, failures>>

\* The form's button is disabled while it saves; to switch or delete an entry it
\* must be listed.
CanAct(by) ==
  \/ by = "save" /\ \A c \in Calls : calls[c].answer.by # "save"
  \/ by = "act" /\ Drawn = "data" /\ shown # None /\ shown.chart # {}

\* handleSave, handleToggle, handleDelete: the request that changes an entry.
Act(c) ==
  /\ panel.acts /\ Free(c)
  /\ \E by \in {"save", "act"} :
       CanAct(by) /\ calls' = [calls EXCEPT ![c] = Request(sel, by, "act")]
  /\ changes < MaxChanges /\ changes' = changes + 1
  /\ UNCHANGED <<panel, sel, shown, loading, error, stored, failures>>

\* Mistake: the response is stored instead of the data in it.
DeliverResponse(c) ==
  /\ calls[c].pc = "ok"
  /\ shown' = calls[c]
  /\ loading' = FALSE
  /\ calls' = [calls EXCEPT ![c] = FreeCall]
  /\ UNCHANGED <<panel, sel, error, stored, changes, failures>>

\* An answer is taken whatever is selected by now.
Deliver(c) ==
  /\ calls[c].pc = "ok"
  /\ shown' = calls[c].answer
  /\ loading' = FALSE
  /\ calls' = [calls EXCEPT ![c] = FreeCall]
  /\ UNCHANGED <<panel, sel, error, stored, changes, failures>>

\* Mistake: an error is taken for an abort and passed over.
DeliverNothing(c) ==
  /\ calls[c].pc = "failed"
  /\ calls' = [calls EXCEPT ![c] = FreeCall]
  /\ UNCHANGED <<panel, sel, shown, loading, error, stored, changes, failures>>

\* An error is displayed, or the data is left as it is.
DeliverError(c) ==
  /\ calls[c].pc = "failed"
  /\ error' = (error \/ panel.errors)
  /\ loading' = FALSE
  /\ calls' = [calls EXCEPT ![c] = FreeCall]
  /\ UNCHANGED <<panel, sel, shown, stored, changes, failures>>

-----------------------------------------------------------------------------
(* The routes.                                                             *)

\* What a request read with one of its statements, and where it goes on.
Read(c, field, rows, pc) ==
  /\ calls' = [calls EXCEPT ![c].answer[field] = rows, ![c].pc = pc]
  /\ UNCHANGED <<panel, sel, shown, loading, error, stored, changes, failures>>

\* GET stats: fetchAggregatedData, and computeTotals after it.
StatsRead(c) ==
  /\ panel.source = "stats"
  /\ \/ calls[c].pc = "first" /\ Read(c, "chart", Stored(c), "second")
     \/ calls[c].pc = "second" /\ Read(c, "totals", Stored(c), "ok")

\* callAgentAnalytics reads the tenant's credentials and asks the agent.
AgentRequest(c) ==
  /\ panel.source \in AgentSources
  /\ calls[c].pc = "first" /\ Read(c, "chart", {}, "asked")

\* The books that were lent.  The list counts a loan once for each author and the
\* total next to it once: the two are not compared, and one statement stands for both.
TopBooks(c) ==
  /\ panel.source = "top"
  /\ calls[c].pc = "asked" /\ Read(c, "chart", Stored(c), "ok")

\* The items that were not lent, as many as the limit allows and the catalogue knows.
\* computeSummary counts on its own: nothing is compared here either.
DeadStock(c) ==
  /\ panel.source = "dead" /\ calls[c].pc = "asked"
  /\ Read(c, "chart", RowsOf[calls[c].answer.sel] \ Stored(c), "ok")

\* Mistake: the totals are read before the list.
TotalsThenList(c, after) ==
  \/ calls[c].pc = "asked" /\ Read(c, "totals", Stored(c), "second")
  \/ calls[c].pc = "second" /\ Read(c, "chart", Stored(c), after)

\* What a chart draws, and the numbers above it in a statement of their own.
ListThenTotals(c, after) ==
  \/ calls[c].pc = "asked" /\ Read(c, "chart", Stored(c), "second")
  \/ calls[c].pc = "second" /\ Read(c, "totals", Stored(c), after)

\* The items of each class, the headline totals, and the items of each type.
CollectionStats(c) ==
  /\ panel.source = "collection"
  /\ \/ ListThenTotals(c, "third")
     \/ calls[c].pc = "third" /\ Read(c, "types", Stored(c), "ok")

\* fetchTrends, and the active members that fetchActivity counts in the loans of the
\* same months.  (The members as such are another table, read in between.)
MemberActivity(c) == panel.source = "activity" /\ ListThenTotals(c, "ok")

\* GET whatsapp/stats reads the messages of the day.
MessagesRead(c) ==
  /\ panel.source = "messages" /\ calls[c].pc = "first"
  /\ Read(c, "chart", Stored(c), "ok")

\* GET knowledge-base reads the entries of the tenant.
EntriesRead(c) ==
  /\ panel.source = "entries" /\ calls[c].pc = "first"
  /\ Read(c, "chart", Stored(c), "ok")

\* POST, PUT or DELETE of an entry, an error of the route included; then
\* loadEntries.
EntryChanged(c) ==
  LET t == TenantOf[calls[c].answer.sel] IN
  /\ calls[c].pc = "act"
  /\ \/ UNCHANGED stored
     \/ \E r \in Rows : stored' = [stored EXCEPT ![t] = IF r \in @ THEN @ \ {r} ELSE @ \cup {r}]
  /\ calls' = [calls EXCEPT ![c].pc = "first"]
  /\ loading' = TRUE
  /\ UNCHANGED <<panel, sel, shown, error, changes, failures>>

\* A statement, the agent or the connection fails, or queryAgent's timeout runs
\* out.  An act whose request gets no answer fetches nothing.
Fail(c) ==
  /\ calls[c].pc \in {"act", "first", "asked", "second", "third"}
  /\ failures < MaxFailures /\ failures' = failures + 1
  /\ calls' = [calls EXCEPT ![c] = IF @.pc = "act" THEN FreeCall ELSE [@ EXCEPT !.pc = "failed"]]
  /\ UNCHANGED <<panel, sel, shown, loading, error, stored, changes>>

-----------------------------------------------------------------------------
Route(c)  == \/ StatsRead(c) \/ MessagesRead(c) \/ EntriesRead(c) \/ EntryChanged(c)
             \/ AgentRequest(c) \/ TopBooks(c) \/ DeadStock(c) \/ CollectionStats(c)
             \/ MemberActivity(c)
Answered(c) == Deliver(c) \/ DeliverError(c)

Next ==
  \/ \E t \in Tenants, r \in Rows : Store(t, r)
  \/ \E c \in Calls : \/ \E s \in Selections : Select(s, c) \/ Reopen(s, c)
                      \/ Retry(c) \/ Repeat(c) \/ Act(c)
                      \/ Route(c) \/ Fail(c) \/ Answered(c)

Spec == Init /\ [][Next]_vars

\* Requests are answered -- queryAgent has its timeout, the other routes wait for
\* the database only -- and the interval fires.
FairSpec == /\ Spec
            /\ \A c \in Calls : WF_vars(Route(c)) /\ WF_vars(Answered(c))
            /\ WF_vars(\E c \in Calls : Repeat(c))

-----------------------------------------------------------------------------
(* Properties                                                              *)

\* Data that the panel holds is drawn, all of it or some.
Displayed == Drawn \in panel.draws /\ shown # None

\* A panel that drops late answers displays what is selected, however selections,
\* answers and errors follow each other.  There are two exceptions: the answer of a
\* retry, which nobody aborts, and what two panels leave of the data before beside
\* the skeleton or the error of the new selection.
DisplaysSelection ==
  panel.drops /\ Displayed =>
    \/ shown.sel = sel
    \/ shown.by = "retry"
    \/ panel.source \in {"dead", "top"} /\ Drawn # "data"

\* Rows are stored between the statements of a request, and no day, item or loan that
\* a chart draws is missing from the totals above it: in the stats route, in the
\* collection's classes and in the loans of the members.  The chart of the collection
\* types is read last and may have more than the totals, never less.  The claim holds
\* for rows that are only added: nobody deletes a tenant, an item or a loan meanwhile.
ListAgreesWithTotals ==
  shown # None =>
    /\ panel.source \in {"stats", "activity", "collection"} => shown.chart \subseteq shown.totals
    /\ panel.source = "collection" => shown.totals \subseteq shown.types

\* What loads ends with data or an error, whatever was aborted or failed.
LoadingEnds == loading ~> ~loading

\* The WhatsApp statistics end up with the messages of the tenant that is selected,
\* after late answers for another tenant and failed requests too.
MessagesCatchUp ==
  panel.source = "messages" =>
    <>[](/\ shown # None
         /\ shown.sel = sel
         /\ shown.chart = stored[TenantOf[sel]] \cap RowsOf[sel])

=============================================================================
