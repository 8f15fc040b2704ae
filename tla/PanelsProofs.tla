---------------------------- MODULE PanelsProofs ----------------------------
(***************************************************************************)
(* Proofs about Panels, for every set of selections, rows and calls and    *)
(* all bounds.  After the types, SelectionInv follows what a panel that    *)
(* drops late answers may display: a request of its effect that is not     *)
(* over is for what is selected now, and until a new selection is answered *)
(* a panel draws the skeleton or the error, with nothing beside it but in  *)
(* the two panels that the property names.  ListInv follows the statements *)
(* of a request: what one has read is still stored when the next one reads.*)
(***************************************************************************)
EXTENDS Panels, TLAPS

USE PanelsAssumption

-----------------------------------------------------------------------------
(* Types.                                                                  *)

LEMMA RequestType ==
  ASSUME NEW s \in Selections, NEW by \in {"effect", "retry", "act", "save"},
         NEW pc \in {"free", "act", "first", "asked", "second", "third", "ok", "failed"}
  PROVE  Request(s, by, pc) \in Call
BY DEF Request, Call, Answer

LEMMA FreeCallType ==
  ASSUME TypeOK
  PROVE  FreeCall \in Call
<1>1. (CHOOSE s \in Selections : TRUE) \in Selections
  BY DEF TypeOK
<1> QED BY <1>1, RequestType DEF FreeCall

\* What a panel of the page is: the combinations the invariants use.
LEMMA PanelFacts ==
  ASSUME panel \in AllPanels
  PROVE  /\ panel \in Profile
         /\ panel.drops => panel.errors /\ panel.skeleton /\ ~panel.acts
         /\ panel.drops => panel.source # "entries"
         /\ panel.drops => \/ panel.source \in {"dead", "top"}
                           \/ "loading" \notin panel.draws /\ "error" \notin panel.draws
         /\ panel.acts => panel.source = "entries"
<1> USE DEF AllPanels, AnalyticsPanel, ActivityPanel, DeadStockPanel, TopBooksPanel,
            CollectionPanel, MessageStats, KnowledgeBasePage
<1>1. panel.drops => panel.errors /\ panel.skeleton /\ ~panel.acts
  OBVIOUS
<1>2. panel.acts => panel.source = "entries"
  OBVIOUS
<1>3. panel.drops => panel.source # "entries"
  OBVIOUS
<1>9. panel.drops => \/ panel.source \in {"dead", "top"}
                     \/ "loading" \notin panel.draws /\ "error" \notin panel.draws
  OBVIOUS
<1> USE DEF Drawings
<1>4. AnalyticsPanel \in Profile
  BY DEF Profile, AgentSources
<1>6. ActivityPanel \in Profile /\ DeadStockPanel \in Profile
  BY DEF Profile, AgentSources
<1>7. TopBooksPanel \in Profile /\ CollectionPanel \in Profile
  BY DEF Profile, AgentSources
<1>8. MessageStats \in Profile /\ KnowledgeBasePage \in Profile
  BY DEF Profile, AgentSources
<1>5. panel \in Profile
  BY Zenon, <1>4, <1>6, <1>7, <1>8 DEF AllPanels
<1> QED BY <1>1, <1>2, <1>3, <1>5, <1>9

LEMMA InitType == Init => TypeOK /\ panel \in AllPanels
<1> SUFFICES ASSUME Init PROVE TypeOK /\ panel \in AllPanels
  OBVIOUS
<1>1. panel \in AllPanels /\ panel \in Profile
  BY PanelFacts DEF Init
<1>2. sel \in Selections
  BY DEF Init
<1>3. (CHOOSE s \in Selections : TRUE) \in Selections
  BY <1>2
<1>4. FreeCall \in Call /\ Request(sel, "effect", "first") \in Call
  BY <1>2, <1>3, RequestType DEF FreeCall
<1>5. calls \in [Calls -> Call]
  BY <1>4 DEF Init
<1> QED BY <1>1, <1>2, <1>5 DEF Init, TypeOK

LEMMA RemainingType ==
  ASSUME TypeOK
  PROVE  RemainingCalls \in [Calls -> Call]
BY FreeCallType DEF RemainingCalls, TypeOK

\* What the cleanup leaves of one request.
LEMMA RemainingCall ==
  ASSUME NEW d \in Calls
  PROVE  RemainingCalls[d] = IF panel.drops /\ calls[d].answer.by = "effect"
                             THEN FreeCall ELSE calls[d]
BY DEF RemainingCalls

LEMMA ReadType ==
  ASSUME TypeOK, NEW c \in Calls, NEW field \in {"chart", "totals", "types"}, NEW rows \in SUBSET Rows,
         NEW pc \in {"asked", "second", "third", "ok"}, Read(c, field, rows, pc)
  PROVE  TypeOK'
<1>1. calls[c] \in Call
  BY DEF TypeOK
<1>2. [calls[c] EXCEPT !.answer[field] = rows, !.pc = pc] \in Call
  <2>1. CASE field = "chart"
    BY <1>1, <2>1 DEF Call, Answer
  <2>2. CASE field = "totals"
    BY <1>1, <2>2 DEF Call, Answer
  <2>3. CASE field = "types"
    BY <1>1, <2>3 DEF Call, Answer
  <2> QED BY <2>1, <2>2, <2>3
<1>3. calls' \in [Calls -> Call]
  BY <1>2 DEF Read, TypeOK
<1> QED BY <1>3 DEF Read, TypeOK

LEMMA StoredType ==
  ASSUME TypeOK, NEW c \in Calls
  PROVE  /\ Stored(c) \in SUBSET Rows
         /\ RowsOf[calls[c].answer.sel] \ Stored(c) \in SUBSET Rows
<1>1. calls[c] \in Call
  BY DEF TypeOK
<1>2. calls[c].answer.sel \in Selections
  BY <1>1 DEF Call, Answer
<1>3. Stored(c) \in SUBSET Rows /\ RowsOf[calls[c].answer.sel] \in SUBSET Rows
  BY <1>2 DEF Stored, TypeOK
<1> QED BY <1>3

\* Each step of a route but the change of an entry is one statement: what it reads
\* into which field, from where and where to.
LEMMA RouteReads ==
  ASSUME NEW c \in Calls, Route(c), ~EntryChanged(c)
  PROVE  \/ /\ panel.source \in {"stats", "collection", "activity"}
            /\ \/ /\ calls[c].pc = "first"
                  /\ panel.source = "stats"
                  /\ Read(c, "chart", Stored(c), "second")
               \/ /\ calls[c].pc = "asked" /\ Read(c, "chart", Stored(c), "second")
               \/ /\ calls[c].pc = "second" /\ panel.source # "collection"
                  /\ Read(c, "totals", Stored(c), "ok")
               \/ /\ calls[c].pc = "second" /\ panel.source = "collection"
                  /\ Read(c, "totals", Stored(c), "third")
               \/ /\ calls[c].pc = "third" /\ panel.source = "collection"
                  /\ Read(c, "types", Stored(c), "ok")
         \/ /\ panel.source \in AgentSources
            /\ calls[c].pc = "first" /\ Read(c, "chart", {}, "asked")
         \/ /\ panel.source \in {"top", "dead", "messages", "entries"}
            /\ calls[c].pc \in {"first", "asked"}
            /\ \E rows \in {Stored(c), RowsOf[calls[c].answer.sel] \ Stored(c)} :
                  Read(c, "chart", rows, "ok")
<1>1. CASE StatsRead(c)
  BY <1>1 DEF StatsRead
<1>2. CASE AgentRequest(c)
  BY <1>2 DEF AgentRequest
<1>3. CASE TopBooks(c) \/ DeadStock(c)
  BY <1>3 DEF TopBooks, DeadStock
<1>4. CASE CollectionStats(c)
  BY <1>4 DEF CollectionStats, ListThenTotals
<1>5. CASE MemberActivity(c)
  BY <1>5 DEF MemberActivity, ListThenTotals
<1>6. CASE MessagesRead(c) \/ EntriesRead(c)
  BY <1>6 DEF MessagesRead, EntriesRead
<1> QED BY <1>1, <1>2, <1>3, <1>4, <1>5, <1>6 DEF Route

\* So every step of a route is a read, or the change of an entry.
LEMMA RouteIsRead ==
  ASSUME TypeOK, NEW c \in Calls, Route(c), ~EntryChanged(c)
  PROVE  \E field \in {"chart", "totals", "types"}, rows \in SUBSET Rows,
            pc \in {"asked", "second", "third", "ok"} :
            Read(c, field, rows, pc) /\ calls[c].pc # "free"
<1>1. /\ Stored(c) \in SUBSET Rows /\ {} \in SUBSET Rows
      /\ RowsOf[calls[c].answer.sel] \ Stored(c) \in SUBSET Rows
  BY StoredType
<1> QED BY <1>1, RouteReads

LEMMA RouteType ==
  ASSUME TypeOK, NEW c \in Calls, Route(c)
  PROVE  TypeOK'
<1>1. CASE ~EntryChanged(c)
  BY <1>1, RouteIsRead, ReadType
<1>6. CASE EntryChanged(c)
  <2>1. calls[c] \in Call
    BY DEF TypeOK
  <2>2. [calls[c] EXCEPT !.pc = "first"] \in Call
    BY <2>1 DEF Call
  <2>3. calls' \in [Calls -> Call]
    BY <1>6, <2>2 DEF EntryChanged, TypeOK
  <2>4. stored' \in [Tenants -> SUBSET Rows]
    <3> DEFINE t == TenantOf[calls[c].answer.sel]
    <3>1. CASE UNCHANGED stored
      BY <3>1 DEF TypeOK
    <3>2. ASSUME NEW r \in Rows,
                 stored' = [stored EXCEPT ![t] = IF r \in @ THEN @ \ {r} ELSE @ \cup {r}]
          PROVE  stored' \in [Tenants -> SUBSET Rows]
      <4>1. t \in Tenants
        BY <2>1 DEF Call, Answer
      <4>2. (IF r \in stored[t] THEN stored[t] \ {r} ELSE stored[t] \cup {r}) \in SUBSET Rows
        BY <4>1 DEF TypeOK
      <4> HIDE DEF t
      <4> QED BY <3>2, <4>1, <4>2 DEF TypeOK
    <3> QED BY <1>6, <3>1, <3>2 DEF EntryChanged
  <2>5. loading' \in BOOLEAN /\ error' \in BOOLEAN
    BY <1>6 DEF EntryChanged, TypeOK
  <2> QED BY <1>6, <2>3, <2>4, <2>5 DEF EntryChanged, TypeOK
<1> QED BY <1>1, <1>6

LEMMA AnsweredType ==
  ASSUME TypeOK, NEW c \in Calls, Answered(c)
  PROVE  TypeOK'
<1>1. calls[c] \in Call /\ FreeCall \in Call
  BY FreeCallType DEF TypeOK
<1>2. CASE Deliver(c)
  <2>1. shown' \in Answer
    BY <1>1, <1>2 DEF Deliver, Call
  <2>2. calls' \in [Calls -> Call]
    BY <1>1, <1>2 DEF Deliver, TypeOK
  <2> QED BY <1>2, <2>1, <2>2 DEF Deliver, TypeOK
<1>3. CASE DeliverError(c)
  <2>1. calls' \in [Calls -> Call]
    BY <1>1, <1>3 DEF DeliverError, TypeOK
  <2>2. error' \in BOOLEAN
    BY <1>3 DEF DeliverError
  <2> QED BY <1>3, <2>1, <2>2 DEF DeliverError, TypeOK
<1> QED BY <1>2, <1>3 DEF Answered

LEMMA FailType ==
  ASSUME TypeOK, NEW c \in Calls, Fail(c)
  PROVE  TypeOK'
<1>1. calls[c] \in Call /\ FreeCall \in Call
  BY FreeCallType DEF TypeOK
<1>2. [calls[c] EXCEPT !.pc = "failed"] \in Call
  BY <1>1 DEF Call
<1>3. calls' \in [Calls -> Call]
  BY <1>1, <1>2 DEF Fail, TypeOK
<1> QED BY <1>3 DEF Fail, TypeOK

LEMMA PageType ==
  ASSUME TypeOK, NEW c \in Calls,
         \/ \E s \in Selections : Select(s, c) \/ Reopen(s, c)
         \/ Retry(c) \/ Repeat(c) \/ Act(c)
  PROVE  TypeOK'
<1>1. sel \in Selections
  BY DEF TypeOK
<1>2. CASE \E s \in Selections : Select(s, c)
  <2>1. PICK s \in Selections : Select(s, c)
    BY <1>2
  <2>2. RemainingCalls \in [Calls -> Call] /\ Request(s, "effect", "first") \in Call
    BY RemainingType, RequestType
  <2>3. calls' \in [Calls -> Call]
    BY <2>1, <2>2 DEF Select
  <2>4. loading' \in BOOLEAN /\ error' \in BOOLEAN
    BY <2>1 DEF Select
  <2>5. changes' \in Nat
    BY <2>1 DEF Select, TypeOK
  <2> QED BY <2>1, <2>3, <2>4, <2>5 DEF Select, TypeOK
<1>3. CASE Retry(c)
  <2>1. Request(sel, "retry", "first") \in Call
    BY <1>1, RequestType
  <2> QED BY <1>3, <2>1 DEF Retry, TypeOK
<1>4. CASE Repeat(c)
  <2>1. Request(sel, "effect", "first") \in Call
    BY <1>1, RequestType
  <2> QED BY <1>4, <2>1 DEF Repeat, TypeOK
<1>5. CASE Act(c)
  <2>1. PICK by \in {"save", "act"} : calls' = [calls EXCEPT ![c] = Request(sel, by, "act")]
    BY <1>5 DEF Act
  <2>2. Request(sel, by, "act") \in Call
    BY <1>1, RequestType
  <2>3. changes' \in Nat
    BY <1>5 DEF Act, TypeOK
  <2> QED BY <1>5, <2>1, <2>2, <2>3 DEF Act, TypeOK
<1>6. CASE \E s \in Selections : Reopen(s, c)
  <2>1. PICK s \in Selections : Reopen(s, c)
    BY <1>6
  <2>2. FreeCall \in Call /\ Request(s, "effect", "first") \in Call
    BY FreeCallType, RequestType
  <2>3. calls' \in [Calls -> Call]
    BY <2>1, <2>2 DEF Reopen
  <2>4. changes' \in Nat
    BY <2>1 DEF Reopen, TypeOK
  <2> QED BY <2>1, <2>3, <2>4 DEF Reopen, TypeOK
<1> QED BY <1>2, <1>3, <1>4, <1>5, <1>6

\* No step changes the panel.
LEMMA PanelStays == [Next]_vars => panel' = panel
<1> SUFFICES ASSUME [Next]_vars PROVE panel' = panel
  OBVIOUS
<1>1. CASE UNCHANGED vars
  BY <1>1 DEF vars
<1>2. CASE \E t \in Tenants, r \in Rows : Store(t, r)
  BY <1>2 DEF Store
<1>3. CASE \E c \in Calls : \/ \E s \in Selections : Select(s, c) \/ Reopen(s, c)
                            \/ Retry(c) \/ Repeat(c) \/ Act(c)
                            \/ Route(c) \/ Fail(c) \/ Answered(c)
  BY <1>3 DEF Select, Reopen, Retry, Repeat, Act, Route, StatsRead, AgentRequest, TopBooks,
              DeadStock, ListThenTotals, CollectionStats, MemberActivity, MessagesRead,
              EntriesRead, EntryChanged, Read, Fail, Answered, Deliver, DeliverError
<1> QED BY <1>1, <1>2, <1>3 DEF Next

LEMMA NextType ==
  ASSUME TypeOK, [Next]_vars
  PROVE  TypeOK'
<1>1. CASE UNCHANGED vars
  BY <1>1 DEF vars, TypeOK
<1>2. CASE \E t \in Tenants, r \in Rows : Store(t, r)
  BY <1>2 DEF Store, TypeOK
<1>3. CASE \E c \in Calls : \/ \E s \in Selections : Select(s, c) \/ Reopen(s, c)
                            \/ Retry(c) \/ Repeat(c) \/ Act(c)
                            \/ Route(c) \/ Fail(c) \/ Answered(c)
  BY <1>3, PageType, RouteType, FailType, AnsweredType
<1> QED BY <1>1, <1>2, <1>3 DEF Next

\* A panel is one of the page's panels, and its state, its requests and the rows of
\* the database keep their types.
THEOREM PanelsTypeCorrect == Spec => [](TypeOK /\ panel \in AllPanels)
<1>1. Init => TypeOK /\ panel \in AllPanels
  BY InitType
<1>2. TypeOK /\ panel \in AllPanels /\ [Next]_vars => (TypeOK /\ panel \in AllPanels)'
  BY NextType, PanelStays
<1> QED BY <1>1, <1>2, PTL DEF Spec

-----------------------------------------------------------------------------
(* What is displayed is what is selected.                                  *)

\* The effect's requests that are not over are for what is selected, and nobody
\* else but the retry button fetches.
InFlight(c) ==
  /\ calls[c].pc # "act"
  /\ calls[c].pc # "free" => \/ /\ calls[c].answer.by = "effect"
                                /\ calls[c].answer.sel = sel
                             \/ calls[c].answer.by = "retry"

SelectionInv ==
  panel.drops => /\ \A c \in Calls : InFlight(c)
                 /\ DisplaysSelection

LEMMA FreeCallIsFree == FreeCall.pc = "free"
BY DEF FreeCall, Request

LEMMA InitSelection == Init => SelectionInv
<1> SUFFICES ASSUME Init, NEW c \in Calls PROVE InFlight(c) /\ DisplaysSelection
  BY DEF SelectionInv, DisplaysSelection, Displayed, Drawn, Init
<1>1. calls[c] = FreeCall \/ calls[c] = Request(sel, "effect", "first")
  BY DEF Init
<1>2. InFlight(c)
  BY <1>1, FreeCallIsFree DEF InFlight, Request
<1> QED BY <1>2 DEF DisplaysSelection, Displayed, Drawn, Init

\* A step of a request that keeps who asked and for what.
LEMMA SelectionKept ==
  ASSUME TypeOK, SelectionInv, panel.drops, NEW c \in Calls, NEW call \in Call,
         calls' = [calls EXCEPT ![c] = call],
         call.pc # "act",
         call.pc # "free" => /\ calls[c].pc # "free"
                             /\ call.answer.by = calls[c].answer.by
                             /\ call.answer.sel = calls[c].answer.sel,
         sel' = sel
  PROVE  \A d \in Calls : InFlight(d)'
<1> SUFFICES ASSUME NEW d \in Calls PROVE InFlight(d)'
  OBVIOUS
<1>1. InFlight(d) /\ InFlight(c)
  BY DEF SelectionInv
<1>2. CASE d = c
  <2>1. calls'[d] = call
    BY <1>2 DEF TypeOK
  <2> QED BY <1>1, <1>2, <2>1 DEF InFlight
<1>3. CASE d # c
  <2>1. calls'[d] = calls[d]
    BY <1>3 DEF TypeOK
  <2> QED BY <1>1, <2>1 DEF InFlight
<1> QED BY <1>2, <1>3

LEMMA ReadSelection ==
  ASSUME TypeOK, SelectionInv, panel.drops, NEW c \in Calls, NEW field \in {"chart", "totals", "types"},
         NEW rows \in SUBSET Rows, NEW pc \in {"asked", "second", "third", "ok"}, calls[c].pc # "free",
         Read(c, field, rows, pc)
  PROVE  (\A d \in Calls : InFlight(d)') /\ DisplaysSelection'
<1> DEFINE call == [calls[c] EXCEPT !.answer[field] = rows, !.pc = pc]
<1>1. calls[c] \in Call
  BY DEF TypeOK
<1>2. /\ call \in Call /\ call.pc # "act"
      /\ call.answer.by = calls[c].answer.by
      /\ call.answer.sel = calls[c].answer.sel
  <2>1. CASE field = "chart"
    BY <1>1, <2>1 DEF Call, Answer
  <2>2. CASE field = "totals"
    BY <1>1, <2>2 DEF Call, Answer
  <2>3. CASE field = "types"
    BY <1>1, <2>3 DEF Call, Answer
  <2> QED BY <2>1, <2>2, <2>3
<1>3. calls' = [calls EXCEPT ![c] = call] /\ sel' = sel
  BY DEF Read
<1> HIDE DEF call
<1>4. \A d \in Calls : InFlight(d)'
  BY <1>2, <1>3, SelectionKept
<1>5. DisplaysSelection'
  BY DEF SelectionInv, DisplaysSelection, Displayed, Drawn, Read
<1> QED BY <1>4, <1>5

LEMMA NextSelection ==
  ASSUME TypeOK, panel \in AllPanels, SelectionInv, [Next]_vars
  PROVE  SelectionInv'
<1> SUFFICES ASSUME panel.drops
             PROVE  (\A c \in Calls : InFlight(c)') /\ DisplaysSelection'
  BY PanelStays DEF SelectionInv
<1>1. /\ \A c \in Calls : InFlight(c)
      /\ DisplaysSelection
      /\ panel' = panel
      /\ panel.errors /\ panel.skeleton /\ ~panel.acts
      /\ \/ panel.source \in {"dead", "top"}
         \/ "loading" \notin panel.draws /\ "error" \notin panel.draws
      /\ FreeCall \in Call
  BY PanelStays, PanelFacts, FreeCallType DEF SelectionInv
<1>2. CASE UNCHANGED vars
  BY <1>1, <1>2 DEF vars, InFlight, DisplaysSelection, Displayed, Drawn
<1>3. CASE \E t \in Tenants, r \in Rows : Store(t, r)
  BY <1>1, <1>3 DEF Store, InFlight, DisplaysSelection, Displayed, Drawn
<1>4. ASSUME NEW c \in Calls, NEW s \in Selections, Select(s, c)
      PROVE  (\A d \in Calls : InFlight(d)') /\ DisplaysSelection'
  <2>1. DisplaysSelection'
    BY <1>1, <1>4 DEF Select, DisplaysSelection, Displayed, Drawn
  <2>2. ASSUME NEW d \in Calls PROVE InFlight(d)'
    <3>1. CASE d = c
      <4>1. calls'[d] = Request(s, "effect", "first") /\ sel' = s
        BY <1>4, <3>1, RemainingType DEF Select
      <4> QED BY <4>1 DEF InFlight, Request
    <3>2. CASE d # c
      <4>1. calls'[d] = RemainingCalls[d]
        BY <1>4, <3>2, RemainingType DEF Select
      <4>2. \/ calls'[d] = FreeCall
            \/ calls'[d] = calls[d] /\ calls[d].answer.by # "effect"
        BY <4>1, RemainingCall
      <4>3. InFlight(d)
        BY <1>1
      <4> QED BY <4>2, <4>3, FreeCallIsFree DEF InFlight
    <3> QED BY <3>1, <3>2
  <2> QED BY <2>1, <2>2
<1>5. ASSUME NEW c \in Calls, Retry(c)
      PROVE  (\A d \in Calls : InFlight(d)') /\ DisplaysSelection'
  <2>1. DisplaysSelection'
    BY <1>1, <1>5 DEF Retry, DisplaysSelection, Displayed, Drawn
  <2>2. ASSUME NEW d \in Calls PROVE InFlight(d)'
    <3>1. CASE d = c
      <4>1. calls'[d] = Request(sel, "retry", "first")
        BY <1>5, <3>1 DEF Retry, TypeOK
      <4> QED BY <4>1 DEF InFlight, Request
    <3>2. CASE d # c
      BY <1>1, <1>5, <3>2 DEF Retry, TypeOK, InFlight
    <3> QED BY <3>1, <3>2
  <2> QED BY <2>1, <2>2
<1>6. ASSUME NEW c \in Calls, Repeat(c)
      PROVE  (\A d \in Calls : InFlight(d)') /\ DisplaysSelection'
  <2>1. DisplaysSelection'
    BY <1>1, <1>6 DEF Repeat, DisplaysSelection, Displayed, Drawn
  <2>2. ASSUME NEW d \in Calls PROVE InFlight(d)'
    <3>1. CASE d = c
      <4>1. calls'[d] = Request(sel, "effect", "first") /\ sel' = sel
        BY <1>6, <3>1 DEF Repeat, TypeOK
      <4> QED BY <4>1 DEF InFlight, Request
    <3>2. CASE d # c
      BY <1>1, <1>6, <3>2 DEF Repeat, TypeOK, InFlight
    <3> QED BY <3>1, <3>2
  <2> QED BY <2>1, <2>2
<1>7. ASSUME NEW c \in Calls, Route(c)
      PROVE  (\A d \in Calls : InFlight(d)') /\ DisplaysSelection'
  <2>1. ~EntryChanged(c)
    <3>1. InFlight(c) /\ calls[c] \in Call
      BY <1>1 DEF TypeOK
    <3>2. SUFFICES ASSUME EntryChanged(c) PROVE FALSE
      OBVIOUS
    <3> QED BY <3>1, <3>2 DEF EntryChanged, InFlight
  <2>2. PICK field \in {"chart", "totals", "types"}, rows \in SUBSET Rows,
             pc \in {"asked", "second", "third", "ok"} :
             Read(c, field, rows, pc) /\ calls[c].pc # "free"
    BY <1>7, <2>1, RouteIsRead
  <2> QED BY <2>2, ReadSelection
<1>8. ASSUME NEW c \in Calls, Fail(c)
      PROVE  (\A d \in Calls : InFlight(d)') /\ DisplaysSelection'
  <2>1. calls[c] \in Call
    BY DEF TypeOK
  <2>2. [calls[c] EXCEPT !.pc = "failed"] \in Call
    BY <2>1 DEF Call
  <2>3. PICK call \in Call :
          /\ calls' = [calls EXCEPT ![c] = call]
          /\ call = FreeCall \/ call = [calls[c] EXCEPT !.pc = "failed"]
    BY <1>1, <1>8, <2>2 DEF Fail
  <2>7. call.pc # "act"
    BY <2>1, <2>3, FreeCallIsFree DEF Call
  <2>4. call.pc # "free" => /\ calls[c].pc # "free"
                            /\ call.answer.by = calls[c].answer.by
                            /\ call.answer.sel = calls[c].answer.sel
    BY <1>8, <2>1, <2>3, FreeCallIsFree DEF Fail, Call
  <2>5. \A d \in Calls : InFlight(d)'
    BY <1>8, <2>3, <2>4, <2>7, SelectionKept DEF Fail
  <2>6. DisplaysSelection'
    BY <1>1, <1>8 DEF Fail, DisplaysSelection, Displayed, Drawn
  <2> QED BY <2>5, <2>6
<1>9. ASSUME NEW c \in Calls, Answered(c)
      PROVE  (\A d \in Calls : InFlight(d)') /\ DisplaysSelection'
  <2>1. calls' = [calls EXCEPT ![c] = FreeCall] /\ sel' = sel
    BY <1>9 DEF Answered, Deliver, DeliverError
  <2>2. \A d \in Calls : InFlight(d)'
    BY <1>1, <2>1, SelectionKept, FreeCallIsFree
  <2>3. CASE Deliver(c)
    <3>1. InFlight(c)
      BY <1>1
    <3> QED BY <2>1, <2>2, <2>3, <3>1 DEF Deliver, InFlight, DisplaysSelection, Displayed, Drawn
  <2>4. CASE DeliverError(c)
    BY <1>1, <2>2, <2>4 DEF DeliverError, DisplaysSelection, Displayed, Drawn
  <2> QED BY <1>9, <2>3, <2>4 DEF Answered
<1>10. ASSUME NEW c \in Calls PROVE ~Act(c)
  BY <1>1 DEF Act
<1>11. ASSUME NEW c \in Calls, NEW s \in Selections, Reopen(s, c)
       PROVE  (\A d \in Calls : InFlight(d)') /\ DisplaysSelection'
  <2>1. DisplaysSelection'
    BY <1>11 DEF Reopen, DisplaysSelection, Displayed, Drawn
  <2>2. ASSUME NEW d \in Calls PROVE InFlight(d)'
    <3>1. CASE d = c
      <4>1. calls'[d] = Request(s, "effect", "first") /\ sel' = s
        BY <1>11, <3>1 DEF Reopen
      <4> QED BY <4>1 DEF InFlight, Request
    <3>2. CASE d # c
      <4>1. calls'[d] = FreeCall
        BY <1>11, <3>2 DEF Reopen
      <4> QED BY <4>1, FreeCallIsFree DEF InFlight
    <3> QED BY <3>1, <3>2
  <2> QED BY <2>1, <2>2
<1> QED BY <1>2, <1>3, <1>4, <1>5, <1>6, <1>7, <1>8, <1>9, <1>10, <1>11 DEF Next

\* However fast the user selects, and in whatever order requests fail and answers
\* come back, a panel that drops late answers displays the data of what is selected,
\* or that of a retry, or, in the two panels that keep some of it beside a skeleton
\* or an error, the data from before.
THEOREM SelectionIsDisplayed == Spec => []DisplaysSelection
<1>1. Init => SelectionInv
  BY InitSelection
<1>2. TypeOK /\ panel \in AllPanels /\ SelectionInv /\ [Next]_vars => SelectionInv'
  BY NextSelection
<1>3. SelectionInv => DisplaysSelection
  BY DEF SelectionInv, DisplaysSelection
<1> QED BY <1>1, <1>2, <1>3, PanelsTypeCorrect, PTL DEF Spec

-----------------------------------------------------------------------------
(* The list and the totals.                                                *)

\* The sources whose chart is compared with totals.
Compared == {"stats", "activity", "collection"}
Agrees(answer) == /\ answer.chart \subseteq answer.totals
                  /\ panel.source = "collection" => answer.totals \subseteq answer.types

\* What is read is still stored while the request goes on, and agrees when it ends.
ListOf(c) ==
  /\ calls[c].pc # "act"
  /\ calls[c].pc = "second" => calls[c].answer.chart \subseteq Stored(c)
  /\ calls[c].pc = "third" => /\ calls[c].answer.chart \subseteq calls[c].answer.totals
                              /\ calls[c].answer.totals \subseteq Stored(c)
  /\ calls[c].pc = "ok" => Agrees(calls[c].answer)

ListInv ==
  panel.source \in Compared =>
    /\ \A c \in Calls : ListOf(c)
    /\ shown # None => Agrees(shown)

LEMMA InitList == Init => ListInv
<1> SUFFICES ASSUME Init, NEW c \in Calls PROVE ListOf(c)
  BY DEF ListInv, Init
<1>1. calls[c] = FreeCall \/ calls[c] = Request(sel, "effect", "first")
  BY DEF Init
<1> QED BY <1>1 DEF ListOf, FreeCall, Request

\* A request that starts, asks, ends or fails says nothing of a list, and the others are
\* as they were.
LEMMA ListKept ==
  ASSUME TypeOK, NEW c \in Calls, NEW call \in Call, calls' = [calls EXCEPT ![c] = call],
         call.pc \in {"free", "first", "asked", "failed"}, stored' = stored, panel' = panel,
         \A d \in Calls : ListOf(d)
  PROVE  \A d \in Calls : ListOf(d)'
<1> SUFFICES ASSUME NEW d \in Calls PROVE ListOf(d)'
  OBVIOUS
<1>1. CASE d = c
  <2>1. calls'[d] = call
    BY <1>1 DEF TypeOK
  <2> QED BY <2>1 DEF ListOf
<1>2. CASE d # c
  <2>1. calls'[d] = calls[d]
    BY <1>2 DEF TypeOK
  <2>2. Stored(d)' = Stored(d)
    BY <2>1 DEF Stored, TenantAsked
  <2> QED BY <2>1, <2>2 DEF ListOf, Agrees
<1> QED BY <1>1, <1>2

\* A statement of a request whose charts are compared.
LEMMA ListRead ==
  ASSUME TypeOK, NEW c \in Calls,
         NEW field \in {"chart", "totals", "types"}, NEW pc \in {"second", "third", "ok"},
         \/ calls[c].pc \in {"first", "asked"} /\ field = "chart" /\ pc = "second"
         \/ /\ calls[c].pc = "second" /\ field = "totals"
            /\ pc = IF panel.source = "collection" THEN "third" ELSE "ok"
         \/ calls[c].pc = "third" /\ field = "types" /\ pc = "ok",
         Read(c, field, Stored(c), pc), \A d \in Calls : ListOf(d)
  PROVE  \A d \in Calls : ListOf(d)'
<1> SUFFICES ASSUME NEW d \in Calls PROVE ListOf(d)'
  OBVIOUS
<1>1. /\ calls[c] \in Call /\ ListOf(c) /\ ListOf(d) /\ Stored(c) \in SUBSET Rows
      /\ stored' = stored /\ panel' = panel
  BY StoredType DEF TypeOK, Read
<1>2. CASE d # c
  <2>1. calls'[d] = calls[d]
    BY <1>2 DEF Read, TypeOK
  <2>2. Stored(d)' = Stored(d)
    BY <1>1, <2>1 DEF Stored, TenantAsked
  <2> QED BY <1>1, <2>1, <2>2 DEF ListOf, Agrees
<1>3. CASE d = c
  <2>1. calls'[c] = [calls[c] EXCEPT !.answer[field] = Stored(c), !.pc = pc]
    BY DEF Read, TypeOK
  <2>2. /\ calls'[c].pc = pc
        /\ calls'[c].answer = [calls[c].answer EXCEPT ![field] = Stored(c)]
        /\ calls'[c].answer.sel = calls[c].answer.sel
    BY <1>1, <2>1 DEF Call, Answer
  <2>3. Stored(c)' = Stored(c)
    BY <1>1, <2>2 DEF Stored, TenantAsked
  <2>4. CASE field = "chart"
    <3>1. calls'[c].answer.chart = Stored(c)
      BY <1>1, <2>2, <2>4 DEF Call, Answer
    <3> QED BY <1>3, <2>2, <2>3, <2>4, <3>1 DEF ListOf
  <2>5. CASE field = "totals"
    <3>1. calls'[c].answer.totals = Stored(c) /\ calls'[c].answer.chart = calls[c].answer.chart
      BY <1>1, <2>2, <2>5 DEF Call, Answer
    <3> QED BY <1>1, <1>3, <2>2, <2>3, <2>5, <3>1 DEF ListOf, Agrees
  <2>6. CASE field = "types"
    <3>1. /\ calls'[c].answer.types = Stored(c) /\ calls'[c].answer.chart = calls[c].answer.chart
          /\ calls'[c].answer.totals = calls[c].answer.totals
      BY <1>1, <2>2, <2>6 DEF Call, Answer
    <3> QED BY <1>1, <1>3, <2>2, <2>3, <2>6, <3>1 DEF ListOf, Agrees
  <2> QED BY <2>4, <2>5, <2>6
<1> QED BY <1>2, <1>3

LEMMA RouteList ==
  ASSUME TypeOK, NEW c \in Calls, Route(c), panel.source \in Compared,
         \A d \in Calls : ListOf(d)
  PROVE  (\A d \in Calls : ListOf(d)') /\ shown' = shown
<1>1. ~EntryChanged(c)
  BY DEF EntryChanged, ListOf
<1>2. PICK field \in {"chart", "totals", "types"}, rows \in SUBSET Rows,
           pc \in {"asked", "second", "third", "ok"} : Read(c, field, rows, pc)
  BY <1>1, RouteIsRead
<1>3. shown' = shown
  BY <1>2 DEF Read
<1>4. CASE Read(c, "chart", {}, "asked")
  <2> DEFINE call == [calls[c] EXCEPT !.answer["chart"] = {}, !.pc = "asked"]
  <2>1. calls[c] \in Call
    BY DEF TypeOK
  <2>2. call \in Call /\ call.pc = "asked"
    BY <2>1 DEF Call, Answer
  <2>3. /\ calls' = [calls EXCEPT ![c] = call]
        /\ stored' = stored /\ panel' = panel
    BY <1>4 DEF Read
  <2> HIDE DEF call
  <2> QED BY <1>3, <2>2, <2>3, ListKept
<1>5. CASE calls[c].pc \in {"first", "asked"} /\ Read(c, "chart", Stored(c), "second")
  BY <1>3, <1>5, ListRead
<1>6. CASE /\ calls[c].pc = "second" /\ panel.source # "collection"
           /\ Read(c, "totals", Stored(c), "ok")
  BY <1>3, <1>6, ListRead
<1>7. CASE /\ calls[c].pc = "second" /\ panel.source = "collection"
           /\ Read(c, "totals", Stored(c), "third")
  BY <1>3, <1>7, ListRead
<1>8. CASE calls[c].pc = "third" /\ Read(c, "types", Stored(c), "ok")
  BY <1>3, <1>8, ListRead
<1> QED BY <1>1, <1>4, <1>5, <1>6, <1>7, <1>8, RouteReads DEF Compared

LEMMA NextList ==
  ASSUME TypeOK, panel \in AllPanels, ListInv, [Next]_vars
  PROVE  ListInv'
<1> DEFINE Goal == /\ \A c \in Calls : ListOf(c)
                   /\ shown # None => Agrees(shown)
<1> SUFFICES ASSUME panel.source \in Compared PROVE Goal'
  BY PanelStays DEF ListInv
<1>1. /\ \A c \in Calls : ListOf(c)
      /\ shown # None => Agrees(shown)
      /\ ~panel.acts
      /\ panel' = panel
      /\ FreeCall \in Call /\ FreeCall.pc = "free"
      /\ sel \in Selections
  BY PanelStays, PanelFacts, FreeCallType, FreeCallIsFree DEF ListInv, Compared, TypeOK
<1>2. CASE UNCHANGED vars
  BY <1>1, <1>2 DEF vars, ListOf, Stored, TenantAsked, Agrees
<1>3. ASSUME NEW t \in Tenants, NEW r \in Rows, Store(t, r) PROVE Goal'
  <2>1. ASSUME NEW d \in Calls PROVE ListOf(d)'
    <3>1. calls'[d] = calls[d] /\ calls[d] \in Call
      BY <1>3 DEF Store, TypeOK
    <3>2. TenantAsked(calls[d].answer.sel) \in Tenants
      BY <3>1, PanelsAssumption DEF Call, Answer, TenantAsked
    <3>3. Stored(d) \subseteq Stored(d)'
      BY <1>1, <1>3, <3>1, <3>2 DEF Store, Stored, TenantAsked, TypeOK
    <3> QED BY <1>1, <1>3, <3>1, <3>3 DEF ListOf, Agrees
  <2>2. shown' = shown
    BY <1>3 DEF Store
  <2> QED BY <1>1, <2>1, <2>2 DEF Agrees
<1>4. ASSUME NEW c \in Calls, NEW s \in Selections, Select(s, c) PROVE Goal'
  <2>1. ASSUME NEW d \in Calls PROVE ListOf(d)'
    <3>1. CASE d = c
      <4>1. calls'[d] = Request(s, "effect", "first")
        BY <1>4, <3>1, RemainingType DEF Select
      <4> QED BY <4>1 DEF ListOf, Request
    <3>2. CASE d # c
      <4>1. calls'[d] = RemainingCalls[d]
        BY <1>4, <3>2, RemainingType DEF Select
      <4>2. calls'[d] = FreeCall \/ calls'[d] = calls[d]
        BY <4>1, RemainingCall
      <4>3. CASE calls'[d] = FreeCall
        BY <1>1, <4>3 DEF ListOf
      <4>4. CASE calls'[d] = calls[d]
        <5>1. Stored(d)' = Stored(d)
          BY <1>1, <1>4, <4>4 DEF Stored, TenantAsked, Select
        <5> QED BY <1>1, <4>4, <5>1 DEF ListOf, Agrees
      <4> QED BY <4>2, <4>3, <4>4
    <3> QED BY <3>1, <3>2
  <2>2. shown' = shown
    BY <1>4 DEF Select
  <2> QED BY <1>1, <2>1, <2>2 DEF Agrees
<1>5. ASSUME NEW c \in Calls, Retry(c) \/ Repeat(c) PROVE Goal'
  <2>1. PICK call \in Call : /\ calls' = [calls EXCEPT ![c] = call]
                             /\ call.pc = "first"
    <3>1. CASE Retry(c)
      <4>1. /\ Request(sel, "retry", "first") \in Call
            /\ Request(sel, "retry", "first").pc = "first"
        BY <1>1, RequestType DEF Request
      <4> QED BY <3>1, <4>1 DEF Retry
    <3>2. CASE Repeat(c)
      <4>1. /\ Request(sel, "effect", "first") \in Call
            /\ Request(sel, "effect", "first").pc = "first"
        BY <1>1, RequestType DEF Request
      <4> QED BY <3>2, <4>1 DEF Repeat
    <3> QED BY <1>5, <3>1, <3>2
  <2>2. stored' = stored /\ shown' = shown
    BY <1>5 DEF Retry, Repeat
  <2> QED BY <1>1, <2>1, <2>2, ListKept DEF Agrees
<1>6. ASSUME NEW c \in Calls, Route(c) PROVE Goal'
  BY <1>1, <1>6, RouteList DEF Agrees
<1>7. ASSUME NEW c \in Calls, Fail(c) PROVE Goal'
  <2>1. calls[c] \in Call
    BY DEF TypeOK
  <2>2. [calls[c] EXCEPT !.pc = "failed"] \in Call
    BY <2>1 DEF Call
  <2>3. PICK call \in Call : /\ calls' = [calls EXCEPT ![c] = call]
                             /\ call.pc \in {"free", "failed"}
    BY <1>1, <1>7, <2>1, <2>2 DEF Fail, Call
  <2>4. stored' = stored /\ shown' = shown
    BY <1>7 DEF Fail
  <2> QED BY <1>1, <2>3, <2>4, ListKept DEF Agrees
<1>8. ASSUME NEW c \in Calls, Answered(c) PROVE Goal'
  <2>1. calls' = [calls EXCEPT ![c] = FreeCall] /\ stored' = stored
    BY <1>8 DEF Answered, Deliver, DeliverError
  <2>2. \A d \in Calls : ListOf(d)'
    BY <1>1, <2>1, ListKept
  <2>3. CASE Deliver(c)
    <3>1. ListOf(c)
      BY <1>1
    <3> QED BY <1>1, <2>2, <2>3, <3>1 DEF Deliver, ListOf, Agrees
  <2>4. CASE DeliverError(c)
    BY <1>1, <2>2, <2>4 DEF DeliverError, Agrees
  <2> QED BY <1>8, <2>3, <2>4 DEF Answered
<1>9. ASSUME NEW c \in Calls PROVE ~Act(c)
  BY <1>1 DEF Act
<1>10. ASSUME NEW c \in Calls, NEW s \in Selections, Reopen(s, c) PROVE Goal'
  <2>1. ASSUME NEW d \in Calls PROVE ListOf(d)'
    <3>1. CASE d = c
      <4>1. calls'[d] = Request(s, "effect", "first")
        BY <1>10, <3>1 DEF Reopen
      <4> QED BY <4>1 DEF ListOf, Request
    <3>2. CASE d # c
      <4>1. calls'[d] = FreeCall
        BY <1>10, <3>2 DEF Reopen
      <4> QED BY <1>1, <4>1 DEF ListOf
    <3> QED BY <3>1, <3>2
  <2>2. shown' = None
    BY <1>10 DEF Reopen
  <2> QED BY <2>1, <2>2 DEF Agrees
<1> HIDE DEF Goal
<1> QED BY <1>2, <1>3, <1>4, <1>5, <1>6, <1>7, <1>8, <1>9, <1>10 DEF Next

\* Rows may be stored between the statements of a request: no chart of the stats
\* route, of the collection or of the members' loans has a row that the totals above
\* it miss, and the collection types miss none of the totals.
THEOREM ListsAgree == Spec => []ListAgreesWithTotals
<1>1. Init => ListInv
  BY InitList
<1>2. TypeOK /\ panel \in AllPanels /\ ListInv /\ [Next]_vars => ListInv'
  BY NextList
<1>3. ListInv => ListAgreesWithTotals
  BY DEF ListInv, ListAgreesWithTotals, Compared, Agrees
<1> QED BY <1>1, <1>2, <1>3, PanelsTypeCorrect, PTL DEF Spec

=============================================================================
