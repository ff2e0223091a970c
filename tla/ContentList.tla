---------------------------- MODULE ContentList ----------------------------
(* A list of content as the web app shows it: a grid of the catalog (all     *)
(* monsters, spells or items that match the filters) or a section of a book  *)
(* (the content of one type in it).  Rows come in pages from a list endpoint *)
(* of the API; the next page is asked for when the end of the list scrolls   *)
(* into view, and a section is loaded again after a row was removed from it. *)
(*                                                                           *)
(* The endpoint counts and reads in two statements; the query cache (React   *)
(* Query, external) keeps one entry per filter and at most one fetch for     *)
(* each.                                                                     *)
EXTENDS Naturals, FiniteSets

CONSTANTS
    Row,        \* the rows there are; their order is that of the numbers
    Filter,     \* the filters the visitor switches between
    Matching,   \* [Filter -> SUBSET Row]: the rows each filter lets through
    Limit,      \* rows per page
    Removable,  \* the rows the visitor may want to remove (a bound)
    Layout,     \* the layouts of the list: subset of {"grid", "section"}
    None

ASSUME RowsAreNumbers == Row \subseteq Nat /\ IsFiniteSet(Row)
ASSUME FiltersMatchRows == Matching \in [Filter -> SUBSET Row]
ASSUME RemovableAreRows == Removable \subseteq Row
ASSUME PagesHoldRows == Limit \in Nat \ {0}
ASSUME LayoutsAreKnown == Layout \subseteq {"grid", "section"}
ASSUME NoneIsNoRow == None \notin Row

VARIABLES
    layout,     \* which of the two this list is
    content,    \* the rows of the database the list is about
    query,      \* [Filter -> the entry of the query cache]
    fetch,      \* [Filter -> the fetch under way, or None]
    filter,     \* the filter the list is shown for
    bottom,     \* is the end of the list in view
    observer,   \* [live |-> does it watch the end of the list on screen,
                \*  due |-> has it a report to make that the end is in view,
                \*  lost |-> was the list off the screen for a failure since
                \*          the effect last ran with it; a history]
    asking,     \* the row the removal dialog asks about, or None
    removals,   \* [Row -> where the request to remove it is]
    unsure      \* [Filter -> may the entry differ from the database]

vars == <<layout, content, query, fetch, filter, bottom, observer, asking,
          removals, unsure>>

-----------------------------------------------------------------------------
(* The list endpoints of the API *)

Matches(f) == content \cap Matching[f]

(* The rows of a page: those with offset to offset + Limit - 1 before them.  *)
PageOf(rows, offset) ==
    {r \in rows : LET before == Cardinality({x \in rows : x < r})
                  IN  before >= offset /\ before < offset + Limit}

-----------------------------------------------------------------------------
(* The query cache *)

(* An entry: its rows, how many pages they came in, and whether the last of  *)
(* them said that there are more.                                            *)
Entry == [rows : SUBSET Row, pages : Nat, more : BOOLEAN,
          status : {"pending", "success", "error"}, stale : BOOLEAN]

hasData(q) == q.pages > 0
hasNextPage(q) == hasData(q) /\ q.more
isFetchingNextPage(g) == g # None /\ g.kind = "next"

(* A fetch: the rows and pages it has, how many pages it is to have, and the *)
(* request for the next of them, which the server counts and then reads for. *)
Fetch == [kind : {"reload", "next"}, rows : SUBSET Row, pages : Nat,
          goal : Nat, phase : {"sent", "counted", "read"}, count : Nat,
          page : SUBSET Row]

Request(kind, rows, pages, goal) ==
    [kind |-> kind, rows |-> rows, pages |-> pages, goal |-> goal,
     phase |-> "sent", count |-> 0, page |-> {}]

(* The offset asked for: getNextPageParam adds the limit page by page.       *)
pageParam(g) == g.pages * Limit

(* nextOffset: the pages are exhausted once offset and limit cover the count.*)
nextOffset(g) == pageParam(g) + Limit < g.count

(* Loading from the first page on: all the pages the entry has, or one.      *)
Reload(q) == Request("reload", {}, 0, IF hasData(q) THEN q.pages ELSE 1)

(* Faulty variant: a further page that is not counted.                       *)
NextPageShort(q) == Request("next", q.rows, q.pages, q.pages)

(* One more page after those of the entry.                                   *)
NextPage(q) == Request("next", q.rows, q.pages, q.pages + 1)

(* A fetch without data starts the entry over.                               *)
Begun(q) == IF hasData(q) THEN q ELSE [q EXCEPT !.status = "pending"]

-----------------------------------------------------------------------------
(* What is on the screen *)

(* The view has the element at the end of the list.  A grid shows a          *)
(* skeleton, an error or a message instead of the list; a section shows      *)
(* them beside it.                                                           *)
sentinel(q, g) ==
    \/ layout = "section"
    \/ /\ ~(q.status = "pending" /\ g # None)
       /\ q.status # "error"
       /\ q.rows # {}

(* Faulty variant: the effect does not run again when a page has come.       *)
EffectDepsShort(q, g) == <<hasNextPage(q)>>

(* The values the effect that watches the sentinel depends on.               *)
EffectDeps(q, g) == <<hasNextPage(q), isFetchingNextPage(g)>>

(* A render after the list in view became the entry q with the fetch g.  The *)
(* effect runs again when a value it depends on changed; in a section one    *)
(* of them is a function made anew on every render.  An observer reports     *)
(* once when it starts and then when the end of the list comes into view.    *)
Render(q, g) ==
    LET same == EffectDeps(q, g) = EffectDeps(query[filter], fetch[filter])
        kept == layout = "grid" /\ same
        live == sentinel(q, g) /\ (kept => observer.live)
        failed == layout = "grid" /\ q.status = "error"
    IN  /\ bottom' \in IF ~sentinel(q, g) THEN {FALSE}
                       ELSE IF q.rows = query[filter].rows
                               /\ sentinel(query[filter], fetch[filter])
                            THEN {bottom} ELSE BOOLEAN
        /\ observer' =
              [live |-> live,
               due |-> live /\ bottom' /\ (kept /\ bottom => observer.due),
               lost |-> failed \/ (observer.lost /\ (live => kept))]

(* The same for a change of an entry that may not be the one in view.        *)
RenderIfShown(f, q, g) ==
    IF f = filter THEN Render(q, g) ELSE UNCHANGED <<bottom, observer>>

-----------------------------------------------------------------------------
(* A page on its way *)

CountRows(f) ==
    /\ fetch[f] # None /\ fetch[f].phase = "sent"
    /\ fetch' = [fetch EXCEPT ![f] =
                    [@ EXCEPT !.phase = "counted",
                              !.count = Cardinality(Matches(f))]]
    /\ UNCHANGED <<layout, content, query, filter, bottom, observer, asking,
                   removals, unsure>>

ReadRows(f) ==
    /\ fetch[f] # None /\ fetch[f].phase = "counted"
    /\ fetch' = [fetch EXCEPT ![f] =
                    [@ EXCEPT !.phase = "read",
                              !.page = PageOf(Matches(f),
                                              pageParam(fetch[f]))]]
    /\ UNCHANGED <<layout, content, query, filter, bottom, observer, asking,
                   removals, unsure>>

(* The page arrives.  A reload goes on until it has as many pages as the     *)
(* entry had, or there are no more; then the entry is replaced.              *)
Receive(f) ==
    /\ fetch[f] # None /\ fetch[f].phase = "read"
    /\ LET g == fetch[f]
           rows == g.rows \cup g.page
           pages == g.pages + 1
           loaded == [rows |-> rows, pages |-> pages, more |-> nextOffset(g),
                      status |-> "success", stale |-> FALSE]
       IN  IF pages < g.goal /\ nextOffset(g)
           THEN /\ fetch' = [fetch EXCEPT ![f] =
                        Request(g.kind, rows, pages, g.goal)]
                /\ UNCHANGED <<query, bottom, observer>>
           ELSE /\ fetch' = [fetch EXCEPT ![f] = None]
                /\ query' = [query EXCEPT ![f] = loaded]
                /\ RenderIfShown(f, loaded, None)
    /\ UNCHANGED <<layout, content, filter, asking, removals, unsure>>

(* It fails, for good: the client has tried again once.                      *)
Fail(f) ==
    /\ fetch[f] # None
    /\ fetch' = [fetch EXCEPT ![f] = None]
    /\ LET failed == [query[f] EXCEPT !.status = "error", !.stale = TRUE]
       IN  /\ query' = [query EXCEPT ![f] = failed]
           /\ RenderIfShown(f, failed, None)
    /\ UNCHANGED <<layout, content, filter, asking, removals, unsure>>

-----------------------------------------------------------------------------
(* The visitor and the browser *)

(* Another filter, sort order or tab: its entry is loaded unless there is    *)
(* one that is not stale.                                                    *)
Switch(f) ==
    LET q == query[f]
        starts == fetch[f] = None /\ (~hasData(q) \/ q.stale)
        q2 == IF starts THEN Begun(q) ELSE q
        g2 == IF starts THEN Reload(q) ELSE fetch[f]
    IN  /\ f # filter
        /\ filter' = f
        /\ query' = [query EXCEPT ![f] = q2]
        /\ fetch' = [fetch EXCEPT ![f] = g2]
        /\ unsure' = [unsure EXCEPT ![f] = @ /\ ~starts]
        /\ Render(q2, g2)
        /\ asking' = None
        /\ UNCHANGED <<layout, content, removals>>

(* A hover over the link to the unfiltered list loads it as a visit would;   *)
(* it may be the one in view.                                                *)
Prefetch(f) ==
    LET q == Begun(query[f])
        g == Reload(query[f])
    IN  /\ layout = "grid" /\ Matching[f] = Row
        /\ fetch[f] = None /\ (~hasData(query[f]) \/ query[f].stale)
        /\ query' = [query EXCEPT ![f] = q]
        /\ fetch' = [fetch EXCEPT ![f] = g]
        /\ unsure' = [unsure EXCEPT ![f] = FALSE]
        /\ RenderIfShown(f, q, g)
        /\ UNCHANGED <<layout, content, filter, asking, removals>>

(* The connection comes back: what is stale and in view is loaded again.     *)
Reconnect ==
    LET q == Begun(query[filter])
        g == Reload(q)
    IN  /\ fetch[filter] = None /\ q.stale
        /\ query' = [query EXCEPT ![filter] = q]
        /\ fetch' = [fetch EXCEPT ![filter] = g]
        /\ unsure' = [unsure EXCEPT ![filter] = FALSE]
        /\ Render(q, g)
        /\ UNCHANGED <<layout, content, filter, asking, removals>>

Scroll ==
    /\ sentinel(query[filter], fetch[filter])
    /\ bottom' = ~bottom
    /\ observer' = [observer EXCEPT !.due = observer.live /\ ~bottom]
    /\ UNCHANGED <<layout, content, query, fetch, filter, asking, removals,
                   unsure>>

(* The observer reports that the end of the list is in view.  fetchNextPage  *)
(* cancels a reload that is under way, and when the page has come the whole  *)
(* entry counts as fresh.                                                    *)
Intersect ==
    LET q == query[filter]
        loads == hasNextPage(q) /\ ~isFetchingNextPage(fetch[filter])
    IN  /\ observer.due
        /\ IF loads
           THEN /\ fetch' = [fetch EXCEPT ![filter] = NextPage(q)]
                /\ unsure' = [unsure EXCEPT ![filter] = @ \/ q.stale]
                /\ Render(q, NextPage(q))
           ELSE /\ observer' = [observer EXCEPT !.due = FALSE]
                /\ UNCHANGED <<fetch, unsure, bottom>>
        /\ UNCHANGED <<layout, content, query, filter, asking, removals>>

-----------------------------------------------------------------------------
(* Removing a row from the book *)

(* The button of a row opens the dialog.                                     *)
OnRemove(r) ==
    /\ layout = "section" /\ asking = None
    /\ r \in query[filter].rows \cap Removable
    /\ asking' = r
    /\ UNCHANGED <<layout, content, query, fetch, filter, bottom, observer,
                   removals, unsure>>

CancelRemoval ==
    /\ asking # None
    /\ asking' = None
    /\ UNCHANGED <<layout, content, query, fetch, filter, bottom, observer,
                   removals, unsure>>

(* Bound: one request for a row at a time.  A row that is still shown may be *)
(* removed again.                                                            *)
OnConfirm ==
    /\ asking # None /\ removals[asking] = "none"
    /\ removals' = [removals EXCEPT ![asking] = "sent"]
    /\ asking' = None
    /\ UNCHANGED <<layout, content, query, fetch, filter, bottom, observer,
                   unsure>>

ServeRemoval(r) ==
    /\ removals[r] = "sent"
    /\ removals' = [removals EXCEPT ![r] = "served"]
    /\ content' = content \ {r}
    /\ UNCHANGED <<layout, query, fetch, filter, bottom, observer, asking,
                   unsure>>

(* Faulty variant: a fetch that is under way is left to finish.              *)
invalidateQueriesLate ==
    LET q == [query[filter] EXCEPT !.stale = TRUE]
        reloads == fetch[filter] = None
        g == IF reloads THEN Reload(q) ELSE fetch[filter]
    IN  /\ query' = [f \in Filter |-> [query[f] EXCEPT !.stale = TRUE]]
        /\ fetch' = [fetch EXCEPT ![filter] = g]
        /\ unsure' = [f \in Filter |->
                        IF f = filter THEN unsure[f] /\ ~reloads
                        ELSE unsure[f] \/ fetch[f] # None]
        /\ Render(query'[filter], g)

(* invalidateQueries: every entry is stale, and the one in view is loaded    *)
(* again, in place of a fetch under way.  A fetch goes on when its entry is  *)
(* not in view or has no data yet: its answer may be older than the removal. *)
invalidateQueries ==
    LET q == [query[filter] EXCEPT !.stale = TRUE]
        reloads == hasData(q) \/ fetch[filter] = None
        g == IF reloads THEN Reload(q) ELSE fetch[filter]
    IN  /\ query' = [f \in Filter |->
                        IF f = filter /\ fetch[f] = None THEN Begun(q)
                        ELSE [query[f] EXCEPT !.stale = TRUE]]
        /\ fetch' = [fetch EXCEPT ![filter] = g]
        /\ unsure' = [f \in Filter |->
                        IF f = filter /\ reloads THEN FALSE
                        ELSE unsure[f] \/ fetch[f] # None]
        /\ Render(query'[filter], g)

(* useRemoveContentFromBook.onSuccess; a failed request changes nothing      *)
(* here, though the row may be gone.                                         *)
RemovalSucceeds(r) ==
    /\ removals[r] = "served"
    /\ removals' = [removals EXCEPT ![r] = "none"]
    /\ invalidateQueries
    /\ UNCHANGED <<layout, content, filter, asking>>

RemovalFails(r) ==
    /\ removals[r] \in {"sent", "served"}
    /\ removals' = [removals EXCEPT ![r] = "none"]
    /\ unsure' = [f \in Filter |-> unsure[f] \/ removals[r] = "served"]
    /\ UNCHANGED <<layout, content, query, fetch, filter, bottom, observer,
                   asking>>

-----------------------------------------------------------------------------
Init ==
    /\ layout \in Layout
    /\ content = Row
    /\ \E f \in Filter :
        /\ filter = f
        /\ fetch = [x \in Filter |->
                        IF x = f THEN Request("reload", {}, 0, 1) ELSE None]
    /\ query = [f \in Filter |->
                    [rows |-> {}, pages |-> 0, more |-> FALSE,
                     status |-> "pending", stale |-> TRUE]]
    /\ bottom \in IF layout = "section" THEN BOOLEAN ELSE {FALSE}
    /\ observer = [live |-> layout = "section", due |-> bottom, lost |-> FALSE]
    /\ asking = None
    /\ removals = [r \in Row |-> "none"]
    /\ unsure = [f \in Filter |-> FALSE]

Next ==
    \/ \E f \in Filter : CountRows(f)
    \/ \E f \in Filter : ReadRows(f)
    \/ \E f \in Filter : Receive(f)
    \/ \E f \in Filter : Fail(f)
    \/ \E f \in Filter : Switch(f)
    \/ \E f \in Filter : Prefetch(f)
    \/ Reconnect
    \/ Scroll
    \/ Intersect
    \/ \E r \in Row : OnRemove(r)
    \/ CancelRemoval
    \/ OnConfirm
    \/ \E r \in Row : ServeRemoval(r)
    \/ \E r \in Row : RemovalSucceeds(r)
    \/ \E r \in Row : RemovalFails(r)

(* The browser delivers the reports of its observers, and a fetch is         *)
(* answered or fails (the client gives up on no request, but the server and  *)
(* the network do).                                                          *)
Fairness ==
    /\ WF_vars(Intersect)
    /\ \A f \in Filter :
        WF_vars(CountRows(f) \/ ReadRows(f) \/ Receive(f) \/ Fail(f))

Spec == Init /\ [][Next]_vars /\ Fairness

-----------------------------------------------------------------------------
(* Every variable has its shape; a fetch for a further page starts from      *)
(* pages there are, and rows come in no more pages than there were.          *)
TypeOK ==
    /\ layout \in Layout /\ content \subseteq Row /\ filter \in Filter
    /\ \A f \in Filter :
        /\ query[f] \in Entry
        /\ query[f].status = "success" => hasData(query[f])
        /\ Cardinality(query[f].rows) <= query[f].pages * Limit
        /\ fetch[f] # None =>
            /\ fetch[f] \in Fetch
            /\ fetch[f].pages < fetch[f].goal
            /\ fetch[f].kind = "next" => fetch[f].pages > 0
    /\ bottom \in BOOLEAN
    /\ observer \in [live : BOOLEAN, due : BOOLEAN, lost : BOOLEAN]
    /\ asking \in Row \cup {None}
    /\ removals \in [Row -> {"none", "sent", "served"}]
    /\ unsure \in [Filter -> BOOLEAN]

(* What a list shows agrees with the database when nothing is under way: the *)
(* rows on the screen are the first ones that match, and all of them when    *)
(* the list ends.                                                            *)
Agrees(f) ==
    LET shown == query[f].rows
    IN  /\ shown \subseteq Matches(f)
        /\ \A r \in Matches(f) \ shown : \A x \in shown : x < r
        /\ ~hasNextPage(query[f]) => shown = Matches(f)

Quiet(f) ==
    /\ fetch[f] = None /\ query[f].status = "success" /\ ~query[f].stale
    /\ \A r \in Row : removals[r] = "none"

(* After any removals, in whatever order they and the pages of the list come *)
(* back, a list that counts as fresh agrees with the database; unless one of *)
(* three things happened since it was last loaded: the answer to a removal   *)
(* was lost, a next page was asked for before a stale list had been loaded   *)
(* again, or the list was being loaded for the first time, or out of view,   *)
(* when a row was removed (content-membership.ts:43).                        *)
FreshListAgrees == \A f \in Filter : Quiet(f) /\ ~unsure[f] => Agrees(f)

(* A visitor at the end of a list that has more is not left there with       *)
(* nothing under way: the observer asks for the next page, again after each  *)
(* page, and in a section after each failure (book-content-section.tsx:86).  *)
(* Except: a grid whose list was off the screen for a failure.  The effect   *)
(* does not run again for the list that comes back, unless a value it        *)
(* depends on has changed too (monster-grid.tsx:51); until then nobody       *)
(* watches its end.                                                          *)
Stranded ==
    /\ bottom /\ hasNextPage(query[filter])
    /\ fetch[filter] = None
    /\ ~observer.lost

NeverStranded == []<>~Stranded
=============================================================================
