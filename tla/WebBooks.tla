------------------------------- MODULE WebBooks -------------------------------
(* The books of an account in one browser tab: the cached list of owned      *)
(* books (My Books, and the menu of the "add to book" control), the cached   *)
(* detail of each book with its counts of content, the dialogs of My Books,  *)
(* and the requests that create, change, delete, fill and empty books.       *)
(*                                                                           *)
(* Another browser of the account writes too.  What a write writes is the    *)
(* number of the write.  The query cache (React Query) is external; that an  *)
(* entry is stale after five minutes is left out, for it only brings what is *)
(* loaded anew.                                                              *)
EXTENDS WebClient, FiniteSets

CONSTANTS
    Book,       \* the books there may be
    Req,        \* slots for the requests under way (a bound)
    MaxWrites,  \* how often the database is written (a bound)
    None

ASSUME WritesAreBounded == MaxWrites \in Nat
ASSUME BooksAreNoPages ==
    Book \cap {"owned", "content", "header", "card", "empty", "control",
               "section"} = {}

(* Data.  at: the write that gave the book its name and description; filled: *)
(* the last one to its contents.  A summary has no counts.                   *)
Row == [at : 0 .. MaxWrites, filled : 0 .. MaxWrites, there : BOOLEAN]
NoRow == [at |-> 0, filled |-> 0, there |-> FALSE]
Summary(row) == [row EXCEPT !.filled = 0]

(* Entries of the cache: the list of owned books and the details.            *)
Key == {"owned"} \cup Book
Scope(k) == IF k = "owned" THEN Book ELSE {k}
Answer(k) == [Scope(k) -> Row]
Entry(k) == [data : Answer(k) \cup {None}, stale : BOOLEAN, error : BOOLEAN]
Fetch(k) == [served : BOOLEAN, got : Answer(k) \cup {None}]

(* A dialog of My Books belongs to a book or to a button for a new one; seed *)
(* is what its fields were set from.  wrote: what the answer to a request    *)
(* tells; owned: the component it is from is there to be called back.        *)
Button == {"header", "card", "empty"}
Dialog == [op : {"createBook", "updateBook", "deleteBook"},
           at : Book \cup Button, seed : Row]
Request == [op : BookOp, book : Book,
            from : Book \cup Button \cup {"control", "section"},
            served : BOOLEAN, wrote : Row, owned : BOOLEAN]

ASSUME NoneIsNoOther ==
    /\ None \notin Dialog /\ None \notin Request
    /\ \A k \in Key : None \notin Answer(k) /\ None \notin Fetch(k)

VARIABLES
    db,         \* [Book -> its row and its content]
    clock,      \* the number of the last write
    page,       \* where the visitor is
    query,      \* [Key -> the entry of the query cache]
    fetch,      \* [Key -> the fetch under way, or None]
    dialog,     \* the open dialog, or None
    requests,   \* [Req -> a request of a mutation, or None]
    own,        \* [Book -> the last writes that answers to its mutations told of]
    unsure      \* [Key -> may the entry lack one of them]

vars == <<db, clock, page, query, fetch, dialog, requests, own, unsure>>

-------------------------------------------------------------------------------
(* What the API answers to a fetch, and what is on the screen.               *)
Answered(k) ==
    IF k = "owned" THEN [b \in Book |-> Summary(db[b])] ELSE [b \in {k} |-> db[b]]

hasData(q) == q.data # None
Listed(q) == IF hasData(q) THEN {b \in Book : q.data[b].there} ELSE {}

(* MyBooks and AddToBookMenu observe the list, the page of a book its detail.*)
Page == Key \cup {"content"}
InView(k, p) == p = k \/ (k = "owned" /\ p = "content")

(* The component that made a request, or would, is on the screen.  My Books  *)
(* has a button for a new book in its header and one after its cards or in   *)
(* its place when it is empty.  What the menu of the control calls back for  *)
(* is its boxes, which BookControl models.                                   *)
Present(p, q, op, at) ==
    CASE op = "createBook" ->
            /\ p = "owned"
            /\ \/ at = "header"
               \/ at = "card" /\ Listed(q) # {}
               \/ at = "empty" /\ hasData(q) /\ Listed(q) = {} /\ ~q.error
      [] op \in {"updateBook", "deleteBook"} -> p = "owned" /\ at \in Listed(q)
      [] OTHER -> at = "section" /\ p \in Book

-------------------------------------------------------------------------------
(* A render with the list q on the page p: components come and go, and the   *)
(* edit dialog takes the book it edits into its fields when that changes.    *)

(* Faulty variant: the fields are seeded when the dialog opens, not later.   *)
EditFieldSeedOnce(d, q) == d

EditFieldSeed(d, q) ==
    IF d.op = "updateBook" /\ d.seed # q.data[d.at]
    THEN [d EXCEPT !.seed = q.data[d.at]]
    ELSE d

Render(p, q) ==
    dialog' = IF dialog = None \/ ~Present(p, q, dialog.op, dialog.at) THEN None
              ELSE EditFieldSeed(dialog, q)

(* The requests whose component has gone call back no more.                  *)
Kept(reqs, p, q) ==
    [r \in Req |-> IF reqs[r] # None /\ ~Present(p, q, reqs[r].op, reqs[r].from)
                   THEN [reqs[r] EXCEPT !.owned = FALSE] ELSE reqs[r]]

-------------------------------------------------------------------------------
(* Fetches *)

NewFetch == [served |-> FALSE, got |-> None]
MayLoad(k) == fetch[k] = None /\ (~hasData(query[k]) \/ query[k].stale)
Begin(k) ==
    /\ fetch' = [fetch EXCEPT ![k] = NewFetch]
    /\ unsure' = [unsure EXCEPT ![k] = FALSE]

ServeFetch(k) ==
    /\ fetch[k] # None /\ ~fetch[k].served
    /\ k \in Book => db[k].there
    /\ fetch' = [fetch EXCEPT ![k] = [served |-> TRUE, got |-> Answered(k)]]
    /\ UNCHANGED <<db, clock, page, query, dialog, requests, own, unsure>>

(* An entry of the cache is replaced.                                        *)
Store(k, entry) ==
    /\ query' = [query EXCEPT ![k] = entry]
    /\ Render(page, query'["owned"])
    /\ requests' = Kept(requests, page, query'["owned"])

ReceiveFetch(k) ==
    /\ fetch[k] # None /\ fetch[k].served
    /\ fetch' = [fetch EXCEPT ![k] = None]
    /\ Store(k, [data |-> fetch[k].got, stale |-> FALSE, error |-> FALSE])
    /\ UNCHANGED <<db, clock, page, own, unsure>>

(* No answer, an error, or 404 for a book that is gone; data there was stays.*)
(* error matters to what My Books shows of the list only.                    *)
FailFetch(k) ==
    /\ fetch[k] # None
    /\ fetch' = [fetch EXCEPT ![k] = None]
    /\ Store(k, [query[k] EXCEPT !.stale = TRUE,
                              !.error = k = "owned"])
    /\ UNCHANGED <<db, clock, page, own, unsure>>

(* The connection comes back: what is stale and in view is loaded again.     *)
Reconnect(k) ==
    /\ InView(k, page) /\ MayLoad(k)
    /\ Begin(k)
    /\ UNCHANGED <<db, clock, page, query, dialog, requests, own>>

(* A hover over a link to My Books, or over the name of a book there.        *)
Prefetch(k) ==
    /\ MayLoad(k)
    /\ k \in Book => page = "owned" /\ k \in Listed(query["owned"])
    /\ Begin(k)
    /\ UNCHANGED <<db, clock, page, query, dialog, requests, own>>

-------------------------------------------------------------------------------
(* The visitor *)

(* To a page of the app, by a link, the address bar's history or a bookmark. *)
Go(p) ==
    /\ p # page /\ page' = p
    /\ LET seen == {k \in Key : InView(k, p) /\ ~InView(k, page) /\ MayLoad(k)}
       IN  /\ fetch' = [k \in Key |-> IF k \in seen THEN NewFetch ELSE fetch[k]]
           /\ unsure' = [k \in Key |-> unsure[k] /\ k \notin seen]
    /\ dialog' = None
    /\ requests' = Kept(requests, p, query["owned"])
    /\ UNCHANGED <<db, clock, query, own>>

OpenDialog(op, at) ==
    /\ dialog = None /\ Present(page, query["owned"], op, at)
    /\ dialog' = [op |-> op, at |-> at,
                  seed |-> IF op = "updateBook" THEN query["owned"].data[at]
                           ELSE NoRow]
    /\ UNCHANGED <<db, clock, page, query, fetch, requests, own, unsure>>

Cancel ==
    /\ dialog # None /\ dialog' = None
    /\ UNCHANGED <<db, clock, page, query, fetch, requests, own, unsure>>

(* A request, from the dialog, menu or section that sends it.                *)
NewRequest(op, b, from) ==
    [op |-> op, book |-> b, from |-> from, served |-> FALSE, wrote |-> NoRow,
     owned |-> from # "control"]
Pending(op, from) ==
    \E r \in Req : requests[r] # None /\ requests[r].op = op
                    /\ requests[r].from = from /\ requests[r].owned
Send(op, b, from) ==
    /\ \E r \in Req :
        /\ requests[r] = None
        /\ requests' = [requests EXCEPT ![r] = NewRequest(op, b, from)]
    /\ UNCHANGED <<db, clock, page, query, fetch, dialog, own, unsure>>

(* A button that is loading sends nothing.  A new book has a new id.         *)
Submit(b) ==
    /\ dialog # None /\ ~Pending(dialog.op, dialog.at)
    /\ IF dialog.op = "createBook"
       THEN /\ db[b] = NoRow
            /\ \A r \in Req : requests[r] # None => requests[r].book # b
       ELSE b = dialog.at
    /\ Send(dialog.op, b, dialog.at)

(* The menu on the page of a content lists the owned books; a section of a   *)
(* book has a button on each row.                                            *)
Toggle(op, b) ==
    /\ op \in {"addContentToBook", "removeContentFromBook"}
    /\ page = "content" /\ b \in Listed(query["owned"])
    /\ Send(op, b, "control")

RemoveRow(b) ==
    /\ page = b /\ hasData(query[b])
    /\ Send("removeContentFromBook", b, "section")

-------------------------------------------------------------------------------
(* The API; another browser *)

Written(op, row) ==
    CASE op \in {"createBook", "updateBook"} ->
            [row EXCEPT !.at = clock + 1, !.there = TRUE]
      [] op = "deleteBook" -> [row EXCEPT !.at = clock + 1, !.there = FALSE]
      [] OTHER -> [row EXCEPT !.filled = clock + 1]

Write(op, b) ==
    /\ clock < MaxWrites /\ clock' = clock + 1
    /\ IF op = "createBook" THEN db[b] = NoRow ELSE db[b].there
    /\ db' = [db EXCEPT ![b] = Written(op, db[b])]

(* An update is answered with the book and its counts.                       *)
Told(op, row) ==
    CASE op = "updateBook" -> row
      [] op \in {"createBook", "deleteBook"} -> Summary(row)
      [] OTHER -> [row EXCEPT !.at = 0]

Serve(r) ==
    /\ requests[r] # None /\ ~requests[r].served
    /\ Write(requests[r].op, requests[r].book)
    /\ requests' = [requests EXCEPT ![r].served = TRUE,
                                    ![r].wrote =
                                        Told(requests[r].op, db'[requests[r].book])]
    /\ UNCHANGED <<page, query, fetch, dialog, own, unsure>>

Elsewhere(op, b) ==
    /\ Write(op, b)
    /\ op = "createBook" =>
        \A r \in Req : requests[r] # None => requests[r].book # b
    /\ UNCHANGED <<page, query, fetch, dialog, requests, own, unsure>>

-------------------------------------------------------------------------------
(* Answers *)

(* updateBook.onSuccess writes the answer into the detail first.             *)
setQueryData(q) ==
    IF q.op # "updateBook" THEN query
    ELSE [query EXCEPT ![q.book] = [data |-> [b \in {q.book} |-> q.wrote],
                                    stale |-> FALSE, error |-> FALSE]]

(* Faulty variant: only what is in view is invalidated.                      *)
invalidateActive(cache) ==
    /\ query' = [k \in Key |-> [cache[k] EXCEPT !.stale = @ \/ InView(k, page)]]
    /\ fetch' = [k \in Key |-> IF InView(k, page) THEN NewFetch ELSE fetch[k]]
    /\ unsure' = [k \in Key |-> ~InView(k, page) /\ (unsure[k] \/ fetch[k] # None)]

(* invalidateQueries for all that is under ['books']: every entry is stale,  *)
(* and one in view is fetched again in place of a fetch under way.  A fetch  *)
(* goes on when its entry is out of view or has no data.                     *)
invalidateQueries(cache) ==
    LET again == {k \in Key : InView(k, page) /\ (hasData(cache[k]) \/ fetch[k] = None)}
    IN  /\ query' = [k \in Key |-> [cache[k] EXCEPT !.stale = TRUE]]
        /\ fetch' = [k \in Key |-> IF k \in again THEN NewFetch ELSE fetch[k]]
        /\ unsure' = [k \in Key |-> k \notin again /\ (unsure[k] \/ fetch[k] # None)]

(* Then the callback of the dialog, if its component is still there, closes  *)
(* it: the dialog as it is now.                                              *)
Succeed(r) ==
    LET q == requests[r] IN
    /\ q # None /\ q.served
    /\ requests' = [requests EXCEPT ![r] = None]
    /\ invalidateQueries(setQueryData(q))
    /\ own' = [own EXCEPT ![q.book] = [at |-> IF @.at > q.wrote.at THEN @.at
                                              ELSE q.wrote.at,
                                       filled |-> IF @.filled > q.wrote.filled
                                                  THEN @.filled ELSE q.wrote.filled]]
    /\ dialog' = IF q.owned /\ dialog # None /\ dialog.op = q.op
                    /\ dialog.at = q.from THEN None ELSE dialog
    /\ UNCHANGED <<db, clock, page>>

(* The failures a request can end with.                                      *)
Contracts(op) ==
    CASE op = "addContentToBook" -> {addContentToBook[t] : t \in ContentType}
      [] op = "removeContentFromBook" ->
            {removeContentFromBook[t] : t \in ContentType}
      [] OTHER -> {BookContract[op]}
Codes(op) ==
    {toApiError(f) : f \in UNION {Failures(op, c) : c \in Contracts(op)}}

(* Where the user sees one: a toast of the provider, and one more of the     *)
(* section the row was removed from.                                         *)
ShownBy(q, code) ==
    (IF Toasts(q.op, code) THEN {"toast"} ELSE {})
        \cup (IF q.from = "section" /\ q.owned THEN {"section"} ELSE {})

(* It is refused, or its answer is lost; the dialog stays open.              *)
Fail(r) ==
    /\ requests[r] # None
    /\ requests' = [requests EXCEPT ![r] = None]
    /\ UNCHANGED <<db, clock, page, query, fetch, dialog, own, unsure>>

-------------------------------------------------------------------------------
Init ==
    /\ \E there \in SUBSET Book :
        db = [b \in Book |-> [NoRow EXCEPT !.there = b \in there]]
    /\ clock = 0
    /\ page \in Page
    /\ query = [k \in Key |-> [data |-> None, stale |-> TRUE, error |-> FALSE]]
    /\ fetch = [k \in Key |-> IF InView(k, page) THEN NewFetch ELSE None]
    /\ dialog = None
    /\ requests = [r \in Req |-> None]
    /\ own = [b \in Book |-> [at |-> 0, filled |-> 0]]
    /\ unsure = [k \in Key |-> FALSE]

Next ==
    \/ \E k \in Key : ServeFetch(k)
    \/ \E k \in Key : ReceiveFetch(k)
    \/ \E k \in Key : FailFetch(k)
    \/ \E k \in Key : Reconnect(k)
    \/ \E k \in Key : Prefetch(k)
    \/ \E p \in Page : Go(p)
    \/ \E at \in Button : OpenDialog("createBook", at)
    \/ \E op \in {"updateBook", "deleteBook"}, b \in Book : OpenDialog(op, b)
    \/ Cancel
    \/ \E b \in Book : Submit(b)
    \/ \E op \in BookOp, b \in Book : Toggle(op, b)
    \/ \E b \in Book : RemoveRow(b)
    \/ \E r \in Req : Serve(r)
    \/ \E op \in BookOp, b \in Book : Elsewhere(op, b)
    \/ \E r \in Req : Succeed(r)
    \/ \E r \in Req : Fail(r)

Spec == Init /\ [][Next]_vars

-------------------------------------------------------------------------------
Shapes ==
    /\ db \in [Book -> Row] /\ clock \in 0 .. MaxWrites /\ page \in Page
    /\ query = [k \in Key |-> query[k]] /\ fetch = [k \in Key |-> fetch[k]]
    /\ \A k \in Key : query[k] \in Entry(k) /\ fetch[k] \in Fetch(k) \cup {None}
    /\ dialog \in Dialog \cup {None}
    /\ requests \in [Req -> Request \cup {None}]
    /\ own \in [Book -> [at : 0 .. MaxWrites, filled : 0 .. MaxWrites]]
    /\ unsure \in [Key -> BOOLEAN]

OnScreen ==
    /\ dialog # None =>
        /\ Present(page, query["owned"], dialog.op, dialog.at)
        /\ dialog.op = "updateBook" => dialog.seed = query["owned"].data[dialog.at]
    /\ \A r \in Req : requests[r] # None /\ requests[r].owned =>
        Present(page, query["owned"], requests[r].op, requests[r].from)

(* Every variable has its shape.  A dialog, and a request that calls back,   *)
(* belong to a component on the screen; and the fields of an edit dialog     *)
(* that nobody has typed into are those of the list, so that saving them     *)
(* puts nothing older back.                                                  *)
TypeOK == Shapes /\ OnScreen

(* What is cached as k has what the answers told of it.                      *)
HasOwn(data, k) ==
    \A b \in Scope(k) : /\ own[b].at <= data[b].at
                        /\ k # "owned" => own[b].filled <= data[b].filled

(* A cached list or detail that counts as fresh has every write that the     *)
(* answer to a request of this tab told of, whatever was in flight when it   *)
(* was, in whatever order the answers came, and wherever the visitor went    *)
(* meanwhile; unless the entry was being loaded for the first time, or out   *)
(* of view, when the answer came (update-book.ts:24, create-book.ts:19,      *)
(* delete-book.ts:15).                                                       *)
ReadsOwnWrites ==
    \A k \in Key : hasData(query[k]) /\ ~query[k].stale /\ ~unsure[k] =>
        HasOwn(query[k].data, k)

(* A failure of a book dialog or of a change of contents is always seen, and *)
(* by one message; but for a removal in a section, which adds one of its own *)
(* (book-content-sections.tsx:90).  No dialog of books has a field for it.   *)
BookFailureShown ==
    \A r \in Req : requests[r] # None =>
        \A code \in Codes(requests[r].op) :
            LET shown == ShownBy(requests[r], code) IN
            /\ "toast" \in shown
            /\ requests[r].from # "section" => shown = {"toast"}
=============================================================================
