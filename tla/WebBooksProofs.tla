---------------------------- MODULE WebBooksProofs ----------------------------
(* What WebBooks keeps for any books, any number of requests under way and   *)
(* any number of writes.                                                     *)
EXTENDS WebBooks, TLAPS

-------------------------------------------------------------------------------
(* Data *)

LEMMA KeyFacts ==
    /\ "owned" \in Key /\ "owned" \notin Book /\ Book \subseteq Key
    /\ Scope("owned") = Book
    /\ \A b \in Book : b # "owned" /\ Scope(b) = {b}
    /\ \A k \in Key : Scope(k) \subseteq Book
BY BooksAreNoPages DEF Key, Scope

LEMMA NoneFacts ==
    /\ None \notin Dialog /\ None \notin Request
    /\ \A k \in Key : None \notin Answer(k) /\ None \notin Fetch(k)
BY NoneIsNoOther

LEMMA RowFacts ==
    /\ NoRow \in Row
    /\ \A row \in Row : /\ row.at \in 0 .. MaxWrites
                        /\ row.filled \in 0 .. MaxWrites
                        /\ row.there \in BOOLEAN
                        /\ Summary(row) \in Row
                        /\ Summary(row).at = row.at
                        /\ Summary(row).filled = 0
BY WritesAreBounded DEF Row, NoRow, Summary

(* What a fetch is answered with.                                            *)
LEMMA AnsweredFacts ==
    ASSUME db \in [Book -> Row], NEW k \in Key
    PROVE  /\ Answered(k) \in Answer(k)
           /\ \A b \in Scope(k) :
                /\ Answered(k)[b].at = db[b].at
                /\ k # "owned" => Answered(k)[b].filled = db[b].filled
<1>1. CASE k = "owned"
    BY <1>1, KeyFacts, RowFacts DEF Answered, Answer
<1>2. CASE k \in Book
    BY <1>2, KeyFacts, RowFacts DEF Answered, Answer
<1>3. QED BY <1>1, <1>2 DEF Key

LEMMA NewFetchFacts ==
    ASSUME NEW k \in Key
    PROVE  NewFetch \in Fetch(k) /\ NewFetch # None /\ ~NewFetch.served
<1>1. NewFetch \in Fetch(k) BY DEF NewFetch, Fetch
<1>2. ~NewFetch.served BY DEF NewFetch
<1>3. QED BY <1>1, <1>2, NoneFacts

(* A list with data has a row for every book.                                *)
LEMMA ListedFacts ==
    ASSUME NEW q \in Entry("owned"), NEW b \in Listed(q)
    PROVE  b \in Book /\ hasData(q) /\ q.data[b] \in Row
BY KeyFacts DEF Listed, Entry, Answer, hasData

(* What a write makes of a row.                                              *)
LEMMA WrittenFacts ==
    ASSUME NEW op \in BookOp, NEW row \in Row, clock \in 0 .. MaxWrites,
           clock < MaxWrites, row.at <= clock, row.filled <= clock
    PROVE  /\ Written(op, row) \in Row
           /\ row.at <= Written(op, row).at
           /\ Written(op, row).at <= clock + 1
           /\ row.filled <= Written(op, row).filled
           /\ Written(op, row).filled <= clock + 1
<1>1. clock + 1 \in 0 .. MaxWrites BY WritesAreBounded
<1>2. row.at \in Nat /\ row.filled \in Nat /\ clock \in Nat
    BY RowFacts, WritesAreBounded
<1>3. CASE op \in {"createBook", "updateBook"}
  <2>1. Written(op, row) = [row EXCEPT !.at = clock + 1, !.there = TRUE]
      BY <1>3 DEF Written
  <2>2. Written(op, row) \in Row BY <1>1, <2>1 DEF Row
  <2>3. /\ Written(op, row).at = clock + 1
        /\ Written(op, row).filled = row.filled
      BY <2>1 DEF Row
  <2>4. QED BY <1>1, <1>2, <2>2, <2>3
<1>4. CASE op = "deleteBook"
  <2>1. Written(op, row) = [row EXCEPT !.at = clock + 1, !.there = FALSE]
      BY <1>4 DEF Written
  <2>2. Written(op, row) \in Row BY <1>1, <2>1 DEF Row
  <2>3. /\ Written(op, row).at = clock + 1
        /\ Written(op, row).filled = row.filled
      BY <2>1 DEF Row
  <2>4. QED BY <1>1, <1>2, <2>2, <2>3
<1>5. CASE op \notin {"createBook", "updateBook", "deleteBook"}
    BY <1>1, <1>2, <1>5 DEF Written, Row
<1>6. QED BY <1>3, <1>4, <1>5

(* The answer to a request tells of no write that is not in the row.         *)
LEMMA ToldFacts ==
    ASSUME NEW op \in BookOp, NEW row \in Row
    PROVE  /\ Told(op, row) \in Row
           /\ Told(op, row).at <= row.at
           /\ Told(op, row).filled <= row.filled
<1>1. row.at \in Nat /\ row.filled \in Nat BY RowFacts, WritesAreBounded
<1>2. CASE op = "updateBook" BY <1>1, <1>2 DEF Told
<1>3. CASE op \in {"createBook", "deleteBook"}
    BY <1>1, <1>3, RowFacts DEF Told
<1>4. CASE op \notin {"createBook", "updateBook", "deleteBook"}
  <2>1. Told(op, row) = [row EXCEPT !.at = 0] BY <1>4 DEF Told
  <2>2. QED BY <1>1, <2>1, WritesAreBounded DEF Row
<1>5. QED BY <1>2, <1>3, <1>4

-------------------------------------------------------------------------------
(* A render keeps the dialog on the screen, and its fields those of the list.*)
LEMMA RenderFacts ==
    ASSUME dialog \in Dialog \cup {None}, NEW p, NEW q \in Entry("owned"),
           Render(p, q)
    PROVE  /\ dialog' \in Dialog \cup {None}
           /\ dialog' # None =>
                /\ Present(p, q, dialog'.op, dialog'.at)
                /\ dialog'.op = "updateBook" => dialog'.seed = q.data[dialog'.at]
<1>1. CASE dialog = None \/ ~Present(p, q, dialog.op, dialog.at)
    BY <1>1 DEF Render
<1>2. CASE dialog # None /\ Present(p, q, dialog.op, dialog.at)
  <2>1. dialog \in Dialog /\ dialog' = EditFieldSeed(dialog, q)
      BY <1>2 DEF Render
  <2>2. CASE dialog.op = "updateBook" /\ dialog.seed # q.data[dialog.at]
    <3>1. dialog' = [dialog EXCEPT !.seed = q.data[dialog.at]]
        BY <2>1, <2>2 DEF EditFieldSeed
    <3>2. dialog.at \in Listed(q) BY <1>2, <2>2 DEF Present
    <3>3. q.data[dialog.at] \in Row BY <3>2, ListedFacts
    <3>4. dialog' \in Dialog BY <2>1, <3>1, <3>3 DEF Dialog
    <3>5. /\ dialog'.op = dialog.op /\ dialog'.at = dialog.at
          /\ dialog'.seed = q.data[dialog.at]
        BY <2>1, <3>1 DEF Dialog
    <3>6. QED BY <1>2, <3>4, <3>5
  <2>3. CASE ~(dialog.op = "updateBook" /\ dialog.seed # q.data[dialog.at])
    <3>1. dialog' = dialog BY <2>1, <2>3 DEF EditFieldSeed
    <3>2. QED BY <1>2, <2>1, <2>3, <3>1
  <2>4. QED BY <2>2, <2>3
<1>3. QED BY <1>1, <1>2

(* Requests lose at most their callback, and with it their place.            *)
LEMMA KeptFacts ==
    ASSUME requests \in [Req -> Request \cup {None}], NEW p, NEW q,
           requests' = Kept(requests, p, q)
    PROVE  /\ requests' \in [Req -> Request \cup {None}]
           /\ \A r \in Req : requests'[r] # None =>
                /\ requests[r] # None
                /\ requests'[r].served = requests[r].served
                /\ requests'[r].book = requests[r].book
                /\ requests'[r].wrote = requests[r].wrote
                /\ requests'[r].owned =>
                     Present(p, q, requests'[r].op, requests'[r].from)
<1>1. ASSUME NEW r \in Req
      PROVE  /\ requests'[r] \in Request \cup {None}
             /\ requests'[r] # None =>
                /\ requests[r] # None
                /\ requests'[r].served = requests[r].served
                /\ requests'[r].book = requests[r].book
                /\ requests'[r].wrote = requests[r].wrote
                /\ requests'[r].owned =>
                     Present(p, q, requests'[r].op, requests'[r].from)
  <2>1. CASE requests[r] # None /\ ~Present(p, q, requests[r].op, requests[r].from)
    <3>1. requests[r] \in Request BY <2>1
    <3>2. requests'[r] = [requests[r] EXCEPT !.owned = FALSE]
        BY <2>1 DEF Kept
    <3>3. requests'[r] \in Request BY <3>1, <3>2 DEF Request
    <3>4. /\ requests'[r].served = requests[r].served
          /\ requests'[r].book = requests[r].book
          /\ requests'[r].wrote = requests[r].wrote
        BY <3>1, <3>2 DEF Request
    <3>5. requests'[r].owned = FALSE BY <3>1, <3>2 DEF Request
    <3>6. QED BY <2>1, <3>3, <3>4, <3>5
  <2>2. CASE ~(requests[r] # None /\ ~Present(p, q, requests[r].op, requests[r].from))
    <3>1. requests'[r] = requests[r] BY <2>2 DEF Kept
    <3>2. QED BY <2>2, <3>1
  <2>3. QED BY <2>1, <2>2
<1>2. requests' = [r \in Req |-> requests'[r]] BY DEF Kept
<1>3. QED BY <1>1, <1>2

(* A request is sent: one slot gets it.                                      *)
LEMMA SendFacts ==
    ASSUME requests \in [Req -> Request \cup {None}], NEW op \in BookOp,
           NEW b \in Book,
           NEW from \in Book \cup Button \cup {"control", "section"},
           Send(op, b, from)
    PROVE  /\ requests' \in [Req -> Request \cup {None}]
           /\ \A r \in Req :
                \/ requests'[r] = requests[r]
                \/ /\ requests'[r].op = op /\ requests'[r].from = from
                   /\ ~requests'[r].served
                   /\ requests'[r].owned => from # "control"
<1> DEFINE q == NewRequest(op, b, from)
<1>1. q \in Request BY RowFacts DEF NewRequest, Request
<1>2. q.op = op /\ q.from = from /\ ~q.served /\ (q.owned => from # "control")
    BY DEF NewRequest
<1>3. PICK r \in Req : requests' = [requests EXCEPT ![r] = q]
    BY DEF Send
<1>4. QED BY <1>1, <1>2, <1>3

(* A dialog that is opened shows its book or button.                         *)
LEMMA OpenFacts ==
    ASSUME Shapes, NEW op \in {"createBook", "updateBook", "deleteBook"},
           NEW at \in Book \cup Button, OpenDialog(op, at)
    PROVE  /\ dialog' \in Dialog
           /\ dialog'.op = op /\ dialog'.at = at
           /\ op = "updateBook" => dialog'.seed = query["owned"].data[at]
<1> DEFINE seed == IF op = "updateBook" THEN query["owned"].data[at] ELSE NoRow
<1>1. dialog' = [op |-> op, at |-> at, seed |-> seed] BY DEF OpenDialog
<1>2. seed \in Row
  <2>1. CASE op = "updateBook"
    <3>1. at \in Listed(query["owned"]) BY <2>1 DEF OpenDialog, Present
    <3>2. QED BY <2>1, <3>1, ListedFacts, KeyFacts DEF Shapes
  <2>2. CASE op # "updateBook" BY <2>2, RowFacts
  <2>3. QED BY <2>1, <2>2
<1>3. QED BY <1>1, <1>2 DEF Dialog

(* Loading an entry.                                                         *)
LEMMA BeginFacts ==
    ASSUME Shapes, NEW k \in Key, Begin(k)
    PROVE  /\ fetch' = [j \in Key |-> fetch'[j]]
           /\ \A j \in Key : fetch'[j] \in Fetch(j) \cup {None}
           /\ unsure' \in [Key -> BOOLEAN]
BY NewFetchFacts DEF Shapes, Begin

(* An entry is replaced: shapes hold, and the screen follows the list.       *)
LEMMA StoreFacts ==
    ASSUME Shapes, NEW k \in Key, NEW entry \in Entry(k), Store(k, entry)
    PROVE  /\ query' = [j \in Key |-> query'[j]]
           /\ query'[k] = entry
           /\ \A j \in Key : query'[j] \in Entry(j)
           /\ \A j \in Key : j # k => query'[j] = query[j]
           /\ Render(page, query'["owned"])
           /\ requests' = Kept(requests, page, query'["owned"])
           /\ dialog' \in Dialog \cup {None}
           /\ requests' \in [Req -> Request \cup {None}]
<1>1. query' = [query EXCEPT ![k] = entry] BY DEF Store
<1>2. /\ query' = [j \in Key |-> query'[j]] /\ query'[k] = entry
      /\ \A j \in Key : j # k => query'[j] = query[j]
    BY <1>1 DEF Shapes
<1>3. \A j \in Key : query'[j] \in Entry(j) BY <1>2 DEF Shapes
<1>4. Render(page, query'["owned"]) /\ requests' = Kept(requests, page, query'["owned"])
    BY DEF Store
<1>5. query'["owned"] \in Entry("owned") BY <1>3, KeyFacts
<1>6. dialog' \in Dialog \cup {None} BY <1>4, <1>5, RenderFacts DEF Shapes
<1>7. requests' \in [Req -> Request \cup {None}] BY <1>4, KeptFacts DEF Shapes
<1>8. QED BY <1>2, <1>3, <1>4, <1>6, <1>7

LEMMA ReceivedEntry ==
    ASSUME Shapes, NEW k \in Key, fetch[k] # None
    PROVE  [data |-> fetch[k].got, stale |-> FALSE, error |-> FALSE] \in Entry(k)
BY DEF Shapes, Fetch, Entry

LEMMA FailedEntry ==
    ASSUME Shapes, NEW k \in Key
    PROVE  /\ [query[k] EXCEPT !.stale = TRUE, !.error = k = "owned"] \in Entry(k)
           /\ [query[k] EXCEPT !.stale = TRUE, !.error = k = "owned"].stale
<1>1. query[k] \in Entry(k) /\ (k = "owned") \in BOOLEAN BY DEF Shapes
<1>2. [query[k] EXCEPT !.stale = TRUE, !.error = k = "owned"] \in Entry(k)
    BY <1>1 DEF Entry
<1>3. [query[k] EXCEPT !.stale = TRUE, !.error = k = "owned"].stale = TRUE
    BY <1>1 DEF Entry
<1>4. QED BY <1>2, <1>3

(* A row is written.                                                         *)
RowsNotAhead == \A b \in Book : db[b].at <= clock /\ db[b].filled <= clock

LEMMA WriteFacts ==
    ASSUME Shapes, RowsNotAhead, NEW op \in BookOp, NEW b \in Book, Write(op, b)
    PROVE  /\ db' \in [Book -> Row] /\ clock' \in 0 .. MaxWrites
           /\ RowsNotAhead'
           /\ \A c \in Book : db[c].at <= db'[c].at /\ db[c].filled <= db'[c].filled
<1>1. /\ clock < MaxWrites /\ clock' = clock + 1
      /\ db' = [db EXCEPT ![b] = Written(op, db[b])]
    BY DEF Write
<1>2. clock' \in 0 .. MaxWrites BY <1>1, WritesAreBounded DEF Shapes
<1>3. /\ Written(op, db[b]) \in Row
      /\ db[b].at <= Written(op, db[b]).at
      /\ Written(op, db[b]).at <= clock + 1
      /\ db[b].filled <= Written(op, db[b]).filled
      /\ Written(op, db[b]).filled <= clock + 1
    BY <1>1, WrittenFacts DEF Shapes, RowsNotAhead
<1>4. db' \in [Book -> Row] BY <1>1, <1>3 DEF Shapes
<1>5. ASSUME NEW c \in Book
      PROVE  /\ db[c].at <= db'[c].at /\ db[c].filled <= db'[c].filled
             /\ db'[c].at <= clock' /\ db'[c].filled <= clock'
  <2>1. /\ db[c].at \in Nat /\ db[c].filled \in Nat /\ clock \in Nat
        /\ db[c].at <= clock /\ db[c].filled <= clock
      BY RowFacts, WritesAreBounded DEF Shapes, RowsNotAhead
  <2>2. CASE c = b BY <1>1, <1>3, <2>2 DEF Shapes
  <2>3. CASE c # b
    <3>1. db'[c] = db[c] BY <1>1, <2>3 DEF Shapes
    <3>2. QED BY <1>1, <2>1, <3>1
  <2>4. QED BY <2>2, <2>3
<1>6. QED BY <1>2, <1>4, <1>5 DEF RowsNotAhead

(* The answer to a request arrives: every entry is stale, an entry that may  *)
(* have missed what it tells of is loaded again or marked, and what is       *)
(* cached of the list stays.                                                 *)
LEMMA SucceedFacts ==
    ASSUME Shapes, NEW r \in Req, Succeed(r)
    PROVE  /\ query' = [k \in Key |-> query'[k]]
           /\ fetch' = [k \in Key |-> fetch'[k]]
           /\ unsure' \in [Key -> BOOLEAN]
           /\ \A k \in Key :
                /\ query'[k] \in Entry(k) /\ query'[k].stale
                /\ fetch'[k] \in Fetch(k) \cup {None}
                /\ fetch'[k] # None /\ ~unsure'[k] => ~fetch'[k].served
           /\ query'["owned"].data = query["owned"].data
           /\ query'["owned"].error = query["owned"].error
<1> DEFINE q == requests[r]
           cache == setQueryData(q)
           again == {k \in Key : InView(k, page) /\ (hasData(cache[k]) \/ fetch[k] = None)}
<1>1. q \in Request BY DEF Shapes, Succeed
<1>2. /\ query' = [k \in Key |-> [cache[k] EXCEPT !.stale = TRUE]]
      /\ fetch' = [k \in Key |-> IF k \in again THEN NewFetch ELSE fetch[k]]
      /\ unsure' = [k \in Key |-> k \notin again /\ (unsure[k] \/ fetch[k] # None)]
    BY DEF Succeed, invalidateQueries
<1>3. /\ \A k \in Key : cache[k] \in Entry(k)
      /\ cache["owned"] = query["owned"]
  <2>1. CASE q.op # "updateBook"
      BY <2>1, KeyFacts DEF setQueryData, Shapes
  <2>2. CASE q.op = "updateBook"
    <3> DEFINE told == [data |-> [b \in {q.book} |-> q.wrote],
                        stale |-> FALSE, error |-> FALSE]
    <3>1. q.book \in Book /\ q.wrote \in Row BY <1>1 DEF Request
    <3>2. told \in Entry(q.book) BY <3>1, KeyFacts DEF Entry, Answer
    <3>3. cache = [query EXCEPT ![q.book] = told] BY <2>2 DEF setQueryData
    <3> HIDE DEF told, cache, q
    <3>4. QED BY <3>1, <3>2, <3>3, KeyFacts DEF Shapes
  <2>3. QED BY <2>1, <2>2
<1> HIDE DEF cache, q
<1>4. ASSUME NEW k \in Key
      PROVE  /\ query'[k] \in Entry(k) /\ query'[k].stale
             /\ query'[k].data = cache[k].data /\ query'[k].error = cache[k].error
  <2>1. query'[k] = [cache[k] EXCEPT !.stale = TRUE] BY <1>2
  <2>2. cache[k] \in Entry(k) BY <1>3
  <2>3. query'[k] \in Entry(k) BY <2>1, <2>2 DEF Entry
  <2>4. /\ query'[k].stale = TRUE /\ query'[k].data = cache[k].data
        /\ query'[k].error = cache[k].error
      BY <2>1, <2>2 DEF Entry
  <2>5. QED BY <2>3, <2>4
<1>5. ASSUME NEW k \in Key
      PROVE  /\ fetch'[k] \in Fetch(k) \cup {None}
             /\ fetch'[k] # None /\ ~unsure'[k] => ~fetch'[k].served
  <2>1. CASE k \in again BY <1>2, <2>1, NewFetchFacts
  <2>2. CASE k \notin again BY <1>2, <2>2 DEF Shapes
  <2>3. QED BY <2>1, <2>2
<1>6. query' = [k \in Key |-> query'[k]] /\ fetch' = [k \in Key |-> fetch'[k]]
    BY <1>2
<1>7. unsure' \in [Key -> BOOLEAN] BY <1>2
<1>8. QED BY <1>3, <1>4, <1>5, <1>6, <1>7, KeyFacts

-------------------------------------------------------------------------------
(* Shapes, and what is on the screen                                         *)

LEMMA Served ==
    ASSUME Shapes, RowsNotAhead, NEW r \in Req, Serve(r)
    PROVE  /\ requests' \in [Req -> Request \cup {None}]
           /\ requests[r] \in Request
           /\ requests'[r].book = requests[r].book
           /\ requests'[r].op = requests[r].op
           /\ requests'[r].from = requests[r].from
           /\ requests'[r].owned = requests[r].owned
           /\ requests'[r].wrote.at <= db'[requests[r].book].at
           /\ requests'[r].wrote.filled <= db'[requests[r].book].filled
           /\ \A s \in Req : s # r => requests'[s] = requests[s]
<1> DEFINE q == requests[r]
           told == Told(q.op, db'[q.book])
<1>1. q \in Request /\ q.op \in BookOp /\ q.book \in Book
    BY DEF Shapes, Serve, Request
<1>2. db' \in [Book -> Row] BY <1>1, WriteFacts DEF Serve
<1>3. told \in Row /\ told.at <= db'[q.book].at /\ told.filled <= db'[q.book].filled
    BY <1>1, <1>2, ToldFacts
<1>4. requests' = [requests EXCEPT ![r] = [q EXCEPT !.served = TRUE, !.wrote = told]]
    BY DEF Serve, Shapes
<1> HIDE DEF told, q
<1>5. [q EXCEPT !.served = TRUE, !.wrote = told] \in Request
    BY <1>1, <1>3 DEF Request
<1>6. /\ [q EXCEPT !.served = TRUE, !.wrote = told].wrote = told
      /\ [q EXCEPT !.served = TRUE, !.wrote = told].book = q.book
      /\ [q EXCEPT !.served = TRUE, !.wrote = told].op = q.op
      /\ [q EXCEPT !.served = TRUE, !.wrote = told].from = q.from
      /\ [q EXCEPT !.served = TRUE, !.wrote = told].owned = q.owned
    BY <1>1 DEF Request
<1>7. requests'[r] = [q EXCEPT !.served = TRUE, !.wrote = told]
      /\ \A s \in Req : s # r => requests'[s] = requests[s]
    BY <1>4 DEF Shapes
<1>8. requests' \in [Req -> Request \cup {None}] BY <1>4, <1>5 DEF Shapes
<1>9. QED BY <1>1, <1>3, <1>6, <1>7, <1>8 DEF q

(* Who sends a request has a place on the screen for it.                     *)
LEMMA SubmitFacts ==
    ASSUME TypeOK, NEW b \in Book, Submit(b)
    PROVE  /\ requests' \in [Req -> Request \cup {None}]
           /\ \A r \in Req :
                \/ requests'[r] = requests[r]
                \/ /\ ~requests'[r].served
                   /\ Present(page, query["owned"], requests'[r].op, requests'[r].from)
<1>1. /\ dialog \in Dialog
      /\ Present(page, query["owned"], dialog.op, dialog.at)
      /\ Send(dialog.op, b, dialog.at)
    BY DEF TypeOK, Shapes, OnScreen, Submit
<1>2. dialog.op \in BookOp /\ dialog.at \in Book \cup Button
    BY <1>1 DEF Dialog, BookOp, BookContract
<1>3. QED BY <1>1, <1>2, SendFacts DEF TypeOK, Shapes

LEMMA RowRequestFacts ==
    ASSUME TypeOK, NEW b \in Book, NEW op \in BookOp,
           RemoveRow(b) \/ Toggle(op, b)
    PROVE  /\ requests' \in [Req -> Request \cup {None}]
           /\ \A r \in Req :
                \/ requests'[r] = requests[r]
                \/ /\ ~requests'[r].served
                   /\ requests'[r].owned =>
                        Present(page, query["owned"], requests'[r].op, requests'[r].from)
<1>1. CASE RemoveRow(b)
  <2>1. "removeContentFromBook" \in BookOp BY DEF BookOp
  <2>2. Present(page, query["owned"], "removeContentFromBook", "section")
      BY <1>1 DEF RemoveRow, Present
  <2>3. Send("removeContentFromBook", b, "section") BY <1>1 DEF RemoveRow
  <2>4. QED BY <2>1, <2>2, <2>3, SendFacts DEF TypeOK, Shapes
<1>2. CASE Toggle(op, b)
  <2>1. Send(op, b, "control") BY <1>2 DEF Toggle
  <2>2. QED BY <2>1, SendFacts DEF TypeOK, Shapes
<1>3. QED BY <1>1, <1>2

LEMMA TypeStep ==
    ASSUME TypeOK, RowsNotAhead, [Next]_vars
    PROVE  TypeOK'
<1> USE KeyFacts DEF TypeOK
<1>1. ASSUME NEW k \in Key, ServeFetch(k)
      PROVE  TypeOK'
  <2>1. [served |-> TRUE, got |-> Answered(k)] \in Fetch(k)
      BY AnsweredFacts DEF Shapes, Fetch
  <2>2. Shapes' BY <1>1, <2>1 DEF Shapes, ServeFetch
  <2>3. OnScreen' BY <1>1 DEF OnScreen, ServeFetch
  <2>4. QED BY <2>2, <2>3
<1>2. ASSUME NEW k \in Key, NEW entry \in Entry(k), Store(k, entry),
             fetch' = [fetch EXCEPT ![k] = None],
             UNCHANGED <<db, clock, page, own, unsure>>
      PROVE  TypeOK'
  <2>1. Shapes' BY <1>2, StoreFacts DEF Shapes
  <2>2. query'["owned"] \in Entry("owned") BY <2>1 DEF Shapes
  <2>3. OnScreen' BY <1>2, <2>2, StoreFacts, RenderFacts, KeptFacts DEF OnScreen, Shapes
  <2>4. QED BY <2>1, <2>3
<1>3. ASSUME NEW k \in Key, ReceiveFetch(k)
      PROVE  TypeOK'
    BY <1>2, <1>3, ReceivedEntry DEF ReceiveFetch
<1>4. ASSUME NEW k \in Key, FailFetch(k)
      PROVE  TypeOK'
    BY <1>2, <1>4, FailedEntry DEF FailFetch
<1>5. ASSUME NEW k \in Key, Reconnect(k) \/ Prefetch(k)
      PROVE  TypeOK'
  <2>1. Begin(k) /\ UNCHANGED <<db, clock, page, query, dialog, requests, own>>
      BY <1>5 DEF Reconnect, Prefetch
  <2>2. Shapes' BY <2>1, BeginFacts DEF Shapes
  <2>3. OnScreen' BY <2>1 DEF OnScreen
  <2>4. QED BY <2>2, <2>3
<1>6. ASSUME NEW p \in Page, Go(p)
      PROVE  TypeOK'
  <2>1. requests' = Kept(requests, p, query["owned"]) BY <1>6 DEF Go
  <2>2. requests' \in [Req -> Request \cup {None}] BY <2>1, KeptFacts DEF Shapes
  <2>3. Shapes' BY <1>6, <2>2, NewFetchFacts DEF Shapes, Go
  <2>4. OnScreen'
    <3>1. page' = p /\ dialog' = None /\ query' = query BY <1>6 DEF Go
    <3>2. QED BY <2>1, <3>1, KeptFacts DEF OnScreen, Shapes
  <2>5. QED BY <2>3, <2>4
<1>7. ASSUME NEW op \in {"createBook", "updateBook", "deleteBook"},
             NEW at \in Book \cup Button, OpenDialog(op, at)
      PROVE  TypeOK'
  <2>1. UNCHANGED <<db, clock, page, query, fetch, requests, own, unsure>>
      BY <1>7 DEF OpenDialog
  <2>2. Present(page, query["owned"], op, at) BY <1>7 DEF OpenDialog
  <2>3. Shapes' BY <1>7, <2>1, OpenFacts DEF Shapes
  <2>4. OnScreen' BY <1>7, <2>1, <2>2, OpenFacts DEF OnScreen
  <2>5. QED BY <2>3, <2>4
<1>8. CASE Cancel BY <1>8 DEF Cancel, Shapes, OnScreen
<1>9. ASSUME NEW b \in Book, Submit(b)
      PROVE  TypeOK'
  <2>1. UNCHANGED <<db, clock, page, query, fetch, dialog, own, unsure>>
      BY <1>9 DEF Submit, Send
  <2>2. Shapes' BY <1>9, <2>1, SubmitFacts DEF Shapes
  <2>3. OnScreen' BY <1>9, <2>1, SubmitFacts DEF OnScreen
  <2>4. QED BY <2>2, <2>3
<1>10. ASSUME NEW b \in Book, NEW op \in BookOp, RemoveRow(b) \/ Toggle(op, b)
       PROVE  TypeOK'
  <2>1. UNCHANGED <<db, clock, page, query, fetch, dialog, own, unsure>>
      BY <1>10 DEF RemoveRow, Toggle, Send
  <2>2. Shapes' BY <1>10, <2>1, RowRequestFacts DEF Shapes
  <2>3. OnScreen' BY <1>10, <2>1, RowRequestFacts DEF OnScreen
  <2>4. QED BY <2>2, <2>3
<1>11. ASSUME NEW r \in Req, Serve(r)
       PROVE  TypeOK'
  <2>1. UNCHANGED <<page, query, fetch, dialog, own, unsure>> BY <1>11 DEF Serve
  <2>2. requests[r].op \in BookOp /\ requests[r].book \in Book
      BY <1>11, Served DEF Request
  <2>3. db' \in [Book -> Row] /\ clock' \in 0 .. MaxWrites
      BY <1>11, <2>2, WriteFacts DEF Serve
  <2>4. Shapes' BY <1>11, <2>1, <2>3, Served DEF Shapes
  <2>5. \A s \in Req : requests'[s] # None /\ requests'[s].owned =>
            Present(page, query["owned"], requests'[s].op, requests'[s].from)
      BY <1>11, Served, NoneFacts DEF OnScreen
  <2>6. OnScreen' BY <2>1, <2>5 DEF OnScreen
  <2>7. QED BY <2>4, <2>6
<1>12. ASSUME NEW op \in BookOp, NEW b \in Book, Elsewhere(op, b)
       PROVE  TypeOK'
  <2>1. UNCHANGED <<page, query, fetch, dialog, requests, own, unsure>>
      BY <1>12 DEF Elsewhere
  <2>2. db' \in [Book -> Row] /\ clock' \in 0 .. MaxWrites
      BY <1>12, WriteFacts DEF Elsewhere
  <2>3. Shapes' BY <2>1, <2>2 DEF Shapes
  <2>4. OnScreen' BY <2>1 DEF OnScreen
  <2>5. QED BY <2>3, <2>4
<1>13. ASSUME NEW r \in Req, Succeed(r)
       PROVE  TypeOK'
  <2>1. UNCHANGED <<db, clock, page>> /\ requests' = [requests EXCEPT ![r] = None]
        /\ dialog' \in {None, dialog}
      BY <1>13 DEF Succeed
  <2>2. requests' \in [Req -> Request \cup {None}]
        /\ \A s \in Req : requests'[s] # None => requests'[s] = requests[s]
      BY <2>1 DEF Shapes
  <2>3. own' \in [Book -> [at : 0 .. MaxWrites, filled : 0 .. MaxWrites]]
    <3>1. requests[r] \in Request BY <1>13 DEF Shapes, Succeed
    <3>2. requests[r].book \in Book /\ requests[r].wrote \in Row
        BY <3>1 DEF Request
    <3>3. requests[r].wrote.at \in 0 .. MaxWrites
          /\ requests[r].wrote.filled \in 0 .. MaxWrites
        BY <3>2, RowFacts
    <3>4. QED BY <1>13, <3>2, <3>3 DEF Shapes, Succeed
  <2>4. Shapes' BY <1>13, <2>1, <2>2, <2>3, SucceedFacts DEF Shapes
  <2>5. \A op, at : Present(page, query["owned"], op, at)
                    => Present(page, query'["owned"], op, at)
      BY <1>13, SucceedFacts DEF Present, Listed, hasData
  <2>6. OnScreen'
    <3>1. query'["owned"].data = query["owned"].data BY <1>13, SucceedFacts
    <3>2. QED BY <2>1, <2>2, <2>5, <3>1 DEF OnScreen
  <2>7. QED BY <2>4, <2>6
<1>14. ASSUME NEW r \in Req, Fail(r)
       PROVE  TypeOK'
    BY <1>14 DEF Fail, Shapes, OnScreen
<1>15. CASE UNCHANGED vars BY <1>15 DEF vars, Shapes, OnScreen
<1>16. "removeContentFromBook" \in BookOp BY DEF BookOp
<1>17. QED
    BY <1>1, <1>3, <1>4, <1>5, <1>6, <1>7, <1>8, <1>9, <1>10, <1>11, <1>12,
       <1>13, <1>14, <1>15, <1>16
    DEF Next

-------------------------------------------------------------------------------
(* What the tab was told of and what it shows                                *)

(* Every write an answer tells of, or will, is in the database.              *)
OwnIsWritten ==
    \A b \in Book : own[b].at <= db[b].at /\ own[b].filled <= db[b].filled

ToldIsWritten ==
    \A r \in Req : requests[r] # None /\ requests[r].served =>
        /\ requests[r].wrote.at <= db[requests[r].book].at
        /\ requests[r].wrote.filled <= db[requests[r].book].filled

(* So is it in what a fetch brings that no answer has overtaken.             *)
FetchHasOwn ==
    \A k \in Key :
        fetch[k] # None /\ fetch[k].served /\ ~unsure[k] => HasOwn(fetch[k].got, k)

IInv == /\ TypeOK /\ RowsNotAhead /\ OwnIsWritten /\ ToldIsWritten
        /\ FetchHasOwn /\ ReadsOwnWrites

LEMMA InitHolds == Init => IInv
<1> SUFFICES ASSUME Init PROVE IInv
    OBVIOUS
<1> USE WritesAreBounded, KeyFacts
<1>1. ASSUME NEW b \in Book
      PROVE  db[b] \in Row /\ db[b].at = 0 /\ db[b].filled = 0
  <2>1. PICK there \in SUBSET Book :
            db = [c \in Book |-> [NoRow EXCEPT !.there = c \in there]]
      BY DEF Init
  <2>2. (b \in there) \in BOOLEAN OBVIOUS
  <2>3. db[b] = [NoRow EXCEPT !.there = b \in there] BY <2>1
  <2>4. db[b] \in Row BY <2>2, <2>3, RowFacts DEF Row
  <2>5. db[b].at = 0 /\ db[b].filled = 0 BY <2>3 DEF NoRow
  <2>6. QED BY <2>4, <2>5
<1>2. db \in [Book -> Row]
  <2>1. db = [b \in Book |-> db[b]] BY DEF Init
  <2>2. QED BY <1>1, <2>1
<1>3. \A k \in Key : query[k] \in Entry(k) /\ ~hasData(query[k])
    BY DEF Init, Entry, hasData
<1>4. \A k \in Key : /\ fetch[k] \in Fetch(k) \cup {None}
                     /\ fetch[k] # None => ~fetch[k].served
    BY NewFetchFacts DEF Init
<1>5. Shapes
  <2>1. /\ clock = 0 /\ page \in Page /\ dialog = None
        /\ query = [k \in Key |-> query[k]] /\ fetch = [k \in Key |-> fetch[k]]
        /\ unsure \in [Key -> BOOLEAN]
        /\ requests \in [Req -> Request \cup {None}]
      BY DEF Init
  <2>2. own \in [Book -> [at : 0 .. MaxWrites, filled : 0 .. MaxWrites]]
      BY DEF Init
  <2>3. QED BY <1>2, <1>3, <1>4, <2>1, <2>2 DEF Shapes
<1>6. OnScreen BY DEF Init, OnScreen
<1>7. RowsNotAhead /\ OwnIsWritten
  <2>1. clock = 0 /\ \A b \in Book : own[b].at = 0 /\ own[b].filled = 0
      BY DEF Init
  <2>2. QED BY <1>1, <2>1 DEF RowsNotAhead, OwnIsWritten
<1>8. ToldIsWritten BY DEF Init, ToldIsWritten
<1>9. FetchHasOwn BY <1>4 DEF FetchHasOwn
<1>10. ReadsOwnWrites BY <1>3 DEF ReadsOwnWrites
<1>11. QED BY <1>5, <1>6, <1>7, <1>8, <1>9, <1>10 DEF IInv, TypeOK

LEMMA WritesStep ==
    ASSUME IInv, TypeOK', [Next]_vars
    PROVE  RowsNotAhead' /\ OwnIsWritten' /\ ToldIsWritten'
<1> USE KeyFacts DEF IInv, TypeOK
<1>1. ASSUME UNCHANGED <<db, clock, own>>,
             \A r \in Req : requests'[r] # None /\ requests'[r].served =>
                /\ requests[r] # None /\ requests[r].served
                /\ requests'[r].book = requests[r].book
                /\ requests'[r].wrote = requests[r].wrote
      PROVE  RowsNotAhead' /\ OwnIsWritten' /\ ToldIsWritten'
    BY <1>1 DEF RowsNotAhead, OwnIsWritten, ToldIsWritten
<1>2. ASSUME NEW k \in Key, ServeFetch(k) \/ Reconnect(k) \/ Prefetch(k)
      PROVE  RowsNotAhead' /\ OwnIsWritten' /\ ToldIsWritten'
    BY <1>1, <1>2 DEF ServeFetch, Reconnect, Prefetch
<1>3. ASSUME NEW k \in Key, ReceiveFetch(k) \/ FailFetch(k)
      PROVE  RowsNotAhead' /\ OwnIsWritten' /\ ToldIsWritten'
  <2>1. requests' = Kept(requests, page, query'["owned"])
        /\ UNCHANGED <<db, clock, own>>
      BY <1>3 DEF ReceiveFetch, FailFetch, Store
  <2>2. QED BY <1>1, <2>1, KeptFacts DEF Shapes
<1>4. ASSUME NEW p \in Page, Go(p)
      PROVE  RowsNotAhead' /\ OwnIsWritten' /\ ToldIsWritten'
  <2>1. requests' = Kept(requests, p, query["owned"])
        /\ UNCHANGED <<db, clock, own>>
      BY <1>4 DEF Go
  <2>2. QED BY <1>1, <2>1, KeptFacts DEF Shapes
<1>5. ASSUME NEW op \in BookOp, NEW at, OpenDialog(op, at) \/ Cancel
      PROVE  RowsNotAhead' /\ OwnIsWritten' /\ ToldIsWritten'
    BY <1>1, <1>5 DEF OpenDialog, Cancel
<1>6. ASSUME NEW b \in Book, Submit(b)
      PROVE  RowsNotAhead' /\ OwnIsWritten' /\ ToldIsWritten'
  <2>1. UNCHANGED <<db, clock, own>> BY <1>6 DEF Submit, Send
  <2>2. QED BY <1>1, <1>6, <2>1, SubmitFacts
<1>7. ASSUME NEW b \in Book, NEW op \in BookOp, RemoveRow(b) \/ Toggle(op, b)
      PROVE  RowsNotAhead' /\ OwnIsWritten' /\ ToldIsWritten'
  <2>1. UNCHANGED <<db, clock, own>> BY <1>7 DEF RemoveRow, Toggle, Send
  <2>2. QED BY <1>1, <1>7, <2>1, RowRequestFacts
<1>8. ASSUME NEW op \in BookOp, NEW b \in Book, Write(op, b), UNCHANGED own,
             \A r \in Req : requests'[r] # None /\ requests'[r].served =>
                \/ requests'[r] = requests[r]
                \/ /\ requests'[r].wrote.at <= db'[requests'[r].book].at
                   /\ requests'[r].wrote.filled <= db'[requests'[r].book].filled
      PROVE  RowsNotAhead' /\ OwnIsWritten' /\ ToldIsWritten'
  <2>1. /\ RowsNotAhead'
        /\ \A c \in Book : db[c].at <= db'[c].at /\ db[c].filled <= db'[c].filled
      BY <1>8, WriteFacts
  <2>2. \A c \in Book : /\ db[c].at \in Nat /\ db[c].filled \in Nat
                        /\ db'[c].at \in Nat /\ db'[c].filled \in Nat
                        /\ own[c].at \in Nat /\ own[c].filled \in Nat
      BY WritesAreBounded, RowFacts DEF Shapes
  <2>3. OwnIsWritten' BY <1>8, <2>1, <2>2 DEF OwnIsWritten
  <2>4. ASSUME NEW r \in Req, requests'[r] # None, requests'[r].served
        PROVE  /\ requests'[r].wrote.at <= db'[requests'[r].book].at
               /\ requests'[r].wrote.filled <= db'[requests'[r].book].filled
    <3>1. CASE requests'[r] = requests[r]
      <4>1. requests[r] \in Request BY <2>4, <3>1 DEF Shapes
      <4>2. requests[r].book \in Book /\ requests[r].wrote \in Row
          BY <4>1 DEF Request
      <4>3. requests[r].wrote.at \in Nat /\ requests[r].wrote.filled \in Nat
          BY <4>2, RowFacts, WritesAreBounded
      <4>4. requests[r].wrote.at <= db[requests[r].book].at
            /\ requests[r].wrote.filled <= db[requests[r].book].filled
          BY <2>4, <3>1 DEF ToldIsWritten
      <4>5. QED BY <2>1, <2>2, <3>1, <4>2, <4>3, <4>4
    <3>2. CASE requests'[r] # requests[r] BY <1>8, <2>4, <3>2
    <3>3. QED BY <3>1, <3>2
  <2>5. QED BY <2>1, <2>3, <2>4 DEF ToldIsWritten
<1>9. ASSUME NEW r \in Req, Serve(r)
      PROVE  RowsNotAhead' /\ OwnIsWritten' /\ ToldIsWritten'
  <2>1. requests[r].op \in BookOp /\ requests[r].book \in Book
      BY <1>9, Served DEF Request
  <2>2. Write(requests[r].op, requests[r].book) /\ UNCHANGED own
      BY <1>9 DEF Serve
  <2>3. QED BY <1>8, <1>9, <2>1, <2>2, Served
<1>10. ASSUME NEW op \in BookOp, NEW b \in Book, Elsewhere(op, b)
       PROVE  RowsNotAhead' /\ OwnIsWritten' /\ ToldIsWritten'
    BY <1>8, <1>10 DEF Elsewhere
<1>11. ASSUME NEW r \in Req, Succeed(r)
       PROVE  RowsNotAhead' /\ OwnIsWritten' /\ ToldIsWritten'
  <2>1. UNCHANGED <<db, clock>> /\ requests' = [requests EXCEPT ![r] = None]
      BY <1>11 DEF Succeed
  <2>2. RowsNotAhead' BY <2>1 DEF RowsNotAhead
  <2>3. ToldIsWritten' BY <2>1 DEF ToldIsWritten, Shapes
  <2>4. OwnIsWritten'
    <3>1. /\ requests[r].wrote.at <= db[requests[r].book].at
          /\ requests[r].wrote.filled <= db[requests[r].book].filled
        BY <1>11 DEF Succeed, ToldIsWritten
    <3>2. \A b \in Book :
            /\ own'[b].at \in {own[b].at} \cup
                    (IF b = requests[r].book THEN {requests[r].wrote.at} ELSE {})
            /\ own'[b].filled \in {own[b].filled} \cup
                    (IF b = requests[r].book THEN {requests[r].wrote.filled} ELSE {})
        BY <1>11 DEF Succeed, Shapes
    <3>3. QED BY <2>1, <3>1, <3>2 DEF OwnIsWritten
  <2>5. QED BY <2>2, <2>3, <2>4
<1>12. ASSUME NEW r \in Req, Fail(r)
       PROVE  RowsNotAhead' /\ OwnIsWritten' /\ ToldIsWritten'
    BY <1>1, <1>12 DEF Fail, Shapes
<1>13. CASE UNCHANGED vars BY <1>1, <1>13 DEF vars
<1>14. {"createBook", "updateBook", "deleteBook", "removeContentFromBook"} \subseteq BookOp
    BY DEF BookOp, BookContract
<1>15. QED
    BY <1>2, <1>3, <1>4, <1>5, <1>6, <1>7, <1>9, <1>10, <1>11, <1>12, <1>13,
       <1>14
    DEF Next

LEMMA ReadsStep ==
    ASSUME IInv, OwnIsWritten', TypeOK', [Next]_vars
    PROVE  FetchHasOwn' /\ ReadsOwnWrites'
<1> USE KeyFacts DEF IInv, TypeOK
<1>1. ASSUME UNCHANGED own,
             \A k \in Key :
                \/ fetch'[k] = fetch[k] /\ unsure'[k] = unsure[k]
                \/ fetch'[k] = None
                \/ ~fetch'[k].served
      PROVE  FetchHasOwn'
    BY <1>1 DEF FetchHasOwn, HasOwn
<1>2. ASSUME UNCHANGED own,
             \A k \in Key :
                \/ query'[k] = query[k] /\ unsure'[k] = unsure[k]
                \/ ~hasData(query'[k])
                \/ query'[k].stale
      PROVE  ReadsOwnWrites'
    BY <1>2 DEF ReadsOwnWrites, HasOwn
<1>3. ASSUME NEW k \in Key, ServeFetch(k)
      PROVE  FetchHasOwn' /\ ReadsOwnWrites'
  <2>1. UNCHANGED <<own, query, unsure>>
        /\ fetch' = [fetch EXCEPT ![k] = [served |-> TRUE, got |-> Answered(k)]]
      BY <1>3 DEF ServeFetch
  <2>2. HasOwn(Answered(k), k)
      BY AnsweredFacts DEF HasOwn, OwnIsWritten, Shapes
  <2>3. FetchHasOwn' BY <2>1, <2>2 DEF FetchHasOwn, HasOwn, Shapes
  <2>4. ReadsOwnWrites' BY <1>2, <2>1
  <2>5. QED BY <2>3, <2>4
<1>4. ASSUME NEW k \in Key, ReceiveFetch(k)
      PROVE  FetchHasOwn' /\ ReadsOwnWrites'
  <2> DEFINE entry == [data |-> fetch[k].got, stale |-> FALSE, error |-> FALSE]
  <2>1. /\ UNCHANGED <<own, unsure>> /\ fetch' = [fetch EXCEPT ![k] = None]
        /\ Store(k, entry) /\ fetch[k] # None /\ fetch[k].served
      BY <1>4 DEF ReceiveFetch
  <2>2. query'[k].data = fetch[k].got
        /\ \A j \in Key : j # k => query'[j] = query[j]
      BY <2>1, StoreFacts, ReceivedEntry
  <2>3. FetchHasOwn' BY <1>1, <2>1 DEF Shapes
  <2>4. ReadsOwnWrites' BY <2>1, <2>2 DEF ReadsOwnWrites, FetchHasOwn, HasOwn
  <2>5. QED BY <2>3, <2>4
<1>5. ASSUME NEW k \in Key, FailFetch(k)
      PROVE  FetchHasOwn' /\ ReadsOwnWrites'
  <2> DEFINE entry == [query[k] EXCEPT !.stale = TRUE, !.error = k = "owned"]
  <2>1. /\ UNCHANGED <<own, unsure>> /\ fetch' = [fetch EXCEPT ![k] = None]
        /\ Store(k, entry)
      BY <1>5 DEF FailFetch
  <2>2. query'[k].stale /\ \A j \in Key : j # k => query'[j] = query[j]
      BY <2>1, StoreFacts, FailedEntry
  <2>3. FetchHasOwn' BY <1>1, <2>1 DEF Shapes
  <2>4. ReadsOwnWrites' BY <1>2, <2>1, <2>2
  <2>5. QED BY <2>3, <2>4
<1>6. ASSUME NEW k \in Key, Reconnect(k) \/ Prefetch(k)
      PROVE  FetchHasOwn' /\ ReadsOwnWrites'
  <2>1. UNCHANGED <<own, query>> /\ Begin(k) /\ MayLoad(k)
      BY <1>6 DEF Reconnect, Prefetch
  <2>2. \A j \in Key : j # k => fetch'[j] = fetch[j] /\ unsure'[j] = unsure[j]
      BY <2>1 DEF Begin, Shapes
  <2>3. ~fetch'[k].served BY <2>1, NewFetchFacts DEF Begin, Shapes
  <2>4. FetchHasOwn' BY <1>1, <2>1, <2>2, <2>3
  <2>5. ReadsOwnWrites' BY <1>2, <2>1, <2>2 DEF MayLoad
  <2>6. QED BY <2>4, <2>5
<1>7. ASSUME NEW p \in Page, Go(p)
      PROVE  FetchHasOwn' /\ ReadsOwnWrites'
  <2> DEFINE seen == {k \in Key : InView(k, p) /\ ~InView(k, page) /\ MayLoad(k)}
  <2>1. /\ UNCHANGED <<own, query>>
        /\ fetch' = [k \in Key |-> IF k \in seen THEN NewFetch ELSE fetch[k]]
        /\ unsure' = [k \in Key |-> unsure[k] /\ k \notin seen]
      BY <1>7 DEF Go
  <2>2. \A k \in Key : k \notin seen => fetch'[k] = fetch[k] /\ unsure'[k] = unsure[k]
    <3>1. \A k \in Key : unsure[k] \in BOOLEAN BY DEF Shapes
    <3>2. QED BY <2>1, <3>1
  <2>3. \A k \in seen : ~fetch'[k].served BY <2>1, NewFetchFacts
  <2>4. FetchHasOwn' BY <1>1, <2>1, <2>2, <2>3
  <2>5. \A k \in seen : ~hasData(query'[k]) \/ query'[k].stale
      BY <2>1 DEF MayLoad
  <2>6. ReadsOwnWrites' BY <1>2, <2>1, <2>2, <2>5
  <2>7. QED BY <2>4, <2>6
<1>8. ASSUME UNCHANGED <<own, query, fetch, unsure>>
      PROVE  FetchHasOwn' /\ ReadsOwnWrites'
    BY <1>1, <1>2, <1>8
<1>9. ASSUME NEW r \in Req, Succeed(r)
      PROVE  FetchHasOwn' /\ ReadsOwnWrites'
    BY <1>9, SucceedFacts DEF FetchHasOwn, ReadsOwnWrites
<1>10. ASSUME NEW op, NEW at, OpenDialog(op, at)
       PROVE  FetchHasOwn' /\ ReadsOwnWrites'
    BY <1>8, <1>10 DEF OpenDialog
<1>11. CASE Cancel BY <1>8, <1>11 DEF Cancel
<1>12. ASSUME NEW b, Submit(b) \/ RemoveRow(b) \/ \E op \in BookOp : Toggle(op, b)
       PROVE  FetchHasOwn' /\ ReadsOwnWrites'
    BY <1>8, <1>12 DEF Submit, RemoveRow, Toggle, Send
<1>13. ASSUME NEW r, Serve(r) \/ Fail(r)
       PROVE  FetchHasOwn' /\ ReadsOwnWrites'
    BY <1>8, <1>13 DEF Serve, Fail
<1>14. ASSUME NEW op, NEW b, Elsewhere(op, b)
       PROVE  FetchHasOwn' /\ ReadsOwnWrites'
    BY <1>8, <1>14 DEF Elsewhere
<1>15. CASE UNCHANGED vars BY <1>8, <1>15 DEF vars
<1>16. QED
    BY <1>3, <1>4, <1>5, <1>6, <1>7, <1>9, <1>10, <1>11, <1>12, <1>13, <1>14,
       <1>15
    DEF Next

LEMMA InvStep == IInv /\ [Next]_vars => IInv'
<1> SUFFICES ASSUME IInv, [Next]_vars PROVE IInv'
    OBVIOUS
<1>1. TypeOK' BY TypeStep DEF IInv
<1>2. RowsNotAhead' /\ OwnIsWritten' /\ ToldIsWritten' BY <1>1, WritesStep
<1>3. FetchHasOwn' /\ ReadsOwnWrites' BY <1>1, <1>2, ReadsStep
<1>4. QED BY <1>1, <1>2, <1>3 DEF IInv

LEMMA Invariance == Spec => []IInv
BY InitHolds, InvStep, PTL DEF Spec

(* Shapes, dialogs and callbacks that belong to the screen, and edit fields  *)
(* that are those of the list (edit-book-dialog, book-form-dialog.tsx:24).   *)
THEOREM TypeCorrect == Spec => []TypeOK
<1>1. IInv => TypeOK BY DEF IInv
<1>2. QED BY <1>1, Invariance, PTL

(* A fresh entry of the cache that is not unsure lacks no write this tab was *)
(* told of, in whatever order fetches and mutations are answered             *)
(* (create-book.ts:19, update-book.ts:24, delete-book.ts:15).  An entry that *)
(* was being loaded for the first time, or out of view, when such an answer  *)
(* came is unsure until it is loaded anew: that fetch is not called off, may *)
(* be older than the write, and nothing is said of what it brings.           *)
THEOREM OwnWritesAreRead == Spec => []ReadsOwnWrites
<1>1. IInv => ReadsOwnWrites BY DEF IInv
<1>2. QED BY <1>1, Invariance, PTL

-------------------------------------------------------------------------------
(* Failures *)

(* A failure is declared, or one that any request can end with.             *)
LEMMA FailureKinds ==
    ASSUME NEW op, NEW contract, NEW f \in Failures(op, contract)
    PROVE  \/ f = NoAnswer \/ f = Unforeseen
           \/ \E s \in contract.fails : \E code \in DeclaredCodes(op, s) :
                f = Refusal(s, code)
           \/ f = Refusal(401, "UNAUTHENTICATED")
           \/ f = Refusal(403, "CSRF_FAILED")
<1>1. f \in {NoAnswer, Unforeseen} \/ f \in DeclaredFailures(op, contract)
        \/ f \in SessionFailures(op)
    BY DEF Failures
<1>2. f \in DeclaredFailures(op, contract) =>
        \E s \in contract.fails : \E code \in DeclaredCodes(op, s) :
            f = Refusal(s, code)
    BY DEF DeclaredFailures
<1>3. f \in SessionFailures(op) => \/ f = Refusal(401, "UNAUTHENTICATED")
                                  \/ f = Refusal(403, "CSRF_FAILED")
    BY DEF SessionFailures
<1>4. QED BY <1>1, <1>2, <1>3

(* What an operation on books can be refused with, declared or not.          *)
LEMMA BookCodes ==
    ASSUME NEW op \in BookOp
    PROVE  Codes(op) \subseteq
             {"unknown_error", "UNAUTHENTICATED", "CSRF_FAILED", "FORBIDDEN",
              "RESOURCE_NOT_FOUND", "VALIDATION_ERROR"}
<1> DEFINE Seen == {"unknown_error", "UNAUTHENTICATED", "CSRF_FAILED", "FORBIDDEN",
                    "RESOURCE_NOT_FOUND", "VALIDATION_ERROR"}
<1>1. \A c \in Contracts(op) : c.fails \subseteq {403, 404, 422}
  <2> USE DEF Contracts, BookContract, addContentToBook, removeContentFromBook,
              ContentType
  <2>1. CASE op = "createBook" BY <2>1 DEF create_book_v1_books_post
  <2>2. CASE op = "updateBook"
      BY <2>2 DEF update_book_v1_books__book_id__patch
  <2>3. CASE op = "deleteBook"
      BY <2>3 DEF delete_book_v1_books__book_id__delete
  <2>4. CASE op = "addContentToBook"
      BY <2>4 DEF add_book_monster_v1_books__book_id__monsters__monster_id__put,
                  add_book_spell_v1_books__book_id__spells__spell_id__put,
                  add_book_item_v1_books__book_id__items__item_id__put
  <2>5. CASE op = "removeContentFromBook"
      BY <2>5
      DEF remove_book_monster_v1_books__book_id__monsters__monster_id__delete,
          remove_book_spell_v1_books__book_id__spells__spell_id__delete,
          remove_book_item_v1_books__book_id__items__item_id__delete
  <2>6. QED BY <2>1, <2>2, <2>3, <2>4, <2>5 DEF BookOp
<1>2. \A s \in {403, 404, 422} : DeclaredCodes(op, s) \subseteq Seen
  <2>1. DeclaredCodes(op, 403) \subseteq Seen
    <3>1. op \notin {"deleteAccount", "changePassword", "changeEmail"}
        BY DEF BookOp, BookContract
    <3>2. QED BY <3>1 DEF DeclaredCodes
  <2>2. DeclaredCodes(op, 404) \subseteq Seen BY DEF DeclaredCodes
  <2>3. DeclaredCodes(op, 422) \subseteq Seen BY DEF DeclaredCodes
  <2>4. QED BY <2>1, <2>2, <2>3
<1>3. ASSUME NEW c \in Contracts(op), NEW f \in Failures(op, c)
      PROVE  toApiError(f) \in Seen
  <2>1. CASE f = NoAnswer BY <2>1 DEF NoAnswer, toApiError
  <2>2. CASE f = Unforeseen BY <2>2 DEF Unforeseen, toApiError
  <2>3. ASSUME NEW s, NEW code \in Seen, f = Refusal(s, code)
        PROVE  toApiError(f) \in Seen
    <3>1. f.body = "ErrorResponse" /\ f.errorCode = code BY <2>3 DEF Refusal
    <3>2. QED BY <3>1 DEF toApiError
  <2>4. \/ f = NoAnswer \/ f = Unforeseen
        \/ \E s \in c.fails : \E code \in DeclaredCodes(op, s) : f = Refusal(s, code)
        \/ f = Refusal(401, "UNAUTHENTICATED")
        \/ f = Refusal(403, "CSRF_FAILED")
      BY FailureKinds
  <2>5. ASSUME NEW s \in c.fails, NEW code \in DeclaredCodes(op, s),
               f = Refusal(s, code)
        PROVE  toApiError(f) \in Seen
      BY <1>1, <1>2, <2>3, <2>5
  <2>6. QED BY <2>1, <2>2, <2>3, <2>4, <2>5
<1>4. QED BY <1>3 DEF Codes

(* Every failure of a book mutation raises one message, and a second only in *)
(* the section a row was removed from (react-query.ts, error-meta.ts,        *)
(* book-content-sections.tsx:90).                                            *)
THEOREM BookFailuresAreSeen == Spec => []BookFailureShown
<1>1. Shapes => BookFailureShown
  <2> SUFFICES ASSUME Shapes, NEW r \in Req, requests[r] # None,
                      NEW code \in Codes(requests[r].op)
               PROVE  LET shown == ShownBy(requests[r], code)
                      IN  /\ "toast" \in shown
                          /\ requests[r].from # "section" => shown = {"toast"}
      BY DEF BookFailureShown
  <2>1. requests[r] \in Request BY DEF Shapes
  <2>2. requests[r].op \in BookOp BY <2>1 DEF Request
  <2>3. Toasts(requests[r].op, code)
    <3>1. code \notin INLINE_FIELD_ERROR_CODES
        BY <2>2, BookCodes DEF INLINE_FIELD_ERROR_CODES
    <3>2. requests[r].op \notin SuppressErrorToast
        BY <2>2 DEF SuppressErrorToast, BookOp, BookContract
    <3>3. QED BY <3>1, <3>2 DEF Toasts
  <2>4. QED BY <2>3 DEF ShownBy
<1>2. IInv => Shapes BY DEF IInv, TypeOK
<1>3. QED BY <1>1, <1>2, Invariance, PTL
===============================================================================
