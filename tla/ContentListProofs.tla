-------------------------- MODULE ContentListProofs --------------------------
(* Machine-checked safety of ContentList, for any rows, filters and page     *)
(* size: its types, and that a list that counts as fresh shows what the      *)
(* database has.                                                             *)
EXTENDS ContentList, FiniteSetTheorems, TLAPS

-----------------------------------------------------------------------------
(* Rows by their rank.                                                       *)

Before(R, r) == Cardinality({x \in R : x < r})

(* The first n rows of R.                                                    *)
FirstOf(R, n) == {r \in R : Before(R, r) < n}

LEMMA RowsFinite ==
    ASSUME NEW R \in SUBSET Row
    PROVE  IsFiniteSet(R) /\ Cardinality(R) \in Nat
BY RowsAreNumbers, FS_Subset, FS_CardinalityType

LEMMA RankType ==
    ASSUME NEW R \in SUBSET Row, NEW r
    PROVE  Before(R, r) \in Nat
<1>1. {x \in R : x < r} \in SUBSET Row OBVIOUS
<1>2. QED BY <1>1, RowsFinite DEF Before

(* Ranks are ordered as the rows are.                                        *)
LEMMA RankGrows ==
    ASSUME NEW R \in SUBSET Row, NEW r \in R, NEW s \in R, r < s
    PROVE  Before(R, r) < Before(R, s)
<1> DEFINE A == {x \in R : x < r}
           B == {x \in R : x < s}
<1>1. r \in Nat /\ s \in Nat /\ \A x \in R : x \in Nat
    BY RowsAreNumbers
<1>2. IsFiniteSet(A) /\ IsFiniteSet(B)
  <2>1. A \in SUBSET Row /\ B \in SUBSET Row OBVIOUS
  <2>2. QED BY <2>1, RowsFinite
<1>3. r \notin A BY <1>1
<1>4. Cardinality(A \cup {r}) = Cardinality(A) + 1
    BY <1>2, <1>3, FS_AddElement
<1>5. A \cup {r} \subseteq B
  <2>1. ASSUME NEW x \in A
        PROVE  x < s
    <3>1. x \in Nat /\ x < r BY <1>1
    <3>2. QED BY <1>1, <3>1
  <2>2. QED BY <2>1
<1>6. Cardinality(A \cup {r}) <= Cardinality(B) BY <1>2, <1>5, FS_Subset
<1>7. Cardinality(A) \in Nat /\ Cardinality(B) \in Nat
    BY <1>2, FS_CardinalityType
<1>8. QED BY <1>4, <1>6, <1>7 DEF Before

(* There are fewer rows before a row than there are rows.                    *)
LEMMA RankBound ==
    ASSUME NEW R \in SUBSET Row, NEW r \in R
    PROVE  Before(R, r) < Cardinality(R)
<1> DEFINE A == {x \in R : x < r}
<1>1. r \in Nat /\ \A x \in R : x \in Nat BY RowsAreNumbers
<1>2. IsFiniteSet(A) /\ IsFiniteSet(R)
  <2>1. A \in SUBSET Row OBVIOUS
  <2>2. QED BY <2>1, RowsFinite
<1>3. r \notin A BY <1>1
<1>4. Cardinality(A \cup {r}) = Cardinality(A) + 1
    BY <1>2, <1>3, FS_AddElement
<1>5. A \cup {r} \subseteq R OBVIOUS
<1>6. Cardinality(A \cup {r}) <= Cardinality(R) BY <1>2, <1>5, FS_Subset
<1>7. Cardinality(A) \in Nat /\ Cardinality(R) \in Nat
    BY <1>2, FS_CardinalityType
<1>8. QED BY <1>4, <1>6, <1>7 DEF Before

(* A page holds at most Limit rows, whatever the rows and the offset.        *)
LEMMA PageBound ==
    ASSUME NEW R \in SUBSET Row, NEW offset \in Nat
    PROVE  /\ PageOf(R, offset) \subseteq R
           /\ Cardinality(PageOf(R, offset)) \in Nat
           /\ Cardinality(PageOf(R, offset)) <= Limit
<1> DEFINE P == PageOf(R, offset)
           T == 0 .. (Limit - 1)
           rank == [r \in P |-> Before(R, r) - offset]
<1>1. P \in SUBSET R BY DEF PageOf
<1>2. \A r \in P : Before(R, r) >= offset /\ Before(R, r) < offset + Limit
    BY DEF PageOf, Before
<1>3. rank \in [P -> T]
  <2>1. ASSUME NEW r \in P
        PROVE  Before(R, r) - offset \in T
    <3>1. Before(R, r) \in Nat BY RankType
    <3>2. QED BY <1>2, <3>1, PagesHoldRows
  <2>2. QED BY <2>1
<1>4. \A r, s \in P : r # s => rank[r] # rank[s]
  <2>1. ASSUME NEW r \in P, NEW s \in P, r # s
        PROVE  rank[r] # rank[s]
    <3>1. r \in R /\ s \in R /\ r \in Nat /\ s \in Nat
        BY <1>1, RowsAreNumbers
    <3>2. r < s \/ s < r BY <2>1, <3>1
    <3>3. Before(R, r) \in Nat /\ Before(R, s) \in Nat BY RankType
    <3>4. Before(R, r) # Before(R, s) BY <3>1, <3>2, <3>3, RankGrows
    <3>5. QED BY <3>3, <3>4
  <2>2. QED BY <2>1
<1>5. rank \in Injection(P, T) BY <1>3, <1>4 DEF Injection, IsInjective
<1>6. IsFiniteSet(T) /\ Cardinality(T) = Limit
    BY FS_Interval, PagesHoldRows
<1>7. IsFiniteSet(P) BY <1>1, RowsFinite, FS_Subset
<1>8. Cardinality(P) <= Cardinality(T)
    BY <1>5, <1>6, <1>7, FS_Injection DEF ExistsInjection
<1>9. QED BY <1>1, <1>6, <1>7, <1>8, FS_CardinalityType

(* A page after the first n rows makes them the first n + Limit rows.        *)
LEMMA PageExtends ==
    ASSUME NEW R \in SUBSET Row, NEW n \in Nat
    PROVE  FirstOf(R, n) \cup PageOf(R, n) = FirstOf(R, n + Limit)
<1>1. \A r \in R : Before(R, r) \in Nat BY RankType
<1>2. PageOf(R, n) = {r \in R : Before(R, r) >= n /\ Before(R, r) < n + Limit}
    BY DEF PageOf, Before
<1>3. QED BY <1>1, <1>2, PagesHoldRows DEF FirstOf

LEMMA FirstOfNone ==
    ASSUME NEW R \in SUBSET Row
    PROVE  FirstOf(R, 0) = {}
<1>1. \A r \in R : Before(R, r) \in Nat BY RankType
<1>2. QED BY <1>1 DEF FirstOf

(* The first rows come before the others, and are all when they are enough.  *)
LEMMA FirstOfLeads ==
    ASSUME NEW R \in SUBSET Row, NEW n \in Nat
    PROVE  /\ FirstOf(R, n) \subseteq R
           /\ \A r \in R \ FirstOf(R, n) : \A x \in FirstOf(R, n) : x < r
           /\ n >= Cardinality(R) => FirstOf(R, n) = R
<1>1. FirstOf(R, n) \subseteq R BY DEF FirstOf
<1>2. ASSUME NEW r \in R \ FirstOf(R, n), NEW x \in FirstOf(R, n)
      PROVE  x < r
  <2>1. r \in R /\ x \in R /\ Before(R, x) < n /\ ~(Before(R, r) < n)
      BY DEF FirstOf
  <2>2. r \in Nat /\ x \in Nat BY <2>1, RowsAreNumbers
  <2>3. Before(R, x) \in Nat /\ Before(R, r) \in Nat BY RankType
  <2>4. ~(r < x)
    <3>1. r < x => Before(R, r) < Before(R, x) BY <2>1, RankGrows
    <3>2. QED BY <2>1, <2>3, <3>1
  <2>5. r # x BY <2>1
  <2>6. QED BY <2>2, <2>4, <2>5
<1>3. ASSUME n >= Cardinality(R)
      PROVE  R \subseteq FirstOf(R, n)
  <2>1. ASSUME NEW r \in R
        PROVE  Before(R, r) < n
    <3>1. Before(R, r) < Cardinality(R) BY RankBound
    <3>2. Before(R, r) \in Nat /\ Cardinality(R) \in Nat
        BY RankType, RowsFinite
    <3>3. QED BY <1>3, <3>1, <3>2
  <2>2. QED BY <2>1 DEF FirstOf
<1>4. QED BY <1>1, <1>2, <1>3

(* The offset of the next page.                                              *)
LEMMA Offsets ==
    ASSUME NEW n \in Nat
    PROVE  /\ n * Limit \in Nat
           /\ (n + 1) * Limit = n * Limit + Limit
BY PagesHoldRows

-----------------------------------------------------------------------------
(* Types.  A fetch holds no more rows than its pages have room for, which is *)
(* what bounds the rows of the entry it becomes.                             *)

EntryOK(q) ==
    /\ q \in Entry
    /\ q.status = "success" \/ ~q.stale => hasData(q)
    /\ Cardinality(q.rows) <= q.pages * Limit

FetchOK(g) ==
    /\ g \in Fetch
    /\ g.pages < g.goal
    /\ g.kind = "next" => g.pages > 0
    /\ Cardinality(g.rows) <= g.pages * Limit
    /\ Cardinality(g.page) <= Limit

ListsOK ==
    /\ query \in [Filter -> Entry]
    /\ \A f \in Filter : EntryOK(query[f])
    /\ fetch \in [Filter -> Fetch \cup {None}]
    /\ \A f \in Filter : fetch[f] # None => FetchOK(fetch[f])

ScreenOK ==
    /\ bottom \in BOOLEAN
    /\ observer \in [live : BOOLEAN, due : BOOLEAN, lost : BOOLEAN]

VisitOK ==
    /\ layout \in Layout /\ content \subseteq Row /\ filter \in Filter
    /\ asking \in Row \cup {None}
    /\ removals \in [Row -> {"none", "sent", "served"}]
    /\ unsure \in [Filter -> BOOLEAN]

TypeInv == ListsOK /\ ScreenOK /\ VisitOK

LEMMA EmptyCounts == Cardinality({}) = 0
BY FS_EmptySet

(* A new request holds what it starts from.                                  *)
LEMMA RequestOK ==
    ASSUME NEW kind \in {"reload", "next"}, NEW rows \in SUBSET Row,
           NEW pages \in Nat, NEW goal \in Nat, pages < goal,
           kind = "next" => pages > 0, Cardinality(rows) <= pages * Limit
    PROVE  FetchOK(Request(kind, rows, pages, goal))
<1> DEFINE g == Request(kind, rows, pages, goal)
<1>1. g \in Fetch BY DEF Request, Fetch
<1>2. /\ g.kind = kind /\ g.rows = rows /\ g.pages = pages /\ g.goal = goal
      /\ g.page = {}
    BY DEF Request
<1>3. QED BY <1>1, <1>2, EmptyCounts, PagesHoldRows DEF FetchOK

LEMMA ReloadOK ==
    ASSUME NEW q, EntryOK(q)
    PROVE  FetchOK(Reload(q))
<1> DEFINE goal == IF hasData(q) THEN q.pages ELSE 1
<1>1. goal \in Nat /\ 0 < goal BY DEF EntryOK, Entry, hasData
<1>2. Cardinality({}) <= 0 * Limit BY EmptyCounts, PagesHoldRows
<1>3. QED BY <1>1, <1>2, RequestOK DEF Reload

LEMMA NextPageOK ==
    ASSUME NEW q, EntryOK(q), hasNextPage(q)
    PROVE  FetchOK(NextPage(q))
<1>1. /\ q.rows \in SUBSET Row /\ q.pages \in Nat /\ q.pages > 0
      /\ q.pages + 1 \in Nat /\ q.pages < q.pages + 1
      /\ Cardinality(q.rows) <= q.pages * Limit
    BY DEF EntryOK, Entry, hasNextPage, hasData
<1>2. QED BY <1>1, RequestOK DEF NextPage

(* Marking an entry leaves its rows and pages alone.                         *)
LEMMA BegunOK ==
    ASSUME NEW q, EntryOK(q)
    PROVE  /\ EntryOK(Begun(q))
           /\ Begun(q).rows = q.rows /\ Begun(q).pages = q.pages
           /\ Begun(q).more = q.more /\ Begun(q).stale = q.stale
<1>1. CASE hasData(q) BY <1>1 DEF Begun
<1>2. CASE ~hasData(q)
  <2>1. PICK p : p = [q EXCEPT !.status = "pending"] OBVIOUS
  <2>2. /\ p \in Entry /\ p.status = "pending" /\ p.rows = q.rows
        /\ p.pages = q.pages /\ p.more = q.more /\ p.stale = q.stale
      BY <2>1 DEF EntryOK, Entry
  <2>3. QED BY <1>2, <2>1, <2>2 DEF Begun, EntryOK
<1>3. QED BY <1>1, <1>2

LEMMA StaleOK ==
    ASSUME NEW q, EntryOK(q)
    PROVE  LET p == [q EXCEPT !.stale = TRUE]
           IN  /\ EntryOK(p) /\ p.rows = q.rows /\ p.pages = q.pages
               /\ p.more = q.more /\ p.stale = TRUE
<1>1. PICK p : p = [q EXCEPT !.stale = TRUE] OBVIOUS
<1>2. /\ p \in Entry /\ p.status = q.status /\ p.rows = q.rows
      /\ p.pages = q.pages /\ p.more = q.more /\ p.stale = TRUE
    BY <1>1 DEF EntryOK, Entry
<1>3. QED BY <1>1, <1>2 DEF EntryOK, hasData

LEMMA FailedOK ==
    ASSUME NEW q, EntryOK(q), NEW p,
           p = [q EXCEPT !.status = "error", !.stale = TRUE]
    PROVE  EntryOK(p)
<1>1. /\ p \in Entry /\ p.status = "error" /\ p.rows = q.rows
      /\ p.pages = q.pages /\ p.stale = TRUE
    BY DEF EntryOK, Entry
<1>2. QED BY <1>1 DEF EntryOK

(* Two sets within their bounds are together within the sum of them.         *)
LEMMA UnionBound ==
    ASSUME NEW A \in SUBSET Row, NEW B \in SUBSET Row, NEW n \in Nat,
           Cardinality(A) <= n * Limit, Cardinality(B) <= Limit
    PROVE  Cardinality(A \cup B) <= (n + 1) * Limit
<1>1. IsFiniteSet(A) /\ IsFiniteSet(B) /\ A \cap B \in SUBSET Row
    BY RowsFinite
<1>2. /\ Cardinality(A) \in Nat /\ Cardinality(B) \in Nat
      /\ Cardinality(A \cap B) \in Nat
    BY <1>1, RowsFinite
<1>3. Cardinality(A \cup B)
        = Cardinality(A) + Cardinality(B) - Cardinality(A \cap B)
    BY <1>1, FS_Union
<1>4. QED BY <1>2, <1>3, Offsets, PagesHoldRows

(* One list gets another entry or another fetch.                             *)
LEMMA ListUpdated ==
    ASSUME ListsOK, NEW f \in Filter, NEW q, EntryOK(q), NEW g,
           g = None \/ FetchOK(g),
           query' \in {query, [query EXCEPT ![f] = q]},
           fetch' \in {fetch, [fetch EXCEPT ![f] = g]}
    PROVE  ListsOK'
<1>1. q \in Entry /\ g \in Fetch \cup {None} BY DEF EntryOK, FetchOK
<1>2. query' \in [Filter -> Entry] /\ fetch' \in [Filter -> Fetch \cup {None}]
    BY <1>1 DEF ListsOK
<1>3. \A x \in Filter : EntryOK(query'[x]) BY DEF ListsOK
<1>4. \A x \in Filter : fetch'[x] # None => FetchOK(fetch'[x]) BY DEF ListsOK
<1>5. QED BY <1>2, <1>3, <1>4 DEF ListsOK

LEMMA RenderOK ==
    ASSUME ScreenOK, NEW q, NEW g, Render(q, g) \/ UNCHANGED <<bottom, observer>>
    PROVE  ScreenOK'
<1>1. CASE Render(q, g)
  <2>1. bottom' \in BOOLEAN
    <3>1. bottom' \in {FALSE} \/ bottom' \in {bottom} \/ bottom' \in BOOLEAN
        BY <1>1 DEF Render
    <3>2. QED BY <3>1 DEF ScreenOK
  <2>2. \E live, due, lost \in BOOLEAN :
            observer' = [live |-> live, due |-> due, lost |-> lost]
      BY <1>1 DEF Render
  <2>3. QED BY <2>1, <2>2 DEF ScreenOK
<1>2. QED BY <1>1 DEF ScreenOK

LEMMA ShownOK ==
    ASSUME ScreenOK, NEW f, NEW q, NEW g, RenderIfShown(f, q, g)
    PROVE  ScreenOK'
BY RenderOK DEF RenderIfShown

LEMMA PageStepOK ==
    ASSUME TypeInv, NEW f \in Filter,
           CountRows(f) \/ ReadRows(f)
    PROVE  TypeInv'
<1> DEFINE g == fetch[f]
<1>1. FetchOK(g) /\ g \in Fetch BY DEF TypeInv, ListsOK, CountRows, ReadRows, FetchOK
<1>2. Matches(f) \in SUBSET Row BY DEF Matches, TypeInv, VisitOK
<1>3. PICK p : /\ fetch' = [fetch EXCEPT ![f] = p]
               /\ \/ p = [g EXCEPT !.phase = "counted",
                                   !.count = Cardinality(Matches(f))]
                  \/ p = [g EXCEPT !.phase = "read",
                                   !.page = PageOf(Matches(f), pageParam(g))]
    BY DEF CountRows, ReadRows
<1>4. FetchOK(p)
  <2>1. CASE p = [g EXCEPT !.phase = "counted",
                           !.count = Cardinality(Matches(f))]
    <3>1. Cardinality(Matches(f)) \in Nat BY <1>2, RowsFinite
    <3>2. /\ p \in Fetch /\ p.pages = g.pages /\ p.goal = g.goal
          /\ p.kind = g.kind /\ p.rows = g.rows /\ p.page = g.page
        BY <1>1, <2>1, <3>1 DEF Fetch
    <3>3. QED BY <1>1, <3>2 DEF FetchOK
  <2>2. CASE p = [g EXCEPT !.phase = "read",
                           !.page = PageOf(Matches(f), pageParam(g))]
    <3>1. pageParam(g) \in Nat BY <1>1, Offsets DEF pageParam, Fetch
    <3>2. /\ PageOf(Matches(f), pageParam(g)) \in SUBSET Row
          /\ Cardinality(PageOf(Matches(f), pageParam(g))) <= Limit
        BY <1>2, <3>1, PageBound
    <3>3. /\ p \in Fetch /\ p.pages = g.pages /\ p.goal = g.goal
          /\ p.kind = g.kind /\ p.rows = g.rows
          /\ p.page = PageOf(Matches(f), pageParam(g))
        BY <1>1, <2>2, <3>2 DEF Fetch
    <3>4. QED BY <1>1, <3>2, <3>3 DEF FetchOK
  <2>3. QED BY <1>3, <2>1, <2>2
<1>5. UNCHANGED <<layout, content, query, filter, bottom, observer, asking,
                  removals, unsure>>
    BY DEF CountRows, ReadRows
<1>6. ListsOK' BY <1>3, <1>4, <1>5, ListUpdated DEF TypeInv, ListsOK
<1>7. QED BY <1>5, <1>6 DEF TypeInv, ScreenOK, VisitOK

(* What a fetch that is over makes of the entry of its list.                 *)
Loaded(g) ==
    [rows |-> g.rows \cup g.page, pages |-> g.pages + 1,
     more |-> nextOffset(g), status |-> "success", stale |-> FALSE]

LEMMA LoadedOK ==
    ASSUME NEW g, FetchOK(g)
    PROVE  /\ EntryOK(Loaded(g)) /\ g.pages + 1 \in Nat
           /\ g.rows \cup g.page \in SUBSET Row
           /\ Cardinality(g.rows \cup g.page) <= (g.pages + 1) * Limit
           /\ Loaded(g).rows = g.rows \cup g.page
           /\ Loaded(g).pages = g.pages + 1 /\ Loaded(g).stale = FALSE
           /\ Loaded(g).more = nextOffset(g)
<1>1. /\ g.rows \in SUBSET Row /\ g.page \in SUBSET Row /\ g.pages \in Nat
      /\ g.count \in Nat
      /\ Cardinality(g.rows) <= g.pages * Limit /\ Cardinality(g.page) <= Limit
    BY DEF FetchOK, Fetch
<1>2. Cardinality(g.rows \cup g.page) <= (g.pages + 1) * Limit
    BY <1>1, UnionBound
<1>3. nextOffset(g) \in BOOLEAN BY DEF nextOffset
<1>4. /\ Loaded(g) \in Entry
      /\ Loaded(g).rows = g.rows \cup g.page /\ Loaded(g).pages = g.pages + 1
      /\ Loaded(g).stale = FALSE /\ Loaded(g).more = nextOffset(g)
    BY <1>1, <1>3 DEF Loaded, Entry
<1>5. QED BY <1>1, <1>2, <1>4 DEF EntryOK, hasData

LEMMA ReceiveOK ==
    ASSUME TypeInv, NEW f \in Filter, Receive(f)
    PROVE  TypeInv'
<1> DEFINE g == fetch[f]
           rows == g.rows \cup g.page
           pages == g.pages + 1
<1>1. FetchOK(g) BY DEF TypeInv, ListsOK, Receive
<1>2. UNCHANGED <<layout, content, filter, asking, removals, unsure>>
    BY DEF Receive
<1>3. CASE /\ pages < g.goal
           /\ fetch' = [fetch EXCEPT ![f] = Request(g.kind, rows, pages, g.goal)]
           /\ UNCHANGED <<query, bottom, observer>>
  <2>1. g.kind \in {"reload", "next"} /\ g.goal \in Nat /\ pages > 0
      BY <1>1 DEF FetchOK, Fetch
  <2>2. FetchOK(Request(g.kind, rows, pages, g.goal))
      BY <1>1, <1>3, <2>1, LoadedOK, RequestOK
  <2>3. ListsOK' BY <1>3, <2>2, ListUpdated DEF TypeInv, ListsOK
  <2>4. QED BY <1>2, <1>3, <2>3 DEF TypeInv, ScreenOK, VisitOK
<1>4. CASE /\ fetch' = [fetch EXCEPT ![f] = None]
           /\ query' = [query EXCEPT ![f] = Loaded(g)]
           /\ RenderIfShown(f, Loaded(g), None)
  <2>1. ListsOK' BY <1>1, <1>4, LoadedOK, ListUpdated DEF TypeInv
  <2>2. ScreenOK' BY <1>4, ShownOK DEF TypeInv
  <2>3. QED BY <1>2, <2>1, <2>2 DEF TypeInv, VisitOK
<1>5. QED BY <1>3, <1>4 DEF Receive, Loaded

LEMMA FailOK ==
    ASSUME TypeInv, NEW f \in Filter, Fail(f)
    PROVE  TypeInv'
<1> DEFINE q == [query[f] EXCEPT !.status = "error", !.stale = TRUE]
<1>1. EntryOK(q)
  <2>1. EntryOK(query[f]) BY DEF TypeInv, ListsOK
  <2>2. PICK p : p = q OBVIOUS
  <2>3. QED BY <2>1, <2>2, FailedOK
<1>2. ListsOK' BY <1>1, ListUpdated DEF TypeInv, Fail
<1>3. ScreenOK' BY ShownOK DEF TypeInv, Fail
<1>4. QED BY <1>2, <1>3 DEF TypeInv, VisitOK, Fail

LEMMA SwitchOK ==
    ASSUME TypeInv, NEW f \in Filter, Switch(f)
    PROVE  TypeInv'
<1> DEFINE q == query[f]
           starts == fetch[f] = None /\ (~hasData(q) \/ q.stale)
           q2 == IF starts THEN Begun(q) ELSE q
           g2 == IF starts THEN Reload(q) ELSE fetch[f]
<1>1. EntryOK(q) BY DEF TypeInv, ListsOK
<1>2. EntryOK(q2) /\ (g2 = None \/ FetchOK(g2))
    BY <1>1, BegunOK, ReloadOK DEF TypeInv, ListsOK
<1>3. ListsOK' BY <1>2, ListUpdated DEF TypeInv, Switch
<1>4. ScreenOK' BY RenderOK DEF TypeInv, Switch
<1>5. unsure' \in [Filter -> BOOLEAN] BY DEF TypeInv, VisitOK, Switch
<1>6. QED BY <1>3, <1>4, <1>5 DEF TypeInv, VisitOK, Switch

LEMMA LoadOK ==
    ASSUME TypeInv,
           (\E f \in Filter : Prefetch(f)) \/ Reconnect \/ Intersect
    PROVE  TypeInv'
<1>1. \A f \in Filter : EntryOK(query[f]) BY DEF TypeInv, ListsOK
<1>2. filter \in Filter BY DEF TypeInv, VisitOK
<1>3. CASE \E f \in Filter : Prefetch(f)
  <2>1. PICK f \in Filter : Prefetch(f) BY <1>3
  <2>2. EntryOK(Begun(query[f])) /\ FetchOK(Reload(query[f]))
      BY <1>1, BegunOK, ReloadOK
  <2>3. ListsOK' BY <2>1, <2>2, ListUpdated DEF TypeInv, Prefetch
  <2>4. ScreenOK' BY <2>1, ShownOK DEF TypeInv, Prefetch
  <2>5. QED BY <2>1, <2>3, <2>4 DEF TypeInv, VisitOK, Prefetch
<1>4. CASE Reconnect
  <2> DEFINE q == Begun(query[filter])
  <2>1. EntryOK(q) BY <1>1, <1>2, BegunOK
  <2>2. FetchOK(Reload(q)) BY <2>1, ReloadOK
  <2>3. ListsOK' BY <1>2, <1>4, <2>1, <2>2, ListUpdated DEF TypeInv, Reconnect
  <2>4. ScreenOK' BY <1>4, RenderOK DEF TypeInv, Reconnect
  <2>5. QED BY <1>4, <2>3, <2>4 DEF TypeInv, VisitOK, Reconnect
<1>5. CASE Intersect
  <2> DEFINE q == query[filter]
  <2>1. EntryOK(q) BY <1>1, <1>2
  <2>2. CASE /\ hasNextPage(q)
             /\ fetch' = [fetch EXCEPT ![filter] = NextPage(q)]
             /\ unsure' = [unsure EXCEPT ![filter] = @ \/ q.stale]
             /\ Render(q, NextPage(q))
    <3>1. FetchOK(NextPage(q)) BY <2>1, <2>2, NextPageOK
    <3>2. ListsOK'
        BY <1>2, <1>5, <2>1, <2>2, <3>1, ListUpdated DEF TypeInv, Intersect
    <3>3. ScreenOK' BY <2>2, RenderOK DEF TypeInv
    <3>4. unsure' \in [Filter -> BOOLEAN]
        BY <2>1, <2>2 DEF TypeInv, VisitOK, EntryOK, Entry
    <3>5. QED BY <1>5, <3>2, <3>3, <3>4 DEF TypeInv, VisitOK, Intersect
  <2>3. CASE /\ observer' = [observer EXCEPT !.due = FALSE]
             /\ UNCHANGED <<fetch, unsure, bottom>>
      BY <1>5, <2>3 DEF TypeInv, ListsOK, ScreenOK, VisitOK, Intersect
  <2>4. QED BY <1>5, <2>2, <2>3 DEF Intersect
<1>6. QED BY <1>3, <1>4, <1>5

LEMMA RemovalOK ==
    ASSUME TypeInv, NEW r \in Row, RemovalSucceeds(r)
    PROVE  TypeInv'
<1> DEFINE q == [query[filter] EXCEPT !.stale = TRUE]
           reloads == hasData(q) \/ fetch[filter] = None
           g == IF reloads THEN Reload(q) ELSE fetch[filter]
<1>1. filter \in Filter /\ \A f \in Filter : EntryOK(query[f])
    BY DEF TypeInv, ListsOK, VisitOK
<1>2. \A f \in Filter : EntryOK([query[f] EXCEPT !.stale = TRUE])
    BY <1>1, StaleOK
<1>3. EntryOK(q) /\ EntryOK(Begun(q)) BY <1>1, <1>2, BegunOK
<1>4. \A f \in Filter : EntryOK(query'[f])
    BY <1>2, <1>3 DEF RemovalSucceeds, invalidateQueries
<1>5. query' \in [Filter -> Entry]
  <2>1. query' = [f \in Filter |-> query'[f]]
      BY DEF RemovalSucceeds, invalidateQueries
  <2>2. QED BY <1>4, <2>1 DEF EntryOK
<1>6. FetchOK(Reload(q)) BY <1>3, ReloadOK
<1>7. g = None \/ FetchOK(g) BY <1>1, <1>6 DEF TypeInv, ListsOK
<1>8. fetch' = [fetch EXCEPT ![filter] = g]
    BY DEF RemovalSucceeds, invalidateQueries
<1>9. ListsOK'
  <2>1. fetch' \in [Filter -> Fetch \cup {None}]
      BY <1>7, <1>8 DEF FetchOK, TypeInv, ListsOK
  <2>2. \A f \in Filter : fetch'[f] # None => FetchOK(fetch'[f])
      BY <1>1, <1>7, <1>8 DEF TypeInv, ListsOK
  <2>3. QED BY <1>4, <1>5, <2>1, <2>2 DEF ListsOK
<1>10. ScreenOK'
    BY RenderOK DEF TypeInv, RemovalSucceeds, invalidateQueries
<1>11. unsure' \in [Filter -> BOOLEAN]
  <2>1. unsure' = [f \in Filter |-> IF f = filter /\ reloads THEN FALSE
                                    ELSE unsure[f] \/ fetch[f] # None]
      BY DEF RemovalSucceeds, invalidateQueries
  <2>2. QED BY <2>1
<1>12. QED
    BY <1>9, <1>10, <1>11 DEF TypeInv, VisitOK, RemovalSucceeds

LEMMA TypeStep == TypeInv /\ [Next]_vars => TypeInv'
<1> SUFFICES ASSUME TypeInv, [Next]_vars PROVE TypeInv'
    OBVIOUS
<1>1. CASE \E f \in Filter : CountRows(f) \/ ReadRows(f) BY <1>1, PageStepOK
<1>2. CASE \E f \in Filter : Receive(f) \/ Fail(f) BY <1>2, ReceiveOK, FailOK
<1>3. CASE \E f \in Filter : Switch(f) BY <1>3, SwitchOK
<1>4. CASE (\E f \in Filter : Prefetch(f)) \/ Reconnect \/ Intersect
    BY <1>4, LoadOK
<1>5. CASE Scroll
    BY <1>5 DEF Scroll, TypeInv, ListsOK, ScreenOK, VisitOK
<1>6. CASE (\E r \in Row : OnRemove(r)) \/ CancelRemoval
    BY <1>6
    DEF OnRemove, CancelRemoval, TypeInv, ListsOK, ScreenOK, VisitOK
<1>7. CASE OnConfirm \/ \E r \in Row : ServeRemoval(r)
    BY <1>7
    DEF OnConfirm, ServeRemoval, TypeInv, ListsOK, ScreenOK, VisitOK
<1>8. CASE \E r \in Row : RemovalSucceeds(r) BY <1>8, RemovalOK
<1>9. CASE \E r \in Row : RemovalFails(r)
    BY <1>9 DEF RemovalFails, TypeInv, ListsOK, ScreenOK, VisitOK
<1>10. CASE UNCHANGED vars
    BY <1>10 DEF vars, TypeInv, ListsOK, ScreenOK, VisitOK
<1>11. QED
    BY <1>1, <1>2, <1>3, <1>4, <1>5, <1>6, <1>7, <1>8, <1>9, <1>10 DEF Next

LEMMA TypeInit == Init => TypeInv
<1> SUFFICES ASSUME Init PROVE TypeInv
    OBVIOUS
<1>1. PICK f \in Filter :
        /\ filter = f
        /\ fetch = [x \in Filter |->
                        IF x = f THEN Request("reload", {}, 0, 1) ELSE None]
    BY DEF Init
<1>2. FetchOK(Request("reload", {}, 0, 1))
    BY RequestOK, EmptyCounts, PagesHoldRows
<1>3. PICK q : q = [rows |-> {}, pages |-> 0, more |-> FALSE,
                    status |-> "pending", stale |-> TRUE]
    OBVIOUS
<1>4. EntryOK(q) BY <1>3, EmptyCounts, PagesHoldRows DEF EntryOK, Entry
<1>5. query = [x \in Filter |-> q] BY <1>3 DEF Init
<1>6. ListsOK BY <1>1, <1>2, <1>4, <1>5 DEF ListsOK, EntryOK, FetchOK
<1>7. ScreenOK BY DEF Init, ScreenOK
<1>8. VisitOK BY <1>1 DEF Init, VisitOK
<1>9. QED BY <1>6, <1>7, <1>8 DEF TypeInv

(* Every reachable state is typed; in particular no list ever holds more     *)
(* rows than its pages have room for, however the pages and the reloads of   *)
(* a list and the removals from it interleave.                               *)
THEOREM TypeCorrect == Spec => []TypeOK
<1>1. TypeInv => TypeOK
    BY DEF TypeInv, ListsOK, ScreenOK, VisitOK, TypeOK, EntryOK, FetchOK
<1>2. QED BY <1>1, TypeInit, TypeStep, PTL DEF Spec

-----------------------------------------------------------------------------
(* Fresh lists.  What a list shows is right only together with what is on    *)
(* its way to it, and only while no row is gone of which the client has not  *)
(* been told: then an entry that is not stale has the first of the rows that *)
(* match, and so has a fetch, whose count and page are of those rows too.    *)

(* No row was removed whose removal is still to be answered.                 *)
Settled == \A r \in Row : removals[r] # "served"

EntryFits(q, M) ==
    /\ q.rows = FirstOf(M, q.pages * Limit)
    /\ q.more <=> q.pages * Limit < Cardinality(M)

FetchFits(g, M) ==
    /\ g.rows = FirstOf(M, pageParam(g))
    /\ g.phase # "sent" => g.count = Cardinality(M)
    /\ g.phase = "read" => g.page = PageOf(M, pageParam(g))

ListRight(f) ==
    Settled /\ ~unsure[f] =>
        /\ ~query[f].stale => EntryFits(query[f], Matches(f))
        /\ fetch[f] # None => FetchFits(fetch[f], Matches(f))

IInv == TypeInv /\ \A f \in Filter : ListRight(f)

LEMMA FirstRequestFits ==
    ASSUME NEW M \in SUBSET Row, NEW kind, NEW goal
    PROVE  FetchFits(Request(kind, {}, 0, goal), M)
<1>1. 0 * Limit = 0 BY PagesHoldRows
<1>2. FirstOf(M, 0) = {} BY FirstOfNone
<1>3. QED BY <1>1, <1>2 DEF FetchFits, Request, pageParam

LEMMA ReloadFits ==
    ASSUME NEW M \in SUBSET Row, NEW q
    PROVE  FetchFits(Reload(q), M)
BY FirstRequestFits DEF Reload

LEMMA NextPageFits ==
    ASSUME NEW M, NEW q, EntryFits(q, M)
    PROVE  FetchFits(NextPage(q), M)
BY DEF EntryFits, FetchFits, NextPage, Request, pageParam

(* A page that arrives in a list that was right makes it right.              *)
LEMMA LoadedFits ==
    ASSUME NEW M \in SUBSET Row, NEW g, FetchOK(g), FetchFits(g, M),
           g.phase = "read"
    PROVE  /\ EntryFits(Loaded(g), M)
           /\ FetchFits(Request(g.kind, g.rows \cup g.page, g.pages + 1,
                                g.goal), M)
<1>1. g.pages \in Nat /\ g.count = Cardinality(M) /\ pageParam(g) = g.pages * Limit
    BY DEF FetchOK, Fetch, FetchFits, pageParam
<1>2. g.pages * Limit \in Nat /\ (g.pages + 1) * Limit = g.pages * Limit + Limit
    BY <1>1, Offsets
<1>3. g.rows \cup g.page = FirstOf(M, (g.pages + 1) * Limit)
    BY <1>1, <1>2, PageExtends DEF FetchFits
<1>4. nextOffset(g) <=> (g.pages + 1) * Limit < Cardinality(M)
    BY <1>1, <1>2 DEF nextOffset
<1>5. EntryFits(Loaded(g), M) BY <1>3, <1>4, LoadedOK DEF EntryFits
<1>6. QED BY <1>3, <1>5 DEF FetchFits, Request, pageParam

LEMMA MatchesRows ==
    ASSUME TypeInv, NEW f \in Filter
    PROVE  Matches(f) \in SUBSET Row
BY DEF TypeInv, VisitOK, Matches

(* A step that leaves the database and the removals alone leaves right what  *)
(* it leaves alone.                                                          *)
LEMMA OthersRight ==
    ASSUME NEW f \in Filter, ListRight(f), UNCHANGED <<content, removals>>,
           query'[f] = query[f], fetch'[f] = fetch[f],
           unsure'[f] = unsure[f]
    PROVE  ListRight(f)'
<1>1. (Settled' <=> Settled) /\ Matches(f)' = Matches(f)
    BY DEF Settled, Matches
<1>2. PICK q, g : q = query[f] /\ g = fetch[f] OBVIOUS
<1>3. ListRight(f)' <=>
        (Settled /\ ~unsure[f] =>
            /\ ~q.stale => EntryFits(q, Matches(f))
            /\ g # None => FetchFits(g, Matches(f)))
    BY <1>1, <1>2 DEF ListRight, EntryFits, FetchFits
<1>4. QED BY <1>2, <1>3 DEF ListRight

(* For one list f: its entry becomes q, its fetch g.                         *)
LEMMA ListRightAfter ==
    ASSUME NEW f \in Filter, NEW q, NEW g, NEW M,
           query'[f] = q, fetch'[f] = g, Matches(f)' = M,
           Settled' /\ ~unsure'[f] =>
               /\ ~q.stale => EntryFits(q, M)
               /\ g # None => FetchFits(g, M)
    PROVE  ListRight(f)'
BY DEF ListRight, EntryFits, FetchFits

LEMMA PageStepRight ==
    ASSUME IInv, NEW f \in Filter, CountRows(f) \/ ReadRows(f)
    PROVE  ListRight(f)'
<1> DEFINE g == fetch[f]
           M == Matches(f)
<1>1. PICK p : /\ fetch' = [fetch EXCEPT ![f] = p]
               /\ \/ /\ g.phase = "sent"
                     /\ p = [g EXCEPT !.phase = "counted",
                                      !.count = Cardinality(M)]
                  \/ /\ g.phase = "counted"
                     /\ p = [g EXCEPT !.phase = "read",
                                      !.page = PageOf(M, pageParam(g))]
    BY DEF CountRows, ReadRows
<1>2. UNCHANGED <<content, query, removals, unsure>> /\ g # None
    BY DEF CountRows, ReadRows
<1>3. g \in Fetch BY <1>2 DEF IInv, TypeInv, ListsOK
<1>4. (Settled' <=> Settled) /\ Matches(f)' = M
    BY <1>2 DEF Settled, Matches
<1>5. fetch'[f] = p BY <1>1 DEF IInv, TypeInv, ListsOK
<1>6. FetchFits(g, M) => FetchFits(p, M)
  <2>1. CASE g.phase = "sent" /\ p = [g EXCEPT !.phase = "counted",
                                               !.count = Cardinality(M)]
    <3>1. /\ p.rows = g.rows /\ p.pages = g.pages /\ p.phase = "counted"
          /\ p.count = Cardinality(M)
        BY <1>3, <2>1 DEF Fetch
    <3>2. QED BY <3>1 DEF FetchFits, pageParam
  <2>2. CASE g.phase = "counted" /\ p = [g EXCEPT !.phase = "read",
                                          !.page = PageOf(M, pageParam(g))]
    <3>1. /\ p.rows = g.rows /\ p.pages = g.pages /\ p.phase = "read"
          /\ p.count = g.count /\ p.page = PageOf(M, pageParam(g))
        BY <1>3, <2>2 DEF Fetch
    <3>2. QED BY <2>2, <3>1 DEF FetchFits, pageParam
  <2>3. QED BY <1>1, <2>1, <2>2
<1>7. Settled' /\ ~unsure'[f] =>
        /\ ~query[f].stale => EntryFits(query[f], M)
        /\ p # None => FetchFits(p, M)
    BY <1>2, <1>4, <1>6 DEF IInv, ListRight
<1>8. QED BY <1>2, <1>4, <1>5, <1>7, ListRightAfter

LEMMA ReceiveRight ==
    ASSUME IInv, NEW f \in Filter, Receive(f)
    PROVE  ListRight(f)'
<1> DEFINE g == fetch[f]
           M == Matches(f)
           more == Request(g.kind, g.rows \cup g.page, g.pages + 1, g.goal)
<1>1. FetchOK(g) /\ g.phase = "read" /\ g # None
    BY DEF IInv, TypeInv, ListsOK, Receive
<1>2. UNCHANGED <<content, removals, unsure>> BY DEF Receive
<1>3. (Settled' <=> Settled) /\ Matches(f)' = M
    BY <1>2 DEF Settled, Matches
<1>4. Settled /\ ~unsure[f] => EntryFits(Loaded(g), M) /\ FetchFits(more, M)
    BY <1>1, LoadedFits, MatchesRows DEF IInv, ListRight
<1>5. CASE fetch' = [fetch EXCEPT ![f] = more] /\ UNCHANGED query
  <2>1. fetch'[f] = more /\ query'[f] = query[f]
      BY <1>5 DEF IInv, TypeInv, ListsOK
  <2>2. Settled' /\ ~unsure'[f] =>
          /\ ~query[f].stale => EntryFits(query[f], M)
          /\ more # None => FetchFits(more, M)
      BY <1>2, <1>3, <1>4 DEF IInv, ListRight
  <2>3. QED BY <1>3, <2>1, <2>2, ListRightAfter
<1>6. CASE /\ fetch' = [fetch EXCEPT ![f] = None]
           /\ query' = [query EXCEPT ![f] = Loaded(g)]
  <2>1. fetch'[f] = None /\ query'[f] = Loaded(g)
      BY <1>6 DEF IInv, TypeInv, ListsOK
  <2>2. Settled' /\ ~unsure'[f] =>
          /\ ~Loaded(g).stale => EntryFits(Loaded(g), M)
          /\ None # None => FetchFits(None, M)
      BY <1>2, <1>3, <1>4
  <2>3. QED BY <1>3, <2>1, <2>2, ListRightAfter
<1>7. QED BY <1>5, <1>6 DEF Receive, Loaded

(* A list that starts to load again is right, whatever it was.               *)
LEMMA ReloadRight ==
    ASSUME TypeInv, NEW f \in Filter, UNCHANGED content,
           query'[f].stale, fetch'[f] = Reload(query[f])
    PROVE  ListRight(f)'
<1>1. PICK q, g, M : q = query'[f] /\ g = fetch'[f] /\ M = Matches(f)
    OBVIOUS
<1>2. FetchFits(g, M) BY <1>1, MatchesRows, ReloadFits
<1>3. Matches(f)' = M BY <1>1 DEF Matches
<1>4. QED BY <1>1, <1>2, <1>3, ListRightAfter

LEMMA FailRight ==
    ASSUME TypeInv, NEW f \in Filter, Fail(f)
    PROVE  ListRight(f)'
<1>1. PICK q : q = [query[f] EXCEPT !.status = "error", !.stale = TRUE]
    OBVIOUS
<1>2. query[f] \in Entry BY DEF TypeInv, ListsOK
<1>3. q.stale = TRUE BY <1>1, <1>2 DEF Entry
<1>4. query'[f] = q /\ fetch'[f] = None BY <1>1 DEF TypeInv, ListsOK, Fail
<1>5. QED BY <1>3, <1>4, ListRightAfter

(* Every other way to start a load: the list it is for is right after it.    *)
LEMMA SwitchRight ==
    ASSUME IInv, NEW f \in Filter, Switch(f)
    PROVE  ListRight(f)'
<1> DEFINE q == query[f]
           starts == fetch[f] = None /\ (~hasData(q) \/ q.stale)
<1>1. EntryOK(q) BY DEF IInv, TypeInv, ListsOK
<1>2. UNCHANGED <<content, removals>> BY DEF Switch
<1>3. CASE starts
  <2>1. query'[f] = Begun(q) /\ fetch'[f] = Reload(q)
      BY <1>3 DEF IInv, TypeInv, ListsOK, Switch
  <2>2. q.stale BY <1>1, <1>3 DEF EntryOK
  <2>3. Begun(q).stale BY <1>1, <2>2, BegunOK
  <2>4. QED BY <1>2, <2>1, <2>3, ReloadRight DEF IInv
<1>4. CASE ~starts
  <2>1. query'[f] = q /\ fetch'[f] = fetch[f] /\ unsure'[f] = unsure[f]
      BY <1>4 DEF IInv, TypeInv, ListsOK, VisitOK, Switch
  <2>2. QED BY <1>2, <2>1, OthersRight DEF IInv
<1>5. QED BY <1>3, <1>4

LEMMA PrefetchRight ==
    ASSUME TypeInv, NEW f \in Filter, Prefetch(f)
    PROVE  ListRight(f)'
<1>1. EntryOK(query[f]) BY DEF TypeInv, ListsOK
<1>2. query'[f] = Begun(query[f]) /\ fetch'[f] = Reload(query[f])
    BY DEF TypeInv, ListsOK, Prefetch
<1>3. query[f].stale BY <1>1 DEF EntryOK, Prefetch
<1>4. Begun(query[f]).stale BY <1>1, <1>3, BegunOK
<1>5. QED BY <1>2, <1>4, ReloadRight DEF Prefetch

LEMMA ReconnectRight ==
    ASSUME TypeInv, Reconnect
    PROVE  ListRight(filter)'
<1>1. filter \in Filter /\ filter' = filter BY DEF TypeInv, VisitOK, Reconnect
<1>2. PICK f, q : f = filter /\ q = Begun(query[f]) OBVIOUS
<1>3. EntryOK(query[f]) BY <1>1, <1>2 DEF TypeInv, ListsOK
<1>4. q.stale BY <1>2, <1>3, BegunOK DEF Reconnect
<1>5. query'[f] = q /\ fetch'[f] = Reload(q)
    BY <1>1, <1>2 DEF TypeInv, ListsOK, Reconnect
<1>6. FetchFits(Reload(q), Matches(f)) BY <1>1, <1>2, MatchesRows, ReloadFits
<1>7. Matches(f)' = Matches(f) BY DEF Matches, Reconnect
<1>8. ListRight(f)' BY <1>1, <1>2, <1>4, <1>5, <1>6, <1>7, ListRightAfter
<1>9. QED BY <1>1, <1>2, <1>8

LEMMA IntersectRight ==
    ASSUME IInv, Intersect
    PROVE  ListRight(filter)'
<1>1. filter \in Filter /\ filter' = filter
    BY DEF IInv, TypeInv, VisitOK, Intersect
<1>2. PICK f : f = filter OBVIOUS
<1>3. PICK q : q = query[f] OBVIOUS
<1>4. UNCHANGED <<content, removals, query>> BY DEF Intersect
<1>5. CASE /\ hasNextPage(query[filter])
           /\ fetch' = [fetch EXCEPT ![filter] = NextPage(query[filter])]
           /\ unsure' = [unsure EXCEPT ![filter] = @ \/ query[filter].stale]
  <2>1. query'[f] = q /\ fetch'[f] = NextPage(q)
        /\ (unsure'[f] <=> unsure[f] \/ q.stale)
      BY <1>1, <1>2, <1>3, <1>4, <1>5 DEF IInv, TypeInv, ListsOK, VisitOK
  <2>2. (Settled' <=> Settled) /\ Matches(f)' = Matches(f)
      BY <1>4 DEF Settled, Matches
  <2>3. Settled /\ ~unsure[f] /\ ~q.stale => EntryFits(q, Matches(f))
      BY <1>1, <1>2, <1>3 DEF IInv, ListRight
  <2>4. Settled' /\ ~unsure'[f] =>
          /\ ~q.stale => EntryFits(q, Matches(f))
          /\ NextPage(q) # None => FetchFits(NextPage(q), Matches(f))
      BY <2>1, <2>2, <2>3, NextPageFits
  <2>5. ListRight(f)' BY <1>1, <1>2, <2>1, <2>2, <2>4, ListRightAfter
  <2>6. QED BY <1>1, <1>2, <2>5
<1>6. CASE UNCHANGED <<fetch, unsure>>
  <2>1. ListRight(f)' BY <1>1, <1>2, <1>4, <1>6, OthersRight DEF IInv
  <2>2. QED BY <1>1, <1>2, <2>1
<1>7. QED BY <1>5, <1>6 DEF Intersect

(* The answer to a removal makes every entry stale, and what it does not     *)
(* load again is in doubt if it was being loaded.                            *)
LEMMA RemovalRight ==
    ASSUME IInv, NEW r \in Row, RemovalSucceeds(r), NEW f \in Filter
    PROVE  ListRight(f)'
<1> DEFINE q == [query[filter] EXCEPT !.stale = TRUE]
           reloads == hasData(q) \/ fetch[filter] = None
<1>1. filter \in Filter /\ \A x \in Filter : EntryOK(query[x])
    BY DEF IInv, TypeInv, ListsOK, VisitOK
<1>2. query'[f].stale = TRUE
  <2>1. query'[f] = IF f = filter /\ fetch[f] = None THEN Begun(q)
                    ELSE [query[f] EXCEPT !.stale = TRUE]
      BY DEF RemovalSucceeds, invalidateQueries
  <2>2. CASE query'[f] = Begun(q)
    <3>1. EntryOK(q) /\ q.stale = TRUE BY <1>1, StaleOK
    <3>2. QED BY <2>2, <3>1, BegunOK
  <2>3. CASE query'[f] = [query[f] EXCEPT !.stale = TRUE]
      BY <1>1, <2>3, StaleOK
  <2>4. QED BY <2>1, <2>2, <2>3
<1>3. unsure'[f] = IF f = filter /\ reloads THEN FALSE
                   ELSE unsure[f] \/ fetch[f] # None
    BY DEF RemovalSucceeds, invalidateQueries
<1>4. fetch' = [fetch EXCEPT ![filter] =
                    IF reloads THEN Reload(q) ELSE fetch[filter]]
    BY DEF RemovalSucceeds, invalidateQueries
<1>5. content' = content BY DEF RemovalSucceeds
<1>6. PICK p, g : p = query'[f] /\ g = fetch'[f] OBVIOUS
<1>7. Matches(f)' = Matches(f) BY <1>5 DEF Matches
<1>8. CASE f = filter /\ reloads
  <2>1. g = Reload(q) BY <1>1, <1>4, <1>6, <1>8 DEF IInv, TypeInv, ListsOK
  <2>2. FetchFits(g, Matches(f)) BY <2>1, MatchesRows, ReloadFits DEF IInv
  <2>3. QED BY <1>2, <1>6, <1>7, <2>2, ListRightAfter
<1>9. CASE ~(f = filter /\ reloads)
  <2>1. g = fetch[f] BY <1>1, <1>4, <1>6, <1>9 DEF IInv, TypeInv, ListsOK
  <2>2. ~unsure'[f] => g = None BY <1>3, <1>9, <2>1
  <2>3. QED BY <1>2, <1>6, <1>7, <2>2, ListRightAfter
<1>10. QED BY <1>8, <1>9

(* A removal that is served, or whose answer is lost.                        *)
LEMMA ServeRight ==
    ASSUME TypeInv, NEW r \in Row, ServeRemoval(r), NEW f \in Filter
    PROVE  ListRight(f)'
<1>1. removals'[r] = "served" BY DEF ServeRemoval, TypeInv, VisitOK
<1>2. ~Settled' BY <1>1 DEF Settled
<1>3. QED BY <1>2 DEF ListRight

LEMMA LostRight ==
    ASSUME IInv, NEW r \in Row, RemovalFails(r), NEW f \in Filter
    PROVE  ListRight(f)'
<1>1. unsure'[f] <=> unsure[f] \/ removals[r] = "served"
    BY DEF RemovalFails
<1>2. CASE removals[r] = "served"
    BY <1>1, <1>2 DEF ListRight
<1>3. CASE removals[r] = "sent"
  <2>1. removals' = [removals EXCEPT ![r] = "none"] BY <1>3 DEF RemovalFails
  <2>2. Settled' <=> Settled
      BY <1>3, <2>1 DEF Settled, IInv, TypeInv, VisitOK
  <2>3. UNCHANGED <<content, query, fetch>> BY DEF RemovalFails
  <2>4. PICK q, g, M : q = query[f] /\ g = fetch[f] /\ M = Matches(f)
      OBVIOUS
  <2>5. Settled' /\ ~unsure'[f] =>
          /\ ~q.stale => EntryFits(q, M)
          /\ g # None => FetchFits(g, M)
      BY <1>1, <1>3, <2>2, <2>4 DEF IInv, ListRight
  <2>6. Matches(f)' = M BY <2>3, <2>4 DEF Matches
  <2>7. QED BY <2>3, <2>4, <2>5, <2>6, ListRightAfter
<1>4. QED BY <1>2, <1>3 DEF RemovalFails

LEMMA OtherListsRight ==
    ASSUME IInv, NEW f \in Filter, NEW x \in Filter, x # f,
           \/ CountRows(f) \/ ReadRows(f) \/ Receive(f) \/ Fail(f)
           \/ Switch(f) \/ Prefetch(f)
           \/ f = filter /\ (Reconnect \/ Intersect)
    PROVE  ListRight(x)'
<1>1. UNCHANGED <<content, removals>>
    BY DEF CountRows, ReadRows, Receive, Fail, Switch, Prefetch, Reconnect,
           Intersect
<1>2. query'[x] = query[x]
    BY DEF CountRows, ReadRows, Receive, Fail, Switch, Prefetch, Reconnect,
           Intersect, IInv, TypeInv, ListsOK
<1>3. fetch'[x] = fetch[x]
    BY DEF CountRows, ReadRows, Receive, Fail, Switch, Prefetch, Reconnect,
           Intersect, IInv, TypeInv, ListsOK
<1>4. unsure'[x] = unsure[x]
    BY DEF CountRows, ReadRows, Receive, Fail, Switch, Prefetch, Reconnect,
           Intersect, IInv, TypeInv, VisitOK
<1>5. QED BY <1>1, <1>2, <1>3, <1>4, OthersRight DEF IInv

LEMMA InvStep == IInv /\ [Next]_vars => IInv'
<1> SUFFICES ASSUME IInv, [Next]_vars, NEW x \in Filter PROVE ListRight(x)'
    BY TypeStep DEF IInv
<1>1. TypeInv /\ filter \in Filter BY DEF IInv, TypeInv, VisitOK
<1>2. ASSUME NEW f \in Filter,
             \/ CountRows(f) \/ ReadRows(f) \/ Receive(f) \/ Fail(f)
             \/ Switch(f) \/ Prefetch(f)
      PROVE  ListRight(x)'
  <2>1. CASE x = f
      BY <1>1, <1>2, <2>1, PageStepRight, ReceiveRight, FailRight,
         SwitchRight, PrefetchRight
  <2>2. CASE x # f BY <1>2, <2>2, OtherListsRight
  <2>3. QED BY <2>1, <2>2
<1>3. CASE Reconnect \/ Intersect
  <2>1. CASE x = filter
    <3>1. filter' = filter BY <1>3 DEF Reconnect, Intersect
    <3>2. ListRight(filter)' BY <1>1, <1>3, ReconnectRight, IntersectRight
    <3>3. QED BY <2>1, <3>1, <3>2
  <2>2. CASE x # filter BY <1>1, <1>3, <2>2, OtherListsRight
  <2>3. QED BY <2>1, <2>2
<1>4. CASE Scroll \/ (\E r \in Row : OnRemove(r)) \/ CancelRemoval
           \/ UNCHANGED vars
  <2>1. UNCHANGED <<content, removals, query, fetch, unsure>>
      BY <1>4 DEF Scroll, OnRemove, CancelRemoval, vars
  <2>2. QED BY <2>1, OthersRight DEF IInv
<1>5. CASE OnConfirm
  <2>1. Settled' <=> Settled
      BY <1>1, <1>5 DEF OnConfirm, Settled, TypeInv, VisitOK
  <2>2. UNCHANGED <<content, query, fetch, unsure>> BY <1>5 DEF OnConfirm
  <2>3. PICK q, g, M : q = query[x] /\ g = fetch[x] /\ M = Matches(x)
      OBVIOUS
  <2>4. Settled' /\ ~unsure'[x] =>
          /\ ~q.stale => EntryFits(q, M)
          /\ g # None => FetchFits(g, M)
      BY <2>1, <2>2, <2>3 DEF IInv, ListRight
  <2>5. Matches(x)' = M BY <2>2, <2>3 DEF Matches
  <2>6. QED BY <2>2, <2>3, <2>4, <2>5, ListRightAfter
<1>6. CASE \E r \in Row : \/ ServeRemoval(r) \/ RemovalSucceeds(r)
                          \/ RemovalFails(r)
    BY <1>1, <1>6, ServeRight, RemovalRight, LostRight
<1>7. QED BY <1>2, <1>3, <1>4, <1>5, <1>6 DEF Next

LEMMA InvInit == Init => IInv
<1> SUFFICES ASSUME Init, NEW f \in Filter PROVE ListRight(f)
    BY TypeInit DEF IInv
<1>1. Matches(f) \in SUBSET Row BY TypeInit, MatchesRows
<1>2. fetch[f] # None => FetchFits(fetch[f], Matches(f))
  <2>1. fetch[f] # None => fetch[f] = Request("reload", {}, 0, 1) BY DEF Init
  <2>2. QED BY <1>1, <2>1, FirstRequestFits
<1>3. query[f].stale BY DEF Init
<1>4. QED BY <1>2, <1>3 DEF ListRight

(* In a list that is quiet and not unsure, the rows on the screen are the    *)
(* first that match, and all of them when the list ends: for any rows,       *)
(* filters and page size, in whatever order pages, reloads and removals come *)
(* back (content-membership.ts:43, book-content-section.tsx:86).  Nothing is *)
(* said of a list whose removal went unanswered, that was asked for a next   *)
(* page while stale, or that was on its first load or loaded out of view     *)
(* when a row was removed, until it is loaded anew.                          *)
THEOREM FreshListsAreRight == Spec => []FreshListAgrees
<1>1. IInv => FreshListAgrees
  <2> SUFFICES ASSUME IInv, NEW f \in Filter, Quiet(f), ~unsure[f]
               PROVE  Agrees(f)
      BY DEF FreshListAgrees
  <2> DEFINE q == query[f]
             M == Matches(f)
  <2>1. EntryOK(q) /\ M \in SUBSET Row
      BY MatchesRows DEF IInv, TypeInv, ListsOK
  <2>2. EntryFits(q, M) BY DEF IInv, ListRight, Settled, Quiet
  <2>3. hasData(q) BY <2>1 DEF EntryOK, Quiet
  <2>4. q.pages * Limit \in Nat /\ Cardinality(M) \in Nat
      BY <2>1, Offsets, RowsFinite DEF EntryOK, Entry
  <2>5. ~hasNextPage(q) => q.pages * Limit >= Cardinality(M)
      BY <2>2, <2>3, <2>4 DEF EntryFits, hasNextPage
  <2>6. QED BY <2>1, <2>2, <2>4, <2>5, FirstOfLeads DEF EntryFits, Agrees
<1>2. QED BY <1>1, InvInit, InvStep, PTL DEF Spec
==============================================================================
