---------------------------- MODULE BookControl ----------------------------
(* The "add to book" control on the page of a monster, a spell or an item,   *)
(* and the cached detail it starts from.  The boxes of the control change at *)
(* once when they are clicked and change back when the request fails; they   *)
(* are set from the detail only when the control is mounted.                 *)
(*                                                                           *)
(* One content, the books of one account, one tab.  While the visitor is     *)
(* away from the page, rows can be removed from its books on the book pages. *)
EXTENDS Naturals, FiniteSets

CONSTANTS
    Book,   \* the books of the account
    Req,    \* slots for the requests under way (a bound)
    None

ASSUME NoneIsNoRecord == None \notin
    [book : Book, add : BOOLEAN, served : BOOLEAN, rolls : BOOLEAN]
        \cup [own : BOOLEAN, served : BOOLEAN, in : SUBSET Book]

VARIABLES
    member,     \* the books of the database that hold the content
    signedIn,
    onPage,     \* the visitor is on the page of the content
    detail,     \* the entry of the query cache for the content
    fetch,      \* the request for it that is under way, or None
    checked,    \* checkedIds of the control
    requests,   \* [Req -> the membership requests under way, or None]
    trusted,    \* the books whose box has been right since the mount, except
                \* while requests for it are under way
    unsure      \* the cached detail may differ from the database

vars == <<member, signedIn, onPage, detail, fetch, checked, requests, trusted,
          unsure>>

-----------------------------------------------------------------------------
(* The cached detail.  The API omits the memberships for anonymous requests. *)
Detail == [data : {"none", "anonymous", "own"}, in : SUBSET Book,
           stale : BOOLEAN]
Fetch == [own : BOOLEAN, served : BOOLEAN, in : SUBSET Book]
Request == [book : Book, add : BOOLEAN, served : BOOLEAN, rolls : BOOLEAN]

hasData == detail.data # "none"
NewFetch == [own |-> signedIn, served |-> FALSE, in |-> {}]

(* What is missing or stale is loaded, one request at a time.                *)
MayLoad == fetch = None /\ (~hasData \/ detail.stale)

(* AddToBookMenu is on the screen.                                           *)
Mounted == onPage /\ hasData /\ signedIn

UnderWay(b) == {q \in Req : requests[q] # None /\ requests[q].book = b}

(* A control is mounted with the memberships of the detail; what is right    *)
(* then, with no request for it under way, is expected to stay right.        *)
Mount(memberships) ==
    /\ checked' = memberships
    /\ trusted' = {b \in Book : UnderWay(b) = {}
                                /\ (b \in memberships <=> b \in member)}

(* Faulty variant: the requests of the control call back without it.         *)
UnmountKeeping == UNCHANGED requests /\ checked' = {} /\ trusted' = {}

(* Without the control nobody rolls back.                                    *)
Unmount ==
    /\ requests' = [q \in Req |->
                        IF requests[q] = None THEN None
                        ELSE [requests[q] EXCEPT !.rolls = FALSE]]
    /\ checked' = {} /\ trusted' = {}

-----------------------------------------------------------------------------
(* The visitor comes and goes *)

(* useMonster, useSpell, useItem: the entry is loaded unless it is fresh.    *)
Open ==
    /\ ~onPage /\ onPage' = TRUE
    /\ IF MayLoad THEN fetch' = NewFetch /\ unsure' = FALSE
                  ELSE UNCHANGED <<fetch, unsure>>
    /\ IF hasData /\ signedIn THEN Mount(detail.in)
                              ELSE UNCHANGED <<checked, trusted>>
    /\ UNCHANGED <<member, signedIn, detail, requests>>

Leave ==
    /\ onPage /\ onPage' = FALSE
    /\ Unmount
    /\ UNCHANGED <<member, signedIn, detail, fetch, unsure>>

(* Login has a page of its own and leads back; it leaves the cached content  *)
(* as it is.                                                                 *)
SignIn ==
    /\ ~signedIn /\ ~onPage /\ signedIn' = TRUE
    /\ UNCHANGED <<member, onPage, detail, fetch, checked, requests, trusted,
                   unsure>>

SignOut ==
    /\ signedIn /\ signedIn' = FALSE
    /\ Unmount
    /\ UNCHANGED <<member, onPage, detail, fetch, unsure>>

-----------------------------------------------------------------------------
(* The detail on its way *)

(* A hover over the card of the content on its catalog page.                 *)
Prefetch ==
    /\ ~onPage /\ MayLoad
    /\ fetch' = NewFetch /\ unsure' = FALSE
    /\ UNCHANGED <<member, signedIn, onPage, detail, checked, requests,
                   trusted>>

(* The connection comes back: a stale detail in view is loaded again.        *)
Reconnect ==
    /\ onPage /\ MayLoad
    /\ fetch' = NewFetch /\ unsure' = FALSE
    /\ UNCHANGED <<member, signedIn, onPage, detail, checked, requests,
                   trusted>>

ServeDetail ==
    /\ fetch # None /\ ~fetch.served
    /\ fetch' = [fetch EXCEPT !.served = TRUE,
                              !.in = IF fetch.own THEN member ELSE {}]
    /\ UNCHANGED <<member, signedIn, onPage, detail, checked, requests,
                   trusted, unsure>>

(* The control is mounted with the first detail there is, and not again with *)
(* later ones: its key is the content.                                       *)
ReceiveDetail ==
    /\ fetch # None /\ fetch.served
    /\ detail' = [data |-> IF fetch.own THEN "own" ELSE "anonymous",
                  in |-> fetch.in, stale |-> FALSE]
    /\ fetch' = None
    /\ IF onPage /\ signedIn /\ ~hasData THEN Mount(fetch.in)
                                         ELSE UNCHANGED <<checked, trusted>>
    /\ UNCHANGED <<member, signedIn, onPage, requests, unsure>>

FailDetail ==
    /\ fetch # None
    /\ fetch' = None
    /\ detail' = [detail EXCEPT !.stale = TRUE]
    /\ UNCHANGED <<member, signedIn, onPage, checked, requests, trusted,
                   unsure>>

-----------------------------------------------------------------------------
(* Membership requests *)

withMembership(ids, b, present) == IF present THEN ids \cup {b} ELSE ids \ {b}

Sent(b, add, rolls) ==
    [book |-> b, add |-> add, served |-> FALSE, rolls |-> rolls]

(* A box is clicked.  There is one mutation for adding and one for removing, *)
(* and each calls back only for the last request made with it.               *)
toggle(b) ==
    LET add == b \notin checked IN
    /\ Mounted
    /\ \E q \in Req :
        /\ requests[q] = None
        /\ requests' = [p \in Req |->
                IF p = q THEN Sent(b, add, TRUE)
                ELSE IF requests[p] # None /\ requests[p].add = add
                     THEN [requests[p] EXCEPT !.rolls = FALSE]
                     ELSE requests[p]]
    /\ checked' = withMembership(checked, b, add)
    /\ trusted' = IF UnderWay(b) = {} THEN trusted ELSE trusted \ {b}
    /\ UNCHANGED <<member, signedIn, onPage, detail, fetch, unsure>>

(* The content is removed from a book on the page of the book.               *)
RemoveRow(b) ==
    /\ signedIn /\ ~onPage /\ b \in member
    /\ \E q \in Req :
        /\ requests[q] = None
        /\ requests' = [requests EXCEPT ![q] = Sent(b, FALSE, FALSE)]
    /\ UNCHANGED <<member, signedIn, onPage, detail, fetch, checked, trusted,
                   unsure>>

Serve(q) ==
    /\ requests[q] # None /\ ~requests[q].served
    /\ member' = withMembership(member, requests[q].book, requests[q].add)
    /\ requests' = [requests EXCEPT ![q].served = TRUE]
    /\ UNCHANGED <<signedIn, onPage, detail, fetch, checked, trusted, unsure>>

(* Faulty variant: the detail is not among what is invalidated.              *)
invalidateBooksOnly == UNCHANGED <<detail, fetch, unsure>>

(* The detail is stale, and loaded again, in place of a request under way,   *)
(* when it is on the screen.                                                 *)
invalidateAfterMembership ==
    /\ detail' = [detail EXCEPT !.stale = TRUE]
    /\ IF onPage /\ (hasData \/ fetch = None)
       THEN fetch' = NewFetch /\ unsure' = FALSE
       ELSE /\ unsure' = (unsure \/ fetch # None)
            /\ UNCHANGED fetch

Succeed(q) ==
    /\ requests[q] # None /\ requests[q].served
    /\ requests' = [requests EXCEPT ![q] = None]
    /\ invalidateAfterMembership
    /\ UNCHANGED <<member, signedIn, onPage, checked, trusted>>

(* Faulty variant: the roll-back puts back all the boxes as they were.       *)
rollBackAll(r) ==
    checked' = IF r.rolls THEN withMembership(detail.in, r.book, ~r.add)
                          ELSE checked

(* onError of toggle: a failed click is taken back, in the boxes as they are *)
(* by then.                                                                  *)
rollBack(r) ==
    checked' = IF r.rolls THEN withMembership(checked, r.book, ~r.add)
                          ELSE checked

(* A request is refused or gets no answer, and may have been served.         *)
FailRequest(q) ==
    LET r == requests[q] IN
    /\ r # None
    /\ requests' = [requests EXCEPT ![q] = None]
    /\ rollBack(r)
    /\ trusted' = IF r.rolls /\ ~r.served THEN trusted ELSE trusted \ {r.book}
    /\ unsure' = (unsure \/ r.served)
    /\ UNCHANGED <<member, signedIn, onPage, detail, fetch>>

-----------------------------------------------------------------------------
Init ==
    /\ member \in SUBSET Book
    /\ signedIn \in BOOLEAN
    /\ onPage = FALSE
    /\ detail = [data |-> "none", in |-> {}, stale |-> TRUE]
    /\ fetch = None
    /\ checked = {} /\ trusted = {}
    /\ requests = [q \in Req |-> None]
    /\ unsure = FALSE

Next ==
    \/ Open \/ Leave \/ SignIn \/ SignOut
    \/ Prefetch \/ Reconnect
    \/ ServeDetail \/ ReceiveDetail \/ FailDetail
    \/ \E b \in Book : toggle(b)
    \/ \E b \in Book : RemoveRow(b)
    \/ \E q \in Req : Serve(q)
    \/ \E q \in Req : Succeed(q)
    \/ \E q \in Req : FailRequest(q)

Spec == Init /\ [][Next]_vars

-----------------------------------------------------------------------------
(* Every variable has its shape; only a control on the screen rolls back,    *)
(* and at most one request of each kind.                                     *)
Shapes ==
    /\ member \subseteq Book /\ checked \subseteq Book /\ trusted \subseteq Book
    /\ signedIn \in BOOLEAN /\ onPage \in BOOLEAN /\ unsure \in BOOLEAN
    /\ detail \in Detail
    /\ fetch \in Fetch \cup {None}
    /\ requests \in [Req -> Request \cup {None}]

RollsBackOnce ==
    \A p, q \in Req :
        /\ requests[p] # None /\ requests[p].rolls => Mounted
        /\ p # q /\ requests[p] # None /\ requests[q] # None
           /\ requests[p].rolls /\ requests[q].rolls
           => requests[p].add # requests[q].add

TypeOK == Shapes /\ RollsBackOnce

(* A box that was right when the control came on the screen is right         *)
(* whenever no request for it is under way, however the requests of the      *)
(* boxes interleave and fail: unless it was clicked again before the answer, *)
(* its roll-back was given up for a later request, or an answer was lost     *)
(* (add-to-book-control.tsx:86).                                             *)
BoxesAgree ==
    Mounted => \A b \in trusted : UnderWay(b) = {} => (b \in checked <=> b \in member)

(* When nothing is under way, a cached detail that counts as fresh has the   *)
(* memberships of the database; unless an answer was lost, or the detail was *)
(* being loaded for the first time, or out of view, when a request succeeded *)
(* (content-membership.ts:43).                                               *)
FreshDetailAgrees ==
    /\ detail.data = "own" /\ ~detail.stale /\ fetch = None /\ ~unsure
    /\ \A q \in Req : requests[q] = None
    => detail.in = member
=============================================================================
