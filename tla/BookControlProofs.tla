------------------------- MODULE BookControlProofs -------------------------
(* What BookControl keeps for any number of books and requests under way.    *)
EXTENDS BookControl, TLAPS

-----------------------------------------------------------------------------
(* Without a control on the screen no box is relied on.                      *)
NoneTrusted == ~Mounted => trusted = {}

(* A box that is relied on has at most one request under way; the box shows  *)
(* what that request asks for, and the database has it once it is served.    *)
TrustedRight ==
    \A b \in trusted :
        /\ \A p, q \in UnderWay(b) : p = q
        /\ UnderWay(b) = {} => (b \in checked <=> b \in member)
        /\ \A q \in UnderWay(b) :
            /\ b \in checked <=> requests[q].add
            /\ b \in member <=> (requests[q].add <=> requests[q].served)

(* The memberships change only with a request that is then to be answered.   *)
NoneServed == \A q \in Req : requests[q] # None => ~requests[q].served

FreshRight ==
    ~unsure /\ NoneServed =>
        /\ detail.data = "own" /\ ~detail.stale /\ fetch = None
            => detail.in = member
        /\ fetch # None /\ fetch.own /\ fetch.served => fetch.in = member

IInv == TypeOK /\ NoneTrusted /\ TrustedRight /\ FreshRight

-----------------------------------------------------------------------------
LEMMA SlotTypes ==
    /\ None \notin Request /\ None \notin Fetch
    /\ \A r \in Request : /\ r.book \in Book /\ r.add \in BOOLEAN
                          /\ r.served \in BOOLEAN /\ r.rolls \in BOOLEAN
    /\ \A f \in Fetch : /\ f.own \in BOOLEAN /\ f.served \in BOOLEAN
                        /\ f.in \subseteq Book
BY NoneIsNoRecord DEF Request, Fetch

LEMMA InitHolds == Init => IInv
<1> SUFFICES ASSUME Init PROVE IInv
    OBVIOUS
<1>1. Shapes BY DEF Init, Shapes, Detail
<1>2. QED
    BY <1>1
    DEF Init, IInv, TypeOK, RollsBackOnce, NoneTrusted, TrustedRight,
        FreshRight

(* What the actions make of a request.                                       *)
LEMMA RollsOff ==
    ASSUME NEW r \in Request, NEW s, s = [r EXCEPT !.rolls = FALSE]
    PROVE  /\ s \in Request /\ s # None
           /\ s.book = r.book /\ s.add = r.add /\ s.served = r.served
           /\ ~s.rolls
BY SlotTypes DEF Request

LEMMA IsServed ==
    ASSUME NEW r \in Request, NEW s, s = [r EXCEPT !.served = TRUE]
    PROVE  /\ s \in Request /\ s # None
           /\ s.book = r.book /\ s.add = r.add /\ s.rolls = r.rolls
           /\ s.served
BY SlotTypes DEF Request

LEMMA IsSent ==
    ASSUME NEW b \in Book, NEW add \in BOOLEAN, NEW rolls \in BOOLEAN,
           NEW s, s = Sent(b, add, rolls)
    PROVE  /\ s \in Request /\ s # None
           /\ s.book = b /\ s.add = add /\ ~s.served /\ s.rolls = rolls
<1>1. s = [book |-> b, add |-> add, served |-> FALSE, rolls |-> rolls]
    BY DEF Sent
<1>2. s \in Request BY <1>1 DEF Request
<1>3. s.book = b /\ s.add = add /\ s.rolls = rolls BY <1>1
<1>4. ~s.served BY <1>1
<1>5. QED BY <1>2, <1>3, <1>4, SlotTypes

(* What leaving a control does to the requests.                              *)
LEMMA UnmountRequests ==
    ASSUME Shapes, Unmount
    PROVE  /\ requests' \in [Req -> Request \cup {None}]
           /\ \A q \in Req :
                /\ requests[q] = None <=> requests'[q] = None
                /\ requests[q] # None =>
                    /\ ~requests'[q].rolls
                    /\ requests'[q].served = requests[q].served
                    /\ requests'[q].book = requests[q].book
<1>1. ASSUME NEW q \in Req
      PROVE  /\ requests'[q] \in Request \cup {None}
             /\ requests[q] = None <=> requests'[q] = None
             /\ requests[q] # None =>
                 /\ ~requests'[q].rolls
                 /\ requests'[q].served = requests[q].served
                 /\ requests'[q].book = requests[q].book
  <2>1. requests[q] \in Request \cup {None} BY DEF Shapes
  <2>2. CASE requests[q] = None BY <2>2 DEF Unmount
  <2>3. CASE requests[q] \in Request
    <3>1. requests'[q] = [requests[q] EXCEPT !.rolls = FALSE]
        BY <2>3, SlotTypes DEF Unmount
    <3>2. QED BY <2>3, <3>1, SlotTypes, RollsOff
  <2>4. QED BY <2>1, <2>2, <2>3
<1>2. requests' = [q \in Req |-> requests'[q]] BY DEF Unmount
<1>3. QED BY <1>1, <1>2

(* What a click does to them.                                                *)
LEMMA ToggleRequests ==
    ASSUME Shapes, NEW b \in Book, toggle(b)
    PROVE  /\ requests' \in [Req -> Request \cup {None}]
           /\ \E q \in Req :
                /\ requests[q] = None
                /\ requests'[q] = Sent(b, b \notin checked, TRUE)
                /\ \A p \in Req \ {q} :
                    /\ requests[p] = None <=> requests'[p] = None
                    /\ requests[p] # None =>
                        /\ requests'[p].book = requests[p].book
                        /\ requests'[p].add = requests[p].add
                        /\ requests'[p].served = requests[p].served
                        /\ requests'[p].rolls <=>
                              requests[p].rolls
                              /\ requests[p].add # (b \notin checked)
<1>1. PICK q \in Req :
        /\ requests[q] = None
        /\ requests' = [p \in Req |->
                IF p = q THEN Sent(b, b \notin checked, TRUE)
                ELSE IF requests[p] # None
                        /\ requests[p].add = (b \notin checked)
                     THEN [requests[p] EXCEPT !.rolls = FALSE]
                     ELSE requests[p]]
    BY DEF toggle
<1>2. requests'[q] = Sent(b, b \notin checked, TRUE) BY <1>1
<1>3. ASSUME NEW p \in Req \ {q}
      PROVE  /\ requests'[p] \in Request \cup {None}
             /\ requests[p] = None <=> requests'[p] = None
             /\ requests[p] # None =>
                 /\ requests'[p].book = requests[p].book
                 /\ requests'[p].add = requests[p].add
                 /\ requests'[p].served = requests[p].served
                 /\ requests'[p].rolls <=>
                       requests[p].rolls
                       /\ requests[p].add # (b \notin checked)
  <2>1. requests[p] \in Request \cup {None} BY DEF Shapes
  <2>2. CASE requests[p] = None BY <1>1, <2>2
  <2>3. CASE requests[p] \in Request /\ requests[p].add = (b \notin checked)
    <3>1. requests'[p] = [requests[p] EXCEPT !.rolls = FALSE]
        BY <1>1, <2>3, SlotTypes
    <3>2. QED BY <2>3, <3>1, SlotTypes, RollsOff
  <2>4. CASE requests[p] \in Request /\ requests[p].add # (b \notin checked)
      BY <1>1, <2>4, SlotTypes
  <2>5. QED BY <2>1, <2>2, <2>3, <2>4
<1>4. \A p \in Req : requests'[p] \in Request \cup {None}
  <2>1. (b \notin checked) \in BOOLEAN OBVIOUS
  <2>2. requests'[q] \in Request BY <1>2, <2>1, IsSent
  <2>3. QED BY <1>3, <2>2
<1>5. requests' = [p \in Req |-> requests'[p]] BY <1>1
<1>6. QED BY <1>1, <1>2, <1>3, <1>4, <1>5

(* A step keeps the shapes.                                                  *)
LEMMA ShapesStep ==
    ASSUME Shapes, [Next]_vars
    PROVE  Shapes'
<1> USE SlotTypes DEF Shapes
<1>1. NewFetch \in Fetch BY DEF NewFetch, Fetch
<1>2. detail.in \subseteq Book BY DEF Detail
<1>3. CASE Open
  <2>1. fetch' \in Fetch \cup {None} /\ unsure' \in BOOLEAN
      BY <1>1, <1>3 DEF Open, MayLoad
  <2>2. checked' \subseteq Book /\ trusted' \subseteq Book
      BY <1>2, <1>3 DEF Open, Mount
  <2>3. QED BY <1>3, <2>1, <2>2 DEF Open
<1>4. CASE Leave BY <1>4, UnmountRequests DEF Leave, Unmount
<1>5. CASE SignIn BY <1>5 DEF SignIn
<1>6. CASE SignOut BY <1>6, UnmountRequests DEF SignOut, Unmount
<1>7. CASE ServeDetail
  <2>1. fetch' \in Fetch BY <1>7 DEF ServeDetail, Fetch
  <2>2. QED BY <1>7, <2>1 DEF ServeDetail
<1>8. CASE ReceiveDetail BY <1>8 DEF ReceiveDetail, Mount, Detail
<1>9. CASE FailDetail BY <1>9 DEF FailDetail, Detail
<1>10. ASSUME NEW b \in Book, toggle(b)
       PROVE  Shapes'
  <2>1. requests' \in [Req -> Request \cup {None}] BY <1>10, ToggleRequests
  <2>2. QED BY <1>10, <2>1 DEF toggle, withMembership
<1>11. ASSUME NEW b \in Book, RemoveRow(b)
       PROVE  Shapes'
  <2>1. requests' \in [Req -> Request \cup {None}]
    <3>1. PICK q \in Req :
            requests' = [requests EXCEPT ![q] = Sent(b, FALSE, FALSE)]
        BY <1>11 DEF RemoveRow
    <3>2. Sent(b, FALSE, FALSE) \in Request BY IsSent
    <3>3. QED BY <3>1, <3>2
  <2>2. QED BY <1>11, <2>1 DEF RemoveRow
<1>12. ASSUME NEW q \in Req, Serve(q)
       PROVE  Shapes'
  <2>1. requests[q] \in Request /\ requests[q].book \in Book
      BY <1>12 DEF Serve
  <2>2. requests' \in [Req -> Request \cup {None}]
    <3>1. [requests[q] EXCEPT !.served = TRUE] \in Request
        BY <2>1, IsServed
    <3>2. requests' = [requests EXCEPT ![q] =
                          [requests[q] EXCEPT !.served = TRUE]]
        BY <1>12 DEF Serve
    <3>3. QED BY <3>1, <3>2
  <2>3. QED BY <1>12, <2>1, <2>2 DEF Serve, withMembership
<1>13. ASSUME NEW q \in Req, Succeed(q)
       PROVE  Shapes'
  <2>1. requests' \in [Req -> Request \cup {None}] BY <1>13 DEF Succeed
  <2>2. detail' \in Detail
      BY <1>13 DEF Succeed, invalidateAfterMembership, Detail
  <2>3. QED
      BY <1>1, <1>13, <2>1, <2>2 DEF Succeed, invalidateAfterMembership
<1>14. ASSUME NEW q \in Req, FailRequest(q)
       PROVE  Shapes'
  <2>1. requests[q] \in Request /\ requests[q].book \in Book
        /\ requests[q].served \in BOOLEAN
      BY <1>14 DEF FailRequest
  <2>2. requests' \in [Req -> Request \cup {None}] BY <1>14 DEF FailRequest
  <2>3. QED
      BY <1>14, <2>1, <2>2 DEF FailRequest, rollBack, withMembership
<1>15. CASE Prefetch \/ Reconnect BY <1>1, <1>15 DEF Prefetch, Reconnect
<1>16. CASE UNCHANGED vars BY <1>16 DEF vars
<1>17. QED
    BY <1>3, <1>4, <1>5, <1>6, <1>7, <1>8, <1>9, <1>10, <1>11, <1>12, <1>13,
       <1>14, <1>15, <1>16 DEF Next

-----------------------------------------------------------------------------
(* What the steps that answer or serve a request do to the requests.         *)
LEMMA ServeRequests ==
    ASSUME Shapes, NEW q \in Req, Serve(q)
    PROVE  /\ requests[q] \in Request /\ requests'[q] \in Request
           /\ requests'[q].book = requests[q].book
           /\ requests'[q].add = requests[q].add
           /\ requests'[q].rolls = requests[q].rolls
           /\ ~requests[q].served /\ requests'[q].served
           /\ \A p \in Req \ {q} : requests'[p] = requests[p]
<1>1. requests[q] \in Request BY DEF Serve, Shapes
<1>2. requests' = [requests EXCEPT ![q] = [requests[q] EXCEPT !.served = TRUE]]
    BY DEF Serve
<1>3. requests'[q] = [requests[q] EXCEPT !.served = TRUE]
    BY <1>2 DEF Shapes
<1>4. \A p \in Req \ {q} : requests'[p] = requests[p] BY <1>2 DEF Shapes
<1>5. QED BY <1>1, <1>3, <1>4, IsServed DEF Serve

LEMMA AnswerRequests ==
    ASSUME Shapes, NEW q \in Req, Succeed(q) \/ FailRequest(q)
    PROVE  /\ requests[q] \in Request /\ requests'[q] = None
           /\ \A p \in Req \ {q} : requests'[p] = requests[p]
           /\ Mounted' = Mounted
BY DEF Shapes, Succeed, FailRequest, Mounted, hasData, Detail,
       invalidateAfterMembership

LEMMA RemoveRequests ==
    ASSUME Shapes, NEW b \in Book, RemoveRow(b)
    PROVE  \E q \in Req :
             /\ requests[q] = None
             /\ requests'[q] = Sent(b, FALSE, FALSE)
             /\ requests'[q] # None /\ ~requests'[q].rolls
             /\ ~requests'[q].served
             /\ \A p \in Req \ {q} : requests'[p] = requests[p]
<1>1. PICK q \in Req :
        /\ requests[q] = None
        /\ requests' = [requests EXCEPT ![q] = Sent(b, FALSE, FALSE)]
    BY DEF RemoveRow
<1>2. requests'[q] = Sent(b, FALSE, FALSE)
      /\ \A p \in Req \ {q} : requests'[p] = requests[p]
    BY <1>1 DEF Shapes
<1>3. Sent(b, FALSE, FALSE) \in Request BY DEF Sent, Request
<1>4. ~Sent(b, FALSE, FALSE).rolls /\ ~Sent(b, FALSE, FALSE).served
    BY DEF Sent
<1>5. QED BY <1>1, <1>2, <1>3, <1>4, SlotTypes

(* The detail on its way and the visitor's moves leave the requests alone,   *)
(* and never take a control off the screen that they do not unmount.         *)
LEMMA QuietSteps ==
    ASSUME Shapes, \/ Open \/ SignIn \/ Prefetch \/ Reconnect
                   \/ ServeDetail \/ ReceiveDetail \/ FailDetail
                   \/ UNCHANGED vars
    PROVE  requests' = requests /\ member' = member /\ (Mounted => Mounted')
BY DEF Open, SignIn, Prefetch, Reconnect, ServeDetail, ReceiveDetail,
       FailDetail, vars, Mounted, hasData, Shapes, Detail

-----------------------------------------------------------------------------
LEMMA RollsStep ==
    ASSUME Shapes, RollsBackOnce, [Next]_vars
    PROVE  RollsBackOnce'
<1> USE DEF RollsBackOnce
<1>1. CASE \/ Open \/ SignIn \/ Prefetch \/ Reconnect \/ ServeDetail
           \/ ReceiveDetail \/ FailDetail \/ UNCHANGED vars
    BY <1>1, QuietSteps
<1>2. CASE Leave \/ SignOut
  <2>1. \A q \in Req : requests'[q] # None => ~requests'[q].rolls
      BY <1>2, UnmountRequests DEF Leave, SignOut
  <2>2. QED BY <2>1
<1>3. ASSUME NEW b \in Book, toggle(b)
      PROVE  RollsBackOnce'
  <2>1. PICK q \in Req :
          /\ requests[q] = None
          /\ requests'[q] = Sent(b, b \notin checked, TRUE)
          /\ \A p \in Req \ {q} :
              /\ requests[p] = None <=> requests'[p] = None
              /\ requests[p] # None =>
                  /\ requests'[p].add = requests[p].add
                  /\ requests'[p].rolls <=>
                        requests[p].rolls
                        /\ requests[p].add # (b \notin checked)
      BY <1>3, ToggleRequests
  <2>2. requests'[q].add = (b \notin checked) BY <2>1 DEF Sent
  <2>3. Mounted /\ Mounted' BY <1>3 DEF toggle, Mounted, hasData
  <2>4. ASSUME NEW p1 \in Req, NEW p2 \in Req, p1 # p2,
               requests'[p1] # None, requests'[p2] # None,
               requests'[p1].rolls, requests'[p2].rolls
        PROVE  requests'[p1].add # requests'[p2].add
    <3>1. CASE p1 = q BY <2>1, <2>2, <2>4, <3>1
    <3>2. CASE p2 = q BY <2>1, <2>2, <2>4, <3>2
    <3>3. CASE p1 # q /\ p2 # q BY <2>1, <2>4, <3>3
    <3>4. QED BY <3>1, <3>2, <3>3
  <2>5. QED BY <2>3, <2>4
<1>4. ASSUME NEW b \in Book, RemoveRow(b)
      PROVE  RollsBackOnce'
  <2>1. Mounted' = Mounted BY <1>4 DEF RemoveRow, Mounted, hasData
  <2>2. PICK q \in Req :
          /\ ~requests'[q].rolls
          /\ \A p \in Req \ {q} : requests'[p] = requests[p]
      BY <1>4, RemoveRequests
  <2>3. QED BY <2>1, <2>2
<1>5. ASSUME NEW q \in Req, Serve(q)
      PROVE  RollsBackOnce'
  <2>1. Mounted' = Mounted BY <1>5 DEF Serve, Mounted, hasData
  <2>2. QED BY <1>5, <2>1, ServeRequests, SlotTypes
<1>6. ASSUME NEW q \in Req, Succeed(q) \/ FailRequest(q)
      PROVE  RollsBackOnce'
    BY <1>6, AnswerRequests
<1>7. QED BY <1>1, <1>2, <1>3, <1>4, <1>5, <1>6 DEF Next

LEMMA NoneTrustedStep ==
    ASSUME Shapes, NoneTrusted, [Next]_vars
    PROVE  NoneTrusted'
<1> USE DEF NoneTrusted
<1>1. CASE Open BY <1>1 DEF Open, Mounted, hasData
<1>2. CASE Leave \/ SignOut BY <1>2 DEF Leave, SignOut, Unmount
<1>3. CASE \/ SignIn \/ Prefetch \/ Reconnect \/ ServeDetail \/ FailDetail
           \/ UNCHANGED vars
    BY <1>3
    DEF SignIn, Prefetch, Reconnect, ServeDetail, FailDetail, vars, Mounted,
        hasData, Shapes, Detail
<1>4. CASE ReceiveDetail BY <1>4 DEF ReceiveDetail, Mounted, hasData
<1>5. ASSUME NEW b \in Book, toggle(b) \/ RemoveRow(b)
      PROVE  NoneTrusted'
    BY <1>5 DEF toggle, RemoveRow, Mounted, hasData
<1>6. ASSUME NEW q \in Req, Serve(q)
      PROVE  NoneTrusted'
    BY <1>6 DEF Serve, Mounted, hasData
<1>7. ASSUME NEW q \in Req, Succeed(q) \/ FailRequest(q)
      PROVE  NoneTrusted'
    BY <1>7, AnswerRequests DEF Succeed, FailRequest
<1>8. QED BY <1>1, <1>2, <1>3, <1>4, <1>5, <1>6, <1>7 DEF Next

-----------------------------------------------------------------------------
(* The state of one box: what TrustedRight says of it.                       *)
Right(b) ==
    /\ \A p, q \in UnderWay(b) : p = q
    /\ UnderWay(b) = {} => (b \in checked <=> b \in member)
    /\ \A q \in UnderWay(b) :
        /\ b \in checked <=> requests[q].add
        /\ b \in member <=> (requests[q].add <=> requests[q].served)

LEMMA TrustedMeansRight == TrustedRight <=> \A b \in trusted : Right(b)
BY DEF TrustedRight, Right

LEMMA RightMeansTrusted ==
    ASSUME \A b \in trusted' : Right(b)'
    PROVE  TrustedRight'
BY DEF TrustedRight, Right

(* A box whose requests, place and memberships are left alone stays right.   *)
LEMMA SameBox ==
    ASSUME NEW b, Right(b),
           \A q \in Req :
              /\ (requests'[q] # None /\ requests'[q].book = b)
                    <=> (requests[q] # None /\ requests[q].book = b)
              /\ requests[q] # None /\ requests[q].book = b =>
                    /\ requests'[q].add = requests[q].add
                    /\ requests'[q].served = requests[q].served,
           b \in checked' <=> b \in checked, b \in member' <=> b \in member
    PROVE  Right(b)'
<1>1. UnderWay(b)' = UnderWay(b) BY DEF UnderWay
<1>2. \A q \in UnderWay(b) : /\ requests'[q].add = requests[q].add
                             /\ requests'[q].served = requests[q].served
    BY DEF UnderWay
<1>3. QED BY <1>1, <1>2 DEF Right

(* Whatever is mounted, only the boxes that are right then are relied on.    *)
LEMMA MountIsRight ==
    ASSUME NEW memberships, Mount(memberships), requests' = requests,
           member' = member
    PROVE  TrustedRight'
<1>1. ASSUME NEW b \in trusted'
      PROVE  Right(b)'
  <2>1. UnderWay(b) = {} /\ (b \in memberships <=> b \in member)
      BY <1>1 DEF Mount
  <2>2. UnderWay(b)' = {} BY <2>1 DEF UnderWay
  <2>3. QED BY <2>1, <2>2 DEF Mount, Right
<1>2. QED BY <1>1, RightMeansTrusted

(* A click on a box that is right, and the first since it is, keeps it so.   *)
LEMMA ToggleRight ==
    ASSUME Shapes, TrustedRight, NEW b \in Book, toggle(b)
    PROVE  TrustedRight'
<1>1. PICK q \in Req :
        /\ requests[q] = None
        /\ requests'[q] = Sent(b, b \notin checked, TRUE)
        /\ \A p \in Req \ {q} :
            /\ requests[p] = None <=> requests'[p] = None
            /\ requests[p] # None =>
                /\ requests'[p].book = requests[p].book
                /\ requests'[p].add = requests[p].add
                /\ requests'[p].served = requests[p].served
    BY ToggleRequests
<1>2. requests'[q].book = b /\ requests'[q].add = (b \notin checked)
      /\ ~requests'[q].served
    BY <1>1 DEF Sent
<1>3. requests'[q] # None
  <2>1. Sent(b, b \notin checked, TRUE) \in Request BY DEF Sent, Request
  <2>2. QED BY <1>1, <2>1, SlotTypes
<1>4. /\ checked' = withMembership(checked, b, b \notin checked)
      /\ trusted' = IF UnderWay(b) = {} THEN trusted ELSE trusted \ {b}
      /\ member' = member
    BY DEF toggle
<1>5. ASSUME NEW c \in trusted', c # b
      PROVE  Right(c)'
  <2>1. Right(c) BY <1>4, <1>5, TrustedMeansRight
  <2>2. c \in checked' <=> c \in checked BY <1>4, <1>5 DEF withMembership
  <2>3. QED BY <1>1, <1>2, <1>4, <1>5, <2>1, <2>2, SameBox
<1>6. ASSUME b \in trusted'
      PROVE  Right(b)'
  <2>1. UnderWay(b) = {} /\ Right(b) BY <1>4, <1>6, TrustedMeansRight
  <2>2. UnderWay(b)' = {q}
    <3>1. \A p \in Req : requests[p] # None => requests[p].book # b
        BY <2>1 DEF UnderWay
    <3>2. QED BY <1>1, <1>2, <1>3, <3>1 DEF UnderWay
  <2>3. b \in checked <=> b \in member BY <2>1 DEF Right
  <2>4. b \in checked' <=> b \notin checked BY <1>4 DEF withMembership
  <2>5. QED BY <1>2, <1>4, <2>2, <2>3, <2>4 DEF Right
<1>7. QED BY <1>5, <1>6, RightMeansTrusted

LEMMA ServeRight ==
    ASSUME Shapes, TrustedRight, NEW q \in Req, Serve(q)
    PROVE  TrustedRight'
<1>0. PICK b : b = requests[q].book OBVIOUS
<1>1. /\ requests[q] \in Request /\ requests'[q] \in Request
      /\ requests'[q].book = b /\ requests'[q].add = requests[q].add
      /\ requests'[q].served
      /\ \A p \in Req \ {q} : requests'[p] = requests[p]
    BY <1>0, ServeRequests
<1>2. /\ member' = withMembership(member, b, requests[q].add)
      /\ checked' = checked /\ trusted' = trusted
    BY <1>0 DEF Serve
<1>3. ASSUME NEW c \in trusted, c # b
      PROVE  Right(c)'
  <2>1. Right(c) BY TrustedMeansRight
  <2>2. c \in member' <=> c \in member BY <1>2, <1>3 DEF withMembership
  <2>3. QED BY <1>0, <1>1, <1>2, <1>3, <2>1, <2>2, SameBox, SlotTypes
<1>4. ASSUME b \in trusted
      PROVE  Right(b)'
  <2>1. Right(b) BY <1>4, TrustedMeansRight
  <2>2. UnderWay(b)' = UnderWay(b) BY <1>0, <1>1, SlotTypes DEF UnderWay
  <2>3. q \in UnderWay(b) BY <1>0, <1>1, SlotTypes DEF UnderWay
  <2>4. \A p \in UnderWay(b) : p = q BY <2>1, <2>3 DEF Right
  <2>5. b \in checked <=> requests[q].add BY <2>1, <2>3 DEF Right
  <2>6. b \in member' <=> requests[q].add BY <1>2 DEF withMembership
  <2>7. QED BY <1>1, <1>2, <2>2, <2>3, <2>4, <2>5, <2>6 DEF Right
<1>5. QED BY <1>2, <1>3, <1>4, RightMeansTrusted

(* An answer leaves the box as the database has it, or is not relied on.     *)
LEMMA AnswerRight ==
    ASSUME Shapes, TrustedRight, NEW q \in Req, Succeed(q) \/ FailRequest(q)
    PROVE  TrustedRight'
<1>0. PICK r, b : r = requests[q] /\ b = requests[q].book OBVIOUS
<1>1. /\ r \in Request /\ r # None /\ requests'[q] = None
      /\ \A p \in Req \ {q} : requests'[p] = requests[p]
    BY <1>0, AnswerRequests, SlotTypes
<1>2. trusted' \subseteq trusted /\ member' = member
    BY DEF Succeed, FailRequest
<1>3. ASSUME NEW c \in trusted', c # b
      PROVE  Right(c)'
  <2>1. Right(c) BY <1>2, <1>3, TrustedMeansRight
  <2>2. c \in checked' <=> c \in checked
      BY <1>0, <1>3 DEF Succeed, FailRequest, rollBack, withMembership
  <2>3. QED BY <1>0, <1>1, <1>2, <1>3, <2>1, <2>2, SameBox
<1>4. ASSUME b \in trusted'
      PROVE  Right(b)'
  <2>1. Right(b) /\ b \in trusted BY <1>2, <1>4, TrustedMeansRight
  <2>2. q \in UnderWay(b) BY <1>0, <1>1 DEF UnderWay
  <2>3. UnderWay(b)' = {}
    <3>1. \A p \in UnderWay(b) : p = q BY <2>1, <2>2 DEF Right
    <3>2. QED BY <1>1, <3>1 DEF UnderWay
  <2>4. /\ b \in checked <=> r.add
        /\ b \in member <=> (r.add <=> r.served)
      BY <1>0, <2>1, <2>2 DEF Right
  <2>5. CASE Succeed(q)
    <3>1. r.served /\ checked' = checked BY <1>0, <2>5 DEF Succeed
    <3>2. b \in checked' <=> b \in member' BY <1>2, <2>4, <3>1
    <3>3. QED BY <2>3, <3>2 DEF Right
  <2>6. CASE FailRequest(q)
    <3>1. r.rolls /\ ~r.served BY <1>0, <1>4, <2>6 DEF FailRequest
    <3>2. checked' = withMembership(checked, b, ~r.add)
        BY <1>0, <2>6, <3>1 DEF FailRequest, rollBack
    <3>3. b \in checked' <=> ~r.add BY <3>2 DEF withMembership
    <3>4. b \in checked' <=> b \in member' BY <1>2, <2>4, <3>1, <3>3
    <3>5. QED BY <2>3, <3>4 DEF Right
  <2>7. QED BY <2>5, <2>6
<1>5. QED BY <1>3, <1>4, RightMeansTrusted

LEMMA TrustedStep ==
    ASSUME Shapes, NoneTrusted, TrustedRight, [Next]_vars
    PROVE  TrustedRight'
<1>1. ASSUME UNCHANGED <<requests, member, checked, trusted>>
      PROVE  TrustedRight'
    BY <1>1 DEF TrustedRight, UnderWay
<1>2. CASE Open BY <1>1, <1>2, MountIsRight DEF Open
<1>3. CASE ReceiveDetail
  <2>1. requests' = requests /\ member' = member BY <1>3 DEF ReceiveDetail
  <2>2. QED BY <1>1, <1>3, <2>1, MountIsRight DEF ReceiveDetail
<1>4. CASE Leave \/ SignOut
    BY <1>4 DEF Leave, SignOut, Unmount, TrustedRight
<1>5. CASE \/ SignIn \/ Prefetch \/ Reconnect \/ ServeDetail \/ FailDetail
           \/ UNCHANGED vars
    BY <1>1, <1>5 DEF SignIn, Prefetch, Reconnect, ServeDetail, FailDetail, vars
<1>6. ASSUME NEW b \in Book, RemoveRow(b)
      PROVE  TrustedRight'
    BY <1>6 DEF RemoveRow, NoneTrusted, Mounted, TrustedRight
<1>7. QED
    BY <1>2, <1>3, <1>4, <1>5, <1>6, ToggleRight, ServeRight, AnswerRight
    DEF Next

-----------------------------------------------------------------------------
(* A step that adds no served request leaves NoneServed as it was.           *)
ServedStay ==
    \A q \in Req : requests[q] # None /\ requests[q].served =>
                      requests'[q] # None /\ requests'[q].served

LEMMA ServedKept ==
    ASSUME NoneServed', ServedStay
    PROVE  NoneServed
BY DEF NoneServed, ServedStay

LEMMA NewFetchFields == Shapes => NewFetch \in Fetch /\ ~NewFetch.served
BY DEF Shapes, NewFetch, Fetch

LEMMA FreshStep ==
    ASSUME Shapes, FreshRight, [Next]_vars
    PROVE  FreshRight'
<1>1. CASE Open \/ Prefetch \/ Reconnect
  <2>1. UNCHANGED <<member, detail, requests>>
      BY <1>1 DEF Open, Prefetch, Reconnect
  <2>2. \/ fetch' = NewFetch /\ (~hasData \/ detail.stale)
        \/ UNCHANGED <<fetch, unsure>>
      BY <1>1 DEF Open, Prefetch, Reconnect, MayLoad
  <2>3. ~hasData \/ detail.stale => ~(detail.data = "own" /\ ~detail.stale)
      BY DEF hasData
  <2>4. QED
      BY <2>1, <2>2, <2>3, NewFetchFields, SlotTypes
      DEF FreshRight, NoneServed
<1>2. ASSUME \/ Leave \/ SignOut \/ \E b \in Book : toggle(b) \/ RemoveRow(b)
      PROVE  FreshRight'
  <2>1. UNCHANGED <<member, detail, fetch, unsure>>
      BY <1>2 DEF Leave, SignOut, toggle, RemoveRow
  <2>2. ServedStay
    <3>1. CASE Leave \/ SignOut
        BY <3>1, UnmountRequests DEF Leave, SignOut, ServedStay
    <3>2. ASSUME NEW b \in Book, toggle(b)
          PROVE  ServedStay
      <4>1. PICK q \in Req :
              /\ requests[q] = None
              /\ \A p \in Req \ {q} :
                  /\ requests[p] = None <=> requests'[p] = None
                  /\ requests[p] # None =>
                        requests'[p].served = requests[p].served
          BY <3>2, ToggleRequests
      <4>2. QED BY <4>1 DEF ServedStay
    <3>3. ASSUME NEW b \in Book, RemoveRow(b)
          PROVE  ServedStay
      <4>1. PICK q \in Req :
              /\ requests[q] = None
              /\ \A p \in Req \ {q} : requests'[p] = requests[p]
          BY <3>3, RemoveRequests
      <4>2. QED BY <4>1 DEF ServedStay
    <3>4. QED BY <1>2, <3>1, <3>2, <3>3
  <2>3. QED BY <2>1, <2>2, ServedKept DEF FreshRight
<1>3. CASE SignIn \/ UNCHANGED vars
    BY <1>3 DEF SignIn, vars, FreshRight, NoneServed
<1>4. CASE ServeDetail
  <2>1. /\ fetch \in Fetch /\ ~fetch.served
        /\ fetch' = [fetch EXCEPT !.served = TRUE,
                                  !.in = IF fetch.own THEN member ELSE {}]
      BY <1>4 DEF ServeDetail, Shapes
  <2>2. fetch'.own = fetch.own /\ (fetch.own => fetch'.in = member)
        /\ fetch' # None
      BY <2>1, SlotTypes DEF Fetch, Shapes
  <2>3. QED BY <1>4, <2>2 DEF ServeDetail, FreshRight
<1>5. CASE ReceiveDetail
  <2>1. detail' = [data |-> IF fetch.own THEN "own" ELSE "anonymous",
                   in |-> fetch.in, stale |-> FALSE]
        /\ fetch # None /\ fetch.served /\ fetch' = None
        /\ UNCHANGED <<member, requests, unsure>>
      BY <1>5 DEF ReceiveDetail
  <2>2. detail'.data = "own" => fetch.own BY <2>1
  <2>3. detail'.in = fetch.in BY <2>1
  <2>4. QED BY <2>1, <2>2, <2>3 DEF FreshRight, NoneServed
<1>6. CASE FailDetail
  <2>1. detail'.stale /\ fetch' = None
      BY <1>6 DEF FailDetail, Shapes, Detail
  <2>2. QED BY <2>1 DEF FreshRight
<1>7. ASSUME NEW q \in Req, Serve(q)
      PROVE  FreshRight'
    BY <1>7, ServeRequests, SlotTypes DEF FreshRight, NoneServed
<1>8. ASSUME NEW q \in Req, Succeed(q)
      PROVE  FreshRight'
  <2>1. detail'.stale BY <1>8 DEF Succeed, invalidateAfterMembership, Shapes,
                                  Detail
  <2>2. unsure' \/ fetch' = None \/ ~fetch'.served
      BY <1>8, NewFetchFields DEF Succeed, invalidateAfterMembership
  <2>3. QED BY <2>1, <2>2 DEF FreshRight
<1>9. ASSUME NEW q \in Req, FailRequest(q), ~unsure'
      PROVE  FreshRight'
  <2>1. ~requests[q].served /\ ~unsure BY <1>9 DEF FailRequest
  <2>2. \A p \in Req \ {q} : requests'[p] = requests[p]
      BY <1>9, AnswerRequests
  <2>3. NoneServed' => NoneServed BY <2>1, <2>2 DEF NoneServed
  <2>4. QED BY <1>9, <2>1, <2>3 DEF FailRequest, FreshRight
<1>10. CASE unsure' BY <1>10 DEF FreshRight
<1>11. QED
    BY <1>1, <1>2, <1>3, <1>4, <1>5, <1>6, <1>7, <1>8, <1>9, <1>10 DEF Next

-----------------------------------------------------------------------------
LEMMA InvStep == IInv /\ [Next]_vars => IInv'
<1> SUFFICES ASSUME IInv, [Next]_vars PROVE IInv'
    OBVIOUS
<1>1. Shapes /\ RollsBackOnce BY DEF IInv, TypeOK
<1>2. TypeOK' BY <1>1, ShapesStep, RollsStep DEF TypeOK
<1>3. NoneTrusted' /\ TrustedRight' /\ FreshRight'
    BY <1>1, NoneTrustedStep, TrustedStep, FreshStep DEF IInv
<1>4. QED BY <1>2, <1>3 DEF IInv

LEMMA Invariance == Spec => []IInv
BY InitHolds, InvStep, PTL DEF Spec

(* Every reachable state has its shape, and at most one request of each kind *)
(* rolls back.                                                               *)
THEOREM TypeCorrect == Spec => []TypeOK
<1>1. IInv => TypeOK BY DEF IInv
<1>2. QED BY <1>1, Invariance, PTL

(* However the requests of the boxes interleave and fail, a box that was     *)
(* right when it was mounted is right once nothing is under way for it, as   *)
(* long as it stays trusted: it was not clicked again before the answer, its *)
(* roll-back was not given up for a later request, and no answer of it was   *)
(* lost.  After one of these the code may leave it wrong, and nothing is     *)
(* said of it here (add-to-book-control.tsx:86).                             *)
THEOREM BoxesStayRight == Spec => []BoxesAgree
<1>1. IInv => BoxesAgree BY DEF IInv, TrustedRight, BoxesAgree
<1>2. QED BY <1>1, Invariance, PTL

(* With nothing under way, a detail that counts as fresh and is not unsure   *)
(* has the memberships of the database.  It is unsure, and nothing is said   *)
(* of it, after an answer was lost, or after a request succeeded while the   *)
(* detail was being loaded for the first time or out of view, until it is    *)
(* loaded anew (content-membership.ts:43).                                   *)
THEOREM FreshDetailIsRight == Spec => []FreshDetailAgrees
<1>1. IInv => FreshDetailAgrees
    BY DEF IInv, FreshRight, NoneServed, FreshDetailAgrees
<1>2. QED BY <1>1, Invariance, PTL
=============================================================================
