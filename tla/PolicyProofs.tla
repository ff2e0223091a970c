---------------------------- MODULE PolicyProofs ----------------------------
(* Sharing implements AccessPolicy: every step of every handler is one       *)
(* permitted step of the policy, or changes nothing the policy sees, for any *)
(* pools of ids and any number of concurrent requests.  The second half says *)
(* whose request each change of access, membership, invites and contents is. *)
EXTENDS SharingProofs

-----------------------------------------------------------------------------
(* What a request that is under way has of arguments, and of checks it has   *)
(* passed, beyond IInv.                                                      *)

ArgsTyped(q) ==
    /\ q.op \in CampaignOps => q.camp \in Campaign
    /\ q.op \in BookOps => q.book \in Book
    /\ q.op \in HandleOps => q.who \in User
    /\ q.op \in InviteOps => q.inv \in Invite

EditOps == {"update_book", "delete_book", "add_content", "remove_content"}

(* A request that edits a book has seen that somebody owns it.               *)
EditsOwned(q) ==
    q.op \in EditOps /\ q.at \in {"look", "write"} => bookOwner[q.book] # None

RequestsKnow == \A r \in Req : ArgsTyped(req[r]) /\ EditsOwned(req[r])

PInv == IInv /\ NoDanglingRows /\ RequestsKnow

(* A step of a handler leaves the arguments of its request alone.            *)
LEMMA AdvanceArgs ==
    ASSUME SlotsOK, NEW r \in Req, Advances(r), ArgsTyped(req[r])
    PROVE  ArgsTyped(req'[r])
<1>1. CASE \E s \in Stage : Goto(r, s)
  <2>1. PICK s \in Stage : req'[r] = [req[r] EXCEPT !.at = s]
      BY <1>1 DEF Goto, SlotsOK
  <2>2. QED BY <2>1 DEF ArgsTyped, SlotsOK, Request
<1>2. CASE \E s \in Status : Answer(r, s)
  <2>1. req'[r].op = None BY <1>2 DEF Answer, SlotsOK, Idle
  <2>2. None \notin CampaignOps \cup BookOps \cup HandleOps \cup InviteOps
      BY ConstantsAssumption DEF OpName, CampaignOps, HandleOps
  <2>3. QED BY <2>1, <2>2 DEF ArgsTyped
<1>3. ASSUME NEW i \in Invite,
             req' = [req EXCEPT ![r] = [@ EXCEPT !.at = "renew", !.inv = i]]
      PROVE  ArgsTyped(req'[r])
  <2>1. req'[r] = [req[r] EXCEPT !.at = "renew", !.inv = i]
      BY <1>3 DEF SlotsOK
  <2>2. QED BY <1>3, <2>1 DEF ArgsTyped, SlotsOK, Request
<1>4. QED BY <1>1, <1>2, <1>3 DEF Advances

(* A handler that edits a book goes on only with one that is owned.          *)
LEMMA EditsKept ==
    ASSUME TypeInv, NEW r \in Req, Handle(r), ArgsTyped(req[r]),
           EditsOwned(req[r])
    PROVE  EditsOwned(req[r])'
<1> USE DEF TypeInv
<1>1. OwnersKept BY HandleGrowth DEF Growth
<1>2. Advances(r) /\ ~At(r, "idle") BY HandleAdvances
<1>3. CASE \E s \in Status : Answer(r, s)
  <2>1. req'[r].at = "idle" BY <1>3 DEF Answer, SlotsOK, Idle
  <2>2. QED BY <2>1 DEF EditsOwned
<1>4. CASE req[r].op \in EditOps /\ \E s \in Stage : Goto(r, s)
  <2>1. PICK s \in Stage : Goto(r, s) BY <1>4
  <2>2. req'[r] = [req[r] EXCEPT !.at = s] BY <2>1 DEF Goto, SlotsOK
  <2>3. req'[r].op = req[r].op /\ req'[r].book = req[r].book
        /\ req'[r].at = s
      BY <2>2 DEF SlotsOK, Request
  <2>4. UpdateBook(r) \/ DeleteBook(r) \/ AddContent(r) \/ RemoveContent(r)
      BY <1>4
      DEF EditOps, Handle, CreateBook, UpdateBook, DeleteBook, AddContent,
          RemoveContent, CreateCampaign, UpdateCampaign, DeleteCampaign,
          EnableBook, DisableBook, InviteMember, RevokeInvite, RemoveMember,
          AcceptInvite, DeclineInvite, DeleteAccount
  <2>5. ASSUME NEW next, GetWritableBook(r, next), s \in {"look", "write"}
        PROVE  bookOwner[req[r].book] # None
    <3>1. CASE bookOwner[req[r].book] = req[r].user
        BY <1>2, <3>1, ConstantsAssumption DEF SlotsOK, ArgsOK
    <3>2. CASE \E status : Answer(r, status)
      <4>1. req'[r].at = "idle" BY <3>2 DEF Answer, SlotsOK, Idle
      <4>2. QED BY <2>3, <2>5, <4>1
    <3>3. QED BY <2>5, <3>1, <3>2 DEF GetWritableBook, Check
  <2>6. CASE At(r, "look") \/ At(r, "write")
      BY <1>1, <1>4, <2>3, <2>6
      DEF EditsOwned, At, OwnersKept, ArgsTyped, EditOps, BookOps
  <2>7. CASE ~At(r, "look") /\ ~At(r, "write") /\ s \in {"look", "write"}
    <3>1. \/ GetWritableBook(r, "write") \/ GetWritableBook(r, "look")
          \/ \E status : Answer(r, status)
        BY <2>4, <2>7
        DEF UpdateBook, DeleteBook, AddContent, RemoveContent, Look, At
    <3>2. ~\E status : Answer(r, status)
        BY <2>3, <2>7 DEF Answer, SlotsOK, Idle
    <3>3. bookOwner[req[r].book] # None BY <2>5, <2>7, <3>1, <3>2
    <3>4. QED
        BY <1>1, <1>4, <2>3, <3>3
        DEF EditsOwned, OwnersKept, ArgsTyped, EditOps, BookOps
  <2>8. CASE s \notin {"look", "write"} BY <2>3, <2>8 DEF EditsOwned
  <2>9. QED BY <2>6, <2>7, <2>8
<1>5. CASE req[r].op \notin EditOps
  <2>1. req'[r].op \notin EditOps
    <3>1. req'[r].op \in {req[r].op, None} BY <1>2, AdvanceOp
    <3>2. None \notin EditOps
        BY ConstantsAssumption DEF OpName, BookOps, EditOps
    <3>3. QED BY <1>5, <3>1, <3>2
  <2>2. QED BY <2>1 DEF EditsOwned
<1>6. ASSUME NEW i \in Invite,
             req' = [req EXCEPT ![r] = [@ EXCEPT !.at = "renew", !.inv = i]]
      PROVE  EditsOwned(req[r])'
  <2>1. req'[r].at = "renew" BY <1>6 DEF SlotsOK, Request
  <2>2. QED BY <2>1 DEF EditsOwned
<1>7. QED BY <1>2, <1>3, <1>4, <1>5, <1>6 DEF Advances

(* A request arrives with the arguments its operation takes, and unchecked.  *)
LEMMA ReceiveKnows ==
    ASSUME TypeInv, RequestsKnow, NEW r \in Req, Receive(r)
    PROVE  RequestsKnow'
<1>1. PICK op \in Op, u \in users :
        \E c \in Arg(op, CampaignOps, MintedCampaigns),
           b \in Arg(op, BookOps, MintedBooks \cup {SrdBook}),
           w \in Arg(op, HandleOps, User),
           i \in Arg(op, InviteOps, MintedInvites),
           x \in Arg(op, ContentOps, Content) :
             req' = [req EXCEPT ![r] = NewRequest(op, u, c, b, w, i, x)]
    BY DEF Receive
<1>2. PICK c \in Arg(op, CampaignOps, MintedCampaigns),
           b \in Arg(op, BookOps, MintedBooks \cup {SrdBook}),
           w \in Arg(op, HandleOps, User),
           i \in Arg(op, InviteOps, MintedInvites),
           x \in Arg(op, ContentOps, Content) :
             req' = [req EXCEPT ![r] = NewRequest(op, u, c, b, w, i, x)]
    BY <1>1
<1>3. req'[r] = NewRequest(op, u, c, b, w, i, x)
    BY <1>2 DEF TypeInv, SlotsOK
<1>4. ArgsTyped(req[r])'
  <2>1. /\ op \in CampaignOps => c \in Campaign
        /\ op \in BookOps => b \in Book
        /\ op \in HandleOps => w \in User
        /\ op \in InviteOps => i \in Invite
      BY ConstantsAssumption
      DEF Arg, MintedCampaigns, MintedBooks, MintedInvites
  <2>2. QED BY <1>3, <2>1 DEF ArgsTyped, NewRequest
<1>5. EditsOwned(req[r])'
  <2>1. op \in EditOps => FirstStage(op) = "book"
      BY DEF EditOps, FirstStage, CampaignOps
  <2>2. QED BY <1>3, <2>1 DEF EditsOwned, NewRequest
<1>6. ASSUME NEW q \in Req, q # r
      PROVE  ArgsTyped(req[q])' /\ EditsOwned(req[q])'
  <2>1. req'[q] = req[q] BY <1>2, <1>6 DEF TypeInv, SlotsOK
  <2>2. QED
      BY <2>1
      DEF RequestsKnow, ArgsTyped, EditsOwned, Receive, rows, owners
<1>7. QED BY <1>4, <1>5, <1>6 DEF RequestsKnow

LEMMA HandleKnows ==
    ASSUME TypeInv, RequestsKnow, NEW r \in Req, Handle(r)
    PROVE  RequestsKnow'
<1> USE DEF TypeInv
<1>1. OwnersKept BY HandleGrowth DEF Growth
<1>2. Advances(r) BY HandleAdvances
<1>3. ArgsTyped(req[r])' /\ EditsOwned(req[r])'
  <2>1. ArgsTyped(req[r]) /\ EditsOwned(req[r]) BY DEF RequestsKnow
  <2>2. ArgsTyped(req'[r]) BY <1>2, <2>1, AdvanceArgs
  <2>3. QED BY <2>1, <2>2, EditsKept DEF ArgsTyped
<1>4. ASSUME NEW q \in Req, q # r
      PROVE  ArgsTyped(req[q])' /\ EditsOwned(req[q])'
  <2>1. req'[q] = req[q]
      BY <1>2, <1>4 DEF Advances, Goto, Answer, SlotsOK
  <2>2. ArgsTyped(req[q]) /\ EditsOwned(req[q]) BY DEF RequestsKnow
  <2>3. QED
      BY <1>1, <2>1, <2>2
      DEF ArgsTyped, EditsOwned, OwnersKept, EditOps, BookOps
<1>5. QED BY <1>3, <1>4 DEF RequestsKnow

LEMMA KnowInit == Init => RequestsKnow
<1>1. None \notin CampaignOps \cup BookOps \cup HandleOps \cup InviteOps
    BY ConstantsAssumption DEF OpName, CampaignOps, HandleOps
<1>2. QED
    BY <1>1 DEF Init, RequestsKnow, ArgsTyped, EditsOwned, Idle

LEMMA KnowStep == TypeInv /\ RequestsKnow /\ [Next]_vars => RequestsKnow'
<1> SUFFICES ASSUME TypeInv, RequestsKnow, [Next]_vars PROVE RequestsKnow'
    OBVIOUS
<1>1. CASE Lapse \/ UNCHANGED vars
    BY <1>1
    DEF Lapse, vars, rows, owners, RequestsKnow, ArgsTyped, EditsOwned
<1>2. QED BY <1>1, ReceiveKnows, HandleKnows DEF Next

LEMMA PolicyInvariance == Spec => []PInv
<1>1. Spec => []RequestsKnow
  <2>1. IInv => TypeInv BY DEF IInv
  <2>2. QED BY <2>1, KnowInit, KnowStep, Invariance, PTL DEF Spec
<1>2. QED BY <1>1, Invariance, DeletionsCascade, PTL DEF PInv

-----------------------------------------------------------------------------
(* The steps, as the policy sees them.                                       *)

Permitted == [Policy!Next]_(Policy!vars)

LEMMA SameInvites ==
    ASSUME UNCHANGED <<invites, inviteCamp, inviteUser>>
    PROVE  Asked' = Asked /\ Pending' = Pending
BY DEF Asked, Pending, Pair, MintedInvites

(* A step that leaves the tables alone is not seen.                          *)
LEMMA Unseen ==
    ASSUME UNCHANGED rows
    PROVE  Permitted
<1>1. Asked' = Asked /\ Pending' = Pending
    BY SameInvites DEF rows, owners
<1>2. QED
    BY <1>1 DEF Permitted, Policy!vars, Policy!things, rows, owners, joins

(* A live invite is a pair of a live campaign and a live account.            *)
LEMMA LivePairs ==
    ASSUME PInv, NEW i \in invites
    PROVE  /\ i \in MintedInvites
           /\ inviteCamp[i] \in campaigns /\ inviteCamp[i] \in Campaign
           /\ inviteUser[i] \in users /\ inviteUser[i] \in User
           /\ Pair(i) \in Pending
BY DEF PInv, IInv, TypeInv, RowsOK, NoDanglingRows, LiveInvitesMinted,
       MintedInvites, Pending

LEMMA CascadeSeen ==
    ASSUME PInv, NEW us, NEW bs, NEW cs, DeleteRows(us, bs, cs)
    PROVE  Policy!Cascade(us, bs, cs)
<1>1. Asked' = Asked
    BY DEF DeleteRows, owners, Asked, Pair, MintedInvites
<1>2. Pending' = {p \in Pending : p[1] \in campaigns' /\ p[2] \in users'}
  <2>1. \A i \in Invite : Pair(i)' = Pair(i) /\ Pair(i)[1] = inviteCamp[i]
                          /\ Pair(i)[2] = inviteUser[i]
      BY DEF DeleteRows, owners, Pair
  <2>2. invites \subseteq Invite BY DEF PInv, IInv, TypeInv, RowsOK
  <2>3. QED BY <2>1, <2>2 DEF DeleteRows, Pending
<1>3. QED BY <1>1, <1>2 DEF DeleteRows, owners, Policy!Cascade

(* There is one invite per pair, so its deletion ends the pair's invite.     *)
LEMMA DeleteInviteSeen ==
    ASSUME PInv, NEW i \in Invite, DeleteInvite(i)
    PROVE  Permitted
<1>1. Asked' = Asked
    BY DEF DeleteInvite, owners, Asked, Pair, MintedInvites
<1>2. CASE i \in invites
  <2>1. \A j \in invites : Pair(j)' = Pair(j) /\ (Pair(j) = Pair(i) => j = i)
      BY <1>2 DEF DeleteInvite, owners, Pair, PInv, IInv, OneInvitePerPair
  <2>2. Pending' = Pending \ {Pair(i)}
      BY <2>1, <1>2 DEF Pending, DeleteInvite
  <2>3. Policy!EndInvite(inviteCamp[i], inviteUser[i])
      BY <1>1, <2>2
      DEF Policy!EndInvite, Policy!things, DeleteInvite, owners, joins, Pair
  <2>4. QED BY <1>2, <2>3, LivePairs DEF Permitted, Policy!Next
<1>3. CASE i \notin invites
  <2>1. invites' = invites BY <1>3 DEF DeleteInvite
  <2>2. Pending' = Pending BY <2>1, SameInvites DEF DeleteInvite, owners
  <2>3. QED
      BY <1>1, <2>2
      DEF Permitted, Policy!vars, Policy!things, DeleteInvite, owners, joins
<1>4. QED BY <1>2, <1>3

(* An insert that the constraints let through is an invite of somebody else. *)
LEMMA InsertInviteSeen ==
    ASSUME PInv, NEW r \in Req, req[r].op = "invite_member", InsertInvite(r)
    PROVE  Permitted
<1> DEFINE c == req[r].camp
           w == req[r].who
<1>1. CASE InviteInsertable(c, w) /\ InsertInviteRow(c, w)
  <2>1. PICK i \in Invite \ MintedInvites :
          /\ invites' = invites \cup {i}
          /\ inviteCamp' = [inviteCamp EXCEPT ![i] = c]
          /\ inviteUser' = [inviteUser EXCEPT ![i] = w]
      BY <1>1 DEF InsertInviteRow, AddInvite
  <2>2. c \in campaigns /\ c \in Campaign /\ w \in users /\ w \in User
        /\ <<c, w>> \notin Pending /\ c # None
      BY <1>1, ConstantsAssumption
      DEF InviteInsertable, PendingFor, Pending, Pair, PInv, IInv, TypeInv,
          RowsOK
  <2>3. w # campaignOwner[c]
      BY DEF InsertInvite, PInv, IInv, AllCleared, Cleared, InvitesOther, At
  <2>4. Pair(i)' = <<c, w>>
      BY <2>1 DEF Pair, PInv, IInv, TypeInv, RowsOK
  <2>5. \A j \in Invite : j # i => Pair(j)' = Pair(j)
      BY <2>1 DEF Pair, PInv, IInv, TypeInv, RowsOK
  <2>6. MintedInvites' = MintedInvites \cup {i}
      BY <2>1, <2>2 DEF MintedInvites, PInv, IInv, TypeInv, RowsOK
  <2>7. Asked' = Asked \cup {<<c, w>>}
      BY <2>1, <2>4, <2>5, <2>6 DEF Asked, MintedInvites
  <2>8. i \notin invites /\ invites \subseteq Invite
      BY <2>1, LivePairs DEF PInv, IInv, TypeInv, RowsOK
  <2>9. Pending' = Pending \cup {<<c, w>>}
      BY <2>1, <2>4, <2>5, <2>8 DEF Pending
  <2>10. Policy!Ask(c, w)
      BY <1>1, <2>2, <2>3, <2>7, <2>9
      DEF Policy!Ask, Policy!things, InsertInviteRow, AddInvite
  <2>11. QED BY <2>2, <2>10 DEF Permitted, Policy!Next
<1>2. QED BY <1>1, Unseen DEF InsertInvite

(* A join is by an account that was asked, in a campaign that is there.      *)
LEMMA JoinSeen ==
    ASSUME PInv, NEW r \in Req, req[r].op = "accept_invite", Join(r)
    PROVE  Permitted
<1> DEFINE i == req[r].inv
           c == inviteCamp[i]
           w == req[r].user
<1>1. CASE /\ c \in campaigns /\ w \in users /\ <<c, w>> \notin members
           /\ members' = members \cup {<<c, w>>}
           /\ invites' = invites \ {i}
           /\ UNCHANGED <<users, books, campaigns, owners, enabled, contents>>
  <2>1. i \in Invite /\ c # None /\ Pair(i) = <<c, w>>
      BY DEF Join, PInv, IInv, AllCleared, Cleared, IsInvitee, At, Pair
  <2>2. c \in Campaign /\ w \in User
      BY <1>1 DEF PInv, IInv, TypeInv, RowsOK
  <2>3. <<c, w>> \in Asked BY <2>1 DEF Asked, MintedInvites
  <2>4. Asked' = Asked BY <1>1 DEF owners, Asked, Pair, MintedInvites
  <2>5. Pending' \in {Pending, Pending \ {<<c, w>>}}
    <3>1. CASE i \in invites
      <4>1. \A j \in invites :
              Pair(j)' = Pair(j) /\ (Pair(j) = Pair(i) => j = i)
          BY <1>1, <3>1 DEF owners, Pair, PInv, IInv, OneInvitePerPair
      <4>2. QED BY <1>1, <2>1, <3>1, <4>1 DEF Pending
    <3>2. CASE i \notin invites
      <4>1. invites' = invites BY <1>1, <3>2
      <4>2. QED BY <1>1, <4>1, SameInvites DEF owners
    <3>3. QED BY <3>1, <3>2
  <2>6. Policy!Join(c, w)
      BY <1>1, <2>3, <2>4, <2>5 DEF Policy!Join, Policy!things, owners
  <2>7. QED BY <2>2, <2>6 DEF Permitted, Policy!Next
<1>2. QED BY <1>1, Unseen DEF Join

LEMMA HandleSeen ==
    ASSUME PInv, NEW r \in Req, Handle(r)
    PROVE  Permitted
<1> USE DEF PInv, IInv, TypeInv
<1> DEFINE q == req[r]
<1>1. /\ ArgsTyped(q) /\ EditsOwned(q)
      /\ ~At(r, "idle") /\ q.user \in User
    BY HandleAdvances DEF RequestsKnow, SlotsOK, ArgsOK
<1>2. ASSUME NEW next, \/ GetWritableCampaign(r, next)
                       \/ GetWritableBook(r, next) \/ GetOwnInvite(r, next)
      PROVE  Permitted
    BY <1>2, Unseen
    DEF GetWritableCampaign, GetWritableBook, GetOwnInvite, Check
<1>3. ASSUME NEW needed, Look(r, needed)
      PROVE  Permitted
    BY <1>3, Unseen DEF Look, Check
<1>4. CASE CreateBook(r)
  <2>1. ASSUME NEW b \in Book \ (MintedBooks \cup {SrdBook}), q.user \in users,
               books' = books \cup {b},
               bookOwner' = [bookOwner EXCEPT ![b] = q.user],
               UNCHANGED <<users, campaigns, invites, campaignOwner,
                           inviteCamp, inviteUser, joins>>
        PROVE  Permitted
    <3>1. Policy!CreateBook(q.user, b)
        BY <2>1, SameInvites
        DEF Policy!CreateBook, MintedBooks, joins
    <3>2. QED BY <1>1, <3>1 DEF Permitted, Policy!Next
  <2>2. QED BY <1>4, <2>1, Unseen DEF CreateBook
<1>5. CASE UpdateBook(r) BY <1>2, <1>5, Unseen DEF UpdateBook, Check
<1>6. CASE DeleteBook(r)
  <2>1. CASE At(r, "write") /\ DeleteRows({}, {q.book}, {})
    <3>1. q.book \in Book /\ bookOwner[q.book] # None
        BY <1>1, <1>6, <2>1
        DEF DeleteBook, ArgsTyped, EditsOwned, EditOps, BookOps, At
    <3>2. Policy!DeleteBook(q.book)
        BY <2>1, <3>1, CascadeSeen DEF Policy!DeleteBook
    <3>3. QED BY <3>1, <3>2 DEF Permitted, Policy!Next
  <2>2. QED BY <1>2, <1>6, <2>1 DEF DeleteBook
<1>7. CASE AddContent(r)
  <2>1. CASE /\ At(r, "write") /\ q.book \in books
             /\ contents' = contents \cup {<<q.book, q.item>>}
             /\ UNCHANGED <<users, books, campaigns, invites, lapsed, owners,
                            enabled, members>>
    <3>1. q.book \in Book /\ q.item \in Content /\ bookOwner[q.book] # None
        BY <1>1, <1>7, <2>1
        DEF AddContent, ArgsTyped, EditsOwned, EditOps, BookOps, At, SlotsOK,
            ArgsOK, ContentOps
    <3>2. Policy!AddContent(q.book, q.item)
        BY <2>1, <3>1, SameInvites
        DEF Policy!AddContent, Policy!Edit, Policy!things, owners
    <3>3. QED BY <3>1, <3>2 DEF Permitted, Policy!Next
  <2>2. QED BY <1>2, <1>3, <1>7, <2>1, Unseen DEF AddContent
<1>8. CASE RemoveContent(r)
  <2>1. CASE /\ At(r, "write")
             /\ contents' = contents \ {<<q.book, q.item>>}
             /\ UNCHANGED <<users, books, campaigns, invites, lapsed, owners,
                            enabled, members>>
    <3>1. q.book \in Book /\ q.item \in Content /\ bookOwner[q.book] # None
        BY <1>1, <1>8, <2>1
        DEF RemoveContent, ArgsTyped, EditsOwned, EditOps, BookOps, At,
            SlotsOK, ArgsOK, ContentOps
    <3>2. Policy!RemoveContent(q.book, q.item)
        BY <2>1, <3>1, SameInvites
        DEF Policy!RemoveContent, Policy!Edit, Policy!things, owners
    <3>3. QED BY <3>1, <3>2 DEF Permitted, Policy!Next
  <2>2. QED BY <1>2, <1>3, <1>8, <2>1 DEF RemoveContent
<1>9. CASE CreateCampaign(r)
  <2>1. ASSUME NEW c \in Campaign \ MintedCampaigns, q.user \in users,
               campaigns' = campaigns \cup {c},
               campaignOwner' = [campaignOwner EXCEPT ![c] = q.user],
               UNCHANGED <<users, books, invites, bookOwner, inviteCamp,
                           inviteUser, joins>>
        PROVE  Permitted
    <3>1. Policy!CreateCampaign(q.user, c)
        BY <2>1, SameInvites
        DEF Policy!CreateCampaign, MintedCampaigns, joins
    <3>2. QED BY <1>1, <3>1 DEF Permitted, Policy!Next
  <2>2. QED BY <1>9, <2>1, Unseen DEF CreateCampaign
<1>10. CASE UpdateCampaign(r) BY <1>2, <1>10, Unseen DEF UpdateCampaign, Check
<1>11. CASE DeleteCampaign(r)
  <2>1. CASE At(r, "write") /\ DeleteRows({}, {}, {q.camp})
    <3>1. q.camp \in Campaign
        BY <1>1, <1>11 DEF DeleteCampaign, ArgsTyped, CampaignOps
    <3>2. Policy!DeleteCampaign(q.camp)
        BY <2>1, CascadeSeen DEF Policy!DeleteCampaign
    <3>3. QED BY <3>1, <3>2 DEF Permitted, Policy!Next
  <2>2. QED BY <1>2, <1>11, <2>1 DEF DeleteCampaign
<1>12. CASE EnableBook(r)
  <2>1. CASE At(r, "write") /\ q.camp \in campaigns /\ q.book \in books
             /\ InsertEnabled(q.camp, q.book)
    <3>1. OwnsCampaign(q) /\ OwnsBook(q)
        BY <1>12, <2>1 DEF EnableBook, AllCleared, Cleared, At
    <3>2. Policy!Share(q.camp, q.book)
        BY <2>1, <3>1, SameInvites, ConstantsAssumption
        DEF OwnsCampaign, OwnsBook, Policy!Share, Policy!things,
            InsertEnabled, owners
    <3>3. QED
        BY <3>1, <3>2 DEF OwnsCampaign, OwnsBook, Permitted, Policy!Next
  <2>2. QED BY <1>2, <1>3, <1>12, <2>1, Unseen DEF EnableBook
<1>13. CASE DisableBook(r)
  <2>1. CASE DeleteEnabled(q.camp, q.book)
    <3>1. q.camp \in Campaign /\ q.book \in Book
        BY <1>1, <1>13 DEF DisableBook, ArgsTyped, CampaignOps, BookOps
    <3>2. Policy!Unshare(q.camp, q.book)
        BY <2>1, SameInvites
        DEF Policy!Unshare, Policy!things, DeleteEnabled, owners
    <3>3. QED BY <3>1, <3>2 DEF Permitted, Policy!Next
  <2>2. QED BY <1>2, <1>3, <1>13, <2>1 DEF DisableBook
<1>14. CASE InviteMember(r)
  <2>1. CASE InsertInvite(r) BY <1>14, <2>1, InsertInviteSeen DEF InviteMember
  <2>2. CASE RenewInvite(r)
      BY <2>2, Unseen, SameInvites
      DEF RenewInvite, Permitted, Policy!vars, Policy!things, owners, joins
  <2>3. CASE ResolveInvitee(r) \/ FindExistingInvite(r)
      BY <2>3, Unseen DEF ResolveInvitee, FindExistingInvite, Check
  <2>4. QED
      BY <1>2, <1>14, <2>1, <2>2, <2>3, Unseen DEF InviteMember, Check
<1>15. CASE RevokeInvite(r)
  <2>1. q.inv \in Invite
      BY <1>1, <1>15 DEF RevokeInvite, ArgsTyped, InviteOps
  <2>2. QED BY <1>2, <1>3, <1>15, <2>1, DeleteInviteSeen DEF RevokeInvite
<1>16. CASE RemoveMember(r)
  <2>1. CASE DeleteMember(q.camp, q.who)
    <3>1. q.camp \in Campaign /\ q.who \in User
        BY <1>1, <1>16 DEF RemoveMember, ArgsTyped, CampaignOps, HandleOps
    <3>2. Policy!Part(q.camp, q.who)
        BY <2>1, SameInvites
        DEF Policy!Part, Policy!things, DeleteMember, owners
    <3>3. QED BY <3>1, <3>2 DEF Permitted, Policy!Next
  <2>2. CASE AuthorizeMemberRemoval(r)
      BY <2>2, Unseen DEF AuthorizeMemberRemoval, Check
  <2>3. QED BY <1>3, <1>16, <2>1, <2>2 DEF RemoveMember
<1>17. CASE AcceptInvite(r)
  <2>1. q.inv \in Invite
      BY <1>1, <1>17 DEF AcceptInvite, ArgsTyped, InviteOps
  <2>2. CASE Join(r) BY <1>17, <2>2, JoinSeen DEF AcceptInvite
  <2>3. QED
      BY <1>2, <1>17, <2>1, <2>2, Unseen, DeleteInviteSeen DEF AcceptInvite
<1>18. CASE DeclineInvite(r)
  <2>1. q.inv \in Invite
      BY <1>1, <1>18 DEF DeclineInvite, ArgsTyped, InviteOps
  <2>2. QED BY <1>2, <1>18, <2>1, DeleteInviteSeen DEF DeclineInvite
<1>19. CASE DeleteAccount(r)
  <2>1. Policy!DeleteAccount(q.user)
      BY <1>19, CascadeSeen DEF DeleteAccount, Policy!DeleteAccount
  <2>2. QED BY <1>1, <2>1 DEF Permitted, Policy!Next
<1>20. QED
    BY <1>4, <1>5, <1>6, <1>7, <1>8, <1>9, <1>10, <1>11, <1>12, <1>13, <1>14,
       <1>15, <1>16, <1>17, <1>18, <1>19 DEF Handle

(* The step simulation.                                                      *)
LEMMA StepSeen == PInv /\ [Next]_vars => Permitted
<1> SUFFICES ASSUME PInv, [Next]_vars PROVE Permitted
    OBVIOUS
<1>1. CASE Lapse
    BY <1>1, SameInvites
    DEF Lapse, Permitted, Policy!vars, Policy!things, owners, joins
<1>2. CASE \E r \in Req : Receive(r) BY <1>2, Unseen DEF Receive
<1>3. CASE UNCHANGED vars BY <1>3, Unseen DEF vars
<1>4. QED BY <1>1, <1>2, <1>3, HandleSeen DEF Next

LEMMA InitSeen == Init => Policy!Init
<1> SUFFICES ASSUME Init PROVE Policy!Init
    OBVIOUS
<1>1. Pending = {} BY DEF Init, Pending
<1>2. Asked = {} BY DEF Init, Asked, MintedInvites
<1>3. QED BY <1>1, <1>2 DEF Init, Policy!Init

(* However the statements of concurrent requests interleave, what the        *)
(* handlers do is what AccessPolicy permits (authz.py:59).                   *)
THEOREM PolicyIsImplemented == Spec => ImplementsPolicy
<1>1. PInv /\ [Next]_vars => [Policy!Next]_(Policy!vars)
    BY StepSeen DEF Permitted
<1>2. QED
    BY <1>1, InitSeen, PolicyInvariance, PTL
    DEF Spec, ImplementsPolicy, Policy!Spec
-----------------------------------------------------------------------------
(* Who a change is due to.  The four action properties below name, for each  *)
(* change of access, membership, invites and contents, the request it is the *)
(* success of.  They need what a request at a stage has been entitled to by  *)
(* the checks before it, and that its answer is still open.                  *)

(* What request q may rely on at stage s.                                    *)
Entitled(q, s) ==
    /\ q.op \in ContentOps /\ s \in {"look", "write"} => OwnsBook(q)
    /\ q.op = "delete_book" /\ s = "write" => OwnsBook(q)
    /\ q.op = "delete_campaign" /\ s = "write" => OwnsCampaign(q)
    /\ q.op = "revoke_invite" /\ s \in {"look", "write"} => OwnsCampaign(q)
    /\ q.op = "revoke_invite" /\ s = "write"
          => q.inv \in Invite /\ inviteCamp[q.inv] = q.camp
    /\ q.op = "accept_invite" /\ s \in {"member", "consume"} => IsInvitee(q)
    /\ q.op = "decline_invite" /\ s = "write" => IsInvitee(q)
    /\ q.op = "remove_member" /\ s \in {"look", "write"}
          => /\ q.camp \in Campaign /\ q.user \in User
             /\ campaignOwner[q.camp] # None
             /\ campaignOwner[q.camp] = q.user \/ q.who = q.user

AllEntitled == \A r \in Req : Entitled(req[r], req[r].at)

(* A request that is under way is one of the clients', and not yet answered. *)
Unanswered ==
    \A r \in Req : ~At(r, "idle") => req[r].op \in Op /\ answer[r] = "none"

DueInv == PInv /\ AllEntitled /\ Unanswered

(* An entitlement is to what was written once, so it lasts.                  *)
LEMMA EntitlementLasts ==
    ASSUME RowsOK, OwnersKept, NEW q, NEW s, Entitled(q, s)
    PROVE  Entitled(q, s)'
BY ConstantsAssumption
DEF Entitled, OwnsBook, OwnsCampaign, IsInvitee, OwnersKept, RowsOK

LEMMA MovedEntitled ==
    ASSUME TypeInv, NEW r \in Req, NEW s \in Stage, Goto(r, s), UNCHANGED rows,
           Entitled(req[r], s)
    PROVE  Entitled(req[r], req[r].at)'
<1>1. req'[r] = [req[r] EXCEPT !.at = s] BY DEF Goto, TypeInv, SlotsOK
<1>2. PICK p : p = req'[r] OBVIOUS
<1>3. /\ p.at = s /\ p.op = req[r].op /\ p.user = req[r].user
      /\ p.camp = req[r].camp /\ p.book = req[r].book /\ p.who = req[r].who
      /\ p.inv = req[r].inv
    BY <1>1, <1>2 DEF TypeInv, SlotsOK, Request
<1>4. Entitled(p, s)'
    BY <1>3 DEF Entitled, OwnsBook, OwnsCampaign, IsInvitee, rows, owners
<1>5. QED BY <1>2, <1>3, <1>4

LEMMA AnsweredEntitled ==
    ASSUME SlotsOK, NEW r \in Req, NEW status, Answer(r, status)
    PROVE  Entitled(req[r], req[r].at)'
<1>1. req'[r] = Idle BY DEF Answer, SlotsOK
<1>2. req'[r].at = "idle" BY <1>1 DEF Idle
<1>3. QED BY <1>2 DEF Entitled

(* A check that lets the request on entitles it to what the check read.      *)
LEMMA CheckEntitles ==
    ASSUME TypeInv, NEW r \in Req, NEW condition, NEW s \in Stage, NEW status,
           Check(r, condition, s, status), condition => Entitled(req[r], s)
    PROVE  Entitled(req[r], req[r].at)'
<1>1. CASE condition /\ Goto(r, s) BY <1>1, MovedEntitled DEF Check
<1>2. CASE Answer(r, status) BY <1>2, AnsweredEntitled DEF TypeInv
<1>3. QED BY <1>1, <1>2 DEF Check

(* The checks of the handlers, each with what it lets the request rely on.   *)
LEMMA BookEntitled ==
    ASSUME TypeInv, NEW r \in Req, Entitled(req[r], req[r].at),
           DeleteBook(r) \/ AddContent(r) \/ RemoveContent(r)
    PROVE  Entitled(req[r], req[r].at)'
<1> DEFINE q == req[r]
<1>1. q.op \in ContentOps \cup {"delete_book"}
    BY DEF DeleteBook, AddContent, RemoveContent, ContentOps
<1>2. ASSUME NEW s \in {"look", "write"}, GetWritableBook(r, s)
      PROVE  Entitled(q, q.at)'
  <2>1. q.user \in User BY <1>2 DEF GetWritableBook, At, TypeInv, SlotsOK, ArgsOK
  <2>2. CanReadBook(q.user, q.book) /\ bookOwner[q.book] = q.user => OwnsBook(q)
      BY <2>1 DEF CanReadBook, OwnsBook, TypeInv, RowsOK
  <2>3. OwnsBook(q) => Entitled(q, s) BY <1>1 DEF Entitled, ContentOps
  <2>4. s \in Stage BY DEF Stage
  <2>5. QED BY <1>2, <2>2, <2>3, <2>4, CheckEntitles DEF GetWritableBook
<1>3. ASSUME NEW needed, Look(r, needed), q.op \in ContentOps
      PROVE  Entitled(q, q.at)'
  <2>1. Entitled(q, "write") BY <1>3 DEF Entitled, Look, At, ContentOps
  <2>2. QED BY <1>3, <2>1, CheckEntitles DEF Look, Stage
<1>4. QED
    BY <1>2, <1>3, AnsweredEntitled
    DEF DeleteBook, AddContent, RemoveContent, ContentOps, TypeInv

LEMMA CampaignEntitled ==
    ASSUME TypeInv, NEW r \in Req, Entitled(req[r], req[r].at),
           DeleteCampaign(r) \/ RevokeInvite(r)
    PROVE  Entitled(req[r], req[r].at)'
<1> DEFINE q == req[r]
<1>1. ASSUME NEW s \in Stage, GetWritableCampaign(r, s),
             OwnsCampaign(q) => Entitled(q, s)
      PROVE  Entitled(q, q.at)'
  <2>1. q.user \in User
      BY <1>1 DEF GetWritableCampaign, At, TypeInv, SlotsOK, ArgsOK
  <2>2. CanReadCampaign(q.user, q.camp) /\ campaignOwner[q.camp] = q.user
          => OwnsCampaign(q)
      BY <2>1 DEF CanReadCampaign, OwnsCampaign, TypeInv, RowsOK
  <2>3. QED BY <1>1, <2>2, CheckEntitles DEF GetWritableCampaign
<1>2. CASE DeleteCampaign(r)
  <2>1. OwnsCampaign(q) => Entitled(q, "write")
      BY <1>2 DEF DeleteCampaign, Entitled, ContentOps
  <2>2. QED
      BY <1>1, <1>2, <2>1, AnsweredEntitled DEF DeleteCampaign, TypeInv, Stage
<1>3. CASE RevokeInvite(r)
  <2>1. OwnsCampaign(q) => Entitled(q, "look")
      BY <1>3 DEF RevokeInvite, Entitled, ContentOps
  <2>2. ASSUME Look(r, q.inv \in invites /\ inviteCamp[q.inv] = q.camp)
        PROVE  Entitled(q, q.at)'
    <3>1. OwnsCampaign(q) BY <1>3, <2>2 DEF RevokeInvite, Entitled, Look, At
    <3>2. q.inv \in invites /\ inviteCamp[q.inv] = q.camp => Entitled(q, "write")
        BY <1>3, <3>1
        DEF RevokeInvite, Entitled, ContentOps, TypeInv, RowsOK
    <3>3. QED BY <2>2, <3>2, CheckEntitles DEF Look, Stage
  <2>3. QED
      BY <1>1, <1>3, <2>1, <2>2, AnsweredEntitled
      DEF RevokeInvite, TypeInv, Stage
<1>4. QED BY <1>2, <1>3

LEMMA RemovalEntitled ==
    ASSUME TypeInv, NoDanglingRows, NEW r \in Req, Entitled(req[r], req[r].at),
           RemoveMember(r)
    PROVE  Entitled(req[r], req[r].at)'
<1> DEFINE q == req[r]
           allowed == campaignOwner[q.camp] = q.user \/ q.who = q.user
<1>1. q.op = "remove_member" BY DEF RemoveMember
<1>2. CASE AuthorizeMemberRemoval(r)
  <2>1. q.user \in User
      BY <1>2 DEF AuthorizeMemberRemoval, At, TypeInv, SlotsOK, ArgsOK
  <2>2. CanReadCampaign(q.user, q.camp)
          => q.camp \in Campaign /\ campaignOwner[q.camp] # None
      BY ConstantsAssumption
      DEF CanReadCampaign, NoDanglingRows, TypeInv, RowsOK
  <2>3. CanReadCampaign(q.user, q.camp) /\ allowed => Entitled(q, "look")
      BY <1>1, <2>1, <2>2 DEF Entitled, ContentOps
  <2>4. QED BY <1>2, <2>3, CheckEntitles DEF AuthorizeMemberRemoval, Stage
<1>3. ASSUME NEW needed, Look(r, needed)
      PROVE  Entitled(q, q.at)'
  <2>1. Entitled(q, "write") BY <1>1, <1>3 DEF Entitled, Look, At, ContentOps
  <2>2. QED BY <1>3, <2>1, CheckEntitles DEF Look, Stage
<1>4. QED BY <1>2, <1>3, AnsweredEntitled DEF RemoveMember, TypeInv

LEMMA InviteeEntitled ==
    ASSUME TypeInv, LiveInvitesMinted, NEW r \in Req,
           Entitled(req[r], req[r].at), AcceptInvite(r) \/ DeclineInvite(r)
    PROVE  Entitled(req[r], req[r].at)'
<1> DEFINE q == req[r]
<1>1. ASSUME NEW s \in {"member", "write"}, GetOwnInvite(r, s)
      PROVE  Entitled(q, q.at)'
  <2>1. q.user \in User BY <1>1 DEF GetOwnInvite, At, TypeInv, SlotsOK, ArgsOK
  <2>2. q.inv \in invites \ lapsed /\ inviteUser[q.inv] = q.user => IsInvitee(q)
      BY <2>1 DEF IsInvitee, LiveInvitesMinted, TypeInv, RowsOK
  <2>3. IsInvitee(q) => Entitled(q, s)
      BY DEF Entitled, AcceptInvite, DeclineInvite, ContentOps
  <2>4. QED BY <1>1, <2>2, <2>3, CheckEntitles DEF GetOwnInvite, Stage
<1>2. ASSUME AcceptInvite(r), At(r, "member"), UNCHANGED rows,
             NEW s \in {"consume", "write"}, Goto(r, s)
      PROVE  Entitled(q, q.at)'
  <2>1. Entitled(q, s) BY <1>2 DEF Entitled, AcceptInvite, At, ContentOps
  <2>2. QED BY <1>2, <2>1, MovedEntitled DEF Stage
<1>3. QED
    BY <1>1, <1>2, AnsweredEntitled
    DEF AcceptInvite, DeclineInvite, Join, TypeInv

(* Entitled says nothing of the other operations, nor of an idle slot.       *)
LEMMA OtherEntitled ==
    ASSUME SlotsOK, NEW r \in Req, Advances(r),
           req[r].op \notin ContentOps \cup {"delete_book", "delete_campaign",
               "revoke_invite", "remove_member", "accept_invite",
               "decline_invite"}
    PROVE  Entitled(req[r], req[r].at)'
<1>1. req'[r].op \in {req[r].op, None} BY AdvanceOp
<1>2. QED
    BY <1>1, ConstantsAssumption
    DEF Entitled, OpName, BookOps, CampaignOps, InviteOps, ContentOps

(* A request arrives at the first stage of an operation of the clients.      *)
LEMMA Arrives ==
    ASSUME SlotsOK, NEW r \in Req, Receive(r)
    PROVE  /\ req'[r].op \in Op /\ req'[r].at = FirstStage(req'[r].op)
           /\ answer'[r] = "none"
           /\ \A q \in Req \ {r} : req'[q] = req[q] /\ answer'[q] = answer[q]
<1>1. PICK op \in Op, u \in users :
        \E c \in Arg(op, CampaignOps, MintedCampaigns),
           b \in Arg(op, BookOps, MintedBooks \cup {SrdBook}),
           w \in Arg(op, HandleOps, User),
           i \in Arg(op, InviteOps, MintedInvites),
           x \in Arg(op, ContentOps, Content) :
             req' = [req EXCEPT ![r] = NewRequest(op, u, c, b, w, i, x)]
    BY DEF Receive
<1>2. PICK c \in Arg(op, CampaignOps, MintedCampaigns),
           b \in Arg(op, BookOps, MintedBooks \cup {SrdBook}),
           w \in Arg(op, HandleOps, User),
           i \in Arg(op, InviteOps, MintedInvites),
           x \in Arg(op, ContentOps, Content) :
             req' = [req EXCEPT ![r] = NewRequest(op, u, c, b, w, i, x)]
    BY <1>1
<1>3. req'[r] = NewRequest(op, u, c, b, w, i, x) BY <1>2 DEF SlotsOK
<1>4. req'[r].op = op /\ req'[r].at = FirstStage(op)
    BY <1>3 DEF NewRequest
<1>5. QED BY <1>2, <1>4 DEF SlotsOK, Receive

LEMMA ReceiveDue ==
    ASSUME TypeInv, AllEntitled, Unanswered, NEW r \in Req, Receive(r)
    PROVE  AllEntitled' /\ Unanswered'
<1>1. SlotsOK BY DEF TypeInv
<1>2. Entitled(req[r], req[r].at)'
    BY <1>1, Arrives
    DEF Entitled, FirstStage, CampaignOps, ContentOps
<1>3. ASSUME NEW q \in Req \ {r}
      PROVE  Entitled(req[q], req[q].at)'
  <2>1. PICK p : p = req[q] OBVIOUS
  <2>2. Entitled(p, p.at) BY <2>1 DEF AllEntitled
  <2>3. Entitled(p, p.at)'
      BY <2>2
      DEF Entitled, OwnsBook, OwnsCampaign, IsInvitee, Receive, rows, owners
  <2>4. QED BY <1>1, <2>1, <2>3, Arrives
<1>4. QED
    BY <1>1, <1>2, <1>3, Arrives DEF AllEntitled, Unanswered, At

LEMMA AdvanceOthers ==
    ASSUME SlotsOK, NEW r \in Req, Advances(r), NEW q \in Req \ {r}
    PROVE  req'[q] = req[q] /\ answer'[q] = answer[q]
<1>1. CASE \E s \in Stage \ {"idle"} : Goto(r, s)
    BY <1>1 DEF Goto, SlotsOK
<1>2. CASE \E s \in Status : Answer(r, s) BY <1>2 DEF Answer, SlotsOK
<1>3. ASSUME NEW i \in Invite, UNCHANGED answer,
             req' = [req EXCEPT ![r] = [@ EXCEPT !.at = "renew", !.inv = i]]
      PROVE  req'[q] = req[q] /\ answer'[q] = answer[q]
    BY <1>3 DEF SlotsOK
<1>4. QED BY <1>1, <1>2, <1>3, Zenon DEF Advances

LEMMA HandleDue ==
    ASSUME IInv, NoDanglingRows, AllEntitled, Unanswered, NEW r \in Req,
           Handle(r)
    PROVE  AllEntitled' /\ Unanswered'
<1> USE DEF TypeInv
<1>1. TypeInv /\ LiveInvitesMinted BY DEF IInv
<1>2. Advances(r) /\ ~At(r, "idle") BY <1>1, HandleAdvances
<1>3. OwnersKept BY <1>1, HandleGrowth DEF Growth
<1>4. Entitled(req[r], req[r].at)'
  <2>1. Entitled(req[r], req[r].at) BY DEF AllEntitled
  <2>2. CASE \/ req[r].op \in ContentOps \cup {"delete_book", "revoke_invite"}
             \/ req[r].op \in {"delete_campaign", "remove_member"}
             \/ req[r].op \in {"accept_invite", "decline_invite"}
    <3>1. \/ DeleteBook(r) \/ AddContent(r) \/ RemoveContent(r)
          \/ DeleteCampaign(r) \/ RevokeInvite(r) \/ RemoveMember(r)
          \/ AcceptInvite(r) \/ DeclineInvite(r)
        BY <2>2
        DEF Handle, CreateBook, UpdateBook, CreateCampaign, UpdateCampaign,
            EnableBook, DisableBook, InviteMember, DeleteAccount, ContentOps
    <3>2. QED
        BY <1>1, <2>1, <3>1, BookEntitled, CampaignEntitled, RemovalEntitled,
           InviteeEntitled
  <2>3. QED BY <1>1, <1>2, <2>2, OtherEntitled
<1>5. ASSUME NEW q \in Req \ {r}
      PROVE  Entitled(req[q], req[q].at)' /\ answer'[q] = answer[q]
             /\ req'[q] = req[q]
  <2>1. req'[q] = req[q] /\ answer'[q] = answer[q]
      BY <1>1, <1>2, AdvanceOthers
  <2>2. PICK p : p = req[q] OBVIOUS
  <2>3. Entitled(p, p.at) BY <2>2 DEF AllEntitled
  <2>4. Entitled(p, p.at)' BY <1>1, <1>3, <2>3, EntitlementLasts
  <2>5. QED BY <2>1, <2>2, <2>4
<1>6. ~At(r, "idle")' => req'[r].op \in Op /\ answer'[r] = "none"
  <2>1. CASE \E s \in Stage : Goto(r, s)
    <3>1. req'[r].op = req[r].op /\ answer' = answer
        BY <1>1, <2>1 DEF Goto, SlotsOK, Request
    <3>2. QED BY <1>2, <3>1 DEF Unanswered
  <2>2. CASE \E s \in Status : Answer(r, s)
      BY <1>1, <2>2 DEF Answer, SlotsOK, Idle, At
  <2>3. ASSUME NEW i \in Invite, UNCHANGED answer,
               req' = [req EXCEPT ![r] = [@ EXCEPT !.at = "renew", !.inv = i]]
        PROVE  req'[r].op \in Op /\ answer'[r] = "none"
    <3>1. req'[r].op = req[r].op BY <1>1, <2>3 DEF SlotsOK, Request
    <3>2. QED BY <1>2, <2>3, <3>1 DEF Unanswered
  <2>4. QED BY <1>2, <2>1, <2>2, <2>3, Zenon DEF Advances
<1>7. AllEntitled' BY <1>4, <1>5 DEF AllEntitled
<1>8. Unanswered' BY <1>5, <1>6 DEF Unanswered, At
<1>9. QED BY <1>7, <1>8

LEMMA DueInvariance == Spec => []DueInv
<1>1. Init => AllEntitled /\ Unanswered
  <2>1. None \notin OpName BY ConstantsAssumption
  <2>2. QED
      BY <2>1 DEF Init, AllEntitled, Entitled, Unanswered, At, Idle
<1>2. PInv /\ AllEntitled /\ Unanswered /\ [Next]_vars
        => AllEntitled' /\ Unanswered'
  <2> SUFFICES ASSUME PInv, AllEntitled, Unanswered, [Next]_vars
               PROVE  AllEntitled' /\ Unanswered'
      OBVIOUS
  <2>1. TypeInv BY DEF PInv, IInv
  <2>2. CASE Lapse \/ UNCHANGED vars
      BY <2>2
      DEF Lapse, vars, rows, owners, AllEntitled, Entitled, OwnsBook,
          OwnsCampaign, IsInvitee, Unanswered, At
  <2>3. CASE \E r \in Req : Receive(r) BY <2>1, <2>3, ReceiveDue
  <2>4. CASE \E r \in Req : Handle(r) BY <2>4, HandleDue DEF PInv
  <2>5. QED BY <2>2, <2>3, <2>4 DEF Next
<1>3. QED BY <1>1, <1>2, PolicyInvariance, PTL DEF Spec, DueInv

(* What a handler's step writes.  It is the request's success, or nothing    *)
(* that access, membership, invites or contents depend on.                   *)
seen == <<books, bookOwner, enabled, members, contents, invites>>

Writes(q) ==
    \/ /\ q.op = "create_book"
       /\ \E b \in Book \ (MintedBooks \cup {SrdBook}) :
             /\ books' = books \cup {b}
             /\ bookOwner' = [bookOwner EXCEPT ![b] = q.user]
       /\ UNCHANGED <<enabled, members, contents, invites>>
    \/ /\ q.op = "enable_book" /\ q.at = "write"
       /\ InsertEnabled(q.camp, q.book)
    \/ q.op = "disable_book" /\ DeleteEnabled(q.camp, q.book)
    \/ /\ q.op \in ContentOps /\ q.at = "write"
       /\ \/ contents' = contents \cup {<<q.book, q.item>>}
          \/ contents' = contents \ {<<q.book, q.item>>}
       /\ UNCHANGED <<books, bookOwner, enabled, members, invites>>
    \/ /\ q.op = "invite_member"
       /\ invites \subseteq invites'
       /\ UNCHANGED <<books, bookOwner, enabled, members, contents>>
    \/ /\ q.op = "accept_invite" /\ q.at = "write"
       /\ members' = members \cup {<<inviteCamp[q.inv], q.user>>}
       /\ invites' = invites \ {q.inv}
       /\ UNCHANGED <<books, bookOwner, enabled, contents>>
    \/ /\ \/ q.op = "accept_invite" /\ q.at = "consume"
          \/ q.op \in {"revoke_invite", "decline_invite"} /\ q.at = "write"
       /\ DeleteInvite(q.inv)
    \/ /\ q.op = "remove_member" /\ q.at = "write"
       /\ DeleteMember(q.camp, q.who)
    \/ /\ q.op = "delete_book" /\ q.at = "write"
       /\ DeleteRows({}, {q.book}, {})
    \/ /\ q.op = "delete_campaign" /\ q.at = "write"
       /\ DeleteRows({}, {}, {q.camp})
    \/ q.op = "delete_account" /\ DeleteRows({q.user}, {}, {})

Effect(r) ==
    \/ UNCHANGED seen
    \/ ~At(r, "idle") /\ Answer(r, "ok") /\ Writes(req[r])

LEMMA CheckEffect ==
    ASSUME NEW r, UNCHANGED rows
    PROVE  Effect(r)
BY DEF Effect, seen, rows, owners, joins

LEMMA HandleEffect ==
    ASSUME NEW r \in Req, Handle(r)
    PROVE  Effect(r)
<1> DEFINE q == req[r]
<1>1. ASSUME NEW next, \/ GetWritableCampaign(r, next)
                       \/ GetWritableBook(r, next) \/ GetOwnInvite(r, next)
      PROVE  Effect(r)
    BY <1>1, CheckEffect
    DEF GetWritableCampaign, GetWritableBook, GetOwnInvite, Check
<1>2. ASSUME NEW needed, Look(r, needed)
      PROVE  Effect(r)
    BY <1>2, CheckEffect DEF Look, Check
<1>3. CASE CreateBook(r)
    BY <1>3, CheckEffect DEF CreateBook, Effect, Writes, At, joins
<1>4. CASE UpdateBook(r) BY <1>1, <1>4, CheckEffect DEF UpdateBook, Check
<1>5. CASE DeleteBook(r)
    BY <1>1, <1>5 DEF DeleteBook, Effect, Writes, At
<1>6. CASE AddContent(r)
    BY <1>1, <1>2, <1>6, CheckEffect
    DEF AddContent, Effect, Writes, At, ContentOps, owners
<1>7. CASE RemoveContent(r)
    BY <1>1, <1>2, <1>7
    DEF RemoveContent, Effect, Writes, At, ContentOps, owners
<1>8. CASE CreateCampaign(r)
    BY <1>8, CheckEffect DEF CreateCampaign, Effect, seen, joins
<1>9. CASE UpdateCampaign(r)
    BY <1>1, <1>9, CheckEffect DEF UpdateCampaign, Check
<1>10. CASE DeleteCampaign(r)
    BY <1>1, <1>10 DEF DeleteCampaign, Effect, Writes, At
<1>11. CASE EnableBook(r)
    BY <1>1, <1>2, <1>11, CheckEffect DEF EnableBook, Effect, Writes, At
<1>12. CASE DisableBook(r)
    BY <1>1, <1>2, <1>12 DEF DisableBook, Effect, Writes, At
<1>13. CASE InviteMember(r)
  <2>1. CASE InsertInvite(r)
      BY <1>13, <2>1, CheckEffect
      DEF InviteMember, InsertInvite, InsertInviteRow, AddInvite, Effect,
          Writes, At
  <2>2. CASE RenewInvite(r)
      BY <2>2, CheckEffect DEF RenewInvite, Effect, seen, owners, joins
  <2>3. CASE ResolveInvitee(r) \/ FindExistingInvite(r)
    <3>1. UNCHANGED rows
        BY <2>3, Zenon DEF ResolveInvitee, FindExistingInvite, Check
    <3>2. QED BY <3>1, CheckEffect
  <2>4. QED
      BY <1>1, <1>13, <2>1, <2>2, <2>3, CheckEffect DEF InviteMember, Check
<1>14. CASE RevokeInvite(r)
    BY <1>1, <1>2, <1>14 DEF RevokeInvite, Effect, Writes, At
<1>15. CASE RemoveMember(r)
    BY <1>2, <1>15, CheckEffect
    DEF RemoveMember, AuthorizeMemberRemoval, Check, Effect, Writes, At
<1>16. CASE AcceptInvite(r)
  <2>1. CASE Join(r)
      BY <1>16, <2>1, CheckEffect
      DEF AcceptInvite, Join, Effect, Writes, At, owners
  <2>2. CASE At(r, "consume") /\ DeleteInvite(q.inv) /\ Answer(r, "ok")
      BY <1>16, <2>2 DEF AcceptInvite, Effect, Writes, At
  <2>3. QED BY <1>1, <1>16, <2>1, <2>2, CheckEffect DEF AcceptInvite
<1>17. CASE DeclineInvite(r)
    BY <1>1, <1>17 DEF DeclineInvite, Effect, Writes, At
<1>18. CASE DeleteAccount(r) BY <1>18 DEF DeleteAccount, Effect, Writes, At
<1>19. QED
    BY <1>3, <1>4, <1>5, <1>6, <1>7, <1>8, <1>9, <1>10, <1>11, <1>12, <1>13,
       <1>14, <1>15, <1>16, <1>17, <1>18 DEF Handle

(* A step that writes is the success of the request it writes for.           *)
LEMMA WriteSucceeds ==
    ASSUME DueInv, NEW r \in Req, ~At(r, "idle"), Answer(r, "ok"), NEW ops,
           req[r].op \in ops
    PROVE  /\ req[r].op \in Op /\ req[r].user \in User
           /\ \A S : req[r].user \in S => Succeeds(r, ops, S)
BY DEF DueInv, PInv, IInv, TypeInv, SlotsOK, ArgsOK, Unanswered, Answer,
       Succeeds

(* Every step is quiet on what the properties see, or one request's write.   *)
LEMMA StepEffect ==
    ASSUME [Next]_vars
    PROVE  \/ UNCHANGED seen
           \/ \E r \in Req : /\ ~At(r, "idle") /\ Answer(r, "ok")
                             /\ Writes(req[r])
<1>1. CASE \E r \in Req : Handle(r) BY <1>1, HandleEffect DEF Effect
<1>2. CASE Lapse \/ UNCHANGED vars
    BY <1>2 DEF Lapse, vars, seen, rows, owners, joins
<1>3. CASE \E r \in Req : Receive(r)
    BY <1>3 DEF Receive, seen, rows, owners, joins
<1>4. QED BY <1>1, <1>2, <1>3 DEF Next

(* Where no book, sharing or membership is added, no access is.              *)
LEMMA NoNewAccess ==
    ASSUME books' \subseteq books, enabled' \subseteq enabled,
           members' \subseteq members, UNCHANGED bookOwner, NEW u, NEW b,
           CanReadBook(u, b)'
    PROVE  CanReadBook(u, b)
BY DEF CanReadBook

LEMMA AccessStep ==
    ASSUME DueInv, [Next]_vars, NEW u \in User, NEW b \in Book,
           ~CanReadBook(u, b), CanReadBook(u, b)'
    PROVE  \E r \in Req :
              \/ Succeeds(r, {"create_book", "accept_invite"}, {u})
              \/ Succeeds(r, {"enable_book"}, {bookOwner[b]})
<1>1. CASE UNCHANGED seen BY <1>1 DEF seen, CanReadBook
<1>2. ASSUME NEW r \in Req, ~At(r, "idle"), Answer(r, "ok"), Writes(req[r])
      PROVE  \/ Succeeds(r, {"create_book", "accept_invite"}, {u})
             \/ Succeeds(r, {"enable_book"}, {bookOwner[b]})
  <2> DEFINE q == req[r]
  <2>1. CASE /\ q.op = "create_book"
             /\ \E n \in Book \ (MintedBooks \cup {SrdBook}) :
                   /\ books' = books \cup {n}
                   /\ bookOwner' = [bookOwner EXCEPT ![n] = q.user]
             /\ UNCHANGED <<enabled, members, contents, invites>>
    <3>1. PICK n \in Book \ (MintedBooks \cup {SrdBook}) :
             /\ books' = books \cup {n}
             /\ bookOwner' = [bookOwner EXCEPT ![n] = q.user]
        BY <2>1
    <3>2. n \notin books
        BY <3>1, ConstantsAssumption
        DEF DueInv, PInv, IInv, TypeInv, RowsOK, NoDanglingRows, MintedBooks
    <3>3. \A c \in Campaign : <<c, n>> \notin enabled
        BY <3>2 DEF DueInv, PInv, NoDanglingRows
    <3>4. b = n
        BY <2>1, <3>1 DEF CanReadBook, DueInv, PInv, IInv, TypeInv, RowsOK
    <3>5. q.user = u
        BY <2>1, <3>1, <3>3, <3>4
        DEF CanReadBook, DueInv, PInv, IInv, TypeInv, RowsOK
    <3>6. QED BY <1>2, <2>1, <3>5, WriteSucceeds
  <2>2. CASE /\ q.op = "enable_book" /\ q.at = "write"
             /\ InsertEnabled(q.camp, q.book)
    <3>1. b = q.book BY <2>2 DEF InsertEnabled, CanReadBook, owners
    <3>2. q.user = bookOwner[b]
        BY <2>2, <3>1
        DEF DueInv, PInv, IInv, AllCleared, Cleared, OwnsBook
    <3>3. QED BY <1>2, <2>2, <3>2, WriteSucceeds
  <2>3. CASE /\ q.op = "accept_invite" /\ q.at = "write"
             /\ members' = members \cup {<<inviteCamp[q.inv], q.user>>}
             /\ UNCHANGED <<books, bookOwner, enabled, contents>>
    <3>1. u = q.user BY <2>3 DEF CanReadBook
    <3>2. QED BY <1>2, <2>3, <3>1, WriteSucceeds
  <2>4. CASE \E us, bs, cs : DeleteRows(us, bs, cs)
      BY <2>4, NoNewAccess DEF DeleteRows, owners
  <2>5. QED
      BY <1>2, <2>1, <2>2, <2>3, <2>4, NoNewAccess
      DEF Writes, DeleteEnabled, DeleteMember, DeleteInvite, owners, joins
<1>3. QED BY <1>1, <1>2, StepEffect

LEMMA RemovalStep ==
    ASSUME DueInv, [Next]_vars, NEW m \in members \ members'
    PROVE  \E r \in Req :
              Succeeds(r, {"remove_member", "delete_campaign",
                           "delete_account"}, {campaignOwner[m[1]], m[2]})
<1>1. CASE UNCHANGED seen BY <1>1 DEF seen
<1>2. ASSUME NEW r \in Req, ~At(r, "idle"), Answer(r, "ok"), Writes(req[r])
      PROVE  Succeeds(r, {"remove_member", "delete_campaign",
                          "delete_account"}, {campaignOwner[m[1]], m[2]})
  <2> DEFINE q == req[r]
  <2>1. m[1] \in campaigns /\ m[2] \in users /\ m = <<m[1], m[2]>>
      BY DEF DueInv, PInv, NoDanglingRows
  <2>2. Entitled(q, q.at) BY DEF DueInv, AllEntitled
  <2>3. CASE /\ q.op = "remove_member" /\ q.at = "write"
             /\ DeleteMember(q.camp, q.who)
    <3>1. m = <<q.camp, q.who>> BY <2>3 DEF DeleteMember
    <3>2. q.user \in {campaignOwner[m[1]], m[2]}
        BY <2>2, <2>3, <3>1 DEF Entitled
    <3>3. QED BY <1>2, <2>3, <3>2, WriteSucceeds
  <2>4. CASE /\ q.op = "delete_campaign" /\ q.at = "write"
             /\ DeleteRows({}, {}, {q.camp})
    <3>1. m[1] = q.camp BY <2>1, <2>4 DEF DeleteRows
    <3>2. q.user = campaignOwner[m[1]]
        BY <2>2, <2>4, <3>1 DEF Entitled, OwnsCampaign
    <3>3. QED BY <1>2, <2>4, <3>2, WriteSucceeds
  <2>5. CASE q.op = "delete_account" /\ DeleteRows({q.user}, {}, {})
    <3>1. q.user \in {campaignOwner[m[1]], m[2]} BY <2>1, <2>5 DEF DeleteRows
    <3>2. QED BY <1>2, <2>5, <3>1, WriteSucceeds
  <2>6. CASE DeleteRows({}, {q.book}, {}) BY <2>1, <2>6 DEF DeleteRows
  <2>7. QED
      BY <1>2, <2>3, <2>4, <2>5, <2>6
      DEF Writes, InsertEnabled, DeleteEnabled, DeleteInvite, joins
<1>3. QED BY <1>1, <1>2, StepEffect

LEMMA InviteEndStep ==
    ASSUME DueInv, [Next]_vars, NEW i \in invites \ invites'
    PROVE  \E r \in Req :
              Succeeds(r, Op, {campaignOwner[inviteCamp[i]], inviteUser[i]})
<1>1. CASE UNCHANGED seen BY <1>1 DEF seen
<1>2. ASSUME NEW r \in Req, ~At(r, "idle"), Answer(r, "ok"), Writes(req[r])
      PROVE  Succeeds(r, Op, {campaignOwner[inviteCamp[i]], inviteUser[i]})
  <2> DEFINE q == req[r]
             parties == {campaignOwner[inviteCamp[i]], inviteUser[i]}
  <2>1. inviteCamp[i] \in campaigns /\ inviteUser[i] \in users
      BY DEF DueInv, PInv, NoDanglingRows
  <2>2. Entitled(q, q.at) /\ Cleared(q)
      BY DEF DueInv, AllEntitled, PInv, IInv, AllCleared
  <2>3. SUFFICES q.user \in parties
    <3>1. q.op \in Op BY <1>2 DEF DueInv, Unanswered
    <3>2. QED BY <1>2, <3>1, WriteSucceeds
  <2>4. CASE /\ q.op = "accept_invite" /\ q.at = "write"
             /\ invites' = invites \ {q.inv}
      BY <2>2, <2>4 DEF Cleared, IsInvitee
  <2>5. CASE /\ q.op = "accept_invite" /\ q.at = "consume"
             /\ DeleteInvite(q.inv)
      BY <2>2, <2>5 DEF Entitled, IsInvitee, DeleteInvite
  <2>6. CASE /\ q.op = "decline_invite" /\ q.at = "write"
             /\ DeleteInvite(q.inv)
      BY <2>2, <2>6 DEF Entitled, IsInvitee, DeleteInvite
  <2>7. CASE /\ q.op = "revoke_invite" /\ q.at = "write"
             /\ DeleteInvite(q.inv)
      BY <2>2, <2>7 DEF Entitled, OwnsCampaign, DeleteInvite
  <2>8. CASE /\ q.op = "delete_campaign" /\ q.at = "write"
             /\ DeleteRows({}, {}, {q.camp})
    <3>1. inviteCamp[i] = q.camp BY <2>1, <2>8 DEF DeleteRows
    <3>2. QED BY <2>2, <2>8, <3>1 DEF Entitled, OwnsCampaign
  <2>9. CASE q.op = "delete_account" /\ DeleteRows({q.user}, {}, {})
      BY <2>1, <2>9 DEF DeleteRows
  <2>10. CASE DeleteRows({}, {q.book}, {}) BY <2>1, <2>10 DEF DeleteRows
  <2>11. QED
      BY <1>2, <2>4, <2>5, <2>6, <2>7, <2>8, <2>9, <2>10
      DEF Writes, InsertEnabled, DeleteEnabled, DeleteMember
<1>3. QED BY <1>1, <1>2, StepEffect

LEMMA ContentsStep ==
    ASSUME DueInv, [Next]_vars,
           NEW x \in (contents \ contents') \cup (contents' \ contents)
    PROVE  \E r \in Req :
              Succeeds(r, ContentOps \cup {"delete_book", "delete_account"},
                       {bookOwner[x[1]]})
<1>1. CASE UNCHANGED seen BY <1>1 DEF seen
<1>2. ASSUME NEW r \in Req, ~At(r, "idle"), Answer(r, "ok"), Writes(req[r])
      PROVE  Succeeds(r, ContentOps \cup {"delete_book", "delete_account"},
                      {bookOwner[x[1]]})
  <2> DEFINE q == req[r]
  <2>1. Entitled(q, q.at) BY DEF DueInv, AllEntitled
  <2>2. x \in contents => x[1] \in books BY DEF DueInv, PInv, NoDanglingRows
  <2>3. CASE /\ q.op \in ContentOps /\ q.at = "write"
             /\ \/ contents' = contents \cup {<<q.book, q.item>>}
                \/ contents' = contents \ {<<q.book, q.item>>}
    <3>1. x = <<q.book, q.item>> BY <2>3
    <3>2. q.user = bookOwner[x[1]] BY <2>1, <2>3, <3>1 DEF Entitled, OwnsBook
    <3>3. QED BY <1>2, <2>3, <3>2, WriteSucceeds
  <2>4. CASE /\ q.op = "delete_book" /\ q.at = "write"
             /\ DeleteRows({}, {q.book}, {})
    <3>1. x[1] = q.book BY <2>2, <2>4 DEF DeleteRows
    <3>2. q.user = bookOwner[x[1]] BY <2>1, <2>4, <3>1 DEF Entitled, OwnsBook
    <3>3. QED BY <1>2, <2>4, <3>2, WriteSucceeds
  <2>5. CASE q.op = "delete_account" /\ DeleteRows({q.user}, {}, {})
    <3>1. q.user = bookOwner[x[1]] BY <2>2, <2>5 DEF DeleteRows
    <3>2. QED BY <1>2, <2>5, <3>1, WriteSucceeds
  <2>6. CASE DeleteRows({}, {}, {q.camp}) BY <2>2, <2>6 DEF DeleteRows
  <2>7. QED
      BY <1>2, <2>3, <2>4, <2>5, <2>6
      DEF Writes, InsertEnabled, DeleteEnabled, DeleteMember, DeleteInvite,
          joins
<1>3. QED BY <1>1, <1>2, StepEffect

(* However the requests interleave, read access to a book appears only by    *)
(* its owner's or the reader's own successful request (authz.py:59).         *)
THEOREM AccessOnlyByGrant == Spec => AccessIsGranted
<1>1. DueInv /\ [Next]_vars =>
        [\A u \in User, b \in Book :
           ~CanReadBook(u, b) /\ CanReadBook(u, b)' =>
              \E r \in Req :
                 \/ Succeeds(r, {"create_book", "accept_invite"}, {u})
                 \/ Succeeds(r, {"enable_book"}, {bookOwner[b]})]_vars
    BY AccessStep
<1>2. QED BY <1>1, DueInvariance, PTL DEF Spec, AccessIsGranted

(* No interleaving lets a member be removed by anybody but the campaign's    *)
(* owner or the member (authz.py:208).                                       *)
THEOREM MembersLeaveByRight == Spec => RemovedByOwnerOrSelf
<1>1. DueInv /\ [Next]_vars =>
        [\A m \in members \ members' :
           \E r \in Req :
              Succeeds(r, {"remove_member", "delete_campaign",
                           "delete_account"},
                       {campaignOwner[m[1]], m[2]})]_vars
    BY RemovalStep
<1>2. QED BY <1>1, DueInvariance, PTL DEF Spec, RemovedByOwnerOrSelf

(* An invite ends only by a request of its two parties: the scoping of the   *)
(* lookup (campaigns.py:572) holds up to the write that relies on it.        *)
THEOREM InvitesEndByRight == Spec => InviteEndsByParty
<1>1. DueInv /\ [Next]_vars =>
        [\A i \in invites \ invites' :
           \E r \in Req :
              Succeeds(r, Op,
                       {campaignOwner[inviteCamp[i]], inviteUser[i]})]_vars
    BY InviteEndStep
<1>2. QED BY <1>1, DueInvariance, PTL DEF Spec, InviteEndsByParty

(* The contents of a book change only by a request of its owner, whatever    *)
(* happens between the check and the write (authz.py:109).                   *)
THEOREM ContentsAreTheOwners == Spec => ContentsChangeByOwner
<1>1. DueInv /\ [Next]_vars =>
        [\A x \in (contents \ contents') \cup (contents' \ contents) :
           \E r \in Req :
              Succeeds(r, ContentOps \cup {"delete_book", "delete_account"},
                       {bookOwner[x[1]]})]_vars
    BY ContentsStep
<1>2. QED BY <1>1, DueInvariance, PTL DEF Spec, ContentsChangeByOwner
==============================================================================
