---------------------------- MODULE SharingProofs ----------------------------
(* Machine-checked safety of Sharing, for any pools of ids and any number   *)
(* of concurrent requests.                                                  *)
EXTENDS Sharing, TLAPS

------------------------------------------------------------------------------
(* Types.                                                                   *)

\* What Receive puts into a request and no later step takes away.
ArgsOK ==
    \A r \in Req :
        /\ ~At(r, "idle") => req[r].user \in User
        /\ req[r].op \in ContentOps => req[r].item \in Content

SlotsOK == req \in [Req -> Request] /\ answer \in [Req -> Status] /\ ArgsOK

RowsOK ==
    /\ users \subseteq User /\ books \subseteq Book
    /\ campaigns \subseteq Campaign /\ invites \subseteq Invite
    /\ lapsed \subseteq invites
    /\ bookOwner \in [Book -> User \cup {None}]
    /\ campaignOwner \in [Campaign -> User \cup {None}]
    /\ inviteCamp \in [Invite -> Campaign \cup {None}]
    /\ inviteUser \in [Invite -> User \cup {None}]
    /\ enabled \subseteq Campaign \X Book
    /\ members \subseteq Campaign \X User
    /\ contents \subseteq Book \X Content

TypeInv == RowsOK /\ SlotsOK

\* Request r moves to another stage or is answered.
Advances(r) ==
    \/ \E s \in Stage \ {"idle"} : Goto(r, s)
    \/ \E s \in Status : Answer(r, s)
    \/ /\ \E i \in Invite :
             req' = [req EXCEPT ![r] = [@ EXCEPT !.at = "renew", !.inv = i]]
       /\ UNCHANGED answer

\* Whatever a handler's step does to its slot, the slots stay typed.
LEMMA AdvanceType ==
    ASSUME SlotsOK, NEW r \in Req, ~At(r, "idle"), Advances(r)
    PROVE  SlotsOK'
<1>1. CASE \E s \in Stage \ {"idle"} : Goto(r, s)
    BY <1>1 DEF SlotsOK, ArgsOK, Goto, At, Request
<1>2. CASE \E s \in Status : Answer(r, s)
  <2>1. Idle \in Request /\ Idle.at = "idle" /\ Idle.op \notin ContentOps
      BY ConstantsAssumption
      DEF Idle, Request, Stage, ContentOps, OpName, BookOps
  <2>2. PICK s \in Status : Answer(r, s) BY <1>2
  <2>3. QED BY <2>1, <2>2 DEF SlotsOK, ArgsOK, Answer, At
<1>3. ASSUME NEW i \in Invite, UNCHANGED answer,
             req' = [req EXCEPT ![r] = [@ EXCEPT !.at = "renew", !.inv = i]]
      PROVE  SlotsOK'
  <2>1. [req[r] EXCEPT !.at = "renew", !.inv = i] \in Request
      BY DEF SlotsOK, Request, Stage
  <2>2. QED BY <1>3, <2>1 DEF SlotsOK, ArgsOK, At
<1>4. QED BY <1>1, <1>2, <1>3 DEF Advances

\* A check reads tables and changes none.
LEMMA CheckAdvances ==
    ASSUME NEW r \in Req, NEW condition, NEW stage \in Stage \ {"idle"},
           NEW status \in Status, Check(r, condition, stage, status)
    PROVE  Advances(r) /\ UNCHANGED rows
BY DEF Check, Advances

\* Cascading deletes keep the tables typed.
LEMMA DeleteType ==
    ASSUME RowsOK, NEW us, NEW bs, NEW cs, DeleteRows(us, bs, cs)
    PROVE  RowsOK'
BY DEF RowsOK, DeleteRows, owners

\* Steps that change no table keep them typed.
LEMMA UnchangedType ==
    ASSUME RowsOK, UNCHANGED rows
    PROVE  RowsOK'
BY DEF RowsOK, rows, owners, joins

\* Every step of every handler advances its own request only.
LEMMA HandleAdvances ==
    ASSUME NEW r \in Req, SlotsOK, RowsOK, Handle(r)
    PROVE  Advances(r) /\ ~At(r, "idle")
<1> USE DEF Stage, Status
<1>2. CASE CreateBook(r) BY <1>2 DEF CreateBook, At, Advances
<1>3. CASE UpdateBook(r)
    BY <1>3, CheckAdvances DEF UpdateBook, GetWritableBook, At, Advances
<1>4. CASE DeleteBook(r)
    BY <1>4, CheckAdvances DEF DeleteBook, GetWritableBook, At, Advances
<1>5. CASE AddContent(r)
    BY <1>5, CheckAdvances DEF AddContent, GetWritableBook, Look, At, Advances
<1>6. CASE RemoveContent(r)
    BY <1>6, CheckAdvances
    DEF RemoveContent, GetWritableBook, Look, At, Advances
<1>7. CASE CreateCampaign(r) BY <1>7 DEF CreateCampaign, At, Advances
<1>8. CASE UpdateCampaign(r)
    BY <1>8, CheckAdvances
    DEF UpdateCampaign, GetWritableCampaign, At, Advances
<1>9. CASE DeleteCampaign(r)
    BY <1>9, CheckAdvances
    DEF DeleteCampaign, GetWritableCampaign, At, Advances
<1>10. CASE EnableBook(r)
    BY <1>10, CheckAdvances
    DEF EnableBook, GetWritableCampaign, GetWritableBook, Look, At, Advances
<1>11. CASE DisableBook(r)
    BY <1>11, CheckAdvances
    DEF DisableBook, GetWritableCampaign, Look, At, Advances
<1>12. CASE InviteMember(r)
  <2>1. CASE GetWritableCampaign(r, "person")
      BY <2>1, CheckAdvances DEF GetWritableCampaign, At
  <2>2. CASE ResolveInvitee(r)
      BY <2>2, CheckAdvances DEF ResolveInvitee, At
  <2>3. CASE /\ At(r, "member")
             /\ Check(r, <<req[r].camp, req[r].who>> \notin members, "look",
                      "conflict")
      BY <2>3, CheckAdvances DEF At
  <2>4. CASE FindExistingInvite(r)
      BY <2>4 DEF FindExistingInvite, PendingFor, At, Advances, RowsOK
  <2>5. CASE InsertInvite(r) BY <2>5 DEF InsertInvite, At, Advances
  <2>6. CASE RenewInvite(r) BY <2>6 DEF RenewInvite, At, Advances
  <2>7. QED BY <1>12, <2>1, <2>2, <2>3, <2>4, <2>5, <2>6 DEF InviteMember
<1>13. CASE RevokeInvite(r)
    BY <1>13, CheckAdvances
    DEF RevokeInvite, GetWritableCampaign, Look, At, Advances
<1>14. CASE RemoveMember(r)
    BY <1>14, CheckAdvances
    DEF RemoveMember, AuthorizeMemberRemoval, Look, At, Advances
<1>15. CASE AcceptInvite(r)
    BY <1>15, CheckAdvances DEF AcceptInvite, GetOwnInvite, Join, At, Advances
<1>16. CASE DeclineInvite(r)
    BY <1>16, CheckAdvances DEF DeclineInvite, GetOwnInvite, At, Advances
<1>17. CASE DeleteAccount(r) BY <1>17 DEF DeleteAccount, At, Advances
<1>18. QED
    BY <1>2, <1>3, <1>4, <1>5, <1>6, <1>7, <1>8, <1>9, <1>10, <1>11, <1>12,
       <1>13, <1>14, <1>15, <1>16, <1>17 DEF Handle

\* Every step of every handler leaves the tables typed.
LEMMA HandleType ==
    ASSUME NEW r \in Req, SlotsOK, RowsOK, Handle(r)
    PROVE  RowsOK'
<1> USE DEF Stage, Status
<1>1. ASSUME NEW next \in Stage \ {"idle"}, GetWritableCampaign(r, next)
      PROVE  RowsOK'
    BY <1>1, UnchangedType DEF GetWritableCampaign, Check
<1>2. ASSUME NEW next \in Stage \ {"idle"}, GetWritableBook(r, next)
      PROVE  RowsOK'
    BY <1>2, UnchangedType DEF GetWritableBook, Check
<1>3. ASSUME NEW needed, Look(r, needed)
      PROVE  RowsOK'
    BY <1>3, UnchangedType DEF Look, Check
<1>4. CASE CreateBook(r)
    BY <1>4, UnchangedType DEF CreateBook, RowsOK, joins
<1>5. CASE UpdateBook(r)
    BY <1>5, <1>2, UnchangedType DEF UpdateBook, Check
<1>6. CASE DeleteBook(r) BY <1>6, <1>2, DeleteType DEF DeleteBook
<1>7. CASE AddContent(r)
  <2>1. ASSUME At(r, "write"), req[r].book \in books,
               contents' = contents \cup {<<req[r].book, req[r].item>>},
               UNCHANGED <<users, books, campaigns, invites, lapsed, owners,
                           enabled, members>>
        PROVE  RowsOK'
    <3>1. req[r].item \in Content
        BY <1>7 DEF AddContent, SlotsOK, ArgsOK, ContentOps
    <3>2. QED BY <2>1, <3>1 DEF RowsOK, owners
  <2>2. QED BY <1>7, <1>2, <1>3, <2>1, UnchangedType DEF AddContent
<1>8. CASE RemoveContent(r)
    BY <1>8, <1>2, <1>3 DEF RemoveContent, RowsOK, owners
<1>9. CASE CreateCampaign(r)
    BY <1>9, UnchangedType DEF CreateCampaign, RowsOK, joins
<1>10. CASE UpdateCampaign(r)
    BY <1>10, <1>1, UnchangedType DEF UpdateCampaign, Check
<1>11. CASE DeleteCampaign(r) BY <1>11, <1>1, DeleteType DEF DeleteCampaign
<1>12. CASE EnableBook(r)
  <2>1. ASSUME NEW c \in campaigns, NEW b \in books, InsertEnabled(c, b)
        PROVE  RowsOK'
      BY <2>1 DEF InsertEnabled, RowsOK, owners
  <2>2. QED BY <1>12, <1>1, <1>2, <1>3, <2>1, UnchangedType DEF EnableBook
<1>13. CASE DisableBook(r)
    BY <1>13, <1>1, <1>3 DEF DisableBook, DeleteEnabled, RowsOK, owners
<1>14. CASE InviteMember(r)
  <2>1. CASE GetWritableCampaign(r, "person") BY <2>1, <1>1
  <2>2. CASE ResolveInvitee(r)
      BY <2>2, UnchangedType DEF ResolveInvitee, Check
  <2>3. CASE Check(r, <<req[r].camp, req[r].who>> \notin members, "look",
                   "conflict")
      BY <2>3, UnchangedType DEF Check
  <2>4. CASE FindExistingInvite(r)
      BY <2>4, UnchangedType DEF FindExistingInvite
  <2>5. CASE InsertInvite(r)
    <3>1. ASSUME NEW c \in campaigns, NEW w \in users, InsertInviteRow(c, w)
          PROVE  RowsOK'
        BY <3>1 DEF InsertInviteRow, AddInvite, RowsOK
    <3>2. QED
        BY <2>5, <3>1, UnchangedType DEF InsertInvite, InviteInsertable
  <2>6. CASE RenewInvite(r)
      BY <2>6, UnchangedType DEF RenewInvite, RowsOK, owners, joins
  <2>7. QED BY <1>14, <2>1, <2>2, <2>3, <2>4, <2>5, <2>6 DEF InviteMember
<1>15. ASSUME NEW i, DeleteInvite(i)
       PROVE  RowsOK'
    BY <1>15 DEF DeleteInvite, RowsOK, owners, joins
<1>16. CASE RevokeInvite(r) BY <1>16, <1>1, <1>3, <1>15 DEF RevokeInvite
<1>17. CASE RemoveMember(r)
  <2>1. CASE AuthorizeMemberRemoval(r)
      BY <2>1, UnchangedType DEF AuthorizeMemberRemoval, Check
  <2>2. CASE DeleteMember(req[r].camp, req[r].who)
      BY <2>2 DEF DeleteMember, RowsOK, owners
  <2>3. QED BY <1>17, <1>3, <2>1, <2>2 DEF RemoveMember
<1>18. ASSUME NEW next \in Stage \ {"idle"}, GetOwnInvite(r, next)
       PROVE  RowsOK'
    BY <1>18, UnchangedType DEF GetOwnInvite, Check
<1>19. CASE AcceptInvite(r)
  <2>1. CASE Join(r) BY <2>1, UnchangedType DEF Join, RowsOK, owners
  <2>2. QED BY <1>19, <1>15, <1>18, <2>1, UnchangedType DEF AcceptInvite
<1>20. CASE DeclineInvite(r) BY <1>20, <1>15, <1>18 DEF DeclineInvite
<1>21. CASE DeleteAccount(r) BY <1>21, DeleteType DEF DeleteAccount
<1>22. QED
    BY <1>4, <1>5, <1>6, <1>7, <1>8, <1>9, <1>10, <1>11, <1>12, <1>13, <1>14,
       <1>16, <1>17, <1>19, <1>20, <1>21 DEF Handle

\* A new request is typed.
LEMMA ReceiveType ==
    ASSUME NEW r \in Req, SlotsOK, RowsOK, Receive(r)
    PROVE  SlotsOK' /\ RowsOK'
<1>1. PICK op \in Op, u \in users :
        \E c \in Arg(op, CampaignOps, MintedCampaigns),
           b \in Arg(op, BookOps, MintedBooks \cup {SrdBook}),
           w \in Arg(op, HandleOps, User),
           i \in Arg(op, InviteOps, MintedInvites),
           x \in Arg(op, ContentOps, Content) :
             req' = [req EXCEPT ![r] = NewRequest(op, u, c, b, w, i, x)]
    BY DEF Receive
<1>2. PICK c \in Arg(op, CampaignOps, MintedCampaigns),
           b \in Arg(op, BookOps, MintedBooks \cup {SrdBook}),
           w \in Arg(op, HandleOps, User),
           i \in Arg(op, InviteOps, MintedInvites),
           x \in Arg(op, ContentOps, Content) :
             req' = [req EXCEPT ![r] = NewRequest(op, u, c, b, w, i, x)]
    BY <1>1
<1>3. FirstStage(op) \in Stage /\ op \in OpName /\ u \in User
    BY ConstantsAssumption DEF FirstStage, Stage, RowsOK
<1>4. NewRequest(op, u, c, b, w, i, x) \in Request
    BY <1>3, ConstantsAssumption
    DEF NewRequest, Request, Arg, MintedCampaigns, MintedBooks, MintedInvites
<1>5. op \in ContentOps => x \in Content
    BY DEF Arg
<1>6. SlotsOK'
    BY <1>2, <1>3, <1>4, <1>5
    DEF SlotsOK, ArgsOK, At, Receive, Status, NewRequest
<1>7. QED BY <1>6, UnchangedType DEF Receive

\* The inductive step of the type invariant.
LEMMA TypeStep == TypeInv /\ [Next]_vars => TypeInv'
<1> SUFFICES ASSUME TypeInv, [Next]_vars PROVE TypeInv'
    OBVIOUS
<1> USE DEF TypeInv
<1>1. CASE Lapse
    BY <1>1 DEF Lapse, RowsOK, SlotsOK, ArgsOK, At, owners, joins
<1>2. CASE \E r \in Req : Receive(r) BY <1>2, ReceiveType
<1>3. CASE \E r \in Req : Handle(r)
    BY <1>3, HandleType, HandleAdvances, AdvanceType
<1>4. CASE UNCHANGED vars
    BY <1>4, UnchangedType DEF vars, SlotsOK, ArgsOK, At
<1>5. QED BY <1>1, <1>2, <1>3, <1>4 DEF Next

LEMMA TypeInit == Init => TypeInv
BY ConstantsAssumption
DEF Init, TypeInv, RowsOK, SlotsOK, ArgsOK, At, Idle, Request, Stage, Status,
    ContentOps, OpName, BookOps

\* Every reachable state is typed: TypeOK of the runs.
THEOREM TypeCorrect == Spec => []TypeOK
<1>1. Spec => []TypeInv BY TypeInit, TypeStep, PTL DEF Spec
<1>2. TypeInv => TypeOK BY DEF TypeInv, RowsOK, SlotsOK, TypeOK
<1>3. QED BY <1>1, <1>2, PTL

------------------------------------------------------------------------------
(* What one step can add to the tables, and what it leaves of the owners.   *)

\* Owners, and the two parties of an invite, are written once.
OwnersKept ==
    /\ \A b \in Book : bookOwner[b] # None => bookOwner'[b] = bookOwner[b]
    /\ \A c \in Campaign :
          campaignOwner[c] # None => campaignOwner'[c] = campaignOwner[c]
    /\ \A i \in Invite :
          inviteCamp[i] # None => /\ inviteCamp'[i] = inviteCamp[i]
                                  /\ inviteUser'[i] = inviteUser[i]

EnabledGrowth(r) ==
    \/ enabled' \subseteq enabled
    \/ /\ req[r].op = "enable_book" /\ At(r, "write")
       /\ enabled' = enabled \cup {<<req[r].camp, req[r].book>>}

MemberGrowth(r) ==
    \/ members' \subseteq members
    \/ /\ req[r].op = "accept_invite" /\ At(r, "write")
       /\ inviteCamp[req[r].inv] \in campaigns
       /\ members' = members \cup {<<inviteCamp[req[r].inv], req[r].user>>}

InviteGrowth(r) ==
    \/ invites' \subseteq invites /\ UNCHANGED <<inviteCamp, inviteUser>>
    \/ /\ req[r].op = "invite_member" /\ At(r, "write")
       /\ InviteInsertable(req[r].camp, req[r].who)
       /\ \E i \in Invite \ MintedInvites :
             /\ invites' = invites \cup {i}
             /\ inviteCamp' = [inviteCamp EXCEPT ![i] = req[r].camp]
             /\ inviteUser' = [inviteUser EXCEPT ![i] = req[r].who]

Growth(r) ==
    OwnersKept /\ EnabledGrowth(r) /\ MemberGrowth(r) /\ InviteGrowth(r)

LEMMA UnchangedGrowth ==
    ASSUME NEW r \in Req, UNCHANGED rows
    PROVE  Growth(r)
BY DEF Growth, OwnersKept, EnabledGrowth, MemberGrowth, InviteGrowth, rows,
       owners, joins

LEMMA DeleteGrowth ==
    ASSUME NEW r \in Req, NEW us, NEW bs, NEW cs, DeleteRows(us, bs, cs)
    PROVE  Growth(r)
BY DEF Growth, OwnersKept, EnabledGrowth, MemberGrowth, InviteGrowth,
       DeleteRows, owners

LEMMA HandleGrowth ==
    ASSUME NEW r \in Req, RowsOK, Handle(r)
    PROVE  Growth(r)
<1> USE DEF Growth, OwnersKept, EnabledGrowth, MemberGrowth, InviteGrowth
<1>1. ASSUME NEW next, GetWritableCampaign(r, next)
      PROVE  Growth(r)
    BY <1>1, UnchangedGrowth DEF GetWritableCampaign, Check
<1>2. ASSUME NEW next, GetWritableBook(r, next)
      PROVE  Growth(r)
    BY <1>2, UnchangedGrowth DEF GetWritableBook, Check
<1>3. ASSUME NEW needed, Look(r, needed)
      PROVE  Growth(r)
    BY <1>3, UnchangedGrowth DEF Look, Check
<1>4. ASSUME NEW i, DeleteInvite(i)
      PROVE  Growth(r)
    BY <1>4 DEF DeleteInvite, owners, joins
<1>5. CASE CreateBook(r)
  <2>1. ASSUME NEW b \in Book, NEW u, b \notin MintedBooks,
               bookOwner' = [bookOwner EXCEPT ![b] = u],
               UNCHANGED <<invites, campaignOwner, inviteCamp, inviteUser,
                           joins>>
        PROVE  Growth(r)
      BY <2>1 DEF RowsOK, MintedBooks, joins
  <2>2. QED BY <1>5, <2>1, UnchangedGrowth DEF CreateBook
<1>6. CASE UpdateBook(r)
    BY <1>6, <1>2, UnchangedGrowth DEF UpdateBook, Check
<1>7. CASE DeleteBook(r) BY <1>7, <1>2, DeleteGrowth DEF DeleteBook
<1>8. CASE AddContent(r)
    BY <1>8, <1>2, <1>3, UnchangedGrowth DEF AddContent, owners
<1>9. CASE RemoveContent(r)
    BY <1>9, <1>2, <1>3, UnchangedGrowth DEF RemoveContent, owners
<1>10. CASE CreateCampaign(r)
  <2>1. ASSUME NEW c \in Campaign, NEW u, c \notin MintedCampaigns,
               campaignOwner' = [campaignOwner EXCEPT ![c] = u],
               UNCHANGED <<invites, bookOwner, inviteCamp, inviteUser, joins>>
        PROVE  Growth(r)
      BY <2>1 DEF RowsOK, MintedCampaigns, joins
  <2>2. QED BY <1>10, <2>1, UnchangedGrowth DEF CreateCampaign
<1>11. CASE UpdateCampaign(r)
    BY <1>11, <1>1, UnchangedGrowth DEF UpdateCampaign, Check
<1>12. CASE DeleteCampaign(r) BY <1>12, <1>1, DeleteGrowth DEF DeleteCampaign
<1>13. CASE EnableBook(r)
    BY <1>13, <1>1, <1>2, <1>3, UnchangedGrowth
    DEF EnableBook, InsertEnabled, owners
<1>14. CASE DisableBook(r)
    BY <1>14, <1>1, <1>3 DEF DisableBook, DeleteEnabled, owners
<1>15. CASE InviteMember(r)
  <2>1. CASE GetWritableCampaign(r, "person") BY <2>1, <1>1
  <2>2. CASE ResolveInvitee(r)
      BY <2>2, UnchangedGrowth DEF ResolveInvitee, Check
  <2>3. CASE Check(r, <<req[r].camp, req[r].who>> \notin members, "look",
                   "conflict")
      BY <2>3, UnchangedGrowth DEF Check
  <2>4. CASE FindExistingInvite(r)
      BY <2>4, UnchangedGrowth DEF FindExistingInvite
  <2>5. CASE InsertInvite(r)
      BY <1>15, <2>5, UnchangedGrowth
      DEF InviteMember, InsertInvite, InsertInviteRow, AddInvite, RowsOK,
          MintedInvites
  <2>6. CASE RenewInvite(r)
      BY <2>6, UnchangedGrowth DEF RenewInvite, owners, joins
  <2>7. QED BY <1>15, <2>1, <2>2, <2>3, <2>4, <2>5, <2>6 DEF InviteMember
<1>16. CASE RevokeInvite(r) BY <1>16, <1>1, <1>3, <1>4 DEF RevokeInvite
<1>17. CASE RemoveMember(r)
    BY <1>17, <1>3, UnchangedGrowth
    DEF RemoveMember, AuthorizeMemberRemoval, Check, DeleteMember, owners
<1>18. ASSUME NEW next, GetOwnInvite(r, next)
       PROVE  Growth(r)
    BY <1>18, UnchangedGrowth DEF GetOwnInvite, Check
<1>19. CASE AcceptInvite(r)
  <2>1. CASE Join(r)
      BY <1>19, <2>1, UnchangedGrowth DEF AcceptInvite, Join, owners
  <2>2. QED BY <1>19, <1>4, <1>18, <2>1, UnchangedGrowth DEF AcceptInvite
<1>20. CASE DeclineInvite(r) BY <1>20, <1>4, <1>18 DEF DeclineInvite
<1>21. CASE DeleteAccount(r) BY <1>21, DeleteGrowth DEF DeleteAccount
<1>22. QED
    BY <1>5, <1>6, <1>7, <1>8, <1>9, <1>10, <1>11, <1>12, <1>13, <1>14,
       <1>15, <1>16, <1>17, <1>19, <1>20, <1>21 DEF Handle

------------------------------------------------------------------------------
(* What the checks a request has passed still say about the owners.  The    *)
(* rows may be gone by the time it writes; who owned them cannot change.    *)

OwnsCampaign(q) ==
    q.camp \in Campaign /\ q.user \in User /\ campaignOwner[q.camp] = q.user

OwnsBook(q) ==
    q.book \in Book /\ q.user \in User /\ bookOwner[q.book] = q.user

InvitesOther(q) ==
    /\ q.camp \in Campaign /\ campaignOwner[q.camp] # None
    /\ campaignOwner[q.camp] # q.who

IsInvitee(q) ==
    /\ q.inv \in Invite /\ q.user \in User
    /\ inviteCamp[q.inv] # None /\ inviteUser[q.inv] = q.user

Cleared(q) ==
    /\ q.op = "enable_book" /\ q.at \in {"book", "look", "write"}
          => OwnsCampaign(q)
    /\ q.op = "enable_book" /\ q.at \in {"look", "write"} => OwnsBook(q)
    /\ q.op = "invite_member" /\ q.at = "person" => OwnsCampaign(q)
    /\ q.op = "invite_member" /\ q.at \in {"member", "look", "write"}
          => InvitesOther(q)
    /\ q.op = "accept_invite" /\ q.at \in {"member", "write"} => IsInvitee(q)

AllCleared == \A r \in Req : Cleared(req[r])

\* Every invite row was addressed to somebody else than the campaign's owner.
InvitesAddressOthers ==
    \A i \in Invite : inviteCamp[i] # None =>
        /\ campaignOwner[inviteCamp[i]] # None
        /\ campaignOwner[inviteCamp[i]] # inviteUser[i]

LiveInvitesMinted == \A i \in invites : inviteCamp[i] # None

IInv ==
    /\ TypeInv
    /\ AllCleared
    /\ InvitesAddressOthers
    /\ LiveInvitesMinted
    /\ SharedByOwner
    /\ MembersWereInvited
    /\ OwnerIsNoMember
    /\ OneInvitePerPair

\* A request that moves on is in another stage of the same operation, with
\* the same arguments, or its slot is idle.
LEMMA MovedCleared ==
    ASSUME SlotsOK, RowsOK, NEW r \in Req, NEW stage \in Stage,
           Goto(r, stage), UNCHANGED rows,
           Cleared([req[r] EXCEPT !.at = stage])
    PROVE  Cleared(req[r])'
<1>1. req'[r] = [req[r] EXCEPT !.at = stage]
    BY DEF Goto, SlotsOK
<1>2. QED
    BY <1>1
    DEF Cleared, OwnsCampaign, OwnsBook, InvitesOther, IsInvitee, rows, owners

LEMMA AnsweredCleared ==
    ASSUME SlotsOK, NEW r \in Req, NEW status, Answer(r, status)
    PROVE  Cleared(req[r])'
<1>1. req'[r] = Idle BY DEF Answer, SlotsOK
<1>2. QED
    BY <1>1, ConstantsAssumption
    DEF Cleared, Idle, OpName, BookOps, CampaignOps, InviteOps

LEMMA EnableCleared ==
    ASSUME SlotsOK, RowsOK, NEW r \in Req, Cleared(req[r]), EnableBook(r)
    PROVE  Cleared(req[r])'
<1> DEFINE q == req[r]
<1>1. q \in Request /\ q.op = "enable_book" /\ (~At(r, "idle") => q.user \in User)
    BY DEF SlotsOK, ArgsOK, EnableBook
<1>2. \A s \in Stage : [q EXCEPT !.at = s] = [op |-> "enable_book", at |-> s,
          user |-> q.user, camp |-> q.camp, book |-> q.book, who |-> q.who,
          inv |-> q.inv, item |-> q.item]
    BY <1>1 DEF Request
<1>3. CASE GetWritableCampaign(r, "book")
  <2>1. CASE Goto(r, "book") /\ CanReadCampaign(q.user, q.camp)
             /\ campaignOwner[q.camp] = q.user
    <3>1. Cleared([q EXCEPT !.at = "book"])
        BY <1>1, <1>2, <1>3, <2>1
        DEF Cleared, OwnsCampaign, CanReadCampaign, RowsOK, Stage, At,
            GetWritableCampaign
    <3>2. QED
        BY <1>3, <2>1, <3>1, MovedCleared DEF GetWritableCampaign, Check, Stage
  <2>2. QED BY <1>3, <2>1, AnsweredCleared DEF GetWritableCampaign, Check
<1>4. CASE GetWritableBook(r, "look")
  <2>1. CASE Goto(r, "look") /\ CanReadBook(q.user, q.book)
             /\ bookOwner[q.book] = q.user
    <3>1. Cleared([q EXCEPT !.at = "look"])
        BY <1>1, <1>2, <1>4, <2>1
        DEF Cleared, OwnsCampaign, OwnsBook, CanReadBook, RowsOK, Stage, At,
            GetWritableBook
    <3>2. QED
        BY <1>4, <2>1, <3>1, MovedCleared DEF GetWritableBook, Check, Stage
  <2>2. QED BY <1>4, <2>1, AnsweredCleared DEF GetWritableBook, Check
<1>5. CASE Look(r, <<q.camp, q.book>> \notin enabled)
  <2>1. Cleared([q EXCEPT !.at = "write"])
      BY <1>1, <1>2, <1>5
      DEF Cleared, OwnsCampaign, OwnsBook, Stage, At, Look
  <2>2. QED BY <1>5, <2>1, MovedCleared, AnsweredCleared DEF Look, Check, Stage
<1>6. QED BY <1>3, <1>4, <1>5, AnsweredCleared DEF EnableBook

LEMMA InviteCleared ==
    ASSUME SlotsOK, RowsOK, NEW r \in Req, Cleared(req[r]), InviteMember(r)
    PROVE  Cleared(req[r])'
<1> DEFINE q == req[r]
<1>1. q \in Request /\ q.op = "invite_member" /\ (~At(r, "idle") => q.user \in User)
    BY DEF SlotsOK, ArgsOK, InviteMember
<1>2. \A s \in Stage : [q EXCEPT !.at = s] = [op |-> "invite_member", at |-> s,
          user |-> q.user, camp |-> q.camp, book |-> q.book, who |-> q.who,
          inv |-> q.inv, item |-> q.item]
    BY <1>1 DEF Request
<1>3. CASE GetWritableCampaign(r, "person")
  <2>1. CASE Goto(r, "person") /\ CanReadCampaign(q.user, q.camp)
             /\ campaignOwner[q.camp] = q.user
    <3>1. Cleared([q EXCEPT !.at = "person"])
        BY <1>1, <1>2, <1>3, <2>1
        DEF Cleared, OwnsCampaign, CanReadCampaign, RowsOK, Stage, At,
            GetWritableCampaign
    <3>2. QED
        BY <1>3, <2>1, <3>1, MovedCleared DEF GetWritableCampaign, Check, Stage
  <2>2. QED BY <1>3, <2>1, AnsweredCleared DEF GetWritableCampaign, Check
<1>4. CASE ResolveInvitee(r)
  <2>1. CASE Goto(r, "member") /\ q.who # campaignOwner[q.camp]
    <3>1. Cleared([q EXCEPT !.at = "member"])
        BY <1>1, <1>2, <1>4, <2>1, ConstantsAssumption
        DEF Cleared, OwnsCampaign, InvitesOther, Stage, At, ResolveInvitee
    <3>2. QED
        BY <1>4, <2>1, <3>1, MovedCleared DEF ResolveInvitee, Check, Stage
  <2>2. QED BY <1>4, <2>1, AnsweredCleared DEF ResolveInvitee, Check
<1>5. CASE /\ At(r, "member")
           /\ Check(r, <<q.camp, q.who>> \notin members, "look", "conflict")
  <2>1. Cleared([q EXCEPT !.at = "look"])
      BY <1>1, <1>2, <1>5 DEF Cleared, InvitesOther, Stage, At
  <2>2. QED BY <1>5, <2>1, MovedCleared, AnsweredCleared DEF Check, Stage
<1>6. CASE FindExistingInvite(r)
  <2>1. Cleared([q EXCEPT !.at = "write"])
      BY <1>1, <1>2, <1>6
      DEF Cleared, InvitesOther, Stage, At, FindExistingInvite
  <2>2. ASSUME NEW i \in Invite,
               req' = [req EXCEPT ![r] = [@ EXCEPT !.at = "renew", !.inv = i]]
        PROVE  Cleared(req[r])'
    <3>1. req'[r] = [q EXCEPT !.at = "renew", !.inv = i]
        BY <2>2 DEF SlotsOK
    <3>2. req'[r].at = "renew" BY <1>1, <3>1 DEF Request
    <3>3. req'[r].op = "invite_member" BY <1>1, <3>1 DEF Request
    <3>4. QED BY <3>2, <3>3 DEF Cleared
  <2>3. QED
      BY <1>6, <2>1, <2>2, MovedCleared, AnsweredCleared
      DEF FindExistingInvite, PendingFor, Stage, RowsOK
<1>7. CASE InsertInvite(r) BY <1>7, AnsweredCleared DEF InsertInvite
<1>8. CASE RenewInvite(r) BY <1>8, AnsweredCleared DEF RenewInvite
<1>9. QED BY <1>3, <1>4, <1>5, <1>6, <1>7, <1>8 DEF InviteMember

LEMMA AcceptCleared ==
    ASSUME SlotsOK, RowsOK, LiveInvitesMinted, NEW r \in Req,
           Cleared(req[r]), AcceptInvite(r)
    PROVE  Cleared(req[r])'
<1> DEFINE q == req[r]
<1>1. q \in Request /\ q.op = "accept_invite" /\ (~At(r, "idle") => q.user \in User)
    BY DEF SlotsOK, ArgsOK, AcceptInvite
<1>2. \A s \in Stage : [q EXCEPT !.at = s] = [op |-> "accept_invite", at |-> s,
          user |-> q.user, camp |-> q.camp, book |-> q.book, who |-> q.who,
          inv |-> q.inv, item |-> q.item]
    BY <1>1 DEF Request
<1>3. CASE GetOwnInvite(r, "member")
  <2>1. CASE Goto(r, "member") /\ q.inv \in invites
             /\ inviteUser[q.inv] = q.user
    <3>1. Cleared([q EXCEPT !.at = "member"])
        BY <1>1, <1>2, <1>3, <2>1
        DEF Cleared, IsInvitee, LiveInvitesMinted, RowsOK, Stage, At,
            GetOwnInvite
    <3>2. QED
        BY <1>3, <2>1, <3>1, MovedCleared DEF GetOwnInvite, Check, Stage
  <2>2. QED BY <1>3, <2>1, AnsweredCleared DEF GetOwnInvite, Check
<1>4. ASSUME At(r, "member"), UNCHANGED rows, NEW s \in {"consume", "write"},
             Goto(r, s)
      PROVE  Cleared(req[r])'
  <2>1. Cleared([q EXCEPT !.at = s])
      BY <1>1, <1>2, <1>4 DEF Cleared, IsInvitee, Stage, At
  <2>2. QED BY <1>4, <2>1, MovedCleared DEF Stage
<1>5. CASE Join(r) BY <1>5, AnsweredCleared DEF Join
<1>6. QED BY <1>3, <1>4, <1>5, AnsweredCleared DEF AcceptInvite

\* A request keeps its operation until its slot is idle again.
LEMMA AdvanceOp ==
    ASSUME SlotsOK, NEW r \in Req, Advances(r)
    PROVE  req'[r].op \in {req[r].op, None}
<1>1. CASE \E s \in Stage : Goto(r, s)
    BY <1>1 DEF Goto, SlotsOK, Request
<1>2. CASE \E s \in Status : Answer(r, s)
    BY <1>2 DEF Answer, SlotsOK, Idle
<1>3. ASSUME NEW i \in Invite,
             req' = [req EXCEPT ![r] = [@ EXCEPT !.at = "renew", !.inv = i]]
      PROVE  req'[r].op = req[r].op
    BY <1>3 DEF SlotsOK, Request
<1>4. QED BY <1>1, <1>2, <1>3 DEF Advances

\* A handler of another operation leaves its request with that operation.
LEMMA OtherCleared ==
    ASSUME SlotsOK, NEW r \in Req, Advances(r),
           req[r].op \notin {"enable_book", "invite_member", "accept_invite"}
    PROVE  Cleared(req[r])'
<1>1. req'[r].op \in {req[r].op, None} BY AdvanceOp
<1>2. QED
    BY <1>1, ConstantsAssumption
    DEF Cleared, OpName, BookOps, CampaignOps, InviteOps

\* Facts that checks established hold until the request writes.
LEMMA HandleCleared ==
    ASSUME IInv, NEW r \in Req, Handle(r)
    PROVE  AllCleared'
<1> USE DEF IInv, TypeInv
<1>1. OwnersKept BY HandleGrowth DEF Growth
<1>2. Advances(r) /\ Cleared(req[r]) BY HandleAdvances DEF AllCleared
<1>3. Cleared(req[r])'
  <2>1. CASE req[r].op = "enable_book"
    <3>1. EnableBook(r)
        BY <2>1
        DEF Handle, CreateBook, UpdateBook, DeleteBook, AddContent,
            RemoveContent, CreateCampaign, UpdateCampaign, DeleteCampaign,
            DisableBook, InviteMember, RevokeInvite, RemoveMember,
            AcceptInvite, DeclineInvite, DeleteAccount
    <3>2. QED BY <3>1, <1>2, EnableCleared
  <2>2. CASE req[r].op = "invite_member"
    <3>1. InviteMember(r)
        BY <2>2
        DEF Handle, CreateBook, UpdateBook, DeleteBook, AddContent,
            RemoveContent, CreateCampaign, UpdateCampaign, DeleteCampaign,
            DisableBook, EnableBook, RevokeInvite, RemoveMember,
            AcceptInvite, DeclineInvite, DeleteAccount
    <3>2. QED BY <3>1, <1>2, InviteCleared
  <2>3. CASE req[r].op = "accept_invite"
    <3>1. AcceptInvite(r)
        BY <2>3
        DEF Handle, CreateBook, UpdateBook, DeleteBook, AddContent,
            RemoveContent, CreateCampaign, UpdateCampaign, DeleteCampaign,
            DisableBook, EnableBook, RevokeInvite, RemoveMember,
            InviteMember, DeclineInvite, DeleteAccount
    <3>2. QED BY <3>1, <1>2, AcceptCleared
  <2>4. QED BY <2>1, <2>2, <2>3, <1>2, OtherCleared
<1>4. ASSUME NEW q \in Req, q # r
      PROVE  Cleared(req[q])'
  <2>1. req'[q] = req[q]
      BY <1>2, <1>4 DEF Advances, Goto, Answer, SlotsOK
  <2>2. Cleared(req[q]) BY DEF AllCleared
  <2>3. QED
      BY <1>1, <2>1, <2>2, ConstantsAssumption
      DEF Cleared, OwnsCampaign, OwnsBook, InvitesOther, IsInvitee,
          OwnersKept, RowsOK
<1>5. QED BY <1>3, <1>4 DEF AllCleared

\* A request that just arrived has passed no check yet.
LEMMA ReceiveCleared ==
    ASSUME IInv, NEW r \in Req, Receive(r)
    PROVE  AllCleared'
<1>1. PICK new : /\ req' = [req EXCEPT ![r] = new]
                 /\ new.at = FirstStage(new.op)
  <2>1. PICK op \in Op, u \in users :
          \E c \in Arg(op, CampaignOps, MintedCampaigns),
             b \in Arg(op, BookOps, MintedBooks \cup {SrdBook}),
             w \in Arg(op, HandleOps, User),
             i \in Arg(op, InviteOps, MintedInvites),
             x \in Arg(op, ContentOps, Content) :
               req' = [req EXCEPT ![r] = NewRequest(op, u, c, b, w, i, x)]
      BY DEF Receive
  <2>2. PICK c \in Arg(op, CampaignOps, MintedCampaigns),
             b \in Arg(op, BookOps, MintedBooks \cup {SrdBook}),
             w \in Arg(op, HandleOps, User),
             i \in Arg(op, InviteOps, MintedInvites),
             x \in Arg(op, ContentOps, Content) :
               req' = [req EXCEPT ![r] = NewRequest(op, u, c, b, w, i, x)]
      BY <2>1
  <2>3. LET new == NewRequest(op, u, c, b, w, i, x)
        IN  new.at = FirstStage(new.op)
      BY DEF NewRequest
  <2>4. QED BY <2>2, <2>3
<1>2. req'[r].at = FirstStage(req'[r].op)
    BY <1>1 DEF IInv, TypeInv, SlotsOK
<1>3. Cleared(req[r])'
    BY <1>2 DEF Cleared, FirstStage, CampaignOps
<1>4. ASSUME NEW q \in Req, q # r
      PROVE  Cleared(req[q])'
  <2>1. req'[q] = req[q] BY <1>1, <1>4 DEF IInv, TypeInv, SlotsOK
  <2>2. QED
      BY <2>1
      DEF IInv, AllCleared, Cleared, OwnsCampaign, OwnsBook, InvitesOther,
          IsInvitee, Receive, rows, owners
<1>5. QED BY <1>3, <1>4 DEF AllCleared

------------------------------------------------------------------------------
(* One lemma per part of the invariant.                                     *)

LEMMA SharedStep ==
    ASSUME IInv, NEW r \in Req, Handle(r)
    PROVE  SharedByOwner'
<1>1. OwnersKept /\ EnabledGrowth(r) BY HandleGrowth DEF Growth, IInv, TypeInv
<1>2. ASSUME NEW e \in enabled
      PROVE  bookOwner'[e[2]] = campaignOwner'[e[1]] /\ bookOwner'[e[2]] # None
    BY <1>1 DEF IInv, TypeInv, RowsOK, SharedByOwner, OwnersKept
<1>3. CASE enabled' \subseteq enabled BY <1>2, <1>3 DEF SharedByOwner
<1>4. CASE /\ req[r].op = "enable_book" /\ At(r, "write")
           /\ enabled' = enabled \cup {<<req[r].camp, req[r].book>>}
  <2>1. OwnsCampaign(req[r]) /\ OwnsBook(req[r])
      BY <1>4 DEF IInv, AllCleared, Cleared, At
  <2>2. /\ bookOwner'[req[r].book] = campaignOwner'[req[r].camp]
        /\ bookOwner'[req[r].book] # None
      BY <2>1, <1>1, ConstantsAssumption
      DEF OwnsCampaign, OwnsBook, OwnersKept
  <2>3. QED BY <1>2, <1>4, <2>2 DEF SharedByOwner
<1>5. QED BY <1>1, <1>3, <1>4 DEF EnabledGrowth

LEMMA InvitesStep ==
    ASSUME IInv, NEW r \in Req, Handle(r)
    PROVE  InvitesAddressOthers' /\ LiveInvitesMinted' /\ OneInvitePerPair'
<1> USE DEF IInv, TypeInv
<1>1. OwnersKept /\ InviteGrowth(r) BY HandleGrowth DEF Growth
<1>2. CASE invites' \subseteq invites /\ UNCHANGED <<inviteCamp, inviteUser>>
    BY <1>1, <1>2
    DEF InvitesAddressOthers, LiveInvitesMinted, OneInvitePerPair, OwnersKept,
        RowsOK
<1>3. CASE /\ req[r].op = "invite_member" /\ At(r, "write")
           /\ InviteInsertable(req[r].camp, req[r].who)
           /\ \E i \in Invite \ MintedInvites :
                 /\ invites' = invites \cup {i}
                 /\ inviteCamp' = [inviteCamp EXCEPT ![i] = req[r].camp]
                 /\ inviteUser' = [inviteUser EXCEPT ![i] = req[r].who]
  <2> DEFINE c == req[r].camp
             w == req[r].who
  <2>1. InvitesOther(req[r]) BY <1>3 DEF AllCleared, Cleared, At
  <2>2. /\ c \in Campaign /\ w \in User /\ c # None
        /\ \A j \in invites : ~(inviteCamp[j] = c /\ inviteUser[j] = w)
      BY <1>3, ConstantsAssumption
      DEF InviteInsertable, PendingFor, RowsOK
  <2>3. PICK i \in Invite :
          /\ inviteCamp[i] = None
          /\ invites' = invites \cup {i}
          /\ inviteCamp' = [inviteCamp EXCEPT ![i] = c]
          /\ inviteUser' = [inviteUser EXCEPT ![i] = w]
      BY <1>3 DEF MintedInvites
  <2>4. InvitesAddressOthers'
    <3>1. ASSUME NEW j \in Invite, inviteCamp'[j] # None
          PROVE  /\ campaignOwner'[inviteCamp'[j]] # None
                 /\ campaignOwner'[inviteCamp'[j]] # inviteUser'[j]
      <4>1. CASE j = i
          BY <4>1, <1>1, <2>1, <2>3 DEF InvitesOther, OwnersKept, RowsOK
      <4>2. CASE j # i
          BY <4>2, <3>1, <1>1, <2>3
          DEF InvitesAddressOthers, OwnersKept, RowsOK
      <4>3. QED BY <4>1, <4>2
    <3>2. QED BY <3>1 DEF InvitesAddressOthers
  <2>5. LiveInvitesMinted'
      BY <2>2, <2>3 DEF LiveInvitesMinted, RowsOK
  <2>6. OneInvitePerPair'
    <3>1. ASSUME NEW j \in invites
          PROVE  j # i /\ inviteCamp'[j] = inviteCamp[j]
                       /\ inviteUser'[j] = inviteUser[j]
        BY <2>3 DEF LiveInvitesMinted, RowsOK
    <3>2. inviteCamp'[i] = c /\ inviteUser'[i] = w BY <2>3 DEF RowsOK
    <3>3. QED BY <2>2, <2>3, <3>1, <3>2 DEF OneInvitePerPair
  <2>7. QED BY <2>4, <2>5, <2>6
<1>4. QED BY <1>1, <1>2, <1>3 DEF InviteGrowth

LEMMA MembersStep ==
    ASSUME IInv, NEW r \in Req, Handle(r)
    PROVE  MembersWereInvited' /\ OwnerIsNoMember'
<1> USE DEF IInv, TypeInv
<1>1. OwnersKept /\ MemberGrowth(r) BY HandleGrowth DEF Growth
<1>2. ASSUME NEW m \in members
      PROVE  /\ \E i \in Invite : inviteCamp'[i] = m[1] /\ inviteUser'[i] = m[2]
             /\ campaignOwner'[m[1]] # m[2]
  <2>1. PICK i \in Invite : inviteCamp[i] = m[1] /\ inviteUser[i] = m[2]
      BY DEF MembersWereInvited
  <2>2. m[1] \in Campaign /\ m[1] # None
      BY ConstantsAssumption DEF RowsOK
  <2>3. inviteCamp'[i] = m[1] /\ inviteUser'[i] = m[2]
      BY <1>1, <2>1, <2>2 DEF OwnersKept
  <2>4. campaignOwner[m[1]] # None BY <2>1, <2>2 DEF InvitesAddressOthers
  <2>5. QED
      BY <1>1, <2>2, <2>3, <2>4 DEF OwnersKept, OwnerIsNoMember
<1>3. CASE members' \subseteq members
    BY <1>2, <1>3 DEF MembersWereInvited, OwnerIsNoMember
<1>4. CASE /\ req[r].op = "accept_invite" /\ At(r, "write")
           /\ inviteCamp[req[r].inv] \in campaigns
           /\ members' = members \cup {<<inviteCamp[req[r].inv], req[r].user>>}
  <2> DEFINE i == req[r].inv
  <2>1. IsInvitee(req[r]) BY <1>4 DEF AllCleared, Cleared, At
  <2>2. i \in Invite /\ inviteCamp'[i] = inviteCamp[i]
          /\ inviteUser'[i] = req[r].user
      BY <1>1, <2>1 DEF IsInvitee, OwnersKept
  <2>3. inviteCamp[i] \in Campaign BY <1>4 DEF RowsOK
  <2>4. campaignOwner'[inviteCamp[i]] # req[r].user
      BY <1>1, <2>1, <2>3 DEF InvitesAddressOthers, OwnersKept, IsInvitee
  <2>5. QED
      BY <1>2, <1>4, <2>2, <2>4 DEF MembersWereInvited, OwnerIsNoMember
<1>5. QED BY <1>1, <1>3, <1>4 DEF MemberGrowth

LEMMA InvStep == IInv /\ [Next]_vars => IInv'
<1> SUFFICES ASSUME IInv, [Next]_vars PROVE IInv'
    OBVIOUS
<1>1. TypeInv' BY TypeStep DEF IInv
<1>2. CASE \E r \in Req : Handle(r)
    BY <1>1, <1>2, HandleCleared, SharedStep, InvitesStep, MembersStep DEF IInv
<1>3. ASSUME UNCHANGED <<bookOwner, campaignOwner, inviteCamp, inviteUser,
                         enabled, members, invites>>
      PROVE  /\ InvitesAddressOthers' /\ LiveInvitesMinted' /\ SharedByOwner'
             /\ MembersWereInvited' /\ OwnerIsNoMember' /\ OneInvitePerPair'
    BY <1>3
    DEF IInv, InvitesAddressOthers, LiveInvitesMinted, SharedByOwner,
        MembersWereInvited, OwnerIsNoMember, OneInvitePerPair
<1>4. CASE \E r \in Req : Receive(r)
    BY <1>1, <1>3, <1>4, ReceiveCleared
    DEF IInv, Receive, rows, owners, joins
<1>5. CASE Lapse \/ UNCHANGED vars
  <2>1. AllCleared'
      BY <1>5
      DEF IInv, AllCleared, Cleared, OwnsCampaign, OwnsBook, InvitesOther,
          IsInvitee, Lapse, vars, rows, owners
  <2>2. QED
      BY <1>1, <1>3, <1>5, <2>1 DEF IInv, Lapse, vars, rows, owners, joins
<1>6. QED BY <1>2, <1>4, <1>5 DEF Next

LEMMA InvInit == Init => IInv
<1> SUFFICES ASSUME Init PROVE IInv
    OBVIOUS
<1>1. AllCleared
    BY ConstantsAssumption
    DEF Init, AllCleared, Cleared, Idle, OpName, BookOps, CampaignOps,
        InviteOps
<1>2. QED
    BY <1>1, TypeInit
    DEF Init, IInv, InvitesAddressOthers, LiveInvitesMinted, SharedByOwner,
        MembersWereInvited, OwnerIsNoMember, OneInvitePerPair

LEMMA Invariance == Spec => []IInv
BY InvInit, InvStep, PTL DEF Spec

\* However requests interleave, a campaign shares only its owner's books.
THEOREM SharingIsByOwner == Spec => []SharedByOwner
<1>1. IInv => SharedByOwner BY DEF IInv
<1>2. QED BY <1>1, Invariance, PTL

\* However requests interleave, every member holds an invite to the campaign
\* that was addressed to that very account.
THEOREM MembershipIsByInvite == Spec => []MembersWereInvited
<1>1. IInv => MembersWereInvited BY DEF IInv
<1>2. QED BY <1>1, Invariance, PTL

\* No interleaving makes an owner a member of their own campaign.
THEOREM OwnersAreNotMembers == Spec => []OwnerIsNoMember
<1>1. IInv => OwnerIsNoMember BY DEF IInv
<1>2. QED BY <1>1, Invariance, PTL

\* No race between invites for one person leaves two rows.
THEOREM InvitesAreUnique == Spec => []OneInvitePerPair
<1>1. IInv => OneInvitePerPair BY DEF IInv
<1>2. QED BY <1>1, Invariance, PTL

------------------------------------------------------------------------------
(* Deletions and their cascades.                                            *)

LEMMA UnchangedDangling ==
    ASSUME NoDanglingRows, UNCHANGED rows
    PROVE  NoDanglingRows'
BY DEF NoDanglingRows, rows, owners, joins

\* A cascade leaves nothing that refers to what it deleted.
LEMMA DeleteDangling ==
    ASSUME RowsOK, NoDanglingRows, NEW us, NEW bs, NEW cs,
           DeleteRows(us, bs, cs)
    PROVE  NoDanglingRows'
<1>1. \A b \in books' \ {SrdBook} : bookOwner'[b] \in users'
    BY DEF NoDanglingRows, DeleteRows, owners
<1>2. \A c \in campaigns' : campaignOwner'[c] \in users'
    BY DEF NoDanglingRows, DeleteRows, owners
<1>3. \A i \in invites' : inviteCamp'[i] \in campaigns'
                          /\ inviteUser'[i] \in users'
    BY DEF DeleteRows, owners
<1>4. enabled' \subseteq campaigns' \X books'
    BY DEF RowsOK, DeleteRows
<1>5. members' \subseteq campaigns' \X users'
    BY DEF RowsOK, DeleteRows
<1>6. contents' \subseteq books' \X Content
    BY DEF RowsOK, DeleteRows
<1>7. QED BY <1>1, <1>2, <1>3, <1>4, <1>5, <1>6 DEF NoDanglingRows

\* Every handler's writes are checked against rows that are still there.
LEMMA HandleDangling ==
    ASSUME TypeInv, NoDanglingRows, NEW r \in Req, Handle(r)
    PROVE  NoDanglingRows'
<1> USE DEF TypeInv
<1>1. ASSUME NEW next, GetWritableCampaign(r, next)
      PROVE  NoDanglingRows'
    BY <1>1, UnchangedDangling DEF GetWritableCampaign, Check
<1>2. ASSUME NEW next, GetWritableBook(r, next)
      PROVE  NoDanglingRows'
    BY <1>2, UnchangedDangling DEF GetWritableBook, Check
<1>3. ASSUME NEW needed, Look(r, needed)
      PROVE  NoDanglingRows'
    BY <1>3, UnchangedDangling DEF Look, Check
<1>4. ASSUME NEW i, DeleteInvite(i)
      PROVE  NoDanglingRows'
    BY <1>4 DEF DeleteInvite, NoDanglingRows, owners, joins
<1>5. ASSUME NEW next, GetOwnInvite(r, next)
      PROVE  NoDanglingRows'
    BY <1>5, UnchangedDangling DEF GetOwnInvite, Check
<1>6. CASE CreateBook(r)
  <2>1. ASSUME NEW b \in Book \ (MintedBooks \cup {SrdBook}),
               req[r].user \in users, books' = books \cup {b},
               bookOwner' = [bookOwner EXCEPT ![b] = req[r].user],
               UNCHANGED <<users, campaigns, invites, campaignOwner,
                           inviteCamp, inviteUser, joins>>
        PROVE  NoDanglingRows'
      BY <2>1, ConstantsAssumption
      DEF NoDanglingRows, RowsOK, MintedBooks, joins
  <2>2. QED BY <1>6, <2>1, UnchangedDangling DEF CreateBook
<1>7. CASE UpdateBook(r)
    BY <1>2, <1>7, UnchangedDangling DEF UpdateBook, Check
<1>8. CASE DeleteBook(r) BY <1>2, <1>8, DeleteDangling DEF DeleteBook
<1>9. CASE AddContent(r)
  <2>1. ASSUME req[r].book \in books,
               contents' = contents \cup {<<req[r].book, req[r].item>>},
               UNCHANGED <<users, books, campaigns, invites, owners, enabled,
                           members>>
        PROVE  NoDanglingRows'
    <3>1. req[r].item \in Content
        BY <1>9 DEF AddContent, SlotsOK, ArgsOK, ContentOps
    <3>2. QED BY <2>1, <3>1 DEF NoDanglingRows, owners
  <2>2. QED BY <1>2, <1>3, <1>9, <2>1, UnchangedDangling DEF AddContent
<1>10. CASE RemoveContent(r)
    BY <1>2, <1>3, <1>10 DEF RemoveContent, NoDanglingRows, owners
<1>11. CASE CreateCampaign(r)
  <2>1. ASSUME NEW c \in Campaign \ MintedCampaigns, req[r].user \in users,
               campaigns' = campaigns \cup {c},
               campaignOwner' = [campaignOwner EXCEPT ![c] = req[r].user],
               UNCHANGED <<users, books, invites, bookOwner, inviteCamp,
                           inviteUser, joins>>
        PROVE  NoDanglingRows'
      BY <2>1, ConstantsAssumption
      DEF NoDanglingRows, RowsOK, MintedCampaigns, joins
  <2>2. QED BY <1>11, <2>1, UnchangedDangling DEF CreateCampaign
<1>12. CASE UpdateCampaign(r)
    BY <1>1, <1>12, UnchangedDangling DEF UpdateCampaign, Check
<1>13. CASE DeleteCampaign(r)
    BY <1>1, <1>13, DeleteDangling DEF DeleteCampaign
<1>14. CASE EnableBook(r)
  <2>1. ASSUME NEW c \in campaigns, NEW b \in books, InsertEnabled(c, b)
        PROVE  NoDanglingRows'
      BY <2>1 DEF InsertEnabled, NoDanglingRows, owners
  <2>2. QED
      BY <1>1, <1>2, <1>3, <1>14, <2>1, UnchangedDangling DEF EnableBook
<1>15. CASE DisableBook(r)
    BY <1>1, <1>3, <1>15 DEF DisableBook, DeleteEnabled, NoDanglingRows, owners
<1>16. CASE InviteMember(r)
  <2>1. ASSUME NEW c \in campaigns, NEW w \in users, InsertInviteRow(c, w)
        PROVE  NoDanglingRows'
    <3>1. PICK i \in Invite \ MintedInvites :
             /\ invites' = invites \cup {i}
             /\ inviteCamp' = [inviteCamp EXCEPT ![i] = c]
             /\ inviteUser' = [inviteUser EXCEPT ![i] = w]
        BY <2>1 DEF InsertInviteRow, AddInvite
    <3>2. \A j \in invites' : inviteCamp'[j] \in campaigns
                              /\ inviteUser'[j] \in users
        BY <3>1 DEF NoDanglingRows, RowsOK
    <3>3. UNCHANGED <<users, books, campaigns, bookOwner, campaignOwner,
                      enabled, members, contents>>
        BY <2>1 DEF InsertInviteRow, AddInvite
    <3>4. QED BY <3>2, <3>3 DEF NoDanglingRows
  <2>2. CASE InsertInvite(r)
      BY <2>1, <2>2, UnchangedDangling DEF InsertInvite, InviteInsertable
  <2>3. CASE RenewInvite(r)
      BY <2>3, UnchangedDangling DEF RenewInvite, NoDanglingRows, owners, joins
  <2>4. CASE ResolveInvitee(r) \/ FindExistingInvite(r)
      BY <2>4, UnchangedDangling DEF ResolveInvitee, FindExistingInvite, Check
  <2>5. QED
      BY <1>1, <1>16, <2>2, <2>3, <2>4, UnchangedDangling
      DEF InviteMember, Check
<1>17. CASE RevokeInvite(r) BY <1>1, <1>3, <1>4, <1>17 DEF RevokeInvite
<1>18. CASE RemoveMember(r)
    BY <1>3, <1>18, UnchangedDangling
    DEF RemoveMember, AuthorizeMemberRemoval, Check, DeleteMember,
        NoDanglingRows, owners
<1>19. CASE AcceptInvite(r)
  <2>1. CASE Join(r)
      BY <2>1, UnchangedDangling DEF Join, NoDanglingRows, owners
  <2>2. QED BY <1>4, <1>5, <1>19, <2>1, UnchangedDangling DEF AcceptInvite
<1>20. CASE DeclineInvite(r) BY <1>4, <1>5, <1>20 DEF DeclineInvite
<1>21. CASE DeleteAccount(r) BY <1>21, DeleteDangling DEF DeleteAccount
<1>22. QED
    BY <1>6, <1>7, <1>8, <1>9, <1>10, <1>11, <1>12, <1>13, <1>14, <1>15,
       <1>16, <1>17, <1>18, <1>19, <1>20, <1>21 DEF Handle

\* No row survives what it refers to, whatever requests are in flight.
THEOREM DeletionsCascade == Spec => []NoDanglingRows
<1>1. Init => NoDanglingRows BY DEF Init, NoDanglingRows
<1>2. TypeInv /\ NoDanglingRows /\ [Next]_vars => NoDanglingRows'
  <2> SUFFICES ASSUME TypeInv, NoDanglingRows, [Next]_vars
               PROVE  NoDanglingRows'
      OBVIOUS
  <2>1. CASE Lapse BY <2>1 DEF Lapse, NoDanglingRows, owners, joins
  <2>2. CASE \E r \in Req : Receive(r)
      BY <2>2, UnchangedDangling DEF Receive
  <2>3. CASE \E r \in Req : Handle(r) BY <2>3, HandleDangling
  <2>4. CASE UNCHANGED vars BY <2>4, UnchangedDangling DEF vars
  <2>5. QED BY <2>1, <2>2, <2>3, <2>4 DEF Next
<1>3. Spec => []TypeInv BY TypeInit, TypeStep, PTL DEF Spec
<1>4. QED BY <1>1, <1>2, <1>3, PTL DEF Spec
==============================================================================
