------------------------------- MODULE Sharing -------------------------------
(***************************************************************************)
(* Books, campaigns, membership and invites of the API: the tables of      *)
(* models/book.py and models/campaign.py and the handlers of               *)
(* routers/books.py, routers/campaigns.py and routers/campaign_invites.py, *)
(* with the access rules of authz.py they all go through.                  *)
(*                                                                         *)
(* Each request runs in its own database session under READ COMMITTED, so  *)
(* a handler is a sequence of steps, one per awaited statement, and other  *)
(* requests commit between them.  A statement and the commit that follows  *)
(* it with nothing read in between form one step.  A request is a record   *)
(* with its operation, its next stage and its path and body arguments; the *)
(* fields a handler reads from a loaded row (an owner, an invite's         *)
(* campaign) are immutable, so the registries below give them even after   *)
(* the row is gone.                                                        *)
(***************************************************************************)
EXTENDS Naturals, FiniteSets

CONSTANTS
    User,        \* account ids; the public handle stands for the id
    Book,        \* book ids, the system book included
    Campaign,    \* campaign ids
    Invite,      \* invite ids
    Content,     \* monsters, spells and items of the read-only catalogue
    Req,         \* slots for concurrent requests
    Op,          \* the operations the clients of this instance call
    SrdBook,     \* the public system book
    None         \* SQL NULL, and the argument an operation does not take

BookOps      == {"update_book", "delete_book", "enable_book", "disable_book",
                 "add_content", "remove_content"}
CampaignOps  == {"update_campaign", "delete_campaign", "enable_book",
                 "disable_book", "invite_member", "revoke_invite",
                 "remove_member"}
HandleOps    == {"invite_member", "remove_member"}
InviteOps    == {"revoke_invite", "accept_invite", "decline_invite"}
ContentOps   == {"add_content", "remove_content"}
OpName       == BookOps \cup CampaignOps \cup InviteOps
                  \cup {"create_book", "create_campaign", "delete_account"}

ASSUME ConstantsAssumption ==
    /\ SrdBook \in Book
    /\ None \notin User \cup Book \cup Campaign \cup Invite \cup Content
    /\ None \notin OpName
    /\ Op \subseteq OpName

VARIABLES
    users,         \* live accounts
    books,         \* live books
    campaigns,     \* live campaigns
    invites,       \* live invite rows
    bookOwner,     \* books.owner_id of every book ever inserted
    campaignOwner, \* campaigns.owner_id of every campaign ever inserted
    inviteCamp,    \* campaign_invites.campaign_id of every invite ever inserted
    inviteUser,    \* campaign_invites.invitee_user_id likewise
    lapsed,        \* live invites whose expires_at has passed
    enabled,       \* campaign_books: <<campaign, book>>
    members,       \* campaign_members: <<campaign, user>>
    contents,      \* book_monsters, book_spells, book_items: <<book, content>>
    req,           \* the request in each slot
    answer         \* the last answer of each slot

owners == <<bookOwner, campaignOwner, inviteCamp, inviteUser>>
joins  == <<enabled, members, contents>>
rows   == <<users, books, campaigns, invites, lapsed, owners, joins>>
vars   == <<rows, req, answer>>

Stage == {"idle", "campaign", "book", "person", "member", "look",
          "write", "renew", "consume", "refresh"}

Request == [op: OpName \cup {None}, at: Stage, user: User \cup {None},
            camp: Campaign \cup {None}, book: Book \cup {None},
            who: User \cup {None}, inv: Invite \cup {None},
            item: Content \cup {None}]

Idle == [op |-> None, at |-> "idle", user |-> None, camp |-> None,
         book |-> None, who |-> None, inv |-> None, item |-> None]

\* 2xx, 400, 403, 404, 409, and 500 for an exception no handler catches.
Status == {"none", "ok", "bad_request", "forbidden", "not_found",
           "conflict", "failed"}

MintedBooks     == {b \in Book : bookOwner[b] # None}
MintedCampaigns == {c \in Campaign : campaignOwner[c] # None}
MintedInvites   == {i \in Invite : inviteCamp[i] # None}

------------------------------------------------------------------------------
(* Access rules: authz.py.                                                  *)

CanReadBook(u, b) ==
    /\ b \in books
    /\ \/ bookOwner[b] = u
       \/ b = SrdBook
       \/ \E c \in Campaign : <<c, b>> \in enabled /\ <<c, u>> \in members

CanReadCampaign(u, c) ==
    /\ c \in campaigns
    /\ campaignOwner[c] = u \/ <<c, u>> \in members

------------------------------------------------------------------------------
(* How a request advances and ends.                                         *)

At(r, stage) == req[r].at = stage

Goto(r, stage) ==
    /\ req' = [req EXCEPT ![r].at = stage]
    /\ UNCHANGED answer

Answer(r, status) ==
    /\ req' = [req EXCEPT ![r] = Idle]
    /\ answer' = [answer EXCEPT ![r] = status]

\* Continue at stage when the condition holds, else answer with status.
Check(r, condition, stage, status) ==
    /\ UNCHANGED rows
    /\ \/ condition /\ Goto(r, stage)
       \/ ~condition /\ Answer(r, status)

GetWritableCampaign(r, next) ==
    LET u == req[r].user
        c == req[r].camp
    IN  /\ At(r, "campaign")
        /\ Check(r, CanReadCampaign(u, c) /\ campaignOwner[c] = u, next,
                 IF CanReadCampaign(u, c) THEN "forbidden" ELSE "not_found")

\* Faulty variant: any readable book may be modified.
GetReadableBook(r, next) ==
    /\ At(r, "book")
    /\ Check(r, CanReadBook(req[r].user, req[r].book), next, "not_found")

GetWritableBook(r, next) ==
    LET u == req[r].user
        b == req[r].book
    IN  /\ At(r, "book")
        /\ Check(r, CanReadBook(u, b) /\ b # SrdBook /\ bookOwner[b] = u, next,
                 IF CanReadBook(u, b) THEN "forbidden" ELSE "not_found")

\* The SELECT before an idempotent write: nothing to do answers 204.
Look(r, needed) ==
    /\ At(r, "look")
    /\ Check(r, needed, "write", "ok")

------------------------------------------------------------------------------
(* Foreign keys: every one of them is ON DELETE CASCADE.                    *)

DeleteRows(us, bs, cs) ==
    /\ users' = users \ us
    /\ books' = {b \in books \ bs : bookOwner[b] \notin us}
    /\ campaigns' = {c \in campaigns \ cs : campaignOwner[c] \notin us}
    /\ invites' = {i \in invites : /\ inviteCamp[i] \in campaigns'
                                   /\ inviteUser[i] \in users'}
    /\ lapsed' = lapsed \cap invites'
    /\ enabled' = {e \in enabled : e[1] \in campaigns' /\ e[2] \in books'}
    /\ members' = {m \in members : m[1] \in campaigns' /\ m[2] \in users'}
    /\ contents' = {x \in contents : x[1] \in books'}
    /\ UNCHANGED owners

\* Faulty variant: the two foreign keys are swapped.
InsertEnabledSwapped(c, b) ==
    /\ enabled' = enabled \cup {<<b, c>>}
    /\ UNCHANGED <<users, books, campaigns, invites, lapsed, owners, members,
                   contents>>

InsertEnabled(c, b) ==
    /\ enabled' = enabled \cup {<<c, b>>}
    /\ UNCHANGED <<users, books, campaigns, invites, lapsed, owners, members,
                   contents>>

DeleteEnabled(c, b) ==
    /\ enabled' = enabled \ {<<c, b>>}
    /\ UNCHANGED <<users, books, campaigns, invites, lapsed, owners, members,
                   contents>>

DeleteMember(c, u) ==
    /\ members' = members \ {<<c, u>>}
    /\ UNCHANGED <<users, books, campaigns, invites, lapsed, owners, enabled,
                   contents>>

DeleteInvite(i) ==
    /\ invites' = invites \ {i}
    /\ lapsed' = lapsed \ {i}
    /\ UNCHANGED <<users, books, campaigns, owners, joins>>

------------------------------------------------------------------------------
(* Accounts and time.                                                       *)

\* routers/account.py: the row and everything it owns go in one commit.
DeleteAccount(r) ==
    /\ req[r].op = "delete_account" /\ At(r, "write")
    /\ DeleteRows({req[r].user}, {}, {})
    /\ Answer(r, "ok")

\* expires_at passes for a pending invite.
Lapse ==
    \E i \in invites \ lapsed :
        /\ lapsed' = lapsed \cup {i}
        /\ UNCHANGED <<users, books, campaigns, invites, owners, joins, req,
                       answer>>

------------------------------------------------------------------------------
(* Books: routers/books.py.                                                 *)

CreateBook(r) ==
    LET u == req[r].user
    IN  /\ req[r].op = "create_book" /\ At(r, "write")
        /\ \/ /\ u \in users
              /\ \E b \in Book \ (MintedBooks \cup {SrdBook}) :
                    /\ books' = books \cup {b}
                    /\ bookOwner' = [bookOwner EXCEPT ![b] = u]
              /\ UNCHANGED <<users, campaigns, invites, lapsed, campaignOwner,
                             inviteCamp, inviteUser, joins>>
              /\ Answer(r, "ok")
           \/ u \notin users /\ UNCHANGED rows /\ Answer(r, "failed")

\* The UPDATE of a row that is gone raises, and so does the refresh after it.
UpdateBook(r) ==
    /\ req[r].op = "update_book"
    /\ \/ GetWritableBook(r, "write")
       \/ At(r, "write") /\ Check(r, req[r].book \in books, "refresh", "failed")
       \/ /\ At(r, "refresh")
          /\ UNCHANGED rows
          /\ Answer(r, IF req[r].book \in books THEN "ok" ELSE "failed")

DeleteBook(r) ==
    /\ req[r].op = "delete_book"
    /\ \/ GetWritableBook(r, "write")
       \/ At(r, "write") /\ DeleteRows({}, {req[r].book}, {}) /\ Answer(r, "ok")

AddContent(r) ==
    LET x == <<req[r].book, req[r].item>>
    IN  /\ req[r].op = "add_content"
        /\ \/ GetWritableBook(r, "look")
           \/ Look(r, x \notin contents)
           \/ /\ At(r, "write") /\ x[1] \in books /\ x \notin contents
              /\ contents' = contents \cup {x}
              /\ UNCHANGED <<users, books, campaigns, invites, lapsed, owners,
                             enabled, members>>
              /\ Answer(r, "ok")
           \/ /\ At(r, "write") /\ (x[1] \notin books \/ x \in contents)
              /\ UNCHANGED rows
              /\ Answer(r, "failed")

RemoveContent(r) ==
    LET x == <<req[r].book, req[r].item>>
    IN  /\ req[r].op = "remove_content"
        /\ \/ GetWritableBook(r, "look")
           \/ Look(r, x \in contents)
           \/ /\ At(r, "write")
              /\ contents' = contents \ {x}
              /\ UNCHANGED <<users, books, campaigns, invites, lapsed, owners,
                             enabled, members>>
              /\ Answer(r, "ok")

------------------------------------------------------------------------------
(* Campaigns and the books they share: routers/campaigns.py.                *)

CreateCampaign(r) ==
    LET u == req[r].user
    IN  /\ req[r].op = "create_campaign" /\ At(r, "write")
        /\ \/ /\ u \in users
              /\ \E c \in Campaign \ MintedCampaigns :
                    /\ campaigns' = campaigns \cup {c}
                    /\ campaignOwner' = [campaignOwner EXCEPT ![c] = u]
              /\ UNCHANGED <<users, books, invites, lapsed, bookOwner,
                             inviteCamp, inviteUser, joins>>
              /\ Answer(r, "ok")
           \/ u \notin users /\ UNCHANGED rows /\ Answer(r, "failed")

UpdateCampaign(r) ==
    LET c == req[r].camp
    IN  /\ req[r].op = "update_campaign"
        /\ \/ GetWritableCampaign(r, "write")
           \/ At(r, "write") /\ Check(r, c \in campaigns, "refresh", "failed")
           \/ /\ At(r, "refresh")
              /\ UNCHANGED rows
              /\ Answer(r, IF c \in campaigns THEN "ok" ELSE "failed")

DeleteCampaign(r) ==
    /\ req[r].op = "delete_campaign"
    /\ \/ GetWritableCampaign(r, "write")
       \/ At(r, "write") /\ DeleteRows({}, {}, {req[r].camp}) /\ Answer(r, "ok")

EnableBook(r) ==
    LET c == req[r].camp
        b == req[r].book
        insertable == c \in campaigns /\ b \in books /\ <<c, b>> \notin enabled
    IN  /\ req[r].op = "enable_book"
        /\ \/ GetWritableCampaign(r, "book")
           \/ GetWritableBook(r, "look")
           \/ Look(r, <<c, b>> \notin enabled)
           \/ /\ At(r, "write") /\ insertable
              /\ InsertEnabled(c, b)
              /\ Answer(r, "ok")
           \/ /\ At(r, "write") /\ ~insertable
              /\ UNCHANGED rows
              /\ Answer(r, "failed")

DisableBook(r) ==
    LET c == req[r].camp
        b == req[r].book
    IN  /\ req[r].op = "disable_book"
        /\ \/ GetWritableCampaign(r, "look")
           \/ Look(r, <<c, b>> \in enabled)
           \/ At(r, "write") /\ DeleteEnabled(c, b) /\ Answer(r, "ok")

------------------------------------------------------------------------------
(* Membership, the owner's side: routers/campaigns.py.                      *)

PendingFor(c, u) == {i \in invites : inviteCamp[i] = c /\ inviteUser[i] = u}

\* Faulty variant: the owner is not refused.
ResolveAnyone(r) ==
    /\ At(r, "person")
    /\ Check(r, req[r].who \in users, "member", "not_found")

\* The handle is resolved, then the owner is refused as an invitee.
ResolveInvitee(r) ==
    LET c == req[r].camp
        w == req[r].who
    IN  /\ At(r, "person")
        /\ Check(r, w \in users /\ w # campaignOwner[c], "member",
                 IF w \in users THEN "bad_request" ELSE "not_found")

\* A live invite is a conflict; a lapsed one is refreshed; else one is added.
FindExistingInvite(r) ==
    LET existing == PendingFor(req[r].camp, req[r].who)
    IN  /\ At(r, "look")
        /\ UNCHANGED rows
        /\ \/ existing \ lapsed # {} /\ Answer(r, "conflict")
           \/ existing = {} /\ Goto(r, "write")
           \/ \E i \in existing \cap lapsed :
                 /\ req' = [req EXCEPT ![r] =
                                [@ EXCEPT !.at = "renew", !.inv = i]]
                 /\ UNCHANGED answer

\* Faulty variants: without the unique constraint, without a foreign key.
InviteInsertableTwice(c, w) == c \in campaigns /\ w \in users

InviteInsertableForGone(c, w) == c \in campaigns /\ PendingFor(c, w) = {}

\* The unique (campaign, invitee) constraint and both foreign keys.
InviteInsertable(c, w) ==
    /\ c \in campaigns
    /\ w \in users
    /\ PendingFor(c, w) = {}

AddInvite(c, w) ==
    /\ \E i \in Invite \ MintedInvites :
          /\ invites' = invites \cup {i}
          /\ inviteCamp' = [inviteCamp EXCEPT ![i] = c]
          /\ inviteUser' = [inviteUser EXCEPT ![i] = w]
    /\ UNCHANGED <<users, books, campaigns, lapsed, bookOwner, campaignOwner,
                   enabled, contents>>

\* Faulty variant: the invite itself makes its invitee a member.
AddInviteAndMember(c, w) ==
    /\ AddInvite(c, w)
    /\ members' = members \cup {<<c, w>>}

InsertInviteRow(c, w) ==
    /\ AddInvite(c, w)
    /\ UNCHANGED members

InsertInvite(r) ==
    LET c == req[r].camp
        w == req[r].who
    IN  /\ At(r, "write")
        /\ \/ InviteInsertable(c, w) /\ InsertInviteRow(c, w) /\ Answer(r, "ok")
           \/ /\ ~InviteInsertable(c, w)
              /\ UNCHANGED rows
              /\ Answer(r, "conflict")

\* The UPDATE of an invite revoked meanwhile matches no row and raises.
RenewInvite(r) ==
    LET i == req[r].inv
    IN  /\ At(r, "renew")
        /\ \/ /\ i \in invites
              /\ lapsed' = lapsed \ {i}
              /\ UNCHANGED <<users, books, campaigns, invites, owners, joins>>
              /\ Answer(r, "ok")
           \/ i \notin invites /\ UNCHANGED rows /\ Answer(r, "failed")

InviteMember(r) ==
    /\ req[r].op = "invite_member"
    /\ \/ GetWritableCampaign(r, "person")
       \/ ResolveInvitee(r)
       \/ /\ At(r, "member")
          /\ Check(r, <<req[r].camp, req[r].who>> \notin members, "look",
                   "conflict")
       \/ FindExistingInvite(r)
       \/ InsertInvite(r)
       \/ RenewInvite(r)

\* Faulty variant: the lookup is not scoped to the campaign in the path.
RevokeAnyInvite(r) ==
    LET i == req[r].inv
    IN  /\ req[r].op = "revoke_invite"
        /\ \/ GetWritableCampaign(r, "look")
           \/ Look(r, i \in invites)
           \/ At(r, "write") /\ DeleteInvite(i) /\ Answer(r, "ok")

RevokeInvite(r) ==
    LET i == req[r].inv
    IN  /\ req[r].op = "revoke_invite"
        /\ \/ GetWritableCampaign(r, "look")
           \/ Look(r, i \in invites /\ inviteCamp[i] = req[r].camp)
           \/ At(r, "write") /\ DeleteInvite(i) /\ Answer(r, "ok")

\* Faulty variant: whoever reads the campaign may remove any member.
AuthorizeAnyRemoval(r) ==
    /\ At(r, "campaign")
    /\ Check(r, CanReadCampaign(req[r].user, req[r].camp), "look", "not_found")

AuthorizeMemberRemoval(r) ==
    LET u == req[r].user
        c == req[r].camp
        allowed == campaignOwner[c] = u \/ req[r].who = u
    IN  /\ At(r, "campaign")
        /\ Check(r, CanReadCampaign(u, c) /\ allowed, "look",
                 IF CanReadCampaign(u, c) THEN "forbidden" ELSE "not_found")

RemoveMember(r) ==
    LET c == req[r].camp
        w == req[r].who
    IN  /\ req[r].op = "remove_member"
        /\ \/ AuthorizeMemberRemoval(r)
           \/ Look(r, <<c, w>> \in members)
           \/ At(r, "write") /\ DeleteMember(c, w) /\ Answer(r, "ok")

------------------------------------------------------------------------------
(* Membership, the invitee's side: routers/campaign_invites.py.             *)

\* Faulty variant: the invitee is not compared with the caller.
GetAnyInvite(r, next) ==
    /\ At(r, "look")
    /\ Check(r, req[r].inv \in invites \ lapsed, next, "not_found")

GetOwnInvite(r, next) ==
    LET i == req[r].inv
    IN  /\ At(r, "look")
        /\ Check(r, i \in invites \ lapsed /\ inviteUser[i] = req[r].user,
                 next, "not_found")

\* The member row and the invite's deletion share a commit.  A primary or
\* foreign key violation aborts both; an invite already gone only warns.
Join(r) ==
    LET i == req[r].inv
        m == <<inviteCamp[i], req[r].user>>
        insertable == m[1] \in campaigns /\ m[2] \in users /\ m \notin members
    IN  /\ At(r, "write")
        /\ \/ /\ insertable
              /\ members' = members \cup {m}
              /\ invites' = invites \ {i}
              /\ lapsed' = lapsed \ {i}
              /\ UNCHANGED <<users, books, campaigns, owners, enabled,
                             contents>>
              /\ Answer(r, "ok")
           \/ ~insertable /\ UNCHANGED rows /\ Answer(r, "failed")

AcceptInvite(r) ==
    LET i == req[r].inv
    IN  /\ req[r].op = "accept_invite"
        /\ \/ GetOwnInvite(r, "member")
           \/ /\ At(r, "member")
              /\ UNCHANGED rows
              /\ Goto(r, IF <<inviteCamp[i], req[r].user>> \in members
                           THEN "consume" ELSE "write")
           \/ At(r, "consume") /\ DeleteInvite(i) /\ Answer(r, "ok")
           \/ Join(r)

DeclineInvite(r) ==
    /\ req[r].op = "decline_invite"
    /\ \/ GetOwnInvite(r, "write")
       \/ At(r, "write") /\ DeleteInvite(req[r].inv) /\ Answer(r, "ok")

------------------------------------------------------------------------------
(* Clients.  The pools of ids are finite, so a request that would insert a  *)
(* row is only sent while an id is left for it, and the last account stays. *)

Doing(op) == {r \in Req : req[r].op = op}

IdsLeft(op) ==
    CASE op = "create_book" ->
            Cardinality(Doing(op)) < Cardinality(Book \ MintedBooks) - 1
      [] op = "create_campaign" ->
            Cardinality(Doing(op)) < Cardinality(Campaign \ MintedCampaigns)
      [] op = "invite_member" ->
            Cardinality(Doing(op)) < Cardinality(Invite \ MintedInvites)
      [] op = "delete_account" ->
            Cardinality(Doing(op)) + 1 < Cardinality(users)
      [] OTHER -> TRUE

FirstStage(op) ==
    CASE op \in {"create_book", "create_campaign", "delete_account"} -> "write"
      [] op \in {"accept_invite", "decline_invite"} -> "look"
      [] op \in CampaignOps -> "campaign"
      [] OTHER -> "book"

Arg(op, takers, S) == IF op \in takers THEN S ELSE {None}

NewRequest(op, u, c, b, w, i, x) ==
    [op |-> op, at |-> FirstStage(op), user |-> u, camp |-> c, book |-> b,
     who |-> w, inv |-> i, item |-> x]

\* An authenticated request arrives with ids its sender can have seen.
Receive(r) ==
    /\ At(r, "idle")
    /\ \E op \in Op, u \in users :
         /\ IdsLeft(op)
         /\ \E c \in Arg(op, CampaignOps, MintedCampaigns),
               b \in Arg(op, BookOps, MintedBooks \cup {SrdBook}),
               w \in Arg(op, HandleOps, User),
               i \in Arg(op, InviteOps, MintedInvites),
               x \in Arg(op, ContentOps, Content) :
                 req' = [req EXCEPT ![r] = NewRequest(op, u, c, b, w, i, x)]
    /\ answer' = [answer EXCEPT ![r] = "none"]
    /\ UNCHANGED rows

------------------------------------------------------------------------------
Init ==
    /\ users = User
    /\ books = {SrdBook}
    /\ campaigns = {}
    /\ invites = {}
    /\ bookOwner = [b \in Book |-> None]
    /\ campaignOwner = [c \in Campaign |-> None]
    /\ inviteCamp = [i \in Invite |-> None]
    /\ inviteUser = [i \in Invite |-> None]
    /\ lapsed = {}
    /\ enabled = {}
    /\ members = {}
    /\ contents = {}
    /\ req = [r \in Req |-> Idle]
    /\ answer = [r \in Req |-> "none"]

Handle(r) ==
    \/ CreateBook(r) \/ UpdateBook(r) \/ DeleteBook(r)
    \/ AddContent(r) \/ RemoveContent(r)
    \/ CreateCampaign(r) \/ UpdateCampaign(r) \/ DeleteCampaign(r)
    \/ EnableBook(r) \/ DisableBook(r)
    \/ InviteMember(r) \/ RevokeInvite(r) \/ RemoveMember(r)
    \/ AcceptInvite(r) \/ DeclineInvite(r)
    \/ DeleteAccount(r)

Next == Lapse \/ \E r \in Req : Receive(r) \/ Handle(r)

Spec == Init /\ [][Next]_vars
------------------------------------------------------------------------------
(* Properties.                                                              *)

TypeOK ==
    /\ users \subseteq User
    /\ books \subseteq Book
    /\ campaigns \subseteq Campaign
    /\ invites \subseteq Invite
    /\ lapsed \subseteq invites
    /\ bookOwner \in [Book -> User \cup {None}]
    /\ campaignOwner \in [Campaign -> User \cup {None}]
    /\ inviteCamp \in [Invite -> Campaign \cup {None}]
    /\ inviteUser \in [Invite -> User \cup {None}]
    /\ enabled \subseteq Campaign \X Book
    /\ members \subseteq Campaign \X User
    /\ contents \subseteq Book \X Content
    /\ req \in [Req -> Request]
    /\ answer \in [Req -> Status]

\* A campaign only ever shares books of its own owner, although the campaign
\* and the book are checked in two reads and inserted in a third step.
SharedByOwner ==
    \A e \in enabled : /\ bookOwner[e[2]] = campaignOwner[e[1]]
                       /\ bookOwner[e[2]] # None

\* Whoever is a member was invited to that very campaign by handle: invites
\* are the only way in, and nobody enters on another account's invite.
MembersWereInvited ==
    \A m \in members :
        \E i \in Invite : inviteCamp[i] = m[1] /\ inviteUser[i] = m[2]

\* The owner is not a membership row: the roster and the member count leave
\* the owner out, and removing a member never locks the owner out.
OwnerIsNoMember ==
    \A m \in members : campaignOwner[m[1]] # m[2]

\* One invite row per campaign and invitee, lapsed ones included, although
\* concurrent requests each look for an existing row before inserting.
OneInvitePerPair ==
    \A i, j \in invites :
        inviteCamp[i] = inviteCamp[j] /\ inviteUser[i] = inviteUser[j] => i = j

\* Deleting an account, a campaign or a book leaves no row that refers to it,
\* whatever requests on it are in flight.
NoDanglingRows ==
    /\ \A b \in books \ {SrdBook} : bookOwner[b] \in users
    /\ \A c \in campaigns : campaignOwner[c] \in users
    /\ \A i \in invites : inviteCamp[i] \in campaigns /\ inviteUser[i] \in users
    /\ enabled \subseteq campaigns \X books
    /\ members \subseteq campaigns \X users
    /\ contents \subseteq books \X Content

\* Request r of one of ops, sent by one of senders, succeeds in this step.
Succeeds(r, ops, senders) ==
    /\ req[r].op \in ops
    /\ req[r].user \in senders
    /\ answer[r] = "none" /\ answer'[r] = "ok"

\* Read access to a book appears only because its owner created or enabled it
\* or because the reader accepted an invite: no other request widens it.
AccessIsGranted ==
    [][\A u \in User, b \in Book :
         ~CanReadBook(u, b) /\ CanReadBook(u, b)' =>
            \E r \in Req :
               \/ Succeeds(r, {"create_book", "accept_invite"}, {u})
               \/ Succeeds(r, {"enable_book"}, {bookOwner[b]})]_vars

\* A membership ends only by a request of the campaign's owner or of the
\* member: a member never removes another one.
RemovedByOwnerOrSelf ==
    [][\A m \in members \ members' :
         \E r \in Req :
            Succeeds(r, {"remove_member", "delete_campaign", "delete_account"},
                     {campaignOwner[m[1]], m[2]})]_vars

\* An invite ends only by a request of its invitee or of the owner of its own
\* campaign: an invite id is no key to another campaign's invites.
InviteEndsByParty ==
    [][\A i \in invites \ invites' :
         \E r \in Req :
            Succeeds(r, Op, {campaignOwner[inviteCamp[i]], inviteUser[i]})]_vars

\* A book's contents change only by a request of the book's owner, and the
\* system book's never do.
ContentsChangeByOwner ==
    [][\A x \in (contents \ contents') \cup (contents' \ contents) :
         \E r \in Req :
            Succeeds(r, ContentOps \cup {"delete_book", "delete_account"},
                     {bookOwner[x[1]]})]_vars

------------------------------------------------------------------------------
(* The handlers, step by step, implement the policy of one-step promises:   *)
(* what was checked in an earlier statement still holds of the write, or    *)
(* the write changes nothing.                                               *)

Pair(i) == <<inviteCamp[i], inviteUser[i]>>

Asked == {Pair(i) : i \in MintedInvites}
Pending == {Pair(i) : i \in invites}

Policy == INSTANCE AccessPolicy WITH asked <- Asked, pending <- Pending

\* Every commit of every handler, however the requests interleave, is one
\* permitted step of AccessPolicy or changes nothing it sees (authz.py).
ImplementsPolicy == Policy!Spec
==============================================================================
