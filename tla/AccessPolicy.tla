---------------------------- MODULE AccessPolicy ----------------------------
(* What books, campaigns and invites promise, each promise kept in one step: *)
(* authz.py with the docstrings of models/book.py and models/campaign.py.    *)
(* Sharing, whose handlers check in one statement what they write in a later *)
(* one, is shown to implement it.                                            *)
EXTENDS Naturals

CONSTANTS
    User, Book, Campaign, Content,
    SrdBook,    \* the public system book, which nobody owns
    None

VARIABLES
    users, books, campaigns,    \* what there is
    bookOwner, campaignOwner,   \* of everything there ever was
    asked,      \* <<campaign, user>> who was ever invited
    pending,    \* <<campaign, user>> with an invite
    members,    \* <<campaign, user>>
    enabled,    \* <<campaign, book>> that the campaign shares
    contents    \* <<book, content>>

things == <<users, books, campaigns, bookOwner, campaignOwner>>
vars == <<things, asked, pending, members, enabled, contents>>

-----------------------------------------------------------------------------
CreateBook(u, b) ==
    /\ u \in users /\ b \in Book \ {SrdBook} /\ bookOwner[b] = None
    /\ books' = books \cup {b}
    /\ bookOwner' = [bookOwner EXCEPT ![b] = u]
    /\ UNCHANGED <<users, campaigns, campaignOwner, asked, pending, members,
                   enabled, contents>>

CreateCampaign(u, c) ==
    /\ u \in users /\ c \in Campaign /\ campaignOwner[c] = None
    /\ campaigns' = campaigns \cup {c}
    /\ campaignOwner' = [campaignOwner EXCEPT ![c] = u]
    /\ UNCHANGED <<users, books, bookOwner, asked, pending, members, enabled,
                   contents>>

(* An owned book is filled and emptied; the system book is not.              *)
Edit(b, xs) ==
    /\ bookOwner[b] # None
    /\ contents' = xs
    /\ UNCHANGED <<things, asked, pending, members, enabled>>

AddContent(b, x) == b \in books /\ Edit(b, contents \cup {<<b, x>>})
RemoveContent(b, x) == Edit(b, contents \ {<<b, x>>})

(* A campaign shares books of its own owner only.                            *)
Share(c, b) ==
    /\ c \in campaigns /\ b \in books
    /\ bookOwner[b] # None /\ bookOwner[b] = campaignOwner[c]
    /\ enabled' = enabled \cup {<<c, b>>}
    /\ UNCHANGED <<things, asked, pending, members, contents>>

Unshare(c, b) ==
    /\ enabled' = enabled \ {<<c, b>>}
    /\ UNCHANGED <<things, asked, pending, members, contents>>

(* Anyone but the owner is invited, with one invite at a time.               *)
Ask(c, w) ==
    /\ c \in campaigns /\ w \in users /\ w # campaignOwner[c]
    /\ <<c, w>> \notin pending
    /\ pending' = pending \cup {<<c, w>>}
    /\ asked' = asked \cup {<<c, w>>}
    /\ UNCHANGED <<things, members, enabled, contents>>

EndInvite(c, w) ==
    /\ pending' = pending \ {<<c, w>>}
    /\ UNCHANGED <<things, asked, members, enabled, contents>>

(* Only who was asked joins.  An invite that is still there ends with it,    *)
(* unless it is a later one than the one that was accepted.                  *)
Join(c, w) ==
    /\ c \in campaigns /\ w \in users
    /\ <<c, w>> \in asked /\ <<c, w>> \notin members
    /\ members' = members \cup {<<c, w>>}
    /\ pending' \in {pending, pending \ {<<c, w>>}}
    /\ UNCHANGED <<things, asked, enabled, contents>>

Part(c, w) ==
    /\ members' = members \ {<<c, w>>}
    /\ UNCHANGED <<things, asked, pending, enabled, contents>>

(* What is deleted takes along everything that refers to it.                 *)
Cascade(us, bs, cs) ==
    /\ users' = users \ us
    /\ books' = {b \in books \ bs : bookOwner[b] \notin us}
    /\ campaigns' = {c \in campaigns \ cs : campaignOwner[c] \notin us}
    /\ pending' = {p \in pending : p[1] \in campaigns' /\ p[2] \in users'}
    /\ members' = {m \in members : m[1] \in campaigns' /\ m[2] \in users'}
    /\ enabled' = {e \in enabled : e[1] \in campaigns' /\ e[2] \in books'}
    /\ contents' = {x \in contents : x[1] \in books'}
    /\ UNCHANGED <<bookOwner, campaignOwner, asked>>

DeleteAccount(u) == Cascade({u}, {}, {})
DeleteBook(b) == bookOwner[b] # None /\ Cascade({}, {b}, {})
DeleteCampaign(c) == Cascade({}, {}, {c})

-----------------------------------------------------------------------------
Init ==
    /\ users = User /\ books = {SrdBook} /\ campaigns = {}
    /\ bookOwner = [b \in Book |-> None]
    /\ campaignOwner = [c \in Campaign |-> None]
    /\ asked = {} /\ pending = {} /\ members = {}
    /\ enabled = {} /\ contents = {}

Next ==
    \/ \E u \in User : DeleteAccount(u)
    \/ \E u \in User, b \in Book : CreateBook(u, b)
    \/ \E u \in User, c \in Campaign : CreateCampaign(u, c)
    \/ \E b \in Book : DeleteBook(b)
    \/ \E c \in Campaign : DeleteCampaign(c)
    \/ \E b \in Book, x \in Content : AddContent(b, x) \/ RemoveContent(b, x)
    \/ \E c \in Campaign, b \in Book : Share(c, b) \/ Unshare(c, b)
    \/ \E c \in Campaign, w \in User :
            Ask(c, w) \/ EndInvite(c, w) \/ Join(c, w) \/ Part(c, w)

Spec == Init /\ [][Next]_vars
=============================================================================
