---------------------------- MODULE AccountsProofs ----------------------------
(* Machine-checked safety of Accounts, for any pools of ids, any number of  *)
(* concurrent requests and any of the events.                               *)
EXTENDS Accounts, FiniteSetTheorems, TLAPS

------------------------------------------------------------------------------
(* The inductive invariant: the three groups of tables, and the requests.   *)

\* A live account has all its columns, a deleted one keeps only its name.
AccountsOK ==
    /\ users \subseteq User
    /\ name \in [User -> Name \cup {None}]
    /\ email \in [User -> Email \cup {None}]
    /\ pending \in [User -> Email \cup {None}]
    /\ password \in [User -> Password \cup {None}]
    /\ weak \subseteq users
    /\ verified \subseteq users
    /\ \A u \in users :
          name[u] \in Name /\ email[u] \in Email /\ password[u] \in Password
    /\ \A u \in User \ users : email[u] = None /\ pending[u] = None

\* Every session has a holder, and a live one a live holder.
SessionsOK ==
    /\ session \in [Session -> SessionState]
    /\ holder \in [Session -> User \cup {None}]
    /\ outdated \subseteq LiveSessions
    /\ \A s \in Session : session[s] # "unused" => holder[s] \in User
    /\ \A s \in LiveSessions : holder[s] \in users

\* A live link belongs to a live account.
TokensOK ==
    /\ tokens \subseteq MintedTokens
    /\ link \in [Token -> Link \cup {None}]
    /\ lapsed \subseteq MintedTokens
    /\ mailed \subseteq MintedTokens
    /\ proven \subseteq User \X Email
    /\ \A t \in tokens : link[t].user \in users

RowsOK == AccountsOK /\ SessionsOK /\ TokensOK

\* What Receive puts into a request and no later step takes away.
ArgsFit(q) ==
    /\ q.op \in CookieOps => /\ q.sess \in Session
                             /\ session[q.sess] # "unused"
    /\ q.op \in OpName \ {"signup"} => q.user \in User
    /\ q.op \in LinkOps => q.link \in MintedTokens
    /\ q.op \in ReauthOps => q.pw \in Password
    /\ q.op \in SettingOps => q.new \in Password
    /\ q.op = "signup" => q.name \in Name
    /\ q.op \in AddressOps => q.email \in Email

\* What a handler has put into its request by the time it is at a stage.
StageFits(q, stage) ==
    /\ q.op = "signup" /\ stage \notin {"insert", "conflict"}
          => q.user \in User
    /\ stage \in {"retire", "issue", "swap"} => q.email \in Email
    /\ stage = "mail" \/ (stage = "refresh" /\ q.op = "change_email")
          => q.link \in MintedTokens

SlotsOK ==
    /\ req \in [Req -> Request]
    /\ answer \in [Req -> Status]
    /\ \A r \in Req : ArgsFit(req[r]) /\ StageFits(req[r], req[r].at)

TypeInv == RowsOK /\ SlotsOK

\* Ids that were handed out keep their rows' keys.
SessionIdsKept ==
    \A s \in Session :
        session[s] # "unused" => /\ session'[s] # "unused"
                                 /\ holder'[s] = holder[s]

TokenIdsKept == MintedTokens \subseteq MintedTokens'

Kept == SessionIdsKept /\ TokenIdsKept

------------------------------------------------------------------------------
(* Requests.                                                                *)

\* Steps that change no session and no token keep all their ids.
LEMMA UnchangedKept ==
    ASSUME UNCHANGED <<session, holder, link>>
    PROVE  Kept
BY DEF Kept, SessionIdsKept, TokenIdsKept, MintedTokens

\* A slot that is filled with a request that fits leaves all slots fitting.
LEMMA SlotFilled ==
    ASSUME SlotsOK, Kept, NEW r \in Req, NEW q \in Request,
           ArgsFit(q)', StageFits(q, q.at)', answer' \in [Req -> Status],
           req' = [req EXCEPT ![r] = q]
    PROVE  SlotsOK'
<1>1. ASSUME NEW p \in Req, p # r
      PROVE  ArgsFit(req[p])' /\ StageFits(req[p], req[p].at)'
    <2>1. req'[p] = req[p] BY <1>1 DEF SlotsOK
    <2>2. ArgsFit(req[p]) /\ StageFits(req[p], req[p].at) BY DEF SlotsOK
    <2>3. ArgsFit(req[p])' BY <2>1, <2>2 DEF ArgsFit, Kept, SessionIdsKept, TokenIdsKept
    <2>4. StageFits(req[p], req[p].at)' BY <2>1, <2>2 DEF StageFits, Kept, TokenIdsKept
    <2>5. QED BY <2>3, <2>4
<1>2. req'[r] = q /\ req' \in [Req -> Request] BY DEF SlotsOK
<1>3. ArgsFit(req[r])' /\ StageFits(req[r], req[r].at)'
    BY <1>2 DEF ArgsFit, StageFits
<1>4. QED BY <1>1, <1>2, <1>3 DEF SlotsOK

\* An answered request leaves its slot idle.
LEMMA AnswerFits ==
    ASSUME SlotsOK, Kept, NEW r \in Req, NEW status \in Status,
           Answer(r, status)
    PROVE  SlotsOK'
<1>1. Idle \in Request BY DEF Idle, Request, Stage
<1>2. ArgsFit(Idle)' /\ StageFits(Idle, Idle.at)'
    BY ConstantsAssumption
    DEF ArgsFit, StageFits, Idle, OpName, CookieOps, LinkOps, ReauthOps,
        SettingOps, AddressOps
<1>3. QED BY <1>1, <1>2, SlotFilled DEF Answer, SlotsOK

\* A request that moves to a stage it is ready for still fits.
LEMMA GotoFits ==
    ASSUME SlotsOK, Kept, NEW r \in Req, NEW stage \in Stage,
           StageFits(req[r], stage), Goto(r, stage)
    PROVE  SlotsOK'
<1>1. req[r] \in Request /\ ArgsFit(req[r]) BY DEF SlotsOK
<1>2. PICK q \in Request : q = [req[r] EXCEPT !.at = stage]
    BY <1>1 DEF Request
<1>3. /\ q.op = req[r].op /\ q.user = req[r].user /\ q.sess = req[r].sess
      /\ q.link = req[r].link /\ q.pw = req[r].pw /\ q.new = req[r].new
      /\ q.name = req[r].name /\ q.email = req[r].email /\ q.at = stage
    BY <1>1, <1>2 DEF Request
<1>4. ArgsFit(q)' BY <1>1, <1>3 DEF ArgsFit, Kept, SessionIdsKept, TokenIdsKept
<1>5. StageFits(q, q.at)' BY <1>3 DEF StageFits, Kept, TokenIdsKept
<1>6. req' = [req EXCEPT ![r] = q] /\ answer' \in [Req -> Status]
    BY <1>2 DEF Goto, SlotsOK
<1>7. QED BY <1>2, <1>4, <1>5, <1>6, SlotFilled

\* A check leads to one of the two, and reads the tables only.
LEMMA CheckFits ==
    ASSUME SlotsOK, NEW r \in Req, NEW condition, NEW stage \in Stage,
           NEW status \in Status, StageFits(req[r], stage),
           Check(r, condition, stage, status)
    PROVE  SlotsOK'
<1>1. Kept BY UnchangedKept DEF Check, rows, sessionRows, tokenRows
<1>2. QED BY <1>1, GotoFits, AnswerFits DEF Check

------------------------------------------------------------------------------
(* Tables.                                                                  *)

\* No account is deleted and no session touched.
LEMMA SessionsUntouched ==
    ASSUME SessionsOK, users \subseteq users', UNCHANGED sessionRows
    PROVE  SessionsOK' /\ SessionIdsKept
BY DEF SessionsOK, LiveSessions, sessionRows, SessionIdsKept

\* No account is deleted and no link touched.
LEMMA TokensUntouched ==
    ASSUME TokensOK, users \subseteq users', UNCHANGED tokenRows
    PROVE  TokensOK' /\ TokenIdsKept
BY DEF TokensOK, MintedTokens, tokenRows, TokenIdsKept

\* A session is inserted for a live account.
LEMMA SessionInserted ==
    ASSUME SessionsOK, NEW u \in User, u \in users', users \subseteq users',
           InsertSession(u)
    PROVE  SessionsOK' /\ SessionIdsKept
<1>1. PICK s \in Session : /\ session[s] = "unused"
                           /\ session' = [session EXCEPT ![s] = "fresh"]
                           /\ holder' = [holder EXCEPT ![s] = u]
    BY DEF InsertSession
<1>2. outdated' = outdated BY DEF InsertSession
<1>3. LiveSessions' = LiveSessions \cup {s}
    BY <1>1 DEF LiveSessions, SessionsOK, SessionState
<1>4. QED
    BY <1>1, <1>2, <1>3
    DEF SessionsOK, SessionState, SessionIdsKept, LiveSessions

\* Sessions are revoked, those of deleted accounts among them.
LEMMA SessionsRevoked ==
    ASSUME SessionsOK, NEW S, Revoke(S),
           \A s \in S : s \in Session /\ session[s] # "unused",
           \A s \in LiveSessions \ S : holder[s] \in users'
    PROVE  SessionsOK' /\ SessionIdsKept
<1>1. LiveSessions' = LiveSessions \ S
    BY DEF LiveSessions, SessionsOK, SessionState, Revoke
<1>2. QED
    BY <1>1
    DEF SessionsOK, SessionState, SessionIdsKept, LiveSessions, Revoke

\* Links are deleted.
LEMMA LinksRetired ==
    ASSUME TokensOK, NEW u, NEW p, users \subseteq users', Retire(u, p)
    PROVE  TokensOK' /\ TokenIdsKept
BY DEF TokensOK, MintedTokens, Retire, TokenIdsKept

\* Steps that change no table.
LEMMA RowsUntouched ==
    ASSUME RowsOK, UNCHANGED rows
    PROVE  RowsOK' /\ Kept
<1>1. AccountsOK' BY DEF RowsOK, AccountsOK, rows, account
<1>2. QED
    BY <1>1, SessionsUntouched, TokensUntouched
    DEF RowsOK, Kept, rows, account

------------------------------------------------------------------------------
(* The steps that several handlers share.                                   *)

LEMMA CheckType ==
    ASSUME TypeInv, NEW r \in Req, NEW condition, NEW stage \in Stage,
           NEW status \in Status, StageFits(req[r], stage),
           Check(r, condition, stage, status)
    PROVE  TypeInv'
BY CheckFits, RowsUntouched DEF TypeInv, Check

\* A step without effect that answers.
LEMMA AnswerType ==
    ASSUME TypeInv, NEW r \in Req, NEW status \in Status, UNCHANGED rows,
           Answer(r, status)
    PROVE  TypeInv'
BY AnswerFits, RowsUntouched DEF TypeInv

\* A step without effect that goes on.
LEMMA GotoType ==
    ASSUME TypeInv, NEW r \in Req, NEW stage \in Stage, UNCHANGED rows,
           StageFits(req[r], stage), Goto(r, stage)
    PROVE  TypeInv'
BY GotoFits, RowsUntouched DEF TypeInv

LEMMA ResolveType ==
    ASSUME TypeInv, NEW r \in Req, req[r].op \in CookieOps, ResolveSession(r)
    PROVE  TypeInv'
<1>1. StageFits(req[r], "load") /\ StageFits(req[r], "slide")
    BY DEF StageFits, CookieOps
<1>2. QED
    BY <1>1, GotoType, AnswerType DEF ResolveSession, Stage, Status

LEMMA SlideType ==
    ASSUME TypeInv, NEW r \in Req, req[r].op \in CookieOps, Slide(r)
    PROVE  TypeInv'
<1>1. StageFits(req[r], "load") BY DEF StageFits, CookieOps
<1>2. CASE UNCHANGED rows /\ Answer(r, "failed")
    BY <1>2, AnswerType DEF Status
<1>3. ASSUME req[r].sess \in LiveSessions,
             session' = [session EXCEPT ![req[r].sess] = "fresh"],
             UNCHANGED <<account, holder, outdated, tokenRows>>,
             Goto(r, "load")
      PROVE  TypeInv'
  <2>1. AccountsOK' BY <1>3 DEF TypeInv, RowsOK, AccountsOK, account
  <2>2. TokensOK' /\ TokenIdsKept
      BY <1>3, TokensUntouched DEF TypeInv, RowsOK, account
  <2>3. LiveSessions' = LiveSessions
      BY <1>3 DEF LiveSessions, TypeInv, RowsOK, SessionsOK
  <2>4. SessionsOK' /\ SessionIdsKept
      BY <1>3, <2>3
      DEF TypeInv, RowsOK, SessionsOK, SessionState, SessionIdsKept, account,
          LiveSessions
  <2>5. QED
      BY <1>1, <1>3, <2>1, <2>2, <2>4, GotoFits
      DEF TypeInv, RowsOK, Kept, Stage
<1>4. QED BY <1>2, <1>3 DEF Slide

LEMMA LoadType ==
    ASSUME TypeInv, NEW r \in Req, req[r].op \in CookieOps, NEW condition,
           NEW next \in Stage, StageFits(req[r], next),
           NEW refusal \in Status, LoadUser(r, condition, next, refusal)
    PROVE  TypeInv'
BY CheckType DEF LoadUser, Status

LEMMA OpenType ==
    ASSUME TypeInv, NEW r \in Req, OpenSession(r)
    PROVE  TypeInv'
<1>1. CASE UNCHANGED rows /\ Answer(r, "failed")
    BY <1>1, AnswerType DEF Status
<1>2. ASSUME req[r].user \in users, InsertSession(req[r].user),
             UNCHANGED <<account, tokenRows>>, Answer(r, "ok")
      PROVE  TypeInv'
  <2>1. AccountsOK' BY <1>2 DEF TypeInv, RowsOK, AccountsOK, account
  <2>2. users' = users /\ users \subseteq User
      BY <1>2 DEF account, TypeInv, RowsOK, AccountsOK
  <2>3. SessionsOK' /\ SessionIdsKept
      BY <1>2, <2>2, SessionInserted DEF TypeInv, RowsOK
  <2>4. TokensOK' /\ TokenIdsKept
      BY <1>2, <2>2, TokensUntouched DEF TypeInv, RowsOK
  <2>5. QED
      BY <1>2, <2>1, <2>3, <2>4, AnswerFits DEF TypeInv, RowsOK, Kept, Status
<1>3. QED BY <1>1, <1>2 DEF OpenSession

\* Revoking live sessions, followed by whatever fits.
LEMMA RevokeRows ==
    ASSUME RowsOK, NEW S, Revoke(S),
           \A s \in S : s \in Session /\ session[s] # "unused",
           UNCHANGED <<account, tokenRows>>
    PROVE  RowsOK' /\ Kept
<1>1. AccountsOK' BY DEF RowsOK, AccountsOK, account
<1>2. SessionsOK' /\ SessionIdsKept
    BY SessionsRevoked DEF RowsOK, SessionsOK, account
<1>3. TokensOK' /\ TokenIdsKept BY TokensUntouched DEF RowsOK, account
<1>4. QED BY <1>1, <1>2, <1>3 DEF RowsOK, Kept

LEMMA RevokeAllRows ==
    ASSUME RowsOK, NEW r \in Req, RevokeAll(r)
    PROVE  RowsOK' /\ Kept
BY RevokeRows DEF RevokeAll, SessionsOf, LiveSessions

LEMMA RetireType ==
    ASSUME TypeInv, NEW r \in Req, RetireLinks(r)
    PROVE  TypeInv'
<1>1. StageFits(req[r], "issue")
    BY DEF RetireLinks, At, TypeInv, SlotsOK, StageFits
<1>2. AccountsOK'
    BY DEF RetireLinks, TypeInv, RowsOK, AccountsOK, account
<1>3. SessionsOK' /\ SessionIdsKept
    BY SessionsUntouched DEF RetireLinks, TypeInv, RowsOK, account
<1>4. TokensOK' /\ TokenIdsKept
    BY LinksRetired DEF RetireLinks, TypeInv, RowsOK, account
<1>5. QED
    BY <1>1, <1>2, <1>3, <1>4, GotoFits
    DEF RetireLinks, TypeInv, RowsOK, Kept, Stage

LEMMA IssueType ==
    ASSUME TypeInv, NEW r \in Req, req[r].op \in OpName, NEW next \in Stage,
           next \in {"mail", "refresh"}, IssueLink(r, next)
    PROVE  TypeInv'
<1>1. CASE UNCHANGED rows /\ Answer(r, "failed")
    BY <1>1, AnswerType DEF Status
<1> DEFINE u == req[r].user
           row == [user |-> u, purpose |-> PurposeOf(req[r].op),
                   to |-> req[r].email]
<1>2. ASSUME At(r, "issue"), u \in users, NEW t \in Token \ MintedTokens,
             tokens' = tokens \cup {t},
             link' = [link EXCEPT ![t] = row],
             req' = [req EXCEPT ![r] = [@ EXCEPT !.at = next, !.link = t]],
             UNCHANGED <<account, sessionRows, lapsed, mailed, proven, answer>>
      PROVE  TypeInv'
  <2>1. AccountsOK' BY <1>2 DEF TypeInv, RowsOK, AccountsOK, account
  <2>2. SessionsOK' /\ SessionIdsKept
      BY <1>2, SessionsUntouched DEF TypeInv, RowsOK, account
  <2>3. row \in Link
    <3>1. req[r].email \in Email
        BY <1>2 DEF TypeInv, SlotsOK, StageFits, At
    <3>2. u \in User BY <1>2 DEF TypeInv, RowsOK, AccountsOK
    <3>3. PurposeOf(req[r].op) \in Purpose BY DEF PurposeOf, Purpose
    <3>4. QED BY <3>1, <3>2, <3>3 DEF Link
  <2>4. row # None /\ link' \in [Token -> Link \cup {None}]
      /\ MintedTokens' = MintedTokens \cup {t} /\ link'[t] = row
    <3>1. row # None BY <2>3, ConstantsAssumption
    <3>2. QED BY <1>2, <2>3, <3>1 DEF MintedTokens, TypeInv, RowsOK, TokensOK
  <2>5. TokensOK' /\ TokenIdsKept
    <3>1. \A x \in tokens' : link'[x].user \in users'
        BY <1>2, <2>4
        DEF TypeInv, RowsOK, TokensOK, MintedTokens, account
    <3>2. QED
        BY <1>2, <2>4, <3>1 DEF TypeInv, RowsOK, TokensOK, TokenIdsKept
  <2>6. Kept BY <2>2, <2>5 DEF Kept
  <2>7. PICK q \in Request : q = [req[r] EXCEPT !.at = next, !.link = t]
      BY DEF TypeInv, SlotsOK, Request
  <2>8. /\ q.op = req[r].op /\ q.user = req[r].user /\ q.sess = req[r].sess
        /\ q.link = t /\ q.pw = req[r].pw /\ q.new = req[r].new
        /\ q.name = req[r].name /\ q.email = req[r].email /\ q.at = next
      BY <2>7 DEF TypeInv, SlotsOK, Request
  <2>9. ArgsFit(req[r]) /\ StageFits(req[r], req[r].at) /\ req[r].at = "issue"
      BY <1>2 DEF TypeInv, SlotsOK, At
  <2>10. t \in MintedTokens' BY <2>4
  <2>11. ArgsFit(q)'
      BY <2>6, <2>8, <2>9, <2>10 DEF ArgsFit, Kept, SessionIdsKept
  <2>12. StageFits(q, q.at)'
      BY <2>8, <2>9, <2>10 DEF StageFits
  <2>13. SlotsOK'
      BY <1>2, <2>6, <2>7, <2>11, <2>12, SlotFilled DEF TypeInv, SlotsOK
  <2>14. QED BY <2>1, <2>2, <2>5, <2>13 DEF TypeInv, RowsOK
<1>3. QED BY <1>1, <1>2 DEF IssueLink

LEMMA MailType ==
    ASSUME TypeInv, NEW r \in Req, SendMail(r)
    PROVE  TypeInv'
<1>1. req[r].link \in MintedTokens
    BY DEF SendMail, At, TypeInv, SlotsOK, StageFits
<1>2. AccountsOK' BY DEF SendMail, TypeInv, RowsOK, AccountsOK, account
<1>3. SessionsOK' /\ SessionIdsKept
    BY SessionsUntouched DEF SendMail, TypeInv, RowsOK, account
<1>4. TokensOK' /\ TokenIdsKept
    BY <1>1
    DEF SendMail, TypeInv, RowsOK, TokensOK, MintedTokens, TokenIdsKept,
        account
<1>5. QED
    BY <1>2, <1>3, <1>4, AnswerFits
    DEF SendMail, TypeInv, RowsOK, Kept, Status

LEMMA ConsumeType ==
    ASSUME TypeInv, NEW r \in Req, req[r].op \in LinkOps, ConsumeLink(r)
    PROVE  TypeInv'
<1> DEFINE t == req[r].link
<1>1. StageFits(req[r], "spend") /\ StageFits(req[r], "owner")
    BY DEF StageFits, LinkOps
<1>2. CASE FindLink(r) BY <1>1, <1>2, CheckType DEF FindLink, Stage, Status
<1>3. CASE SpendLink(r)
  <2>1. t \in MintedTokens
      BY DEF TypeInv, SlotsOK, ArgsFit
  <2>2. link[t].user \in User /\ link[t].to \in Email
      BY <2>1 DEF TypeInv, RowsOK, TokensOK, MintedTokens, Link
  <2>3. AccountsOK'
      BY <1>3 DEF SpendLink, TypeInv, RowsOK, AccountsOK, account
  <2>4. SessionsOK' /\ SessionIdsKept
      BY <1>3, SessionsUntouched DEF SpendLink, TypeInv, RowsOK, account
  <2>5. /\ tokens' = tokens \ {t} /\ UNCHANGED <<users, link, lapsed, mailed>>
        /\ \/ UNCHANGED proven
           \/ proven' = proven \cup {<<link[t].user, link[t].to>>}
      BY <1>3 DEF SpendLink, account
  <2>6. TokensOK' /\ TokenIdsKept
      BY <2>2, <2>5 DEF TypeInv, RowsOK, TokensOK, MintedTokens, TokenIdsKept
  <2>7. SlotsOK'
      BY <1>1, <1>3, <2>4, <2>6, GotoFits, AnswerFits
      DEF SpendLink, TypeInv, Kept, Stage, Status
  <2>8. QED BY <2>3, <2>4, <2>6, <2>7 DEF TypeInv, RowsOK
<1>4. QED BY <1>2, <1>3 DEF ConsumeLink

\* A request takes the address it goes on with from its account.
LEMMA EmailFilled ==
    ASSUME SlotsOK, Kept, NEW r \in Req, NEW e \in Email,
           NEW stage \in {"retire", "swap", "stamp"},
           req[r].op \in OpName \ {"signup"}, UNCHANGED answer,
           req' = [req EXCEPT ![r] = [@ EXCEPT !.at = stage, !.email = e]]
    PROVE  SlotsOK'
<1>1. req[r] \in Request /\ ArgsFit(req[r]) /\ stage \in Stage
    BY DEF SlotsOK, Stage
<1>2. PICK q \in Request : q = [req[r] EXCEPT !.at = stage, !.email = e]
    BY <1>1 DEF Request
<1>3. /\ q.op = req[r].op /\ q.user = req[r].user /\ q.sess = req[r].sess
      /\ q.link = req[r].link /\ q.pw = req[r].pw /\ q.new = req[r].new
      /\ q.name = req[r].name /\ q.email = e /\ q.at = stage
    BY <1>1, <1>2 DEF Request
<1>4. ArgsFit(q)'
    BY <1>1, <1>3 DEF ArgsFit, Kept, SessionIdsKept, TokenIdsKept
<1>5. StageFits(q, q.at)' BY <1>3 DEF StageFits
<1>6. QED BY <1>2, <1>4, <1>5, SlotFilled DEF SlotsOK

LEMMA PasswordType ==
    ASSUME TypeInv, NEW r \in Req, req[r].op \in SettingOps \ {"signup"},
           NEW next \in {"revoke", "open"}, SetPassword(r, next)
    PROVE  TypeInv'
<1> DEFINE u == req[r].user
<1>1. CASE UNCHANGED rows /\ Answer(r, "failed")
    BY <1>1, AnswerType DEF Status
<1>2. CASE u \in users /\ Goto(r, next)
           /\ password' = [password EXCEPT ![u] = req[r].new]
           /\ weak' = weak \ {u}
           /\ verified' \subseteq verified \cup {u}
           /\ outdated' = outdated \cup SessionsOf(u)
           /\ Retire(u, "reset")
           /\ UNCHANGED <<users, name, email, pending, session, holder>>
  <2>1. req[r].new \in Password /\ StageFits(req[r], next)
      BY DEF TypeInv, SlotsOK, ArgsFit, StageFits, SettingOps
  <2>2. AccountsOK' BY <1>2, <2>1 DEF TypeInv, RowsOK, AccountsOK
  <2>3. SessionsOK' /\ SessionIdsKept
      BY <1>2
      DEF TypeInv, RowsOK, SessionsOK, SessionsOf, LiveSessions,
          SessionIdsKept
  <2>4. TokensOK' /\ TokenIdsKept
      BY <1>2, LinksRetired DEF TypeInv, RowsOK
  <2>5. QED
      BY <1>2, <2>1, <2>2, <2>3, <2>4, GotoFits
      DEF TypeInv, RowsOK, Kept, Stage
<1>3. QED BY <1>1, <1>2 DEF SetPassword

------------------------------------------------------------------------------
(* The handlers.                                                            *)

LEMMA SignupType ==
    ASSUME TypeInv, NEW r \in Req, Signup(r)
    PROVE  TypeInv'
<1> DEFINE n == req[r].name
           e == req[r].email
<1>1. /\ req[r].op = "signup" /\ req[r].op \in OpName
      /\ n \in Name /\ e \in Email /\ req[r].new \in Password
    BY DEF Signup, TypeInv, SlotsOK, ArgsFit, SettingOps, AddressOps, OpName
<1>2. ASSUME NEW u \in User, name[u] = None,
             InsertAccount(u, n, e, req[r].new), InsertSession(u),
             req' = [req EXCEPT ![r] =
                        [@ EXCEPT !.at = "refresh", !.user = u]],
             UNCHANGED <<tokenRows, answer>>
      PROVE  TypeInv'
  <2>1. u \notin users
      BY <1>2, ConstantsAssumption DEF TypeInv, RowsOK, AccountsOK
  <2>2. AccountsOK' /\ u \in users' /\ users \subseteq users'
      BY <1>1, <1>2
      DEF InsertAccount, InsertAccountRow, TypeInv, RowsOK, AccountsOK
  <2>3. SessionsOK' /\ SessionIdsKept
      BY <1>2, <2>2, SessionInserted DEF TypeInv, RowsOK
  <2>4. TokensOK' /\ TokenIdsKept
      BY <1>2, <2>2, TokensUntouched DEF TypeInv, RowsOK
  <2>5. Kept BY <2>3, <2>4 DEF Kept
  <2>6. req[r] \in Request /\ ArgsFit(req[r]) /\ "refresh" \in Stage
      BY DEF TypeInv, SlotsOK, Stage
  <2>7. PICK q \in Request : q = [req[r] EXCEPT !.at = "refresh", !.user = u]
      BY <2>6 DEF Request
  <2>8. /\ q.op = "signup" /\ q.user = u /\ q.sess = req[r].sess
        /\ q.link = req[r].link /\ q.pw = req[r].pw /\ q.new = req[r].new
        /\ q.name = n /\ q.email = e /\ q.at = "refresh"
      BY <1>1, <2>6, <2>7 DEF Request
  <2>9. ArgsFit(q)'
      BY <1>1, <2>8 DEF ArgsFit, CookieOps, LinkOps, ReauthOps
  <2>10. StageFits(q, q.at)' BY <2>8 DEF StageFits
  <2>11. SlotsOK'
      BY <1>2, <2>5, <2>7, <2>9, <2>10, SlotFilled DEF TypeInv, SlotsOK
  <2>12. QED BY <2>2, <2>3, <2>4, <2>11 DEF TypeInv, RowsOK
<1>3. CASE At(r, "insert") /\ UNCHANGED rows /\ Goto(r, "conflict")
    BY <1>3, GotoType DEF StageFits, Stage
<1>4. CASE /\ UNCHANGED rows
           /\ Answer(r, IF NameTaken(n) THEN "name_taken" ELSE "email_taken")
    BY <1>4, AnswerType DEF Status
<1>5. CASE /\ At(r, "refresh")
           /\ Check(r, req[r].user \in users, "retire", "failed")
  <2>1. StageFits(req[r], "retire")
      BY <1>1, <1>5 DEF StageFits, At, TypeInv, SlotsOK
  <2>2. QED BY <1>5, <2>1, CheckType DEF Stage, Status
<1>6. CASE RetireLinks(r) BY <1>6, RetireType
<1>7. CASE IssueLink(r, "mail") BY <1>1, <1>7, IssueType DEF Stage
<1>8. CASE SendMail(r) BY <1>8, MailType
<1>9. QED BY <1>2, <1>3, <1>4, <1>5, <1>6, <1>7, <1>8 DEF Signup

LEMMA LoginType ==
    ASSUME TypeInv, NEW r \in Req, Login(r)
    PROVE  TypeInv'
<1> DEFINE u == req[r].user
<1>1. /\ req[r].op = "login" /\ req[r].pw \in Password
      /\ StageFits(req[r], "rehash") /\ StageFits(req[r], "open")
    BY DEF Login, TypeInv, SlotsOK, ArgsFit, ReauthOps, StageFits
<1>2. CASE Check(r, u \in users /\ password[u] = req[r].pw,
                 IF u \in weak THEN "rehash" ELSE "open", "unauthorized")
    BY <1>1, <1>2, CheckType DEF Stage, Status
<1>3. CASE UNCHANGED rows /\ Answer(r, "failed")
    BY <1>3, AnswerType DEF Status
<1>4. CASE /\ u \in users
           /\ password' = [password EXCEPT ![u] = req[r].pw]
           /\ weak' = weak \ {u}
           /\ UNCHANGED <<users, name, email, pending, verified,
                          sessionRows, tokenRows>>
           /\ Goto(r, "open")
  <2>1. AccountsOK' BY <1>1, <1>4 DEF TypeInv, RowsOK, AccountsOK
  <2>2. SessionsOK' /\ SessionIdsKept
      BY <1>4, SessionsUntouched DEF TypeInv, RowsOK
  <2>3. TokensOK' /\ TokenIdsKept
      BY <1>4, TokensUntouched DEF TypeInv, RowsOK
  <2>4. QED
      BY <1>1, <1>4, <2>1, <2>2, <2>3, GotoFits
      DEF TypeInv, RowsOK, Kept, Stage
<1>5. CASE OpenSession(r) BY <1>5, OpenType
<1>6. QED BY <1>2, <1>3, <1>4, <1>5 DEF Login

LEMMA MeType ==
    ASSUME TypeInv, NEW r \in Req, Me(r)
    PROVE  TypeInv'
BY AnswerType DEF Me, Status

LEMMA LogoutType ==
    ASSUME TypeInv, NEW r \in Req, Logout(r) \/ LogoutEverywhere(r)
    PROVE  TypeInv'
<1>1. /\ req[r].op \in CookieOps
      /\ StageFits(req[r], "write") /\ StageFits(req[r], "revoke")
    BY DEF Logout, LogoutEverywhere, CookieOps, StageFits
<1>2. CASE LoadUser(r, TRUE, "write", "unauthorized")
    BY <1>1, <1>2, LoadType DEF Stage, Status
<1>3. CASE LoadUser(r, TRUE, "revoke", "unauthorized")
    BY <1>1, <1>3, LoadType DEF Stage, Status
<1>4. CASE /\ Revoke({req[r].sess}) /\ UNCHANGED <<account, tokenRows>>
           /\ Answer(r, "ok")
  <2>1. req[r].sess \in Session /\ session[req[r].sess] # "unused"
      BY <1>1 DEF TypeInv, SlotsOK, ArgsFit
  <2>2. RowsOK' /\ Kept BY <1>4, <2>1, RevokeRows DEF TypeInv
  <2>3. QED BY <1>4, <2>2, AnswerFits DEF TypeInv, Status
<1>5. CASE RevokeAll(r) /\ Answer(r, "ok")
    BY <1>5, RevokeAllRows, AnswerFits DEF TypeInv, Status
<1>6. QED
    BY <1>2, <1>3, <1>4, <1>5 DEF Logout, LogoutEverywhere

LEMMA ChangePasswordType ==
    ASSUME TypeInv, NEW r \in Req, ChangePassword(r)
    PROVE  TypeInv'
<1>1. /\ req[r].op \in CookieOps /\ req[r].op \in SettingOps \ {"signup"}
      /\ StageFits(req[r], "password") /\ StageFits(req[r], "open")
    BY DEF ChangePassword, CookieOps, SettingOps, StageFits
<1>2. CASE LoadUser(r, password[req[r].user] = req[r].pw, "password",
                    "forbidden")
    BY <1>1, <1>2, LoadType DEF Stage, Status
<1>3. CASE SetPassword(r, "revoke") BY <1>1, <1>3, PasswordType
<1>4. CASE RevokeAll(r) /\ Goto(r, "open")
    BY <1>1, <1>4, RevokeAllRows, GotoFits DEF TypeInv, Stage
<1>5. CASE OpenSession(r) BY <1>5, OpenType
<1>6. QED BY <1>2, <1>3, <1>4, <1>5 DEF ChangePassword

LEMMA ConfirmResetType ==
    ASSUME TypeInv, NEW r \in Req, ConfirmReset(r)
    PROVE  TypeInv'
<1>1. /\ req[r].op \in LinkOps /\ req[r].op \in SettingOps \ {"signup"}
      /\ StageFits(req[r], "password")
    BY DEF ConfirmReset, LinkOps, SettingOps, StageFits
<1>2. CASE ConsumeLink(r) BY <1>1, <1>2, ConsumeType
<1>3. CASE Check(r, req[r].user \in users, "password", "bad_link")
    BY <1>1, <1>3, CheckType DEF Stage, Status
<1>4. CASE SetPassword(r, "revoke") BY <1>1, <1>4, PasswordType
<1>5. CASE RevokeAll(r) /\ Answer(r, "ok")
    BY <1>5, RevokeAllRows, AnswerFits DEF TypeInv, Status
<1>6. QED BY <1>2, <1>3, <1>4, <1>5 DEF ConfirmReset

\* The two requests for a link read the address of a live account.
LEMMA AddressReadType ==
    ASSUME TypeInv, NEW r \in Req, req[r].user \in users,
           req[r].op \in OpName \ {"signup"}, UNCHANGED <<rows, answer>>,
           req' = [req EXCEPT ![r] =
                      [@ EXCEPT !.at = "retire", !.email = email[req[r].user]]]
    PROVE  TypeInv'
<1>1. email[req[r].user] \in Email BY DEF TypeInv, RowsOK, AccountsOK
<1>2. QED BY <1>1, EmailFilled, RowsUntouched DEF TypeInv

LEMMA RequestResetType ==
    ASSUME TypeInv, NEW r \in Req, RequestReset(r)
    PROVE  TypeInv'
<1>1. req[r].op \in OpName \ {"signup"} BY DEF RequestReset, OpName
<1>2. CASE UNCHANGED rows /\ Answer(r, "ok") BY <1>2, AnswerType DEF Status
<1>3. CASE RetireLinks(r) BY <1>3, RetireType
<1>4. CASE IssueLink(r, "mail") BY <1>1, <1>4, IssueType DEF Stage
<1>5. CASE SendMail(r) BY <1>5, MailType
<1>6. QED
    BY <1>1, <1>2, <1>3, <1>4, <1>5, AddressReadType DEF RequestReset

LEMMA ResendType ==
    ASSUME TypeInv, NEW r \in Req, ResendVerification(r)
    PROVE  TypeInv'
<1> DEFINE u == req[r].user
<1>1. req[r].op \in OpName \ {"signup"}
    BY DEF ResendVerification, OpName, CookieOps
<1>2. CASE /\ UNCHANGED rows
           /\ Answer(r, IF u \in users THEN "ok" ELSE "unauthorized")
    BY <1>2, AnswerType DEF Status
<1>3. CASE RetireLinks(r) BY <1>3, RetireType
<1>4. CASE IssueLink(r, "mail") BY <1>1, <1>4, IssueType DEF Stage
<1>5. CASE SendMail(r) BY <1>5, MailType
<1>6. QED
    BY <1>1, <1>2, <1>3, <1>4, <1>5, AddressReadType DEF ResendVerification

LEMMA VerifyType ==
    ASSUME TypeInv, NEW r \in Req, VerifyEmail(r)
    PROVE  TypeInv'
<1> DEFINE u == req[r].user
<1>1. req[r].op \in LinkOps /\ StageFits(req[r], "verify")
    BY DEF VerifyEmail, LinkOps, StageFits
<1>2. CASE ConsumeLink(r) BY <1>1, <1>2, ConsumeType
<1>3. CASE Check(r, u \in users, "verify", "bad_link")
    BY <1>1, <1>3, CheckType DEF Stage, Status
<1>4. CASE UNCHANGED rows /\ Answer(r, "failed")
    BY <1>4, AnswerType DEF Status
<1>5. CASE /\ u \in users
           /\ verified' = verified \cup {u}
           /\ Retire(u, "verification")
           /\ UNCHANGED <<users, name, email, pending, password, weak,
                          sessionRows>>
           /\ Answer(r, "ok")
  <2>1. AccountsOK' BY <1>5 DEF TypeInv, RowsOK, AccountsOK
  <2>2. SessionsOK' /\ SessionIdsKept
      BY <1>5, SessionsUntouched DEF TypeInv, RowsOK
  <2>3. TokensOK' /\ TokenIdsKept BY <1>5, LinksRetired DEF TypeInv, RowsOK
  <2>4. QED
      BY <1>5, <2>1, <2>2, <2>3, AnswerFits DEF TypeInv, RowsOK, Kept, Status
<1>6. QED BY <1>2, <1>3, <1>4, <1>5 DEF VerifyEmail

LEMMA DeleteType ==
    ASSUME TypeInv, NEW r \in Req, DeleteAccount(r)
    PROVE  TypeInv'
<1> DEFINE u == req[r].user
<1>1. /\ req[r].op \in CookieOps /\ req[r].op \in OpName \ {"signup"}
      /\ StageFits(req[r], "write")
    BY DEF DeleteAccount, CookieOps, OpName, StageFits
<1>2. CASE LoadUser(r, password[u] = req[r].pw, "write", "forbidden")
    BY <1>1, <1>2, LoadType DEF Stage, Status
<1>3. CASE /\ users' = users \ {u}
           /\ email' = [email EXCEPT ![u] = None]
           /\ pending' = [pending EXCEPT ![u] = None]
           /\ password' = [password EXCEPT ![u] = None]
           /\ weak' = weak \ {u}
           /\ verified' = verified \ {u}
           /\ Revoke(SessionsOf(u))
           /\ tokens' = {t \in tokens : link[t].user # u}
           /\ UNCHANGED <<name, link, lapsed, mailed, proven>>
           /\ Answer(r, "ok")
  <2>1. u \in User BY <1>1 DEF TypeInv, SlotsOK, ArgsFit
  <2>2. AccountsOK' BY <1>3, <2>1 DEF TypeInv, RowsOK, AccountsOK
  <2>3. SessionsOK' /\ SessionIdsKept
    <3>1. \A s \in SessionsOf(u) : s \in Session /\ session[s] # "unused"
        BY DEF SessionsOf, LiveSessions
    <3>2. \A s \in LiveSessions \ SessionsOf(u) : holder[s] \in users'
        BY <1>3 DEF SessionsOf, TypeInv, RowsOK, SessionsOK
    <3>3. QED BY <1>3, <3>1, <3>2, SessionsRevoked DEF TypeInv, RowsOK
  <2>4. TokensOK' /\ TokenIdsKept
      BY <1>3
      DEF TypeInv, RowsOK, TokensOK, MintedTokens, TokenIdsKept
  <2>5. QED
      BY <1>3, <2>2, <2>3, <2>4, AnswerFits DEF TypeInv, RowsOK, Kept, Status
<1>4. QED BY <1>2, <1>3 DEF DeleteAccount

LEMMA StagePendingType ==
    ASSUME TypeInv, NEW r \in Req, req[r].op = "change_email",
           StagePending(r)
    PROVE  TypeInv'
<1> DEFINE u == req[r].user
<1>1. req[r].email \in Email /\ StageFits(req[r], "issue")
    BY DEF TypeInv, SlotsOK, ArgsFit, AddressOps, StageFits
<1>2. CASE UNCHANGED rows /\ Answer(r, "failed")
    BY <1>2, AnswerType DEF Status
<1>3. ASSUME AccountsOK', UNCHANGED <<users, sessionRows>>,
             Retire(u, "change"), Goto(r, "issue")
      PROVE  TypeInv'
  <2>1. SessionsOK' /\ SessionIdsKept
      BY <1>3, SessionsUntouched DEF TypeInv, RowsOK
  <2>2. TokensOK' /\ TokenIdsKept BY <1>3, LinksRetired DEF TypeInv, RowsOK
  <2>3. QED
      BY <1>1, <1>3, <2>1, <2>2, GotoFits DEF TypeInv, RowsOK, Kept, Stage
<1>4. CASE /\ u \in users
           /\ pending' = [pending EXCEPT ![u] = req[r].email]
           /\ Retire(u, "change")
           /\ UNCHANGED <<users, name, email, password, weak, verified,
                          sessionRows>>
           /\ Goto(r, "issue")
  <2>1. AccountsOK' BY <1>1, <1>4 DEF TypeInv, RowsOK, AccountsOK
  <2>2. QED BY <1>3, <1>4, <2>1
<1>5. CASE /\ Retire(u, "change")
           /\ UNCHANGED <<account, sessionRows>>
           /\ Goto(r, "issue")
  <2>1. AccountsOK' BY <1>5 DEF TypeInv, RowsOK, AccountsOK, account
  <2>2. QED BY <1>3, <1>5, <2>1 DEF account
<1>6. QED BY <1>2, <1>4, <1>5 DEF StagePending

LEMMA ChangeEmailType ==
    ASSUME TypeInv, NEW r \in Req, ChangeEmail(r)
    PROVE  TypeInv'
<1> DEFINE u == req[r].user
           e == req[r].email
<1>1. /\ req[r].op = "change_email" /\ req[r].op \in OpName
      /\ StageFits(req[r], "pend") /\ StageFits(req[r], "keep")
      /\ StageFits(req[r], "taken") /\ StageFits(req[r], "retaken")
    BY DEF ChangeEmail, OpName, CookieOps, StageFits
<1>2. CASE UNCHANGED rows
           /\ Goto(r, IF pending[u] = e THEN "retaken" ELSE "taken")
    BY <1>1, <1>2, GotoType DEF Stage
<1>3. CASE UNCHANGED rows
           /\ Answer(r, IF u \notin users THEN "unauthorized"
                        ELSE IF password[u] # req[r].pw THEN "forbidden"
                        ELSE "unchanged")
    BY <1>3, AnswerType DEF Status
<1>4. CASE Check(r, ~EmailTaken(e), "pend", "email_taken")
    BY <1>1, <1>4, CheckType DEF Stage, Status
<1>5. CASE Check(r, ~EmailTaken(e), "keep", "email_taken")
    BY <1>1, <1>5, CheckType DEF Stage, Status
<1>6. CASE StagePending(r) BY <1>1, <1>6, StagePendingType
<1>7. CASE IssueLink(r, "refresh") BY <1>1, <1>7, IssueType DEF Stage
<1>8. CASE At(r, "refresh") /\ Check(r, u \in users, "mail", "failed")
  <2>1. StageFits(req[r], "mail")
      BY <1>1, <1>8 DEF StageFits, At, TypeInv, SlotsOK
  <2>2. QED BY <1>8, <2>1, CheckType DEF Stage, Status
<1>9. CASE SendMail(r) BY <1>9, MailType
<1>10. QED
    BY <1>2, <1>3, <1>4, <1>5, <1>6, <1>7, <1>8, <1>9 DEF ChangeEmail

LEMMA ConfirmChangeType ==
    ASSUME TypeInv, NEW r \in Req, ConfirmEmailChange(r)
    PROVE  TypeInv'
<1> DEFINE u == req[r].user
           e == req[r].email
<1>1. req[r].op \in LinkOps /\ req[r].op \in OpName \ {"signup"}
    BY DEF ConfirmEmailChange, LinkOps, OpName
<1>2. CASE ConsumeLink(r) BY <1>1, <1>2, ConsumeType
<1>3. CASE /\ u \in users /\ pending[u] # None
           /\ req' = [req EXCEPT ![r] =
                         [@ EXCEPT !.email = pending[u], !.at =
                             IF pending[u] = email[u] THEN "stamp"
                                                      ELSE "swap"]]
           /\ UNCHANGED <<rows, answer>>
  <2>1. pending[u] \in Email BY <1>3 DEF TypeInv, RowsOK, AccountsOK
  <2>2. PICK stage \in {"stamp", "swap"} :
           req' = [req EXCEPT ![r] =
                      [@ EXCEPT !.email = pending[u], !.at = stage]]
      BY <1>3
  <2>3. req' = [req EXCEPT ![r] =
                   [@ EXCEPT !.at = stage, !.email = pending[u]]]
      BY <2>2 DEF TypeInv, SlotsOK, Request
  <2>4. QED
      BY <1>1, <1>3, <2>1, <2>3, EmailFilled, RowsUntouched DEF TypeInv
<1>4. ASSUME NEW status \in Status, UNCHANGED rows, Answer(r, status)
      PROVE  TypeInv'
    BY <1>4, AnswerType
<1>5. CASE /\ u \in users
           /\ \/ At(r, "swap") /\ email' = [email EXCEPT ![u] = e]
              \/ UNCHANGED email
           /\ pending' = [pending EXCEPT ![u] = None]
           /\ verified' = verified \cup {u}
           /\ UNCHANGED <<users, name, password, weak, sessionRows,
                          tokenRows>>
           /\ Answer(r, "ok")
  <2>1. At(r, "swap") => e \in Email
      BY DEF TypeInv, SlotsOK, StageFits, At
  <2>2. AccountsOK' BY <1>5, <2>1 DEF TypeInv, RowsOK, AccountsOK
  <2>3. SessionsOK' /\ SessionIdsKept
      BY <1>5, SessionsUntouched DEF TypeInv, RowsOK
  <2>4. TokensOK' /\ TokenIdsKept
      BY <1>5, TokensUntouched DEF TypeInv, RowsOK
  <2>5. QED
      BY <1>5, <2>2, <2>3, <2>4, AnswerFits DEF TypeInv, RowsOK, Kept, Status
<1>6. QED
    BY <1>2, <1>3, <1>4, <1>5 DEF ConfirmEmailChange, Status

LEMMA HandleType ==
    ASSUME TypeInv, NEW r \in Req, Handle(r)
    PROVE  TypeInv'
BY ResolveType, SlideType, SignupType, LoginType, MeType, LogoutType,
   VerifyType, ResendType, RequestResetType, ConfirmResetType,
   ChangePasswordType, ChangeEmailType, ConfirmChangeType, DeleteType
DEF Handle

------------------------------------------------------------------------------
(* Everything else that happens.                                            *)

\* Steps that touch no slot.
LEMMA SlotsUntouched ==
    ASSUME SlotsOK, Kept, UNCHANGED <<req, answer>>
    PROVE  SlotsOK'
BY DEF SlotsOK, ArgsFit, StageFits, Kept, SessionIdsKept, TokenIdsKept

LEMMA AgeType ==
    ASSUME TypeInv, NEW s \in Session, AgeSession(s)
    PROVE  TypeInv'
<1>1. AccountsOK' BY DEF AgeSession, TypeInv, RowsOK, AccountsOK, account
<1>2. TokensOK' /\ TokenIdsKept
    BY TokensUntouched DEF AgeSession, TypeInv, RowsOK, account
<1>3. LiveSessions' = LiveSessions
    BY DEF AgeSession, LiveSessions, TypeInv, RowsOK, SessionsOK
<1>4. SessionsOK' /\ SessionIdsKept
    BY <1>3
    DEF AgeSession, TypeInv, RowsOK, SessionsOK, SessionState,
        SessionIdsKept, LiveSessions, account
<1>5. QED
    BY <1>1, <1>2, <1>4, SlotsUntouched
    DEF AgeSession, TypeInv, RowsOK, Kept

LEMMA LapseType ==
    ASSUME TypeInv, NEW t \in Token, Lapse(t)
    PROVE  TypeInv'
<1>1. AccountsOK' BY DEF Lapse, TypeInv, RowsOK, AccountsOK, account
<1>2. SessionsOK' /\ SessionIdsKept
    BY SessionsUntouched DEF Lapse, TypeInv, RowsOK, account
<1>3. TokensOK' /\ TokenIdsKept
    BY DEF Lapse, TypeInv, RowsOK, TokensOK, MintedTokens, TokenIdsKept,
           account
<1>4. QED
    BY <1>1, <1>2, <1>3, SlotsUntouched DEF Lapse, TypeInv, RowsOK, Kept

LEMMA UpgradeType ==
    ASSUME TypeInv, Upgrade
    PROVE  TypeInv'
<1>1. AccountsOK' BY DEF Upgrade, TypeInv, RowsOK, AccountsOK
<1>2. SessionsOK' /\ SessionIdsKept
    BY SessionsUntouched DEF Upgrade, TypeInv, RowsOK
<1>3. TokensOK' /\ TokenIdsKept
    BY TokensUntouched DEF Upgrade, TypeInv, RowsOK
<1>4. QED
    BY <1>1, <1>2, <1>3, SlotsUntouched DEF Upgrade, TypeInv, RowsOK, Kept

LEMMA ReceiveType ==
    ASSUME TypeInv, NEW r \in Req, Receive(r)
    PROVE  TypeInv'
<1>a. PICK op \in Op :
        \E s \in Arg(op, CookieOps, {x \in Session : session[x] # "unused"}),
           t \in Arg(op, LinkOps, mailed),
           p \in Arg(op, ReauthOps, Password),
           w \in Arg(op, SettingOps, Password),
           n \in Arg(op, {"signup"}, Name),
           e \in Arg(op, AddressOps, Email) :
          \E u \in AccountOf(op, s, t) :
             req' = [req EXCEPT ![r] =
                        [op |-> op, at |-> FirstStage(op), user |-> u,
                         sess |-> s, link |-> t, pw |-> p, new |-> w,
                         name |-> n, email |-> e]]
    BY DEF Receive
<1>b. PICK s \in Arg(op, CookieOps, {x \in Session : session[x] # "unused"}),
           t \in Arg(op, LinkOps, mailed),
           p \in Arg(op, ReauthOps, Password),
           w \in Arg(op, SettingOps, Password),
           n \in Arg(op, {"signup"}, Name),
           e \in Arg(op, AddressOps, Email) :
        \E u \in AccountOf(op, s, t) :
           req' = [req EXCEPT ![r] =
                      [op |-> op, at |-> FirstStage(op), user |-> u,
                       sess |-> s, link |-> t, pw |-> p, new |-> w,
                       name |-> n, email |-> e]]
    BY <1>a
<1>1. PICK u \in AccountOf(op, s, t) :
        req' = [req EXCEPT ![r] =
                   [op |-> op, at |-> FirstStage(op), user |-> u,
                    sess |-> s, link |-> t, pw |-> p, new |-> w,
                    name |-> n, email |-> e]]
    BY <1>b
<1>2. op \in OpName BY ConstantsAssumption
<1>3. op \in LinkOps => t \in MintedTokens
    BY DEF Arg, TypeInv, RowsOK, TokensOK
<1>4. op \in CookieOps => s \in Session /\ session[s] # "unused"
    BY DEF Arg
<1>5. op # "signup" => u \in User
  <2>1. CASE op \in CookieOps
    <3>1. u = holder[s] BY <2>1 DEF AccountOf, CookieOps, LinkOps
    <3>2. QED BY <1>4, <2>1, <3>1 DEF TypeInv, RowsOK, SessionsOK
  <2>2. CASE op \in LinkOps
      BY <1>3, <2>2
      DEF AccountOf, TypeInv, RowsOK, TokensOK, MintedTokens, Link, LinkOps,
          CookieOps
  <2>3. CASE op \in {"login", "request_reset"}
      BY <2>3 DEF AccountOf, CookieOps, LinkOps
  <2>4. QED BY <1>2, <2>1, <2>2, <2>3 DEF OpName
<1>6. op = "signup" => u = None BY DEF AccountOf, CookieOps, LinkOps
<1>7. PICK q : q = [op |-> op, at |-> FirstStage(op), user |-> u,
                    sess |-> s, link |-> t, pw |-> p, new |-> w,
                    name |-> n, email |-> e]
    OBVIOUS
<1>8. /\ FirstStage(op) \in Stage
      /\ FirstStage(op) \notin {"retire", "issue", "swap", "mail", "refresh"}
      /\ op = "signup" => FirstStage(op) = "insert"
    BY DEF FirstStage, Stage, CookieOps, LinkOps
<1>9. q \in Request
  <2>1. u \in User \cup {None} BY <1>5, <1>6
  <2>2. s \in Session \cup {None} /\ t \in Token \cup {None}
      BY DEF Arg, TypeInv, RowsOK, TokensOK, MintedTokens
  <2>3. /\ p \in Password \cup {None} /\ w \in Password \cup {None}
        /\ n \in Name \cup {None} /\ e \in Email \cup {None}
      BY DEF Arg
  <2>4. QED BY <1>2, <1>7, <1>8, <2>1, <2>2, <2>3 DEF Request
<1>10. Kept /\ RowsOK'
    BY RowsUntouched DEF Receive, TypeInv
<1>11. /\ op \in ReauthOps => p \in Password
       /\ op \in SettingOps => w \in Password
       /\ op = "signup" => n \in Name
       /\ op \in AddressOps => e \in Email
    BY DEF Arg
<1>12. ArgsFit(q)'
    BY <1>3, <1>4, <1>5, <1>7, <1>10, <1>11
    DEF ArgsFit, Kept, SessionIdsKept, TokenIdsKept
<1>13. StageFits(q, q.at)' BY <1>7, <1>8 DEF StageFits
<1>14. answer' \in [Req -> Status] BY DEF Receive, TypeInv, SlotsOK, Status
<1>15. SlotsOK'
    BY <1>1, <1>7, <1>9, <1>10, <1>12, <1>13, <1>14, SlotFilled DEF TypeInv
<1>16. QED BY <1>10, <1>15 DEF TypeInv

\* The inductive step of the type invariant.
LEMMA TypeStep == TypeInv /\ [Next]_vars => TypeInv'
<1> SUFFICES ASSUME TypeInv, [Next]_vars PROVE TypeInv'
    OBVIOUS
<1>1. ASSUME NEW r \in Req, Crash(r) PROVE TypeInv'
    BY <1>1, AnswerType DEF Crash, Status
<1>2. CASE UNCHANGED vars
    BY <1>2, RowsUntouched, SlotsUntouched DEF vars, TypeInv
<1>3. QED
    BY <1>1, <1>2, ReceiveType, HandleType, AgeType, LapseType, UpgradeType
    DEF Next

LEMMA TypeInit == Init => TypeInv
<1> SUFFICES ASSUME Init PROVE TypeInv
    OBVIOUS
<1>1. AccountsOK
    BY ConstantsAssumption DEF Init, AccountsOK, Over
<1>2. SessionsOK
    BY DEF Init, SessionsOK, SessionState, LiveSessions
<1>3. TokensOK BY DEF Init, TokensOK, MintedTokens
<1>4. SlotsOK
  <2>1. Idle \in Request BY DEF Idle, Request, Stage
  <2>2. ArgsFit(Idle) /\ StageFits(Idle, Idle.at)
      BY ConstantsAssumption
      DEF ArgsFit, StageFits, Idle, OpName, CookieOps, LinkOps, ReauthOps,
          SettingOps, AddressOps
  <2>3. QED BY <2>1, <2>2 DEF Init, SlotsOK, Status
<1>5. QED BY <1>1, <1>2, <1>3, <1>4 DEF TypeInv, RowsOK

LEMMA TypeInvariant == Spec => []TypeInv
BY TypeInit, TypeStep, PTL DEF Spec

\* Every reachable state is typed: TypeOK of the runs.
THEOREM TypeCorrect == Spec => []TypeOK
<1>1. TypeInv => TypeOK
    BY DEF TypeInv, RowsOK, AccountsOK, SessionsOK, TokensOK, SlotsOK, TypeOK
<1>2. QED BY <1>1, TypeInvariant, PTL

\* No session, link or pending address outlives its account, however many
\* logins, renewals, resets and deletions interleave and fail.
THEOREM DeletionIsComplete == Spec => []NothingOutlivesAccount
<1>1. TypeInv => NothingOutlivesAccount
    BY DEF TypeInv, RowsOK, AccountsOK, SessionsOK, TokensOK,
           NothingOutlivesAccount
<1>2. QED BY <1>1, TypeInvariant, PTL

------------------------------------------------------------------------------
(* Names and addresses.                                                     *)

\* What a step can do to the columns two accounts may not share: keep those
\* of the accounts it leaves, write a free address, or insert a free pair.
Keeps ==
    /\ users' \subseteq users
    /\ \A u \in users' : email'[u] = email[u] /\ name'[u] = name[u]

Swaps ==
    /\ UNCHANGED <<users, name>>
    /\ \E u \in users, e \in Email :
          SwapAllowed(u, e) /\ email' = [email EXCEPT ![u] = e]

Inserts ==
    \E u \in User, n \in Name, e \in Email :
        /\ ~NameTaken(n) /\ ~EmailTaken(e)
        /\ users' = users \cup {u}
        /\ name' = [name EXCEPT ![u] = n]
        /\ email' = [email EXCEPT ![u] = e]

\* None of the three lets two accounts meet.
LEMMA IdentityStep ==
    ASSUME AccountsOK, AccountsAreDistinct, Keeps \/ Swaps \/ Inserts
    PROVE  AccountsAreDistinct'
<1>1. CASE Keeps BY <1>1 DEF Keeps, AccountsAreDistinct
<1>2. CASE Swaps
    BY <1>2 DEF Swaps, SwapAllowed, AccountsAreDistinct, AccountsOK
<1>3. CASE Inserts
  <2>1. PICK u \in User, n \in Name, e \in Email :
           /\ ~NameTaken(n) /\ ~EmailTaken(e)
           /\ users' = users \cup {u}
           /\ name' = [name EXCEPT ![u] = n]
           /\ email' = [email EXCEPT ![u] = e]
      BY <1>3 DEF Inserts
  <2>2. \A v \in users' \ {u} :
           /\ v \in users /\ email'[v] = email[v] /\ name'[v] = name[v]
           /\ email'[v] # e /\ name'[v] # n
      BY <2>1 DEF NameTaken, EmailTaken, AccountsOK
  <2>3. email'[u] = e /\ name'[u] = n BY <2>1 DEF AccountsOK
  <2>4. QED BY <2>1, <2>2, <2>3 DEF AccountsAreDistinct
<1>4. QED BY <1>1, <1>2, <1>3

LEMMA UnchangedKeeps ==
    ASSUME UNCHANGED <<users, name, email>>
    PROVE  Keeps
BY DEF Keeps

LEMMA HandleIdentity ==
    ASSUME TypeInv, NEW r \in Req, Handle(r)
    PROVE  Keeps \/ Swaps \/ Inserts
<1> DEFINE u == req[r].user
<1>1. ASSUME NEW condition, NEW stage, NEW status,
             Check(r, condition, stage, status)
      PROVE  Keeps
    BY <1>1, UnchangedKeeps DEF Check, rows, account
<1>2. ASSUME NEW condition, NEW next, NEW refusal,
             LoadUser(r, condition, next, refusal)
      PROVE  Keeps
    BY <1>1, <1>2 DEF LoadUser
<1>3. ASSUME NEW next, IssueLink(r, next) PROVE Keeps
    BY <1>3, UnchangedKeeps DEF IssueLink, rows, account
<1>4. CASE RetireLinks(r) \/ SendMail(r) \/ RevokeAll(r) \/ OpenSession(r)
    BY <1>4, UnchangedKeeps
    DEF RetireLinks, SendMail, RevokeAll, OpenSession, rows, account
<1>5. CASE ResolveSession(r) \/ Slide(r)
    BY <1>5, UnchangedKeeps DEF ResolveSession, Slide, rows, account
<1>6. CASE ConsumeLink(r)
    BY <1>1, <1>6, UnchangedKeeps
    DEF ConsumeLink, FindLink, SpendLink, rows, account
<1>7. ASSUME NEW next, SetPassword(r, next) PROVE Keeps
    BY <1>7, UnchangedKeeps DEF SetPassword, rows, account
<1>8. CASE Signup(r)
  <2>1. ASSUME NEW v \in User, ~NameTaken(req[r].name),
               ~EmailTaken(req[r].email),
               InsertAccount(v, req[r].name, req[r].email, req[r].new)
        PROVE  Inserts
    <3>1. req[r].name \in Name /\ req[r].email \in Email
        BY <1>8 DEF Signup, TypeInv, SlotsOK, ArgsFit, AddressOps
    <3>2. QED BY <2>1, <3>1 DEF InsertAccount, InsertAccountRow, Inserts
  <2>2. CASE UNCHANGED rows
      BY <2>2, UnchangedKeeps DEF rows, account
  <2>3. QED BY <1>1, <1>3, <1>4, <1>8, <2>1, <2>2 DEF Signup
<1>9. CASE Login(r)
    BY <1>1, <1>4, <1>9, UnchangedKeeps DEF Login, rows, account
<1>10. CASE Me(r) BY <1>10, UnchangedKeeps DEF Me, rows, account
<1>11. CASE Logout(r) \/ LogoutEverywhere(r)
    BY <1>2, <1>4, <1>11, UnchangedKeeps
    DEF Logout, LogoutEverywhere, account
<1>12. CASE VerifyEmail(r)
    BY <1>1, <1>6, <1>12, UnchangedKeeps DEF VerifyEmail, rows, account
<1>13. CASE ResendVerification(r)
    BY <1>3, <1>4, <1>13, UnchangedKeeps
    DEF ResendVerification, rows, account
<1>14. CASE RequestReset(r)
    BY <1>3, <1>4, <1>14, UnchangedKeeps DEF RequestReset, rows, account
<1>15. CASE ConfirmReset(r)
    BY <1>1, <1>4, <1>6, <1>7, <1>15 DEF ConfirmReset
<1>16. CASE ChangePassword(r)
    BY <1>2, <1>4, <1>7, <1>16 DEF ChangePassword
<1>17. CASE ChangeEmail(r)
  <2>1. CASE StagePending(r)
      BY <2>1, UnchangedKeeps DEF StagePending, rows, account
  <2>2. CASE UNCHANGED rows
      BY <2>2, UnchangedKeeps DEF rows, account
  <2>3. QED BY <1>1, <1>3, <1>4, <1>17, <2>1, <2>2 DEF ChangeEmail
<1>18. CASE ConfirmEmailChange(r)
  <2>1. ASSUME u \in users, At(r, "swap"), SwapAllowed(u, req[r].email),
               email' = [email EXCEPT ![u] = req[r].email],
               UNCHANGED <<users, name>>
        PROVE  Swaps
    <3>1. req[r].email \in Email
        BY <2>1 DEF TypeInv, SlotsOK, StageFits, At
    <3>2. QED BY <2>1, <3>1 DEF Swaps
  <2>2. CASE UNCHANGED rows
      BY <2>2, UnchangedKeeps DEF rows, account
  <2>3. QED
      BY <1>6, <1>18, <2>1, <2>2, UnchangedKeeps
      DEF ConfirmEmailChange
<1>19. CASE DeleteAccount(r)
  <2>1. ASSUME users' = users \ {u}, email' = [email EXCEPT ![u] = None],
               UNCHANGED name
        PROVE  Keeps
      BY <2>1 DEF Keeps, TypeInv, RowsOK, AccountsOK
  <2>2. QED BY <1>2, <1>19, <2>1 DEF DeleteAccount
<1>20. QED
    BY <1>5, <1>8, <1>9, <1>10, <1>11, <1>12, <1>13, <1>14, <1>15, <1>16,
       <1>17, <1>18, <1>19 DEF Handle

\* No two accounts ever share an address or a username, although both are
\* looked up long before they are written.
THEOREM AccountsStayDistinct == Spec => []AccountsAreDistinct
<1>1. Init => AccountsAreDistinct
    BY DEF Init, Distinct, AccountsAreDistinct
<1>2. TypeInv /\ AccountsAreDistinct /\ [Next]_vars => AccountsAreDistinct'
  <2> SUFFICES ASSUME TypeInv, AccountsAreDistinct, [Next]_vars
               PROVE  AccountsAreDistinct'
      OBVIOUS
  <2>1. CASE \E r \in Req : Handle(r)
      BY <2>1, HandleIdentity, IdentityStep DEF TypeInv, RowsOK
  <2>2. CASE \E r \in Req : Receive(r) \/ Crash(r)
      BY <2>2 DEF Receive, Crash, rows, account, AccountsAreDistinct
  <2>3. CASE \E s \in Session : AgeSession(s)
      BY <2>3 DEF AgeSession, account, AccountsAreDistinct
  <2>4. CASE \E t \in Token : Lapse(t)
      BY <2>4 DEF Lapse, account, AccountsAreDistinct
  <2>5. CASE Upgrade BY <2>5 DEF Upgrade, AccountsAreDistinct
  <2>6. CASE UNCHANGED vars
      BY <2>6 DEF vars, rows, account, AccountsAreDistinct
  <2>7. QED BY <2>1, <2>2, <2>3, <2>4, <2>5, <2>6 DEF Next
<1>3. QED BY <1>1, <1>2, TypeInvariant, PTL DEF Spec

------------------------------------------------------------------------------
(* Sessions older than their account's password.                            *)

\* The request that set a password and has yet to revoke the sessions of u.
AboutToRevoke(q, u) ==
    /\ q.op \in {"change_password", "confirm_reset"}
    /\ q.user = u
    /\ q.at = "revoke"

\* A step of r leaves the other requests and the holders of live sessions as
\* they are, and adds outdated sessions only when r sets a password.
OwnSlot(r) == \A q \in Req \ {r} : req'[q] = req[q]

HoldersStay == \A s \in LiveSessions : holder'[s] = holder[s]

Outdates(r) ==
    /\ OwnSlot(r) /\ HoldersStay
    /\ \/ ~At(r, "revoke") /\ outdated' \subseteq outdated
       \/ outdated' \subseteq outdated \ SessionsOf(req[r].user)
       \/ /\ ~At(r, "revoke")
          /\ outdated' \subseteq outdated \cup SessionsOf(req[r].user)
          /\ AboutToRevoke(req'[r], req[r].user)

\* Whatever the step, every outdated session is still about to be revoked.
LEMMA OutdatedStep ==
    ASSUME TypeInv, OldSessionsAreRevoked, NEW r \in Req, Outdates(r)
    PROVE  OldSessionsAreRevoked'
<1> SUFFICES ASSUME NEW s \in outdated'
             PROVE  \E q \in Req : AboutToRevoke(req'[q], holder'[s])
    BY DEF OldSessionsAreRevoked, AboutToRevoke, At
<1>1. \A x \in outdated :
        \E q \in Req : AboutToRevoke(req[q], holder[x])
    BY DEF OldSessionsAreRevoked, AboutToRevoke, At
<1>2. outdated \subseteq LiveSessions BY DEF TypeInv, RowsOK, SessionsOK
<1>3. CASE s \in outdated /\ ~At(r, "revoke")
  <2>1. PICK q \in Req : AboutToRevoke(req[q], holder[s]) BY <1>1, <1>3
  <2>2. q # r BY <1>3, <2>1 DEF AboutToRevoke, At
  <2>3. req'[q] = req[q] /\ holder'[s] = holder[s]
      BY <1>2, <1>3, <2>2 DEF Outdates, OwnSlot, HoldersStay
  <2>4. QED BY <2>1, <2>3
<1>4. CASE outdated' \subseteq outdated \ SessionsOf(req[r].user)
  <2>1. s \in outdated /\ holder[s] # req[r].user
      BY <1>2, <1>4 DEF SessionsOf
  <2>2. PICK q \in Req : AboutToRevoke(req[q], holder[s]) BY <1>1, <2>1
  <2>3. q # r BY <2>1, <2>2 DEF AboutToRevoke
  <2>4. req'[q] = req[q] /\ holder'[s] = holder[s]
      BY <1>2, <2>1, <2>3 DEF Outdates, OwnSlot, HoldersStay
  <2>5. QED BY <2>2, <2>4
<1>5. CASE s \in SessionsOf(req[r].user)
           /\ AboutToRevoke(req'[r], req[r].user)
  <2>1. holder'[s] = req[r].user
      BY <1>5 DEF SessionsOf, Outdates, HoldersStay
  <2>2. QED BY <1>5, <2>1
<1>6. QED BY <1>3, <1>4, <1>5 DEF Outdates

\* Steps of r that touch no session.
LEMMA SessionsStay ==
    ASSUME NEW r \in Req, OwnSlot(r), ~At(r, "revoke"),
           UNCHANGED <<holder, outdated>>
    PROVE  Outdates(r)
BY DEF Outdates, HoldersStay

LEMMA OwnStep ==
    ASSUME TypeInv, NEW r \in Req, NEW stage, NEW status,
           Goto(r, stage) \/ Answer(r, status)
    PROVE  OwnSlot(r)
BY DEF Goto, Answer, OwnSlot, TypeInv, SlotsOK

LEMMA HandleOutdates ==
    ASSUME TypeInv, NEW r \in Req, Handle(r)
    PROVE  Outdates(r)
<1> DEFINE u == req[r].user
<1>1. ASSUME UNCHANGED rows, ~At(r, "revoke"), OwnSlot(r)
      PROVE  Outdates(r)
    BY <1>1, SessionsStay DEF rows, sessionRows
<1>2. ASSUME NEW condition, NEW stage, NEW status, ~At(r, "revoke"),
             Check(r, condition, stage, status)
      PROVE  Outdates(r)
    BY <1>1, <1>2, OwnStep DEF Check
<1>3. ASSUME NEW condition, NEW next, NEW refusal,
             LoadUser(r, condition, next, refusal)
      PROVE  Outdates(r)
    BY <1>2, <1>3 DEF LoadUser, At
<1>4. ASSUME NEW next, IssueLink(r, next) PROVE Outdates(r)
  <2>1. OwnSlot(r)
      BY <1>4, OwnStep DEF IssueLink, OwnSlot, TypeInv, SlotsOK
  <2>2. QED
      BY <1>4, <2>1, SessionsStay DEF IssueLink, At, rows, sessionRows
<1>5. CASE RetireLinks(r) \/ SendMail(r)
    BY <1>5, SessionsStay, OwnStep DEF RetireLinks, SendMail, At, sessionRows
<1>6. CASE OpenSession(r)
  <2>1. ASSUME InsertSession(u) PROVE HoldersStay /\ UNCHANGED outdated
      BY <2>1
      DEF InsertSession, HoldersStay, LiveSessions, TypeInv, RowsOK, SessionsOK
  <2>2. OwnSlot(r) /\ ~At(r, "revoke")
      BY <1>6, OwnStep DEF OpenSession, At
  <2>3. QED BY <1>1, <1>6, <2>1, <2>2 DEF OpenSession, Outdates
<1>7. ASSUME NEW stage, NEW status, RevokeAll(r),
             Goto(r, stage) \/ Answer(r, status)
      PROVE  Outdates(r)
    BY <1>7, OwnStep DEF RevokeAll, Revoke, Outdates, HoldersStay
<1>8. CASE ResolveSession(r) \/ Slide(r)
    BY <1>8, SessionsStay, OwnStep
    DEF ResolveSession, Slide, At, rows, sessionRows
<1>9. CASE ConsumeLink(r)
    BY <1>2, <1>9, SessionsStay, OwnStep
    DEF ConsumeLink, FindLink, SpendLink, At, sessionRows
<1>10. ASSUME SetPassword(r, "revoke"),
              req[r].op \in {"change_password", "confirm_reset"}
       PROVE  Outdates(r)
  <2>1. CASE UNCHANGED rows /\ Answer(r, "failed")
      BY <1>1, <1>10, <2>1, OwnStep DEF SetPassword, At
  <2>2. CASE Goto(r, "revoke") /\ outdated' = outdated \cup SessionsOf(u)
             /\ UNCHANGED holder
    <3>1. AboutToRevoke(req'[r], u)
        BY <1>10, <2>2 DEF AboutToRevoke, Goto, TypeInv, SlotsOK, Request
    <3>2. QED
        BY <1>10, <2>2, <3>1, OwnStep
        DEF SetPassword, At, Outdates, HoldersStay
  <2>3. QED BY <1>10, <2>1, <2>2 DEF SetPassword
<1>11. CASE Signup(r)
  <2>1. ASSUME NEW v \in User, At(r, "insert"), InsertSession(v),
               req' = [req EXCEPT ![r] =
                          [@ EXCEPT !.at = "refresh", !.user = v]]
        PROVE  Outdates(r)
      BY <2>1
      DEF InsertSession, Outdates, HoldersStay, OwnSlot, LiveSessions, At,
          TypeInv, RowsOK, SessionsOK, SlotsOK
  <2>2. CASE At(r, "insert") /\ UNCHANGED rows /\ Goto(r, "conflict")
      BY <1>1, <2>2, OwnStep DEF At
  <2>3. CASE At(r, "conflict") /\ UNCHANGED rows
             /\ Answer(r, IF NameTaken(req[r].name) THEN "name_taken"
                                                    ELSE "email_taken")
      BY <1>1, <2>3, OwnStep DEF At
  <2>4. CASE At(r, "refresh") /\ Check(r, u \in users, "retire", "failed")
      BY <1>2, <2>4 DEF At
  <2>5. QED BY <1>4, <1>5, <1>11, <2>1, <2>2, <2>3, <2>4 DEF Signup
<1>12. CASE Login(r)
    BY <1>1, <1>2, <1>6, <1>12, SessionsStay, OwnStep
    DEF Login, At, sessionRows
<1>13. CASE Me(r) BY <1>1, <1>13, OwnStep DEF Me, At
<1>14. CASE Logout(r) \/ LogoutEverywhere(r)
  <2>1. CASE /\ At(r, "write") /\ Revoke({req[r].sess}) /\ Answer(r, "ok")
      BY <2>1, OwnStep DEF Revoke, At, Outdates, HoldersStay
  <2>2. QED BY <1>3, <1>7, <1>14, <2>1 DEF Logout, LogoutEverywhere
<1>15. CASE VerifyEmail(r)
    BY <1>1, <1>2, <1>9, <1>15, SessionsStay, OwnStep
    DEF VerifyEmail, At, sessionRows
<1>16. CASE ResendVerification(r) \/ RequestReset(r)
  <2>1. ASSUME NEW stage, At(r, stage), stage # "revoke", UNCHANGED rows,
               req' = [req EXCEPT ![r] =
                          [@ EXCEPT !.at = "retire", !.email = email[u]]]
        PROVE  Outdates(r)
      BY <1>1, <2>1 DEF OwnSlot, At, TypeInv, SlotsOK
  <2>2. ASSUME NEW stage, At(r, stage), stage # "revoke", UNCHANGED rows,
               NEW status, Answer(r, status)
        PROVE  Outdates(r)
      BY <1>1, <2>2, OwnStep DEF At
  <2>3. QED
      BY <1>4, <1>5, <1>16, <2>1, <2>2 DEF ResendVerification, RequestReset
<1>17. CASE ConfirmReset(r)
    BY <1>2, <1>7, <1>9, <1>10, <1>17 DEF ConfirmReset, At
<1>18. CASE ChangePassword(r)
    BY <1>3, <1>6, <1>7, <1>10, <1>18 DEF ChangePassword
<1>19. CASE ChangeEmail(r)
  <2>1. CASE StagePending(r)
      BY <1>1, <2>1, SessionsStay, OwnStep DEF StagePending, At, sessionRows
  <2>2. CASE At(r, "load") /\ UNCHANGED rows /\ OwnSlot(r)
      BY <1>1, <2>2 DEF At
  <2>3. QED
      BY <1>2, <1>4, <1>5, <1>19, <2>1, <2>2, OwnStep DEF ChangeEmail, At
<1>20. CASE ConfirmEmailChange(r)
  <2>1. ASSUME At(r, "owner"), UNCHANGED rows, NEW q,
               req' = [req EXCEPT ![r] = q]
        PROVE  Outdates(r)
      BY <1>1, <2>1 DEF OwnSlot, At, TypeInv, SlotsOK
  <2>2. ASSUME NEW stage \in {"owner", "swap", "stamp"}, At(r, stage),
               UNCHANGED sessionRows, NEW status, Answer(r, status)
        PROVE  Outdates(r)
      BY <2>2, SessionsStay, OwnStep DEF At, sessionRows
  <2>3. QED BY <1>9, <1>20, <2>1, <2>2 DEF ConfirmEmailChange, rows
<1>21. CASE DeleteAccount(r)
  <2>1. CASE /\ At(r, "write") /\ Revoke(SessionsOf(u)) /\ Answer(r, "ok")
      BY <2>1, OwnStep DEF Revoke, At, Outdates, HoldersStay
  <2>2. QED BY <1>3, <1>21, <2>1 DEF DeleteAccount
<1>22. QED
    BY <1>8, <1>11, <1>12, <1>13, <1>14, <1>15, <1>16, <1>17, <1>18, <1>19,
       <1>20, <1>21 DEF Handle

\* As long as no request is cut off, a session older than its account's
\* password is always about to be revoked by the request that set it.
THEOREM PasswordChangeRevokes ==
    ASSUME "crash" \notin Event
    PROVE  Spec => []OldSessionsAreRevoked
<1>1. Init => OldSessionsAreRevoked BY DEF Init, OldSessionsAreRevoked
<1>2. TypeInv /\ OldSessionsAreRevoked /\ [Next]_vars
        => OldSessionsAreRevoked'
  <2> SUFFICES ASSUME TypeInv, OldSessionsAreRevoked, [Next]_vars
               PROVE  OldSessionsAreRevoked'
      OBVIOUS
  <2>1. ASSUME NEW r \in Req, Handle(r) PROVE OldSessionsAreRevoked'
      BY <2>1, HandleOutdates, OutdatedStep
  <2>2. ASSUME NEW r \in Req, Receive(r) PROVE OldSessionsAreRevoked'
    <3>1. OwnSlot(r) BY <2>2 DEF Receive, OwnSlot, TypeInv, SlotsOK
    <3>2. QED
        BY <2>2, <3>1, SessionsStay, OutdatedStep
        DEF Receive, At, rows, sessionRows
  <2>3. ASSUME NEW r \in Req, Crash(r) PROVE FALSE BY <2>3 DEF Crash
  <2>4. CASE UNCHANGED <<holder, outdated, req>>
      BY <2>4 DEF OldSessionsAreRevoked, At
  <2>5. CASE \/ \E s \in Session : AgeSession(s)
             \/ \E t \in Token : Lapse(t)
             \/ Upgrade
      BY <2>4, <2>5 DEF AgeSession, Lapse, Upgrade, sessionRows
  <2>6. CASE UNCHANGED vars BY <2>4, <2>6 DEF vars, rows, sessionRows
  <2>7. QED BY <2>1, <2>2, <2>3, <2>5, <2>6 DEF Next
<1>3. QED BY <1>1, <1>2, TypeInvariant, PTL DEF Spec

------------------------------------------------------------------------------
(* Revoked sessions.                                                        *)

RevokedStay ==
    \A s \in Session : session[s] = "revoked" => session'[s] = "revoked"

\* Nothing a handler does to the sessions brings a revoked one back: not the
\* insertion of another, nor a revocation, nor the renewal of a live one.
LEMMA HandleRevoked ==
    ASSUME TypeInv, NEW r \in Req, Handle(r)
    PROVE  RevokedStay
<1>1. CASE UNCHANGED session BY <1>1 DEF RevokedStay
<1>2. CASE UNCHANGED rows \/ UNCHANGED sessionRows
    BY <1>1, <1>2 DEF rows, sessionRows
<1>3. ASSUME NEW condition, NEW stage, NEW status,
             Check(r, condition, stage, status)
      PROVE  RevokedStay
    BY <1>2, <1>3 DEF Check
<1>4. ASSUME NEW condition, NEW next, NEW refusal,
             LoadUser(r, condition, next, refusal)
      PROVE  RevokedStay
    BY <1>3, <1>4 DEF LoadUser
<1>5. ASSUME NEW u, InsertSession(u) PROVE RevokedStay
    BY <1>5 DEF InsertSession, RevokedStay, TypeInv, RowsOK, SessionsOK
<1>6. ASSUME NEW S, Revoke(S) PROVE RevokedStay
    BY <1>6 DEF Revoke, RevokedStay
<1>7. CASE ResolveSession(r) BY <1>2, <1>7 DEF ResolveSession
<1>8. CASE Slide(r)
    BY <1>2, <1>8
    DEF Slide, LiveSessions, RevokedStay, TypeInv, RowsOK, SessionsOK
<1>9. CASE RetireLinks(r) \/ SendMail(r) \/ ConsumeLink(r)
    BY <1>2, <1>3, <1>9
    DEF RetireLinks, SendMail, ConsumeLink, FindLink, SpendLink
<1>10. ASSUME NEW next, IssueLink(r, next) PROVE RevokedStay
    BY <1>2, <1>10, Zenon DEF IssueLink
<1>11. ASSUME NEW next, SetPassword(r, next) PROVE RevokedStay
    BY <1>1, <1>2, <1>11 DEF SetPassword
<1>12. CASE OpenSession(r) BY <1>2, <1>5, <1>12 DEF OpenSession
<1>13. CASE RevokeAll(r) BY <1>6, <1>13 DEF RevokeAll
<1>14. CASE Signup(r)
  <2>1. ASSUME NEW u \in User, InsertSession(u) PROVE RevokedStay
      BY <1>5, <2>1
  <2>2. CASE UNCHANGED rows BY <1>2, <2>2
  <2>3. QED BY <1>3, <1>9, <1>10, <1>14, <2>1, <2>2, Zenon DEF Signup
<1>15. CASE Login(r) \/ Me(r)
    BY <1>2, <1>3, <1>12, <1>15 DEF Login, Me
<1>16. CASE Logout(r) \/ LogoutEverywhere(r)
    BY <1>4, <1>6, <1>13, <1>16 DEF Logout, LogoutEverywhere
<1>17. CASE VerifyEmail(r)
    BY <1>2, <1>3, <1>9, <1>17 DEF VerifyEmail
<1>18. CASE ResendVerification(r) \/ RequestReset(r)
    BY <1>2, <1>9, <1>10, <1>18 DEF ResendVerification, RequestReset
<1>19. CASE ConfirmReset(r) \/ ChangePassword(r)
    BY <1>3, <1>4, <1>9, <1>11, <1>12, <1>13, <1>19
    DEF ConfirmReset, ChangePassword
<1>20. CASE ChangeEmail(r)
    BY <1>2, <1>3, <1>9, <1>10, <1>20 DEF ChangeEmail, StagePending
<1>21. CASE ConfirmEmailChange(r)
    BY <1>2, <1>9, <1>21 DEF ConfirmEmailChange
<1>22. CASE DeleteAccount(r)
    BY <1>4, <1>6, <1>22 DEF DeleteAccount
<1>23. QED
    BY <1>7, <1>8, <1>14, <1>15, <1>16, <1>17, <1>18, <1>19, <1>20, <1>21,
       <1>22 DEF Handle

\* Signing out of a session is final, whatever renewals, logins and password
\* changes are under way.
THEOREM SignOutIsFinal == Spec => RevokedForGood
<1>1. TypeInv /\ [Next]_vars => [RevokedStay]_vars
  <2> SUFFICES ASSUME TypeInv, [Next]_vars, ~UNCHANGED vars
               PROVE  RevokedStay
      OBVIOUS
  <2>1. ASSUME NEW s \in Session, AgeSession(s) PROVE RevokedStay
      BY <2>1 DEF AgeSession, RevokedStay, TypeInv, RowsOK, SessionsOK
  <2>2. CASE UNCHANGED session BY <2>2 DEF RevokedStay
  <2>3. CASE \/ \E r \in Req : Receive(r) \/ Crash(r)
             \/ \E t \in Token : Lapse(t)
             \/ Upgrade
      BY <2>2, <2>3 DEF Receive, Crash, Lapse, Upgrade, rows, sessionRows
  <2>4. QED BY <2>1, <2>3, HandleRevoked DEF Next
<1>2. QED BY <1>1, TypeInvariant, PTL DEF Spec, RevokedForGood, RevokedStay

------------------------------------------------------------------------------
(* Links and the addresses they prove.  A handler spans several             *)
(* transactions, so what follows holds as long as requests come one at a    *)
(* time; each may still be cut off, and links lapse, between any two of     *)
(* their steps.                                                             *)

OneAtATime == \A p, q \in Req : p = q

\* What the three properties read.
addresses == <<users, email, pending, verified, tokens, link, proven>>

NewestOnly ==
    \A s, t \in tokens :
        (link[s].user = link[t].user /\ link[s].purpose = link[t].purpose)
            => s = t

\* A live link went to the address it is about: a confirmation to the pending
\* one, any other to the present one, unless that was proven since.
LinksFit ==
    \A t \in tokens :
        LET u == link[t].user
        IN  IF link[t].purpose = "change" THEN link[t].to = pending[u]
                                          ELSE u \in verified \/ link[t].to = email[u]

AddressesOK == NewestOnly /\ LinksFit /\ VerifiedIsProven

\* A request that has spent its link has thereby proven the address it is
\* going to mark as verified.
Opened(q) ==
    /\ q.user \in users
    /\ LinksOf(q.user, PurposeOf(q.op)) = {}
    /\ IF q.op = "confirm_email_change"
       THEN <<q.user, pending[q.user]>> \in proven
       ELSE q.user \in verified \/ <<q.user, email[q.user]>> \in proven

\* What a request relies on at a stage, from the stages before.
Relies(q, stage) ==
    /\ q.op \in LinkOps => q.user = link[q.link].user
    /\ stage = "spend" => /\ q.link \in tokens
                          /\ link[q.link].purpose = PurposeOf(q.op)
    /\ q.op \in LinkOps /\ stage \in {"owner", "verify", "password", "swap",
                                      "stamp"} => Opened(q)
    /\ stage = "swap" => q.email = pending[q.user]
    /\ stage = "stamp" => pending[q.user] = email[q.user]
    /\ q.op \in IssuingOps \ {"change_email"}
          /\ stage \in {"refresh", "retire", "issue"}
       => q.user \in users /\ q.email = email[q.user]
    /\ q.op = "change_email" /\ stage \in {"retaken", "keep", "issue"}
       => q.user \in users /\ q.email = pending[q.user]
    /\ stage = "issue" => LinksOf(q.user, PurposeOf(q.op)) = {}

LinkInv == AddressesOK /\ \A r \in Req : Relies(req[r], req[r].at)

\* The stages at which a request relies on nothing but its arguments.
Plain == {"idle", "auth", "slide", "load", "look", "rehash", "find", "insert",
          "conflict", "taken", "pend", "revoke", "open", "mail", "write"}

LEMMA PlainRelies ==
    ASSUME NEW q, NEW at, Relies(q, at), NEW stage \in Plain
    PROVE  Relies(q, stage)
BY DEF Relies, Plain

LEMMA AddressesStay ==
    ASSUME AddressesOK, UNCHANGED addresses
    PROVE  AddressesOK'
BY DEF addresses, AddressesOK, NewestOnly, LinksFit, VerifiedIsProven

LEMMA ReliesStay ==
    ASSUME NEW q, NEW stage, Relies(q, stage), UNCHANGED addresses
    PROVE  Relies(q, stage)'
BY DEF addresses, Relies, Opened, LinksOf

\* Links are opened and retired, and accounts verified whose address is proven.
LEMMA AddressesAdvance ==
    ASSUME AddressesOK, tokens' \subseteq tokens, verified \subseteq verified',
           proven \subseteq proven', UNCHANGED <<email, pending, link>>,
           \A u \in verified' : u \in verified \/ <<u, email[u]>> \in proven'
    PROVE  AddressesOK'
<1>1. NewestOnly' BY DEF AddressesOK, NewestOnly
<1>2. LinksFit' BY DEF AddressesOK, LinksFit
<1>3. VerifiedIsProven' BY DEF AddressesOK, VerifiedIsProven
<1>4. QED BY <1>1, <1>2, <1>3 DEF AddressesOK

\* A lone request ends up with what it relies on, or with nothing to rely on.
LEMMA LoneStep ==
    ASSUME OneAtATime, TypeInv, AddressesOK', NEW r \in Req, NEW q,
           Relies(q, q.at)', req' = [req EXCEPT ![r] = q]
    PROVE  LinkInv'
<1>1. req'[r] = q /\ \A p \in Req : p = r
    BY DEF OneAtATime, TypeInv, SlotsOK
<1>2. Relies(req[r], req[r].at)' BY <1>1 DEF Relies, Opened, LinksOf
<1>3. QED BY <1>1, <1>2 DEF LinkInv

LEMMA LoneAnswer ==
    ASSUME OneAtATime, TypeInv, AddressesOK', NEW r \in Req, NEW status,
           Answer(r, status)
    PROVE  LinkInv'
<1>1. Idle.op = None /\ Idle.at = "idle" /\ None \notin OpName
    BY ConstantsAssumption DEF Idle
<1>2. Relies(Idle, Idle.at)'
    BY <1>1
    DEF Relies, OpName, LinkOps, CookieOps, IssuingOps
<1>3. QED BY <1>2, LoneStep DEF Answer

LEMMA LoneGoto ==
    ASSUME OneAtATime, TypeInv, AddressesOK', NEW r \in Req, NEW q,
           q = req[r], NEW stage, Relies(q, stage)', Goto(r, stage)
    PROVE  LinkInv'
<1>1. q \in Request BY DEF TypeInv, SlotsOK
<1>2. PICK p : p = [q EXCEPT !.at = stage] OBVIOUS
<1>3. /\ p.op = q.op /\ p.user = q.user /\ p.link = q.link
      /\ p.email = q.email /\ p.at = stage
    BY <1>1, <1>2 DEF Request
<1>4. Relies(p, p.at)' BY <1>3 DEF Relies, Opened, LinksOf
<1>5. req' = [req EXCEPT ![r] = p] BY <1>2 DEF Goto
<1>6. QED BY <1>4, <1>5, LoneStep

\* Steps that change none of it.
LEMMA QuietAnswer ==
    ASSUME OneAtATime, TypeInv, LinkInv, UNCHANGED addresses, NEW r \in Req,
           NEW status, Answer(r, status)
    PROVE  LinkInv'
BY AddressesStay, LoneAnswer DEF LinkInv

LEMMA QuietGoto ==
    ASSUME OneAtATime, TypeInv, LinkInv, UNCHANGED addresses, NEW r \in Req,
           NEW stage, Relies(req[r], stage), Goto(r, stage)
    PROVE  LinkInv'
<1>1. PICK q : q = req[r] OBVIOUS
<1>2. Relies(q, stage) BY <1>1
<1>3. AddressesOK' /\ Relies(q, stage)'
    BY <1>2, AddressesStay, ReliesStay DEF LinkInv
<1>4. QED BY <1>1, <1>3, LoneGoto

LEMMA QuietPlain ==
    ASSUME OneAtATime, TypeInv, LinkInv, UNCHANGED addresses, NEW r \in Req,
           NEW stage \in Plain, Goto(r, stage)
    PROVE  LinkInv'
BY PlainRelies, QuietGoto DEF LinkInv

LEMMA RowsQuiet ==
    ASSUME UNCHANGED rows
    PROVE  UNCHANGED addresses
BY DEF rows, account, tokenRows, addresses

LEMMA QuietCheck ==
    ASSUME OneAtATime, TypeInv, LinkInv, NEW r \in Req, NEW condition,
           NEW stage, NEW status, condition => Relies(req[r], stage),
           Check(r, condition, stage, status)
    PROVE  LinkInv'
BY RowsQuiet, QuietGoto, QuietAnswer DEF Check

LEMMA QuietLoad ==
    ASSUME OneAtATime, TypeInv, LinkInv, NEW r \in Req, NEW condition,
           NEW next, NEW refusal, Relies(req[r], next),
           LoadUser(r, condition, next, refusal)
    PROVE  LinkInv'
BY QuietCheck DEF LoadUser

\* The steps that several handlers share.
LEMMA SharedQuiet ==
    ASSUME OneAtATime, TypeInv, LinkInv, NEW r \in Req,
           ResolveSession(r) \/ Slide(r) \/ OpenSession(r) \/ SendMail(r)
    PROVE  LinkInv'
<1>1. ASSUME UNCHANGED rows, NEW status, Answer(r, status) PROVE LinkInv'
    BY <1>1, RowsQuiet, QuietAnswer
<1>2. ASSUME UNCHANGED rows, NEW stage \in Plain, Goto(r, stage)
      PROVE  LinkInv'
    BY <1>2, RowsQuiet, QuietPlain
<1>3. CASE ResolveSession(r)
    BY <1>1, <1>2, <1>3 DEF ResolveSession, Plain
<1>4. CASE Slide(r)
  <2>1. CASE UNCHANGED <<account, holder, outdated, tokenRows>>
             /\ Goto(r, "load")
      BY <2>1, QuietPlain DEF Plain, account, tokenRows, addresses
  <2>2. QED BY <1>1, <1>4, <2>1 DEF Slide
<1>5. CASE OpenSession(r)
  <2>1. CASE UNCHANGED <<account, tokenRows>> /\ Answer(r, "ok")
      BY <2>1, QuietAnswer DEF account, tokenRows, addresses
  <2>2. QED BY <1>1, <1>5, <2>1 DEF OpenSession
<1>6. CASE SendMail(r)
    BY <1>6, QuietAnswer DEF SendMail, account, addresses
<1>7. QED BY <1>3, <1>4, <1>5, <1>6

LEMMA RevokeQuiet ==
    ASSUME OneAtATime, TypeInv, LinkInv, NEW r \in Req, NEW S, Revoke(S),
           UNCHANGED <<account, tokenRows>>, NEW stage \in Plain, NEW status,
           Goto(r, stage) \/ Answer(r, status)
    PROVE  LinkInv'
BY QuietPlain, QuietAnswer DEF account, tokenRows, addresses

LEMMA RevokeAllQuiet ==
    ASSUME OneAtATime, TypeInv, LinkInv, NEW r \in Req, RevokeAll(r),
           NEW stage \in Plain, NEW status, Goto(r, stage) \/ Answer(r, status)
    PROVE  LinkInv'
BY RevokeQuiet DEF RevokeAll

\* With the older links gone, the new one will be the only one.
LEMMA RetireRelies ==
    ASSUME OneAtATime, TypeInv, LinkInv, NEW r \in Req,
           req[r].op \in IssuingOps \ {"change_email"}, RetireLinks(r)
    PROVE  LinkInv'
<1>1. PICK q : q = req[r] OBVIOUS
<1>2. Relies(q, "retire") /\ q.op \in IssuingOps \ {"change_email"}
    BY <1>1 DEF LinkInv, RetireLinks, At
<1>3. /\ tokens' = tokens \ LinksOf(q.user, PurposeOf(q.op))
      /\ UNCHANGED <<users, email, pending, verified, link, proven>>
    BY <1>1 DEF RetireLinks, Retire, account
<1>4. AddressesOK' BY <1>3, AddressesAdvance DEF LinkInv
<1>5. Relies(q, "issue")'
  <2>1. q.op \notin LinkOps BY <1>2 DEF LinkOps, IssuingOps
  <2>2. LinksOf(q.user, PurposeOf(q.op))' = {} BY <1>3 DEF LinksOf
  <2>3. QED BY <1>2, <1>3, <2>1, <2>2 DEF Relies
<1>6. QED BY <1>1, <1>4, <1>5, LoneGoto DEF RetireLinks

\* The new link is the only one of its kind, and goes to the address it is
\* about.
LEMMA IssueRelies ==
    ASSUME OneAtATime, TypeInv, LinkInv, NEW r \in Req, req[r].op \in IssuingOps,
           NEW next \in {"mail", "refresh"},
           next = "refresh" <=> req[r].op = "change_email", IssueLink(r, next)
    PROVE  LinkInv'
<1>1. PICK q \in Request : q = req[r] BY DEF TypeInv, SlotsOK
<1>2. Relies(q, "issue") /\ q.op \in IssuingOps
  <2>1. At(r, "issue") BY Zenon DEF IssueLink
  <2>2. QED BY <1>1, <2>1 DEF LinkInv, At
<1>3. CASE UNCHANGED rows /\ Answer(r, "failed")
    BY <1>3, RowsQuiet, QuietAnswer
<1> DEFINE row == [user |-> q.user, purpose |-> PurposeOf(q.op),
                   to |-> q.email]
<1>4. ASSUME NEW t \in Token \ MintedTokens, tokens' = tokens \cup {t},
             link' = [link EXCEPT ![t] = row],
             req' = [req EXCEPT ![r] = [q EXCEPT !.at = next, !.link = t]],
             UNCHANGED <<account, proven>>
      PROVE  LinkInv'
  <2>1. /\ link'[t] = row /\ t \notin tokens
        /\ \A x \in tokens : link'[x] = link[x]
      BY <1>4 DEF TypeInv, RowsOK, TokensOK, MintedTokens
  <2>2. UNCHANGED <<users, email, pending, verified, proven>>
      BY <1>4 DEF account
  <2>3. row.user = q.user /\ row.purpose = PurposeOf(q.op) /\ row.to = q.email
      OBVIOUS
  <2> HIDE DEF row
  <2>4. NewestOnly'
    <3>1. \A x \in tokens : ~(/\ link[x].user = q.user
                              /\ link[x].purpose = PurposeOf(q.op))
        BY <1>2 DEF Relies, LinksOf
    <3>2. QED BY <1>4, <2>1, <2>3, <3>1 DEF LinkInv, AddressesOK, NewestOnly
  <2>5. LinksFit'
    <3>1. PurposeOf(q.op) = "change" <=> q.op = "change_email"
        BY <1>2 DEF PurposeOf, IssuingOps
    <3>2. IF row.purpose = "change" THEN row.to = pending[row.user]
          ELSE row.to = email[row.user]
        BY <1>2, <2>3, <3>1 DEF Relies
    <3>3. QED
        BY <1>4, <2>1, <2>2, <3>2 DEF LinkInv, AddressesOK, LinksFit
  <2>6. VerifiedIsProven'
      BY <2>2 DEF LinkInv, AddressesOK, VerifiedIsProven
  <2>7. PICK p : p = [q EXCEPT !.at = next, !.link = t] OBVIOUS
  <2>8. p.op = q.op /\ p.at = next BY <2>7 DEF Request
  <2>9. Relies(p, p.at)'
      BY <1>1, <1>2, <2>8 DEF Relies, IssuingOps, LinkOps
  <2>10. QED
      BY <1>4, <2>4, <2>5, <2>6, <2>7, <2>9, LoneStep DEF AddressesOK
<1>5. QED BY <1>1, <1>3, <1>4, Zenon DEF IssueLink

\* Spending a link proves the address it went to, and leaves no other like it.
LEMMA ConsumeRelies ==
    ASSUME OneAtATime, TypeInv, LinkInv, NEW r \in Req, req[r].op \in LinkOps,
           ConsumeLink(r)
    PROVE  LinkInv'
<1>1. PICK q \in Request : q = req[r] BY DEF TypeInv, SlotsOK
<1>2. q.op \in LinkOps BY <1>1
<1>3. CASE FindLink(r)
  <2>1. Relies(q, "find") BY <1>1, <1>3 DEF LinkInv, FindLink, At
  <2>2. q.link \in tokens /\ link[q.link].purpose = PurposeOf(q.op)
           => Relies(q, "spend")
      BY <2>1 DEF Relies
  <2>3. QED BY <1>1, <1>3, <2>2, QuietCheck DEF FindLink
<1>4. CASE SpendLink(r)
  <2> DEFINE t == q.link
             u == q.user
  <2>1. /\ u = link[t].user /\ t \in tokens
        /\ link[t].purpose = PurposeOf(q.op)
      BY <1>1, <1>2, <1>4 DEF LinkInv, SpendLink, At, Relies
  <2>2. /\ tokens' = tokens \ {t} /\ proven \subseteq proven'
        /\ UNCHANGED <<users, email, pending, verified, link>>
      BY <1>1, <1>4 DEF SpendLink, account
  <2>3. AddressesOK'
      BY <2>2, AddressesAdvance DEF LinkInv
  <2>4. CASE Answer(r, "bad_link") BY <2>3, <2>4, LoneAnswer
  <2>5. CASE proven' = proven \cup {<<u, link[t].to>>} /\ Goto(r, "owner")
    <3>1. u \in users BY <2>1 DEF TypeInv, RowsOK, TokensOK
    <3>2. LinksOf(u, PurposeOf(q.op))' = {}
        BY <2>1, <2>2 DEF LinksOf, LinkInv, AddressesOK, NewestOnly
    <3>3. link[t].purpose = "change" <=> q.op = "confirm_email_change"
        BY <1>2, <2>1 DEF PurposeOf, LinkOps
    <3>4. IF q.op = "confirm_email_change"
          THEN <<u, pending[u]>> \in proven'
          ELSE u \in verified \/ <<u, email[u]>> \in proven'
        BY <2>1, <2>5, <3>3 DEF LinkInv, AddressesOK, LinksFit
    <3>5. Opened(q)' BY <2>2, <3>1, <3>2, <3>4 DEF Opened
    <3>6. Relies(q, "owner")'
        BY <1>2, <2>1, <2>2, <3>5 DEF Relies, LinkOps, IssuingOps
    <3>7. QED BY <1>1, <2>3, <2>5, <3>6, LoneGoto
  <2>6. QED BY <1>1, <1>4, <2>1, <2>4, <2>5 DEF SpendLink
<1>5. QED BY <1>3, <1>4 DEF ConsumeLink

\* A password is set by whoever proved the address, or knows the old password.
LEMMA PasswordRelies ==
    ASSUME OneAtATime, TypeInv, LinkInv, NEW r \in Req,
           req[r].op \in {"change_password", "confirm_reset"},
           SetPassword(r, "revoke")
    PROVE  LinkInv'
<1>1. PICK q \in Request : q = req[r] BY DEF TypeInv, SlotsOK
<1>2. Relies(q, "password") BY <1>1 DEF LinkInv, SetPassword, At
<1>3. CASE UNCHANGED rows /\ Answer(r, "failed")
    BY <1>3, RowsQuiet, QuietAnswer
<1>4. CASE /\ verified' = IF q.op = "confirm_reset"
                            THEN verified \cup {q.user} ELSE verified
           /\ Retire(q.user, "reset")
           /\ UNCHANGED <<users, name, email, pending, session, holder>>
           /\ Goto(r, "revoke")
  <2>1. q.op = "confirm_reset"
           => q.user \in verified \/ <<q.user, email[q.user]>> \in proven
      BY <1>2 DEF Relies, Opened, LinkOps
  <2>2. AddressesOK'
      BY <1>4, <2>1, AddressesAdvance
      DEF Retire, LinkInv, AddressesOK, VerifiedIsProven
  <2>3. Relies(q, "revoke")' BY <1>2, <1>4 DEF Relies, Retire
  <2>4. QED BY <1>1, <1>4, <2>2, <2>3, LoneGoto
<1>5. QED BY <1>1, <1>3, <1>4 DEF SetPassword

\* The address of a live account is where the link will go.
LEMMA ReadRelies ==
    ASSUME OneAtATime, TypeInv, LinkInv, NEW r \in Req,
           req[r].op \in {"resend_verification", "request_reset"},
           req[r].user \in users, UNCHANGED rows,
           req' = [req EXCEPT ![r] =
                      [@ EXCEPT !.at = "retire", !.email = email[req[r].user]]]
    PROVE  LinkInv'
<1>1. PICK p : p = [req[r] EXCEPT !.at = "retire",
                                  !.email = email[req[r].user]]
    OBVIOUS
<1>2. /\ p.op = req[r].op /\ p.user = req[r].user /\ p.at = "retire"
      /\ p.email = email[req[r].user]
    BY <1>1 DEF TypeInv, SlotsOK, Request
<1>3. UNCHANGED addresses BY RowsQuiet
<1>4. Relies(p, p.at) BY <1>2 DEF Relies, LinkOps
<1>5. AddressesOK' /\ Relies(p, p.at)'
    BY <1>3, <1>4, AddressesStay, ReliesStay DEF LinkInv
<1>6. req' = [req EXCEPT ![r] = p] BY <1>1
<1>7. QED BY <1>5, <1>6, LoneStep

\* An account is inserted with an address, and neither links nor proofs.
LEMMA SignupRelies ==
    ASSUME OneAtATime, TypeInv, LinkInv, NEW r \in Req, Signup(r)
    PROVE  LinkInv'
<1>1. PICK q \in Request : q = req[r] BY DEF TypeInv, SlotsOK
<1>2. q.op = "signup" /\ Relies(q, q.at)
  <2>1. req[r].op = "signup" BY Zenon DEF Signup
  <2>2. QED BY <1>1, <2>1 DEF LinkInv
<1>3. ASSUME NEW u \in User, name[u] = None,
             InsertAccount(u, q.name, q.email, q.new),
             req' = [req EXCEPT ![r] = [q EXCEPT !.at = "refresh", !.user = u]],
             UNCHANGED tokenRows
      PROVE  LinkInv'
  <2>1. u \notin users
      BY <1>3, ConstantsAssumption DEF TypeInv, RowsOK, AccountsOK
  <2>2. /\ users' = users \cup {u} /\ email'[u] = q.email
        /\ \A v \in users : email'[v] = email[v]
        /\ UNCHANGED <<pending, verified, tokens, link, proven>>
      BY <1>3, <2>1
      DEF InsertAccount, InsertAccountRow, TypeInv, RowsOK, AccountsOK,
          tokenRows
  <2>3. \A t \in tokens : link[t].user \in users
      BY DEF TypeInv, RowsOK, TokensOK
  <2>4. verified \subseteq users BY DEF TypeInv, RowsOK, AccountsOK
  <2>5. AddressesOK'
      BY <2>2, <2>3, <2>4
      DEF LinkInv, AddressesOK, NewestOnly, LinksFit, VerifiedIsProven
  <2>6. PICK p : p = [q EXCEPT !.at = "refresh", !.user = u] OBVIOUS
  <2>7. p.op = "signup" /\ p.at = "refresh" /\ p.user = u /\ p.email = q.email
      BY <1>2, <2>6 DEF Request
  <2>8. Relies(p, p.at)' BY <2>2, <2>7 DEF Relies, LinkOps
  <2>9. QED BY <1>3, <2>5, <2>6, <2>8, LoneStep
<1>4. CASE UNCHANGED rows /\ Goto(r, "conflict")
    BY <1>4, RowsQuiet, QuietPlain DEF Plain
<1>5. CASE UNCHANGED rows
           /\ Answer(r, IF NameTaken(q.name) THEN "name_taken"
                                             ELSE "email_taken")
    BY <1>5, RowsQuiet, QuietAnswer
<1>6. CASE At(r, "refresh") /\ Check(r, q.user \in users, "retire", "failed")
  <2>1. Relies(q, "retire")
      BY <1>1, <1>2, <1>6 DEF At, Relies
  <2>2. QED BY <1>1, <1>6, <2>1, QuietCheck
<1>7. CASE RetireLinks(r)
    BY <1>1, <1>2, <1>7, RetireRelies DEF IssuingOps
<1>8. CASE IssueLink(r, "mail")
    BY <1>1, <1>2, <1>8, IssueRelies DEF IssuingOps
<1>9. CASE SendMail(r) BY <1>9, SharedQuiet
<1>10. QED
    BY <1>1, <1>3, <1>4, <1>5, <1>6, <1>7, <1>8, <1>9, Zenon DEF Signup

LEMMA RequestRelies ==
    ASSUME OneAtATime, TypeInv, LinkInv, NEW r \in Req,
           ResendVerification(r) \/ RequestReset(r)
    PROVE  LinkInv'
<1>1. req[r].op \in {"resend_verification", "request_reset"}
    BY DEF ResendVerification, RequestReset
<1>2. ASSUME UNCHANGED rows, NEW status, Answer(r, status) PROVE LinkInv'
    BY <1>2, RowsQuiet, QuietAnswer
<1>3. CASE /\ req[r].user \in users /\ UNCHANGED <<rows, answer>>
           /\ req' = [req EXCEPT ![r] =
                         [@ EXCEPT !.at = "retire",
                                   !.email = email[req[r].user]]]
    BY <1>1, <1>3, ReadRelies, Zenon
<1>4. CASE RetireLinks(r) BY <1>1, <1>4, RetireRelies DEF IssuingOps
<1>5. CASE IssueLink(r, "mail") BY <1>1, <1>5, IssueRelies DEF IssuingOps
<1>6. CASE SendMail(r) BY <1>6, SharedQuiet
<1>7. QED
    BY <1>2, <1>3, <1>4, <1>5, <1>6, Zenon DEF ResendVerification, RequestReset

LEMMA VerifyRelies ==
    ASSUME OneAtATime, TypeInv, LinkInv, NEW r \in Req, VerifyEmail(r)
    PROVE  LinkInv'
<1>1. PICK q \in Request : q = req[r] BY DEF TypeInv, SlotsOK
<1>2. q.op = "verify_email" /\ q.op \in LinkOps /\ Relies(q, q.at)
    BY <1>1 DEF VerifyEmail, LinkInv, LinkOps
<1>3. CASE ConsumeLink(r) BY <1>1, <1>2, <1>3, ConsumeRelies
<1>4. CASE At(r, "owner") /\ Check(r, q.user \in users, "verify", "bad_link")
  <2>1. Relies(q, "verify") BY <1>1, <1>2, <1>4 DEF At, Relies
  <2>2. QED BY <1>1, <1>4, <2>1, QuietCheck
<1>5. CASE UNCHANGED rows /\ Answer(r, "failed")
    BY <1>5, RowsQuiet, QuietAnswer
<1>6. CASE /\ At(r, "verify")
           /\ verified' = verified \cup {q.user}
           /\ Retire(q.user, "verification")
           /\ UNCHANGED <<users, name, email, pending, password, weak,
                          sessionRows>>
           /\ Answer(r, "ok")
  <2>1. q.user \in verified \/ <<q.user, email[q.user]>> \in proven
      BY <1>1, <1>2, <1>6 DEF At, Relies, Opened
  <2>2. AddressesOK'
      BY <1>6, <2>1, AddressesAdvance
      DEF Retire, LinkInv, AddressesOK, VerifiedIsProven
  <2>3. QED BY <1>6, <2>2, LoneAnswer
<1>7. QED BY <1>1, <1>3, <1>4, <1>5, <1>6 DEF VerifyEmail

LEMMA ConfirmResetRelies ==
    ASSUME OneAtATime, TypeInv, LinkInv, NEW r \in Req, ConfirmReset(r)
    PROVE  LinkInv'
<1>1. PICK q \in Request : q = req[r] BY DEF TypeInv, SlotsOK
<1>2. q.op = "confirm_reset" /\ q.op \in LinkOps /\ Relies(q, q.at)
    BY <1>1 DEF ConfirmReset, LinkInv, LinkOps
<1>3. CASE ConsumeLink(r) BY <1>1, <1>2, <1>3, ConsumeRelies
<1>4. CASE At(r, "owner") /\ Check(r, q.user \in users, "password", "bad_link")
  <2>1. Relies(q, "password") BY <1>1, <1>2, <1>4 DEF At, Relies
  <2>2. QED BY <1>1, <1>4, <2>1, QuietCheck
<1>5. CASE SetPassword(r, "revoke") BY <1>1, <1>2, <1>5, PasswordRelies
<1>6. CASE RevokeAll(r) /\ Answer(r, "ok")
    BY <1>6, RevokeAllQuiet DEF Plain
<1>7. QED BY <1>1, <1>3, <1>4, <1>5, <1>6 DEF ConfirmReset

LEMMA ChangePasswordRelies ==
    ASSUME OneAtATime, TypeInv, LinkInv, NEW r \in Req, ChangePassword(r)
    PROVE  LinkInv'
<1>1. req[r].op = "change_password" /\ Relies(req[r], req[r].at)
    BY DEF ChangePassword, LinkInv
<1>2. Relies(req[r], "password")
    BY <1>1 DEF Relies, LinkOps, IssuingOps
<1>3. CASE LoadUser(r, password[req[r].user] = req[r].pw, "password",
                    "forbidden")
    BY <1>2, <1>3, QuietLoad
<1>4. CASE SetPassword(r, "revoke") BY <1>1, <1>4, PasswordRelies
<1>5. CASE RevokeAll(r) /\ Goto(r, "open")
    BY <1>5, RevokeAllQuiet DEF Plain
<1>6. CASE OpenSession(r) BY <1>6, SharedQuiet
<1>7. QED BY <1>3, <1>4, <1>5, <1>6 DEF ChangePassword

\* Logging in and out reads no address and writes none.
LEMMA SessionRelies ==
    ASSUME OneAtATime, TypeInv, LinkInv, NEW r \in Req,
           Login(r) \/ Me(r) \/ Logout(r) \/ LogoutEverywhere(r)
    PROVE  LinkInv'
<1>1. \A stage \in Plain : Relies(req[r], stage)
    BY PlainRelies DEF LinkInv
<1>2. ASSUME UNCHANGED rows, NEW status, Answer(r, status) PROVE LinkInv'
    BY <1>2, RowsQuiet, QuietAnswer
<1>3. CASE Login(r)
  <2>1. CASE Check(r, req[r].user \in users
                         /\ password[req[r].user] = req[r].pw,
                   IF req[r].user \in weak THEN "rehash" ELSE "open",
                   "unauthorized")
      BY <1>1, <2>1, QuietCheck DEF Plain
  <2>2. CASE /\ UNCHANGED <<users, name, email, pending, verified,
                            sessionRows, tokenRows>>
             /\ Goto(r, "open")
      BY <2>2, QuietPlain DEF Plain, tokenRows, addresses
  <2>3. CASE OpenSession(r) BY <2>3, SharedQuiet
  <2>4. QED BY <1>2, <1>3, <2>1, <2>2, <2>3 DEF Login
<1>4. CASE Me(r) BY <1>2, <1>4 DEF Me
<1>5. CASE Logout(r)
  <2>1. CASE LoadUser(r, TRUE, "write", "unauthorized")
      BY <1>1, <2>1, QuietLoad DEF Plain
  <2>2. CASE /\ Revoke({req[r].sess}) /\ UNCHANGED <<account, tokenRows>>
             /\ Answer(r, "ok")
      BY <2>2, QuietAnswer DEF account, tokenRows, addresses
  <2>3. QED BY <1>5, <2>1, <2>2 DEF Logout
<1>6. CASE LogoutEverywhere(r)
  <2>1. CASE LoadUser(r, TRUE, "revoke", "unauthorized")
      BY <1>1, <2>1, QuietLoad DEF Plain
  <2>2. CASE RevokeAll(r) /\ Answer(r, "ok")
      BY <2>2, RevokeAllQuiet DEF Plain
  <2>3. QED BY <1>6, <2>1, <2>2 DEF LogoutEverywhere
<1>7. QED BY <1>3, <1>4, <1>5, <1>6

\* What is deleted with an account leaves nothing about its address.
LEMMA DeleteRelies ==
    ASSUME OneAtATime, TypeInv, LinkInv, NEW r \in Req, DeleteAccount(r)
    PROVE  LinkInv'
<1> DEFINE u == req[r].user
<1>1. Relies(req[r], "write")
    BY PlainRelies DEF LinkInv, Plain
<1>2. CASE LoadUser(r, password[u] = req[r].pw, "write", "forbidden")
    BY <1>1, <1>2, QuietLoad
<1>3. CASE /\ email' = [email EXCEPT ![u] = None]
           /\ pending' = [pending EXCEPT ![u] = None]
           /\ verified' = verified \ {u}
           /\ tokens' = {t \in tokens : link[t].user # u}
           /\ UNCHANGED <<link, proven>>
           /\ Answer(r, "ok")
  <2>1. \A v \in User \ {u} : email'[v] = email[v] /\ pending'[v] = pending[v]
      BY <1>3 DEF TypeInv, RowsOK, AccountsOK
  <2>2. verified \subseteq User /\ \A t \in tokens : link[t].user \in User
      BY DEF TypeInv, RowsOK, AccountsOK, TokensOK
  <2>3. NewestOnly' BY <1>3 DEF LinkInv, AddressesOK, NewestOnly
  <2>4. LinksFit'
      BY <1>3, <2>1, <2>2 DEF LinkInv, AddressesOK, LinksFit
  <2>5. VerifiedIsProven'
      BY <1>3, <2>1, <2>2 DEF LinkInv, AddressesOK, VerifiedIsProven
  <2>6. QED BY <1>3, <2>3, <2>4, <2>5, LoneAnswer DEF AddressesOK
<1>4. QED BY <1>2, <1>3 DEF DeleteAccount

\* A confirmation goes to the address that is pending when it is issued.
LEMMA ChangeEmailRelies ==
    ASSUME OneAtATime, TypeInv, LinkInv, NEW r \in Req, ChangeEmail(r)
    PROVE  LinkInv'
<1>1. PICK q \in Request : q = req[r] BY DEF TypeInv, SlotsOK
<1>2. q.op = "change_email" /\ Relies(q, q.at)
  <2>1. req[r].op = "change_email" BY DEF ChangeEmail
  <2>2. QED BY <1>1, <2>1 DEF LinkInv
<1>3. \A stage \in Plain : Relies(q, stage) BY <1>2, PlainRelies
<1> DEFINE u == q.user
           e == q.email
<1>4. ASSUME UNCHANGED rows, NEW status, Answer(r, status) PROVE LinkInv'
    BY <1>4, RowsQuiet, QuietAnswer
<1>5. CASE /\ u \in users /\ UNCHANGED rows
           /\ Goto(r, IF pending[u] = e THEN "retaken" ELSE "taken")
  <2>1. pending[u] = e => Relies(q, "retaken")
      BY <1>2, <1>5 DEF Relies, LinkOps, IssuingOps
  <2>2. Relies(q, IF pending[u] = e THEN "retaken" ELSE "taken")
      BY <1>3, <2>1 DEF Plain
  <2>3. QED BY <1>1, <1>5, <2>2, RowsQuiet, QuietGoto
<1>6. CASE Check(r, ~EmailTaken(e), "pend", "email_taken")
    BY <1>1, <1>3, <1>6, QuietCheck DEF Plain
<1>7. CASE At(r, "retaken") /\ Check(r, ~EmailTaken(e), "keep", "email_taken")
  <2>1. Relies(q, "keep") BY <1>1, <1>2, <1>7 DEF At, Relies
  <2>2. QED BY <1>1, <1>7, <2>1, QuietCheck
<1>8. CASE /\ At(r, "pend") /\ u \in users
           /\ pending' = [pending EXCEPT ![u] = e]
           /\ Retire(u, "change")
           /\ UNCHANGED <<users, name, email, password, weak, verified,
                          sessionRows>>
           /\ Goto(r, "issue")
  <2>1. /\ pending'[u] = e /\ \A v \in users \ {u} : pending'[v] = pending[v]
        /\ u \in users'
      BY <1>8 DEF TypeInv, RowsOK, AccountsOK
  <2>2. /\ tokens' = tokens \ LinksOf(u, "change")
        /\ UNCHANGED <<users, email, verified, link, proven>>
      BY <1>8 DEF Retire
  <2>3. \A t \in tokens : link[t].user \in users
      BY DEF TypeInv, RowsOK, TokensOK
  <2>4. AddressesOK'
    <3>1. NewestOnly' BY <2>2 DEF LinkInv, AddressesOK, NewestOnly
    <3>2. LinksFit'
        BY <2>1, <2>2, <2>3 DEF LinkInv, AddressesOK, LinksFit, LinksOf
    <3>3. VerifiedIsProven'
        BY <2>2 DEF LinkInv, AddressesOK, VerifiedIsProven
    <3>4. QED BY <3>1, <3>2, <3>3 DEF AddressesOK
  <2>5. Relies(q, "issue")'
    <3>1. PurposeOf(q.op) = "change" BY <1>2 DEF PurposeOf
    <3>2. LinksOf(u, PurposeOf(q.op))' = {} BY <2>2, <3>1 DEF LinksOf
    <3>3. QED BY <1>2, <2>1, <3>2 DEF Relies, LinkOps, IssuingOps
  <2>6. QED BY <1>1, <1>8, <2>4, <2>5, LoneGoto
<1>9. CASE /\ At(r, "keep")
           /\ Retire(u, "change")
           /\ UNCHANGED <<account, sessionRows>>
           /\ Goto(r, "issue")
  <2>1. u \in users /\ e = pending[u]
      BY <1>1, <1>2, <1>9 DEF At, Relies
  <2>2. /\ tokens' = tokens \ LinksOf(u, "change")
        /\ UNCHANGED <<users, email, pending, verified, link, proven>>
      BY <1>9 DEF Retire, account
  <2>3. AddressesOK' BY <2>2, AddressesAdvance DEF LinkInv
  <2>4. Relies(q, "issue")'
    <3>1. PurposeOf(q.op) = "change" BY <1>2 DEF PurposeOf
    <3>2. LinksOf(u, PurposeOf(q.op))' = {} BY <2>2, <3>1 DEF LinksOf
    <3>3. QED BY <1>2, <2>1, <2>2, <3>2 DEF Relies, LinkOps, IssuingOps
  <2>5. QED BY <1>1, <1>9, <2>3, <2>4, LoneGoto
<1>10. CASE StagePending(r)
    BY <1>1, <1>4, <1>8, <1>9, <1>10 DEF StagePending
<1>11. CASE IssueLink(r, "refresh")
    BY <1>1, <1>2, <1>11, IssueRelies DEF IssuingOps
<1>12. CASE Check(r, u \in users, "mail", "failed")
    BY <1>1, <1>3, <1>12, QuietCheck DEF Plain
<1>13. CASE SendMail(r) BY <1>13, SharedQuiet
<1>14. QED
    BY <1>1, <1>4, <1>5, <1>6, <1>7, <1>10, <1>11, <1>12, <1>13
    DEF ChangeEmail

\* The pending address is the one the opened link went to, so swapping it in
\* leaves the account with an address that is proven.
LEMMA ConfirmEmailRelies ==
    ASSUME OneAtATime, TypeInv, LinkInv, NEW r \in Req, ConfirmEmailChange(r)
    PROVE  LinkInv'
<1>1. PICK q \in Request : q = req[r] BY DEF TypeInv, SlotsOK
<1>2. q.op = "confirm_email_change" /\ q.op \in LinkOps /\ Relies(q, q.at)
  <2>1. req[r].op = "confirm_email_change" BY Zenon DEF ConfirmEmailChange
  <2>2. QED BY <1>1, <2>1 DEF LinkInv, LinkOps
<1>3. PurposeOf(q.op) = "change" BY <1>2 DEF PurposeOf
<1> DEFINE u == q.user
           e == q.email
<1>4. CASE ConsumeLink(r) BY <1>1, <1>2, <1>4, ConsumeRelies
<1>5. ASSUME UNCHANGED rows, NEW status, Answer(r, status) PROVE LinkInv'
    BY <1>5, RowsQuiet, QuietAnswer
<1>6. CASE /\ At(r, "owner") /\ u \in users
           /\ UNCHANGED <<rows, answer>>
           /\ req' = [req EXCEPT ![r] =
                         [q EXCEPT !.email = pending[u],
                                   !.at = IF pending[u] = email[u]
                                            THEN "stamp" ELSE "swap"]]
  <2>1. PICK p : p = [q EXCEPT !.email = pending[u],
                               !.at = IF pending[u] = email[u]
                                        THEN "stamp" ELSE "swap"]
      OBVIOUS
  <2>2. /\ p.op = q.op /\ p.user = u /\ p.link = q.link
        /\ p.email = pending[u]
        /\ p.at = IF pending[u] = email[u] THEN "stamp" ELSE "swap"
      BY <2>1 DEF Request
  <2>3. Relies(p, p.at)
      BY <1>1, <1>2, <1>6, <2>2 DEF At, Relies, Opened, LinkOps, IssuingOps
  <2>4. UNCHANGED addresses BY <1>6, RowsQuiet
  <2>5. AddressesOK' /\ Relies(p, p.at)'
      BY <2>3, <2>4, AddressesStay, ReliesStay DEF LinkInv
  <2>6. QED BY <1>6, <2>1, <2>5, LoneStep
<1>7. CASE /\ u \in users
           /\ \/ At(r, "swap") /\ email' = [email EXCEPT ![u] = e]
              \/ At(r, "stamp") /\ UNCHANGED email
           /\ pending' = [pending EXCEPT ![u] = None]
           /\ verified' = verified \cup {u}
           /\ UNCHANGED <<users, name, password, weak, sessionRows, tokenRows>>
           /\ Answer(r, "ok")
  <2>1. Opened(q) BY <1>1, <1>2, <1>7 DEF At, Relies
  <2>2. LinksOf(u, "change") = {} /\ <<u, pending[u]>> \in proven
      BY <1>2, <1>3, <2>1 DEF Opened
  <2>3. email'[u] = pending[u]
      BY <1>1, <1>2, <1>7 DEF At, Relies, TypeInv, RowsOK, AccountsOK
  <2>4. \A v \in users \ {u} : email'[v] = email[v] /\ pending'[v] = pending[v]
      BY <1>7 DEF TypeInv, RowsOK, AccountsOK
  <2>5. UNCHANGED <<tokens, link, proven>> BY <1>7 DEF tokenRows
  <2>6. \A t \in tokens : link[t].user \in users
      BY DEF TypeInv, RowsOK, TokensOK
  <2>7. verified \subseteq users BY DEF TypeInv, RowsOK, AccountsOK
  <2>8. NewestOnly' BY <2>5 DEF LinkInv, AddressesOK, NewestOnly
  <2>9. LinksFit'
      BY <1>7, <2>2, <2>4, <2>5, <2>6
      DEF LinkInv, AddressesOK, LinksFit, LinksOf
  <2>10. VerifiedIsProven'
      BY <1>7, <2>2, <2>3, <2>4, <2>5, <2>7
      DEF LinkInv, AddressesOK, VerifiedIsProven
  <2>11. QED BY <1>7, <2>8, <2>9, <2>10, LoneAnswer DEF AddressesOK
<1>8. QED
    BY <1>1, <1>4, <1>5, <1>6, <1>7, Zenon DEF ConfirmEmailChange

LEMMA HandleRelies ==
    ASSUME OneAtATime, TypeInv, LinkInv, NEW r \in Req, Handle(r)
    PROVE  LinkInv'
BY SharedQuiet, SignupRelies, SessionRelies, VerifyRelies, RequestRelies,
   ConfirmResetRelies, ChangePasswordRelies, ChangeEmailRelies,
   ConfirmEmailRelies, DeleteRelies
DEF Handle

\* The account of a request with a link is the link's.
LEMMA ReceiveRelies ==
    ASSUME OneAtATime, TypeInv, LinkInv, NEW r \in Req, Receive(r)
    PROVE  LinkInv'
<1>a. PICK op \in Op :
        \E s \in Arg(op, CookieOps, {x \in Session : session[x] # "unused"}),
           t \in Arg(op, LinkOps, mailed),
           p \in Arg(op, ReauthOps, Password),
           q \in Arg(op, SettingOps, Password),
           n \in Arg(op, {"signup"}, Name),
           e \in Arg(op, AddressOps, Email) :
          \E u \in AccountOf(op, s, t) :
             req' = [req EXCEPT ![r] =
                        [op |-> op, at |-> FirstStage(op), user |-> u,
                         sess |-> s, link |-> t, pw |-> p, new |-> q,
                         name |-> n, email |-> e]]
    BY DEF Receive
<1>b. PICK s \in Arg(op, CookieOps, {x \in Session : session[x] # "unused"}),
           t \in Arg(op, LinkOps, mailed),
           p \in Arg(op, ReauthOps, Password),
           q \in Arg(op, SettingOps, Password),
           n \in Arg(op, {"signup"}, Name),
           e \in Arg(op, AddressOps, Email) :
        \E u \in AccountOf(op, s, t) :
           req' = [req EXCEPT ![r] =
                      [op |-> op, at |-> FirstStage(op), user |-> u,
                       sess |-> s, link |-> t, pw |-> p, new |-> q,
                       name |-> n, email |-> e]]
    BY <1>a
<1>1. PICK u \in AccountOf(op, s, t) :
        req' = [req EXCEPT ![r] =
                   [op |-> op, at |-> FirstStage(op), user |-> u,
                    sess |-> s, link |-> t, pw |-> p, new |-> q,
                    name |-> n, email |-> e]]
    BY <1>b
<1>2. UNCHANGED addresses BY RowsQuiet DEF Receive
<1>3. PICK x : x = [op |-> op, at |-> FirstStage(op), user |-> u,
                    sess |-> s, link |-> t, pw |-> p, new |-> q,
                    name |-> n, email |-> e]
    OBVIOUS
<1>4. x.op = op /\ x.at \in Plain /\ x.user = u /\ x.link = t
    BY <1>3 DEF FirstStage, Plain
<1>5. op \in LinkOps => u = link[t].user
    BY <1>1 DEF AccountOf, LinkOps, CookieOps
<1>6. Relies(x, x.at) BY <1>4, <1>5 DEF Relies, Plain
<1>7. AddressesOK' /\ Relies(x, x.at)'
    BY <1>2, <1>6, AddressesStay, ReliesStay DEF LinkInv
<1>8. QED BY <1>1, <1>3, <1>7, LoneStep

LEMMA LinkInvariant ==
    ASSUME OneAtATime
    PROVE  Spec => []LinkInv
<1>1. Init => LinkInv
  <2> SUFFICES ASSUME Init PROVE LinkInv OBVIOUS
  <2>1. AddressesOK
      BY DEF Init, AddressesOK, NewestOnly, LinksFit, VerifiedIsProven
  <2>2. Idle.op = None /\ Idle.at = "idle" /\ None \notin OpName
      BY ConstantsAssumption DEF Idle
  <2>3. Relies(Idle, Idle.at)
      BY <2>2 DEF Relies, OpName, LinkOps, CookieOps, IssuingOps
  <2>4. \A r \in Req : req[r] = Idle BY DEF Init
  <2>5. QED BY <2>1, <2>3, <2>4 DEF LinkInv
<1>2. TypeInv /\ LinkInv /\ [Next]_vars => LinkInv'
  <2> SUFFICES ASSUME TypeInv, LinkInv, [Next]_vars PROVE LinkInv'
      OBVIOUS
  <2>1. CASE UNCHANGED <<addresses, req>>
    <3>1. PICK old : old = req OBVIOUS
    <3>2. \A r \in Req : Relies(old[r], old[r].at)
        BY <3>1 DEF LinkInv
    <3>3. \A r \in Req : Relies(old[r], old[r].at)'
        BY <2>1, <3>2, ReliesStay
    <3>4. QED BY <2>1, <3>1, <3>3, AddressesStay DEF LinkInv
  <2>2. ASSUME NEW r \in Req, Crash(r) PROVE LinkInv'
      BY <2>2, RowsQuiet, QuietAnswer DEF Crash
  <2>3. CASE \/ \E s \in Session : AgeSession(s)
             \/ \E t \in Token : Lapse(t)
             \/ Upgrade
      BY <2>1, <2>3
      DEF AgeSession, Lapse, Upgrade, account, tokenRows, addresses
  <2>4. CASE UNCHANGED vars BY <2>1, <2>4, RowsQuiet DEF vars
  <2>5. QED BY <2>2, <2>3, <2>4, HandleRelies, ReceiveRelies DEF Next
<1>3. QED BY <1>1, <1>2, TypeInvariant, PTL DEF Spec

\* Of requests that come one at a time, a verified account has opened a link
\* that was mailed to its present address, whatever changes of address, lapses
\* and cut-off requests came before.
THEOREM VerificationIsEarned ==
    ASSUME \A p, q \in Req : p = q
    PROVE  Spec => []VerifiedIsProven
<1>1. OneAtATime BY DEF OneAtATime
<1>2. LinkInv => VerifiedIsProven BY DEF LinkInv, AddressesOK
<1>3. QED BY <1>1, <1>2, LinkInvariant, PTL

\* Of requests that come one at a time, at most one link of each kind works.
THEOREM OnlyNewestLinkWorks ==
    ASSUME \A p, q \in Req : p = q
    PROVE  Spec => []OneLinkPerPurpose
<1>1. OneAtATime BY DEF OneAtATime
<1>2. LinkInv => OneLinkPerPurpose
  <2> SUFFICES ASSUME LinkInv, NEW u \in User, NEW p \in Purpose
               PROVE  Cardinality(LinksOf(u, p)) <= 1
      BY DEF OneLinkPerPurpose
  <2>1. CASE LinksOf(u, p) = {} BY <2>1, FS_EmptySet
  <2>2. ASSUME NEW t, LinksOf(u, p) = {t}
        PROVE  Cardinality(LinksOf(u, p)) <= 1
    <3>1. Cardinality({t}) = 1 BY FS_Singleton
    <3>2. QED BY <2>2, <3>1
  <2>3. \A s, t \in LinksOf(u, p) : s = t
      BY DEF LinkInv, AddressesOK, NewestOnly, LinksOf
  <2>4. QED BY <2>1, <2>2, <2>3
<1>3. QED BY <1>1, <1>2, LinkInvariant, PTL

\* Of requests that come one at a time, a live confirmation went to the address
\* it would confirm.
THEOREM ConfirmationsFit ==
    ASSUME \A p, q \in Req : p = q
    PROVE  Spec => []LinkConfirmsItsAddress
<1>1. OneAtATime BY DEF OneAtATime
<1>2. LinkInv => LinkConfirmsItsAddress
    BY DEF LinkInv, AddressesOK, LinksFit, LinkConfirmsItsAddress
<1>3. QED BY <1>1, <1>2, LinkInvariant, PTL
==============================================================================
