------------------------------ MODULE Accounts ------------------------------
(***************************************************************************)
(* Accounts, login sessions and emailed links of the API: the tables of    *)
(* models/user.py, models/session.py and models/email_token.py, with every *)
(* handler of routers/auth.py and the writing handlers of                  *)
(* routers/account.py.                                                     *)
(*                                                                         *)
(* As in Sharing, a request is a record with an operation and a stage, and *)
(* each step is one awaited statement, together with the commit that ends  *)
(* its transaction.  A handler's helper calls commit on their own, so one  *)
(* handler spans several transactions.  Time is abstract: a session is     *)
(* fresh, past half of its lifetime, or expired, and a link lapses.        *)
(*                                                                         *)
(* The variables outdated and proven are history variables: no guard reads *)
(* them.                                                                   *)
(***************************************************************************)
EXTENDS Naturals, FiniteSets

CONSTANTS
    User,         \* account ids
    Established,  \* accounts that exist at the start, not yet verified
    Name,         \* usernames
    Email,        \* addresses, lowercased
    Password,     \* plaintext passwords
    Session,      \* session ids; a cookie stands for the id
    Token,        \* email-token ids; an emailed link stands for the id
    Req,          \* slots for concurrent requests
    Op,           \* the operations the clients of this instance call
    Event,        \* what else happens in this instance
    None          \* SQL NULL, and the argument an operation does not take

CookieOps   == {"me", "logout", "logout_everywhere", "resend_verification",
                "change_password", "change_email", "delete_account"}
LinkOps     == {"verify_email", "confirm_email_change", "confirm_reset"}
OpeningOps  == {"signup", "login", "change_password"}
IssuingOps  == {"signup", "resend_verification", "change_email",
                "request_reset"}
ReauthOps   == {"login", "change_password", "change_email", "delete_account"}
SettingOps  == {"signup", "change_password", "confirm_reset"}
AddressOps  == {"signup", "change_email"}
OpName      == CookieOps \cup LinkOps \cup {"signup", "login", "request_reset"}

Purpose == {"verification", "reset", "change"}

Link == [user: User, purpose: Purpose, to: Email]

PurposeOf(op) ==
    CASE op \in {"signup", "resend_verification", "verify_email"} ->
            "verification"
      [] op \in {"request_reset", "confirm_reset", "change_password"} -> "reset"
      [] OTHER -> "change"

ASSUME ConstantsAssumption ==
    /\ Established \subseteq User
    /\ Op \subseteq OpName
    /\ Event \subseteq {"aging", "lapse", "crash", "upgrade"}
    /\ None \notin OpName \cup User \cup Name \cup Email \cup Password
                     \cup Session \cup Token \cup Link

VARIABLES
    users,      \* live accounts
    name,       \* users.username of every account ever inserted
    email,      \* users.email
    pending,    \* users.pending_email
    password,   \* the password users.password_hash was computed from
    weak,       \* accounts whose hash has outdated parameters
    verified,   \* accounts with email_verified_at set
    session,    \* each session: unused, fresh, aging, expired or revoked
    holder,     \* sessions.user_id of every session ever inserted
    outdated,   \* history: live sessions older than their account's password
    tokens,     \* live email tokens
    link,       \* the row of every token ever issued, and its addressee
    lapsed,     \* issued tokens whose expires_at has passed
    mailed,     \* tokens whose email was sent
    proven,     \* history: <<account, address>> whose link was opened
    req,        \* the request in each slot
    answer      \* the last answer of each slot

account     == <<users, name, email, pending, password, weak, verified>>
sessionRows == <<session, holder, outdated>>
tokenRows   == <<tokens, link, lapsed, mailed, proven>>
rows        == <<account, sessionRows, tokenRows>>
vars        == <<rows, req, answer>>

SessionState == {"unused", "fresh", "aging", "expired", "revoked"}

Stage == {"idle", "auth", "slide", "load", "look", "rehash", "find", "spend",
          "owner", "insert", "conflict", "taken", "retaken", "pend", "keep",
          "retire",
          "password", "revoke", "verify", "swap", "stamp", "open", "issue",
          "refresh", "mail", "write"}

Request == [op: OpName \cup {None}, at: Stage, user: User \cup {None},
            sess: Session \cup {None}, link: Token \cup {None},
            pw: Password \cup {None}, new: Password \cup {None},
            name: Name \cup {None}, email: Email \cup {None}]

Idle == [op |-> None, at |-> "idle", user |-> None, sess |-> None,
         link |-> None, pw |-> None, new |-> None, name |-> None,
         email |-> None]

\* 2xx or 202, 401, 403, 400, 409 (three kinds), and 500.
Status == {"none", "ok", "unauthorized", "forbidden", "bad_link", "unchanged",
           "name_taken", "email_taken", "failed"}

LiveSessions   == {s \in Session : session[s] \notin {"unused", "revoked"}}
SessionsOf(u)  == {s \in LiveSessions : holder[s] = u}
MintedTokens   == {t \in Token : link[t] # None}
LinksOf(u, p)  == {t \in tokens : link[t].user = u /\ link[t].purpose = p}
NameTaken(n)   == \E u \in users : name[u] = n
EmailTaken(e)  == \E u \in users : email[u] = e

------------------------------------------------------------------------------
(* How a request advances and ends.                                         *)

At(r, stage) == req[r].at = stage

Goto(r, stage) ==
    /\ req' = [req EXCEPT ![r].at = stage]
    /\ UNCHANGED answer

Answer(r, status) ==
    /\ req' = [req EXCEPT ![r] = Idle]
    /\ answer' = [answer EXCEPT ![r] = status]

Check(r, condition, stage, status) ==
    /\ UNCHANGED rows
    /\ \/ condition /\ Goto(r, stage)
       \/ ~condition /\ Answer(r, status)

------------------------------------------------------------------------------
(* Sessions: auth/sessions.py.                                              *)

InsertSession(u) ==
    /\ \E s \in Session : /\ session[s] = "unused"
                          /\ session' = [session EXCEPT ![s] = "fresh"]
                          /\ holder' = [holder EXCEPT ![s] = u]
    /\ UNCHANGED outdated

\* Faulty variant: no foreign key protects the row.
OpenAnySession(r) ==
    /\ At(r, "open")
    /\ InsertSession(req[r].user)
    /\ UNCHANGED <<account, tokenRows>>
    /\ Answer(r, "ok")

\* The foreign key refuses a session of an account deleted meanwhile.
OpenSession(r) ==
    LET u == req[r].user
    IN  /\ At(r, "open")
        /\ \/ /\ u \in users
              /\ InsertSession(u)
              /\ UNCHANGED <<account, tokenRows>>
              /\ Answer(r, "ok")
           \/ u \notin users /\ UNCHANGED rows /\ Answer(r, "failed")

Revoke(S) ==
    /\ session' = [s \in Session |-> IF s \in S THEN "revoked" ELSE session[s]]
    /\ outdated' = outdated \ S
    /\ UNCHANGED holder

RevokeAll(r) ==
    /\ At(r, "revoke")
    /\ Revoke(SessionsOf(req[r].user))
    /\ UNCHANGED <<account, tokenRows>>

ResolveSession(r) ==
    LET state == session[req[r].sess]
    IN  /\ At(r, "auth")
        /\ UNCHANGED rows
        /\ \/ state = "fresh" /\ Goto(r, "load")
           \/ state = "aging" /\ Goto(r, "slide")
           \/ state \notin {"fresh", "aging"} /\ Answer(r, "unauthorized")

\* Faulty variant: the renewal writes the row back when it is gone.
SlideUpsert(r) ==
    /\ At(r, "slide")
    /\ session' = [session EXCEPT ![req[r].sess] = "fresh"]
    /\ UNCHANGED <<account, holder, outdated, tokenRows>>
    /\ Goto(r, "load")

\* The UPDATE of a session revoked meanwhile matches no row and raises.
Slide(r) ==
    LET s == req[r].sess
    IN  /\ At(r, "slide")
        /\ \/ /\ s \in LiveSessions
              /\ session' = [session EXCEPT ![s] = "fresh"]
              /\ UNCHANGED <<account, holder, outdated, tokenRows>>
              /\ Goto(r, "load")
           \/ s \notin LiveSessions /\ UNCHANGED rows /\ Answer(r, "failed")

\* The account is read last; the handler starts with that snapshot of it.
LoadUser(r, condition, next, refusal) ==
    LET u == req[r].user
    IN  /\ At(r, "load")
        /\ Check(r, u \in users /\ condition, next,
                 IF u \in users THEN refusal ELSE "unauthorized")

------------------------------------------------------------------------------
(* Emailed links: auth/email_tokens.py and mailer.py.                       *)

\* Faulty variant: older links stay valid.
RetireNothing(u, p) == UNCHANGED tokenRows

Retire(u, p) ==
    /\ tokens' = tokens \ LinksOf(u, p)
    /\ UNCHANGED <<link, lapsed, mailed, proven>>

\* Faulty variant: a new link is issued beside the old one.
RetireNoLinks(r) ==
    /\ At(r, "retire")
    /\ UNCHANGED rows
    /\ Goto(r, "issue")

RetireLinks(r) ==
    /\ At(r, "retire")
    /\ Retire(req[r].user, PurposeOf(req[r].op))
    /\ UNCHANGED <<account, sessionRows>>
    /\ Goto(r, "issue")

IssueLink(r, next) ==
    LET u == req[r].user
        row == [user |-> u, purpose |-> PurposeOf(req[r].op),
                to |-> req[r].email]
    IN  /\ At(r, "issue")
        /\ \/ /\ u \in users
              /\ \E t \in Token \ MintedTokens :
                    /\ tokens' = tokens \cup {t}
                    /\ link' = [link EXCEPT ![t] = row]
                    /\ req' = [req EXCEPT ![r] =
                                  [@ EXCEPT !.at = next, !.link = t]]
              /\ UNCHANGED <<account, sessionRows, lapsed, mailed, proven,
                             answer>>
           \/ u \notin users /\ UNCHANGED rows /\ Answer(r, "failed")

\* The background task that sends the email, after the response.
SendMail(r) ==
    /\ At(r, "mail")
    /\ mailed' = mailed \cup {req[r].link}
    /\ UNCHANGED <<account, sessionRows, tokens, link, lapsed, proven>>
    /\ Answer(r, "ok")

FindLink(r) ==
    LET t == req[r].link
    IN  /\ At(r, "find")
        /\ Check(r, t \in tokens /\ link[t].purpose = PurposeOf(req[r].op),
                 "spend", "bad_link")

\* Faulty variant: a link is only deleted when it has lapsed.
SpendLapsedLink(r) ==
    LET t == req[r].link
    IN  /\ At(r, "spend")
        /\ tokens' = tokens \ (lapsed \cap {t})
        /\ proven' = IF t \in lapsed THEN proven
                       ELSE proven \cup {<<link[t].user, link[t].to>>}
        /\ UNCHANGED <<account, sessionRows, link, lapsed, mailed>>
        /\ IF t \in lapsed THEN Answer(r, "bad_link") ELSE Goto(r, "owner")

\* A DELETE of a row another request deleted only warns; the lifetime is
\* checked afterwards on the value read before.
SpendLink(r) ==
    LET t == req[r].link
    IN  /\ At(r, "spend")
        /\ tokens' = tokens \ {t}
        /\ UNCHANGED <<account, sessionRows, link, lapsed, mailed>>
        /\ \/ /\ t \notin lapsed
              /\ proven' = proven \cup {<<link[t].user, link[t].to>>}
              /\ Goto(r, "owner")
           \/ /\ t \in lapsed
              /\ UNCHANGED proven
              /\ Answer(r, "bad_link")

ConsumeLink(r) == FindLink(r) \/ SpendLink(r)

------------------------------------------------------------------------------
(* Accounts: signup, verification and deletion.                             *)

InsertAccountRow(u, n, e, p) ==
    /\ users' = users \cup {u}
    /\ name' = [name EXCEPT ![u] = n]
    /\ email' = [email EXCEPT ![u] = e]
    /\ password' = [password EXCEPT ![u] = p]
    /\ UNCHANGED <<pending, weak, verified>>

\* Faulty variant: the two columns are swapped.
InsertAccountSwapped(u, n, e, p) == InsertAccountRow(u, e, n, p)

InsertAccount(u, n, e, p) == InsertAccountRow(u, n, e, p)

\* Both unique constraints at once; which one failed is looked up afterwards.
Signup(r) ==
    LET n == req[r].name
        e == req[r].email
        unique == ~NameTaken(n) /\ ~EmailTaken(e)
    IN  /\ req[r].op = "signup"
        /\ \/ /\ At(r, "insert") /\ unique
              /\ \E u \in User :
                    /\ name[u] = None
                    /\ InsertAccount(u, n, e, req[r].new)
                    /\ InsertSession(u)
                    /\ req' = [req EXCEPT ![r] =
                                  [@ EXCEPT !.at = "refresh", !.user = u]]
              /\ UNCHANGED <<tokenRows, answer>>
           \/ At(r, "insert") /\ ~unique /\ UNCHANGED rows /\ Goto(r, "conflict")
           \/ /\ At(r, "conflict") /\ UNCHANGED rows
              /\ Answer(r, IF NameTaken(n) THEN "name_taken" ELSE "email_taken")
           \/ /\ At(r, "refresh")
              /\ Check(r, req[r].user \in users, "retire", "failed")
           \/ RetireLinks(r)
           \/ IssueLink(r, "mail")
           \/ SendMail(r)

ResendVerification(r) ==
    LET u == req[r].user
    IN  /\ req[r].op = "resend_verification"
        /\ \/ /\ At(r, "load") /\ u \in users \ verified
              /\ req' = [req EXCEPT ![r] =
                            [@ EXCEPT !.at = "retire", !.email = email[u]]]
              /\ UNCHANGED <<rows, answer>>
           \/ /\ At(r, "load") /\ u \notin users \ verified
              /\ UNCHANGED rows
              /\ Answer(r, IF u \in users THEN "ok" ELSE "unauthorized")
           \/ RetireLinks(r)
           \/ IssueLink(r, "mail")
           \/ SendMail(r)

\* The row is stamped and the other links retired in one commit.
VerifyEmail(r) ==
    LET u == req[r].user
    IN  /\ req[r].op = "verify_email"
        /\ \/ ConsumeLink(r)
           \/ At(r, "owner") /\ Check(r, u \in users, "verify", "bad_link")
           \/ /\ At(r, "verify") /\ u \in users
              /\ verified' = verified \cup {u}
              /\ Retire(u, "verification")
              /\ UNCHANGED <<users, name, email, pending, password, weak,
                             sessionRows>>
              /\ Answer(r, "ok")
           \/ /\ At(r, "verify") /\ u \notin users
              /\ UNCHANGED rows
              /\ Answer(r, "failed")

\* Sessions and links cascade; the DELETE of a missing row only warns.
DeleteAccount(r) ==
    LET u == req[r].user
    IN  /\ req[r].op = "delete_account"
        /\ \/ LoadUser(r, password[u] = req[r].pw, "write", "forbidden")
           \/ /\ At(r, "write")
              /\ users' = users \ {u}
              /\ email' = [email EXCEPT ![u] = None]
              /\ pending' = [pending EXCEPT ![u] = None]
              /\ password' = [password EXCEPT ![u] = None]
              /\ weak' = weak \ {u}
              /\ verified' = verified \ {u}
              /\ Revoke(SessionsOf(u))
              /\ tokens' = {t \in tokens : link[t].user # u}
              /\ UNCHANGED <<name, link, lapsed, mailed, proven>>
              /\ Answer(r, "ok")

------------------------------------------------------------------------------
(* Logging in and out.                                                      *)

\* The password is verified against the row just read; a hash with outdated
\* parameters is computed again from the password given and written back.
Login(r) ==
    LET u == req[r].user
        valid == u \in users /\ password[u] = req[r].pw
    IN  /\ req[r].op = "login"
        /\ \/ /\ At(r, "look")
              /\ Check(r, valid, IF u \in weak THEN "rehash" ELSE "open",
                       "unauthorized")
           \/ /\ At(r, "rehash") /\ u \in users
              /\ password' = [password EXCEPT ![u] = req[r].pw]
              /\ weak' = weak \ {u}
              /\ UNCHANGED <<users, name, email, pending, verified,
                             sessionRows, tokenRows>>
              /\ Goto(r, "open")
           \/ /\ At(r, "rehash") /\ u \notin users
              /\ UNCHANGED rows
              /\ Answer(r, "failed")
           \/ OpenSession(r)

Me(r) ==
    /\ req[r].op = "me"
    /\ At(r, "load")
    /\ UNCHANGED rows
    /\ Answer(r, IF req[r].user \in users THEN "ok" ELSE "unauthorized")

Logout(r) ==
    /\ req[r].op = "logout"
    /\ \/ LoadUser(r, TRUE, "write", "unauthorized")
       \/ /\ At(r, "write")
          /\ Revoke({req[r].sess})
          /\ UNCHANGED <<account, tokenRows>>
          /\ Answer(r, "ok")

LogoutEverywhere(r) ==
    /\ req[r].op = "logout_everywhere"
    /\ \/ LoadUser(r, TRUE, "revoke", "unauthorized")
       \/ RevokeAll(r) /\ Answer(r, "ok")

------------------------------------------------------------------------------
(* Passwords.                                                               *)

SetPassword(r, next) ==
    LET u == req[r].user
    IN  /\ At(r, "password")
        /\ \/ /\ u \in users
              /\ password' = [password EXCEPT ![u] = req[r].new]
              /\ weak' = weak \ {u}
              /\ verified' = IF req[r].op = "confirm_reset"
                               THEN verified \cup {u} ELSE verified
              /\ outdated' = outdated \cup SessionsOf(u)
              /\ Retire(u, "reset")
              /\ UNCHANGED <<users, name, email, pending, session, holder>>
              /\ Goto(r, next)
           \/ u \notin users /\ UNCHANGED rows /\ Answer(r, "failed")

\* Faulty variant: the sessions are revoked before the password is set.
ChangePasswordLate(r) ==
    /\ req[r].op = "change_password"
    /\ \/ LoadUser(r, password[req[r].user] = req[r].pw, "revoke", "forbidden")
       \/ RevokeAll(r) /\ Goto(r, "password")
       \/ SetPassword(r, "open")
       \/ OpenSession(r)

\* Password and reset links in one commit, then two more transactions.
ChangePassword(r) ==
    /\ req[r].op = "change_password"
    /\ \/ LoadUser(r, password[req[r].user] = req[r].pw, "password",
                   "forbidden")
       \/ SetPassword(r, "revoke")
       \/ RevokeAll(r) /\ Goto(r, "open")
       \/ OpenSession(r)

\* The answer is the same whether or not the account exists.
RequestReset(r) ==
    LET u == req[r].user
    IN  /\ req[r].op = "request_reset"
        /\ \/ /\ At(r, "look") /\ u \in users
              /\ req' = [req EXCEPT ![r] =
                            [@ EXCEPT !.at = "retire", !.email = email[u]]]
              /\ UNCHANGED <<rows, answer>>
           \/ /\ At(r, "look") /\ u \notin users
              /\ UNCHANGED rows
              /\ Answer(r, "ok")
           \/ RetireLinks(r)
           \/ IssueLink(r, "mail")
           \/ SendMail(r)

ConfirmReset(r) ==
    /\ req[r].op = "confirm_reset"
    /\ \/ ConsumeLink(r)
       \/ /\ At(r, "owner")
          /\ Check(r, req[r].user \in users, "password", "bad_link")
       \/ SetPassword(r, "revoke")
       \/ RevokeAll(r) /\ Answer(r, "ok")

------------------------------------------------------------------------------
(* Changing the address.                                                    *)

\* The pending address and the retired links share a commit.  An address
\* equal to the one loaded is no change, and no UPDATE is sent for it.
StagePending(r) ==
    LET u == req[r].user
    IN  \/ /\ At(r, "pend") /\ u \in users
           /\ pending' = [pending EXCEPT ![u] = req[r].email]
           /\ Retire(u, "change")
           /\ UNCHANGED <<users, name, email, password, weak, verified,
                          sessionRows>>
           /\ Goto(r, "issue")
        \/ At(r, "pend") /\ u \notin users /\ UNCHANGED rows /\ Answer(r, "failed")
        \/ /\ At(r, "keep")
           /\ Retire(u, "change")
           /\ UNCHANGED <<account, sessionRows>>
           /\ Goto(r, "issue")

\* The stage remembers whether pending_email differed when it was loaded.
ChangeEmail(r) ==
    LET u == req[r].user
        e == req[r].email
    IN  /\ req[r].op = "change_email"
        /\ \/ /\ At(r, "load") /\ u \in users /\ password[u] = req[r].pw
              /\ e # email[u]
              /\ UNCHANGED rows
              /\ Goto(r, IF pending[u] = e THEN "retaken" ELSE "taken")
           \/ /\ At(r, "load")
              /\ u \notin users \/ password[u] # req[r].pw \/ e = email[u]
              /\ UNCHANGED rows
              /\ Answer(r, IF u \notin users THEN "unauthorized"
                           ELSE IF password[u] # req[r].pw THEN "forbidden"
                           ELSE "unchanged")
           \/ At(r, "taken") /\ Check(r, ~EmailTaken(e), "pend", "email_taken")
           \/ At(r, "retaken") /\ Check(r, ~EmailTaken(e), "keep", "email_taken")
           \/ StagePending(r)
           \/ IssueLink(r, "refresh")
           \/ At(r, "refresh") /\ Check(r, u \in users, "mail", "failed")
           \/ SendMail(r)

\* Faulty variant: no constraint on users.email.
SwapUnchecked(u, e) == TRUE

SwapAllowed(u, e) == \A v \in users \ {u} : email[v] # e

\* The row is loaded after the link is spent, and the address loaded then is
\* the one the swap writes; an address equal to the live one is no change.
ConfirmEmailChange(r) ==
    LET u == req[r].user
        e == req[r].email
    IN  /\ req[r].op = "confirm_email_change"
        /\ \/ ConsumeLink(r)
           \/ /\ At(r, "owner") /\ u \in users /\ pending[u] # None
              /\ req' = [req EXCEPT ![r] =
                            [@ EXCEPT !.email = pending[u], !.at =
                                IF pending[u] = email[u] THEN "stamp"
                                                         ELSE "swap"]]
              /\ UNCHANGED <<rows, answer>>
           \/ /\ At(r, "owner") /\ (u \notin users \/ pending[u] = None)
              /\ UNCHANGED rows
              /\ Answer(r, "bad_link")
           \/ /\ u \in users
              /\ \/ /\ At(r, "swap") /\ SwapAllowed(u, e)
                    /\ email' = [email EXCEPT ![u] = e]
                 \/ At(r, "stamp") /\ UNCHANGED email
              /\ pending' = [pending EXCEPT ![u] = None]
              /\ verified' = verified \cup {u}
              /\ UNCHANGED <<users, name, password, weak, sessionRows,
                             tokenRows>>
              /\ Answer(r, "ok")
           \/ /\ At(r, "swap") /\ u \in users /\ ~SwapAllowed(u, e)
              /\ UNCHANGED rows
              /\ Answer(r, "email_taken")
           \/ /\ At(r, "swap") \/ At(r, "stamp")
              /\ u \notin users
              /\ UNCHANGED rows
              /\ Answer(r, "failed")

------------------------------------------------------------------------------
(* Time, failures and deployments.                                          *)

\* A session passes half of its lifetime, then its end.
AgeSession(s) ==
    /\ "aging" \in Event
    /\ session[s] \in {"fresh", "aging"}
    /\ session' = [session EXCEPT ![s] =
                      IF @ = "fresh" THEN "aging" ELSE "expired"]
    /\ UNCHANGED <<account, holder, outdated, tokenRows, req, answer>>

Lapse(t) ==
    /\ "lapse" \in Event
    /\ t \in MintedTokens \ lapsed
    /\ lapsed' = lapsed \cup {t}
    /\ UNCHANGED <<account, sessionRows, tokens, link, mailed, proven, req,
                   answer>>

\* A process or connection dies: the transaction is rolled back, and what the
\* handler committed before stays.
Crash(r) ==
    /\ "crash" \in Event
    /\ ~At(r, "idle")
    /\ UNCHANGED rows
    /\ Answer(r, "failed")

\* A deployment with stronger hash parameters; it restarts the processes.
Upgrade ==
    /\ "upgrade" \in Event
    /\ \A r \in Req : At(r, "idle")
    /\ weak' = users
    /\ UNCHANGED <<users, name, email, pending, password, verified, sessionRows,
                   tokenRows, req, answer>>

------------------------------------------------------------------------------
(* Clients.  The pools of ids are finite, so a request that would insert a  *)
(* row is only sent while an id is left for it.                             *)

Doing(ops) == {r \in Req : req[r].op \in ops}

IdsLeft(op) ==
    /\ op \in OpeningOps =>
          Cardinality(Doing(OpeningOps)) <
              Cardinality({s \in Session : session[s] = "unused"})
    /\ op \in IssuingOps =>
          Cardinality(Doing(IssuingOps)) < Cardinality(Token \ MintedTokens)
    /\ op = "signup" =>
          Cardinality(Doing({op})) < Cardinality({u \in User : name[u] = None})

FirstStage(op) ==
    CASE op \in CookieOps -> "auth"
      [] op \in LinkOps -> "find"
      [] op = "signup" -> "insert"
      [] OTHER -> "look"

Arg(op, takers, S) == IF op \in takers THEN S ELSE {None}

\* The account is the cookie's, the link's, or the one an identifier names.
AccountOf(op, s, t) ==
    CASE op \in CookieOps -> {holder[s]}
      [] op \in LinkOps -> {link[t].user}
      [] op = "signup" -> {None}
      [] OTHER -> User

Receive(r) ==
    /\ At(r, "idle")
    /\ \E op \in Op :
         /\ IdsLeft(op)
         /\ \E s \in Arg(op, CookieOps, {x \in Session : session[x] # "unused"}),
               t \in Arg(op, LinkOps, mailed),
               p \in Arg(op, ReauthOps, Password),
               q \in Arg(op, SettingOps, Password),
               n \in Arg(op, {"signup"}, Name),
               e \in Arg(op, AddressOps, Email) :
              \E u \in AccountOf(op, s, t) :
                 req' = [req EXCEPT ![r] =
                            [op |-> op, at |-> FirstStage(op), user |-> u,
                             sess |-> s, link |-> t, pw |-> p, new |-> q,
                             name |-> n, email |-> e]]
    /\ answer' = [answer EXCEPT ![r] = "none"]
    /\ UNCHANGED rows

------------------------------------------------------------------------------
Distinct(f, S) == \A u, v \in S : u # v => f[u] # f[v]

Over(S, T) == {f \in [User -> T \cup {None}] :
                  \A u \in User : f[u] # None <=> u \in S}

Init ==
    /\ users = Established
    /\ name \in {f \in Over(Established, Name) : Distinct(f, Established)}
    /\ email \in {f \in Over(Established, Email) : Distinct(f, Established)}
    /\ password \in Over(Established, Password)
    /\ pending = [u \in User |-> None]
    /\ weak = {}
    /\ verified = {}
    /\ session = [s \in Session |-> "unused"]
    /\ holder = [s \in Session |-> None]
    /\ outdated = {}
    /\ tokens = {}
    /\ link = [t \in Token |-> None]
    /\ lapsed = {}
    /\ mailed = {}
    /\ proven = {}
    /\ req = [r \in Req |-> Idle]
    /\ answer = [r \in Req |-> "none"]

Handle(r) ==
    \/ req[r].op \in CookieOps /\ (ResolveSession(r) \/ Slide(r))
    \/ Signup(r) \/ Login(r) \/ Me(r) \/ Logout(r) \/ LogoutEverywhere(r)
    \/ VerifyEmail(r) \/ ResendVerification(r)
    \/ RequestReset(r) \/ ConfirmReset(r) \/ ChangePassword(r)
    \/ ChangeEmail(r) \/ ConfirmEmailChange(r) \/ DeleteAccount(r)

Next ==
    \/ \E r \in Req : Receive(r) \/ Handle(r) \/ Crash(r)
    \/ \E s \in Session : AgeSession(s)
    \/ \E t \in Token : Lapse(t)
    \/ Upgrade

Spec == Init /\ [][Next]_vars
------------------------------------------------------------------------------
(* Properties.                                                              *)

TypeOK ==
    /\ users \subseteq User
    /\ name \in [User -> Name \cup {None}]
    /\ email \in [User -> Email \cup {None}]
    /\ pending \in [User -> Email \cup {None}]
    /\ password \in [User -> Password \cup {None}]
    /\ weak \subseteq users
    /\ verified \subseteq users
    /\ session \in [Session -> SessionState]
    /\ holder \in [Session -> User \cup {None}]
    /\ outdated \subseteq LiveSessions
    /\ tokens \subseteq MintedTokens
    /\ link \in [Token -> Link \cup {None}]
    /\ lapsed \subseteq MintedTokens
    /\ mailed \subseteq MintedTokens
    /\ proven \subseteq User \X Email
    /\ req \in [Req -> Request]
    /\ answer \in [Req -> Status]

\* No two accounts share an address or a username, although change_email
\* looks the address up long before confirm_email_change writes it.
AccountsAreDistinct ==
    \A u, v \in users :
        u # v => email[u] # email[v] /\ name[u] # name[v]

\* Deleting an account leaves no session, link or pending change behind,
\* whatever logins, password changes and links of it are in flight.
NothingOutlivesAccount ==
    /\ \A s \in LiveSessions : holder[s] \in users
    /\ \A t \in tokens : link[t].user \in users
    /\ \A u \in User \ users : email[u] = None /\ pending[u] = None

\* Signing out of a session is final: a renewal of its lifetime under way in
\* another request does not bring it back.
RevokedForGood ==
    [][\A s \in Session : session[s] = "revoked" => session'[s] = "revoked"]_vars

\* A session older than its account's password lives only while the request
\* that set the password is about to revoke it, however many password
\* changes, resets and logins of the account overlap.
OldSessionsAreRevoked ==
    \A s \in outdated :
        \E r \in Req :
            /\ req[r].op \in {"change_password", "confirm_reset"}
            /\ req[r].user = holder[s]
            /\ At(r, "revoke")

\* A verified account has opened a link that was mailed to its address, after
\* any sequence of requests, failures and lapses, one request at a time.
VerifiedIsProven ==
    \A u \in verified : <<u, email[u]>> \in proven

\* Only the newest link of each kind works, one request at a time.
OneLinkPerPurpose ==
    \A u \in User, p \in Purpose : Cardinality(LinksOf(u, p)) <= 1

\* A live confirmation link was mailed to the address it would confirm, one
\* request at a time.
LinkConfirmsItsAddress ==
    \A t \in tokens :
        link[t].purpose = "change" => link[t].to = pending[link[t].user]
==============================================================================
