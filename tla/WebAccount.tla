------------------------------ MODULE WebAccount ------------------------------
(* One browser tab of the web app and the account pages in it: the cached    *)
(* identity (the /me query), the cached book list, the location, and the     *)
(* mutations that sign up, in and out, verify, reset, change and delete.     *)
(*                                                                           *)
(* The API is as much of it as the tab can tell: accounts, sessions and      *)
(* emailed links, one atomic step per request (the modules Accounts and      *)
(* Sharing have its inside).  A request carries the session cookie that the  *)
(* browser holds when it is sent; the cookies of an answer are stored when   *)
(* the answer arrives.                                                       *)
EXTENDS WebClient, FiniteSets

CONSTANTS Account,   \* accounts, present or to be signed up
          Token,     \* pool of session tokens: bounds those in use at once
          None,      \* null
          Unset,     \* undefined: a query without data
          Op,        \* the mutations of this instance
          Query,     \* the queries it keeps besides /me
          MaxInFlight, \* bound on the mutations in flight at once
          MaxLinks   \* bound on the links that can be opened

ASSUME OpAssumption == Op \subseteq DOMAIN AuthContract
ASSUME NoneAssumption ==
    None \notin Account /\ None \notin Token /\ Unset \notin Account /\ Unset # None

VARIABLES
    accounts,  \* the accounts that exist
    verified,  \* those with a verified address
    links,     \* links that can be opened: <<mutation that spends it, account>>
    sess,      \* session table: token -> account or None
    jar,       \* the session cookie of the browser, and its dm_csrf companion
    me,        \* the /me query
    books,     \* the owner whose list the owned-books query holds, or None
    tab,       \* location and panels
    mut        \* mutation -> its request

server == <<accounts, verified, links, sess>>
vars == <<accounts, verified, links, sess, jar, me, books, tab, mut>>

User == [id : Account, emailVerified : BOOLEAN]
UserResponse(a) == [id |-> a, emailVerified |-> a \in verified]
SessionOf(t) == IF t = None THEN None ELSE sess[t]

-------------------------------------------------------------------------------
(* Pages                                                                     *)

LinkPage == {"verifyEmail", "confirmEmailChange", "resetPassword"}
Protected == {"account", "books"}

(* The page whose component owns the observer of a mutation.  The header,    *)
(* which owns logout, is on every page.                                      *)
OwnerPage ==
    [signup |-> "signup", login |-> "login", verifyEmail |-> "verifyEmail",
     confirmEmailChange |-> "confirmEmailChange",
     resetPassword |-> "resetPassword",
     requestPasswordReset |-> "forgotPassword",
     resendVerification |-> "account", exportAccount |-> "account",
     deleteAccount |-> "account", changePassword |-> "account",
     changeEmail |-> "account"]
Dialog == {"deleteAccount", "changePassword", "changeEmail"}

(* The pages of this instance.                                               *)
Page == {"home", "login", "account"} \cup {OwnerPage[op] : op \in Op \ {"logout"}}
            \cup IF "ownedBooks" \in Query THEN {"books"} ELSE {}

(* Faulty variant: an identity that could not be fetched counts as loading.  *)
statusPending ==
    CASE me.data \notin {None, Unset} -> "authenticated"
      [] me.data = Unset -> "loading"
      [] OTHER -> "anonymous"

(* AuthProvider: the status every component reads.                           *)
status ==
    CASE me.data \notin {None, Unset} -> "authenticated"
      [] me.data = Unset /\ me.fetch # "idle" -> "loading"
      [] OTHER -> "anonymous"


(* What React runs as an effect once a page is shown, before the visitor can *)
(* do anything: ProtectedRoute turns the visitor away, a panel spends its    *)
(* link.                                                                     *)
TurnedAway == tab.page \in Protected /\ status = "anonymous"
ToLogin == [to |-> "login", from |-> tab.page]
EffectDue ==
    \/ TurnedAway /\ tab.nav # ToLogin
    \/ tab.page \in Op \cap {"verifyEmail", "confirmEmailChange"}
            /\ tab.link # None /\ ~tab.hasSubmitted

-------------------------------------------------------------------------------
(* The /me query.  getCurrentUser answers null by itself when there is no    *)
(* cookie.  fetch: idle; asked, with the session sent in tok; answered, with *)
(* the answer in got (None: a failure, which leaves data as it was).  Two    *)
(* histories: clean, nothing wrote the identity since the fetch began;       *)
(* crossed, the identity or the cookie is of an answer that was overtaken.   *)

Fetch == [data |-> Unset, crossed |-> FALSE, fetch |-> "idle", tok |-> None,
          got |-> None, clean |-> TRUE]

Identity == [data : User \cup {None, Unset}, crossed : BOOLEAN,
             fetch : {"idle", "asked", "answered"}, tok : Token \cup {None},
             got : User \cup {None}, clean : BOOLEAN]

getCurrentUser(m) ==
    IF jar = None THEN [Fetch EXCEPT !.data = None]
    ELSE [m EXCEPT !.fetch = "asked", !.tok = jar, !.got = None, !.clean = TRUE]

(* queryClient.setQueryData: a fetch under way goes on.                      *)
setQueryData(m, value, overtaken) ==
    [m EXCEPT !.data = value, !.clean = m.fetch = "idle", !.crossed = overtaken]

(* queryClient.invalidateQueries: the active query is fetched again; a fetch *)
(* under way is given up for it only when there is data already.             *)
invalidateQueries(m) ==
    IF m.fetch # "idle" /\ m.data = Unset THEN [m EXCEPT !.clean = FALSE]
    ELSE getCurrentUser(m)

(* React Query refetches a stale query when the network comes back.          *)
Reconnect ==
    /\ me.fetch = "idle" /\ ~EffectDue
    /\ me' = getCurrentUser(me)
    /\ UNCHANGED <<server, jar, books, tab, mut>>

ServeMe ==
    /\ me.fetch = "asked"
    /\ LET a == SessionOf(me.tok) IN
       \E answer \in {None} \cup (IF a = None THEN {} ELSE {UserResponse(a)}) :
            me' = [me EXCEPT !.fetch = "answered", !.got = answer]
    /\ UNCHANGED <<server, jar, books, tab, mut>>

SettleMe ==
    /\ me.fetch = "answered"
    /\ me' = IF me.got = None
             THEN [Fetch EXCEPT !.data = me.data, !.crossed = me.crossed]
             ELSE [Fetch EXCEPT !.data = me.got, !.crossed = ~me.clean]
    /\ UNCHANGED <<server, jar, books, tab, mut>>

-------------------------------------------------------------------------------
(* Requests of mutations.  owned: the component that sent it is mounted, so  *)
(* the callbacks given to mutate run.  watched: the very form that sent it   *)
(* is on screen.                                                             *)

NoRequest == [stage |-> "idle", tok |-> None, arg |-> None, code |-> "none",
              user |-> None, new |-> None, owned |-> FALSE, watched |-> FALSE]

Request == [stage : {"idle", "sent", "answered", "done"},
            tok : Token \cup {None}, arg : Account \cup {None},
            code : {"none", "ok"}, user : User \cup {None},
            new : Token \cup {None}, owned : BOOLEAN, watched : BOOLEAN]

InFlight == {op \in Op : mut[op].stage \in {"sent", "answered"}}

(* A button that is loading is disabled: one request per observer at a time. *)
Submit(op, a, page) ==
    /\ mut[op].stage \notin {"sent", "answered"}
    /\ page = tab.page
    /\ mut' = [mut EXCEPT ![op] =
                [NoRequest EXCEPT !.stage = "sent", !.tok = jar, !.arg = a,
                                  !.owned = TRUE, !.watched = TRUE]]

(* A form or a button sends what the visitor put in.                         *)
Send(op, a, page) ==
    /\ op \in Op /\ Cardinality(InFlight) < MaxInFlight
    /\ ~EffectDue
    /\ Submit(op, a, page)
    /\ UNCHANGED <<server, jar, me, books, tab>>

LoginForm == \E a \in accounts : Send("login", a, "login")
SignupForm == \E a \in Account \ accounts : Send("signup", a, "signup")
ForgotPasswordForm ==
    \E a \in accounts : Send("requestPasswordReset", a, "forgotPassword")

(* The form of a link page whose URL has a token; a success takes its place. *)
ResetPasswordForm ==
    /\ tab.link # None
    /\ "resetPassword" \in Op => mut["resetPassword"].stage # "done"
    /\ Send("resetPassword", tab.link, "resetPassword")

AccountPanel ==
    /\ status = "authenticated" /\ ~me.data.emailVerified
    /\ Send("resendVerification", None, "account")

(* The export and the deletion.                                              *)
AccountDangerZone ==
    \/ status = "authenticated" /\ Send("exportAccount", None, "account")
    \/ tab.dialog = "deleteAccount" /\ Send("deleteAccount", None, "account")

ChangePasswordDialog ==
    tab.dialog = "changePassword" /\ Send("changePassword", None, "account")
ChangeEmailDialog ==
    tab.dialog = "changeEmail" /\ Send("changeEmail", None, "account")

(* In the header of every page.                                              *)
AuthMenu == status = "authenticated" /\ Send("logout", None, tab.page)

(* VerifyEmailPanel and EmailChangeConfirmPanel send from an effect, which   *)
(* React may run more than once; the ref makes the first run the only one.   *)
PanelEffectEach(op) ==  \* faulty variant: without the ref
    /\ op \in Op /\ tab.link # None
    /\ Submit(op, tab.link, op)
    /\ tab' = [tab EXCEPT !.hasSubmitted = TRUE]
    /\ UNCHANGED <<server, jar, me, books>>

PanelEffect(op) ==
    /\ op \in Op /\ tab.link # None /\ ~tab.hasSubmitted
    /\ Submit(op, tab.link, op)
    /\ tab' = [tab EXCEPT !.hasSubmitted = TRUE]
    /\ UNCHANGED <<server, jar, me, books>>

VerifyEmailPanel == PanelEffect("verifyEmail")
EmailChangeConfirmPanel == PanelEffect("confirmEmailChange")

-------------------------------------------------------------------------------
(* The API                                                                   *)

Codes(op) == {toApiError(f) : f \in Failures(op, AuthContract[op])}

(* The codes a request is bound to fail with; none when it may succeed.      *)
BoundToFail(op) ==
    LET q == mut[op] IN
    CASE op = "login" /\ q.arg \notin accounts -> {"INVALID_CREDENTIALS"}
      [] op = "signup" /\ q.arg \in accounts -> {"USERNAME_TAKEN", "EMAIL_TAKEN"}
      [] op \in LinkPage /\ <<op, q.arg>> \notin links -> {"INVALID_TOKEN"}
      [] op \in NeedsSession /\ SessionOf(q.tok) = None ->
            IF q.tok = None /\ op # "exportAccount" THEN {"CSRF_FAILED"}
            ELSE {"UNAUTHENTICATED"}
      [] OTHER -> {}

(* The codes a request may be refused with, for its input or its rate, or    *)
(* because it never arrives.                                                 *)
Refusals(op) ==
    IF BoundToFail(op) # {} THEN BoundToFail(op) \cup {"unknown_error"}
    ELSE Codes(op) \ {"INVALID_TOKEN", "UNAUTHENTICATED", "CSRF_FAILED"}

Answer(op, user, new) ==
    mut' = [mut EXCEPT ![op] = [@ EXCEPT !.stage = "answered", !.code = "ok",
                                         !.user = user, !.new = new]]

(* Every session of an account ends, but for one that may begin.             *)
Revoke(a, t) ==
    sess' = [s \in Token |-> CASE s = t -> a
                               [] s # t /\ sess[s] = a -> None
                               [] OTHER -> sess[s]]
Begin(a, t) == sess' = [sess EXCEPT ![t] = a]

(* A token nobody holds any more stands for a new one.                       *)
Fresh == {t \in Token : sess[t] = None}
            \ ({jar, me.tok} \cup {mut[o].tok : o \in Op} \cup {mut[o].new : o \in Op})

(* A link is mailed.  Bound: at MaxLinks it is one that nobody opens.        *)
Mail(l, kept) == links' = IF Cardinality(kept) < MaxLinks THEN kept \cup {l} ELSE kept

(* A request that does what it asks.                                         *)
Serve(op) ==
    /\ mut[op].stage = "sent"
    /\ BoundToFail(op) = {}
    /\ LET q == mut[op]
           a == IF op \in NeedsSession THEN SessionOf(q.tok) ELSE q.arg
       IN
       \/ /\ op = "signup"
          /\ \E t \in Fresh : Begin(a, t) /\
                Answer(op, [id |-> a, emailVerified |-> FALSE], t)
          /\ accounts' = accounts \cup {a}
          /\ Mail(<<"verifyEmail", a>>, links)
          /\ UNCHANGED verified
       \/ /\ op = "login"
          /\ \E t \in Fresh : Begin(a, t) /\ Answer(op, UserResponse(a), t)
          /\ UNCHANGED <<accounts, verified, links>>
       \/ /\ op = "logout"
          /\ sess' = [sess EXCEPT ![q.tok] = None]
          /\ Answer(op, None, None)
          /\ UNCHANGED <<accounts, verified, links>>
       \/ /\ op \in {"verifyEmail", "confirmEmailChange"}
          /\ verified' = verified \cup {a}
          /\ links' = links \ {<<op, a>>}
          /\ Answer(op, None, None)
          /\ UNCHANGED <<accounts, sess>>
       \/ /\ op = "resetPassword"
          /\ verified' = verified \cup {a}
          /\ links' = links \ {<<op, a>>}
          /\ Revoke(a, None)
          /\ Answer(op, None, None)
          /\ UNCHANGED accounts
       \/ /\ op = "resendVerification"
          /\ IF a \in verified THEN UNCHANGED links
             ELSE Mail(<<"verifyEmail", a>>, links \ {<<"verifyEmail", a>>})
          /\ Answer(op, None, None)
          /\ UNCHANGED <<accounts, verified, sess>>
       \/ /\ op = "requestPasswordReset"
          /\ IF a \notin accounts THEN UNCHANGED links
             ELSE Mail(<<"resetPassword", a>>, links \ {<<"resetPassword", a>>})
          /\ Answer(op, None, None)
          /\ UNCHANGED <<accounts, verified, sess>>
       \/ /\ op = "exportAccount"
          /\ Answer(op, None, None)
          /\ UNCHANGED server
       \/ /\ op = "deleteAccount"
          /\ accounts' = accounts \ {a}
          /\ verified' = verified \ {a}
          /\ links' = {l \in links : l[2] # a}
          /\ Revoke(a, None)
          /\ Answer(op, None, None)
       \/ /\ op = "changePassword"
          /\ links' = links \ {<<"resetPassword", a>>}
          /\ \E t \in Fresh : Revoke(a, t) /\ Answer(op, None, t)
          /\ UNCHANGED <<accounts, verified>>
       \/ /\ op = "changeEmail"
          /\ Mail(<<"confirmEmailChange", a>>, links \ {<<"confirmEmailChange", a>>})
          /\ Answer(op, UserResponse(a), None)
          /\ UNCHANGED <<accounts, verified, sess>>
    /\ UNCHANGED <<jar, me, books, tab>>

(* A session ends elsewhere: it lapses, or another browser ends it.          *)
EndElsewhere(t) ==
    /\ sess[t] # None
    /\ sess' = [sess EXCEPT ![t] = None]
    /\ UNCHANGED <<accounts, verified, links, jar, me, books, tab, mut>>

(* A link lapses, or is opened in another browser of no interest here.       *)
Lapse(l) ==
    /\ l \in links
    /\ links' = links \ {l}
    /\ UNCHANGED <<accounts, verified, sess, jar, me, books, tab, mut>>

-------------------------------------------------------------------------------
(* The answer reaches the tab: cookies first, then the callbacks of the      *)
(* mutation, then those given to mutate, which run only for a component that *)
(* is still mounted.                                                         *)

(* Set-Cookie of the answer.                                                 *)
Cookies(op, q) ==
    IF q.code # "ok" THEN jar
    ELSE CASE op \in {"signup", "login", "changePassword"} -> q.new
           [] op \in {"logout", "deleteAccount"} -> None
           [] OTHER -> jar

(* The browser has another session by now than the request was sent with.    *)
Overtaken(q) == q.tok # jar

(* Faulty variant: leaving clears the cookie but not the cached identity.    *)
HookOnSuccessKeeps(op, q) ==
    CASE op \in {"signup", "login"} -> me' = setQueryData(me, q.user, FALSE)
      [] op = "changeEmail" -> me' = setQueryData(me, q.user, Overtaken(q))
      [] op \in {"verifyEmail", "confirmEmailChange"} ->
            me' = invalidateQueries(me)
      [] OTHER -> UNCHANGED me

(* onSuccess of the hook.  Where it sets the identity without the cookie, or *)
(* the answer brings a cookie and the hook is silent, the two can part.      *)
HookOnSuccess(op, q) ==
    CASE op \in {"signup", "login"} -> me' = setQueryData(me, q.user, FALSE)
      [] op = "changeEmail" -> me' = setQueryData(me, q.user, Overtaken(q))
      [] op \in {"logout", "resetPassword", "deleteAccount"} ->
            me' = setQueryData(me, None, FALSE)
      [] op \in {"verifyEmail", "confirmEmailChange"} ->
            me' = invalidateQueries(me)
      [] op = "changePassword" /\ Overtaken(q) ->
            me' = [me EXCEPT !.crossed = TRUE, !.clean = FALSE]
      [] OTHER -> UNCHANGED me

Leave(to) == [to |-> to, from |-> None]

(* onSuccess given to mutate, and the effect of the two panels.              *)
CallbackOnSuccess(op, t) ==
    CASE op = "login" ->
            [t EXCEPT !.nav = Leave(IF t.from = None THEN "home" ELSE t.from)]
      [] op = "signup" -> [t EXCEPT !.nav = Leave("account")]
      [] op = "logout" -> [t EXCEPT !.nav = Leave("home")]
      [] op = "deleteAccount" -> [t EXCEPT !.dialog = None, !.nav = Leave("home")]
      [] op \in {"changePassword", "changeEmail"} -> [t EXCEPT !.dialog = None]
      [] op \in {"verifyEmail", "confirmEmailChange"} -> [t EXCEPT !.phase = "ok"]
      [] OTHER -> t

(* Faulty variant: the panel waits for a success only.                       *)
CallbackOnErrorNone(op, t) == t

CallbackOnError(op, t) ==
    IF op \in {"verifyEmail", "confirmEmailChange"}
    THEN [t EXCEPT !.phase = "invalid"] ELSE t

(* Where a failure shows: a toast, the field of the form that sent it if     *)
(* that is still there, or the panel.                                        *)
ShownBy(op, q) ==
    (IF Toasts(op, q.code) THEN {"toast"} ELSE {})
        \cup (IF q.watched /\ FieldFor(op, q.code) # "none" THEN {"field"} ELSE {})
        \cup (IF q.watched /\ op \in {"verifyEmail", "confirmEmailChange"}
              THEN {"panel"} ELSE {})

Receive(op, q) ==
    LET ok == q.code = "ok"
        stays == ok /\ q.watched /\ op \in {"resetPassword", "requestPasswordReset"}
    IN
    /\ jar' = Cookies(op, q)
    /\ IF ok THEN HookOnSuccess(op, q) ELSE UNCHANGED me
    /\ tab' = CASE ~q.owned -> tab
                [] q.owned /\ ok -> CallbackOnSuccess(op, tab)
                [] OTHER -> CallbackOnError(op, tab)
    /\ mut' = [mut EXCEPT ![op] =
                 IF stays THEN [NoRequest EXCEPT !.stage = "done"] ELSE NoRequest]
    /\ UNCHANGED <<server, books>>

(* How the tab may see a request end: as answered, or, when the answer is    *)
(* lost, as a failure without a code; and while it is not served as any      *)
(* refusal, which changes nothing in the API and may be decided as it        *)
(* arrives.                                                                  *)
Outcomes(op) ==
    CASE mut[op].stage = "answered" ->
            {mut[op], [mut[op] EXCEPT !.code = "unknown_error"]}
      [] mut[op].stage = "sent" ->
            {[mut[op] EXCEPT !.code = code] : code \in Refusals(op)}
      [] OTHER -> {}

Settle(op) == \E q \in Outcomes(op) : Receive(op, q)

-------------------------------------------------------------------------------
(* The location                                                              *)

(* Faulty variant: callbacks of components that are gone.                    *)
UnmountNone(page) == mut

(* Components of the page left are unmounted; so is the form of a dialog     *)
(* that closes.                                                              *)
Unmount(page) ==
    [op \in Op |->
        IF op = "logout" \/ OwnerPage[op] # page THEN mut[op]
        ELSE IF mut[op].stage = "done" THEN NoRequest
        ELSE [mut[op] EXCEPT !.owned = FALSE, !.watched = FALSE]]

Location == [page : Page, link : Account \cup {None}, from : Page \cup {None},
             nav : [to : Page, from : Page \cup {None}] \cup {None},
             dialog : Dialog \cup {None}, hasSubmitted : BOOLEAN,
             phase : {"asking", "ok", "invalid"}]

At(page, from) ==
    [page |-> page, link |-> None, from |-> from, nav |-> None, dialog |-> None,
     hasSubmitted |-> FALSE, phase |-> "asking"]

(* A click on a link of the page or a menu.                                  *)
Follow(page) ==
    /\ page \in Page \ (LinkPage \cup {tab.page})
    /\ tab.nav = None /\ tab.dialog = None /\ ~EffectDue
    /\ tab' = At(page, None)
    /\ mut' = Unmount(tab.page)
    /\ UNCHANGED <<server, jar, me, books>>

(* ProtectedRoute: its children give way to a redirect to the login page,    *)
(* with the attempted path to return to.  It overtakes a navigation whose    *)
(* route is still loading.                                                   *)
Redirect ==
    /\ TurnedAway /\ tab.nav # ToLogin
    /\ tab' = [tab EXCEPT !.nav = ToLogin, !.dialog = None]
    /\ mut' = Unmount(tab.page)
    /\ UNCHANGED <<server, jar, me, books>>

Arrive ==
    /\ tab.nav # None
    /\ tab' = IF tab.nav.to = tab.page
              THEN [tab EXCEPT !.nav = None, !.from = tab.nav.from]
              ELSE At(tab.nav.to, tab.nav.from)
    /\ mut' = IF tab.nav.to = tab.page THEN mut ELSE Unmount(tab.page)
    /\ UNCHANGED <<server, jar, me, books>>

OpenDialog(op) ==
    /\ op \in Op \cap Dialog /\ ~EffectDue
    /\ tab.page = "account" /\ status = "authenticated" /\ tab.dialog = None
    /\ tab' = [tab EXCEPT !.dialog = op]
    /\ UNCHANGED <<server, jar, me, books, mut>>

CloseDialog ==
    /\ tab.dialog # None
    /\ tab' = [tab EXCEPT !.dialog = None]
    /\ mut' = [mut EXCEPT ![tab.dialog].watched = FALSE]
    /\ UNCHANGED <<server, jar, me, books>>

(* A new document: a reload, an address typed, or the link of an email.  The *)
(* state of the tab and its requests are gone; the providers mount, and the  *)
(* identity is asked for when there is a cookie (initialData is null without *)
(* one).                                                                     *)
Mount(page, link) ==
    /\ tab' = [At(page, None) EXCEPT !.link = link]
    /\ me' = getCurrentUser(Fetch)
    /\ books' = None
    /\ mut' = [op \in Op |-> NoRequest]

Load(page, link) ==
    /\ ~EffectDue
    /\ link = None \/ <<page, link>> \in links
    /\ Mount(page, link)
    /\ UNCHANGED <<server, jar>>

-------------------------------------------------------------------------------
(* The list of owned books, under one query key whoever is signed in.  It is *)
(* asked for by the page that shows it and by a hover over its link in the   *)
(* menu of a signed-in header, unless it is cached; a cached list is dropped *)
(* when it is old.                                                           *)
getOwnedBooks ==
    /\ "ownedBooks" \in Query /\ books = None
    /\ status = "authenticated"
    /\ SessionOf(jar) # None
    /\ books' = SessionOf(jar)
    /\ UNCHANGED <<server, jar, me, tab, mut>>

DropBooks ==
    /\ books # None
    /\ books' = None
    /\ UNCHANGED <<server, jar, me, tab, mut>>

-------------------------------------------------------------------------------
(* At first a tab opens some page of the app, or a link, for an account that *)
(* may have a session.                                                       *)
Init ==
    /\ accounts \in IF "signup" \in Op THEN SUBSET Account ELSE {Account}
    /\ verified \in SUBSET accounts
    /\ links \in {{}} \cup {{<<"verifyEmail", a>>} : a \in accounts \ verified}
    /\ sess \in [Token -> accounts \cup {None}]
    /\ jar \in {t \in Token : sess[t] # None} \cup {None}
    /\ \A t \in Token : sess[t] # None => t = jar
    /\ tab \in {At(page, None) : page \in Page}
    /\ me = getCurrentUser(Fetch)
    /\ books = None
    /\ mut = [op \in Op |-> NoRequest]

Next ==
    \/ Reconnect \/ ServeMe \/ SettleMe
    \/ LoginForm \/ SignupForm \/ ForgotPasswordForm \/ ResetPasswordForm
    \/ AccountPanel \/ AccountDangerZone
    \/ ChangePasswordDialog \/ ChangeEmailDialog \/ AuthMenu
    \/ VerifyEmailPanel \/ EmailChangeConfirmPanel
    \/ \E op \in Op : Serve(op) \/ Settle(op)
    \/ \E t \in Token : EndElsewhere(t)
    \/ \E l \in links : Lapse(l)
    \/ \E page \in Page : Follow(page) \/ Load(page, None)
    \/ \E page \in LinkPage \cap Page, a \in Account : Load(page, a)
    \/ Redirect \/ Arrive
    \/ \E op \in Dialog : OpenDialog(op)
    \/ CloseDialog
    \/ getOwnedBooks \/ DropBooks

(* The browser ends each request, with an answer or a network error; React   *)
(* runs the effects of what is mounted, and the router the navigations it is *)
(* given.                                                                    *)
Fairness ==
    /\ WF_vars(ServeMe) /\ WF_vars(SettleMe) /\ WF_vars(Redirect) /\ WF_vars(Arrive)
    /\ WF_vars(VerifyEmailPanel \/ EmailChangeConfirmPanel)
    /\ \A op \in Op : WF_vars(Settle(op))

(* A visitor who for ever reloads a document before it is ready sees nothing *)
(* of what it does.                                                          *)
Patience == <>[][~Load(tab'.page, tab'.link)]_vars

Spec == Init /\ [][Next]_vars /\ Fairness /\ Patience

-------------------------------------------------------------------------------
(* Properties                                                                *)

(* TypeOK: the tables of the API, the cached identity, the tab and the       *)
(* requests hold what the code can put there; a link is only with a page     *)
(* that spends one, a verdict only of a link that was sent, and callbacks    *)
(* and forms only of the page on screen.                                     *)
Tables ==
    /\ verified \subseteq accounts /\ accounts \subseteq Account
    /\ links \subseteq LinkPage \X accounts
    /\ sess \in [Token -> accounts \cup {None}]
    /\ jar \in Token \cup {None}
    /\ me \in Identity /\ books \in Account \cup {None} /\ tab \in Location
    /\ mut \in [Op -> Request]

OnScreen ==
    /\ tab.link # None => tab.page \in LinkPage
    /\ tab.phase # "asking" => tab.hasSubmitted
    /\ \A op \in Op :
        /\ mut[op].watched => mut[op].owned
        /\ mut[op].owned /\ op # "logout" => tab.page = OwnerPage[op]

TypeOK == Tables /\ OnScreen

(* CacheAgrees: at all times, whatever is under way, the tab shows nobody    *)
(* without a cookie, and with a live session nobody but its account ("the    *)
(* mutations below keep it in sync"); unless the identity is of a fetch that *)
(* a mutation crossed, or a change of address or password was answered when  *)
(* the browser had another session than it was sent with.                    *)
Shown == IF me.data \in {None, Unset} THEN {} ELSE {me.data.id}
CacheAgrees ==
    ~me.crossed => \/ Shown \subseteq {SessionOf(jar)}
                   \/ jar # None /\ SessionOf(jar) = None

(* FailureShownOnce: a failure of a form, dialog or panel that is still on   *)
(* screen is seen in exactly one place, whatever the code.                   *)
FailureShownOnce ==
    \A op \in Op : \A q \in Outcomes(op) :
        q.watched /\ q.code # "ok" => Cardinality(ShownBy(op, q)) = 1

(* VerdictStands: what a link panel has said of its link it does not take    *)
(* back ("the second would 400 on a consumed token").                        *)
VerdictStands ==
    [][tab.phase # "asking" /\ tab'.page = tab.page /\ tab'.link = tab.link
            /\ tab'.hasSubmitted => tab'.phase = tab.phase]_vars

(* GuardDecides: a protected page does not stay blank; its visitor is sent   *)
(* away or let in.                                                           *)
GuardDecides ==
    (tab.page \in Protected /\ status # "authenticated")
        ~> (tab.page \notin Protected \/ status = "authenticated")

(* PanelDecides: a panel that was opened with a link comes to a verdict.     *)
Asking == tab.page \in {"verifyEmail", "confirmEmailChange"} \cap Op
            /\ tab.link # None /\ tab.phase = "asking"
PanelDecides == Asking ~> ~Asking

(* Spoken by comments of the code, and refuted.                              *)

(* BooksAreTheirs: the page of "Collections you own" lists books of the      *)
(* account that is signed in.                                                *)
BooksAreTheirs ==
    tab.page = "books" /\ status = "authenticated" /\ books # None =>
        books = me.data.id
==============================================================================
