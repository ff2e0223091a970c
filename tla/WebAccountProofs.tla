--------------------------- MODULE WebAccountProofs ---------------------------
(* What WebAccount keeps for any accounts, any pool of sessions, any of its  *)
(* mutations and any number of them under way.                               *)
EXTENDS WebAccount, TLAPS, FiniteSetTheorems

-------------------------------------------------------------------------------
(* The inductive invariant                                                   *)

(* A session that ended, or one of the account.                              *)
Of(t, a) == t \in Token /\ sess[t] \in {None, a}

Named(u) == u \notin {None, Unset}
Answered(op) == op \in Op /\ mut[op].stage = "answered"

Panel == {"verifyEmail", "confirmEmailChange"}
ByAddress == {"login", "signup", "requestPasswordReset"} \cup LinkPage

(* A request has what it needs, and only an answer has anything to store; a  *)
(* panel that waits for the answer to its link has not decided.              *)
RequestsHold ==
    \A op \in Op :
        /\ mut[op].stage \in {"sent", "answered"} /\ op \in ByAddress =>
                mut[op].arg \in Account
        /\ mut[op].stage = "answered" => mut[op].code = "ok"
        /\ mut[op].stage # "answered" => mut[op].new = None
        /\ mut[op].owned /\ op \in Panel => tab.hasSubmitted /\ tab.phase = "asking"

(* The sessions an answer tells of are those of its account, if they last.   *)
AnswersHold ==
    /\ \A op \in {"login", "signup"} : Answered(op) =>
            mut[op].user \in User /\ Of(mut[op].new, mut[op].user.id)
    /\ Answered("changePassword") =>
            LET q == mut["changePassword"] IN
            q.new \in Token /\ q.tok \in Token /\ sess[q.tok] = None
    /\ Answered("changeEmail") =>
            LET q == mut["changeEmail"] IN q.user \in User /\ Of(q.tok, q.user.id)

(* A session that an answer brings is nowhere else yet.                      *)
NewIsNowhere ==
    \A o \in Op : mut[o].new # None =>
        /\ mut[o].new \notin {jar, me.tok}
        /\ \A p \in Op : mut[o].new # mut[p].tok /\ (p # o => mut[o].new # mut[p].new)

(* The identity shown, and the one on its way, are of the cookie.            *)
ShownIsOfJar == ~me.crossed /\ Named(me.data) => Of(jar, me.data.id)

FetchedIsOfJar ==
    me.fetch # "idle" =>
        /\ me.tok \in Token
        /\ me.clean => me.tok = jar \/ sess[me.tok] = None
        /\ me.clean /\ me.fetch = "answered" /\ me.got # None => Of(jar, me.got.id)

(* They will be of the cookie that a change of password brings.              *)
PasswordKeepsThem ==
    Answered("changePassword") =>
        LET q == mut["changePassword"]
            e == mut["changeEmail"]
        IN
        /\ q.tok = jar /\ ~me.crossed /\ Named(me.data) => Of(q.new, me.data.id)
        /\ q.tok = jar /\ me.clean /\ me.fetch = "answered" /\ me.got # None =>
                Of(q.new, me.got.id)
        /\ Answered("changeEmail") /\ e.tok = q.tok => Of(q.new, e.user.id)

IInv == /\ TypeOK /\ RequestsHold /\ AnswersHold /\ NewIsNowhere
        /\ ShownIsOfJar /\ FetchedIsOfJar /\ PasswordKeepsThem

-------------------------------------------------------------------------------
(* Operators *)

LEMMA OpFacts ==
    /\ LinkPage = Panel \cup {"resetPassword"}
    /\ \A op \in Op : op \in {"signup", "login", "logout", "verifyEmail",
            "confirmEmailChange", "resetPassword", "resendVerification",
            "requestPasswordReset", "exportAccount", "deleteAccount",
            "changePassword", "changeEmail"}
    /\ \A op \in Op \ {"logout"} : OwnerPage[op] \in Page
    /\ {"home", "login", "account"} \subseteq Page
    /\ NeedsSession \cap Op = Op \ ByAddress
<1>1. LinkPage = Panel \cup {"resetPassword"} BY DEF LinkPage, Panel
<1>2. \A op \in Op : op \in {"signup", "login", "logout", "verifyEmail",
            "confirmEmailChange", "resetPassword", "resendVerification",
            "requestPasswordReset", "exportAccount", "deleteAccount",
            "changePassword", "changeEmail"}
    BY OpAssumption DEF AuthContract
<1>3. NeedsSession \cap Op = Op \ ByAddress
    BY <1>1, <1>2 DEF NeedsSession, ByAddress, BookOp, BookContract, Panel
<1>4. /\ \A op \in Op \ {"logout"} : OwnerPage[op] \in Page
      /\ {"home", "login", "account"} \subseteq Page
    BY DEF Page
<1>5. QED BY <1>1, <1>2, <1>3, <1>4

LEMMA NoRequestFacts ==
    /\ NoRequest \in Request
    /\ NoRequest.stage = "idle" /\ NoRequest.new = None /\ NoRequest.tok = None
    /\ ~NoRequest.owned /\ ~NoRequest.watched
BY DEF NoRequest, Request

LEMMA DoneFacts ==
    LET q == [NoRequest EXCEPT !.stage = "done"] IN
    /\ q \in Request /\ q.stage = "done" /\ q.new = None /\ q.tok = None
    /\ ~q.owned /\ ~q.watched
BY DEF NoRequest, Request

LEMMA UserFacts ==
    ASSUME NEW a \in Account
    PROVE  /\ UserResponse(a) \in User /\ UserResponse(a).id = a
           /\ [id |-> a, emailVerified |-> FALSE] \in User
<1>1. (a \in verified) \in BOOLEAN OBVIOUS
<1>2. QED BY <1>1 DEF UserResponse, User

(* The /me query as it is sent.                                              *)
LEMMA FetchFacts ==
    /\ Fetch \in Identity /\ Fetch.fetch = "idle" /\ Fetch.data = Unset
    /\ Fetch.tok = None /\ ~Fetch.crossed
BY DEF Fetch, Identity

LEMMA GetFacts ==
    ASSUME jar \in Token \cup {None}, NEW m \in Identity
    PROVE  LET n == getCurrentUser(m) IN
           /\ n \in Identity
           /\ jar = None => n.data = None /\ n.fetch = "idle" /\ n.tok = None
           /\ jar # None => /\ n.fetch = "asked" /\ n.tok = jar
                            /\ n.data = m.data /\ n.crossed = m.crossed
<1>1. CASE jar = None
  <2>1. getCurrentUser(m) = [Fetch EXCEPT !.data = None]
      BY <1>1 DEF getCurrentUser
  <2>2. QED BY <1>1, <2>1 DEF Fetch, Identity
<1>2. CASE jar # None
  <2>1. getCurrentUser(m) =
            [m EXCEPT !.fetch = "asked", !.tok = jar, !.got = None, !.clean = TRUE]
      BY <1>2 DEF getCurrentUser
  <2>2. getCurrentUser(m) \in Identity BY <1>2, <2>1 DEF Identity
  <2>3. /\ getCurrentUser(m).fetch = "asked" /\ getCurrentUser(m).tok = jar
        /\ getCurrentUser(m).data = m.data /\ getCurrentUser(m).crossed = m.crossed
      BY <2>1 DEF Identity
  <2>4. QED BY <1>2, <2>2, <2>3
<1>3. QED BY <1>1, <1>2

LEMMA SetFacts ==
    ASSUME NEW m \in Identity, NEW value \in User \cup {None},
           NEW overtaken \in BOOLEAN
    PROVE  LET n == setQueryData(m, value, overtaken) IN
           /\ n \in Identity
           /\ n.data = value /\ n.crossed = overtaken /\ n.fetch = m.fetch
           /\ n.tok = m.tok
           /\ n.fetch # "idle" => ~n.clean
<1>1. (m.fetch = "idle") \in BOOLEAN OBVIOUS
<1>2. setQueryData(m, value, overtaken) =
        [m EXCEPT !.data = value, !.clean = m.fetch = "idle", !.crossed = overtaken]
    BY DEF setQueryData
<1>3. setQueryData(m, value, overtaken) \in Identity BY <1>1, <1>2 DEF Identity
<1>4. LET n == setQueryData(m, value, overtaken) IN
      /\ n.data = value /\ n.crossed = overtaken /\ n.fetch = m.fetch
      /\ n.tok = m.tok /\ n.clean = (m.fetch = "idle")
    BY <1>2 DEF Identity
<1>5. QED BY <1>3, <1>4

LEMMA InvalidateFacts ==
    ASSUME jar \in Token \cup {None}, NEW m \in Identity
    PROVE  LET n == invalidateQueries(m) IN
           /\ n \in Identity
           /\ \/ n = getCurrentUser(m)
              \/ /\ n.data = Unset /\ n.fetch = m.fetch /\ n.tok = m.tok
                 /\ ~n.clean
<1>1. CASE m.fetch # "idle" /\ m.data = Unset
  <2>1. invalidateQueries(m) = [m EXCEPT !.clean = FALSE]
      BY <1>1 DEF invalidateQueries
  <2>2. QED BY <1>1, <2>1 DEF Identity
<1>2. CASE ~(m.fetch # "idle" /\ m.data = Unset)
    BY <1>2, GetFacts DEF invalidateQueries
<1>3. QED BY <1>1, <1>2

LEMMA AtFacts ==
    ASSUME NEW page \in Page, NEW from \in Page \cup {None}
    PROVE  LET t == At(page, from) IN
           /\ t \in Location /\ t.page = page /\ t.link = None
           /\ t.phase = "asking" /\ ~t.hasSubmitted
BY DEF At, Location

LEMMA LinkFacts ==
    ASSUME NEW page \in Page, NEW link \in Account \cup {None}
    PROVE  LET t == [At(page, None) EXCEPT !.link = link] IN
           /\ t \in Location /\ t.page = page /\ t.link = link
           /\ t.phase = "asking" /\ ~t.hasSubmitted
BY DEF At, Location

-------------------------------------------------------------------------------
(* Requests                                                                  *)

(* The answers that wait are among those that waited.                        *)
NoNewAnswer(m) ==
    \A op \in Op :
        /\ m[op].stage = "answered" =>
            /\ mut[op].stage = "answered" /\ m[op].code = mut[op].code
            /\ m[op].tok = mut[op].tok /\ m[op].user = mut[op].user
            /\ m[op].new = mut[op].new
        /\ m[op].stage # "answered" => m[op].new = None
        /\ m[op].tok \in {mut[op].tok, None, jar}

LEMMA SubmitFacts ==
    ASSUME mut \in [Op -> Request], RequestsHold, jar \in Token \cup {None},
           NEW op \in Op, NEW a \in Account \cup {None}, NEW page,
           Submit(op, a, page)
    PROVE  /\ mut' \in [Op -> Request]
           /\ \A o \in Op : o # op => mut'[o] = mut[o]
           /\ mut'[op].stage = "sent" /\ mut'[op].arg = a
           /\ mut'[op].owned /\ mut'[op].watched
           /\ page = tab.page
           /\ NoNewAnswer(mut')
<1> DEFINE q == [NoRequest EXCEPT !.stage = "sent", !.tok = jar, !.arg = a,
                                  !.owned = TRUE, !.watched = TRUE]
<1>1. q \in Request BY DEF NoRequest, Request
<1>2. /\ q.stage = "sent" /\ q.tok = jar /\ q.arg = a /\ q.new = None
      /\ q.owned = TRUE /\ q.watched = TRUE
    BY DEF NoRequest
<1>3. mut' = [mut EXCEPT ![op] = q] /\ page = tab.page BY DEF Submit
<1> HIDE DEF q
<1>4. /\ mut' \in [Op -> Request] /\ mut'[op] = q
      /\ \A o \in Op : o # op => mut'[o] = mut[o]
    BY <1>1, <1>3
<1>5. NoNewAnswer(mut')
    BY <1>2, <1>4 DEF NoNewAnswer, RequestsHold
<1>6. QED BY <1>2, <1>3, <1>4, <1>5

LEMMA UnmountFacts ==
    ASSUME mut \in [Op -> Request], RequestsHold, NEW page
    PROVE  /\ Unmount(page) \in [Op -> Request]
           /\ \A op \in Op :
                LET q == Unmount(page)[op] IN
                /\ op = "logout" \/ OwnerPage[op] # page => q = mut[op]
                /\ op # "logout" /\ OwnerPage[op] = page => ~q.owned /\ ~q.watched
                /\ \/ q.stage = mut[op].stage /\ q.arg = mut[op].arg
                   \/ q.stage = "idle"
           /\ NoNewAnswer(Unmount(page))
<1>1. ASSUME NEW op \in Op
      PROVE  LET q == Unmount(page)[op] IN
             /\ q \in Request
             /\ op = "logout" \/ OwnerPage[op] # page => q = mut[op]
             /\ op # "logout" /\ OwnerPage[op] = page => ~q.owned /\ ~q.watched
             /\ \/ /\ q.stage = mut[op].stage /\ q.arg = mut[op].arg
                   /\ q.code = mut[op].code /\ q.tok = mut[op].tok
                   /\ q.user = mut[op].user /\ q.new = mut[op].new
                \/ q.stage = "idle" /\ q.new = None /\ q.tok = None
  <2> DEFINE r == [mut[op] EXCEPT !.owned = FALSE, !.watched = FALSE]
  <2>1. CASE op = "logout" \/ OwnerPage[op] # page
    <3>1. CASE op = "logout" BY <2>1, <3>1 DEF Unmount
    <3>2. CASE OwnerPage[op] # page
      <4>1. Unmount(page)[op] = mut[op] BY <3>2 DEF Unmount
      <4>2. QED BY <2>1, <3>2, <4>1
    <3>3. QED BY <2>1, <3>1, <3>2
  <2>2. CASE ~(op = "logout" \/ OwnerPage[op] # page) /\ mut[op].stage = "done"
    <3>1. Unmount(page)[op] = NoRequest BY <2>2 DEF Unmount
    <3>2. QED BY <2>2, <3>1, NoRequestFacts
  <2>3. CASE ~(op = "logout" \/ OwnerPage[op] # page) /\ mut[op].stage # "done"
    <3>1. Unmount(page)[op] = r BY <2>3 DEF Unmount
    <3>2. mut[op] \in Request OBVIOUS
    <3>3. r \in Request BY <3>2 DEF Request
    <3>4. /\ r.stage = mut[op].stage /\ r.arg = mut[op].arg
          /\ r.code = mut[op].code /\ r.tok = mut[op].tok
          /\ r.user = mut[op].user /\ r.new = mut[op].new
          /\ r.owned = FALSE /\ r.watched = FALSE
        BY <3>2 DEF Request
    <3> HIDE DEF r
    <3>5. QED BY <2>3, <3>1, <3>3, <3>4
  <2>4. QED BY <2>1, <2>2, <2>3
<1>2. Unmount(page) = [op \in Op |-> Unmount(page)[op]] BY DEF Unmount
<1>3. Unmount(page) \in [Op -> Request] BY <1>1, <1>2
<1>4. NoNewAnswer(Unmount(page)) BY <1>1 DEF NoNewAnswer, RequestsHold
<1>5. QED BY <1>1, <1>3, <1>4

(* Answers and identity stay right when no answer, cookie or session is new. *)
LEMMA AnswersKept ==
    ASSUME IInv, mut' \in [Op -> Request], NoNewAnswer(mut'),
           UNCHANGED <<sess, jar, me>>
    PROVE  /\ AnswersHold' /\ NewIsNowhere' /\ ShownIsOfJar' /\ FetchedIsOfJar'
           /\ PasswordKeepsThem'
<1>1. \A op : Answered(op)' =>
        /\ Answered(op) /\ mut'[op].tok = mut[op].tok
        /\ mut'[op].user = mut[op].user /\ mut'[op].new = mut[op].new
    BY DEF Answered, NoNewAnswer
<1>2. \A t, a : Of(t, a)' <=> Of(t, a) BY DEF Of
<1>3. AnswersHold' BY <1>1, <1>2 DEF IInv, AnswersHold
<1>4. \A op \in Op : mut'[op].new \in {mut[op].new, None} BY DEF NoNewAnswer
<1>5. NewIsNowhere'
  <2> SUFFICES ASSUME NEW o \in Op, mut'[o].new # None
               PROVE  /\ mut'[o].new \notin {jar, me.tok}
                      /\ \A p \in Op : /\ mut'[o].new # mut'[p].tok
                                       /\ p # o => mut'[o].new # mut'[p].new
      BY DEF NewIsNowhere
  <2>1. mut'[o].new = mut[o].new /\ mut[o].new \notin {jar, me.tok}
      BY <1>4 DEF IInv, NewIsNowhere
  <2>2. \A p \in Op : mut[o].new # mut[p].tok /\ (p # o => mut[o].new # mut[p].new)
      BY <1>4 DEF IInv, NewIsNowhere
  <2>3. \A p \in Op : mut'[p].tok \in {mut[p].tok, None, jar} BY DEF NoNewAnswer
  <2>4. QED BY <1>4, <2>1, <2>2, <2>3
<1>6. ShownIsOfJar' /\ FetchedIsOfJar'
    BY <1>2 DEF IInv, ShownIsOfJar, FetchedIsOfJar
<1>7. PasswordKeepsThem' BY <1>1, <1>2 DEF IInv, PasswordKeepsThem
<1>8. QED BY <1>3, <1>5, <1>6, <1>7

(* A form sends a request.                                                   *)
LEMMA SendStep ==
    ASSUME IInv, NEW op, NEW a \in Account \cup {None}, NEW page,
           Send(op, a, page),
           op \in ByAddress => a \in Account, op \notin Panel,
           op # "logout" => page = OwnerPage[op]
    PROVE  IInv'
<1> USE DEF IInv, TypeOK, Tables
<1>1. /\ op \in Op /\ Submit(op, a, page)
      /\ UNCHANGED <<accounts, verified, links, sess, jar, me, books, tab>>
    BY DEF Send, server
<1>2. /\ mut' \in [Op -> Request]
      /\ \A o \in Op : o # op => mut'[o] = mut[o]
      /\ mut'[op].stage = "sent" /\ mut'[op].arg = a /\ page = tab.page
      /\ NoNewAnswer(mut')
    BY <1>1, SubmitFacts
<1>3. Tables' BY <1>1, <1>2
<1>4. OnScreen' BY <1>1, <1>2, SubmitFacts DEF OnScreen
<1>5. RequestsHold' BY <1>1, <1>2 DEF RequestsHold, NoNewAnswer
<1>6. QED BY <1>1, <1>2, <1>3, <1>4, <1>5, AnswersKept

LEMMA FormsStep ==
    ASSUME IInv,
           \/ LoginForm \/ SignupForm \/ ForgotPasswordForm \/ ResetPasswordForm
           \/ AccountPanel \/ AccountDangerZone
           \/ ChangePasswordDialog \/ ChangeEmailDialog \/ AuthMenu
    PROVE  IInv'
<1> USE OpFacts DEF OwnerPage, Panel, ByAddress
<1>1. accounts \subseteq Account /\ tab.link \in Account \cup {None}
    BY DEF IInv, TypeOK, Tables, Location
<1>2. CASE LoginForm BY <1>1, <1>2, SendStep DEF LoginForm
<1>3. CASE SignupForm BY <1>3, SendStep DEF SignupForm
<1>4. CASE ForgotPasswordForm BY <1>1, <1>4, SendStep DEF ForgotPasswordForm
<1>5. CASE ResetPasswordForm BY <1>1, <1>5, SendStep DEF ResetPasswordForm
<1>6. CASE AccountPanel BY <1>6, SendStep DEF AccountPanel
<1>7. CASE AccountDangerZone BY <1>7, SendStep DEF AccountDangerZone
<1>8. CASE ChangePasswordDialog BY <1>8, SendStep DEF ChangePasswordDialog
<1>9. CASE ChangeEmailDialog BY <1>9, SendStep DEF ChangeEmailDialog
<1>10. CASE AuthMenu BY <1>10, SendStep DEF AuthMenu
<1>11. QED
    BY <1>2, <1>3, <1>4, <1>5, <1>6, <1>7, <1>8, <1>9, <1>10

(* A panel spends its link.                                                  *)
LEMMA PanelStep ==
    ASSUME IInv, NEW op \in Panel, PanelEffect(op)
    PROVE  IInv'
<1> USE DEF IInv, TypeOK, Tables
<1>1. /\ op \in Op /\ Submit(op, tab.link, op) /\ tab.link # None
      /\ ~tab.hasSubmitted /\ tab' = [tab EXCEPT !.hasSubmitted = TRUE]
      /\ UNCHANGED <<accounts, verified, links, sess, jar, me, books>>
    BY DEF PanelEffect, server
<1>2. tab.link \in Account BY <1>1 DEF Location
<1>3. /\ mut' \in [Op -> Request]
      /\ \A o \in Op : o # op => mut'[o] = mut[o]
      /\ mut'[op].stage = "sent" /\ mut'[op].arg = tab.link /\ tab.page = op
      /\ mut'[op].owned
      /\ NoNewAnswer(mut')
    BY <1>1, <1>2, SubmitFacts
<1>4. /\ tab' \in Location /\ tab'.hasSubmitted = TRUE
      /\ tab'.page = tab.page /\ tab'.link = tab.link /\ tab'.phase = tab.phase
    BY <1>1 DEF Location
<1>5. tab.phase = "asking" BY <1>1 DEF OnScreen
<1>6. Tables' BY <1>1, <1>3, <1>4
<1>7. OnScreen' BY <1>3, <1>4 DEF OnScreen, OwnerPage, Panel
<1>8. RequestsHold' BY <1>2, <1>3, <1>4, <1>5 DEF RequestsHold, NoNewAnswer
<1>9. QED BY <1>1, <1>3, <1>6, <1>7, <1>8, AnswersKept

-------------------------------------------------------------------------------
(* The location                                                              *)

(* A page is left for another, or its content for a redirect.                *)
LEMMA LeaveStep ==
    ASSUME IInv, tab' \in Location, mut' = Unmount(tab.page),
           tab'.link # None => tab'.page \in LinkPage,
           tab'.phase # "asking" => tab'.hasSubmitted,
           UNCHANGED <<accounts, verified, links, sess, jar, me, books>>
    PROVE  IInv'
<1> USE DEF IInv, TypeOK, Tables
<1>1. /\ mut' \in [Op -> Request] /\ NoNewAnswer(mut')
      /\ \A op \in Op :
            /\ op # "logout" /\ OwnerPage[op] = tab.page =>
                    ~mut'[op].owned /\ ~mut'[op].watched
            /\ op = "logout" \/ OwnerPage[op] # tab.page => mut'[op] = mut[op]
            /\ \/ mut'[op].stage = mut[op].stage /\ mut'[op].arg = mut[op].arg
               \/ mut'[op].stage = "idle"
    BY UnmountFacts
<1>2. \A op \in Op : op # "logout" => ~mut'[op].owned /\ ~mut'[op].watched
    BY <1>1 DEF OnScreen
<1>3. Tables' BY <1>1
<1>4. OnScreen' BY <1>1, <1>2 DEF OnScreen
<1>5. RequestsHold' BY <1>1, <1>2 DEF RequestsHold, NoNewAnswer, Panel
<1>6. QED BY <1>1, <1>3, <1>4, <1>5, AnswersKept

(* The page stays with its link.                                             *)
LEMMA StayStep ==
    ASSUME IInv, tab' \in Location,
           tab'.page = tab.page, tab'.link = tab.link, tab'.phase = tab.phase,
           tab'.hasSubmitted = tab.hasSubmitted,
           mut' \in [Op -> Request],
           \A op \in Op :
                /\ mut'[op].stage = mut[op].stage /\ mut'[op].arg = mut[op].arg
                /\ mut'[op].code = mut[op].code /\ mut'[op].tok = mut[op].tok
                /\ mut'[op].user = mut[op].user /\ mut'[op].new = mut[op].new
                /\ mut'[op].owned = mut[op].owned
                /\ mut'[op].watched => mut[op].watched,
           UNCHANGED <<accounts, verified, links, sess, jar, me, books>>
    PROVE  IInv'
<1> USE DEF IInv, TypeOK, Tables
<1>1. Tables' OBVIOUS
<1>2. OnScreen' BY DEF OnScreen
<1>3. RequestsHold' BY DEF RequestsHold
<1>4. NoNewAnswer(mut') BY DEF NoNewAnswer, RequestsHold
<1>5. QED BY <1>1, <1>2, <1>3, <1>4, AnswersKept

LEMMA MoveStep ==
    ASSUME IInv,
           \/ \E page \in Page : Follow(page)
           \/ Redirect \/ Arrive
           \/ \E op \in Dialog : OpenDialog(op)
           \/ CloseDialog
    PROVE  IInv'
<1>0. tab \in Location /\ mut \in [Op -> Request]
    BY DEF IInv, TypeOK, Tables
<1>1. ASSUME NEW page \in Page, Follow(page)
      PROVE  IInv'
  <2>1. /\ tab' = At(page, None) /\ mut' = Unmount(tab.page)
        /\ UNCHANGED <<accounts, verified, links, sess, jar, me, books>>
      BY <1>1 DEF Follow, server
  <2>2. tab' \in Location /\ tab'.link = None /\ tab'.phase = "asking"
      BY <2>1, AtFacts
  <2>3. QED BY <2>1, <2>2, LeaveStep
<1>2. CASE Redirect
  <2>1. /\ tab' = [tab EXCEPT !.nav = ToLogin, !.dialog = None]
        /\ mut' = Unmount(tab.page)
        /\ UNCHANGED <<accounts, verified, links, sess, jar, me, books>>
      BY <1>2 DEF Redirect, server
  <2>2. ToLogin \in [to : Page, from : Page \cup {None}]
      BY <1>0, OpFacts DEF ToLogin, Location
  <2>3. tab' \in Location BY <1>0, <2>1, <2>2 DEF Location
  <2>4. /\ tab'.link = tab.link /\ tab'.page = tab.page /\ tab'.phase = tab.phase
        /\ tab'.hasSubmitted = tab.hasSubmitted
      BY <1>0, <2>1 DEF Location
  <2>5. QED BY <2>1, <2>3, <2>4, LeaveStep DEF IInv, TypeOK, OnScreen
<1>3. CASE Arrive
  <2>1. tab.nav \in [to : Page, from : Page \cup {None}]
      BY <1>0, <1>3 DEF Arrive, Location
  <2>2. CASE tab.nav.to = tab.page
    <3>1. /\ tab' = [tab EXCEPT !.nav = None, !.from = tab.nav.from]
          /\ UNCHANGED <<accounts, verified, links, sess, jar, me, books, mut>>
        BY <1>3, <2>2 DEF Arrive, server
    <3>2. tab.nav.from \in Page \cup {None} BY <2>1
    <3>3. tab' \in Location BY <1>0, <3>1, <3>2 DEF Location
    <3>4. /\ tab'.link = tab.link /\ tab'.page = tab.page /\ tab'.phase = tab.phase
          /\ tab'.hasSubmitted = tab.hasSubmitted
        BY <1>0, <3>1 DEF Location
    <3>5. QED BY <1>0, <3>1, <3>3, <3>4, StayStep
  <2>3. CASE tab.nav.to # tab.page
    <3>1. /\ tab' = At(tab.nav.to, tab.nav.from) /\ mut' = Unmount(tab.page)
          /\ UNCHANGED <<accounts, verified, links, sess, jar, me, books>>
        BY <1>3, <2>3 DEF Arrive, server
    <3>2. tab' \in Location /\ tab'.link = None /\ tab'.phase = "asking"
        BY <2>1, <3>1, AtFacts
    <3>3. QED BY <3>1, <3>2, LeaveStep
  <2>4. QED BY <2>2, <2>3
<1>4. ASSUME NEW op \in Dialog, OpenDialog(op)
      PROVE  IInv'
  <2>1. /\ tab' = [tab EXCEPT !.dialog = op]
        /\ UNCHANGED <<accounts, verified, links, sess, jar, me, books, mut>>
      BY <1>4 DEF OpenDialog, server
  <2>2. /\ tab' \in Location
        /\ tab'.link = tab.link /\ tab'.page = tab.page /\ tab'.phase = tab.phase
        /\ tab'.hasSubmitted = tab.hasSubmitted
      BY <1>0, <2>1 DEF Location
  <2>3. QED BY <1>0, <2>1, <2>2, StayStep
<1>5. CASE CloseDialog
  <2>1. /\ tab' = [tab EXCEPT !.dialog = None]
        /\ mut' = [mut EXCEPT ![tab.dialog].watched = FALSE]
        /\ UNCHANGED <<accounts, verified, links, sess, jar, me, books>>
      BY <1>5 DEF CloseDialog, server
  <2>2. /\ tab' \in Location
        /\ tab'.link = tab.link /\ tab'.page = tab.page /\ tab'.phase = tab.phase
        /\ tab'.hasSubmitted = tab.hasSubmitted
      BY <1>0, <2>1 DEF Location
  <2>3. ASSUME NEW op \in Op
        PROVE  /\ mut'[op] \in Request
               /\ mut'[op].stage = mut[op].stage /\ mut'[op].arg = mut[op].arg
               /\ mut'[op].code = mut[op].code /\ mut'[op].tok = mut[op].tok
               /\ mut'[op].user = mut[op].user /\ mut'[op].new = mut[op].new
               /\ mut'[op].owned = mut[op].owned
               /\ mut'[op].watched => mut[op].watched
    <3>1. CASE op = tab.dialog
      <4>1. mut'[op] = [mut[op] EXCEPT !.watched = FALSE] BY <1>0, <2>1, <3>1
      <4>2. mut[op] \in Request BY <1>0
      <4>3. mut'[op] \in Request BY <4>1, <4>2 DEF Request
      <4>4. /\ mut'[op].stage = mut[op].stage /\ mut'[op].arg = mut[op].arg
            /\ mut'[op].code = mut[op].code /\ mut'[op].tok = mut[op].tok
            /\ mut'[op].user = mut[op].user /\ mut'[op].new = mut[op].new
            /\ mut'[op].owned = mut[op].owned /\ mut'[op].watched = FALSE
          BY <4>1, <4>2 DEF Request
      <4>5. QED BY <4>3, <4>4
    <3>2. CASE op # tab.dialog
      <4>1. mut'[op] = mut[op] BY <1>0, <2>1, <3>2
      <4>2. QED BY <1>0, <4>1
    <3>3. QED BY <3>1, <3>2
  <2>4. mut' \in [Op -> Request]
    <3>1. mut' = [op \in Op |-> mut'[op]] BY <1>0, <2>1
    <3>2. QED BY <2>3, <3>1
  <2>5. QED BY <2>1, <2>2, <2>3, <2>4, StayStep
<1>6. QED BY <1>1, <1>2, <1>3, <1>4, <1>5

(* A new document.                                                           *)
LEMMA LoadStep ==
    ASSUME IInv, NEW page \in Page, NEW link \in Account \cup {None},
           link # None => page \in LinkPage, Load(page, link)
    PROVE  IInv'
<1> USE DEF IInv, TypeOK, Tables
<1>1. /\ tab' = [At(page, None) EXCEPT !.link = link]
      /\ me' = getCurrentUser(Fetch) /\ books' = None
      /\ mut' = [op \in Op |-> NoRequest]
      /\ UNCHANGED <<accounts, verified, links, sess, jar>>
    BY DEF Load, Mount, server
<1>2. /\ tab' \in Location /\ tab'.page = page /\ tab'.link = link
      /\ tab'.phase = "asking"
    BY <1>1, LinkFacts
<1>3. \A op \in Op : mut'[op] = NoRequest BY <1>1
<1>4. /\ me' \in Identity
      /\ me'.fetch # "idle" => me'.fetch = "asked" /\ me'.tok = jar /\ jar # None
      /\ me'.data \in {None, Unset}
    BY <1>1, GetFacts, FetchFacts
<1>5. Tables' BY <1>1, <1>2, <1>4, NoRequestFacts
<1>6. OnScreen' BY <1>2, <1>3, NoRequestFacts DEF OnScreen
<1>7. RequestsHold' BY <1>3, NoRequestFacts DEF RequestsHold
<1>8. \A op : ~Answered(op)' BY <1>3, NoRequestFacts DEF Answered
<1>9. AnswersHold' /\ PasswordKeepsThem'
    BY <1>8 DEF AnswersHold, PasswordKeepsThem
<1>10. NewIsNowhere' BY <1>3, NoRequestFacts DEF NewIsNowhere
<1>11. ShownIsOfJar' /\ FetchedIsOfJar'
    BY <1>1, <1>4 DEF ShownIsOfJar, FetchedIsOfJar, Named
<1>12. QED BY <1>5, <1>6, <1>7, <1>9, <1>10, <1>11

-------------------------------------------------------------------------------
(* The /me query                                                             *)

(* The identity is shown as before, or nobody is.                            *)
LEMMA AskStep ==
    ASSUME IInv, me' \in Identity,
           me'.fetch # "idle" => me'.fetch = "asked" /\ me'.tok = jar /\ jar # None,
           me'.tok \in {jar, None},
           \/ me'.data \in {None, Unset}
           \/ me'.data = me.data /\ me'.crossed = me.crossed,
           UNCHANGED <<accounts, verified, links, sess, jar, books, tab, mut>>
    PROVE  IInv'
<1> USE DEF IInv, TypeOK, Tables
<1>1. Tables' /\ OnScreen' /\ RequestsHold' BY DEF OnScreen, RequestsHold
<1>2. \A op, t, a : (Answered(op)' <=> Answered(op)) /\ (Of(t, a)' <=> Of(t, a))
    BY DEF Answered, Of
<1>3. AnswersHold' BY <1>2 DEF AnswersHold
<1>4. NewIsNowhere' BY DEF NewIsNowhere
<1>5. ShownIsOfJar' BY <1>2 DEF ShownIsOfJar, Named
<1>6. FetchedIsOfJar' BY DEF FetchedIsOfJar
<1>7. PasswordKeepsThem' BY <1>2 DEF PasswordKeepsThem, Named
<1>8. QED BY <1>1, <1>3, <1>4, <1>5, <1>6, <1>7

LEMMA MeStep ==
    ASSUME IInv, Reconnect \/ ServeMe \/ SettleMe
    PROVE  IInv'
<1> USE DEF IInv, TypeOK, Tables
<1>0. \A op, t, a : UNCHANGED <<sess, mut>> =>
            (Answered(op)' <=> Answered(op)) /\ (Of(t, a)' <=> Of(t, a))
    BY DEF Answered, Of
<1>1. CASE Reconnect
  <2>1. /\ me' = getCurrentUser(me)
        /\ UNCHANGED <<accounts, verified, links, sess, jar, books, tab, mut>>
      BY <1>1 DEF Reconnect, server
  <2>2. /\ me' \in Identity
        /\ me'.fetch # "idle" => me'.fetch = "asked" /\ me'.tok = jar /\ jar # None
        /\ me'.tok \in {jar, None}
        /\ \/ me'.data \in {None, Unset}
           \/ me'.data = me.data /\ me'.crossed = me.crossed
      BY <2>1, GetFacts
  <2> HIDE DEF IInv
  <2>3. QED BY <2>1, <2>2, AskStep
<1>2. CASE ServeMe
  <2>1. me.tok \in Token /\ me.fetch = "asked"
        /\ UNCHANGED <<accounts, verified, links, sess, jar, books, tab, mut>>
      BY <1>2 DEF ServeMe, FetchedIsOfJar, server
  <2> DEFINE a == sess[me.tok]
  <2>2. PICK answer \in {None} \cup (IF a = None THEN {} ELSE {UserResponse(a)}) :
            me' = [me EXCEPT !.fetch = "answered", !.got = answer]
      BY <1>2, <2>1, NoneAssumption DEF ServeMe, SessionOf
  <2>3. /\ answer \in User \cup {None}
        /\ answer # None => a # None /\ answer.id = a
      BY <2>1, <2>2, UserFacts
  <2>4. me' \in Identity BY <2>2, <2>3 DEF Identity
  <2>5. /\ me'.fetch = "answered" /\ me'.got = answer /\ me'.tok = me.tok
        /\ me'.data = me.data /\ me'.crossed = me.crossed /\ me'.clean = me.clean
      BY <2>2 DEF Identity
  <2>6. me'.clean /\ me'.got # None => me.tok = jar /\ sess[jar] = me'.got.id
      BY <2>1, <2>3, <2>5 DEF FetchedIsOfJar
  <2>7. Tables' /\ OnScreen' /\ RequestsHold'
      BY <2>1, <2>4 DEF OnScreen, RequestsHold
  <2>8. AnswersHold' BY <1>0, <2>1 DEF AnswersHold
  <2>9. NewIsNowhere' BY <2>1, <2>5 DEF NewIsNowhere
  <2>10. ShownIsOfJar' BY <1>0, <2>1, <2>5 DEF ShownIsOfJar
  <2>11. FetchedIsOfJar' BY <2>1, <2>5, <2>6 DEF FetchedIsOfJar, Of
  <2>12. PasswordKeepsThem'
    <3>1. Answered("changePassword") /\ mut["changePassword"].tok = jar =>
            sess[jar] = None
        BY DEF AnswersHold
    <3>2. Answered("changePassword") /\ mut["changePassword"].tok = jar /\ me'.clean
            => me'.got = None
        BY <2>1, <2>3, <2>5, <2>6, <3>1
    <3>3. QED BY <1>0, <2>1, <2>5, <3>2 DEF PasswordKeepsThem
  <2>13. QED BY <2>7, <2>8, <2>9, <2>10, <2>11, <2>12
<1>3. CASE SettleMe
  <2>1. /\ me.fetch = "answered"
        /\ UNCHANGED <<accounts, verified, links, sess, jar, books, tab, mut>>
      BY <1>3 DEF SettleMe, server
  <2>2. CASE me.got = None
    <3>1. me' = [Fetch EXCEPT !.data = me.data, !.crossed = me.crossed]
        BY <1>3, <2>2 DEF SettleMe
    <3>2. me' \in Identity BY <3>1, FetchFacts DEF Identity
    <3>3. /\ me'.fetch = "idle" /\ me'.tok = None
          /\ me'.data = me.data /\ me'.crossed = me.crossed
        BY <3>1 DEF Fetch
    <3> HIDE DEF IInv
    <3>4. QED BY <2>1, <3>2, <3>3, AskStep
  <2>3. CASE me.got # None
    <3>1. me' = [Fetch EXCEPT !.data = me.got, !.crossed = ~me.clean]
        BY <1>3, <2>3 DEF SettleMe
    <3>2. me.got \in User /\ (~me.clean) \in BOOLEAN BY <2>3 DEF Identity
    <3>3. me' \in Identity BY <3>1, <3>2, FetchFacts DEF Identity
    <3>4. /\ me'.fetch = "idle" /\ me'.tok = None
          /\ me'.data = me.got /\ me'.crossed = ~me.clean
        BY <3>1 DEF Fetch
    <3>5. Tables' /\ OnScreen' /\ RequestsHold'
        BY <2>1, <3>3 DEF OnScreen, RequestsHold
    <3>6. AnswersHold' BY <1>0, <2>1 DEF AnswersHold
    <3>7. NewIsNowhere' BY <2>1, <3>4 DEF NewIsNowhere
    <3>8. ~me'.crossed => me.clean BY <3>2, <3>4
    <3>9. ShownIsOfJar'
        BY <1>0, <2>1, <2>3, <3>4, <3>8 DEF ShownIsOfJar, FetchedIsOfJar
    <3>10. FetchedIsOfJar' BY <3>4 DEF FetchedIsOfJar
    <3>11. PasswordKeepsThem'
        BY <1>0, <2>1, <2>3, <3>4, <3>8 DEF PasswordKeepsThem
    <3>12. QED BY <3>5, <3>6, <3>7, <3>9, <3>10, <3>11
  <2>4. QED BY <2>2, <2>3
<1>4. QED BY <1>1, <1>2, <1>3

-------------------------------------------------------------------------------
(* The API                                                                   *)

(* Sessions end, or links, or the list of books comes and goes.              *)
LEMMA EndStep ==
    ASSUME IInv,
           \/ \E t \in Token : EndElsewhere(t)
           \/ \E l \in links : Lapse(l)
           \/ getOwnedBooks \/ DropBooks
    PROVE  IInv'
<1> USE DEF IInv, TypeOK, Tables
<1>1. UNCHANGED <<accounts, verified, jar, me, tab, mut>>
    BY DEF EndElsewhere, Lapse, getOwnedBooks, DropBooks, server
<1>2. links' \subseteq links BY DEF EndElsewhere, Lapse, getOwnedBooks, DropBooks, server
<1>3. books' \in Account \cup {None}
    BY NoneAssumption DEF EndElsewhere, Lapse, getOwnedBooks, DropBooks, SessionOf
<1>4. /\ sess' \in [Token -> accounts \cup {None}]
      /\ \A s \in Token : sess'[s] \in {sess[s], None}
    BY DEF EndElsewhere, Lapse, getOwnedBooks, DropBooks, server
<1>5. Tables' /\ OnScreen' /\ RequestsHold'
    BY <1>1, <1>2, <1>3, <1>4 DEF OnScreen, RequestsHold
<1>6. \A op : Answered(op)' <=> Answered(op) BY <1>1 DEF Answered
<1>7. \A t, a : Of(t, a) => Of(t, a)' BY <1>4 DEF Of
<1>8. AnswersHold' BY <1>1, <1>4, <1>6, <1>7 DEF AnswersHold
<1>9. NewIsNowhere' BY <1>1 DEF NewIsNowhere
<1>10. ShownIsOfJar' BY <1>1, <1>7 DEF ShownIsOfJar
<1>11. FetchedIsOfJar' BY <1>1, <1>4, <1>7 DEF FetchedIsOfJar
<1>12. PasswordKeepsThem' BY <1>1, <1>6, <1>7 DEF PasswordKeepsThem
<1>13. QED BY <1>5, <1>8, <1>9, <1>10, <1>11, <1>12

(* A request that is not bound to fail has what it takes.                    *)
LEMMA MayServe ==
    ASSUME NEW op \in Op, BoundToFail(op) = {}
    PROVE  /\ op = "login" => mut[op].arg \in accounts
           /\ op \in LinkPage => <<op, mut[op].arg>> \in links
           /\ op \in NeedsSession => SessionOf(mut[op].tok) # None
<1>1. op \in NeedsSession <=> op \notin ByAddress BY OpFacts
<1>2. CASE op = "login" BY <1>1, <1>2 DEF BoundToFail, ByAddress, LinkPage
<1>3. CASE op \in LinkPage
  <2>1. op \notin NeedsSession /\ op # "login" /\ op # "signup"
      BY <1>1, <1>3 DEF ByAddress, LinkPage
  <2>2. QED BY <1>3, <2>1 DEF BoundToFail
<1>4. CASE op \in NeedsSession
  <2>1. op \notin LinkPage /\ op # "login" /\ op # "signup"
      BY <1>1, <1>4 DEF ByAddress
  <2>2. QED BY <1>4, <2>1 DEF BoundToFail
<1>5. QED BY <1>2, <1>3, <1>4

LEMMA AnswerFacts ==
    ASSUME mut \in [Op -> Request], NEW op \in Op, NEW user \in User \cup {None},
           NEW new \in Token \cup {None}, Answer(op, user, new)
    PROVE  /\ mut' \in [Op -> Request]
           /\ \A o \in Op : o # op => mut'[o] = mut[o]
           /\ mut'[op].stage = "answered" /\ mut'[op].code = "ok"
           /\ mut'[op].user = user /\ mut'[op].new = new
           /\ mut'[op].tok = mut[op].tok /\ mut'[op].arg = mut[op].arg
           /\ mut'[op].owned = mut[op].owned /\ mut'[op].watched = mut[op].watched
<1> DEFINE q == [mut[op] EXCEPT !.stage = "answered", !.code = "ok",
                                !.user = user, !.new = new]
<1>1. q \in Request BY DEF Request
<1>2. mut[op] \in Request OBVIOUS
<1>3. /\ q.stage = "answered" /\ q.code = "ok" /\ q.user = user /\ q.new = new
      /\ q.tok = mut[op].tok /\ q.arg = mut[op].arg
      /\ q.owned = mut[op].owned /\ q.watched = mut[op].watched
    BY <1>2 DEF Request
<1>4. mut' = [mut EXCEPT ![op] = q] BY DEF Answer
<1> HIDE DEF q
<1>5. mut' \in [Op -> Request] /\ mut'[op] = q
      /\ \A o \in Op : o # op => mut'[o] = mut[o]
    BY <1>1, <1>4
<1>6. QED BY <1>3, <1>5

LEMMA FreshFacts ==
    ASSUME NEW t \in Fresh
    PROVE  /\ t \in Token /\ sess[t] = None
           /\ t # jar /\ t # me.tok
           /\ \A o \in Op : t # mut[o].tok /\ t # mut[o].new
BY DEF Fresh

LEMMA RevokeFacts ==
    ASSUME sess \in [Token -> accounts \cup {None}], NEW a \in accounts,
           NEW t \in Token \cup {None}, Revoke(a, t)
    PROVE  /\ sess' \in [Token -> accounts \cup {None}]
           /\ \A s \in Token : s # t => sess'[s] = IF sess[s] = a THEN None ELSE sess[s]
           /\ t # None => sess'[t] = a
           /\ t = None => sess' \in [Token -> (accounts \ {a}) \cup {None}]
<1>1. ASSUME NEW s \in Token, s # t
      PROVE  sess'[s] = IF sess[s] = a THEN None ELSE sess[s]
    BY <1>1 DEF Revoke
<1>2. t # None => sess'[t] = a BY DEF Revoke
<1>3. sess' = [s \in Token |-> sess'[s]] BY DEF Revoke
<1>4. sess' \in [Token -> accounts \cup {None}]
  <2> SUFFICES ASSUME NEW s \in Token PROVE sess'[s] \in accounts \cup {None}
      BY <1>3
  <2>1. CASE s = t BY <1>2, <2>1, NoneAssumption
  <2>2. CASE s # t BY <1>1, <2>2
  <2>3. QED BY <2>1, <2>2
<1>5. t = None => sess' \in [Token -> (accounts \ {a}) \cup {None}]
  <2> SUFFICES ASSUME t = None, NEW s \in Token
               PROVE  sess'[s] \in (accounts \ {a}) \cup {None}
      BY <1>3
  <2>1. s # t BY NoneAssumption
  <2>2. QED BY <1>1, <2>1
<1>6. QED BY <1>1, <1>2, <1>4, <1>5

LEMMA MailFacts ==
    ASSUME NEW S, NEW kept \in SUBSET S, NEW l \in S, Mail(l, kept)
    PROVE  links' \subseteq S
BY DEF Mail

(* What serving a request does to the tables.                                *)
LEMMA ServeFacts ==
    ASSUME IInv, NEW op \in Op, Serve(op)
    PROVE  /\ Tables' /\ UNCHANGED <<jar, me, books, tab>>
           /\ \A o \in Op : o # op => mut'[o] = mut[o]
           /\ mut'[op].stage = "answered" /\ mut'[op].code = "ok"
           /\ mut'[op].tok = mut[op].tok /\ mut'[op].arg = mut[op].arg
           /\ mut'[op].owned = mut[op].owned /\ mut'[op].watched = mut[op].watched
           /\ mut'[op].new \in Fresh \cup {None}
           /\ \A s \in Token : s # mut'[op].new => sess'[s] \in {sess[s], None}
           /\ op \in {"login", "signup"} =>
                /\ mut'[op].user \in User /\ mut'[op].new \in Token
                /\ sess'[mut'[op].new] = mut'[op].user.id
           /\ op = "changePassword" =>
                /\ mut[op].tok \in Token /\ sess[mut[op].tok] # None
                /\ sess'[mut[op].tok] = None
                /\ mut'[op].new \in Token
                /\ sess'[mut'[op].new] = sess[mut[op].tok]
           /\ op = "changeEmail" =>
                /\ mut[op].tok \in Token /\ sess[mut[op].tok] # None
                /\ mut'[op].user \in User
                /\ mut'[op].user.id = sess[mut[op].tok] /\ sess' = sess
<1> USE DEF IInv, TypeOK, Tables
<1> DEFINE q == mut[op]
           a == IF op \in NeedsSession THEN SessionOf(q.tok) ELSE q.arg
           Goal(new, user) ==
                /\ Tables'
                /\ Answer(op, user, new)
                /\ new \in Fresh \cup {None} /\ user \in User \cup {None}
                /\ \A s \in Token : s # new => sess'[s] \in {sess[s], None}
                /\ op \in {"login", "signup"} =>
                    user \in User /\ new \in Token /\ sess'[new] = user.id
                /\ op = "changePassword" =>
                    /\ sess'[mut[op].tok] = None
                    /\ new \in Token /\ sess'[new] = a
                /\ op = "changeEmail" =>
                    user \in User /\ user.id = a /\ sess' = sess
<1>1. /\ mut[op].stage = "sent" /\ BoundToFail(op) = {}
      /\ UNCHANGED <<jar, me, books, tab>>
    BY DEF Serve
<1>2. /\ op \in NeedsSession <=> op \notin ByAddress
      /\ op \in {"signup", "login", "logout", "verifyEmail",
            "confirmEmailChange", "resetPassword", "resendVerification",
            "requestPasswordReset", "exportAccount", "deleteAccount",
            "changePassword", "changeEmail"}
    BY OpFacts
<1>3. q \in Request BY DEF Request
<1>4. op \in NeedsSession => q.tok \in Token /\ a = sess[q.tok] /\ a \in accounts
  <2>1. q.tok \in Token \cup {None} BY <1>3 DEF Request
  <2>2. op \in NeedsSession => SessionOf(q.tok) # None BY <1>1, MayServe
  <2>3. QED BY <2>1, <2>2 DEF SessionOf
<1>5. op \notin NeedsSession => a = q.arg /\ a \in Account
    BY <1>1, <1>2 DEF RequestsHold
<1>6. op = "login" => a \in accounts BY <1>1, <1>2, MayServe DEF ByAddress
<1>7. op \in LinkPage => <<op, a>> \in links /\ a \in accounts
  <2>1. op \in LinkPage => <<op, a>> \in links BY <1>1, <1>2, MayServe DEF ByAddress
  <2>2. QED BY <2>1
<1>8. PICK new \in Token \cup {None}, user \in User \cup {None} : Goal(new, user)
  <2>0. ASSUME Answer(op, None, None),
               op \notin {"login", "signup", "changePassword", "changeEmail"},
               verified' \subseteq accounts', accounts' \subseteq Account,
               links' \subseteq LinkPage \X accounts',
               sess' \in [Token -> accounts' \cup {None}],
               \A s \in Token : sess'[s] \in {sess[s], None}
        PROVE  Goal(None, None)
    <3>1. mut' \in [Op -> Request] BY <2>0, AnswerFacts
    <3>2. Tables' BY <1>1, <2>0, <3>1
    <3>3. QED BY <2>0, <3>2
  <2>1. CASE op = "signup"
    <3> DEFINE user == [id |-> a, emailVerified |-> FALSE]
    <3>1. PICK t \in Fresh : Begin(a, t) /\ Answer(op, user, t)
        BY <1>1, <2>1 DEF Serve
    <3>2. accounts' = accounts \cup {a} /\ verified' = verified
          /\ Mail(<<"verifyEmail", a>>, links)
        BY <1>1, <2>1 DEF Serve
    <3>3. a \in Account BY <1>2, <1>5, <2>1 DEF ByAddress
    <3>4. t \in Token BY FreshFacts
    <3>5. /\ sess' \in [Token -> accounts' \cup {None}] /\ sess'[t] = a
          /\ \A s \in Token : s # t => sess'[s] = sess[s]
        BY <3>1, <3>2, <3>4 DEF Begin
    <3>6. links' \subseteq LinkPage \X accounts'
      <4>1. links \in SUBSET (LinkPage \X accounts')
            /\ <<"verifyEmail", a>> \in LinkPage \X accounts'
          BY <3>2, OpFacts DEF Panel
      <4>2. QED BY <3>2, <4>1, MailFacts
    <3>7. Answer(op, user, t) /\ mut' \in [Op -> Request] /\ user \in User
        BY <3>1, <3>3, <3>4, AnswerFacts, UserFacts
    <3>8. Tables' BY <1>1, <3>2, <3>3, <3>5, <3>6, <3>7
    <3>9. Goal(t, user) BY <2>1, <3>4, <3>5, <3>7, <3>8
    <3> HIDE DEF Goal
    <3>10. QED BY <3>4, <3>7, <3>9
  <2>2. CASE op = "login"
    <3>1. PICK t \in Fresh : Begin(a, t) /\ Answer(op, UserResponse(a), t)
        BY <1>1, <2>2 DEF Serve
    <3>2. UNCHANGED <<accounts, verified, links>> BY <1>1, <2>2 DEF Serve
    <3>3. a \in Account BY <1>6, <2>2
    <3>4. t \in Token BY FreshFacts
    <3>5. /\ sess' \in [Token -> accounts' \cup {None}] /\ sess'[t] = a
          /\ \A s \in Token : s # t => sess'[s] = sess[s]
        BY <1>6, <2>2, <3>1, <3>2, <3>4 DEF Begin
    <3>6. /\ mut' \in [Op -> Request]
          /\ UserResponse(a) \in User /\ UserResponse(a).id = a
        BY <3>1, <3>3, <3>4, AnswerFacts, UserFacts
    <3>7. Tables' BY <1>1, <3>2, <3>5, <3>6
    <3>8. Goal(t, UserResponse(a)) BY <2>2, <3>1, <3>4, <3>5, <3>6, <3>7
    <3> HIDE DEF Goal
    <3>9. QED BY <3>4, <3>6, <3>8
  <2>3. CASE op = "logout"
    <3>1. /\ sess' = [sess EXCEPT ![q.tok] = None] /\ Answer(op, None, None)
          /\ UNCHANGED <<accounts, verified, links>>
        BY <1>1, <2>3 DEF Serve
    <3>2. /\ sess' \in [Token -> accounts \cup {None}]
          /\ \A s \in Token : sess'[s] \in {sess[s], None}
        BY <3>1
    <3>3. Goal(None, None) BY <2>0, <2>3, <3>1, <3>2
    <3> HIDE DEF Goal
    <3>4. QED BY <3>3
  <2>4. CASE op \in {"verifyEmail", "confirmEmailChange"}
    <3>1. /\ verified' = verified \cup {a} /\ links' = links \ {<<op, a>>}
          /\ Answer(op, None, None) /\ UNCHANGED <<accounts, sess>>
        BY <1>1, <2>4 DEF Serve
    <3>2. a \in accounts BY <1>7, <2>4 DEF LinkPage
    <3>3. Goal(None, None) BY <2>0, <2>4, <3>1, <3>2
    <3> HIDE DEF Goal
    <3>4. QED BY <3>3
  <2>5. CASE op = "resetPassword"
    <3>1. /\ verified' = verified \cup {a} /\ links' = links \ {<<op, a>>}
          /\ Revoke(a, None) /\ Answer(op, None, None) /\ UNCHANGED accounts
        BY <1>1, <2>5 DEF Serve
    <3>2. a \in accounts BY <1>7, <2>5 DEF LinkPage
    <3>3. /\ sess' \in [Token -> accounts \cup {None}]
          /\ \A s \in Token : sess'[s] \in {sess[s], None}
        BY <3>1, <3>2, RevokeFacts, NoneAssumption
    <3>4. Goal(None, None) BY <2>0, <2>5, <3>1, <3>2, <3>3
    <3> HIDE DEF Goal
    <3>5. QED BY <3>4
  <2>6. CASE op = "resendVerification"
    <3>1. /\ links' = links
             \/ Mail(<<"verifyEmail", a>>, links \ {<<"verifyEmail", a>>})
          /\ Answer(op, None, None) /\ UNCHANGED <<accounts, verified, sess>>
        BY <1>1, <2>6 DEF Serve
    <3>2. a \in accounts BY <1>2, <1>4, <2>6 DEF ByAddress, LinkPage
    <3>3. links' \subseteq LinkPage \X accounts
      <4>1. links \ {<<"verifyEmail", a>>} \in SUBSET (LinkPage \X accounts)
            /\ <<"verifyEmail", a>> \in LinkPage \X accounts
          BY <3>2, OpFacts DEF Panel
      <4>2. QED BY <3>1, <4>1, MailFacts
    <3>4. Goal(None, None) BY <2>0, <2>6, <3>1, <3>3
    <3> HIDE DEF Goal
    <3>5. QED BY <3>4
  <2>7. CASE op = "requestPasswordReset"
    <3>1. /\ links' = links
             \/ /\ a \in accounts
                /\ Mail(<<"resetPassword", a>>, links \ {<<"resetPassword", a>>})
          /\ Answer(op, None, None) /\ UNCHANGED <<accounts, verified, sess>>
        BY <1>1, <2>7 DEF Serve
    <3>2. links' \subseteq LinkPage \X accounts
      <4>1. CASE a \in accounts
        <5>1. links \ {<<"resetPassword", a>>} \in SUBSET (LinkPage \X accounts)
              /\ <<"resetPassword", a>> \in LinkPage \X accounts
            BY <4>1, OpFacts
        <5>2. QED BY <3>1, <5>1, MailFacts
      <4>2. CASE a \notin accounts BY <3>1, <4>2
      <4>3. QED BY <4>1, <4>2
    <3>3. Goal(None, None) BY <2>0, <2>7, <3>1, <3>2
    <3> HIDE DEF Goal
    <3>4. QED BY <3>3
  <2>8. CASE op = "exportAccount"
    <3>1. Answer(op, None, None) /\ UNCHANGED <<accounts, verified, links, sess>>
        BY <1>1, <2>8 DEF Serve, server
    <3>2. Goal(None, None) BY <2>0, <2>8, <3>1
    <3> HIDE DEF Goal
    <3>3. QED BY <3>2
  <2>9. CASE op = "deleteAccount"
    <3>1. /\ accounts' = accounts \ {a} /\ verified' = verified \ {a}
          /\ links' = {l \in links : l[2] # a}
          /\ Revoke(a, None) /\ Answer(op, None, None)
        BY <1>1, <2>9 DEF Serve
    <3>2. a \in accounts BY <1>2, <1>4, <2>9 DEF ByAddress, LinkPage
    <3>3. /\ sess' \in [Token -> accounts' \cup {None}]
          /\ \A s \in Token : sess'[s] \in {sess[s], None}
        BY <3>1, <3>2, RevokeFacts, NoneAssumption
    <3>4. links' \subseteq LinkPage \X accounts' BY <3>1
    <3>5. Goal(None, None) BY <2>0, <2>9, <3>1, <3>3, <3>4
    <3> HIDE DEF Goal
    <3>6. QED BY <3>5
  <2>10. CASE op = "changePassword"
    <3>1. links' = links \ {<<"resetPassword", a>>} /\ UNCHANGED <<accounts, verified>>
        BY <1>1, <2>10 DEF Serve
    <3>2. PICK t \in Fresh : Revoke(a, t) /\ Answer(op, None, t)
        BY <1>1, <2>10 DEF Serve
    <3>3. /\ a \in accounts /\ q.tok \in Token /\ a = sess[q.tok]
        BY <1>2, <1>4, <2>10 DEF ByAddress, LinkPage
    <3>4. t \in Token /\ t # q.tok BY FreshFacts
    <3>5. /\ sess' \in [Token -> accounts \cup {None}]
          /\ \A s \in Token : s # t => sess'[s] = IF sess[s] = a THEN None ELSE sess[s]
          /\ sess'[t] = a
        BY <3>2, <3>3, <3>4, RevokeFacts, NoneAssumption
    <3>6. mut' \in [Op -> Request] BY <3>2, <3>4, AnswerFacts
    <3>7. Tables' BY <1>1, <3>1, <3>5, <3>6
    <3>8. sess'[q.tok] = None /\ \A s \in Token : s # t => sess'[s] \in {sess[s], None}
        BY <3>3, <3>4, <3>5
    <3>9. Goal(t, None) BY <2>10, <3>2, <3>4, <3>5, <3>7, <3>8
    <3> HIDE DEF Goal
    <3>10. QED BY <3>4, <3>9
  <2>11. CASE op = "changeEmail"
    <3>1. /\ Mail(<<"confirmEmailChange", a>>, links \ {<<"confirmEmailChange", a>>})
          /\ Answer(op, UserResponse(a), None)
          /\ UNCHANGED <<accounts, verified, sess>>
        BY <1>1, <2>11 DEF Serve
    <3>2. a \in accounts /\ a \in Account
        BY <1>2, <1>4, <2>11 DEF ByAddress, LinkPage
    <3>3. links' \subseteq LinkPage \X accounts
      <4>1. links \ {<<"confirmEmailChange", a>>} \in SUBSET (LinkPage \X accounts)
            /\ <<"confirmEmailChange", a>> \in LinkPage \X accounts
          BY <3>2, OpFacts DEF Panel
      <4>2. QED BY <3>1, <4>1, MailFacts
    <3>4. /\ mut' \in [Op -> Request]
          /\ UserResponse(a) \in User /\ UserResponse(a).id = a
        BY <3>1, <3>2, AnswerFacts, UserFacts
    <3>5. Tables' BY <1>1, <3>1, <3>3, <3>4
    <3>6. Goal(None, UserResponse(a)) BY <2>11, <3>1, <3>4, <3>5
    <3> HIDE DEF Goal
    <3>7. QED BY <3>4, <3>6
  <2>12. QED
      BY <1>2, <2>1, <2>2, <2>3, <2>4, <2>5, <2>6, <2>7, <2>8, <2>9, <2>10, <2>11
<1>9. /\ \A o \in Op : o # op => mut'[o] = mut[o]
      /\ mut'[op].stage = "answered" /\ mut'[op].code = "ok"
      /\ mut'[op].user = user /\ mut'[op].new = new
      /\ mut'[op].tok = mut[op].tok /\ mut'[op].arg = mut[op].arg
      /\ mut'[op].owned = mut[op].owned /\ mut'[op].watched = mut[op].watched
    BY <1>8, AnswerFacts
<1>10. op \in {"changePassword", "changeEmail"} =>
        mut[op].tok \in Token /\ a = sess[mut[op].tok] /\ a # None
    BY <1>2, <1>4, NoneAssumption DEF ByAddress, LinkPage
<1>11. QED
  <2>1. Goal(new, user) BY <1>8
  <2> HIDE DEF q, a
  <2>2. QED BY <1>1, <1>9, <1>10, <2>1

(* Sessions that are held anywhere are not the new one.                      *)
LEMMA ServeStep ==
    ASSUME IInv, NEW op \in Op, Serve(op)
    PROVE  IInv'
<1> DEFINE new == mut'[op].new
           e == mut["changeEmail"]
           p == mut["changePassword"]
           Then(t, a) == t \in Token /\ sess'[t] \in {None, a}
<1>1. /\ Tables' /\ UNCHANGED <<jar, me, books, tab>>
      /\ \A o \in Op : o # op => mut'[o] = mut[o]
      /\ mut'[op].stage = "answered" /\ mut'[op].code = "ok"
      /\ mut'[op].tok = mut[op].tok /\ mut'[op].arg = mut[op].arg
      /\ mut'[op].owned = mut[op].owned /\ mut'[op].watched = mut[op].watched
      /\ new \in Fresh \cup {None}
      /\ \A s \in Token : s # new => sess'[s] \in {sess[s], None}
    BY ServeFacts
<1>2. /\ op \in {"login", "signup"} =>
            /\ mut'[op].user \in User /\ new \in Token
            /\ sess'[new] = mut'[op].user.id
      /\ op = "changePassword" =>
            /\ mut[op].tok \in Token /\ sess[mut[op].tok] # None
            /\ sess'[mut[op].tok] = None
            /\ new \in Token
            /\ sess'[new] = sess[mut[op].tok]
      /\ op = "changeEmail" =>
            /\ mut[op].tok \in Token /\ sess[mut[op].tok] # None
            /\ mut'[op].user \in User
            /\ mut'[op].user.id = sess[mut[op].tok] /\ sess' = sess
    BY ServeFacts
<1>3. mut[op].stage = "sent" BY DEF Serve
<1> USE DEF IInv, TypeOK
<1>4. /\ new # None => /\ new # jar /\ new # me.tok
                       /\ \A o \in Op : new # mut[o].tok /\ new # mut[o].new
    BY <1>1, FreshFacts
<1>5. \A t, a : Of(t, a) /\ t # new => Then(t, a) BY <1>1 DEF Of
<1>6. \A o : Answered(o)' <=> Answered(o) \/ o = op
    BY <1>1, <1>3 DEF Answered
<1>7. OnScreen' BY <1>1 DEF OnScreen
<1>8. RequestsHold' BY <1>1, <1>3 DEF RequestsHold
<1>9. NewIsNowhere' BY <1>1, <1>4 DEF NewIsNowhere
<1>10. ASSUME NEW o \in Op
       PROVE  o # op => /\ mut'[o] = mut[o]
                        /\ mut[o].tok \in Token => new # mut[o].tok
                        /\ mut[o].new \in Token => new # mut[o].new
    BY <1>1, <1>4, NoneAssumption
<1>11. AnswersHold'
  <2>1. ASSUME NEW o \in {"login", "signup"}, Answered(o)'
        PROVE  mut'[o].user \in User /\ Then(mut'[o].new, mut'[o].user.id)
    <3>1. CASE o = op BY <1>2, <3>1 DEF Of
    <3>2. CASE o # op
      <4>1. Answered(o) /\ o \in Op BY <1>6, <2>1, <3>2 DEF Answered
      <4>2. mut[o].user \in User /\ Of(mut[o].new, mut[o].user.id)
          BY <4>1 DEF AnswersHold
      <4>3. QED BY <1>5, <1>10, <3>2, <4>1, <4>2 DEF Of
    <3>3. QED BY <3>1, <3>2
  <2>2. ASSUME Answered("changePassword")'
        PROVE  LET q == mut'["changePassword"] IN
               q.new \in Token /\ q.tok \in Token /\ sess'[q.tok] = None
    <3>1. CASE op = "changePassword" BY <1>1, <1>2, <3>1
    <3>2. CASE op # "changePassword"
      <4>1. Answered("changePassword") /\ "changePassword" \in Op
          BY <1>6, <2>2, <3>2 DEF Answered
      <4>2. p.new \in Token /\ p.tok \in Token /\ sess[p.tok] = None
          BY <4>1 DEF AnswersHold
      <4>3. QED BY <1>1, <1>10, <3>2, <4>1, <4>2
    <3>3. QED BY <3>1, <3>2
  <2>3. ASSUME Answered("changeEmail")'
        PROVE  LET q == mut'["changeEmail"] IN
               q.user \in User /\ Then(q.tok, q.user.id)
    <3>1. CASE op = "changeEmail" BY <1>1, <1>2, <3>1 DEF Of
    <3>2. CASE op # "changeEmail"
      <4>1. Answered("changeEmail") /\ "changeEmail" \in Op
          BY <1>6, <2>3, <3>2 DEF Answered
      <4>2. e.user \in User /\ Of(e.tok, e.user.id) BY <4>1 DEF AnswersHold
      <4>3. QED BY <1>5, <1>10, <3>2, <4>1, <4>2 DEF Of
    <3>3. QED BY <3>1, <3>2
  <2>4. QED BY <2>1, <2>2, <2>3 DEF AnswersHold, Of
<1>12. ShownIsOfJar'
    BY <1>1, <1>4, <1>5, NoneAssumption DEF ShownIsOfJar, Of
<1>13. FetchedIsOfJar'
    BY <1>1, <1>4, <1>5, NoneAssumption DEF FetchedIsOfJar, Of
<1>14. PasswordKeepsThem'
  <2> SUFFICES ASSUME Answered("changePassword")'
               PROVE  LET q == mut'["changePassword"]
                          c == mut'["changeEmail"]
                      IN
                      /\ q.tok = jar /\ ~me.crossed /\ Named(me.data) =>
                            Then(q.new, me.data.id)
                      /\ q.tok = jar /\ me.clean /\ me.fetch = "answered"
                            /\ me.got # None => Then(q.new, me.got.id)
                      /\ Answered("changeEmail")' /\ c.tok = q.tok =>
                            Then(q.new, c.user.id)
      BY <1>1 DEF PasswordKeepsThem, Of
  <2>1. CASE op = "changePassword"
    <3>1. new \in Token /\ sess'[new] = sess[p.tok] /\ sess[p.tok] # None
          /\ mut'[op].tok = p.tok
        BY <1>1, <1>2, <2>1
    <3>2. \A a : Of(p.tok, a) => Then(new, a) BY <3>1 DEF Of
    <3>3. Answered("changeEmail")' => Of(e.tok, e.user.id)
          /\ mut'["changeEmail"] = e
        BY <1>6, <1>10, <2>1 DEF AnswersHold, Answered
    <3>4. QED BY <2>1, <3>1, <3>2, <3>3 DEF ShownIsOfJar, FetchedIsOfJar
  <2>2. CASE op # "changePassword"
    <3>1. Answered("changePassword") /\ "changePassword" \in Op
        BY <1>6, <2>2 DEF Answered
    <3>2. p.new \in Token /\ p.new # new /\ sess[p.tok] = None
          /\ mut'["changePassword"] = p
        BY <1>10, <2>2, <3>1 DEF AnswersHold
    <3>3. \A a : Of(p.new, a) => Then(p.new, a) BY <1>5, <3>2
    <3>4. Answered("changeEmail")' /\ mut'["changeEmail"].tok = p.tok =>
            Answered("changeEmail") /\ mut'["changeEmail"] = e
      <4>1. CASE op = "changeEmail" BY <1>1, <1>2, <3>2, <4>1
      <4>2. CASE op # "changeEmail" BY <1>6, <1>10, <4>2 DEF Answered
      <4>3. QED BY <4>1, <4>2
    <3>5. QED BY <3>1, <3>2, <3>3, <3>4 DEF PasswordKeepsThem
  <2>3. QED BY <2>1, <2>2
<1>15. QED BY <1>1, <1>7, <1>8, <1>9, <1>11, <1>12, <1>13, <1>14

-------------------------------------------------------------------------------
(* Failures                                                                  *)

(* The codes that only some mutations are refused with; and of any.          *)
Inline(op) ==
    CASE op = "signup" -> {"USERNAME_TAKEN", "EMAIL_TAKEN"}
      [] op \in {"deleteAccount", "changePassword"} -> {"INVALID_PASSWORD"}
      [] op = "changeEmail" ->
            {"INVALID_PASSWORD", "EMAIL_TAKEN", "EMAIL_UNCHANGED"}
      [] op = "confirmEmailChange" -> {"EMAIL_TAKEN"}
      [] OTHER -> {}

Seen(op) ==
    {"unknown_error", "UNAUTHENTICATED", "CSRF_FAILED", "VALIDATION_ERROR",
     "RATE_LIMITED", "INVALID_CREDENTIALS", "INVALID_TOKEN"} \cup Inline(op)

(* A failure is declared, or one that any request can end with.              *)
LEMMA FailureKinds ==
    ASSUME NEW op, NEW contract, NEW f \in Failures(op, contract)
    PROVE  \/ f = NoAnswer \/ f = Unforeseen
           \/ \E s \in contract.fails : \E code \in DeclaredCodes(op, s) :
                f = Refusal(s, code)
           \/ f = Refusal(401, "UNAUTHENTICATED")
           \/ f = Refusal(403, "CSRF_FAILED")
<1>1. f \in {NoAnswer, Unforeseen} \/ f \in DeclaredFailures(op, contract)
        \/ f \in SessionFailures(op)
    BY DEF Failures
<1>2. f \in DeclaredFailures(op, contract) =>
        \E s \in contract.fails : \E code \in DeclaredCodes(op, s) :
            f = Refusal(s, code)
    BY DEF DeclaredFailures
<1>3. f \in SessionFailures(op) => \/ f = Refusal(401, "UNAUTHENTICATED")
                                  \/ f = Refusal(403, "CSRF_FAILED")
    BY DEF SessionFailures
<1>4. QED BY <1>1, <1>2, <1>3

(* The declared failures of each mutation.                                   *)
LEMMA DeclaredFacts ==
    ASSUME NEW op \in Op
    PROVE  /\ AuthContract[op].fails \subseteq {400, 401, 403, 409, 422, 429}
           /\ 409 \in AuthContract[op].fails =>
                op \in {"signup", "changeEmail", "confirmEmailChange"}
<1> USE DEF AuthContract
<1>1. CASE op = "signup" BY <1>1 DEF signup_v1_auth_signup_post
<1>2. CASE op = "login" BY <1>2 DEF login_v1_auth_login_post
<1>3. CASE op = "logout" BY <1>3 DEF logout_v1_auth_logout_post
<1>4. CASE op = "verifyEmail" BY <1>4 DEF verify_email_v1_auth_verify_email_post
<1>5. CASE op = "confirmEmailChange"
    BY <1>5 DEF confirm_email_change_v1_auth_email_change_confirm_post
<1>6. CASE op = "resetPassword"
    BY <1>6 DEF confirm_password_reset_v1_auth_password_reset_confirm_post
<1>7. CASE op = "resendVerification"
    BY <1>7 DEF resend_verification_v1_auth_resend_verification_post
<1>8. CASE op = "requestPasswordReset"
    BY <1>8 DEF request_password_reset_v1_auth_password_reset_post
<1>9. CASE op = "exportAccount" BY <1>9 DEF export_account_v1_account_export_get
<1>10. CASE op = "deleteAccount" BY <1>10 DEF delete_account_v1_account_delete
<1>11. CASE op = "changePassword"
    BY <1>11 DEF change_password_v1_account_password_put
<1>12. CASE op = "changeEmail" BY <1>12 DEF change_email_v1_account_email_put
<1>13. QED
    BY <1>1, <1>2, <1>3, <1>4, <1>5, <1>6, <1>7, <1>8, <1>9, <1>10, <1>11, <1>12,
       OpFacts

LEMMA DeclaredCodesFacts ==
    ASSUME NEW op \in Op, NEW s \in AuthContract[op].fails
    PROVE  DeclaredCodes(op, s) \subseteq Seen(op)
<1>1. s \in {400, 401, 403, 409, 422, 429} BY DeclaredFacts
<1>2. CASE s = 400 BY <1>2 DEF DeclaredCodes, Seen
<1>3. CASE s = 401 BY <1>3 DEF DeclaredCodes, Seen
<1>4. CASE s = 403
  <2>1. op \notin BookOp BY OpFacts DEF BookOp, BookContract
  <2>2. CASE op \in {"deleteAccount", "changePassword"}
    <3>1. Inline(op) = {"INVALID_PASSWORD"} BY <2>2 DEF Inline
    <3>2. DeclaredCodes(op, s) \subseteq {"CSRF_FAILED", "INVALID_PASSWORD"}
        BY <1>4, <2>1, <2>2 DEF DeclaredCodes
    <3>3. QED BY <3>1, <3>2 DEF Seen
  <2>3. CASE op = "changeEmail"
    <3>1. "INVALID_PASSWORD" \in Inline(op) BY <2>3 DEF Inline
    <3>2. DeclaredCodes(op, s) \subseteq {"CSRF_FAILED", "INVALID_PASSWORD"}
        BY <1>4, <2>1, <2>3 DEF DeclaredCodes
    <3>3. QED BY <3>1, <3>2 DEF Seen
  <2>4. CASE op \notin {"deleteAccount", "changePassword", "changeEmail"}
    <3>1. DeclaredCodes(op, s) = {"CSRF_FAILED"}
        BY <1>4, <2>1, <2>4 DEF DeclaredCodes
    <3>2. QED BY <3>1 DEF Seen
  <2>5. QED BY <2>2, <2>3, <2>4
<1>5. CASE s = 409
  <2>1. op \in {"signup", "changeEmail", "confirmEmailChange"}
      BY <1>5, DeclaredFacts
  <2>2. CASE op = "signup" BY <1>5, <2>2 DEF DeclaredCodes, Seen, Inline
  <2>3. CASE op = "changeEmail" BY <1>5, <2>3 DEF DeclaredCodes, Seen, Inline
  <2>4. CASE op = "confirmEmailChange"
      BY <1>5, <2>4 DEF DeclaredCodes, Seen, Inline
  <2>5. QED BY <2>1, <2>2, <2>3, <2>4
<1>6. CASE s = 422 BY <1>6 DEF DeclaredCodes, Seen
<1>7. CASE s = 429 BY <1>7 DEF DeclaredCodes, Seen
<1>8. QED BY <1>1, <1>2, <1>3, <1>4, <1>5, <1>6, <1>7

LEMMA CodesFacts ==
    ASSUME NEW op \in Op
    PROVE  Codes(op) \subseteq Seen(op)
<1> DEFINE contract == AuthContract[op]
<1> SUFFICES ASSUME NEW f \in Failures(op, contract)
             PROVE  toApiError(f) \in Seen(op)
    BY DEF Codes
<1>1. CASE f = NoAnswer BY <1>1 DEF NoAnswer, toApiError, Seen
<1>2. CASE f = Unforeseen BY <1>2 DEF Unforeseen, toApiError, Seen
<1>3. ASSUME NEW s, NEW code \in Seen(op), f = Refusal(s, code)
      PROVE  toApiError(f) \in Seen(op)
  <2>1. f.body = "ErrorResponse" /\ f.errorCode = code BY <1>3 DEF Refusal
  <2>2. QED BY <2>1 DEF toApiError
<1>4. {"UNAUTHENTICATED", "CSRF_FAILED"} \subseteq Seen(op) BY DEF Seen
<1>5. \/ f = NoAnswer \/ f = Unforeseen
      \/ \E s \in contract.fails : \E code \in DeclaredCodes(op, s) :
            f = Refusal(s, code)
      \/ f = Refusal(401, "UNAUTHENTICATED")
      \/ f = Refusal(403, "CSRF_FAILED")
    BY FailureKinds
<1>6. ASSUME NEW s \in contract.fails, NEW code \in DeclaredCodes(op, s),
             f = Refusal(s, code)
      PROVE  toApiError(f) \in Seen(op)
    BY <1>3, <1>6, DeclaredCodesFacts
<1>7. QED BY <1>1, <1>2, <1>3, <1>4, <1>5, <1>6

LEMMA RefusalFacts ==
    ASSUME NEW op \in Op
    PROVE  Refusals(op) \subseteq Seen(op) /\ "ok" \notin Seen(op)
<1>1. BoundToFail(op) \subseteq Seen(op)
  <2>1. op \in NeedsSession <=> op \notin ByAddress BY OpFacts
  <2>2. CASE op = "login"
      BY <2>1, <2>2 DEF BoundToFail, Seen, ByAddress, LinkPage
  <2>3. CASE op = "signup"
      BY <2>1, <2>3 DEF BoundToFail, Seen, Inline, ByAddress, LinkPage
  <2>4. CASE op \in LinkPage
    <3>1. op \notin NeedsSession /\ op # "login" /\ op # "signup"
        BY <2>1, <2>4 DEF ByAddress, LinkPage
    <3>2. BoundToFail(op) \subseteq {"INVALID_TOKEN"}
        BY <2>4, <3>1 DEF BoundToFail
    <3>3. QED BY <3>2 DEF Seen
  <2>5. CASE op \in NeedsSession
    <3>1. op \notin LinkPage /\ op # "login" /\ op # "signup"
        BY <2>1, <2>5 DEF ByAddress
    <3>2. BoundToFail(op) \subseteq {"CSRF_FAILED", "UNAUTHENTICATED"}
        BY <2>5, <3>1 DEF BoundToFail
    <3>3. QED BY <3>2 DEF Seen
  <2>6. CASE op = "requestPasswordReset"
      BY <2>1, <2>6 DEF BoundToFail, ByAddress, LinkPage
  <2>7. QED BY <2>1, <2>2, <2>3, <2>4, <2>5, <2>6 DEF ByAddress
<1>2. Refusals(op) \subseteq Seen(op)
  <2>1. "unknown_error" \in Seen(op) BY DEF Seen
  <2>2. QED BY <1>1, <2>1, CodesFacts DEF Refusals
<1>3. "ok" \notin Seen(op)
  <2>1. "ok" \notin Inline(op)
    <3>1. CASE op = "signup" BY <3>1 DEF Inline
    <3>2. CASE op \in {"deleteAccount", "changePassword"} BY <3>2 DEF Inline
    <3>3. CASE op = "changeEmail" BY <3>3 DEF Inline
    <3>4. CASE op = "confirmEmailChange" BY <3>4 DEF Inline
    <3>5. CASE op \notin {"signup", "deleteAccount", "changePassword",
                          "changeEmail", "confirmEmailChange"}
        BY <3>5 DEF Inline
    <3>6. QED BY <3>1, <3>2, <3>3, <3>4, <3>5
  <2>2. QED BY <2>1 DEF Seen
<1>4. QED BY <1>2, <1>3

(* What becomes of a request as the tab sees it.                             *)
LEMMA OutcomeFacts ==
    ASSUME IInv, NEW op \in Op, NEW q \in Outcomes(op)
    PROVE  /\ q.owned = mut[op].owned /\ q.watched = mut[op].watched
           /\ q.code = "ok" => q = mut[op] /\ mut[op].stage = "answered"
           /\ q.code # "ok" => q.code \in Seen(op)
<1>1. mut[op] \in Request BY DEF IInv, TypeOK, Tables
<1>2. ASSUME NEW code, q = [mut[op] EXCEPT !.code = code]
      PROVE  q.owned = mut[op].owned /\ q.watched = mut[op].watched /\ q.code = code
    BY <1>1, <1>2 DEF Request
<1>3. CASE mut[op].stage = "answered"
  <2>1. q = mut[op] \/ q = [mut[op] EXCEPT !.code = "unknown_error"]
      BY <1>3 DEF Outcomes
  <2>2. mut[op].code = "ok" BY <1>3 DEF IInv, RequestsHold
  <2>3. "unknown_error" \in Seen(op) BY DEF Seen
  <2>4. QED BY <1>2, <1>3, <2>1, <2>2, <2>3
<1>4. CASE mut[op].stage = "sent"
  <2>1. PICK code \in Refusals(op) : q = [mut[op] EXCEPT !.code = code]
      BY <1>4 DEF Outcomes
  <2>2. QED BY <1>2, <2>1, RefusalFacts
<1>5. mut[op].stage \in {"answered", "sent"} BY DEF Outcomes
<1>6. QED BY <1>3, <1>4, <1>5

(* A code belongs to a field exactly when it raises no toast.                *)
LEMMA FieldFacts ==
    ASSUME NEW op \in Op \ Panel, NEW code \in Seen(op)
    PROVE  FieldFor(op, code) # "none" <=> code \in INLINE_FIELD_ERROR_CODES
<1> USE DEF Seen, INLINE_FIELD_ERROR_CODES, FieldFor
<1>1. CASE op = "signup"
    BY <1>1 DEF Inline, signupFieldForError
<1>2. CASE op = "deleteAccount"
    BY <1>2 DEF Inline, deleteAccountFieldForError
<1>3. CASE op = "changePassword"
    BY <1>3 DEF Inline, changePasswordFieldForError
<1>4. CASE op = "changeEmail"
    BY <1>4 DEF Inline, changeEmailFieldForError
<1>5. CASE op \notin {"signup", "deleteAccount", "changePassword", "changeEmail"}
  <2>1. Inline(op) = {} BY <1>5 DEF Inline, Panel
  <2>2. FieldFor(op, code) = "none" BY <1>5
  <2>3. QED BY <2>1, <2>2
<1>6. QED BY <1>1, <1>2, <1>3, <1>4, <1>5

LEMMA ShownOnce ==
    ASSUME IInv, NEW op \in Op, NEW q \in Outcomes(op), q.watched, q.code # "ok"
    PROVE  Cardinality(ShownBy(op, q)) = 1
<1>1. q.code \in Seen(op) BY OutcomeFacts
<1>2. CASE op \in Panel
  <2>1. ~Toasts(op, q.code) BY <1>2 DEF Toasts, SuppressErrorToast, Panel
  <2>2. FieldFor(op, q.code) = "none" BY <1>2 DEF FieldFor, Panel
  <2>3. ShownBy(op, q) = {"panel"} BY <1>2, <2>1, <2>2 DEF ShownBy, Panel
  <2>4. QED BY <2>3, FS_Singleton
<1>3. CASE op \notin Panel
  <2>1. Toasts(op, q.code) <=> q.code \notin INLINE_FIELD_ERROR_CODES
      BY <1>3 DEF Toasts, SuppressErrorToast, Panel
  <2>2. CASE q.code \in INLINE_FIELD_ERROR_CODES
    <3>1. FieldFor(op, q.code) # "none" BY <1>1, <1>3, <2>2, FieldFacts
    <3>2. ShownBy(op, q) = {"field"} BY <1>3, <2>1, <2>2, <3>1 DEF ShownBy, Panel
    <3>3. QED BY <3>2, FS_Singleton
  <2>3. CASE q.code \notin INLINE_FIELD_ERROR_CODES
    <3>1. FieldFor(op, q.code) = "none" BY <1>1, <1>3, <2>3, FieldFacts
    <3>2. ShownBy(op, q) = {"toast"} BY <1>3, <2>1, <2>3, <3>1 DEF ShownBy, Panel
    <3>3. QED BY <3>2, FS_Singleton
  <2>4. QED BY <2>2, <2>3
<1>4. QED BY <1>2, <1>3

-------------------------------------------------------------------------------
(* Answers that arrive                                                       *)

LEMMA CallbackFacts ==
    ASSUME NEW t \in Location, NEW op \in Op
    PROVE  LET s == CallbackOnSuccess(op, t)
               e == CallbackOnError(op, t)
           IN
           /\ s \in Location /\ s.page = t.page /\ s.link = t.link
           /\ s.hasSubmitted = t.hasSubmitted
           /\ op \notin Panel => s.phase = t.phase
           /\ e \in Location /\ e.page = t.page /\ e.link = t.link
           /\ e.hasSubmitted = t.hasSubmitted
           /\ op \notin Panel => e.phase = t.phase
<1> DEFINE to == IF t.from = None THEN "home" ELSE t.from
<1>1. to \in Page /\ "home" \in Page /\ "account" \in Page
    BY OpFacts DEF Location
<1>2. /\ [t EXCEPT !.nav = Leave(to)] \in Location
      /\ [t EXCEPT !.nav = Leave("account")] \in Location
      /\ [t EXCEPT !.nav = Leave("home")] \in Location
      /\ [t EXCEPT !.dialog = None, !.nav = Leave("home")] \in Location
      /\ [t EXCEPT !.dialog = None] \in Location
      /\ [t EXCEPT !.phase = "ok"] \in Location
      /\ [t EXCEPT !.phase = "invalid"] \in Location
    BY <1>1 DEF Location, Leave
<1> DEFINE Same(s) == /\ s.page = t.page /\ s.link = t.link
                      /\ s.hasSubmitted = t.hasSubmitted
<1>3. /\ Same([t EXCEPT !.nav = Leave(to)])
      /\ Same([t EXCEPT !.nav = Leave("account")])
      /\ Same([t EXCEPT !.nav = Leave("home")])
      /\ Same([t EXCEPT !.dialog = None, !.nav = Leave("home")])
      /\ Same([t EXCEPT !.dialog = None])
      /\ Same([t EXCEPT !.phase = "ok"])
      /\ Same([t EXCEPT !.phase = "invalid"])
      /\ Same(t)
    BY DEF Location
<1>4. /\ [t EXCEPT !.nav = Leave(to)].phase = t.phase
      /\ [t EXCEPT !.nav = Leave("account")].phase = t.phase
      /\ [t EXCEPT !.nav = Leave("home")].phase = t.phase
      /\ [t EXCEPT !.dialog = None, !.nav = Leave("home")].phase = t.phase
      /\ [t EXCEPT !.dialog = None].phase = t.phase
    BY DEF Location
<1>5. \/ CallbackOnSuccess(op, t) \in
            {[t EXCEPT !.nav = Leave(to)], [t EXCEPT !.nav = Leave("account")],
             [t EXCEPT !.nav = Leave("home")],
             [t EXCEPT !.dialog = None, !.nav = Leave("home")],
             [t EXCEPT !.dialog = None], t}
      \/ op \in Panel /\ CallbackOnSuccess(op, t) = [t EXCEPT !.phase = "ok"]
    BY DEF CallbackOnSuccess, Panel
<1>6. \/ op \notin Panel /\ CallbackOnError(op, t) = t
      \/ op \in Panel /\ CallbackOnError(op, t) = [t EXCEPT !.phase = "invalid"]
    BY DEF CallbackOnError, Panel
<1> HIDE DEF to, Same
<1>7. /\ CallbackOnSuccess(op, t) \in Location /\ Same(CallbackOnSuccess(op, t))
      /\ op \notin Panel => CallbackOnSuccess(op, t).phase = t.phase
    BY <1>2, <1>3, <1>4, <1>5
<1>8. /\ CallbackOnError(op, t) \in Location /\ Same(CallbackOnError(op, t))
      /\ op \notin Panel => CallbackOnError(op, t).phase = t.phase
    BY <1>2, <1>3, <1>6
<1>9. QED BY <1>7, <1>8 DEF Same

(* The request is over, and the screen is as it was but for a panel.         *)
LEMMA ReceiveFacts ==
    ASSUME IInv, NEW op \in Op, NEW q \in Outcomes(op), Receive(op, q)
    PROVE  /\ UNCHANGED <<accounts, verified, links, sess, books>>
           /\ mut' \in [Op -> Request] /\ NoNewAnswer(mut')
           /\ \A o \in Op : o # op => mut'[o] = mut[o]
           /\ mut'[op].stage \in {"idle", "done"} /\ mut'[op].new = None
           /\ mut'[op].tok = None
           /\ tab' \in Location /\ tab'.page = tab.page /\ tab'.link = tab.link
           /\ tab'.hasSubmitted = tab.hasSubmitted
           /\ ~(op \in Panel /\ mut[op].owned) => tab'.phase = tab.phase
           /\ OnScreen' /\ RequestsHold'
<1> USE DEF IInv, TypeOK, Tables
<1>1. UNCHANGED <<accounts, verified, links, sess, books>>
    BY DEF Receive, server
<1>2. PICK r \in {NoRequest, [NoRequest EXCEPT !.stage = "done"]} :
            mut' = [mut EXCEPT ![op] = r]
    BY DEF Receive
<1>3. /\ r \in Request /\ r.stage \in {"idle", "done"} /\ r.new = None
      /\ r.tok = None /\ ~r.owned /\ ~r.watched
    BY NoRequestFacts, DoneFacts
<1>4. /\ mut' \in [Op -> Request] /\ mut'[op] = r
      /\ \A o \in Op : o # op => mut'[o] = mut[o]
    BY <1>2, <1>3
<1>5. NoNewAnswer(mut') BY <1>3, <1>4 DEF NoNewAnswer, RequestsHold
<1>6. tab' \in {tab} \cup (IF mut[op].owned
                           THEN {CallbackOnSuccess(op, tab), CallbackOnError(op, tab)}
                           ELSE {})
    BY OutcomeFacts DEF Receive
<1>7. /\ tab' \in Location /\ tab'.page = tab.page /\ tab'.link = tab.link
      /\ tab'.hasSubmitted = tab.hasSubmitted
      /\ ~(op \in Panel /\ mut[op].owned) => tab'.phase = tab.phase
    BY <1>6, CallbackFacts
<1>8. op \in Panel /\ mut[op].owned =>
        /\ tab.hasSubmitted
        /\ \A o \in Panel \cap Op : mut[o].owned => o = op
    BY DEF RequestsHold, OnScreen, Panel, OwnerPage
<1>9. OnScreen' BY <1>3, <1>4, <1>7, <1>8 DEF OnScreen
<1>10. RequestsHold' BY <1>3, <1>4, <1>7, <1>8 DEF RequestsHold
<1>11. QED BY <1>1, <1>3, <1>4, <1>5, <1>7, <1>9, <1>10

(* The answers that still wait stay right, whatever the cookie becomes.      *)
LEMMA OthersKept ==
    ASSUME IInv, NEW op \in Op, UNCHANGED sess,
           NoNewAnswer(mut'), \A o \in Op : o # op => mut'[o] = mut[o],
           mut'[op].stage # "answered", mut'[op].new = None, mut'[op].tok = None,
           jar' \in {jar, None, mut[op].new}, me'.tok \in {me.tok, jar, None}
    PROVE  /\ AnswersHold' /\ NewIsNowhere'
           /\ \A o : Answered(o)' <=> Answered(o) /\ o # op
           /\ \A t, a : Of(t, a)' <=> Of(t, a)
<1>1. \A o : Answered(o)' <=> Answered(o) /\ o # op BY DEF Answered
<1>2. \A t, a : Of(t, a)' <=> Of(t, a) BY DEF Of
<1>3. \A o : Answered(o) => o \in Op BY DEF Answered
<1>4. AnswersHold' BY <1>1, <1>2, <1>3 DEF IInv, AnswersHold
<1>5. NewIsNowhere' BY DEF IInv, NewIsNowhere
<1>6. QED BY <1>1, <1>2, <1>4, <1>5

LEMMA SettleStep ==
    ASSUME IInv, NEW op \in Op, Settle(op)
    PROVE  IInv'
<1> DEFINE p == mut["changePassword"]
           e == mut["changeEmail"]
<1>1. PICK q \in Outcomes(op) : Receive(op, q) BY DEF Settle
<1>2. /\ UNCHANGED <<accounts, verified, links, sess, books>>
      /\ mut' \in [Op -> Request] /\ NoNewAnswer(mut')
      /\ \A o \in Op : o # op => mut'[o] = mut[o]
      /\ mut'[op].stage # "answered" /\ mut'[op].new = None /\ mut'[op].tok = None
      /\ tab' \in Location /\ OnScreen' /\ RequestsHold'
    BY <1>1, ReceiveFacts
<1>3. /\ me \in Identity /\ jar \in Token \cup {None} /\ mut[op] \in Request
      /\ verified \subseteq accounts /\ accounts \subseteq Account
      /\ links \subseteq LinkPage \X accounts
      /\ sess \in [Token -> accounts \cup {None}] /\ books \in Account \cup {None}
    BY DEF IInv, TypeOK, Tables
<1>4. /\ op \in {"login", "signup"} /\ mut[op].stage = "answered" =>
            /\ mut[op].user \in User /\ Of(mut[op].new, mut[op].user.id)
            /\ mut[op].new # None /\ mut[op].new # jar
      /\ op = "changePassword" /\ mut[op].stage = "answered" =>
            mut[op].new \in Token /\ mut[op].tok \in Token /\ sess[mut[op].tok] = None
      /\ op = "changeEmail" /\ mut[op].stage = "answered" =>
            mut[op].user \in User /\ Of(mut[op].tok, mut[op].user.id)
    BY NoneAssumption DEF IInv, AnswersHold, NewIsNowhere, Answered, Of
<1>5. ASSUME me' \in Identity, jar' \in Token \cup {None},
             jar' \in {jar, None, mut[op].new}, me'.tok \in {me.tok, jar, None},
             ShownIsOfJar', FetchedIsOfJar', PasswordKeepsThem'
      PROVE  IInv'
  <2>1. Tables' BY <1>2, <1>3, <1>5 DEF Tables
  <2>2. AnswersHold' /\ NewIsNowhere' BY <1>2, <1>5, OthersKept
  <2>3. QED BY <1>2, <1>5, <2>1, <2>2 DEF IInv, TypeOK
<1>6. CASE q.code # "ok"
  <2>1. UNCHANGED <<jar, me>> BY <1>1, <1>6 DEF Receive, Cookies
  <2>2. Tables' BY <1>2, <1>3, <2>1 DEF Tables
  <2>3. QED BY <1>2, <2>1, <2>2, AnswersKept DEF IInv, TypeOK
<1>7. CASE q.code = "ok"
  <2>1. /\ q = mut[op] /\ mut[op].stage = "answered"
        /\ jar' = Cookies(op, q) /\ HookOnSuccess(op, q)
      BY <1>1, <1>7, OutcomeFacts DEF Receive
  <2>2. ASSUME jar' \in {jar, None, mut[op].new}, me'.tok \in {me.tok, jar, None}
        PROVE  /\ \A t, a : Of(t, a)' <=> Of(t, a)
               /\ Answered("changePassword")' =>
                    /\ Answered("changePassword") /\ op # "changePassword"
                    /\ mut'["changePassword"] = p /\ p.tok \in Token
                    /\ mut[op].new # p.tok
                    /\ Answered("changeEmail")' /\ mut'["changeEmail"].tok = p.tok
                        => Of(p.new, mut'["changeEmail"].user.id)
    <3>1. /\ \A o : Answered(o)' <=> Answered(o) /\ o # op
          /\ \A t, a : Of(t, a)' <=> Of(t, a)
        BY <1>2, <2>2, OthersKept
    <3>2. SUFFICES ASSUME Answered("changePassword")'
                   PROVE  /\ Answered("changePassword") /\ op # "changePassword"
                          /\ mut'["changePassword"] = p /\ p.tok \in Token
                          /\ mut[op].new # p.tok
                          /\ Answered("changeEmail")' /\ mut'["changeEmail"].tok = p.tok
                                => Of(p.new, mut'["changeEmail"].user.id)
        BY <3>1
    <3>3. /\ Answered("changePassword") /\ op # "changePassword"
          /\ "changePassword" \in Op
        BY <3>1, <3>2 DEF Answered
    <3>4. mut'["changePassword"] = p /\ p.tok \in Token
        BY <1>2, <3>3 DEF IInv, AnswersHold
    <3>5. mut[op].new # p.tok
        BY <3>3, <3>4, NoneAssumption DEF IInv, NewIsNowhere
    <3>6. Answered("changeEmail")' => Answered("changeEmail")
                                      /\ mut'["changeEmail"] = e
        BY <1>2, <3>1 DEF Answered
    <3>7. QED BY <3>3, <3>4, <3>5, <3>6 DEF IInv, PasswordKeepsThem
  <2>3. CASE op \in {"login", "signup"}
    <3>1. jar' = mut[op].new /\ me' = setQueryData(me, mut[op].user, FALSE)
        BY <1>7, <2>1, <2>3 DEF Cookies, HookOnSuccess
    <3>2. mut[op].user \in User /\ Of(mut[op].new, mut[op].user.id)
        BY <1>4, <2>1, <2>3
    <3>3. /\ me' \in Identity /\ me'.data = mut[op].user /\ ~me'.crossed
          /\ me'.fetch = me.fetch /\ me'.tok = me.tok
          /\ me'.fetch # "idle" => ~me'.clean
        BY <1>3, <3>1, <3>2, SetFacts
    <3>4. ShownIsOfJar' BY <2>2, <3>1, <3>2, <3>3 DEF ShownIsOfJar
    <3>5. FetchedIsOfJar' BY <3>3 DEF FetchedIsOfJar, IInv
    <3>6. PasswordKeepsThem' BY <2>2, <3>1, <3>3 DEF PasswordKeepsThem
    <3>7. mut[op].new \in Token BY <3>2 DEF Of
    <3>8. QED BY <1>5, <3>1, <3>3, <3>4, <3>5, <3>6, <3>7
  <2>4. CASE op \in {"logout", "resetPassword", "deleteAccount"}
    <3>1. jar' \in {jar, None} /\ me' = setQueryData(me, None, FALSE)
        BY <1>7, <2>1, <2>4 DEF Cookies, HookOnSuccess
    <3>2. /\ me' \in Identity /\ me'.data = None
          /\ me'.fetch = me.fetch /\ me'.tok = me.tok
          /\ me'.fetch # "idle" => ~me'.clean
        BY <1>3, <3>1, SetFacts
    <3>3. ShownIsOfJar' BY <3>2 DEF ShownIsOfJar, Named
    <3>4. FetchedIsOfJar' BY <3>2 DEF FetchedIsOfJar, IInv
    <3>5. PasswordKeepsThem' BY <2>2, <3>1, <3>2 DEF PasswordKeepsThem, Named
    <3>6. QED BY <1>3, <1>5, <3>1, <3>2, <3>3, <3>4, <3>5
  <2>5. CASE op \in Panel
    <3>1. jar' = jar /\ me' = invalidateQueries(me)
        BY <1>7, <2>1, <2>5 DEF Cookies, HookOnSuccess, Panel
    <3>2. /\ me' \in Identity
          /\ \/ me' = getCurrentUser(me)
             \/ /\ me'.data = Unset /\ me'.fetch = me.fetch /\ me'.tok = me.tok
                /\ ~me'.clean
        BY <1>3, <3>1, InvalidateFacts
    <3>3. \/ me'.data \in {None, Unset}
          \/ me'.data = me.data /\ me'.crossed = me.crossed
        BY <1>3, <3>2, GetFacts
    <3>4. \/ me'.fetch = "idle" /\ me'.tok = None
          \/ me'.fetch = "asked" /\ me'.tok = jar /\ jar # None
          \/ me'.fetch = me.fetch /\ me'.tok = me.tok /\ ~me'.clean
        BY <1>3, <3>2, GetFacts
    <3>5. me'.tok \in {me.tok, jar, None} BY <3>4
    <3>6. ShownIsOfJar'
        BY <2>2, <3>1, <3>3, <3>5 DEF ShownIsOfJar, Named, IInv
    <3>7. FetchedIsOfJar' BY <1>3, <3>1, <3>4 DEF FetchedIsOfJar, IInv
    <3>8. PasswordKeepsThem'
      <4>1. me'.clean => me'.fetch # "answered"
          BY <3>4
      <4>2. Answered("changePassword") /\ p.tok = jar /\ ~me'.crossed
                /\ Named(me'.data) => Of(p.new, me'.data.id)
          BY <3>3 DEF PasswordKeepsThem, Named, IInv
      <4>3. QED BY <2>2, <3>1, <3>5, <4>1, <4>2 DEF PasswordKeepsThem
    <3>9. QED BY <1>3, <1>5, <3>1, <3>2, <3>5, <3>6, <3>7, <3>8
  <2>6. CASE op = "changePassword"
    <3>1. /\ jar' = mut[op].new /\ mut[op].new \in Token
          /\ sess[mut[op].tok] = None /\ mut[op] = p /\ Answered("changePassword")
        BY <1>4, <1>7, <2>1, <2>6 DEF Cookies, Answered
    <3>2. CASE Overtaken(q)
      <4>1. me' = [me EXCEPT !.crossed = TRUE, !.clean = FALSE]
          BY <2>1, <2>6, <3>2 DEF HookOnSuccess
      <4>2. /\ me' \in Identity /\ me'.crossed = TRUE /\ me'.clean = FALSE
            /\ me'.fetch = me.fetch /\ me'.tok = me.tok
          BY <1>3, <4>1 DEF Identity
      <4>3. ShownIsOfJar' BY <4>2 DEF ShownIsOfJar
      <4>4. FetchedIsOfJar' BY <4>2 DEF FetchedIsOfJar, IInv
      <4>5. PasswordKeepsThem' BY <2>2, <2>6, <3>1, <4>2 DEF PasswordKeepsThem
      <4>6. QED BY <1>5, <3>1, <4>2, <4>3, <4>4, <4>5
    <3>3. CASE ~Overtaken(q)
      <4>1. me' = me BY <2>1, <2>6, <3>3 DEF HookOnSuccess
      <4>2. p.tok = jar BY <2>1, <2>6, <3>3 DEF Overtaken
      <4>3. ShownIsOfJar'
          BY <2>2, <3>1, <4>1, <4>2 DEF ShownIsOfJar, PasswordKeepsThem, IInv
      <4>4. FetchedIsOfJar'
          BY <1>2, <2>2, <3>1, <4>1, <4>2 DEF FetchedIsOfJar, PasswordKeepsThem, IInv
      <4>5. PasswordKeepsThem' BY <2>2, <2>6, <3>1, <4>1 DEF PasswordKeepsThem
      <4>6. QED BY <1>3, <1>5, <3>1, <4>1, <4>3, <4>4, <4>5
    <3>4. QED BY <3>2, <3>3
  <2>7. CASE op = "changeEmail"
    <3>1. jar' = jar /\ me' = setQueryData(me, mut[op].user, Overtaken(q))
        BY <1>7, <2>1, <2>7 DEF Cookies, HookOnSuccess
    <3>2. /\ mut[op].user \in User /\ Of(mut[op].tok, mut[op].user.id)
          /\ mut[op] = e /\ Answered("changeEmail")
        BY <1>4, <2>1, <2>7 DEF Answered
    <3>3. Overtaken(q) \in BOOLEAN BY DEF Overtaken
    <3>4. /\ me' \in Identity /\ me'.data = mut[op].user
          /\ me'.crossed = Overtaken(q)
          /\ me'.fetch = me.fetch /\ me'.tok = me.tok
          /\ me'.fetch # "idle" => ~me'.clean
        BY <1>3, <3>1, <3>2, <3>3, SetFacts
    <3>5. ~me'.crossed => e.tok = jar BY <2>1, <3>2, <3>4 DEF Overtaken
    <3>6. ShownIsOfJar' BY <2>2, <3>1, <3>2, <3>4, <3>5 DEF ShownIsOfJar
    <3>7. FetchedIsOfJar' BY <3>4 DEF FetchedIsOfJar, IInv
    <3>8. PasswordKeepsThem'
      <4>1. Answered("changePassword") /\ p.tok = jar /\ ~me'.crossed =>
                Of(p.new, me'.data.id)
          BY <3>2, <3>4, <3>5 DEF PasswordKeepsThem, IInv
      <4>2. QED BY <2>2, <3>1, <3>4, <4>1 DEF PasswordKeepsThem
    <3>9. QED BY <1>3, <1>5, <3>1, <3>4, <3>6, <3>7, <3>8
  <2>8. CASE op \in {"resendVerification", "requestPasswordReset", "exportAccount"}
    <3>1. UNCHANGED <<jar, me>>
        BY <1>7, <2>1, <2>8 DEF Cookies, HookOnSuccess
    <3>2. Tables' BY <1>2, <1>3, <3>1 DEF Tables
    <3>3. QED BY <1>2, <3>1, <3>2, AnswersKept DEF IInv, TypeOK
  <2>9. QED
      BY <2>3, <2>4, <2>5, <2>6, <2>7, <2>8, OpFacts DEF Panel
<1>8. QED BY <1>6, <1>7

-------------------------------------------------------------------------------
(* The invariant holds                                                       *)

LEMMA InitHolds == Init => IInv
<1> SUFFICES ASSUME Init PROVE IInv
    OBVIOUS
<1>1. /\ jar \in {t \in Token : sess[t] # None} \cup {None}
      /\ me = getCurrentUser(Fetch)
      /\ books = None /\ mut = [op \in Op |-> NoRequest]
      /\ accounts \subseteq Account /\ verified \subseteq accounts
      /\ sess \in [Token -> accounts \cup {None}]
    BY DEF Init
<1>2. links \subseteq LinkPage \X accounts
  <2>1. links \in {{}} \cup {{<<"verifyEmail", a>>} : a \in accounts \ verified}
      BY DEF Init
  <2>2. QED BY <2>1 DEF LinkPage
<1>3. PICK page \in Page : tab = At(page, None) BY DEF Init
<1>4. tab \in Location /\ tab.link = None /\ tab.phase = "asking"
    BY <1>3, AtFacts
<1>5. /\ me \in Identity
      /\ me.fetch # "idle" => me.fetch = "asked" /\ me.tok = jar /\ jar # None
      /\ me.data \in {None, Unset}
    BY <1>1, GetFacts, FetchFacts
<1>6. \A op \in Op : mut[op] = NoRequest BY <1>1
<1>7. Tables
  <2>1. mut \in [Op -> Request] BY <1>1, NoRequestFacts
  <2>2. QED BY <1>1, <1>2, <1>4, <1>5, <2>1 DEF Tables
<1>8. OnScreen BY <1>4, <1>6, NoRequestFacts DEF OnScreen
<1>9. RequestsHold BY <1>6, NoRequestFacts DEF RequestsHold
<1>10. \A op : ~Answered(op) BY <1>6, NoRequestFacts DEF Answered
<1>11. AnswersHold /\ PasswordKeepsThem BY <1>10 DEF AnswersHold, PasswordKeepsThem
<1>12. NewIsNowhere BY <1>6, NoRequestFacts DEF NewIsNowhere
<1>13. ShownIsOfJar /\ FetchedIsOfJar
    BY <1>1, <1>5 DEF ShownIsOfJar, FetchedIsOfJar, Named
<1>14. QED BY <1>7, <1>8, <1>9, <1>11, <1>12, <1>13 DEF IInv, TypeOK

LEMMA StutterStep ==
    ASSUME IInv, UNCHANGED vars
    PROVE  IInv'
BY DEF vars, server, IInv, TypeOK, Tables, OnScreen, RequestsHold, AnswersHold,
       NewIsNowhere, ShownIsOfJar, FetchedIsOfJar, PasswordKeepsThem, Answered, Of

LEMMA InvStep == IInv /\ [Next]_vars => IInv'
<1> SUFFICES ASSUME IInv, [Next]_vars PROVE IInv'
    OBVIOUS
<1>1. CASE \/ LoginForm \/ SignupForm \/ ForgotPasswordForm \/ ResetPasswordForm
           \/ AccountPanel \/ AccountDangerZone
           \/ ChangePasswordDialog \/ ChangeEmailDialog \/ AuthMenu
    BY <1>1, FormsStep
<1>2. CASE VerifyEmailPanel \/ EmailChangeConfirmPanel
    BY <1>2, PanelStep DEF VerifyEmailPanel, EmailChangeConfirmPanel, Panel
<1>3. CASE Reconnect \/ ServeMe \/ SettleMe BY <1>3, MeStep
<1>4. ASSUME NEW op \in Op, Serve(op) PROVE IInv' BY <1>4, ServeStep
<1>5. ASSUME NEW op \in Op, Settle(op) PROVE IInv' BY <1>5, SettleStep
<1>6. CASE \/ \E t \in Token : EndElsewhere(t)
           \/ \E l \in links : Lapse(l)
           \/ getOwnedBooks \/ DropBooks
    BY <1>6, EndStep
<1>7. CASE \/ \E page \in Page : Follow(page)
           \/ Redirect \/ Arrive
           \/ \E op \in Dialog : OpenDialog(op)
           \/ CloseDialog
    BY <1>7, MoveStep
<1>8. ASSUME NEW page \in Page, Load(page, None) PROVE IInv' BY <1>8, LoadStep
<1>9. ASSUME NEW page \in LinkPage \cap Page, NEW a \in Account, Load(page, a)
      PROVE  IInv'
    BY <1>9, LoadStep
<1>10. CASE UNCHANGED vars BY <1>10, StutterStep
<1>11. QED
    BY <1>1, <1>2, <1>3, <1>4, <1>5, <1>6, <1>7, <1>8, <1>9, <1>10 DEF Next

LEMMA Invariance == Spec => []IInv
BY InitHolds, InvStep, PTL DEF Spec

(* Tables, callbacks that belong to the page on screen, and a verdict only   *)
(* of a link that was sent (use-link-token-mutation.ts).                     *)
THEOREM TypeCorrect == Spec => []TypeOK
<1>1. IInv => TypeOK BY DEF IInv
<1>2. QED BY <1>1, Invariance, PTL

(* Whatever mutations, fetches and sessions cross, the tab shows nobody      *)
(* without a cookie and, with a live session, nobody but its account, but    *)
(* where the hooks let the cache part from the cookie (auth-provider.tsx).   *)
THEOREM CacheStaysRight == Spec => []CacheAgrees
<1>1. IInv => CacheAgrees
  <2> SUFFICES ASSUME IInv, ~me.crossed
               PROVE  \/ Shown \subseteq {SessionOf(jar)}
                      \/ jar # None /\ SessionOf(jar) = None
      BY DEF CacheAgrees
  <2>1. CASE me.data \in {None, Unset} BY <2>1 DEF Shown
  <2>2. CASE me.data \notin {None, Unset}
    <3>1. Of(jar, me.data.id) BY <2>2 DEF IInv, ShownIsOfJar, Named
    <3>2. jar # None /\ SessionOf(jar) = sess[jar]
        BY <3>1, NoneAssumption DEF Of, SessionOf
    <3>3. Shown = {me.data.id} BY <2>2 DEF Shown
    <3>4. QED BY <3>1, <3>2, <3>3 DEF Of
  <2>3. QED BY <2>1, <2>2
<1>2. QED BY <1>1, Invariance, PTL

(* Each failure of a form, a dialog or a panel still on screen is seen in    *)
(* one place (error-meta.ts, *-error.ts, react-query.ts).                    *)
THEOREM FailuresShownOnce == Spec => []FailureShownOnce
<1>1. IInv => FailureShownOnce BY ShownOnce DEF FailureShownOnce
<1>2. QED BY <1>1, Invariance, PTL

(* A panel's verdict on its link stands (use-link-token-mutation.ts: one     *)
(* request per link, whose answer finds the panel undecided).                *)
THEOREM VerdictsStand == Spec => VerdictStands
<1>1. ASSUME IInv, [Next]_vars,
             tab.phase # "asking", tab'.page = tab.page, tab'.link = tab.link,
             tab'.hasSubmitted
      PROVE  tab'.phase = tab.phase
  <2>1. tab \in Location /\ tab.hasSubmitted
      BY <1>1 DEF IInv, TypeOK, Tables, OnScreen
  <2>2. ASSUME NEW op \in Op, Settle(op)
        PROVE  tab'.phase = tab.phase
    <3>1. PICK q \in Outcomes(op) : Receive(op, q) BY <2>2 DEF Settle
    <3>2. ~(op \in Panel /\ mut[op].owned) => tab'.phase = tab.phase
        BY <1>1, <3>1, ReceiveFacts
    <3>3. op \in Panel => ~mut[op].owned BY <1>1 DEF IInv, RequestsHold
    <3>4. QED BY <3>2, <3>3
  <2>3. ASSUME NEW op \in Panel, PanelEffect(op)
        PROVE  tab'.phase = tab.phase
      BY <2>1, <2>3 DEF PanelEffect
  <2>4. ASSUME NEW op, NEW a, NEW page, Send(op, a, page) PROVE UNCHANGED tab
      BY <2>4 DEF Send
  <2>5. CASE \/ LoginForm \/ SignupForm \/ ForgotPasswordForm \/ ResetPasswordForm
             \/ AccountPanel \/ AccountDangerZone
             \/ ChangePasswordDialog \/ ChangeEmailDialog \/ AuthMenu
      BY <2>4, <2>5 DEF LoginForm, SignupForm, ForgotPasswordForm,
            ResetPasswordForm, AccountPanel, AccountDangerZone,
            ChangePasswordDialog, ChangeEmailDialog, AuthMenu
  <2>6. CASE Reconnect \/ ServeMe \/ SettleMe
      BY <2>6 DEF Reconnect, ServeMe, SettleMe
  <2>7. ASSUME NEW op \in Op, Serve(op) PROVE tab'.phase = tab.phase
      BY <2>7 DEF Serve
  <2>8. CASE \/ \E t \in Token : EndElsewhere(t)
             \/ \E l \in links : Lapse(l)
             \/ getOwnedBooks \/ DropBooks
      BY <2>8 DEF EndElsewhere, Lapse, getOwnedBooks, DropBooks
  <2>9. ASSUME NEW page \in Page, Follow(page) PROVE FALSE
      BY <1>1, <2>9, AtFacts DEF Follow
  <2>10. ASSUME NEW page \in Page, NEW link \in Account \cup {None},
                Load(page, link)
         PROVE  FALSE
      BY <1>1, <2>10, LinkFacts DEF Load, Mount
  <2>11. CASE Redirect BY <2>1, <2>11 DEF Redirect, Location
  <2>12. CASE Arrive
    <3>1. tab.nav \in [to : Page, from : Page \cup {None}]
        BY <2>1, <2>12 DEF Arrive, Location
    <3>2. CASE tab' = [tab EXCEPT !.nav = None, !.from = tab.nav.from]
        BY <2>1, <3>2 DEF Location
    <3>3. CASE tab' = At(tab.nav.to, tab.nav.from)
        BY <1>1, <3>1, <3>3, AtFacts
    <3>4. QED BY <2>12, <3>2, <3>3 DEF Arrive
  <2>13. ASSUME NEW op, OpenDialog(op) \/ CloseDialog PROVE tab'.phase = tab.phase
      BY <2>1, <2>13 DEF OpenDialog, CloseDialog, Location
  <2>14. CASE UNCHANGED vars BY <2>14 DEF vars
  <2>15. CASE VerifyEmailPanel \/ EmailChangeConfirmPanel
      BY <2>3, <2>15 DEF VerifyEmailPanel, EmailChangeConfirmPanel, Panel
  <2>16. QED
      BY <1>1, <2>2, <2>5, <2>6, <2>7, <2>8, <2>9, <2>10, <2>11, <2>12, <2>13,
         <2>14, <2>15
      DEF Next
<1>2. IInv /\ [Next]_vars =>
        [tab.phase # "asking" /\ tab'.page = tab.page /\ tab'.link = tab.link
            /\ tab'.hasSubmitted => tab'.phase = tab.phase]_vars
    BY <1>1
<1>3. QED BY <1>2, Invariance, PTL DEF Spec, VerdictStands
===============================================================================
