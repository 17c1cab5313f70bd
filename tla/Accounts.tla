------------------------------ MODULE Accounts ------------------------------
(***************************************************************************)
(* Accounts and the session of the app: AuthService's registrations, each  *)
(* in a transaction with its welcome reward, and on every phone the        *)
(* AuthController, the stored token, the socket and the redirects of the   *)
(* router.  An app may be killed at any await; a call may fail or time out *)
(* while the server goes on with it.                                       *)
(*                                                                         *)
(* A phone stands for its owner, who types his own password whatever email *)
(* he uses.  A token is the account it was signed for.  A login or a       *)
(* request for /auth/me only reads rows that never change, so the server   *)
(* answers it when the answer arrives.  Postgres is external: an insert    *)
(* waits for an open transaction that holds one of its unique keys, and a  *)
(* transaction may be aborted.                                             *)
(***************************************************************************)
EXTENDS Naturals, Sequences

CONSTANTS
    Device,
    Forms,           \* Forms[d]: the emails and usernames the owner of d tries
    WelcomeReward,    \* ECONOMY_WELCOME_BONUS_COINS
    NoAccount, NoCall,
    MaxRegistrations,  \* bound: calls of POST /auth/register
    MaxKills           \* bound: apps killed

VARIABLES
    users,         \* users, committed
    wallet,        \* wallets.balance of those who have one
    registration,  \* the calls of POST /auth/register, which also name the id of the user
    phone,
    kills

accountsVars == <<users, wallet, registration, phone, kills>>

Registration == 1..MaxRegistrations

Launched(token, expired) ==
    [page |-> "/splash", auth |-> "loading", user |-> NoAccount, socket |-> NoAccount,
     token |-> token, expired |-> expired, doing |-> "readAuthToken", call |-> NoCall,
     email |-> "", result |-> NoAccount]

AccountsInit ==
    /\ users = {}
    /\ wallet = [u \in {} |-> 0]
    /\ registration = <<>>
    /\ phone = [d \in Device |-> Launched(NoAccount, FALSE)]
    /\ kills = 0

-----------------------------------------------------------------------------
(***************************************************************************)
(* The server.                                                             *)
(***************************************************************************)
\* users.email and users.username are unique.
Clash(form, other) == form.email = other.email \/ form.username = other.username

Answered(i, status, user) ==
    registration' = [registration EXCEPT ![i] =
                        [@ EXCEPT !.step = "answered", !.status = status, !.user = user]]

UserRow(i) ==
    [id |-> i, email |-> registration[i].form.email,
     username |-> registration[i].form.username, password |-> registration[i].from]

\* Mutant: who exists already is taken for registered.
CreateOrFind(i) ==
    /\ registration[i].step = "create"
    /\ IF \E u \in users : Clash(registration[i].form, u)
       THEN Answered(i, 201, CHOOSE u \in {v.id : v \in users} :
                                \E v \in users : v.id = u /\ Clash(registration[i].form, v))
       ELSE registration' = [registration EXCEPT ![i] = [@ EXCEPT !.step = "credit"]]
    /\ UNCHANGED <<users, wallet, phone, kills>>

\* Mutant: the user is created before the transaction of the reward.
CreateOutside(i) ==
    /\ registration[i].step = "create"
    /\ IF \E u \in users : Clash(registration[i].form, u)
       THEN Answered(i, 409, NoAccount) /\ UNCHANGED users
       ELSE /\ registration' = [registration EXCEPT ![i] = [@ EXCEPT !.step = "credit"]]
            /\ users' = users \cup {UserRow(i)}
    /\ UNCHANGED <<wallet, phone, kills>>

Create(i) ==
    /\ registration[i].step = "create"
    /\ \A j \in DOMAIN registration :
          registration[j].step = "credit" => ~Clash(registration[i].form, registration[j].form)
    /\ IF \E u \in users : Clash(registration[i].form, u)
       THEN Answered(i, 409, NoAccount)
       ELSE registration' = [registration EXCEPT ![i] = [@ EXCEPT !.step = "credit"]]
    /\ UNCHANGED <<users, wallet, phone, kills>>

\* creditWelcomeReward makes the wallet and its row; the transaction commits both.
CreditAndCommit(i) ==
    /\ registration[i].step = "credit"
    /\ users' = users \cup {UserRow(i)}
    /\ wallet' = [u \in DOMAIN wallet \cup {i} |-> IF u = i THEN WelcomeReward ELSE wallet[u]]
    /\ Answered(i, 201, i)
    /\ UNCHANGED <<phone, kills>>

AbortRegistration(i) ==
    /\ registration[i].step \in {"create", "credit"}
    /\ Answered(i, 500, NoAccount)
    /\ UNCHANGED <<users, wallet, phone, kills>>

Login(email, password) == {u.id : u \in {v \in users : v.email = email /\ v.password = password}}

-----------------------------------------------------------------------------
(***************************************************************************)
(* The app.  Every change of the auth state runs the redirect.             *)
(***************************************************************************)
PublicRoutes == {"/login", "/register", "/splash"}

Redirect(path, auth) ==
    CASE auth = "loading" -> IF path \in PublicRoutes THEN path ELSE "/splash"
      [] auth = "in" -> IF path \in PublicRoutes THEN "/home" ELSE path
      [] OTHER -> IF path \in PublicRoutes \ {"/splash"} THEN path ELSE "/login"

Becomes(app, auth) == [app EXCEPT !.auth = auth, !.page = Redirect(@, auth)]
Ends(app, auth) ==
    [Becomes(app, auth) EXCEPT !.doing = "nothing", !.call = NoCall, !.email = "",
                               !.result = NoAccount]

App(d, app) ==
    /\ phone' = [phone EXCEPT ![d] = app]
    /\ UNCHANGED <<users, wallet, registration, kills>>

Doing(d, what) == phone[d].doing = what

\* build(): without a token only a ping, which ends anyhow, keeps the splash screen.
ReadAuthToken(d) ==
    /\ Doing(d, "readAuthToken")
    /\ App(d, [phone[d] EXCEPT !.doing = IF phone[d].token = NoAccount THEN "ping" ELSE "me"])

PingEnds(d) == Doing(d, "ping") /\ App(d, Ends(phone[d], "out"))

SignedIn(app, user) == [Ends(app, "in") EXCEPT !.user = user, !.socket = user]

\* A token that has run out is answered 401, the only answer that clears it.
MeAnswered(d) ==
    /\ Doing(d, "me")
    /\ App(d, IF phone[d].expired
              THEN [Ends(phone[d], "out") EXCEPT !.token = NoAccount, !.expired = FALSE]
              ELSE SignedIn(phone[d], phone[d].token))

Expire(d) ==
    /\ phone[d].token # NoAccount /\ ~phone[d].expired
    /\ App(d, [phone[d] EXCEPT !.expired = TRUE])

GoTo(d, page) ==
    /\ {phone[d].page, page} = {"/login", "/register"}
    /\ App(d, [phone[d] EXCEPT !.page = Redirect(page, phone[d].auth)])

\* The buttons wait while the auth state is loading.
Register(d, form) ==
    LET i == Len(registration) + 1
    IN  /\ phone[d].page = "/register" /\ phone[d].auth \in {"out", "error"}
        /\ i \in Registration
        /\ registration' = Append(registration,
              [from |-> d, form |-> form, step |-> "create", status |-> 0, user |-> NoAccount])
        /\ phone' = [phone EXCEPT ![d] =
              [Becomes(@, "loading") EXCEPT !.doing = "register", !.call = i]]
        /\ UNCHANGED <<users, wallet, kills>>

RegisterAnswered(d) ==
    /\ Doing(d, "register")
    /\ LET answer == registration[phone[d].call]
       IN  /\ answer.step = "answered"
           /\ App(d, IF answer.status = 201
                     THEN [phone[d] EXCEPT !.doing = "saveAuthToken", !.result = answer.user]
                     ELSE Ends(phone[d], "error"))

TapLogin(d, form) ==
    /\ phone[d].page = "/login" /\ phone[d].auth \in {"out", "error"}
    /\ App(d, [Becomes(phone[d], "loading") EXCEPT !.doing = "login", !.email = form.email])

LoginAnswered(d) ==
    /\ Doing(d, "login")
    /\ LET found == Login(phone[d].email, d)
       IN  App(d, IF found = {} THEN Ends(phone[d], "error")
                  ELSE [phone[d] EXCEPT !.doing = "saveAuthToken",
                                        !.result = CHOOSE u \in found : TRUE])

\* Mutant: the first call of a launch waits for the server however long it takes.
CallFailsAfterLaunch(d) ==
    /\ phone[d].doing \in {"register", "login"}
    /\ App(d, Ends(phone[d], "error"))

\* Network, timeout (100 s) or a failing server; the token stays.
CallFails(d) ==
    \/ Doing(d, "me") /\ App(d, Ends(phone[d], "out"))
    \/ phone[d].doing \in {"register", "login"} /\ App(d, Ends(phone[d], "error"))

\* _onAuthenticated: the token is stored, then the socket opened with it.
SaveAuthToken(d) ==
    /\ Doing(d, "saveAuthToken")
    /\ App(d, [phone[d] EXCEPT !.doing = "connect", !.token = phone[d].result,
                               !.expired = FALSE])

Connect(d) == Doing(d, "connect") /\ App(d, SignedIn(phone[d], phone[d].result))

TapLogout(d) ==
    /\ phone[d].auth = "in" /\ Doing(d, "nothing")
    /\ App(d, [phone[d] EXCEPT !.doing = "clearAuthToken", !.token = NoAccount, !.expired = FALSE])

AuthTokenCleared(d) ==
    /\ Doing(d, "clearAuthToken")
    /\ App(d, [Ends(phone[d], "out") EXCEPT !.user = NoAccount, !.socket = NoAccount])

\* The app is killed and launched again; storage and server remain.
Kill(d) ==
    /\ kills < MaxKills
    /\ kills' = kills + 1
    /\ phone' = [phone EXCEPT ![d] = Launched(phone[d].token, phone[d].expired)]
    /\ UNCHANGED <<users, wallet, registration>>

AccountsNext ==
    \/ \E i \in DOMAIN registration : Create(i) \/ CreditAndCommit(i) \/ AbortRegistration(i)
    \/ \E d \in Device :
          \/ ReadAuthToken(d) \/ PingEnds(d) \/ MeAnswered(d) \/ Expire(d)
          \/ \E page \in PublicRoutes : GoTo(d, page)
          \/ \E form \in Forms[d] : Register(d, form) \/ TapLogin(d, form)
          \/ RegisterAnswered(d) \/ LoginAnswered(d) \/ CallFails(d)
          \/ SaveAuthToken(d) \/ Connect(d)
          \/ TapLogout(d) \/ AuthTokenCleared(d)
          \/ Kill(d)

AccountsSpec == AccountsInit /\ [][AccountsNext]_accountsVars

\* Storage and the event loop of a phone go on, and a call without an answer times out;
\* no server has to answer and nobody has to tap.
FairSpec ==
    /\ AccountsSpec
    /\ \A d \in Device :
          /\ WF_accountsVars(ReadAuthToken(d)) /\ WF_accountsVars(PingEnds(d))
          /\ WF_accountsVars(CallFails(d)) /\ WF_accountsVars(SaveAuthToken(d))
          /\ WF_accountsVars(Connect(d)) /\ WF_accountsVars(AuthTokenCleared(d))

-----------------------------------------------------------------------------
\* However often people register, at once or again after an answer that never came, no
\* email or username has two accounts, and every account got its one welcome reward.
OneAccountOneReward ==
    /\ \A u, v \in users : Clash(u, v) => u = v
    /\ DOMAIN wallet = {u.id : u \in users}
    /\ \A u \in DOMAIN wallet : wallet[u] = WelcomeReward

\* An app at rest is either logged out, on a page for that and without a socket, or logged
\* in to an account whose password its owner set, and token, socket and user are the same.
SessionIsWhole ==
    \A d \in Device : Doing(d, "nothing") =>
        LET app == phone[d]
        IN  IF app.auth = "in"
            THEN /\ app.page = "/home"
                 /\ app.token = app.user /\ app.socket = app.user
                 /\ \E u \in users : u.id = app.user /\ u.password = d
            ELSE app.page \in {"/login", "/register"} /\ app.socket = NoAccount

\* Neither the splash screen nor the spinner of a button stays for ever.
LoadingEnds == \A d \in Device : phone[d].auth = "loading" ~> phone[d].auth # "loading"
=============================================================================
