--------------------------- MODULE AccountsProofs ---------------------------
(***************************************************************************)
(* The account service and the wallet it credits.                          *)
(*                                                                         *)
(* Accounts is correct for every number of phones, whatever emails and     *)
(* usernames their owners try, and for every number of registrations and   *)
(* of kills.                                                               *)
(*                                                                         *)
(* That no two accounts share a key is not inductive: between its insert   *)
(* and its commit a registration holds its keys, and those must clash      *)
(* neither with another one's nor with a committed row (KeysAreHeld).      *)
(* That a session is whole needs what every await of the AuthController    *)
(* has in its hands: whose account the answer, the stored token and the    *)
(* socket are (HoldsOwnAccount), and which pages and auth states go with   *)
(* the await (PageFollowsAuth).                                            *)
(***************************************************************************)
EXTENDS Accounts, Wallet, FiniteSets, SequenceTheorems, TLAPS

AnyForm == UNION {Forms[d] : d \in Device}
Id == Nat \cup {NoAccount}
CallId == Nat \cup {NoCall}
Email == {""} \cup {f.email : f \in AnyForm}

Call ==
    [from : Device, form : AnyForm, step : {"create", "credit", "answered"},
     status : Nat, user : Id]

AppState ==
    [page : {"/splash", "/login", "/register", "/home"},
     auth : {"loading", "in", "out", "error"},
     user : Id, socket : Id, token : Id, expired : BOOLEAN,
     doing : {"nothing", "readAuthToken", "ping", "me", "register", "login",
              "saveAuthToken", "connect", "clearAuthToken"},
     call : CallId, email : Email, result : Id]

ServerType ==
    /\ registration \in Seq(Call)
    /\ \A u \in users : u.id \in DOMAIN registration /\ u = UserRow(u.id)

\* A registration between its insert and its commit holds its email and its username.
KeysAreHeld ==
    /\ \A i, j \in DOMAIN registration :
          (registration[i].step = "credit" /\ registration[j].step = "credit" /\ i # j)
             => ~Clash(registration[i].form, registration[j].form)
    /\ \A i \in DOMAIN registration : \A u \in users :
          registration[i].step = "credit" => ~Clash(registration[i].form, u)

\* The account k exists and d's owner set its password.
Owns(d, k) == \E u \in users : u.id = k /\ u.password = d

\* Only an answered registration has an account, and 201 is the answer for its account.
AnswersAreTrue ==
    /\ \A u \in users : registration[u.id].step = "answered"
    /\ \A i \in DOMAIN registration :
          (registration[i].step = "answered" /\ registration[i].status = 201)
             => Owns(registration[i].from, registration[i].user)

ServerInv == ServerType /\ KeysAreHeld /\ AnswersAreTrue /\ OneAccountOneReward

-----------------------------------------------------------------------------
\* What an app is doing, its auth state, its page and its socket go together.
PageFollowsAuth(app) ==
    /\ app.auth = "loading" =>
          app.page \in PublicRoutes /\ app.doing \notin {"nothing", "clearAuthToken"}
    /\ app.auth = "in" => app.page = "/home" /\ app.doing \in {"nothing", "clearAuthToken"}
    /\ app.auth \in {"out", "error"} =>
          app.page \in {"/login", "/register"} /\ app.doing = "nothing"
    /\ app.auth # "in" => app.socket = NoAccount

\* Whatever account an app has in its hands is its owner's.
HoldsOwnAccount(d, app) ==
    /\ app.token # NoAccount => Owns(d, app.token)
    /\ app.doing = "me" => app.token # NoAccount
    /\ app.doing = "register" =>
          app.call \in DOMAIN registration /\ registration[app.call].from = d
    /\ app.doing \in {"saveAuthToken", "connect"} => Owns(d, app.result)
    /\ app.doing = "connect" => app.token = app.result
    /\ (app.auth = "in" /\ app.doing = "nothing") =>
          app.token = app.user /\ app.socket = app.user /\ Owns(d, app.user)

IInv ==
    /\ ServerInv
    /\ phone \in [Device -> AppState]
    /\ \A d \in Device : PageFollowsAuth(phone[d]) /\ HoldsOwnAccount(d, phone[d])

\* Accounts stay, and calls stay their sender's.
ServerGoesOn ==
    /\ users \subseteq users'
    /\ DOMAIN registration \subseteq DOMAIN registration'
    /\ \A j \in DOMAIN registration : registration'[j].from = registration[j].from

-----------------------------------------------------------------------------
\* A registration in progress is a call, made by the owner of a phone.
LEMMA CallType ==
    ASSUME ServerType, NEW i \in DOMAIN registration
    PROVE  /\ registration[i] \in Call
           /\ DOMAIN registration = 1..Len(registration) /\ Len(registration) \in Nat
           /\ i \in Nat
  BY LenProperties, ElementOfSeq DEF ServerType

\* What stands for no account, no call and no email may stand where one is expected.
LEMMA NoUserIsId ==
    /\ NoAccount \in Id /\ Nat \subseteq Id
    /\ NoCall \in CallId /\ Nat \subseteq CallId
    /\ "" \in Email /\ \A f \in AnyForm : f.email \in Email
  BY DEF Id, CallId, Email

Answer(call, status, user) ==
    [call EXCEPT !.step = "answered", !.status = status, !.user = user]

\* The answer to a call, with the account it made or without one.
LEMMA AnswerType ==
    ASSUME NEW call \in Call, NEW status \in Nat, NEW user \in Id
    PROVE  LET answer == Answer(call, status, user)
           IN  /\ answer \in Call /\ answer.from = call.from /\ answer.form = call.form
               /\ answer.step = "answered" /\ answer.status = status /\ answer.user = user
  BY DEF Call, Answer

\* Moving one registration on leaves the others, its sender and its form as they are.
LEMMA StepOfCall ==
    ASSUME ServerType, NEW i \in DOMAIN registration, NEW call \in Call,
           call.from = registration[i].from, call.form = registration[i].form,
           registration' = [registration EXCEPT ![i] = call]
    PROVE  /\ registration' \in Seq(Call) /\ DOMAIN registration' = DOMAIN registration
           /\ registration'[i] = call
           /\ \A j \in DOMAIN registration \ {i} : registration'[j] = registration[j]
           /\ \A j \in DOMAIN registration : UserRow(j)' = UserRow(j)
<1>1. registration \in Seq(Call) /\ i \in 1..Len(registration)
        /\ DOMAIN registration = 1..Len(registration)
  BY CallType DEF ServerType
<1>2. /\ registration' \in Seq(Call) /\ Len(registration') = Len(registration)
      /\ \A j \in 1..Len(registration) : registration'[j] = IF j = i THEN call ELSE registration[j]
  BY <1>1, ExceptSeq
<1>3. DOMAIN registration' = 1..Len(registration)
  BY <1>2, LenProperties
<1>4. \A j \in DOMAIN registration : UserRow(j)' = UserRow(j)
  BY <1>1, <1>2 DEF UserRow
<1> QED BY <1>1, <1>2, <1>3, <1>4

\* A new call changes nothing about those under way.
LEMMA NewCall ==
    ASSUME ServerType, NEW call \in Call, registration' = Append(registration, call)
    PROVE  /\ registration' \in Seq(Call)
           /\ DOMAIN registration' = DOMAIN registration \cup {Len(registration) + 1}
           /\ Len(registration) + 1 \notin DOMAIN registration
           /\ registration'[Len(registration) + 1] = call
           /\ \A j \in DOMAIN registration : registration'[j] = registration[j]
           /\ \A j \in DOMAIN registration : UserRow(j)' = UserRow(j)
<1>1. registration \in Seq(Call) /\ DOMAIN registration = 1..Len(registration)
      /\ Len(registration) \in Nat
  BY LenProperties DEF ServerType
<1>2. /\ registration' \in Seq(Call) /\ Len(registration') = Len(registration) + 1
      /\ \A j \in 1..Len(registration) : registration'[j] = registration[j]
      /\ registration'[Len(registration) + 1] = call
  BY <1>1, AppendProperties
<1>3. DOMAIN registration' = 1..(Len(registration) + 1)
  BY <1>2, LenProperties
<1>4. \A j \in DOMAIN registration : UserRow(j)' = UserRow(j)
  BY <1>1, <1>2 DEF UserRow
<1> QED BY <1>1, <1>2, <1>3, <1>4

\* The insert of auth.service.ts's register: a free email and username are held from
\* here on, a taken one is answered 409.
LEMMA CreateStep ==
    ASSUME ServerInv, NEW i \in DOMAIN registration, Create(i)
    PROVE  ServerInv' /\ ServerGoesOn
<1> USE DEF ServerInv
<1> DEFINE taken == Answer(registration[i], 409, NoAccount)
           held == [registration[i] EXCEPT !.step = "credit"]
<1>1. registration[i] \in Call /\ registration[i].step = "create" /\ i \in Nat
      /\ users' = users /\ wallet' = wallet
  BY CallType DEF Create
<1>2. i \notin {u.id : u \in users} /\ \A u \in users : u.id \in DOMAIN registration \ {i}
  BY <1>1 DEF AnswersAreTrue, ServerType
<1>3. CASE \E u \in users : Clash(registration[i].form, u)
  <2>1. registration' = [registration EXCEPT ![i] = taken]
    BY <1>3 DEF Create, Answered, Answer
  <2>2. taken \in Call /\ taken.from = registration[i].from /\ taken.form = registration[i].form
        /\ taken.step = "answered" /\ taken.status = 409
    <3>1. NoAccount \in Id /\ 409 \in Nat BY DEF Id
    <3> QED BY <1>1, <3>1, AnswerType
  <2> HIDE DEF taken
  <2>3. /\ registration' \in Seq(Call) /\ DOMAIN registration' = DOMAIN registration
        /\ registration'[i] = taken
        /\ \A j \in DOMAIN registration \ {i} : registration'[j] = registration[j]
        /\ \A j \in DOMAIN registration : UserRow(j)' = UserRow(j)
    BY <2>1, <2>2, StepOfCall
  <2>4. ServerType' BY <1>1, <2>3 DEF ServerType
  <2>5. KeysAreHeld' BY <1>1, <2>2, <2>3 DEF KeysAreHeld, Clash
  <2>6. AnswersAreTrue' BY <1>1, <1>2, <2>2, <2>3 DEF AnswersAreTrue, Owns
  <2>7. OneAccountOneReward' BY <1>1 DEF OneAccountOneReward, Clash
  <2>8. ServerGoesOn BY <1>1, <2>2, <2>3 DEF ServerGoesOn
  <2> QED BY <2>4, <2>5, <2>6, <2>7, <2>8
<1>4. CASE ~ \E u \in users : Clash(registration[i].form, u)
  <2>1. registration' = [registration EXCEPT ![i] = held]
    BY <1>4 DEF Create
  <2>2. held \in Call /\ held.from = registration[i].from /\ held.form = registration[i].form
        /\ held.step = "credit"
    BY <1>1 DEF Call
  <2> HIDE DEF held
  <2>3. /\ registration' \in Seq(Call) /\ DOMAIN registration' = DOMAIN registration
        /\ registration'[i] = held
        /\ \A j \in DOMAIN registration \ {i} : registration'[j] = registration[j]
        /\ \A j \in DOMAIN registration : UserRow(j)' = UserRow(j)
    BY <2>1, <2>2, StepOfCall
  <2>4. ServerType' BY <1>1, <2>3 DEF ServerType
  <2>5. KeysAreHeld'
    <3>1. \A j \in DOMAIN registration :
             registration[j].step = "credit" => ~Clash(registration[i].form, registration[j].form)
      BY DEF Create
    <3> QED BY <1>1, <1>4, <2>2, <2>3, <3>1 DEF KeysAreHeld, Clash
  <2>6. AnswersAreTrue' BY <1>1, <1>2, <2>2, <2>3 DEF AnswersAreTrue, Owns
  <2>7. OneAccountOneReward' BY <1>1 DEF OneAccountOneReward, Clash
  <2>8. ServerGoesOn BY <1>1, <2>2, <2>3 DEF ServerGoesOn
  <2> QED BY <2>4, <2>5, <2>6, <2>7, <2>8
<1> QED BY <1>3, <1>4

\* A transaction that aborts leaves no user and no wallet.
LEMMA AbortStep ==
    ASSUME ServerInv, NEW i \in DOMAIN registration, AbortRegistration(i)
    PROVE  ServerInv' /\ ServerGoesOn
<1> USE DEF ServerInv
<1> DEFINE dead == Answer(registration[i], 500, NoAccount)
<1>1. registration[i] \in Call /\ registration[i].step # "answered" /\ i \in Nat
      /\ users' = users /\ wallet' = wallet
  BY CallType DEF AbortRegistration
<1>2. registration' = [registration EXCEPT ![i] = dead]
  BY DEF AbortRegistration, Answered, Answer
<1>3. dead \in Call /\ dead.from = registration[i].from /\ dead.form = registration[i].form
      /\ dead.step = "answered" /\ dead.status = 500
  <2>1. NoAccount \in Id /\ 500 \in Nat BY DEF Id
  <2> QED BY <1>1, <2>1, AnswerType
<1> HIDE DEF dead
<1>4. /\ registration' \in Seq(Call) /\ DOMAIN registration' = DOMAIN registration
      /\ registration'[i] = dead
      /\ \A j \in DOMAIN registration \ {i} : registration'[j] = registration[j]
      /\ \A j \in DOMAIN registration : UserRow(j)' = UserRow(j)
  BY <1>2, <1>3, StepOfCall
<1>5. ServerType' BY <1>1, <1>4 DEF ServerType
<1>6. KeysAreHeld' BY <1>1, <1>3, <1>4 DEF KeysAreHeld, Clash
<1>7. \A u \in users : u.id \in DOMAIN registration \ {i}
  BY <1>1 DEF AnswersAreTrue, ServerType
<1>8. AnswersAreTrue' BY <1>1, <1>3, <1>4, <1>7 DEF AnswersAreTrue, Owns
<1>9. OneAccountOneReward' BY <1>1 DEF OneAccountOneReward, Clash
<1>10. ServerGoesOn BY <1>1, <1>3, <1>4 DEF ServerGoesOn
<1> QED BY <1>5, <1>6, <1>8, <1>9, <1>10

\* The commit makes the account and its welcome reward together, for keys nobody has.
LEMMA CommitStep ==
    ASSUME ServerInv, NEW i \in DOMAIN registration, CreditAndCommit(i)
    PROVE  ServerInv' /\ ServerGoesOn
<1> USE DEF ServerInv
<1> DEFINE made == Answer(registration[i], 201, i)
<1>1. registration[i] \in Call /\ registration[i].step = "credit" /\ i \in Nat
      /\ users' = users \cup {UserRow(i)}
  BY CallType DEF CreditAndCommit
<1>2. registration' = [registration EXCEPT ![i] = made]
  BY DEF CreditAndCommit, Answered, Answer
<1>3. made \in Call /\ made.from = registration[i].from /\ made.form = registration[i].form
      /\ made.step = "answered" /\ made.status = 201 /\ made.user = i
  <2>1. i \in Id /\ 201 \in Nat BY <1>1, NoUserIsId
  <2> QED BY <1>1, <2>1, AnswerType
<1> HIDE DEF made
<1>4. /\ registration' \in Seq(Call) /\ DOMAIN registration' = DOMAIN registration
      /\ registration'[i] = made
      /\ \A j \in DOMAIN registration \ {i} : registration'[j] = registration[j]
      /\ \A j \in DOMAIN registration : UserRow(j)' = UserRow(j)
  BY <1>2, <1>3, StepOfCall
<1>5. UserRow(i).id = i /\ UserRow(i).password = registration[i].from
      /\ UserRow(i).email = registration[i].form.email
      /\ UserRow(i).username = registration[i].form.username
  BY DEF UserRow
<1>6. ServerType' BY <1>1, <1>4, <1>5 DEF ServerType
<1>7. \A u \in users : u.id \in DOMAIN registration \ {i}
  BY <1>1 DEF AnswersAreTrue, ServerType
<1>8. \A u \in users :
         ~Clash(registration[i].form, u) /\ ~Clash(UserRow(i), u) /\ ~Clash(u, UserRow(i))
  BY <1>1, <1>5 DEF KeysAreHeld, Clash
<1>9. KeysAreHeld'
  <2>1. \A j \in DOMAIN registration \ {i} : registration[j].step = "credit"
            => ~Clash(registration[j].form, UserRow(i))
    BY <1>1, <1>5 DEF KeysAreHeld, Clash
  <2> QED BY <1>1, <1>3, <1>4, <2>1 DEF KeysAreHeld, Clash
<1>10. AnswersAreTrue'
  <2>1. ASSUME NEW d, NEW k, Owns(d, k) PROVE Owns(d, k)'
    BY <1>1, <2>1 DEF Owns
  <2>2. Owns(registration[i].from, i)'
    BY <1>1, <1>3, <1>4, <1>5 DEF Owns
  <2>3. \A u \in users' : registration'[u.id].step = "answered"
    BY <1>1, <1>3, <1>4, <1>5, <1>7 DEF AnswersAreTrue
  <2> QED BY <1>1, <1>3, <1>4, <2>1, <2>2, <2>3 DEF AnswersAreTrue
<1>11. OneAccountOneReward'
  <2>1. \A u, v \in users' : Clash(u, v) => u = v
    BY <1>1, <1>8 DEF OneAccountOneReward
  <2>2. wallet' = [u \in DOMAIN wallet \cup {i} |-> IF u = i THEN WelcomeReward ELSE wallet[u]]
    BY DEF CreditAndCommit
  <2>3. DOMAIN wallet' = {u.id : u \in users'}
    BY <1>1, <1>5, <2>2 DEF OneAccountOneReward
  <2>4. \A u \in DOMAIN wallet' : wallet'[u] = WelcomeReward
    BY <2>2 DEF OneAccountOneReward
  <2> QED BY <2>1, <2>3, <2>4 DEF OneAccountOneReward, Clash
<1>12. ServerGoesOn BY <1>1, <1>3, <1>4 DEF ServerGoesOn
<1> QED BY <1>6, <1>9, <1>10, <1>11, <1>12

\* A new call holds no key and has no account.
LEMMA RegisterStep ==
    ASSUME ServerInv, NEW d \in Device, NEW form \in Forms[d], Register(d, form)
    PROVE  ServerInv' /\ ServerGoesOn
<1> USE DEF ServerInv
<1> DEFINE call == [from |-> d, form |-> form, step |-> "create", status |-> 0, user |-> NoAccount]
           i == Len(registration) + 1
<1>1. call \in Call
  BY DEF Call, AnyForm, Id
<1>2. registration' = Append(registration, call) /\ users' = users /\ wallet' = wallet
  BY DEF Register
<1>3. call.step = "create" OBVIOUS
<1> HIDE DEF call
<1>4. /\ registration' \in Seq(Call) /\ DOMAIN registration' = DOMAIN registration \cup {i}
      /\ i \notin DOMAIN registration /\ registration'[i] = call
      /\ \A j \in DOMAIN registration : registration'[j] = registration[j]
      /\ \A j \in DOMAIN registration : UserRow(j)' = UserRow(j)
  BY <1>1, <1>2, NewCall
<1> HIDE DEF i
<1>5. ServerType' BY <1>2, <1>4 DEF ServerType
<1>6. KeysAreHeld' BY <1>2, <1>3, <1>4 DEF KeysAreHeld, Clash
<1>7. AnswersAreTrue' BY <1>2, <1>3, <1>4 DEF AnswersAreTrue, Owns, ServerType
<1>8. OneAccountOneReward' BY <1>2 DEF OneAccountOneReward, Clash
<1>9. ServerGoesOn BY <1>2, <1>4 DEF ServerGoesOn
<1> QED BY <1>5, <1>6, <1>7, <1>8, <1>9

-----------------------------------------------------------------------------
\* What an app holds stays its owner's while the server goes on.
LEMMA StillOwned ==
    ASSUME ServerGoesOn, NEW d, NEW app, HoldsOwnAccount(d, app)
    PROVE  HoldsOwnAccount(d, app)'
<1>1. ASSUME NEW k, Owns(d, k) PROVE Owns(d, k)'
  BY <1>1 DEF Owns, ServerGoesOn
<1> QED BY <1>1 DEF HoldsOwnAccount, ServerGoesOn

\* What holds of the server holds while it does nothing.
LEMMA ServerStays ==
    ASSUME ServerInv, UNCHANGED <<users, wallet, registration>>
    PROVE  ServerInv' /\ ServerGoesOn
<1>1. users' = users /\ wallet' = wallet /\ registration' = registration
  OBVIOUS
<1>2. ServerType' BY <1>1 DEF ServerInv, ServerType, UserRow
<1>3. KeysAreHeld' BY <1>1 DEF ServerInv, KeysAreHeld, Clash
<1>4. AnswersAreTrue' BY <1>1 DEF ServerInv, AnswersAreTrue, Owns
<1>5. OneAccountOneReward' BY <1>1 DEF ServerInv, OneAccountOneReward, Clash
<1> QED BY <1>1, <1>2, <1>3, <1>4, <1>5 DEF ServerInv, ServerGoesOn

\* A step of one phone or none, whatever the server does, leaves the other phones' alone.
LEMMA OnePhone ==
    ASSUME IInv, ServerInv', ServerGoesOn, NEW d \in Device, NEW app \in AppState,
           phone' = [phone EXCEPT ![d] = app], PageFollowsAuth(app), HoldsOwnAccount(d, app)'
    PROVE  IInv'
<1>1. phone \in [Device -> AppState] BY DEF IInv
<1>2. \A e \in Device : phone'[e] = IF e = d THEN app ELSE phone[e]
  BY <1>1
<1>3. ASSUME NEW e \in Device PROVE PageFollowsAuth(phone[e])' /\ HoldsOwnAccount(e, phone[e])'
  <2>1. PICK app_e : app_e = phone'[e]
    OBVIOUS
  <2>2. PageFollowsAuth(app_e) /\ HoldsOwnAccount(e, app_e)'
    <3>1. CASE e = d BY <1>2, <2>1, <3>1
    <3>2. CASE e # d
      <4>1. PageFollowsAuth(app_e) /\ HoldsOwnAccount(e, app_e)
        BY <1>2, <2>1, <3>2 DEF IInv
      <4> QED BY <4>1, StillOwned
    <3> QED BY <3>1, <3>2
  <2> QED BY <2>1, <2>2 DEF PageFollowsAuth, HoldsOwnAccount
<1>4. phone' \in [Device -> AppState] BY <1>1
<1> QED BY <1>3, <1>4 DEF IInv

\* One app goes on by itself, with an account of its owner's and the page of its state.
LEMMA AppStep ==
    ASSUME IInv, NEW d \in Device, NEW app \in AppState,
           phone' = [phone EXCEPT ![d] = app], UNCHANGED <<users, wallet, registration>>,
           PageFollowsAuth(app), HoldsOwnAccount(d, app)
    PROVE  IInv'
<1>1. ServerInv' /\ ServerGoesOn BY ServerStays DEF IInv
<1>2. HoldsOwnAccount(d, app)' BY <1>1, StillOwned
<1> QED BY <1>1, <1>2, OnePhone

\* Where the redirect of a finished call leads: out of the app, or into it.
LEMMA EndOfCall ==
    ASSUME NEW app \in AppState, NEW auth \in {"out", "error", "in"}
    PROVE  LET n == Ends(app, auth)
           IN  /\ n \in AppState /\ n.auth = auth /\ n.doing = "nothing"
               /\ n.token = app.token /\ n.socket = app.socket /\ n.user = app.user
               /\ auth = "in" => n.page = "/home"
               /\ auth # "in" => n.page \in {"/login", "/register"}
<1> DEFINE page == Redirect(app.page, auth)
<1>1. /\ page \in {"/splash", "/login", "/register", "/home"}
      /\ auth = "in" => page = "/home"
      /\ auth # "in" => page \in {"/login", "/register"}
  <2>1. app.page \in {"/splash", "/login", "/register", "/home"} BY DEF AppState
  <2> QED BY <2>1 DEF Redirect, PublicRoutes
<1>2. Ends(app, auth) = [app EXCEPT !.auth = auth, !.page = page, !.doing = "nothing",
                                    !.call = NoCall, !.email = "", !.result = NoAccount]
  BY DEF Ends, Becomes, AppState
<1> HIDE DEF page
<1> QED BY <1>1, <1>2, NoUserIsId DEF AppState

\* An app that gets in has the account for its user and its socket.
LEMMA SignedInType ==
    ASSUME NEW app \in AppState, NEW user \in Id
    PROVE  LET n == SignedIn(app, user)
           IN  /\ n \in AppState /\ n.auth = "in" /\ n.doing = "nothing" /\ n.page = "/home"
               /\ n.token = app.token /\ n.socket = user /\ n.user = user
<1> DEFINE ended == Ends(app, "in")
<1>1. /\ ended \in AppState /\ ended.auth = "in" /\ ended.doing = "nothing"
      /\ ended.token = app.token /\ ended.page = "/home"
  BY EndOfCall
<1>2. SignedIn(app, user) = [ended EXCEPT !.user = user, !.socket = user]
  BY DEF SignedIn
<1> HIDE DEF ended
<1> QED BY <1>1, <1>2 DEF AppState

\* A call that ends without an account leaves the app outside, holding what it held.
LEMMA EndsOutside ==
    ASSUME NEW d, NEW app \in AppState, NEW auth \in {"out", "error"}, app.auth = "loading",
           PageFollowsAuth(app), HoldsOwnAccount(d, app)
    PROVE  /\ Ends(app, auth) \in AppState
           /\ PageFollowsAuth(Ends(app, auth)) /\ HoldsOwnAccount(d, Ends(app, auth))
<1> DEFINE n == Ends(app, auth)
<1>1. /\ n \in AppState /\ n.auth = auth /\ n.doing = "nothing"
      /\ n.token = app.token /\ n.socket = app.socket
      /\ n.page \in {"/login", "/register"}
  BY EndOfCall
<1> HIDE DEF n
<1>2. PageFollowsAuth(n) BY <1>1 DEF PageFollowsAuth
<1>3. HoldsOwnAccount(d, n) BY <1>1 DEF HoldsOwnAccount
<1> QED BY <1>1, <1>2, <1>3 DEF n

\* An app that waits and then holds its owner's account gets in with it.
LEMMA GetsIn ==
    ASSUME NEW d, NEW app \in AppState, NEW user \in Id, Owns(d, user), app.token = user
    PROVE  /\ SignedIn(app, user) \in AppState
           /\ PageFollowsAuth(SignedIn(app, user)) /\ HoldsOwnAccount(d, SignedIn(app, user))
<1> DEFINE n == SignedIn(app, user)
<1>1. /\ n \in AppState /\ n.auth = "in" /\ n.doing = "nothing" /\ n.page = "/home"
      /\ n.token = app.token /\ n.socket = user /\ n.user = user
  BY SignedInType
<1> HIDE DEF n
<1>2. PageFollowsAuth(n) BY <1>1 DEF PageFollowsAuth
<1>3. HoldsOwnAccount(d, n) BY <1>1 DEF HoldsOwnAccount
<1> QED BY <1>1, <1>2, <1>3 DEF n

\* A tap on a button: the app waits for the answer on the page it is on.
LEMMA Waits ==
    ASSUME NEW app \in AppState, app.auth \in {"out", "error"}, app.page \in {"/login", "/register"}
    PROVE  LET n == Becomes(app, "loading")
           IN  /\ n \in AppState /\ n.auth = "loading" /\ n.page = app.page
               /\ n.token = app.token /\ n.socket = app.socket /\ n.doing = app.doing
<1>1. Redirect(app.page, "loading") = app.page
  BY DEF Redirect, PublicRoutes
<1>2. Becomes(app, "loading") = [app EXCEPT !.auth = "loading", !.page = app.page]
  BY <1>1 DEF Becomes, AppState
<1> QED BY <1>2 DEF AppState

-----------------------------------------------------------------------------
\* What every step of a phone starts from.
LEMMA OfPhone ==
    ASSUME IInv, NEW d \in Device
    PROVE  /\ ServerInv /\ phone[d] \in AppState
           /\ PageFollowsAuth(phone[d]) /\ HoldsOwnAccount(d, phone[d])
  BY DEF IInv

\* build() reads the stored token, and asks for its account or only pings.
LEMMA ReadAuthTokenStep ==
    ASSUME IInv, NEW d \in Device, ReadAuthToken(d)
    PROVE  IInv'
<1> DEFINE app == phone[d]
           n == [app EXCEPT !.doing = IF app.token = NoAccount THEN "ping" ELSE "me"]
<1>1. app \in AppState /\ PageFollowsAuth(app) /\ HoldsOwnAccount(d, app)
      /\ app.doing = "readAuthToken" /\ App(d, n)
  BY OfPhone DEF ReadAuthToken, Doing
<1> HIDE DEF app
<1>2. n \in AppState BY <1>1 DEF AppState
<1>3. PageFollowsAuth(n) BY <1>1 DEF PageFollowsAuth, AppState
<1>4. HoldsOwnAccount(d, n) BY <1>1 DEF HoldsOwnAccount, PageFollowsAuth, AppState
<1> HIDE DEF n
<1> QED BY <1>1, <1>2, <1>3, <1>4, AppStep DEF App

\* Calls that end without an account: the ping, a network error or a timeout.
LEMMA NoAnswerStep ==
    ASSUME IInv, NEW d \in Device, PingEnds(d) \/ CallFails(d)
    PROVE  IInv'
<1>1. phone[d] \in AppState /\ PageFollowsAuth(phone[d]) /\ HoldsOwnAccount(d, phone[d])
  BY OfPhone
<1>2. phone[d].doing \in {"ping", "me", "register", "login"}
      /\ (App(d, Ends(phone[d], "out")) \/ App(d, Ends(phone[d], "error")))
  BY DEF PingEnds, CallFails, Doing
<1>3. phone[d].auth = "loading"
  BY <1>1, <1>2 DEF PageFollowsAuth, AppState
<1> QED BY <1>1, <1>2, <1>3, EndsOutside, AppStep DEF App

\* The answer of /auth/me: in with the account of the token, or out without a token.
LEMMA MeAnsweredStep ==
    ASSUME IInv, NEW d \in Device, MeAnswered(d)
    PROVE  IInv'
<1>1. phone[d] \in AppState /\ PageFollowsAuth(phone[d]) /\ HoldsOwnAccount(d, phone[d])
      /\ phone[d].doing = "me"
  BY OfPhone DEF MeAnswered, Doing
<1>2. phone[d].auth = "loading" /\ phone[d].token \in Id /\ Owns(d, phone[d].token)
  BY <1>1 DEF PageFollowsAuth, HoldsOwnAccount, AppState
<1>3. CASE phone[d].expired
  <2> DEFINE ended == Ends(phone[d], "out")
             n == [ended EXCEPT !.token = NoAccount, !.expired = FALSE]
  <2>1. ended \in AppState /\ PageFollowsAuth(ended) /\ HoldsOwnAccount(d, ended)
    BY <1>1, <1>2, EndsOutside
  <2>2. ended.auth = "out" /\ ended.doing = "nothing" BY <1>1, EndOfCall
  <2>3. App(d, n) BY <1>3 DEF MeAnswered
  <2> HIDE DEF ended
  <2>4. n \in AppState BY <2>1, NoUserIsId DEF AppState
  <2>5. PageFollowsAuth(n) BY <2>1 DEF PageFollowsAuth, AppState
  <2>6. HoldsOwnAccount(d, n) BY <2>1, <2>2 DEF HoldsOwnAccount, AppState
  <2> HIDE DEF n
  <2> QED BY <2>3, <2>4, <2>5, <2>6, AppStep DEF App
<1>4. CASE ~phone[d].expired
  <2>1. App(d, SignedIn(phone[d], phone[d].token)) BY <1>4 DEF MeAnswered
  <2> QED BY <1>1, <1>2, <2>1, GetsIn, AppStep DEF App
<1> QED BY <1>3, <1>4

\* A stored token runs out; nothing of the app changes yet.
LEMMA ExpireStep ==
    ASSUME IInv, NEW d \in Device, Expire(d)
    PROVE  IInv'
<1> DEFINE app == phone[d]
           n == [app EXCEPT !.expired = TRUE]
<1>1. app \in AppState /\ PageFollowsAuth(app) /\ HoldsOwnAccount(d, app) /\ App(d, n)
  BY OfPhone DEF Expire
<1> HIDE DEF app
<1>2. n \in AppState BY <1>1 DEF AppState
<1>3. PageFollowsAuth(n) BY <1>1 DEF PageFollowsAuth, AppState
<1>4. HoldsOwnAccount(d, n) BY <1>1 DEF HoldsOwnAccount, AppState
<1> HIDE DEF n
<1> QED BY <1>1, <1>2, <1>3, <1>4, AppStep DEF App

\* The owner goes between the two pages outside, which the redirect allows.
LEMMA GoToStep ==
    ASSUME IInv, NEW d \in Device, NEW page \in PublicRoutes, GoTo(d, page)
    PROVE  IInv'
<1> DEFINE app == phone[d]
           to == Redirect(page, app.auth)
           n == [app EXCEPT !.page = to]
<1>1. app \in AppState /\ PageFollowsAuth(app) /\ HoldsOwnAccount(d, app) /\ App(d, n)
      /\ {app.page, page} = {"/login", "/register"}
  BY OfPhone DEF GoTo
<1> HIDE DEF app
<1>2. app.page \in {"/login", "/register"} /\ page \in {"/login", "/register"}
  BY <1>1
<1>3. app.auth \in {"loading", "out", "error"}
  BY <1>1, <1>2 DEF PageFollowsAuth, AppState
<1>4. to \in {"/login", "/register"}
  BY <1>2, <1>3 DEF Redirect, PublicRoutes
<1> HIDE DEF to
<1>5. n \in AppState BY <1>1, <1>4 DEF AppState
<1>6. PageFollowsAuth(n) BY <1>1, <1>3, <1>4 DEF PageFollowsAuth, AppState, PublicRoutes
<1>7. HoldsOwnAccount(d, n) BY <1>1 DEF HoldsOwnAccount, AppState
<1> HIDE DEF n
<1> QED BY <1>1, <1>5, <1>6, <1>7, AppStep DEF App

\* login: the app waits with the email.
LEMMA TapLoginStep ==
    ASSUME IInv, NEW d \in Device, NEW form \in Forms[d], TapLogin(d, form)
    PROVE  IInv'
<1> DEFINE app == phone[d]
           waiting == Becomes(app, "loading")
           n == [waiting EXCEPT !.doing = "login", !.email = form.email]
<1>1. app \in AppState /\ PageFollowsAuth(app) /\ HoldsOwnAccount(d, app) /\ App(d, n)
      /\ app.page = "/login" /\ app.auth \in {"out", "error"}
  BY OfPhone DEF TapLogin
<1> HIDE DEF app
<1>2. /\ waiting \in AppState /\ waiting.auth = "loading" /\ waiting.page = app.page
      /\ waiting.token = app.token /\ waiting.socket = app.socket
  BY <1>1, Waits
<1>3. form.email \in Email BY DEF AnyForm, Email
<1> HIDE DEF waiting
<1>4. n \in AppState BY <1>2, <1>3 DEF AppState
<1>5. PageFollowsAuth(n) BY <1>1, <1>2 DEF PageFollowsAuth, AppState, PublicRoutes
<1>6. HoldsOwnAccount(d, n) BY <1>1, <1>2 DEF HoldsOwnAccount, AppState
<1> HIDE DEF n
<1> QED BY <1>1, <1>4, <1>5, <1>6, AppStep DEF App

\* A login finds an account by its email only with the password of its owner.
LEMMA LoginAnsweredStep ==
    ASSUME IInv, NEW d \in Device, LoginAnswered(d)
    PROVE  IInv'
<1> DEFINE app == phone[d]
           found == Login(app.email, d)
           user == CHOOSE u \in found : TRUE
           n == [app EXCEPT !.doing = "saveAuthToken", !.result = user]
<1>1. ServerInv /\ app \in AppState /\ PageFollowsAuth(app) /\ HoldsOwnAccount(d, app)
      /\ app.doing = "login"
  BY OfPhone DEF LoginAnswered, Doing
<1>2. App(d, IF found = {} THEN Ends(app, "error") ELSE n)
  BY DEF LoginAnswered
<1> HIDE DEF app
<1>3. app.auth = "loading"
  BY <1>1 DEF PageFollowsAuth, AppState
<1>4. CASE found = {}
  BY <1>1, <1>2, <1>3, <1>4, EndsOutside, AppStep DEF App, app
<1>5. CASE found # {}
  <2>1. user \in found BY <1>5
  <2>2. Owns(d, user) BY <2>1 DEF Owns, Login
  <2>3. user \in Id
    BY <1>1, <2>2, CallType DEF Owns, ServerInv, ServerType, Id
  <2>4. App(d, n) BY <1>2, <1>5
  <2> HIDE DEF user
  <2>5. n \in AppState BY <1>1, <2>3 DEF AppState
  <2>6. PageFollowsAuth(n) BY <1>1, <1>3 DEF PageFollowsAuth, AppState
  <2>7. HoldsOwnAccount(d, n) BY <1>1, <1>3, <2>2 DEF HoldsOwnAccount, AppState
  <2> HIDE DEF n
  <2> QED BY <2>4, <2>5, <2>6, <2>7, AppStep DEF App
<1> QED BY <1>4, <1>5

\* register answered: only 201 brings an account, the one made for this call.
LEMMA RegisterAnsweredStep ==
    ASSUME IInv, NEW d \in Device, RegisterAnswered(d)
    PROVE  IInv'
<1> DEFINE app == phone[d]
           answer == registration[app.call]
           n == [app EXCEPT !.doing = "saveAuthToken", !.result = answer.user]
<1>1. ServerInv /\ app \in AppState /\ PageFollowsAuth(app) /\ HoldsOwnAccount(d, app)
      /\ app.doing = "register" /\ answer.step = "answered"
  BY OfPhone DEF RegisterAnswered, Doing
<1>2. App(d, IF answer.status = 201 THEN n ELSE Ends(app, "error"))
  BY DEF RegisterAnswered
<1> HIDE DEF app
<1>3. app.auth = "loading"
  BY <1>1 DEF PageFollowsAuth, AppState
<1>4. CASE answer.status # 201
  BY <1>1, <1>2, <1>3, <1>4, EndsOutside, AppStep DEF App
<1>5. CASE answer.status = 201
  <2>1. app.call \in DOMAIN registration /\ answer.from = d
    BY <1>1 DEF HoldsOwnAccount
  <2>2. Owns(d, answer.user)
    BY <1>1, <1>5, <2>1 DEF ServerInv, AnswersAreTrue
  <2>3. answer.user \in Id
    BY <1>1, <2>1, CallType DEF ServerInv, Call
  <2>4. App(d, n) BY <1>2, <1>5
  <2> HIDE DEF answer
  <2>5. n \in AppState BY <1>1, <2>3 DEF AppState
  <2>6. PageFollowsAuth(n) BY <1>1, <1>3 DEF PageFollowsAuth, AppState
  <2>7. HoldsOwnAccount(d, n) BY <1>1, <1>3, <2>2 DEF HoldsOwnAccount, AppState
  <2> HIDE DEF n
  <2> QED BY <2>4, <2>5, <2>6, <2>7, AppStep DEF App
<1> QED BY <1>4, <1>5

\* _onAuthenticated stores the token, then opens the socket with it.
LEMMA OnAuthenticatedStep ==
    ASSUME IInv, NEW d \in Device, SaveAuthToken(d) \/ Connect(d)
    PROVE  IInv'
<1> DEFINE app == phone[d]
           n == [app EXCEPT !.doing = "connect", !.token = app.result, !.expired = FALSE]
<1>1. app \in AppState /\ PageFollowsAuth(app) /\ HoldsOwnAccount(d, app)
      /\ app.doing \in {"saveAuthToken", "connect"}
  BY OfPhone DEF SaveAuthToken, Connect, Doing
<1>2. app.result \in Id /\ Owns(d, app.result) /\ app.auth = "loading"
  BY <1>1 DEF HoldsOwnAccount, PageFollowsAuth, AppState
<1>3. CASE SaveAuthToken(d)
  <2>1. App(d, n) BY <1>3 DEF SaveAuthToken
  <2> HIDE DEF app
  <2>2. n \in AppState BY <1>1, <1>2 DEF AppState
  <2>3. PageFollowsAuth(n) BY <1>1, <1>2 DEF PageFollowsAuth, AppState
  <2>4. HoldsOwnAccount(d, n) BY <1>1, <1>2 DEF HoldsOwnAccount, AppState
  <2> HIDE DEF n
  <2> QED BY <2>1, <2>2, <2>3, <2>4, AppStep DEF App
<1>4. CASE Connect(d)
  <2>1. App(d, SignedIn(app, app.result)) /\ app.doing = "connect"
    BY <1>4 DEF Connect, Doing
  <2>2. app.token = app.result BY <1>1, <2>1 DEF HoldsOwnAccount
  <2> HIDE DEF app
  <2> QED BY <1>1, <1>2, <2>1, <2>2, GetsIn, AppStep DEF App
<1> QED BY <1>3, <1>4

\* logout clears the token, and then the session and the socket.
LEMMA LogoutStep ==
    ASSUME IInv, NEW d \in Device, TapLogout(d) \/ AuthTokenCleared(d)
    PROVE  IInv'
<1> DEFINE app == phone[d]
<1>1. app \in AppState /\ PageFollowsAuth(app) /\ HoldsOwnAccount(d, app)
  BY OfPhone
<1>2. CASE TapLogout(d)
  <2> DEFINE n == [app EXCEPT !.doing = "clearAuthToken", !.token = NoAccount, !.expired = FALSE]
  <2>1. App(d, n) /\ app.auth = "in" BY <1>2 DEF TapLogout
  <2> HIDE DEF app
  <2>2. n \in AppState BY <1>1, NoUserIsId DEF AppState
  <2>3. PageFollowsAuth(n) BY <1>1, <2>1 DEF PageFollowsAuth, AppState
  <2>4. HoldsOwnAccount(d, n) BY <1>1, <2>1 DEF HoldsOwnAccount, AppState
  <2> HIDE DEF n
  <2> QED BY <2>1, <2>2, <2>3, <2>4, AppStep DEF App
<1>3. CASE AuthTokenCleared(d)
  <2> DEFINE ended == Ends(app, "out")
             n == [ended EXCEPT !.user = NoAccount, !.socket = NoAccount]
  <2>1. App(d, n) BY <1>3 DEF AuthTokenCleared
  <2> HIDE DEF app
  <2>2. /\ ended \in AppState /\ ended.auth = "out" /\ ended.doing = "nothing"
        /\ ended.token = app.token /\ ended.page \in {"/login", "/register"}
    BY <1>1, EndOfCall
  <2> HIDE DEF ended
  <2>3. n \in AppState BY <2>2, NoUserIsId DEF AppState
  <2>4. PageFollowsAuth(n) BY <2>2 DEF PageFollowsAuth, AppState
  <2>5. HoldsOwnAccount(d, n) BY <1>1, <2>2 DEF HoldsOwnAccount, AppState
  <2> HIDE DEF n
  <2> QED BY <2>1, <2>3, <2>4, <2>5, AppStep DEF App
<1> QED BY <1>2, <1>3

\* A launch starts from the splash screen with whatever the storage holds.
LEMMA LaunchType ==
    ASSUME NEW d, NEW token \in Id, NEW expired \in BOOLEAN, token # NoAccount => Owns(d, token)
    PROVE  /\ Launched(token, expired) \in AppState
           /\ PageFollowsAuth(Launched(token, expired))
           /\ HoldsOwnAccount(d, Launched(token, expired))
<1>1. Launched(token, expired) \in AppState
  BY NoUserIsId DEF Launched, AppState
<1>2. PageFollowsAuth(Launched(token, expired))
  BY DEF Launched, PageFollowsAuth, PublicRoutes
<1>3. HoldsOwnAccount(d, Launched(token, expired))
  BY DEF Launched, HoldsOwnAccount
<1> QED BY <1>1, <1>2, <1>3

\* An app killed at any await is launched with its storage; the server is not touched.
LEMMA KillStep ==
    ASSUME IInv, NEW d \in Device, Kill(d)
    PROVE  IInv'
<1> DEFINE app == phone[d]
           n == Launched(app.token, app.expired)
<1>1. app \in AppState /\ HoldsOwnAccount(d, app)
  BY OfPhone
<1>2. phone' = [phone EXCEPT ![d] = n] /\ UNCHANGED <<users, wallet, registration>>
  BY DEF Kill
<1> HIDE DEF app
<1>3. app.token \in Id /\ app.expired \in BOOLEAN /\ (app.token # NoAccount => Owns(d, app.token))
  BY <1>1 DEF AppState, HoldsOwnAccount
<1>4. n \in AppState /\ PageFollowsAuth(n) /\ HoldsOwnAccount(d, n)
  BY <1>3, LaunchType
<1> HIDE DEF n
<1> QED BY <1>2, <1>4, AppStep

\* register: the call is sent, and the app waits for its answer.
LEMMA RegisterTap ==
    ASSUME IInv, NEW d \in Device, NEW form \in Forms[d], Register(d, form)
    PROVE  IInv'
<1> DEFINE app == phone[d]
           i == Len(registration) + 1
           waiting == Becomes(app, "loading")
           n == [waiting EXCEPT !.doing = "register", !.call = i]
           call == [from |-> d, form |-> form, step |-> "create", status |-> 0, user |-> NoAccount]
<1>1. ServerInv /\ app \in AppState /\ PageFollowsAuth(app) /\ HoldsOwnAccount(d, app)
  BY OfPhone
<1>2. app.page = "/register" /\ app.auth \in {"out", "error"}
      /\ phone' = [phone EXCEPT ![d] = n] /\ registration' = Append(registration, call)
  BY DEF Register
<1>3. ServerInv' /\ ServerGoesOn BY <1>1, RegisterStep
<1>4. call \in Call BY DEF Call, AnyForm, Id
<1>5. call.from = d OBVIOUS
<1> HIDE DEF call
<1>6. /\ DOMAIN registration' = DOMAIN registration \cup {i} /\ registration'[i] = call
      /\ i \in Nat
  BY <1>1, <1>2, <1>4, NewCall, LenProperties DEF ServerInv, ServerType
<1> HIDE DEF i, app
<1>7. /\ waiting \in AppState /\ waiting.auth = "loading" /\ waiting.page = app.page
      /\ waiting.token = app.token /\ waiting.socket = app.socket
  BY <1>1, <1>2, Waits
<1> HIDE DEF waiting
<1>8. n \in AppState BY <1>6, <1>7, NoUserIsId DEF AppState
<1>9. PageFollowsAuth(n) BY <1>1, <1>2, <1>7 DEF PageFollowsAuth, AppState, PublicRoutes
<1>10. /\ n.token = app.token /\ n.doing = "register" /\ n.call = i /\ n.auth = "loading"
  BY <1>7 DEF AppState
<1> HIDE DEF n
<1>11. PICK x : x = n
  OBVIOUS
<1>12. x.token # NoAccount => Owns(d, x.token)
  BY <1>1, <1>10, <1>11 DEF HoldsOwnAccount
<1>13. x.token # NoAccount => Owns(d, x.token)'
  BY <1>3, <1>12 DEF Owns, ServerGoesOn
<1>14. x.call \in DOMAIN registration' /\ registration'[x.call].from = d
  BY <1>5, <1>6, <1>10, <1>11
<1>15. HoldsOwnAccount(d, x)'
  BY <1>10, <1>11, <1>13, <1>14 DEF HoldsOwnAccount
<1> QED BY <1>2, <1>3, <1>8, <1>9, <1>11, <1>15, OnePhone

\* The server goes on while the phones wait.
LEMMA ServerStep ==
    ASSUME IInv,
           NEW i \in DOMAIN registration, Create(i) \/ CreditAndCommit(i) \/ AbortRegistration(i)
    PROVE  IInv'
<1>1. ServerInv' /\ ServerGoesOn
  BY CreateStep, CommitStep, AbortStep DEF IInv
<1>2. phone' = phone
  BY DEF Create, CreditAndCommit, AbortRegistration
<1>3. ASSUME NEW d \in Device PROVE PageFollowsAuth(phone[d])' /\ HoldsOwnAccount(d, phone[d])'
  <2>1. PICK app : app = phone[d]
    OBVIOUS
  <2>2. PageFollowsAuth(app) /\ HoldsOwnAccount(d, app)'
    BY <1>1, <2>1, StillOwned DEF IInv
  <2> QED BY <1>2, <2>1, <2>2 DEF PageFollowsAuth, HoldsOwnAccount
<1> QED BY <1>1, <1>2, <1>3 DEF IInv

-----------------------------------------------------------------------------
\* Every app is launched without a token, and nobody is registered.
LEMMA InitHolds == AccountsInit => IInv
<1> SUFFICES ASSUME AccountsInit PROVE IInv
  OBVIOUS
<1>1. registration \in Seq(Call) /\ DOMAIN registration = {}
  BY LenProperties, EmptySeq DEF AccountsInit
<1>2. ServerInv
  BY <1>1 DEF AccountsInit, ServerInv, ServerType, KeysAreHeld, AnswersAreTrue, OneAccountOneReward
<1>3. NoAccount \in Id BY DEF Id
<1>4. ASSUME NEW d \in Device
      PROVE  phone[d] \in AppState /\ PageFollowsAuth(phone[d]) /\ HoldsOwnAccount(d, phone[d])
  <2>1. phone[d] = Launched(NoAccount, FALSE) BY DEF AccountsInit
  <2> QED BY <1>3, <2>1, LaunchType
<1>5. phone \in [Device -> AppState] BY <1>4 DEF AccountsInit
<1> QED BY <1>2, <1>4, <1>5 DEF IInv

\* Every step keeps the invariant.
LEMMA StepHolds == IInv /\ [AccountsNext]_accountsVars => IInv'
<1> SUFFICES ASSUME IInv, [AccountsNext]_accountsVars PROVE IInv'
  OBVIOUS
<1>1. ASSUME NEW i \in DOMAIN registration, Create(i) \/ CreditAndCommit(i) \/ AbortRegistration(i)
      PROVE  IInv'
  BY <1>1, ServerStep
<1>2. ASSUME NEW d \in Device, ReadAuthToken(d) PROVE IInv'
  BY <1>2, ReadAuthTokenStep
<1>3. ASSUME NEW d \in Device, PingEnds(d) \/ CallFails(d) PROVE IInv'
  BY <1>3, NoAnswerStep
<1>4. ASSUME NEW d \in Device, MeAnswered(d) PROVE IInv'
  BY <1>4, MeAnsweredStep
<1>5. ASSUME NEW d \in Device, Expire(d) PROVE IInv'
  BY <1>5, ExpireStep
<1>6. ASSUME NEW d \in Device, NEW page \in PublicRoutes, GoTo(d, page) PROVE IInv'
  BY <1>6, GoToStep
<1>7. ASSUME NEW d \in Device, NEW form \in Forms[d], Register(d, form) PROVE IInv'
  BY <1>7, RegisterTap
<1>8. ASSUME NEW d \in Device, NEW form \in Forms[d], TapLogin(d, form) PROVE IInv'
  BY <1>8, TapLoginStep
<1>9. ASSUME NEW d \in Device, RegisterAnswered(d) PROVE IInv'
  BY <1>9, RegisterAnsweredStep
<1>10. ASSUME NEW d \in Device, LoginAnswered(d) PROVE IInv'
  BY <1>10, LoginAnsweredStep
<1>11. ASSUME NEW d \in Device, SaveAuthToken(d) \/ Connect(d) PROVE IInv'
  BY <1>11, OnAuthenticatedStep
<1>12. ASSUME NEW d \in Device, TapLogout(d) \/ AuthTokenCleared(d) PROVE IInv'
  BY <1>12, LogoutStep
<1>13. ASSUME NEW d \in Device, Kill(d) PROVE IInv'
  BY <1>13, KillStep
<1>14. ASSUME UNCHANGED accountsVars PROVE IInv'
  <2>1. ServerInv' BY <1>14, ServerStays DEF IInv, accountsVars
  <2>2. phone' = phone /\ registration' = registration /\ users' = users BY <1>14 DEF accountsVars
  <2> QED BY <2>1, <2>2 DEF IInv, PageFollowsAuth, HoldsOwnAccount, Owns
<1> QED
  BY <1>1, <1>2, <1>3, <1>4, <1>5, <1>6, <1>7, <1>8, <1>9, <1>10, <1>11, <1>12, <1>13, <1>14
  DEF AccountsNext

\* The invariant holds of every state: keys held by one registration at a time, answers
\* for the account they made, and in the hands of an app only its owner's account.
THEOREM AccountsInvariant == AccountsSpec => []IInv
  BY InitHolds, StepHolds, PTL DEF AccountsSpec

\* However many phones register, retry and abandon calls, with whatever emails and
\* usernames: no key has two accounts and every account got its one welcome reward.
THEOREM OneAccountOneRewardHolds == AccountsSpec => []OneAccountOneReward
<1>1. IInv => OneAccountOneReward
  BY DEF IInv, ServerInv
<1> QED BY <1>1, AccountsInvariant, PTL

\* An app at rest is logged out everywhere or logged in everywhere, as the owner of the
\* phone, wherever it was killed, its calls failed or its token ran out before.
THEOREM SessionIsWholeHolds == AccountsSpec => []SessionIsWhole
<1>1. IInv => SessionIsWhole
  <2> SUFFICES ASSUME IInv, NEW d \in Device, phone[d].doing = "nothing"
               PROVE  IF phone[d].auth = "in"
                      THEN /\ phone[d].page = "/home"
                           /\ phone[d].token = phone[d].user /\ phone[d].socket = phone[d].user
                           /\ \E u \in users : u.id = phone[d].user /\ u.password = d
                      ELSE phone[d].page \in {"/login", "/register"} /\ phone[d].socket = NoAccount
    BY DEF SessionIsWhole, Doing
  <2>1. phone[d] \in AppState /\ PageFollowsAuth(phone[d]) /\ HoldsOwnAccount(d, phone[d])
    BY OfPhone
  <2> QED BY <2>1 DEF PageFollowsAuth, HoldsOwnAccount, AppState, Owns
<1> QED BY <1>1, AccountsInvariant, PTL

-----------------------------------------------------------------------------
(***************************************************************************)
(* Entries and rewards are booked once, and every wallet that no two open  *)
(* transactions had a hand in is explained by its ledger, for every set of *)
(* games, seats and amounts.                                               *)
(*                                                                         *)
(* The idempotency keys carry the first proof: which keys of a game are in *)
(* the ledger depends on the game's status alone (KeysInv), and an open    *)
(* transaction has a row for each player it is done with unless his key    *)
(* was there before (TxInv).  The second proof adds what an open           *)
(* transaction knows of the balances (MoneyInv).                           *)
(***************************************************************************)
Kind(t) == IF t[1] = "start" THEN "entry" ELSE "reward"

Amount(kind, g) == IF kind = "entry" THEN -EntryAmount[g] ELSE TotalReward(g)

\* Those a transaction is about.
Payers(t, w) ==
    IF t[1] = "start" THEN ToSet(Seats[GameOf(t)])
    ELSE IF TotalReward(GameOf(t)) > 0 THEN {w} ELSE {}

Key == {<<"welcome", u>> : u \in User} \cup ({"entry", "reward"} \X Game \X User)
KeyOf(t, u) == <<Kind(t), GameOf(t), u>>
HasKey(u, key) == \E n \in DOMAIN ledger[u] : ledger[u][n].key = key

RowType == [key : Key, user : User, amount : Int, balanceAfter : Int]
DeltaType == [key : Key, user : User, amount : Int]
TxType == [phase : {"read", "write"}, winner : User \cup {NoUser}, todo : Seq(DeltaType),
           seen : Int, rows : [User -> Seq(RowType)]]

TypeInv ==
    /\ balance \in [User -> Int]
    /\ ledger \in [User -> Seq(RowType)]
    /\ game \in [Game -> {"WAITING", "IN_PROGRESS", "FINISHED"}]
    /\ winner \in [Game -> User \cup {NoUser}]
    /\ won \in [Game -> SUBSET User]
    /\ tx \in [Transaction -> {Closed} \cup TxType]

\* The ledger of each user has every key once, with the amount the key stands for.
LedgerInv ==
    /\ \A u \in User : \A n, m \in DOMAIN ledger[u] : ledger[u][n].key = ledger[u][m].key => n = m
    /\ \A u \in User : \A n \in DOMAIN ledger[u] :
          \A kind \in {"entry", "reward"}, g \in Game :
             ledger[u][n].key = <<kind, g, u>> => ledger[u][n].amount = Amount(kind, g)

\* The keys of a game that are in the ledger follow from its status and its winners.
KeysInv ==
    \A g \in Game : \A u \in ToSet(Seats[g]) :
        /\ HasKey(u, <<"entry", g, u>>) <=> game[g] # "WAITING"
        /\ HasKey(u, <<"reward", g, u>>) <=> u \in won[g] /\ TotalReward(g) > 0

\* A game that is over has a winner, any other has none.
WonInv ==
    \A g \in Game : IF game[g] = "FINISHED" THEN winner[g] \in won[g] ELSE won[g] = {}

\* What is left to do is what the transaction was opened for, each user once.
TodoInv(t, o) ==
    /\ \A i \in 1..Len(o.todo) :
          o.todo[i] = Delta(KeyOf(t, o.todo[i].user), o.todo[i].user, Amount(Kind(t), GameOf(t)))
    /\ \A i, j \in 1..Len(o.todo) : o.todo[i].user = o.todo[j].user => i = j
    /\ ChangedBy(o.todo) \subseteq Payers(t, o.winner)

\* Whoever is done has a row unless his key was there before; the others have none.
RowsInv(t, o) ==
    \A u \in User :
        IF u \in Payers(t, o.winner) \ ChangedBy(o.todo) /\ ~HasKey(u, KeyOf(t, u))
        THEN \E b \in Int : o.rows[u] = <<Row(KeyOf(t, u), u, Amount(Kind(t), GameOf(t)), b)>>
        ELSE o.rows[u] = <<>>

\* The game an open transaction belongs to.
GameInv(t, o) ==
    IF t[1] = "start" THEN game[GameOf(t)] = "WAITING"
    ELSE o.winner \in ToSet(Seats[GameOf(t)]) /\ game[GameOf(t)] # "WAITING"

\* The key was looked up and is not there.
WriteInv(o) ==
    o.phase = "write" => o.todo # <<>> /\ ~HasKey(o.todo[1].user, o.todo[1].key)

TxInv(t, o) == TodoInv(t, o) /\ RowsInv(t, o) /\ GameInv(t, o) /\ WriteInv(o)

PayInv ==
    /\ TypeInv /\ LedgerInv /\ KeysInv /\ WonInv
    /\ \A g \in Game : g \notin started => game[g] = "WAITING" /\ tx[<<"start", g>>] = Closed
    /\ \A g \in Game : tx[<<"start", g>>] = Closed \/ tx[<<"finish", g>>] = Closed
    /\ \A t \in Transaction : tx[t] # Closed => TxInv(t, tx[t])

-----------------------------------------------------------------------------
\* A transaction that is open has the fields of one.
LEMMA OpenHasType ==
    ASSUME TypeInv, NEW t \in Transaction
    PROVE  /\ tx[t] # Closed <=> tx[t] \in TxType
           /\ \A o \in TxType : o # Closed
<1>1. tx[t] \in {Closed} \cup TxType BY DEF TypeInv
<1>2. \A o \in TxType : o.phase # "closed" BY DEF TxType
<1>3. Closed.phase = "closed" BY DEF Closed
<1> QED BY <1>1, <1>2, <1>3

\* The keys of two bookings differ with the booking, and all from the welcome's.
LEMMA KeysDiffer ==
    /\ \A kind, g, u, kind2, g2, u2 :
          <<kind, g, u>> = <<kind2, g2, u2>> => kind = kind2 /\ g = g2 /\ u = u2
    /\ \A u, g, u2 : \A kind \in {"entry", "reward"} : <<"welcome", u>> # <<kind, g, u2>>
<1>1. ASSUME NEW u, NEW kind \in {"entry", "reward"}, NEW g, NEW u2,
             <<"welcome", u>> = <<kind, g, u2>>
      PROVE  FALSE
  <2>1. <<"welcome", u>>[1] = "welcome" /\ <<kind, g, u2>>[1] = kind OBVIOUS
  <2> QED BY <1>1, <2>1
<1> QED BY <1>1

\* The amounts booked are integers, and a pool is not negative.
LEMMA AmountsAreIntegers ==
    ASSUME NEW g \in Game
    PROVE  /\ EntryAmount[g] \in Nat /\ TotalReward(g) \in Nat
           /\ \A kind : Amount(kind, g) \in Int
<1>1. EntryAmount[g] \in Nat /\ Len(Seats[g]) \in Nat /\ WinBonus \in Nat
  BY GamesAssumption, AmountsAssumption, LenProperties
<1>2. \A a, b \in Nat : a * b \in Nat OBVIOUS
<1>3. TotalReward(g) \in Nat BY <1>1, <1>2 DEF TotalReward
<1> QED BY <1>1, <1>3 DEF Amount

\* doStartGame debits every seat once.
LEMMA StartTodo ==
    ASSUME NEW g \in Game
    PROVE  /\ DeductGameEntries(g) \in Seq(DeltaType)
           /\ \A i \in 1..Len(DeductGameEntries(g)) :
                 DeductGameEntries(g)[i] = Delta(<<"entry", g, DeductGameEntries(g)[i].user>>,
                                                 DeductGameEntries(g)[i].user, -EntryAmount[g])
           /\ \A i, j \in 1..Len(DeductGameEntries(g)) :
                 DeductGameEntries(g)[i].user = DeductGameEntries(g)[j].user => i = j
           /\ ChangedBy(DeductGameEntries(g)) = ToSet(Seats[g])
<1> DEFINE todo == DeductGameEntries(g)
           n == Len(Seats[g])
<1>1. n \in Nat /\ DOMAIN Seats[g] = 1..n /\ \A i \in 1..n : Seats[g][i] \in User
  BY GamesAssumption, LenProperties, ElementOfSeq
<1>2. todo = [i \in 1..n |-> Delta(<<"entry", g, Seats[g][i]>>, Seats[g][i], -EntryAmount[g])]
  BY DEF DeductGameEntries
<1> HIDE DEF todo, n
<1>3. \A i \in 1..n : /\ todo[i] = Delta(<<"entry", g, Seats[g][i]>>, Seats[g][i], -EntryAmount[g])
                      /\ todo[i].user = Seats[g][i]
  BY <1>2 DEF Delta
<1>4. \A i \in 1..n : todo[i] \in DeltaType
  <2> SUFFICES ASSUME NEW i \in 1..n PROVE todo[i] \in DeltaType
    OBVIOUS
  <2>1. <<"entry", g, Seats[g][i]>> \in Key BY <1>1 DEF Key
  <2>2. -EntryAmount[g] \in Int BY AmountsAreIntegers
  <2>3. \A k \in Key, u \in User, a \in Int : Delta(k, u, a) \in DeltaType
    BY DEF Delta, DeltaType
  <2> QED BY <1>1, <1>3, <2>1, <2>2, <2>3
<1>5. todo \in Seq(DeltaType) /\ Len(todo) = n /\ DOMAIN todo = 1..n
  <2>1. DOMAIN todo = 1..n BY <1>2
  <2>2. todo = [i \in 1..n |-> todo[i]] BY <1>2
  <2>3. todo \in [1..n -> DeltaType] BY <1>4, <2>2
  <2>4. n \in Nat BY <1>1
  <2>5. todo \in Seq(DeltaType) BY <2>3, <2>4, SeqDef
  <2> QED BY <2>1, <2>4, <2>5, LenProperties
<1>6. \A i, j \in 1..n : todo[i].user = todo[j].user => i = j
  BY <1>1, <1>3, GamesAssumption DEF IsInjective
<1>7. ChangedBy(todo) = ToSet(Seats[g])
  BY <1>1, <1>3, <1>5 DEF ChangedBy, ToSet
<1> QED BY <1>3, <1>5, <1>6, <1>7 DEF todo

\* finishGame credits the winner, if there is anything to credit.
LEMMA FinishTodo ==
    ASSUME NEW g \in Game, NEW w \in User
    PROVE  /\ CreditGameReward(g, w) \in Seq(DeltaType)
           /\ \A i \in 1..Len(CreditGameReward(g, w)) :
                 CreditGameReward(g, w)[i] = Delta(<<"reward", g, CreditGameReward(g, w)[i].user>>,
                                                   CreditGameReward(g, w)[i].user, TotalReward(g))
           /\ \A i, j \in 1..Len(CreditGameReward(g, w)) :
                 CreditGameReward(g, w)[i].user = CreditGameReward(g, w)[j].user => i = j
           /\ ChangedBy(CreditGameReward(g, w)) = IF TotalReward(g) > 0 THEN {w} ELSE {}
<1> DEFINE todo == CreditGameReward(g, w)
           d == Delta(<<"reward", g, w>>, w, TotalReward(g))
<1>1. TotalReward(g) \in Nat BY AmountsAreIntegers
<1>2. CASE TotalReward(g) > 0
  <2>1. todo = <<d>> BY <1>2 DEF CreditGameReward
  <2>2. <<"reward", g, w>> \in Key BY DEF Key
  <2>3. d \in DeltaType /\ d.user = w BY <1>1, <2>2 DEF Delta, DeltaType
  <2> HIDE DEF d, todo
  <2>4. todo \in Seq(DeltaType) /\ Len(todo) = 1 /\ DOMAIN todo = {1} /\ todo[1] = d
    BY <2>1, <2>3
  <2>5. ChangedBy(todo) = {w} BY <2>3, <2>4 DEF ChangedBy
  <2>6. 1..1 = {1} OBVIOUS
  <2> QED BY <1>2, <2>3, <2>4, <2>5, <2>6 DEF d, todo
<1>3. CASE ~(TotalReward(g) > 0)
  <2>1. todo = <<>> BY <1>3 DEF CreditGameReward
  <2> HIDE DEF todo
  <2>2. todo \in Seq(DeltaType) /\ Len(todo) = 0 /\ DOMAIN todo = {} BY <2>1
  <2>3. ChangedBy(todo) = {} BY <2>2 DEF ChangedBy
  <2>4. 1..0 = {} OBVIOUS
  <2> QED BY <1>3, <2>2, <2>3, <2>4 DEF todo
<1> QED BY <1>2, <1>3

\* The next delta is that of one user who is not done, and the rest is that of the others.
LEMMA TodoGoesOn ==
    ASSUME NEW t \in Transaction, NEW o \in TxType, TodoInv(t, o), o.todo # <<>>
    PROVE  /\ Head(o.todo) = o.todo[1] /\ o.todo[1] \in DeltaType
           /\ o.todo[1] = Delta(KeyOf(t, o.todo[1].user), o.todo[1].user, Amount(Kind(t), GameOf(t)))
           /\ o.todo[1].user \in User /\ o.todo[1].key = KeyOf(t, o.todo[1].user)
           /\ o.todo[1].user \in Payers(t, o.winner) /\ o.todo[1].user \in ChangedBy(o.todo)
           /\ Tail(o.todo) \in Seq(DeltaType)
           /\ ChangedBy(Tail(o.todo)) = ChangedBy(o.todo) \ {o.todo[1].user}
           /\ \A q : q.todo = Tail(o.todo) /\ q.winner = o.winner => TodoInv(t, q)
<1> DEFINE s == o.todo
           r == Tail(o.todo)
           n == Len(o.todo)
<1>1. s \in Seq(DeltaType) /\ s # <<>> BY DEF TxType
<1>2. /\ \A i \in 1..n : s[i] = Delta(KeyOf(t, s[i].user), s[i].user, Amount(Kind(t), GameOf(t)))
      /\ \A i, j \in 1..n : s[i].user = s[j].user => i = j
      /\ ChangedBy(s) \subseteq Payers(t, o.winner)
  BY DEF TodoInv
<1>3. n \in Nat /\ n >= 1 /\ DOMAIN s = 1..n /\ 1 \in 1..n
  <2>1. n \in Nat /\ DOMAIN s = 1..n BY <1>1, LenProperties
  <2>2. n # 0 BY <1>1, EmptySeq
  <2> QED BY <2>1, <2>2
<1>4. /\ Head(s) = s[1] /\ r \in Seq(DeltaType) /\ Len(r) = n - 1
      /\ \A i \in 1..Len(r) : r[i] = s[i + 1]
  BY <1>1, HeadTailProperties
<1>5. DOMAIN r = 1..(n - 1) BY <1>4, LenProperties
<1> HIDE DEF s, r, n
<1>6. s[1] \in DeltaType BY <1>1, <1>3, ElementOfSeq DEF n
<1>7. ChangedBy(r) = ChangedBy(s) \ {s[1].user}
  <2>1. ASSUME NEW i \in 1..(n - 1) PROVE s[i + 1].user # s[1].user /\ i + 1 \in 1..n
    <3>1. i + 1 \in 1..n /\ i + 1 # 1 BY <1>3
    <3> QED BY <1>2, <1>3, <3>1
  <2>2. \A i \in 1..n : i = 1 \/ (i - 1 \in 1..(n - 1) /\ (i - 1) + 1 = i) BY <1>3
  <2>3. \A i \in 1..(n - 1) : r[i] = s[i + 1] BY <1>4
  <2>4. ChangedBy(r) \subseteq ChangedBy(s) \ {s[1].user}
    BY <1>3, <1>5, <2>1, <2>3 DEF ChangedBy
  <2>5. ASSUME NEW i \in 1..n, s[i].user # s[1].user PROVE s[i].user \in ChangedBy(r)
    <3>1. i - 1 \in DOMAIN r /\ r[i - 1] = s[i]
      BY <1>5, <2>2, <2>3, <2>5
    <3> QED BY <3>1 DEF ChangedBy
  <2> QED BY <1>3, <2>4, <2>5 DEF ChangedBy
<1>8. ASSUME NEW q, q.todo = r, q.winner = o.winner PROVE TodoInv(t, q)
  <2>1. \A i \in 1..(n - 1) : i + 1 \in 1..n BY <1>3
  <2>2. \A i \in 1..Len(r) : r[i] = Delta(KeyOf(t, r[i].user), r[i].user, Amount(Kind(t), GameOf(t)))
    BY <1>2, <1>4, <2>1
  <2>3. ASSUME NEW i \in 1..Len(r), NEW j \in 1..Len(r), r[i].user = r[j].user PROVE i = j
    <3>1. i + 1 = j + 1 BY <1>2, <1>4, <2>1, <2>3
    <3> QED BY <3>1
  <2>4. ChangedBy(r) \subseteq Payers(t, o.winner) BY <1>2, <1>7
  <2> QED BY <1>8, <2>2, <2>3, <2>4 DEF TodoInv
<1>9. s[1].user \in User /\ s[1].key = KeyOf(t, s[1].user)
  BY <1>2, <1>3, <1>6 DEF DeltaType, Delta
<1>10. s[1].user \in ChangedBy(s) BY <1>3 DEF ChangedBy
<1> QED BY <1>2, <1>3, <1>4, <1>6, <1>7, <1>8, <1>9, <1>10 DEF s, r

\* One transaction changes, the tables do not.
LEMMA TxChanges ==
    ASSUME PayInv, NEW t \in Transaction, NEW q \in {Closed} \cup TxType,
           tx' = [tx EXCEPT ![t] = q],
           \/ tx[t] # Closed \/ q = Closed
           \/ tx[<<"start", GameOf(t)>>] = Closed /\ tx[<<"finish", GameOf(t)>>] = Closed,
           started \subseteq started',
           q # Closed => TxInv(t, q) /\ (t[1] = "start" => GameOf(t) \in started'),
           balance' = balance, ledger' = ledger, game' = game, winner' = winner, won' = won
    PROVE  PayInv'
<1>1. \A o \in Transaction : tx'[o] = IF o = t THEN q ELSE tx[o] BY DEF PayInv, TypeInv
<1>2. TypeInv'
  <2>1. tx \in [Transaction -> {Closed} \cup TxType] BY DEF PayInv, TypeInv
  <2>2. tx' \in [Transaction -> {Closed} \cup TxType] BY <2>1
  <2> QED BY <2>2 DEF PayInv, TypeInv
<1>3. LedgerInv' /\ KeysInv'
  <2>1. LedgerInv' BY DEF PayInv, LedgerInv, Amount, TotalReward
  <2>2. KeysInv' BY DEF PayInv, KeysInv, HasKey, TotalReward, ToSet
  <2> QED BY <2>1, <2>2
<1>6. ASSUME NEW g \in Game, g \notin started'
      PROVE  game'[g] = "WAITING" /\ tx'[<<"start", g>>] = Closed
  <2>1. <<"start", g>> \in Transaction /\ <<"start", g>>[1] = "start" /\ GameOf(<<"start", g>>) = g
    BY DEF Transaction, GameOf
  <2>2. game[g] = "WAITING" /\ tx[<<"start", g>>] = Closed BY <1>6 DEF PayInv
  <2>3. CASE t = <<"start", g>> BY <1>1, <1>6, <2>1, <2>2, <2>3
  <2>4. CASE t # <<"start", g>> BY <1>1, <2>1, <2>2, <2>4
  <2> QED BY <2>2, <2>3, <2>4
<1>4. \A g \in Game : tx'[<<"start", g>>] = Closed \/ tx'[<<"finish", g>>] = Closed
  <2> SUFFICES ASSUME NEW g \in Game PROVE tx'[<<"start", g>>] = Closed \/ tx'[<<"finish", g>>] = Closed
    OBVIOUS
  <2>1. <<"start", g>> \in Transaction /\ <<"finish", g>> \in Transaction BY DEF Transaction
  <2>2. GameOf(<<"start", g>>) = g /\ GameOf(<<"finish", g>>) = g BY DEF GameOf
  <2>3. tx[<<"start", g>>] = Closed \/ tx[<<"finish", g>>] = Closed BY DEF PayInv
  <2>4. CASE t = <<"start", g>> \/ t = <<"finish", g>>
    BY <1>1, <2>1, <2>2, <2>3, <2>4
  <2>5. CASE t # <<"start", g>> /\ t # <<"finish", g>>
    BY <1>1, <2>1, <2>3, <2>5
  <2> QED BY <2>4, <2>5
<1>5. ASSUME NEW o \in Transaction, tx'[o] # Closed PROVE TxInv(o, tx[o])'
  <2>1. /\ TodoInv(o, tx'[o]) /\ RowsInv(o, tx'[o])
        /\ GameInv(o, tx'[o]) /\ WriteInv(tx'[o])
    BY <1>1, <1>5 DEF PayInv, TxInv
  <2>2. TodoInv(o, tx[o])'
    BY <2>1 DEF TodoInv, Delta, KeyOf, Kind, GameOf, Amount, TotalReward, ChangedBy, Payers, ToSet
  <2>3. RowsInv(o, tx[o])'
    BY <2>1 DEF RowsInv, Row, KeyOf, Kind, GameOf, Amount, TotalReward, ChangedBy, Payers, ToSet, HasKey
  <2>4. GameInv(o, tx[o])' BY <2>1 DEF GameInv, GameOf, ToSet
  <2>5. WriteInv(tx[o])' BY <2>1 DEF WriteInv, HasKey
  <2> QED BY <2>2, <2>3, <2>4, <2>5 DEF TxInv
<1>7. WonInv' BY DEF PayInv, WonInv
<1> QED BY <1>2, <1>3, <1>4, <1>5, <1>6, <1>7 DEF PayInv

\* A start that is open has begun.
LEMMA StartedByThen ==
    ASSUME PayInv, NEW t \in Transaction, tx[t] # Closed, t[1] = "start"
    PROVE  GameOf(t) \in started
<1>1. GameOf(t) \in Game /\ t = <<"start", GameOf(t)>> BY DEF Transaction, GameOf
<1> QED BY <1>1 DEF PayInv

\* A transaction that opens has everything to do and has done nothing.
LEMMA OpenKeepsPay ==
    ASSUME PayInv, NEW t \in Transaction, NEW w \in User \cup {NoUser},
           NEW deltas \in Seq(DeltaType), Open(t, deltas, w),
           TodoInv(t, [todo |-> deltas, winner |-> w]),
           ChangedBy(deltas) = Payers(t, w),
           GameInv(t, [winner |-> w]), started \subseteq started',
           t[1] = "start" => GameOf(t) \in started',
           balance' = balance, ledger' = ledger, game' = game, winner' = winner, won' = won
    PROVE  PayInv'
<1> DEFINE q == [phase |-> "read", winner |-> w, todo |-> deltas, seen |-> 0,
                 rows |-> [u \in User |-> <<>>]]
<1>1. tx' = [tx EXCEPT ![t] = q] BY DEF Open
<1>2. [u \in User |-> <<>>] \in [User -> Seq(RowType)] OBVIOUS
<1>3. q \in TxType BY <1>2 DEF TxType
<1>4. tx[<<"start", GameOf(t)>>] = Closed /\ tx[<<"finish", GameOf(t)>>] = Closed BY DEF Open
<1>5. TodoInv(t, q) BY DEF TodoInv
<1>6. RowsInv(t, q) BY DEF RowsInv
<1>7. GameInv(t, q) BY DEF GameInv
<1>8. WriteInv(q) BY DEF WriteInv
<1> HIDE DEF q
<1> QED BY <1>1, <1>3, <1>4, <1>5, <1>6, <1>7, <1>8, TxChanges DEF TxInv

\* A transaction is over, whatever came of it.
LEMMA EndKeepsPay ==
    ASSUME PayInv, NEW t \in Transaction, End(t),
           balance' = balance, ledger' = ledger, game' = game, winner' = winner, won' = won
    PROVE  PayInv'
<1>1. tx' = [tx EXCEPT ![t] = Closed] /\ started' = started BY DEF End
<1> QED BY <1>1, TxChanges

\* What an open transaction and its next delta are.
LEMMA NextDelta ==
    ASSUME PayInv, NEW t \in Transaction, NEW phase, At(t, phase)
    PROVE  /\ tx[t] \in TxType /\ TxInv(t, tx[t]) /\ tx[t] # Closed /\ tx[t].todo # <<>>
           /\ tx[t].phase = phase
           /\ tx[t] = [phase |-> phase, winner |-> tx[t].winner, todo |-> tx[t].todo,
                       seen |-> tx[t].seen, rows |-> tx[t].rows]
           /\ Head(tx[t].todo) = tx[t].todo[1]
<1>1. tx[t] # Closed /\ tx[t].phase = phase /\ tx[t].todo # <<>> BY DEF At
<1>2. tx[t] \in TxType /\ TxInv(t, tx[t]) BY <1>1, OpenHasType DEF PayInv
<1>3. tx[t] = [phase |-> phase, winner |-> tx[t].winner, todo |-> tx[t].todo,
               seen |-> tx[t].seen, rows |-> tx[t].rows]
  BY <1>1, <1>2 DEF TxType
<1>4. Head(tx[t].todo) = tx[t].todo[1] BY <1>1, <1>2, TodoGoesOn DEF TxInv
<1> QED BY <1>1, <1>2, <1>3, <1>4

\* A player whose key is there is passed over.
LEMMA SkipKeepsPay ==
    ASSUME PayInv, NEW t \in Transaction, Skip(t)
    PROVE  PayInv'
<1> DEFINE o == tx[t]
           d == o.todo[1]
           q == [o EXCEPT !.todo = Tail(o.todo)]
<1>1. /\ o \in TxType /\ TxInv(t, o) /\ o # Closed /\ o.todo # <<>> /\ o.phase = "read"
      /\ Head(o.todo) = d
  BY NextDelta DEF Skip
<1>2. tx' = [tx EXCEPT ![t] = q] /\ HasKey(d.user, d.key)
      /\ balance' = balance /\ ledger' = ledger /\ game' = game /\ winner' = winner /\ won' = won
      /\ started' = started
  BY <1>1 DEF Skip, Applied, HasKey
<1> HIDE DEF o, d
<1>3. /\ d.key = KeyOf(t, d.user) /\ d.user \in ChangedBy(o.todo)
      /\ Tail(o.todo) \in Seq(DeltaType)
      /\ ChangedBy(Tail(o.todo)) = ChangedBy(o.todo) \ {d.user}
      /\ \A x : x.todo = Tail(o.todo) /\ x.winner = o.winner => TodoInv(t, x)
  BY <1>1, TodoGoesOn DEF TxInv, d
<1>4. /\ q \in TxType /\ q.todo = Tail(o.todo) /\ q.winner = o.winner /\ q.rows = o.rows
      /\ q.phase = "read"
  BY <1>1, <1>3 DEF TxType
<1> HIDE DEF q
<1>5. TodoInv(t, q) BY <1>3, <1>4
<1>6. RowsInv(t, q)
  <2> SUFFICES ASSUME NEW u \in User
      PROVE IF u \in Payers(t, q.winner) \ ChangedBy(q.todo) /\ ~HasKey(u, KeyOf(t, u))
            THEN \E b \in Int : q.rows[u] = <<Row(KeyOf(t, u), u, Amount(Kind(t), GameOf(t)), b)>>
            ELSE q.rows[u] = <<>>
    BY DEF RowsInv
  <2>1. CASE u = d.user BY <1>1, <1>2, <1>3, <1>4, <2>1 DEF TxInv, RowsInv
  <2>2. CASE u # d.user BY <1>1, <1>3, <1>4, <2>2 DEF TxInv, RowsInv
  <2> QED BY <2>1, <2>2
<1>7. GameInv(t, q) BY <1>1, <1>4 DEF TxInv, GameInv
<1>8. WriteInv(q) BY <1>4 DEF WriteInv
<1>9. o # Closed /\ (t[1] = "start" => GameOf(t) \in started') BY <1>1, <1>2, StartedByThen DEF o
<1>10. TxInv(t, q) BY <1>5, <1>6, <1>7, <1>8 DEF TxInv
<1> QED BY <1>2, <1>4, <1>9, <1>10, TxChanges DEF o

\* A key that was looked up and not found is still not there when the row is written.
LEMMA ReadKeepsPay ==
    ASSUME PayInv, NEW t \in Transaction, Read(t)
    PROVE  PayInv'
<1> DEFINE o == tx[t]
           d == o.todo[1]
           q == [o EXCEPT !.phase = "write", !.seen = balance[d.user]]
<1>1. /\ o \in TxType /\ TxInv(t, o) /\ o # Closed /\ o.todo # <<>> /\ o.phase = "read"
      /\ Head(o.todo) = d
  BY NextDelta DEF Read
<1>2. tx' = [tx EXCEPT ![t] = q] /\ ~HasKey(d.user, d.key)
      /\ balance' = balance /\ ledger' = ledger /\ game' = game /\ winner' = winner /\ won' = won
      /\ started' = started
  BY <1>1 DEF Read, Applied, HasKey
<1> HIDE DEF o, d
<1>3. d.user \in User /\ balance[d.user] \in Int
  <2>1. d.user \in User BY <1>1, TodoGoesOn DEF TxInv, d
  <2> QED BY <2>1 DEF PayInv, TypeInv
<1>4. /\ q \in TxType /\ q.todo = o.todo /\ q.winner = o.winner /\ q.rows = o.rows
      /\ q.phase = "write"
  BY <1>1, <1>3 DEF TxType
<1> HIDE DEF q
<1>5. TodoInv(t, q) BY <1>1, <1>4 DEF TxInv, TodoInv
<1>6. RowsInv(t, q) BY <1>1, <1>4 DEF TxInv, RowsInv
<1>7. GameInv(t, q) BY <1>1, <1>4 DEF TxInv, GameInv
<1>8. WriteInv(q) BY <1>1, <1>2, <1>4 DEF WriteInv, d
<1>9. o # Closed /\ (t[1] = "start" => GameOf(t) \in started') BY <1>1, <1>2, StartedByThen DEF o
<1>10. TxInv(t, q) BY <1>5, <1>6, <1>7, <1>8 DEF TxInv
<1> QED BY <1>2, <1>4, <1>9, <1>10, TxChanges DEF o

\* A player who was not done gets his row.
LEMMA WriteKeepsPay ==
    ASSUME PayInv, NEW t \in Transaction, Write(t)
    PROVE  /\ PayInv'
           /\ tx'[t].rows = [tx[t].rows EXCEPT ![tx[t].todo[1].user] =
                  <<Row(tx[t].todo[1].key, tx[t].todo[1].user, tx[t].todo[1].amount,
                        tx[t].seen + tx[t].todo[1].amount)>>]
           /\ tx'[t].phase = "read" /\ tx'[t] # Closed /\ tx'[t].todo = Tail(tx[t].todo)
           /\ \A x \in Transaction : x # t => tx'[x] = tx[x]
<1> DEFINE o == tx[t]
           d == o.todo[1]
           new == Row(d.key, d.user, d.amount, o.seen + d.amount)
           q == [o EXCEPT !.phase = "read", !.todo = Tail(o.todo),
                          !.rows[d.user] = Append(o.rows[d.user], new)]
<1>1. /\ o \in TxType /\ TxInv(t, o) /\ o # Closed /\ o.todo # <<>> /\ o.phase = "write"
      /\ Head(o.todo) = d
  BY NextDelta DEF Write
<1>2. tx' = [tx EXCEPT ![t] = q]
      /\ balance' = balance /\ ledger' = ledger /\ game' = game /\ winner' = winner /\ won' = won
      /\ started' = started
  BY <1>1 DEF Write, WriteRow
<1> HIDE DEF o, d, new
<1>3. /\ d.key = KeyOf(t, d.user) /\ d.user \in ChangedBy(o.todo) /\ d.user \in User
      /\ d.user \in Payers(t, o.winner) /\ d \in DeltaType
      /\ d = Delta(KeyOf(t, d.user), d.user, Amount(Kind(t), GameOf(t)))
      /\ Tail(o.todo) \in Seq(DeltaType)
      /\ ChangedBy(Tail(o.todo)) = ChangedBy(o.todo) \ {d.user}
      /\ \A x : x.todo = Tail(o.todo) /\ x.winner = o.winner => TodoInv(t, x)
  BY <1>1, TodoGoesOn DEF TxInv, d
<1>4. d.amount = Amount(Kind(t), GameOf(t)) /\ d.amount \in Int /\ d.key \in Key /\ o.seen \in Int
  BY <1>1, <1>3 DEF Delta, DeltaType, TxType
<1>5. new \in RowType
  <2>1. \A k \in Key, u \in User, a \in Int, b \in Int : Row(k, u, a, b) \in RowType
    BY DEF Row, RowType
  <2> QED BY <1>3, <1>4, <2>1 DEF new
<1>6. o.rows[d.user] = <<>> BY <1>1, <1>3 DEF TxInv, RowsInv
<1>7. o.rows \in [User -> Seq(RowType)] BY <1>1 DEF TxType
<1>8. Append(o.rows[d.user], new) = <<new>> BY <1>6
<1>9. /\ q.rows = [o.rows EXCEPT ![d.user] = <<new>>] /\ q.rows \in [User -> Seq(RowType)]
      /\ q.todo = Tail(o.todo) /\ q.winner = o.winner /\ q.phase = "read" /\ q.seen = o.seen
      /\ q \in TxType
  <2>1. <<new>> \in Seq(RowType) BY <1>5
  <2>2. [o.rows EXCEPT ![d.user] = <<new>>] \in [User -> Seq(RowType)] BY <1>7, <2>1
  <2>3. q = [phase |-> "read", winner |-> o.winner, todo |-> Tail(o.todo), seen |-> o.seen,
             rows |-> [o.rows EXCEPT ![d.user] = <<new>>]]
    <3>1. o = [phase |-> o.phase, winner |-> o.winner, todo |-> o.todo, seen |-> o.seen,
               rows |-> o.rows]
      BY <1>1 DEF TxType
    <3>2. q = [o EXCEPT !.phase = "read", !.todo = Tail(o.todo),
                        !.rows = [o.rows EXCEPT ![d.user] = <<new>>]]
      BY <1>8
    <3> HIDE DEF q
    <3>3. PICK rest, rows : rest = Tail(o.todo) /\ rows = [o.rows EXCEPT ![d.user] = <<new>>]
      OBVIOUS
    <3>4. q = [o EXCEPT !.phase = "read", !.todo = rest, !.rows = rows] BY <3>2, <3>3
    <3>5. q = [phase |-> "read", winner |-> o.winner, todo |-> rest, seen |-> o.seen, rows |-> rows]
      BY <3>1, <3>4
    <3> QED BY <3>3, <3>5
  <2> HIDE DEF q
  <2>4. q \in TxType BY <1>1, <1>3, <2>2, <2>3 DEF TxType
  <2> QED BY <2>2, <2>3, <2>4
<1> HIDE DEF q
<1>10. TodoInv(t, q) BY <1>3, <1>9
<1>11. RowsInv(t, q)
  <2> SUFFICES ASSUME NEW u \in User
      PROVE IF u \in Payers(t, q.winner) \ ChangedBy(q.todo) /\ ~HasKey(u, KeyOf(t, u))
            THEN \E b \in Int : q.rows[u] = <<Row(KeyOf(t, u), u, Amount(Kind(t), GameOf(t)), b)>>
            ELSE q.rows[u] = <<>>
    BY DEF RowsInv
  <2>1. CASE u = d.user
    <3>1. ~HasKey(d.user, KeyOf(t, d.user)) BY <1>1, <1>3 DEF TxInv, WriteInv, d
    <3>2. o.seen + d.amount \in Int BY <1>4
    <3>3. q.rows[u] = <<Row(KeyOf(t, u), u, Amount(Kind(t), GameOf(t)), o.seen + d.amount)>>
      BY <1>3, <1>4, <1>7, <1>9, <2>1 DEF new
    <3> QED BY <1>3, <1>9, <2>1, <3>1, <3>2, <3>3
  <2>2. CASE u # d.user BY <1>1, <1>3, <1>7, <1>9, <2>2 DEF TxInv, RowsInv
  <2> QED BY <2>1, <2>2
<1>12. GameInv(t, q) BY <1>1, <1>9 DEF TxInv, GameInv
<1>13. WriteInv(q) BY <1>9 DEF WriteInv
<1>14. PayInv'
  <2>1. o # Closed /\ (t[1] = "start" => GameOf(t) \in started') BY <1>1, <1>2, StartedByThen DEF o
  <2>2. TxInv(t, q) BY <1>10, <1>11, <1>12, <1>13 DEF TxInv
  <2> QED BY <1>2, <1>9, <2>1, <2>2, TxChanges DEF o
<1>15. tx'[t] = q /\ \A x \in Transaction : x # t => tx'[x] = tx[x]
  BY <1>2 DEF PayInv, TypeInv
<1>16. q # Closed BY <1>9, OpenHasType DEF PayInv
<1> QED BY <1>9, <1>14, <1>15, <1>16 DEF o, d, new

-----------------------------------------------------------------------------
\* A commit books the row of each player who is done and whose key was not there.
LEMMA CommitBooks ==
    ASSUME PayInv, NEW t \in Transaction, Commit(t)
    PROVE  /\ tx[t] # Closed /\ tx[t] \in TxType /\ TxInv(t, tx[t]) /\ ChangedBy(tx[t].todo) = {}
           /\ \A u \in User :
                 IF u \in Payers(t, tx[t].winner) /\ ~HasKey(u, KeyOf(t, u))
                 THEN \E b \in Int :
                        LET row == Row(KeyOf(t, u), u, Amount(Kind(t), GameOf(t)), b)
                        IN  tx[t].rows[u] = <<row>> /\ row \in RowType /\ row.balanceAfter = b
                            /\ row.key = KeyOf(t, u) /\ row.amount = Amount(Kind(t), GameOf(t))
                            /\ ledger'[u] = Append(ledger[u], row) /\ balance'[u] = b
                 ELSE /\ tx[t].rows[u] = <<>> /\ ledger'[u] = ledger[u] /\ balance'[u] = balance[u]
<1> DEFINE o == tx[t]
<1>1. o # Closed /\ o.todo = <<>>
      /\ ledger' = [u \in User |-> ledger[u] \o o.rows[u]]
      /\ balance' = [u \in User |-> IF o.rows[u] = <<>> THEN balance[u]
                                    ELSE Last(o.rows[u]).balanceAfter]
  BY DEF Commit
<1>2. o \in TxType /\ TxInv(t, o) BY <1>1, OpenHasType DEF PayInv
<1> HIDE DEF o
<1>3. ChangedBy(o.todo) = {} BY <1>1 DEF ChangedBy
<1>4. o.rows \in [User -> Seq(RowType)] /\ ledger \in [User -> Seq(RowType)]
  BY <1>2 DEF TxType, PayInv, TypeInv
<1>5. ASSUME NEW u \in User, u \in Payers(t, o.winner), ~HasKey(u, KeyOf(t, u))
      PROVE  \E b \in Int :
                LET row == Row(KeyOf(t, u), u, Amount(Kind(t), GameOf(t)), b)
                IN  o.rows[u] = <<row>> /\ row \in RowType /\ row.balanceAfter = b
                    /\ row.key = KeyOf(t, u) /\ row.amount = Amount(Kind(t), GameOf(t))
                    /\ ledger'[u] = Append(ledger[u], row) /\ balance'[u] = b
  <2>1. PICK b \in Int : o.rows[u] = <<Row(KeyOf(t, u), u, Amount(Kind(t), GameOf(t)), b)>>
    BY <1>2, <1>3, <1>5 DEF TxInv, RowsInv
  <2> DEFINE row == Row(KeyOf(t, u), u, Amount(Kind(t), GameOf(t)), b)
  <2>2. /\ row.balanceAfter = b /\ row.key = KeyOf(t, u)
        /\ row.amount = Amount(Kind(t), GameOf(t))
    BY DEF Row
  <2>3. o.rows[u] = <<row>> BY <2>1
  <2> HIDE DEF row
  <2>4. row \in RowType
    <3>1. o.rows[u] \in Seq(RowType) BY <1>4
    <3>2. <<row>>[1] = row /\ Len(<<row>>) = 1 OBVIOUS
    <3> QED BY <2>3, <3>1, <3>2, ElementOfSeq
  <2>5. ledger[u] \o <<row>> = Append(ledger[u], row) BY <1>4, <2>4, AppendIsConcat
  <2>6. <<row>> # <<>> /\ Last(<<row>>) = row BY DEF Last
  <2>7. ledger'[u] = Append(ledger[u], row) /\ balance'[u] = b
    BY <1>1, <2>2, <2>3, <2>5, <2>6
  <2> QED BY <2>2, <2>3, <2>4, <2>7 DEF row
<1>6. ASSUME NEW u \in User, ~(u \in Payers(t, o.winner) /\ ~HasKey(u, KeyOf(t, u)))
      PROVE  o.rows[u] = <<>> /\ ledger'[u] = ledger[u] /\ balance'[u] = balance[u]
  <2>1. o.rows[u] = <<>> BY <1>2, <1>3, <1>6 DEF TxInv, RowsInv
  <2>2. ledger[u] \o <<>> = ledger[u] BY <1>4, ConcatEmptySeq
  <2> QED BY <1>1, <2>1, <2>2
<1> QED BY <1>1, <1>2, <1>3, <1>5, <1>6 DEF o

\* After a commit the keys of those who are done are in the ledger, once.
LEMMA CommitKeys ==
    ASSUME PayInv, NEW t \in Transaction, Commit(t), NEW w, w = tx[t].winner
    PROVE  /\ ledger' \in [User -> Seq(RowType)] /\ balance' \in [User -> Int]
           /\ LedgerInv'
           /\ \A key : \A u \in User :
                 HasKey(u, key)' <=> HasKey(u, key) \/ (u \in Payers(t, w) /\ key = KeyOf(t, u))
<1>1. \A u \in User :
         IF u \in Payers(t, w) /\ ~HasKey(u, KeyOf(t, u))
         THEN \E b \in Int, row \in RowType :
                 /\ row.key = KeyOf(t, u) /\ row.amount = Amount(Kind(t), GameOf(t))
                 /\ ledger'[u] = Append(ledger[u], row) /\ balance'[u] = b
         ELSE ledger'[u] = ledger[u] /\ balance'[u] = balance[u]
  BY CommitBooks
<1>2. ledger \in [User -> Seq(RowType)] /\ balance \in [User -> Int] BY DEF PayInv, TypeInv
<1>3. ledger' = [u \in User |-> ledger'[u]] /\ balance' = [u \in User |-> balance'[u]]
  BY DEF Commit
<1>4. ASSUME NEW u \in User
      PROVE  /\ ledger'[u] \in Seq(RowType) /\ balance'[u] \in Int
             /\ \A n, m \in DOMAIN ledger'[u] : ledger'[u][n].key = ledger'[u][m].key => n = m
             /\ \A n \in DOMAIN ledger'[u] : \A kind \in {"entry", "reward"}, g \in Game :
                   ledger'[u][n].key = <<kind, g, u>> => ledger'[u][n].amount = Amount(kind, g)
             /\ \A key : (\E n \in DOMAIN ledger'[u] : ledger'[u][n].key = key) <=>
                           HasKey(u, key) \/ (u \in Payers(t, w) /\ key = KeyOf(t, u))
  <2> DEFINE s == ledger[u]
  <2>1. /\ s \in Seq(RowType) /\ Len(s) \in Nat /\ DOMAIN s = 1..Len(s)
        /\ \A n, m \in DOMAIN s : s[n].key = s[m].key => n = m
        /\ \A n \in DOMAIN s : \A kind \in {"entry", "reward"}, g \in Game :
              s[n].key = <<kind, g, u>> => s[n].amount = Amount(kind, g)
    BY <1>2, LenProperties DEF PayInv, LedgerInv
  <2>2. \A key : HasKey(u, key) <=> \E n \in DOMAIN s : s[n].key = key BY DEF HasKey
  <2> HIDE DEF s
  <2>3. CASE u \in Payers(t, w) /\ ~HasKey(u, KeyOf(t, u))
    <3>1. PICK b \in Int, row \in RowType :
            /\ row.key = KeyOf(t, u) /\ row.amount = Amount(Kind(t), GameOf(t))
            /\ ledger'[u] = Append(s, row) /\ balance'[u] = b
      BY <1>1, <2>3 DEF s
    <3> DEFINE new == Append(s, row)
               n0 == Len(s) + 1
    <3>2. /\ new \in Seq(RowType) /\ DOMAIN new = 1..n0 /\ n0 \in 1..n0
          /\ \A n \in DOMAIN s : n \in 1..n0 /\ new[n] = s[n]
          /\ new[n0] = row
          /\ \A n \in 1..n0 : n \in DOMAIN s \/ n = n0
      BY <2>1, AppendProperties, LenProperties
    <3> HIDE DEF new, n0
    <3>3. \A n \in DOMAIN s : s[n].key # row.key BY <2>2, <2>3, <3>1
    <3>4. \A n, m \in DOMAIN new : new[n].key = new[m].key => n = m
      BY <2>1, <3>2, <3>3
    <3>5. ASSUME NEW n \in DOMAIN new, NEW kind \in {"entry", "reward"}, NEW g \in Game,
                 new[n].key = <<kind, g, u>>
          PROVE  new[n].amount = Amount(kind, g)
      <4>1. CASE n \in DOMAIN s BY <2>1, <3>2, <3>5, <4>1
      <4>2. CASE n = n0
        <5>1. <<Kind(t), GameOf(t), u>> = <<kind, g, u>> BY <3>1, <3>2, <3>5, <4>2 DEF KeyOf
        <5>2. Kind(t) = kind /\ GameOf(t) = g BY <5>1, KeysDiffer
        <5> QED BY <3>1, <3>2, <4>2, <5>2
      <4> QED BY <3>2, <4>1, <4>2
    <3>6. \A key : (\E n \in DOMAIN new : new[n].key = key) <=> HasKey(u, key) \/ key = row.key
      BY <2>2, <3>2
    <3>7. ledger'[u] = new BY <3>1 DEF new
    <3> QED BY <2>3, <3>1, <3>2, <3>4, <3>5, <3>6, <3>7
  <2>4. CASE ~(u \in Payers(t, w) /\ ~HasKey(u, KeyOf(t, u)))
    <3>1. ledger'[u] = s /\ balance'[u] = balance[u] BY <1>1, <2>4 DEF s
    <3> QED BY <1>2, <2>1, <2>2, <2>4, <3>1
  <2> QED BY <2>3, <2>4
<1>5. ledger' \in [User -> Seq(RowType)] BY <1>3, <1>4
<1>6. balance' \in [User -> Int] BY <1>3, <1>4
<1>7. LedgerInv' BY <1>4 DEF LedgerInv, Amount, TotalReward
<1>8. \A key : \A u \in User : HasKey(u, key)' <=> HasKey(u, key) \/ (u \in Payers(t, w) /\ key = KeyOf(t, u))
  BY <1>4 DEF HasKey
<1> QED BY <1>5, <1>6, <1>7, <1>8

\* A commit leaves the open transactions of the other games what they were.
LEMMA CommitKeepsOthers ==
    ASSUME PayInv, NEW t \in Transaction, Commit(t), NEW o \in Transaction, tx'[o] # Closed,
           \A g \in Game : g # GameOf(t) => game'[g] = game[g]
    PROVE  o # t /\ TxInv(o, tx[o])'
<1>1. tx' = [tx EXCEPT ![t] = Closed] /\ tx[t] # Closed BY DEF Commit, End
<1>2. o # t /\ tx'[o] = tx[o] BY <1>1 DEF PayInv, TypeInv
<1>3. TxInv(o, tx[o]) /\ tx[o] \in TxType BY <1>2, OpenHasType DEF PayInv
<1>4. GameOf(o) \in Game /\ GameOf(t) \in Game /\ GameOf(o) # GameOf(t)
  <2>1. \A x \in Transaction : /\ GameOf(x) \in Game
                               /\ x = <<"start", GameOf(x)>> \/ x = <<"finish", GameOf(x)>>
    BY DEF Transaction, GameOf
  <2>2. \A g \in Game : tx[<<"start", g>>] = Closed \/ tx[<<"finish", g>>] = Closed BY DEF PayInv
  <2> QED BY <1>1, <1>2, <2>1, <2>2
<1>5. PICK w : w = tx[t].winner OBVIOUS
<1>6. \A u \in User : HasKey(u, KeyOf(o, u))' <=> HasKey(u, KeyOf(o, u))
  <2>1. \A key : \A u \in User :
           HasKey(u, key)' <=> HasKey(u, key) \/ (u \in Payers(t, w) /\ key = KeyOf(t, u))
    BY <1>5, CommitKeys
  <2>2. \A u \in User : KeyOf(o, u) # KeyOf(t, u) BY <1>4, KeysDiffer DEF KeyOf
  <2>3. \A u \in User : KeyOf(o, u)' = KeyOf(o, u) BY DEF KeyOf, Kind, GameOf
  <2>4. \A u \in User : LET key == KeyOf(o, u) IN HasKey(u, key)' <=> HasKey(u, key)
    BY <2>1, <2>2
  <2> QED BY <2>3, <2>4 DEF HasKey, KeyOf, Kind, GameOf
<1>7. TodoInv(o, tx[o])'
  <2>1. TodoInv(o, tx'[o]) BY <1>2, <1>3 DEF TxInv
  <2> QED
    BY <2>1 DEF TodoInv, Delta, KeyOf, Kind, GameOf, Amount, TotalReward, ChangedBy, Payers, ToSet
<1>8. RowsInv(o, tx[o])'
  <2>1. \A u \in User : u \in Payers(o, tx[o].winner) \ ChangedBy(tx[o].todo)
                          <=> (u \in Payers(o, tx[o].winner) \ ChangedBy(tx[o].todo))'
    BY <1>2 DEF Payers, ChangedBy, GameOf, TotalReward, ToSet
  <2>2. \A u \in User, b \in Int : Row(KeyOf(o, u), u, Amount(Kind(o), GameOf(o)), b)'
                                     = Row(KeyOf(o, u), u, Amount(Kind(o), GameOf(o)), b)
    BY DEF Row, KeyOf, Kind, GameOf, Amount, TotalReward
  <2>3. \A u \in User :
            IF u \in Payers(o, tx[o].winner) \ ChangedBy(tx[o].todo) /\ ~HasKey(u, KeyOf(o, u))
            THEN \E b \in Int : tx[o].rows[u] = <<Row(KeyOf(o, u), u, Amount(Kind(o), GameOf(o)), b)>>
            ELSE tx[o].rows[u] = <<>>
    BY <1>3 DEF TxInv, RowsInv
  <2>4. \A u \in User :
            (IF u \in Payers(o, tx[o].winner) \ ChangedBy(tx[o].todo) /\ ~HasKey(u, KeyOf(o, u))
             THEN \E b \in Int : tx[o].rows[u] = <<Row(KeyOf(o, u), u, Amount(Kind(o), GameOf(o)), b)>>
             ELSE tx[o].rows[u] = <<>>)'
    BY <1>2, <1>6, <2>1, <2>2, <2>3
  <2> QED BY <2>4 DEF RowsInv
<1>9. GameInv(o, tx[o])'
  <2>1. game'[GameOf(o)] = game[GameOf(o)] BY <1>4
  <2> QED BY <1>2, <1>3, <2>1 DEF TxInv, GameInv, GameOf, ToSet
<1>10. WriteInv(tx[o])'
  <2>1. CASE tx[o].phase # "write" BY <1>2, <2>1 DEF WriteInv
  <2>2. CASE tx[o].phase = "write"
    <3>1. tx[o].todo # <<>> /\ ~HasKey(tx[o].todo[1].user, tx[o].todo[1].key)
      BY <1>3, <2>2 DEF TxInv, WriteInv
    <3>2. tx[o].todo[1].user \in User /\ tx[o].todo[1].key = KeyOf(o, tx[o].todo[1].user)
      BY <1>3, <3>1, TodoGoesOn DEF TxInv
    <3>3. PICK u \in User : u = tx[o].todo[1].user BY <3>2
    <3>4. PICK key : key = KeyOf(o, u) OBVIOUS
    <3>5. ~HasKey(u, key)'
      <4>1. HasKey(u, key)' <=> HasKey(u, key) \/ (u \in Payers(t, w) /\ key = KeyOf(t, u))
        BY <1>5, CommitKeys
      <4>2. key # KeyOf(t, u) BY <1>4, <3>4, KeysDiffer DEF KeyOf
      <4> QED BY <3>1, <3>2, <3>3, <3>4, <4>1, <4>2
    <3> QED BY <1>2, <3>1, <3>2, <3>3, <3>4, <3>5 DEF WriteInv, HasKey
  <2> QED BY <2>1, <2>2
<1> QED BY <1>2, <1>7, <1>8, <1>9, <1>10 DEF TxInv

\* The entries are booked with the start of the game, and a player who has paid
\* is not charged again.
LEMMA CommitStartKeepsPay ==
    ASSUME PayInv, NEW g \in Game, CommitStart(g)
    PROVE  PayInv'
<1> DEFINE t == <<"start", g>>
<1>1. t \in Transaction /\ GameOf(t) = g /\ t[1] = "start" BY DEF Transaction, GameOf
<1>2. /\ Commit(t) /\ game' = [game EXCEPT ![g] = "IN_PROGRESS"]
      /\ winner' = winner /\ won' = won
      /\ tx[t] # Closed /\ tx' = [tx EXCEPT ![t] = Closed] /\ started' = started
  BY DEF CommitStart, Commit, End
<1> HIDE DEF t
<1>3. /\ game' \in [Game -> {"WAITING", "IN_PROGRESS", "FINISHED"}] /\ game'[g] = "IN_PROGRESS"
      /\ \A h \in Game : h # g => game'[h] = game[h]
  BY <1>2 DEF PayInv, TypeInv
<1>4. PICK w : w = tx[t].winner OBVIOUS
<1>5. /\ ledger' \in [User -> Seq(RowType)] /\ balance' \in [User -> Int] /\ LedgerInv'
      /\ \A key : \A u \in User :
            HasKey(u, key)' <=> HasKey(u, key) \/ (u \in Payers(t, w) /\ key = KeyOf(t, u))
  BY <1>1, <1>2, <1>4, CommitKeys
<1>6. TypeInv'
  <2>1. tx' \in [Transaction -> {Closed} \cup TxType] BY <1>2 DEF PayInv, TypeInv
  <2> QED BY <1>2, <1>3, <1>5, <2>1 DEF PayInv, TypeInv
<1>7. TxInv(t, tx[t]) /\ game[g] = "WAITING"
  BY <1>1, <1>2 DEF PayInv, TxInv, GameInv
<1>8. KeysInv'
  <2> SUFFICES ASSUME NEW h \in Game, NEW u \in ToSet(Seats[h])
      PROVE  /\ HasKey(u, <<"entry", h, u>>)' <=> game'[h] # "WAITING"
             /\ HasKey(u, <<"reward", h, u>>)' <=> u \in won'[h] /\ TotalReward(h) > 0
    BY DEF KeysInv, HasKey, ToSet, TotalReward
  <2>1. u \in User BY GamesAssumption DEF ToSet
  <2>2. /\ HasKey(u, <<"entry", h, u>>) <=> game[h] # "WAITING"
        /\ HasKey(u, <<"reward", h, u>>) <=> u \in won[h] /\ TotalReward(h) > 0
    BY DEF PayInv, KeysInv
  <2>3. KeyOf(t, u) = <<"entry", g, u>> /\ Payers(t, w) = ToSet(Seats[g])
    BY <1>1 DEF KeyOf, Kind, Payers
  <2>4. /\ HasKey(u, <<"entry", h, u>>)' <=> HasKey(u, <<"entry", h, u>>) \/ h = g
        /\ HasKey(u, <<"reward", h, u>>)' <=> HasKey(u, <<"reward", h, u>>)
    <3>1. <<"entry", h, u>> = KeyOf(t, u) <=> h = g BY <2>3, KeysDiffer
    <3>2. <<"reward", h, u>> # KeyOf(t, u) BY <2>3, KeysDiffer
    <3>3. h = g => u \in Payers(t, w) BY <2>3
    <3>4. PICK entry, reward : entry = <<"entry", h, u>> /\ reward = <<"reward", h, u>> OBVIOUS
    <3>5. /\ HasKey(u, entry)' <=> HasKey(u, entry) \/ (u \in Payers(t, w) /\ entry = KeyOf(t, u))
          /\ HasKey(u, reward)' <=> HasKey(u, reward) \/ (u \in Payers(t, w) /\ reward = KeyOf(t, u))
      BY <1>5, <2>1
    <3> QED BY <3>1, <3>2, <3>3, <3>4, <3>5 DEF HasKey
  <2>5. CASE h = g BY <1>2, <1>3, <1>7, <2>2, <2>4, <2>5
  <2>6. CASE h # g BY <1>2, <1>3, <2>2, <2>4, <2>6
  <2> QED BY <2>5, <2>6
<1>9. \A h \in Game : h \notin started' => game'[h] = "WAITING" /\ tx'[<<"start", h>>] = Closed
  <2> SUFFICES ASSUME NEW h \in Game, h \notin started'
      PROVE  game'[h] = "WAITING" /\ tx'[<<"start", h>>] = Closed
    OBVIOUS
  <2>1. game[h] = "WAITING" /\ tx[<<"start", h>>] = Closed BY <1>2 DEF PayInv
  <2>2. h # g BY <1>2, <2>1 DEF t
  <2>3. <<"start", h>> \in Transaction BY DEF Transaction
  <2> QED BY <1>2, <1>3, <2>1, <2>2, <2>3 DEF PayInv, TypeInv
<1>10. \A h \in Game : tx'[<<"start", h>>] = Closed \/ tx'[<<"finish", h>>] = Closed
  <2>1. \A h \in Game : <<"start", h>> \in Transaction /\ <<"finish", h>> \in Transaction
    BY DEF Transaction
  <2>2. \A o \in Transaction : tx[o] = Closed => tx'[o] = Closed BY <1>2 DEF PayInv, TypeInv
  <2> QED BY <2>1, <2>2 DEF PayInv
<1>11. \A o \in Transaction : tx'[o] # Closed => TxInv(o, tx[o])'
  BY <1>1, <1>2, <1>3, CommitKeepsOthers
<1>12. WonInv' BY <1>2, <1>3, <1>7 DEF PayInv, WonInv
<1> QED BY <1>5, <1>6, <1>8, <1>9, <1>10, <1>11, <1>12 DEF PayInv

\* The reward is booked with the result, and a winner who has it gets no other.
LEMMA CommitFinishKeepsPay ==
    ASSUME PayInv, NEW g \in Game, CommitFinish(g)
    PROVE  PayInv'
<1> DEFINE t == <<"finish", g>>
<1>1. t \in Transaction /\ GameOf(t) = g /\ t[1] = "finish" /\ t[1] # "start"
  BY DEF Transaction, GameOf
<1>4. PICK w : w = tx[t].winner OBVIOUS
<1>2. /\ Commit(t) /\ game' = [game EXCEPT ![g] = "FINISHED"] /\ winner' = [winner EXCEPT ![g] = w]
      /\ won' = [won EXCEPT ![g] = @ \cup {w}]
      /\ tx[t] # Closed /\ tx' = [tx EXCEPT ![t] = Closed] /\ started' = started
  BY <1>4 DEF CommitFinish, Commit, End
<1> HIDE DEF t
<1>7. TxInv(t, tx[t]) /\ w \in ToSet(Seats[g]) /\ w \in User /\ game[g] # "WAITING"
  <2>1. TxInv(t, tx[t]) BY <1>1, <1>2 DEF PayInv
  <2>2. w \in ToSet(Seats[g]) /\ game[g] # "WAITING"
    <3>1. GameInv(t, tx[t]) BY <2>1 DEF TxInv
    <3>2. tx[t].winner \in ToSet(Seats[GameOf(t)]) /\ game[GameOf(t)] # "WAITING"
      BY <1>1, <3>1 DEF GameInv
    <3> QED BY <1>1, <1>4, <3>2
  <2> QED BY <2>1, <2>2, GamesAssumption DEF ToSet
<1>3. /\ game' \in [Game -> {"WAITING", "IN_PROGRESS", "FINISHED"}] /\ game'[g] = "FINISHED"
      /\ \A h \in Game : h # g => /\ game'[h] = game[h] /\ winner'[h] = winner[h]
                                 /\ won'[h] = won[h]
      /\ winner'[g] = w /\ won'[g] = won[g] \cup {w}
  BY <1>2 DEF PayInv, TypeInv
<1>5. /\ ledger' \in [User -> Seq(RowType)] /\ balance' \in [User -> Int] /\ LedgerInv'
      /\ \A key : \A u \in User :
            HasKey(u, key)' <=> HasKey(u, key) \/ (u \in Payers(t, w) /\ key = KeyOf(t, u))
  BY <1>1, <1>2, <1>4, CommitKeys
<1>6. TypeInv'
  <2>1. tx' \in [Transaction -> {Closed} \cup TxType] BY <1>2 DEF PayInv, TypeInv
  <2>2. winner' \in [Game -> User \cup {NoUser}] BY <1>2, <1>7 DEF PayInv, TypeInv
  <2>3. won' \in [Game -> SUBSET User] BY <1>2, <1>7 DEF PayInv, TypeInv
  <2> QED BY <1>3, <1>5, <2>1, <2>2, <2>3 DEF TypeInv
<1>8. KeysInv'
  <2> SUFFICES ASSUME NEW h \in Game, NEW u \in ToSet(Seats[h])
      PROVE  /\ HasKey(u, <<"entry", h, u>>)' <=> game'[h] # "WAITING"
             /\ HasKey(u, <<"reward", h, u>>)' <=> u \in won'[h] /\ TotalReward(h) > 0
    BY DEF KeysInv, HasKey, ToSet, TotalReward
  <2>1. u \in User BY GamesAssumption DEF ToSet
  <2>2. /\ HasKey(u, <<"entry", h, u>>) <=> game[h] # "WAITING"
        /\ HasKey(u, <<"reward", h, u>>) <=> u \in won[h] /\ TotalReward(h) > 0
    BY DEF PayInv, KeysInv
  <2>3. KeyOf(t, u) = <<"reward", g, u>>
        /\ (u \in Payers(t, w) <=> TotalReward(g) > 0 /\ u = w)
    BY <1>1 DEF KeyOf, Kind, Payers
  <2>4. /\ HasKey(u, <<"entry", h, u>>)' <=> HasKey(u, <<"entry", h, u>>)
        /\ HasKey(u, <<"reward", h, u>>)' <=>
              HasKey(u, <<"reward", h, u>>) \/ (h = g /\ TotalReward(g) > 0 /\ u = w)
    <3>1. <<"reward", h, u>> = KeyOf(t, u) <=> h = g BY <2>3, KeysDiffer
    <3>2. <<"entry", h, u>> # KeyOf(t, u) BY <2>3, KeysDiffer
    <3>4. PICK entry, reward : entry = <<"entry", h, u>> /\ reward = <<"reward", h, u>> OBVIOUS
    <3>5. /\ HasKey(u, entry)' <=> HasKey(u, entry) \/ (u \in Payers(t, w) /\ entry = KeyOf(t, u))
          /\ HasKey(u, reward)' <=> HasKey(u, reward) \/ (u \in Payers(t, w) /\ reward = KeyOf(t, u))
      BY <1>5, <2>1
    <3>6. u \in Payers(t, w) <=> TotalReward(g) > 0 /\ u = w BY <2>3
    <3> QED BY <3>1, <3>2, <3>4, <3>5, <3>6 DEF HasKey
  <2>5. CASE h = g BY <1>3, <1>7, <2>2, <2>4, <2>5
  <2>6. CASE h # g BY <1>3, <2>2, <2>4, <2>6
  <2> QED BY <2>5, <2>6
<1>9. \A h \in Game : h \notin started' => game'[h] = "WAITING" /\ tx'[<<"start", h>>] = Closed
  <2> SUFFICES ASSUME NEW h \in Game, h \notin started'
      PROVE  game'[h] = "WAITING" /\ tx'[<<"start", h>>] = Closed
    OBVIOUS
  <2>1. game[h] = "WAITING" /\ tx[<<"start", h>>] = Closed BY <1>2 DEF PayInv
  <2>2. h # g BY <1>7, <2>1
  <2>3. <<"start", h>> \in Transaction BY DEF Transaction
  <2> QED BY <1>2, <1>3, <2>1, <2>2, <2>3 DEF PayInv, TypeInv
<1>10. \A h \in Game : tx'[<<"start", h>>] = Closed \/ tx'[<<"finish", h>>] = Closed
  <2>1. \A h \in Game : <<"start", h>> \in Transaction /\ <<"finish", h>> \in Transaction
    BY DEF Transaction
  <2>2. \A o \in Transaction : tx[o] = Closed => tx'[o] = Closed BY <1>2 DEF PayInv, TypeInv
  <2> QED BY <2>1, <2>2 DEF PayInv
<1>11. \A o \in Transaction : tx'[o] # Closed => TxInv(o, tx[o])'
  BY <1>1, <1>2, <1>3, CommitKeepsOthers
<1>12. WonInv' BY <1>3 DEF PayInv, WonInv
<1> QED BY <1>5, <1>6, <1>8, <1>9, <1>10, <1>11, <1>12 DEF PayInv

-----------------------------------------------------------------------------
\* A wallet starts with the welcome bonus, its only row, and no game has begun.
LEMMA InitPay == Init => PayInv
<1> SUFFICES ASSUME Init PROVE PayInv
  OBVIOUS
<1>1. \A u \in User : <<"welcome", u>> \in Key BY DEF Key
<1> DEFINE row(u) == Row(<<"welcome", u>>, u, WelcomeBonus, WelcomeBonus)
<1>2. \A u \in User : row(u) \in RowType /\ row(u).key = <<"welcome", u>>
  <2>1. \A k \in Key, u \in User, a \in Int, b \in Int :
           Row(k, u, a, b) \in RowType /\ Row(k, u, a, b).key = k
    BY DEF Row, RowType
  <2>2. WelcomeBonus \in Int BY AmountsAssumption
  <2> QED BY <1>1, <2>1, <2>2
<1>3. \A u \in User : ledger[u] = <<row(u)>> BY DEF Init
<1>4. ledger = [u \in User |-> <<row(u)>>] BY DEF Init
<1> HIDE DEF row
<1>5. \A u \in User : /\ ledger[u] \in Seq(RowType) /\ DOMAIN ledger[u] = {1}
                      /\ ledger[u][1].key = <<"welcome", u>>
  BY <1>2, <1>3
<1>6. TypeInv
  <2>1. ledger \in [User -> Seq(RowType)] BY <1>4, <1>5
  <2>2. balance \in [User -> Int] BY AmountsAssumption DEF Init
  <2> QED BY <2>1, <2>2 DEF Init, TypeInv
<1>7. \A g, u2 : \A u \in User : \A kind \in {"entry", "reward"} : ~HasKey(u, <<kind, g, u2>>)
  BY <1>5, KeysDiffer DEF HasKey
<1>8. LedgerInv BY <1>5, KeysDiffer DEF LedgerInv
<1>9. KeysInv
  <2>1. \A g \in Game : game[g] = "WAITING" /\ won[g] = {} BY DEF Init
  <2>2. \A g \in Game : ToSet(Seats[g]) \subseteq User BY GamesAssumption DEF ToSet
  <2> QED BY <1>7, <2>1, <2>2 DEF KeysInv
<1>10. \A t \in Transaction : tx[t] = Closed BY DEF Init
<1>11. \A g \in Game : <<"start", g>> \in Transaction /\ game[g] = "WAITING" BY DEF Init, Transaction
<1>12. WonInv BY DEF Init, WonInv
<1> QED BY <1>6, <1>8, <1>9, <1>10, <1>11, <1>12 DEF PayInv

\* Every operation keeps the books of the games.
LEMMA NextPay == PayInv /\ [Next]_vars => PayInv'
<1> SUFFICES ASSUME PayInv, [Next]_vars PROVE PayInv'
  OBVIOUS
<1>1. ASSUME NEW g \in Game, BeginStart(g) PROVE PayInv'
  <2> DEFINE t == <<"start", g>>
             todo == DeductGameEntries(g)
  <2>1. t \in Transaction /\ GameOf(t) = g /\ t[1] = "start" /\ Kind(t) = "entry"
    BY DEF Transaction, GameOf, Kind
  <2>2. Amount("entry", g) = -EntryAmount[g] BY DEF Amount
  <2>3. \A u : KeyOf(t, u) = <<"entry", g, u>> BY <2>1 DEF KeyOf
  <2>4. /\ Open(t, todo, NoUser) /\ started' = started \cup {g}
        /\ balance' = balance /\ ledger' = ledger /\ game' = game /\ winner' = winner /\ won' = won
        /\ g \notin started
    BY <1>1 DEF BeginStart
  <2> HIDE DEF t, todo
  <2>5. /\ todo \in Seq(DeltaType)
        /\ \A i \in 1..Len(todo) : todo[i] = Delta(<<"entry", g, todo[i].user>>, todo[i].user, -EntryAmount[g])
        /\ \A i, j \in 1..Len(todo) : todo[i].user = todo[j].user => i = j
        /\ ChangedBy(todo) = ToSet(Seats[g])
    BY StartTodo DEF todo
  <2>6. Payers(t, NoUser) = ToSet(Seats[g]) BY <2>1 DEF Payers
  <2>7. TodoInv(t, [todo |-> todo, winner |-> NoUser])
    BY <2>1, <2>2, <2>3, <2>5, <2>6 DEF TodoInv
  <2>8. GameInv(t, [winner |-> NoUser])
    <3>1. game[g] = "WAITING" BY <2>4 DEF PayInv
    <3> QED BY <2>1, <3>1 DEF GameInv
  <2> QED BY <2>1, <2>4, <2>5, <2>6, <2>7, <2>8, OpenKeepsPay
<1>2. ASSUME NEW g \in Game, NEW w \in ToSet(Seats[g]), BeginFinish(g, w) PROVE PayInv'
  <2> DEFINE t == <<"finish", g>>
             todo == CreditGameReward(g, w)
  <2>1. t \in Transaction /\ GameOf(t) = g /\ t[1] # "start" /\ Kind(t) = "reward"
    BY DEF Transaction, GameOf, Kind
  <2>2. Amount("reward", g) = TotalReward(g) /\ w \in User
    BY GamesAssumption DEF Amount, ToSet
  <2>3. \A u : KeyOf(t, u) = <<"reward", g, u>> BY <2>1 DEF KeyOf
  <2>4. /\ Open(t, todo, w) /\ started' = started
        /\ balance' = balance /\ ledger' = ledger /\ game' = game /\ winner' = winner /\ won' = won
        /\ game[g] # "WAITING"
    BY <1>2 DEF BeginFinish
  <2> HIDE DEF t, todo
  <2>5. /\ todo \in Seq(DeltaType)
        /\ \A i \in 1..Len(todo) : todo[i] = Delta(<<"reward", g, todo[i].user>>, todo[i].user, TotalReward(g))
        /\ \A i, j \in 1..Len(todo) : todo[i].user = todo[j].user => i = j
        /\ ChangedBy(todo) = IF TotalReward(g) > 0 THEN {w} ELSE {}
    BY <2>2, FinishTodo DEF todo
  <2>6. Payers(t, w) = IF TotalReward(g) > 0 THEN {w} ELSE {} BY <2>1 DEF Payers
  <2>7. TodoInv(t, [todo |-> todo, winner |-> w])
    BY <2>1, <2>2, <2>3, <2>5, <2>6 DEF TodoInv
  <2>8. GameInv(t, [winner |-> w]) BY <2>1, <2>4 DEF GameInv
  <2> QED BY <2>1, <2>2, <2>4, <2>5, <2>6, <2>7, <2>8, OpenKeepsPay
<1>3. ASSUME NEW t \in Transaction, Refuse(t) \/ Abort(t) PROVE PayInv'
  BY <1>3, EndKeepsPay DEF Refuse, Abort
<1>4. CASE UNCHANGED vars
  <2> USE <1>4 DEF vars
  <2>1. TypeInv' BY DEF PayInv, TypeInv
  <2>2. CASE Transaction = {}
    <3>1. LedgerInv' BY DEF PayInv, LedgerInv, Amount, TotalReward
    <3>2. KeysInv' BY DEF PayInv, KeysInv, HasKey, TotalReward, ToSet
    <3>3. WonInv' BY DEF PayInv, WonInv
    <3> QED BY <2>1, <2>2, <3>1, <3>2, <3>3 DEF PayInv
  <2>3. CASE Transaction # {}
    <3>1. PICK t \in Transaction : TRUE BY <2>3
    <3>2. tx[t] \in {Closed} \cup TxType /\ tx' = [tx EXCEPT ![t] = tx[t]] BY DEF PayInv, TypeInv
    <3>3. tx[t] # Closed => TxInv(t, tx[t]) /\ (t[1] = "start" => GameOf(t) \in started')
      BY StartedByThen DEF PayInv
    <3>4. PICK q : q = tx[t] OBVIOUS
    <3>5. q \in {Closed} \cup TxType /\ tx' = [tx EXCEPT ![t] = q]
          /\ (tx[t] # Closed \/ q = Closed)
          /\ (q # Closed => TxInv(t, q) /\ (t[1] = "start" => GameOf(t) \in started'))
      BY <3>2, <3>3, <3>4
    <3> QED BY <3>5, TxChanges
  <2> QED BY <2>2, <2>3
<1> QED
  BY <1>1, <1>2, <1>3, <1>4, CommitStartKeepsPay, CommitFinishKeepsPay, SkipKeepsPay, ReadKeepsPay,
     WriteKeepsPay DEF Next

\* The books of the games are kept for good: which entries and rewards are in
\* the ledger follows from the rows of the games, whatever is open besides.
THEOREM PayInductive == Spec => []PayInv
BY InitPay, NextPay, PTL DEF Spec

\* A key of the ledger has one row, with the amount the key stands for.
LEMMA KeyIsOnce ==
    ASSUME PayInv, NEW g \in Game, NEW u \in User, NEW kind \in {"entry", "reward"}
    PROVE  /\ HasKey(u, <<kind, g, u>>) => Once(kind, g, u, Amount(kind, g))
           /\ ~HasKey(u, <<kind, g, u>>) => Rows(kind, g, u) = {}
<1>1. ~HasKey(u, <<kind, g, u>>) => Rows(kind, g, u) = {} BY DEF HasKey, Rows
<1>2. ASSUME HasKey(u, <<kind, g, u>>) PROVE Once(kind, g, u, Amount(kind, g))
  <2>1. PICK n \in DOMAIN ledger[u] : ledger[u][n].key = <<kind, g, u>> BY <1>2 DEF HasKey
  <2>2. ledger[u][n].amount = Amount(kind, g) BY <2>1 DEF PayInv, LedgerInv
  <2>3. \A m \in DOMAIN ledger[u] : ledger[u][m].key = ledger[u][n].key => m = n
    BY DEF PayInv, LedgerInv
  <2>4. Rows(kind, g, u) = {n} BY <2>1, <2>3 DEF Rows
  <2> QED BY <2>2, <2>4 DEF Once
<1> QED BY <1>1, <1>2

\* WalletService.applyDelta under doStartGame: whatever aborts, refuses or runs
\* beside it, a game is paid for by all its players once each or by none of them.
THEOREM EntriesAllOrNoneHolds == Spec => []EntriesAllOrNone
<1>1. PayInv => EntriesAllOrNone
  <2> SUFFICES ASSUME PayInv, NEW g \in Game, NEW u \in ToSet(Seats[g])
      PROVE  IF game[g] = "WAITING" THEN Rows("entry", g, u) = {}
             ELSE Once("entry", g, u, -EntryAmount[g])
    BY DEF EntriesAllOrNone
  <2>1. u \in User BY GamesAssumption DEF ToSet
  <2>2. HasKey(u, <<"entry", g, u>>) <=> game[g] # "WAITING" BY DEF PayInv, KeysInv
  <2>3. Amount("entry", g) = -EntryAmount[g] BY DEF Amount
  <2> QED BY <2>1, <2>2, <2>3, KeyIsOnce
<1> QED BY <1>1, PayInductive, PTL

\* finishGame, run again after failed saves for the same winner or for others: each of its
\* winners is paid the pool and the bonus once and nobody else is, and a game that is over
\* has a winner.
THEOREM EachWinnerPaidOnceHolds == Spec => []EachWinnerPaidOnce
<1>1. PayInv => EachWinnerPaidOnce
  <2> SUFFICES ASSUME PayInv, NEW g \in Game
      PROVE  /\ IF game[g] = "FINISHED" THEN winner[g] \in won[g] ELSE won[g] = {}
             /\ \A u \in ToSet(Seats[g]) :
                   IF u \in won[g] /\ TotalReward(g) > 0
                   THEN Once("reward", g, u, TotalReward(g))
                   ELSE Rows("reward", g, u) = {}
    BY DEF EachWinnerPaidOnce
  <2>1. IF game[g] = "FINISHED" THEN winner[g] \in won[g] ELSE won[g] = {}
    BY DEF PayInv, WonInv
  <2>2. ASSUME NEW u \in ToSet(Seats[g])
        PROVE  IF u \in won[g] /\ TotalReward(g) > 0
               THEN Once("reward", g, u, TotalReward(g))
               ELSE Rows("reward", g, u) = {}
    <3>1. u \in User BY GamesAssumption DEF ToSet
    <3>2. HasKey(u, <<"reward", g, u>>) <=> u \in won[g] /\ TotalReward(g) > 0
      BY DEF PayInv, KeysInv
    <3>3. Amount("reward", g) = TotalReward(g) BY DEF Amount
    <3> QED BY <3>1, <3>2, <3>3, KeyIsOnce
  <2> QED BY <2>1, <2>2
<1> QED BY <1>1, PayInductive, PTL

-----------------------------------------------------------------------------
\* The users a transaction with this record has to do with.
TouchedBy(o) ==
    IF o = Closed THEN {} ELSE ChangedBy(o.todo) \cup {u \in User : o.rows[u] # <<>>}

\* What an open transaction has read and computed is true of a wallet it is alone with.
KnowsBalance(o, u) ==
    /\ o.rows[u] # <<>> =>
          /\ o.rows[u][1].balanceAfter = balance[u] + o.rows[u][1].amount
          /\ o.rows[u][1].balanceAfter >= 0
    /\ o.phase = "write" /\ o.todo[1].user = u =>
          o.seen = balance[u] /\ o.seen + o.todo[1].amount >= 0

MoneyInv ==
    /\ \A t, o \in Transaction : t # o => Touched(t) \cap Touched(o) \subseteq shared
    /\ \A t \in Transaction : \A u \in User \ shared : tx[t] # Closed => KnowsBalance(tx[t], u)
    /\ \A u \in User : ledger[u] # <<>>
    /\ LedgerExplainsUnshared

\* One transaction changes, the wallets do not.
LEMMA TxKeepsMoney ==
    ASSUME TypeInv, MoneyInv, NEW t \in Transaction, NEW q,
           tx' = [tx EXCEPT ![t] = q],
           balance' = balance, ledger' = ledger, shared \subseteq shared',
           \A o \in Transaction : o # t => TouchedBy(q) \cap Touched(o) \subseteq shared',
           q # Closed => \A u \in User \ shared' : KnowsBalance(q, u)
    PROVE  MoneyInv'
<1>1. \A o \in Transaction : tx'[o] = IF o = t THEN q ELSE tx[o] BY DEF TypeInv
<1>2. \A o \in Transaction : Touched(o)' = IF o = t THEN TouchedBy(q) ELSE Touched(o)
  BY <1>1 DEF Touched, TouchedBy, ChangedBy
<1>3. \A x, o \in Transaction : x # o => (Touched(x) \cap Touched(o) \subseteq shared)'
  <2>1. \A x, o \in Transaction : x # o => Touched(x) \cap Touched(o) \subseteq shared
    BY DEF MoneyInv
  <2>2. ASSUME NEW x \in Transaction, NEW o \in Transaction, x # o
        PROVE  (IF x = t THEN TouchedBy(q) ELSE Touched(x))
                 \cap (IF o = t THEN TouchedBy(q) ELSE Touched(o)) \subseteq shared'
    BY <2>1, <2>2
  <2> QED BY <1>2, <2>2
<1>4. ASSUME NEW o \in Transaction, NEW u \in User \ shared', tx'[o] # Closed
      PROVE  KnowsBalance(tx[o], u)'
  <2>1. KnowsBalance(tx'[o], u) BY <1>1, <1>4 DEF MoneyInv
  <2> QED BY <2>1 DEF KnowsBalance
<1>5. \A u \in User : ledger'[u] # <<>> BY DEF MoneyInv
<1>6. LedgerExplainsUnshared' BY DEF MoneyInv, LedgerExplainsUnshared, Last
<1> QED BY <1>3, <1>4, <1>5, <1>6 DEF MoneyInv

\* A transaction that goes on with no more users than before.
LEMMA StepKeepsMoney ==
    ASSUME TypeInv, MoneyInv, NEW t \in Transaction, NEW q,
           tx' = [tx EXCEPT ![t] = q],
           balance' = balance, ledger' = ledger, shared' = shared,
           TouchedBy(q) \subseteq Touched(t),
           q # Closed => \A u \in User \ shared : KnowsBalance(q, u)
    PROVE  MoneyInv'
<1>1. \A o \in Transaction : o # t => Touched(t) \cap Touched(o) \subseteq shared BY DEF MoneyInv
<1> QED BY <1>1, TxKeepsMoney

\* An open transaction has its users, and knows the balance of those it is alone with.
LEMMA OpenMoney ==
    ASSUME MoneyInv, NEW t \in Transaction, tx[t] # Closed
    PROVE  /\ Touched(t) = ChangedBy(tx[t].todo) \cup {u \in User : tx[t].rows[u] # <<>>}
           /\ \A u \in User \ shared : KnowsBalance(tx[t], u)
BY DEF MoneyInv, Touched

\* Whoever another open transaction has to do with becomes shared.
LEMMA OpenKeepsMoney ==
    ASSUME TypeInv, MoneyInv, NEW t \in Transaction, NEW deltas, NEW w, Open(t, deltas, w),
           balance' = balance, ledger' = ledger
    PROVE  MoneyInv'
<1> DEFINE q == [phase |-> "read", winner |-> w, todo |-> deltas, seen |-> 0,
                 rows |-> [u \in User |-> <<>>]]
<1>1. tx' = [tx EXCEPT ![t] = q] BY DEF Open
<1>2. \A u \in User : KnowsBalance(q, u) BY DEF KnowsBalance
<1>3. TouchedBy(q) \subseteq ChangedBy(deltas) BY DEF TouchedBy
<1>4. shared' = shared \cup (ChangedBy(deltas) \cap UNION {Touched(o) : o \in Transaction})
  BY DEF Open
<1>5. \A o \in Transaction : ChangedBy(deltas) \cap Touched(o) \subseteq shared' BY <1>4
<1> HIDE DEF q
<1>6. \A o \in Transaction : TouchedBy(q) \cap Touched(o) \subseteq shared' BY <1>3, <1>5
<1>7. shared \subseteq shared' BY <1>4
<1> QED BY <1>1, <1>2, <1>6, <1>7, TxKeepsMoney

\* A transaction that ends without booking anything.
LEMMA EndKeepsMoney ==
    ASSUME TypeInv, MoneyInv, NEW t \in Transaction, End(t), balance' = balance, ledger' = ledger
    PROVE  MoneyInv'
<1>1. tx' = [tx EXCEPT ![t] = Closed] /\ shared' = shared BY DEF End
<1>2. TouchedBy(Closed) = {} BY DEF TouchedBy
<1> QED BY <1>1, <1>2, StepKeepsMoney

\* A player who is passed over is not touched any more.
LEMMA SkipKeepsMoney ==
    ASSUME PayInv, MoneyInv, NEW t \in Transaction, Skip(t)
    PROVE  MoneyInv'
<1> DEFINE o == tx[t]
           q == [o EXCEPT !.todo = Tail(o.todo)]
<1>1. o \in TxType /\ TxInv(t, o) /\ o # Closed /\ o.todo # <<>> /\ o.phase = "read"
  BY NextDelta DEF Skip
<1>2. /\ tx' = [tx EXCEPT ![t] = q]
      /\ balance' = balance /\ ledger' = ledger /\ shared' = shared
  BY DEF Skip
<1>3. \A u \in User \ shared : KnowsBalance(o, u) BY <1>1, OpenMoney
<1>4. Touched(t) = ChangedBy(o.todo) \cup {u \in User : o.rows[u] # <<>>} BY <1>1, OpenMoney
<1> HIDE DEF o
<1>5. ChangedBy(Tail(o.todo)) \subseteq ChangedBy(o.todo) BY <1>1, TodoGoesOn DEF TxInv
<1>6. q.todo = Tail(o.todo) /\ q.rows = o.rows /\ q.phase = "read" BY <1>1 DEF TxType
<1> HIDE DEF q
<1>7. TouchedBy(q) \subseteq Touched(t) BY <1>4, <1>5, <1>6 DEF TouchedBy
<1>8. \A u \in User \ shared : KnowsBalance(q, u) BY <1>1, <1>3, <1>6 DEF KnowsBalance
<1> QED BY <1>2, <1>7, <1>8, StepKeepsMoney DEF PayInv

\* What was read is the balance of the wallet, and enough.
LEMMA ReadKeepsMoney ==
    ASSUME PayInv, MoneyInv, NEW t \in Transaction, Read(t)
    PROVE  MoneyInv'
<1> DEFINE o == tx[t]
           d == o.todo[1]
           q == [o EXCEPT !.phase = "write", !.seen = balance[d.user]]
<1>1. /\ o \in TxType /\ TxInv(t, o) /\ o # Closed /\ o.todo # <<>> /\ o.phase = "read"
      /\ Head(o.todo) = d
  BY NextDelta DEF Read
<1>2. /\ tx' = [tx EXCEPT ![t] = q] /\ balance[d.user] + d.amount >= 0
      /\ balance' = balance /\ ledger' = ledger /\ shared' = shared
  BY <1>1 DEF Read
<1>3. \A u \in User \ shared : KnowsBalance(o, u) BY <1>1, OpenMoney
<1>4. Touched(t) = ChangedBy(o.todo) \cup {u \in User : o.rows[u] # <<>>} BY <1>1, OpenMoney
<1> HIDE DEF o, d
<1>5. /\ q.todo = o.todo /\ q.rows = o.rows /\ q.phase = "write" /\ q.seen = balance[d.user]
  BY <1>1 DEF TxType
<1> HIDE DEF q
<1>6. TouchedBy(q) \subseteq Touched(t) BY <1>4, <1>5 DEF TouchedBy
<1>7. q.todo[1] = d BY <1>5 DEF d
<1>8. \A u \in User \ shared : KnowsBalance(q, u)
  BY <1>2, <1>3, <1>5, <1>7 DEF KnowsBalance
<1> QED BY <1>2, <1>6, <1>8, StepKeepsMoney DEF PayInv

\* The row that is written follows from what was read.
LEMMA WriteKeepsMoney ==
    ASSUME PayInv, MoneyInv, NEW t \in Transaction, Write(t)
    PROVE  MoneyInv'
<1> DEFINE o == tx[t]
           d == o.todo[1]
           new == Row(d.key, d.user, d.amount, o.seen + d.amount)
<1>1. /\ o \in TxType /\ TxInv(t, o) /\ o # Closed /\ o.todo # <<>> /\ o.phase = "write"
  BY NextDelta DEF Write
<1>2. PICK q : q = tx'[t] OBVIOUS
<1>3. /\ q.rows = [o.rows EXCEPT ![d.user] = <<new>>] /\ q.phase = "read" /\ q.todo = Tail(o.todo)
      /\ \A x \in Transaction : x # t => tx'[x] = tx[x]
  BY <1>2, WriteKeepsPay
<1>4. /\ tx' = [tx EXCEPT ![t] = q]
      /\ balance' = balance /\ ledger' = ledger /\ shared' = shared
  <2>1. DOMAIN tx' = Transaction BY WriteKeepsPay DEF PayInv, TypeInv
  <2>2. tx \in [Transaction -> {Closed} \cup TxType] /\ tx' \in [Transaction -> {Closed} \cup TxType]
    BY WriteKeepsPay DEF PayInv, TypeInv
  <2>3. tx' = [tx EXCEPT ![t] = q] BY <1>2, <1>3, <2>2
  <2> QED BY <2>3 DEF Write
<1>5. \A u \in User \ shared : KnowsBalance(o, u) BY <1>1, OpenMoney
<1>6. Touched(t) = ChangedBy(o.todo) \cup {u \in User : o.rows[u] # <<>>} BY <1>1, OpenMoney
<1> HIDE DEF o, d, new
<1>7. /\ d.user \in User /\ d.user \in ChangedBy(o.todo)
      /\ ChangedBy(Tail(o.todo)) \subseteq ChangedBy(o.todo)
  BY <1>1, TodoGoesOn DEF TxInv, d
<1>8. new.amount = d.amount /\ new.balanceAfter = o.seen + d.amount BY DEF Row, new
<1>9. o.rows \in [User -> Seq(RowType)] BY <1>1 DEF TxType
<1>10. /\ q.rows[d.user] = <<new>>
       /\ \A u \in User : u # d.user => q.rows[u] = o.rows[u]
  BY <1>3, <1>7, <1>9
<1>11. TouchedBy(q) \subseteq Touched(t) BY <1>3, <1>6, <1>7, <1>10 DEF TouchedBy
<1>12. \A u \in User \ shared : KnowsBalance(q, u)
  <2> SUFFICES ASSUME NEW u \in User \ shared PROVE KnowsBalance(q, u)
    OBVIOUS
  <2>1. CASE u = d.user
    <3>1. o.seen = balance[u] /\ o.seen + d.amount >= 0
      BY <1>1, <1>5, <2>1 DEF KnowsBalance, d
    <3>2. q.rows[u][1] = new BY <1>10, <2>1
    <3> QED BY <1>3, <1>8, <3>1, <3>2 DEF KnowsBalance
  <2>2. CASE u # d.user
    <3>1. q.rows[u] = o.rows[u] BY <1>10, <2>2
    <3> QED BY <1>3, <1>5, <3>1 DEF KnowsBalance
  <2> QED BY <2>1, <2>2
<1> QED BY <1>4, <1>11, <1>12, StepKeepsMoney DEF PayInv

\* The ledger of a wallet grows by the row its new balance comes from.
LEMMA CommitExplains ==
    ASSUME PayInv, MoneyInv, NEW t \in Transaction, Commit(t), NEW u \in User
    PROVE  /\ ledger'[u] # <<>>
           /\ u \notin shared =>
                 /\ Last(ledger'[u]).balanceAfter = balance'[u]
                 /\ \A n \in DOMAIN ledger'[u] :
                       /\ ledger'[u][n].balanceAfter =
                             ledger'[u][n].amount + IF n = 1 THEN 0 ELSE ledger'[u][n - 1].balanceAfter
                       /\ ledger'[u][n].balanceAfter >= 0
           /\ balance'[u] = balance[u] \/ u \in Touched(t)
<1> DEFINE s == ledger[u]
           k == Len(s)
<1>1. /\ s \in Seq(RowType) /\ s # <<>> /\ k \in Nat /\ DOMAIN s = 1..k
      /\ u \notin shared =>
            /\ Last(s).balanceAfter = balance[u]
            /\ \A n \in DOMAIN s :
                  /\ s[n].balanceAfter = s[n].amount + IF n = 1 THEN 0 ELSE s[n - 1].balanceAfter
                  /\ s[n].balanceAfter >= 0
  BY LenProperties DEF PayInv, TypeInv, MoneyInv, LedgerExplainsUnshared
<1>2. k # 0 BY <1>1, EmptySeq
<1>3. Last(s) = s[k] BY DEF Last
<1>4. \/ /\ tx[t].rows[u] = <<>> /\ ledger'[u] = s /\ balance'[u] = balance[u]
      \/ \E row \in RowType :
            /\ tx[t].rows[u] = <<row>>
            /\ ledger'[u] = Append(s, row) /\ balance'[u] = row.balanceAfter
  BY CommitBooks
<1>5. tx[t] # Closed BY DEF Commit
<1>6. Touched(t) = ChangedBy(tx[t].todo) \cup {x \in User : tx[t].rows[x] # <<>>}
  BY <1>5, OpenMoney
<1>7. u \notin shared => KnowsBalance(tx[t], u) BY <1>5, OpenMoney
<1> HIDE DEF s, k
<1>8. CASE tx[t].rows[u] = <<>> /\ ledger'[u] = s /\ balance'[u] = balance[u]
  BY <1>1, <1>8
<1>9. ASSUME NEW row \in RowType, tx[t].rows[u] = <<row>>, ledger'[u] = Append(s, row),
             balance'[u] = row.balanceAfter
      PROVE  /\ ledger'[u] # <<>> /\ u \in Touched(t)
             /\ u \notin shared =>
                   /\ Last(ledger'[u]).balanceAfter = balance'[u]
                   /\ \A n \in DOMAIN ledger'[u] :
                         /\ ledger'[u][n].balanceAfter = ledger'[u][n].amount
                               + IF n = 1 THEN 0 ELSE ledger'[u][n - 1].balanceAfter
                         /\ ledger'[u][n].balanceAfter >= 0
  <2>1. <<row>> # <<>> /\ <<row>>[1] = row OBVIOUS
  <2>2. u \in Touched(t) BY <1>6, <1>9, <2>1
  <2>3. PICK new : new = Append(s, row) OBVIOUS
  <2>4. /\ new \in Seq(RowType) /\ Len(new) = k + 1 /\ DOMAIN new = 1..(k + 1) /\ new # <<>>
        /\ \A n \in 1..k : new[n] = s[n]
        /\ new[k + 1] = row
    <3>1. /\ new \in Seq(RowType) /\ Len(new) = k + 1 /\ new # <<>>
          /\ \A n \in 1..k : new[n] = s[n]
          /\ new[k + 1] = row
      BY <1>1, <2>3, AppendProperties DEF k
    <3> QED BY <3>1, LenProperties
  <2>5. Last(new) = row BY <2>4 DEF Last
  <2>6. ASSUME u \notin shared, NEW n \in 1..(k + 1)
        PROVE  /\ new[n].balanceAfter = new[n].amount + IF n = 1 THEN 0 ELSE new[n - 1].balanceAfter
               /\ new[n].balanceAfter >= 0
    <3>1. CASE n \in 1..k
      <4>1. new[n] = s[n] /\ (n # 1 => new[n - 1] = s[n - 1])
        <5>1. n # 1 => n - 1 \in 1..k BY <1>1, <3>1
        <5> QED BY <2>4, <3>1, <5>1
      <4> QED BY <1>1, <2>6, <3>1, <4>1
    <3>2. CASE n = k + 1
      <4>1. new[n] = row /\ n # 1 /\ n - 1 = k /\ new[k] = s[k]
        BY <1>1, <1>2, <2>4, <3>2
      <4>2. s[k].balanceAfter = balance[u] BY <1>1, <1>3, <2>6
      <4>3. row.balanceAfter = balance[u] + row.amount /\ row.balanceAfter >= 0
        BY <1>7, <1>9, <2>1, <2>6 DEF KnowsBalance
      <4>4. balance[u] \in Int /\ row.amount \in Int BY DEF PayInv, TypeInv, RowType
      <4> QED BY <4>1, <4>2, <4>3, <4>4
    <3> QED BY <1>1, <3>1, <3>2
  <2> QED BY <1>9, <2>2, <2>3, <2>4, <2>5, <2>6
<1> QED BY <1>4, <1>8, <1>9

\* A wallet that changes is not one another open transaction has read, unless it is shared.
LEMMA CommitKeepsMoney ==
    ASSUME PayInv, MoneyInv, NEW t \in Transaction, Commit(t)
    PROVE  MoneyInv'
<1>1. /\ tx[t] # Closed /\ tx' = [tx EXCEPT ![t] = Closed] /\ shared' = shared
      /\ \A o \in Transaction : tx'[o] = IF o = t THEN Closed ELSE tx[o]
  BY DEF Commit, End, PayInv, TypeInv
<1>2. \A o \in Transaction : Touched(o)' = IF o = t THEN {} ELSE Touched(o)
  BY <1>1 DEF Touched, ChangedBy
<1>3. \A x, o \in Transaction : x # o => (Touched(x) \cap Touched(o) \subseteq shared)'
  <2>1. \A x, o \in Transaction : x # o => Touched(x) \cap Touched(o) \subseteq shared
    BY DEF MoneyInv
  <2> QED BY <1>1, <1>2, <2>1
<1>4. ASSUME NEW o \in Transaction, NEW u \in User \ shared, tx'[o] # Closed
      PROVE  KnowsBalance(tx[o], u)'
  <2>1. tx'[o] = tx[o] /\ o # t /\ tx[o] # Closed BY <1>1, <1>4
  <2>2. KnowsBalance(tx[o], u) BY <2>1, OpenMoney
  <2>3. CASE u \in Touched(o)
    <3>1. u \notin Touched(t) BY <2>1, <2>3 DEF MoneyInv
    <3>2. balance'[u] = balance[u] BY <3>1, CommitExplains
    <3> QED BY <2>1, <2>2, <3>2 DEF KnowsBalance
  <2>4. CASE u \notin Touched(o)
    <3>1. tx[o].rows[u] = <<>> /\ u \notin ChangedBy(tx[o].todo) BY <2>1, <2>4, OpenMoney
    <3>2. tx[o].phase = "write" => tx[o].todo[1].user \in ChangedBy(tx[o].todo)
      BY <2>1, OpenHasType, TodoGoesOn DEF PayInv, TxInv, WriteInv
    <3>3. ~(tx[o].phase = "write" /\ tx[o].todo[1].user = u) BY <3>1, <3>2
    <3> QED BY <2>1, <3>1, <3>3 DEF KnowsBalance
  <2> QED BY <2>3, <2>4
<1>5. \A u \in User : ledger'[u] # <<>> BY CommitExplains
<1>6. LedgerExplainsUnshared'
  <2>1. \A u \in User \ shared :
           /\ Last(ledger'[u]).balanceAfter = balance'[u]
           /\ \A n \in DOMAIN ledger'[u] :
                 /\ ledger'[u][n].balanceAfter =
                       ledger'[u][n].amount + IF n = 1 THEN 0 ELSE ledger'[u][n - 1].balanceAfter
                 /\ ledger'[u][n].balanceAfter >= 0
    BY CommitExplains
  <2> QED BY <1>1, <2>1 DEF LedgerExplainsUnshared, Last
<1> QED BY <1>1, <1>3, <1>4, <1>5, <1>6 DEF MoneyInv

\* A wallet starts explained by its welcome row.
LEMMA InitMoney == Init => MoneyInv
<1> SUFFICES ASSUME Init PROVE MoneyInv
  OBVIOUS
<1>1. \A t \in Transaction : Touched(t) = {} /\ tx[t] = Closed BY DEF Init, Touched
<1>2. ASSUME NEW u \in User
      PROVE  /\ ledger[u] # <<>> /\ DOMAIN ledger[u] = {1} /\ Last(ledger[u]) = ledger[u][1]
             /\ ledger[u][1].balanceAfter = WelcomeBonus /\ ledger[u][1].amount = WelcomeBonus
             /\ balance[u] = WelcomeBonus
  <2> DEFINE row == Row(<<"welcome", u>>, u, WelcomeBonus, WelcomeBonus)
  <2>1. ledger[u] = <<row>> /\ balance[u] = WelcomeBonus BY DEF Init
  <2>2. row.balanceAfter = WelcomeBonus /\ row.amount = WelcomeBonus BY DEF Row
  <2> HIDE DEF row
  <2>3. <<row>> # <<>> /\ DOMAIN <<row>> = {1} /\ Last(<<row>>) = row /\ <<row>>[1] = row
    BY DEF Last
  <2> QED BY <2>1, <2>2, <2>3
<1>3. LedgerExplainsUnshared BY <1>2, AmountsAssumption DEF LedgerExplainsUnshared
<1> QED BY <1>1, <1>2, <1>3 DEF MoneyInv

\* Every operation keeps what the open transactions know, and the wallets explained.
LEMMA NextMoney == PayInv /\ MoneyInv /\ [Next]_vars => MoneyInv'
<1> SUFFICES ASSUME PayInv, MoneyInv, [Next]_vars PROVE MoneyInv'
  OBVIOUS
<1>1. TypeInv BY DEF PayInv
<1>2. ASSUME NEW g \in Game, BeginStart(g) PROVE MoneyInv'
  <2>1. <<"start", g>> \in Transaction BY DEF Transaction
  <2> QED BY <1>1, <1>2, <2>1, OpenKeepsMoney DEF BeginStart
<1>3. ASSUME NEW g \in Game, NEW w \in ToSet(Seats[g]), BeginFinish(g, w) PROVE MoneyInv'
  <2>1. <<"finish", g>> \in Transaction BY DEF Transaction
  <2> QED BY <1>1, <1>3, <2>1, OpenKeepsMoney DEF BeginFinish
<1>4. ASSUME NEW g \in Game, CommitStart(g) \/ CommitFinish(g) PROVE MoneyInv'
  <2>1. <<"start", g>> \in Transaction /\ <<"finish", g>> \in Transaction BY DEF Transaction
  <2> QED BY <1>4, <2>1, CommitKeepsMoney DEF CommitStart, CommitFinish
<1>5. ASSUME NEW t \in Transaction, Refuse(t) \/ Abort(t) PROVE MoneyInv'
  BY <1>1, <1>5, EndKeepsMoney DEF Refuse, Abort
<1>6. CASE UNCHANGED vars
  <2> USE <1>6 DEF vars
  <2>1. \A t \in Transaction : Touched(t)' = Touched(t) BY DEF Touched, ChangedBy
  <2>2. LedgerExplainsUnshared' BY DEF MoneyInv, LedgerExplainsUnshared, Last
  <2>3. \A t \in Transaction : \A u \in User \ shared' : tx'[t] # Closed => KnowsBalance(tx[t], u)'
    BY DEF MoneyInv, KnowsBalance
  <2>4. \A t, o \in Transaction : t # o => (Touched(t) \cap Touched(o) \subseteq shared)'
    BY <2>1 DEF MoneyInv
  <2>5. \A u \in User : ledger'[u] # <<>> BY DEF MoneyInv
  <2> QED BY <2>2, <2>3, <2>4, <2>5 DEF MoneyInv
<1> QED
  BY <1>2, <1>3, <1>4, <1>5, <1>6, SkipKeepsMoney, ReadKeepsMoney, WriteKeepsMoney DEF Next

\* WalletService: the wallet of whoever was never in two open transactions is
\* explained by its ledger row by row and never overdrawn, through every refusal,
\* abort and repetition.
THEOREM LedgerExplainsUnsharedHolds == Spec => []LedgerExplainsUnshared
<1>1. Init => PayInv /\ MoneyInv BY InitPay, InitMoney
<1>2. PayInv /\ MoneyInv /\ [Next]_vars => (PayInv /\ MoneyInv)' BY NextPay, NextMoney
<1>3. MoneyInv => LedgerExplainsUnshared BY DEF MoneyInv
<1> QED BY <1>1, <1>2, <1>3, PTL DEF Spec
=============================================================================
