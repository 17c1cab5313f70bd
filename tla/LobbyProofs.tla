----------------------------- MODULE LobbyProofs -----------------------------
(***************************************************************************)
(* What the lobby shows, and whom the start of the match calls, for every  *)
(* number of users, requests, taps and losses.                             *)
(*                                                                         *)
(* A request knows what it may know at its step (StepInv), the screen      *)
(* hears what it may hear (RouteInv), a call leads to a match that is dealt *)
(* (CallInv), and the newest list of the members is shown or on its way    *)
(* with none but older ones before it (CurrentInv).                        *)
(***************************************************************************)
EXTENDS Lobby, TLAPS, SequenceTheorems

Shown == ReadyType \cup {NoRoom}

HandlerType ==
    [kind : {"none", "load", "join", "ready", "start"}, user : Users, value : BOOLEAN,
     step : {"idle", "check", "write", "read", "publish", "create", "deal", "reply"},
     players : SUBSET Users, outcome : {"none", "ok", "error"}, snapshot : Shown]

UiType == [route : {"join", "lobby", "game"}, room : Shown, busy : BOOLEAN]

Message == {RoomUpdated(members) : members \in ReadyType} \cup {GameStarting}

TypeInv ==
    /\ ready \in ReadyType
    /\ game \in {NoGame} \cup GameType
    /\ handler \in [Slot -> HandlerType]
    /\ channel \in Seq(Message)
    /\ connected \in BOOLEAN /\ inRoom \in BOOLEAN
    /\ sub \in {"asked", "found", "waiting", "done"}
    /\ ui \in UiType
    /\ outdated \in BOOLEAN /\ late \in BOOLEAN /\ uncalled \in BOOLEAN

\* Only some requests come to a step, and some have a list then.
StepOf(p, h) ==
    /\ p = "load" => /\ h.step \in {"idle", "read", "reply"}
                     /\ h.step # "idle" => h.kind = "load"
                     /\ h.step = "reply" => h.outcome = "ok"
    /\ p # "load" => /\ h.kind # "load"
                     /\ h.step # "idle" => h.kind \in {"join", "ready", "start"}
                     /\ h.step \in {"write", "read"} => h.kind # "start"
                     /\ h.step = "reply" => p = "own" /\ h.outcome # "none"
                     /\ h.step = "reply" /\ (h.outcome = "error" \/ h.kind = "start")
                           => h.snapshot = NoRoom
    /\ h.step \in {"create", "deal"} => h.kind = "start"
    /\ h.step = "publish" /\ h.kind # "start" => h.snapshot \in ReadyType

StepInv == \A p \in Slot : StepOf(p, handler[p])

\* Who has not entered the lobby hears nothing, and nobody hears without a place in it.
RouteInv ==
    /\ ui.route = "join" => sub = "done" /\ ~inRoom /\ channel = <<>>
    /\ handler["own"].kind = "join" => ui.route = "join"
    /\ channel # <<>> => Hears
    /\ sub = "found" \/ inRoom => Self \in DOMAIN ready
    /\ ui.busy => ui.route = "game" \/ ~At("own", "idle")

\* A match that is dealt.
Dealt == game # NoGame /\ game.live

\* A start under way has its players, and the screen is called to a match that is dealt.
CallOf(h) ==
    /\ h.step = "create" => (Self \in DOMAIN ready => Self \in h.players \/ late)
    /\ h.step = "deal" => game # NoGame
    /\ h.step = "publish" /\ h.kind = "start" => Dealt

Called == \E i \in DOMAIN channel : channel[i] = GameStarting

CallInv ==
    /\ \A p \in Slot : CallOf(handler[p])
    /\ game # NoGame => (Self \in DOMAIN ready => Self \in game.players \/ late)
    /\ Called \/ ui.route = "game" => Dealt /\ Self \in DOMAIN ready
    /\ Dealt => \/ uncalled \/ ui.route = "game" \/ Called
                \/ \E p \in Slot : At(p, "publish") /\ handler[p].kind = "start"

\* A list that is held, and one that is on its way to a screen in the lobby.
Lists(h) == (h.step = "publish" \/ (h.step = "reply" /\ h.outcome = "ok")) /\ h.kind # "start"

WillPublish(h) == h.step = "read" \/ (h.step = "publish" /\ h.kind # "start")

NoUpdate == \A i \in DOMAIN channel : channel[i].event # "room:updated"

LastUpdate(list) ==
    \E i \in DOMAIN channel :
        /\ channel[i] = RoomUpdated(list)
        /\ \A j \in DOMAIN channel : j > i => channel[j].event # "room:updated"

Shows ==
    \/ ui.room = ready
    \/ At("load", "read") \/ At("load", "reply")
    \/ At("own", "reply") /\ handler["own"].kind = "ready" /\ handler["own"].outcome = "ok"

CurrentInv ==
    ~outdated =>
        /\ \A p \in Slot : Lists(handler[p]) => handler[p].snapshot = ready
        /\ ui.route = "lobby" => \/ WillPublish(handler["own"]) \/ WillPublish(handler["other"])
                                 \/ LastUpdate(ready)
                                 \/ NoUpdate /\ Shows

IInv == TypeInv /\ StepInv /\ RouteInv /\ CallInv /\ CurrentInv

-----------------------------------------------------------------------------
\* A request that goes on, or comes, changes nothing but itself.
LEMMA HandlerGoes ==
    ASSUME IInv, NEW p \in Slot, NEW q \in HandlerType,
           handler' = [handler EXCEPT ![p] = q],
           ready' = ready, game' = game, channel' = channel, connected' = connected,
           inRoom' = inRoom, sub' = sub, ui' = ui, outdated' = outdated, late' = late,
           uncalled' = uncalled,
           StepOf(p, q), CallOf(q),
           p = "own" => /\ q.kind = "join" => ui.route = "join"
                        /\ q.step = "idle" => At("own", "idle")
                        /\ ~At("own", "reply"),
           p = "load" => At("load", "read") /\ q.step = "reply",
           Lists(q) => q.snapshot = ready,
           p # "load" /\ WillPublish(handler[p]) => WillPublish(q),
           ~(At(p, "publish") /\ handler[p].kind = "start")
    PROVE  IInv'
<1>1. handler \in [Slot -> HandlerType] BY DEF IInv, TypeInv
<1>2. /\ handler'[p] = q /\ \A x \in Slot : x # p => handler'[x] = handler[x]
      /\ handler' \in [Slot -> HandlerType]
  BY <1>1
<1>3. TypeInv' BY <1>2 DEF IInv, TypeInv
<1>4. StepInv'
  <2>1. \A x \in Slot : StepOf(x, handler'[x]) BY <1>2 DEF IInv, StepInv
  <2> QED BY <2>1 DEF StepInv, StepOf
<1>5. RouteInv' BY <1>2 DEF IInv, RouteInv, Hears, At, Slot
<1>6. CallInv'
  <2>1. \A x \in Slot : CallOf(handler'[x]) BY <1>2 DEF IInv, CallInv
  <2>2. (\A x \in Slot : CallOf(handler[x]))' BY <2>1 DEF CallOf, Dealt
  <2>3. Called' = Called /\ Dealt' = Dealt BY DEF Called, Dealt, GameStarting
  <2>4. \A x \in Slot : At(x, "publish") /\ handler[x].kind = "start" =>
                        (At(x, "publish") /\ handler[x].kind = "start")'
    BY <1>2 DEF At
  <2>5. Dealt => (\/ uncalled \/ ui.route = "game" \/ Called
                  \/ \E x \in Slot : At(x, "publish") /\ handler[x].kind = "start")'
    BY <2>3, <2>4 DEF IInv, CallInv
  <2> QED BY <2>2, <2>3, <2>5 DEF IInv, CallInv
<1>7. CurrentInv'
  <2> SUFFICES ASSUME ~outdated
      PROVE  /\ \A x \in Slot : (Lists(handler[x]) => handler[x].snapshot = ready)'
             /\ ui.route = "lobby" => (\/ WillPublish(handler["own"]) \/ WillPublish(handler["other"])
                                       \/ LastUpdate(ready)
                                       \/ NoUpdate /\ Shows)'
    BY DEF CurrentInv
  <2>1. \A x \in Slot : Lists(handler'[x]) => handler'[x].snapshot = ready
    BY <1>2 DEF IInv, CurrentInv
  <2>2. LastUpdate(ready)' <=> LastUpdate(ready) BY DEF LastUpdate, RoomUpdated
  <2>3. NoUpdate' <=> NoUpdate BY DEF NoUpdate
  <2>4. Shows => Shows' BY <1>2 DEF Shows, At, Slot
  <2>5. \A x \in {"own", "other"} : WillPublish(handler[x]) => WillPublish(handler'[x])
    BY <1>2 DEF Slot
  <2>6. \A x \in {"own", "other"} : WillPublish(handler[x]) => WillPublish(handler[x])'
    BY <2>5 DEF WillPublish
  <2>7. \A x \in Slot : (Lists(handler[x]) => handler[x].snapshot = ready)'
    BY <2>1 DEF Lists
  <2> QED BY <2>2, <2>3, <2>4, <2>6, <2>7 DEF IInv, CurrentInv
<1> QED BY <1>3, <1>4, <1>5, <1>6, <1>7 DEF IInv

\* Nothing is asked for.
LEMMA IdleStep == Idle \in HandlerType /\ Idle.kind = "none" /\ Idle.step = "idle"
<1>1. NoRoom \in Shown /\ Self \in Users BY DEF Shown, Users
<1> QED BY <1>1 DEF Idle, Request, HandlerType

\* The lobby that is entered asks for its room.
LEMMA LoadStep == Load \in HandlerType /\ Load.kind = "load" /\ Load.step = "read"
<1>1. NoRoom \in Shown /\ Self \in Users BY DEF Shown, Users
<1> QED BY <1>1 DEF Load, Request, HandlerType

\* A request that has come.
LEMMA RequestStep ==
    ASSUME NEW kind \in {"load", "join", "ready", "start"}, NEW u \in Users, NEW value \in BOOLEAN,
           NEW step \in {"read", "check"}, NEW q, q = Request(kind, u, value, step)
    PROVE  q \in HandlerType /\ q.kind = kind /\ q.step = step
<1>1. NoRoom \in Shown BY DEF Shown
<1> QED BY <1>1 DEF Request, HandlerType

Moved(h, step) == [h EXCEPT !.step = step]
Replied(h, outcome, list) == [h EXCEPT !.step = "reply", !.outcome = outcome, !.snapshot = list]
Listed(h, list) == [h EXCEPT !.step = "publish", !.snapshot = list]
Chosen(h, players) == [h EXCEPT !.step = "create", !.players = players]

\* A request that goes on as it is.
LEMMA MovedStep ==
    ASSUME NEW h \in HandlerType, NEW step \in {"write", "read", "publish", "deal"}
    PROVE  /\ Moved(h, step) \in HandlerType /\ Moved(h, step).step = step
           /\ Moved(h, step).kind = h.kind /\ Moved(h, step).snapshot = h.snapshot
BY DEF HandlerType, Moved

\* A request that is answered.
LEMMA RepliedStep ==
    ASSUME NEW h \in HandlerType, NEW outcome \in {"ok", "error"}, NEW list \in Shown
    PROVE  /\ Replied(h, outcome, list) \in HandlerType /\ Replied(h, outcome, list).step = "reply"
           /\ Replied(h, outcome, list).kind = h.kind /\ Replied(h, outcome, list).outcome = outcome
           /\ Replied(h, outcome, list).snapshot = list
BY DEF HandlerType, Replied

\* A request that has listed the members.
LEMMA ListedStep ==
    ASSUME NEW h \in HandlerType, NEW list \in Shown
    PROVE  /\ Listed(h, list) \in HandlerType /\ Listed(h, list).step = "publish"
           /\ Listed(h, list).kind = h.kind /\ Listed(h, list).snapshot = list
BY DEF HandlerType, Listed

\* A start that has its players.
LEMMA ChosenStep ==
    ASSUME NEW h \in HandlerType, NEW players \in SUBSET Users
    PROVE  /\ Chosen(h, players) \in HandlerType /\ Chosen(h, players).step = "create"
           /\ Chosen(h, players).kind = h.kind /\ Chosen(h, players).players = players
BY DEF HandlerType, Chosen

\* What the invariant says of one request.
LEMMA Handler ==
    ASSUME IInv, NEW p \in Slot
    PROVE  /\ handler[p] \in HandlerType /\ StepOf(p, handler[p]) /\ CallOf(handler[p])
           /\ p = "own" => (handler[p].kind = "join" => ui.route = "join")
           /\ ready \in ReadyType /\ ready \in Shown /\ NoRoom \in Shown /\ NoRoom # ready
           /\ DOMAIN ready \in SUBSET Users
<1>1. handler[p] \in HandlerType /\ ready \in ReadyType BY DEF IInv, TypeInv
<1>2. StepOf(p, handler[p]) /\ CallOf(handler[p]) BY DEF IInv, StepInv, CallInv
<1>3. p = "own" => (handler[p].kind = "join" => ui.route = "join") BY DEF IInv, RouteInv
<1>4. NoRoom # ready BY <1>1, LobbyAssumption
<1>5. DOMAIN ready \in SUBSET Users BY <1>1 DEF ReadyType
<1> QED BY <1>1, <1>2, <1>3, <1>4, <1>5 DEF Shown

\* A request that is refused, by a check or by the start of the game.
LEMMA ErrorKeeps ==
    ASSUME IInv, NEW p \in Slot, Answers(p, "error", NoRoom),
           At(p, "check") \/ At(p, "create") \/ At(p, "deal"),
           ready' = ready, game' = game, channel' = channel, connected' = connected,
           inRoom' = inRoom, sub' = sub, ui' = ui, outdated' = outdated, late' = late,
           uncalled' = uncalled
    PROVE  IInv'
<1> DEFINE h == handler[p]
           q == IF p = "other" THEN Idle ELSE Replied(h, "error", NoRoom)
<1>1. handler' = [handler EXCEPT ![p] = q] BY DEF Answers, Answer, Replied
<1>2. /\ h \in HandlerType /\ StepOf(p, h) /\ (p = "own" => (h.kind = "join" => ui.route = "join"))
      /\ NoRoom \in Shown
  BY Handler
<1>3. h.step \in {"check", "create", "deal"} BY DEF At
<1>4. h.step # "reply" /\ h.step # "publish" /\ h.step # "read" /\ h.step # "idle" BY <1>3
<1> HIDE DEF h
<1>5. p # "load" BY <1>2, <1>4 DEF StepOf
<1>6. CASE p = "other"
  <2>1. q = Idle BY <1>6
  <2> HIDE DEF q
  <2>2. q \in HandlerType /\ q.kind = "none" /\ q.step = "idle" BY <2>1, IdleStep
  <2>3. StepOf(p, q) /\ CallOf(q) /\ ~Lists(q)
    BY <1>6, <2>2 DEF StepOf, CallOf, Lists
  <2>4. ~WillPublish(handler[p]) /\ ~At(p, "publish") BY <1>4 DEF WillPublish, At, h
  <2> QED BY <1>1, <1>5, <1>6, <2>2, <2>3, <2>4, HandlerGoes
<1>7. CASE p # "other"
  <2>1. q = Replied(h, "error", NoRoom) BY <1>7
  <2> HIDE DEF q
  <2>2. /\ q \in HandlerType /\ q.step = "reply" /\ q.kind = h.kind /\ q.outcome = "error"
        /\ q.snapshot = NoRoom
    BY <1>2, <2>1, RepliedStep
  <2>3. p = "own" BY <1>5, <1>7 DEF Slot
  <2>4. StepOf(p, q) /\ CallOf(q) /\ ~Lists(q)
    BY <1>2, <1>4, <2>2, <2>3 DEF StepOf, CallOf, Lists
  <2>5. ~WillPublish(handler[p]) /\ ~At(p, "publish") /\ ~At(p, "reply")
    BY <1>4 DEF WillPublish, At, h
  <2> QED BY <1>1, <1>2, <2>2, <2>3, <2>4, <2>5, HandlerGoes
<1> QED BY <1>6, <1>7

\* A join or a ready mark that passes the checks.
LEMMA CheckKeeps == ASSUME IInv, NEW p \in Slot, Check(p) PROVE IInv'
<1> DEFINE h == handler[p]
           q == Moved(h, "write")
<1>1. /\ handler' = [handler EXCEPT ![p] = q] /\ h.step = "check" /\ h.kind \in {"join", "ready"}
      /\ UNCHANGED <<server, network, ui, bounds, history>>
  BY DEF Check, Goes, Moved, At
<1>2. /\ h \in HandlerType /\ StepOf(p, h) /\ (p = "own" => (h.kind = "join" => ui.route = "join"))
  BY Handler
<1>3. q \in HandlerType /\ q.step = "write" /\ q.kind = h.kind BY <1>2, MovedStep
<1>4. ~WillPublish(handler[p]) /\ ~At(p, "publish") /\ ~At(p, "reply") BY <1>1 DEF WillPublish, At
<1> HIDE DEF h, q
<1>5. p # "load" BY <1>1, <1>2 DEF StepOf
<1>6. StepOf(p, q) /\ CallOf(q) /\ ~Lists(q) BY <1>1, <1>3, <1>5 DEF StepOf, CallOf, Lists
<1> QED BY <1>1, <1>2, <1>3, <1>4, <1>5, <1>6, HandlerGoes DEF server, network, history

\* A request that lists the members lists them as they are.
LEMMA ListKeeps == ASSUME IInv, NEW p \in Slot, List(p) PROVE IInv'
<1> DEFINE h == handler[p]
           q == IF p = "load" THEN Replied(h, "ok", ready) ELSE Listed(h, ready)
<1>1. /\ handler' = [handler EXCEPT ![p] = q] /\ h.step = "read"
      /\ UNCHANGED <<server, network, ui, bounds, history>>
  BY DEF List, Answer, Replied, Listed, At
<1>2. /\ h \in HandlerType /\ StepOf(p, h) /\ (p = "own" => (h.kind = "join" => ui.route = "join"))
      /\ ready \in ReadyType /\ ready \in Shown
  BY Handler
<1>3. ~At(p, "publish") /\ ~At(p, "reply") /\ At(p, "read") BY <1>1 DEF At
<1> HIDE DEF h
<1>4. CASE p = "load"
  <2>1. q = Replied(h, "ok", ready) BY <1>4
  <2> HIDE DEF q
  <2>2. /\ q \in HandlerType /\ q.step = "reply" /\ q.kind = h.kind /\ q.outcome = "ok"
        /\ q.snapshot = ready
    BY <1>2, <2>1, RepliedStep
  <2>3. StepOf(p, q) /\ CallOf(q) BY <1>1, <1>2, <1>4, <2>2 DEF StepOf, CallOf
  <2> QED BY <1>1, <1>3, <1>4, <2>2, <2>3, HandlerGoes DEF server, network, history
<1>5. CASE p # "load"
  <2>1. q = Listed(h, ready) BY <1>5
  <2> HIDE DEF q
  <2>2. q \in HandlerType /\ q.step = "publish" /\ q.kind = h.kind /\ q.snapshot = ready
    BY <1>2, <2>1, ListedStep
  <2>3. StepOf(p, q) /\ CallOf(q) /\ WillPublish(q)
    BY <1>1, <1>2, <1>5, <2>2 DEF StepOf, CallOf, WillPublish
  <2> QED BY <1>1, <1>2, <1>3, <1>5, <2>2, <2>3, HandlerGoes DEF server, network, history
<1> QED BY <1>4, <1>5

\* A start takes the members it has checked; one who joins later is late.
LEMMA StartCheckKeeps == ASSUME IInv, NEW p \in Slot, StartCheck(p) PROVE IInv'
<1> DEFINE h == handler[p]
           q == Chosen(h, DOMAIN ready)
<1>1. /\ h.step = "check" /\ h.kind = "start"
      /\ handler' = [handler EXCEPT ![p] = q] \/ Answers(p, "error", NoRoom)
      /\ UNCHANGED <<server, network, ui, bounds, history>>
  BY DEF StartCheck, Chosen, At
<1>2. CASE Answers(p, "error", NoRoom)
  <2>1. At(p, "check") BY <1>1 DEF At
  <2> QED BY <1>1, <1>2, <2>1, ErrorKeeps DEF server, network, history
<1>3. CASE handler' = [handler EXCEPT ![p] = q]
  <2>1. /\ h \in HandlerType /\ StepOf(p, h) /\ (p = "own" => (h.kind = "join" => ui.route = "join"))
        /\ DOMAIN ready \in SUBSET Users
    BY Handler
  <2>2. ~WillPublish(handler[p]) /\ ~At(p, "publish") /\ ~At(p, "reply") BY <1>1 DEF WillPublish, At
  <2> HIDE DEF h
  <2>3. /\ q \in HandlerType /\ q.step = "create" /\ q.kind = h.kind /\ q.players = DOMAIN ready
    BY <2>1, ChosenStep
  <2> HIDE DEF q
  <2>4. p # "load" BY <1>1, <2>1 DEF StepOf
  <2>5. StepOf(p, q) /\ CallOf(q) /\ ~Lists(q)
    BY <1>1, <2>3, <2>4 DEF StepOf, CallOf, Lists
  <2> QED BY <1>1, <1>3, <2>1, <2>2, <2>3, <2>4, <2>5, HandlerGoes DEF server, network, history
<1> QED BY <1>1, <1>2, <1>3

\* The others' requests come one at a time.
LEMMA OtherAsksKeeps == ASSUME IInv, NEW u \in Others, OtherAsks(u) PROVE IInv'
<1>1. PICK kind \in {"join", "ready", "start"}, value \in BOOLEAN :
         handler' = [handler EXCEPT !["other"] = Request(kind, u, value, "check")]
  <2>1. u \in DOMAIN ready => ready[u] \in BOOLEAN BY DEF IInv, TypeInv, ReadyType
  <2>2. \A x \in BOOLEAN : (~x) \in BOOLEAN OBVIOUS
  <2>3. u \in DOMAIN ready => (~ready[u]) \in BOOLEAN BY <2>1, <2>2
  <2> QED BY <2>3 DEF OtherAsks
<1>2. At("other", "idle") /\ UNCHANGED <<server, network, ui, taps, losses, history>> BY DEF OtherAsks
<1> DEFINE q == Request(kind, u, value, "check")
<1>3. q \in HandlerType /\ q.kind = kind /\ q.step = "check"
  <2>1. u \in Users BY DEF Users
  <2> QED BY <2>1, RequestStep
<1> HIDE DEF q
<1>4. "other" \in Slot /\ StepOf("other", q) /\ CallOf(q) /\ ~Lists(q)
  BY <1>3 DEF Slot, StepOf, CallOf, Lists
<1>5. ~WillPublish(handler["other"]) /\ ~At("other", "publish") BY <1>2 DEF At, WillPublish
<1>6. handler' = [handler EXCEPT !["other"] = q] BY <1>1 DEF q
<1> QED BY <1>2, <1>3, <1>4, <1>5, <1>6, HandlerGoes DEF server, network, history

\* A change of the members makes the lists that are held old ones, and is followed
\* by a list of its own; the user who comes in during a start is late.
LEMMA WriteKeeps == ASSUME IInv, NEW p \in Slot, Write(p) PROVE IInv'
<1> DEFINE h == handler[p]
           q == Moved(h, "read")
           u == h.user
<1>1. /\ handler' = [handler EXCEPT ![p] = q] /\ h.step = "write"
      /\ ready' = IF h.kind = "join"
                  THEN [m \in DOMAIN ready \cup {u} |-> m \in DOMAIN ready /\ ready[m]]
                  ELSE [ready EXCEPT ![u] = h.value]
      /\ late' = (late \/ (h.kind = "join" /\ u = Self /\ u \notin DOMAIN ready /\ StartUnderWay))
      /\ outdated' = IF ready' = ready THEN outdated ELSE Overtaken
      /\ game' = game /\ channel' = channel /\ connected' = connected /\ inRoom' = inRoom
      /\ sub' = sub /\ ui' = ui /\ uncalled' = uncalled
  BY DEF Write, Goes, Moved, At, network
<1>2. /\ h \in HandlerType /\ StepOf(p, h) /\ handler \in [Slot -> HandlerType]
      /\ ready \in ReadyType
  BY Handler DEF IInv, TypeInv
<1>3. q \in HandlerType /\ q.step = "read" /\ q.kind = h.kind BY <1>2, MovedStep
<1>4. p \in {"own", "other"} /\ h.kind \in {"join", "ready"} /\ h.kind # "start"
  BY <1>1, <1>2 DEF StepOf, Slot
<1>5. u \in Users /\ h.value \in BOOLEAN BY <1>2 DEF HandlerType
<1> HIDE DEF h, q, u
<1>6. /\ handler'[p] = q /\ \A x \in Slot : x # p => handler'[x] = handler[x]
      /\ handler' \in [Slot -> HandlerType]
  BY <1>1, <1>2, <1>3
<1>7. PICK members \in SUBSET Users : ready \in [members -> BOOLEAN] BY <1>2 DEF ReadyType
<1>8. /\ ready' \in ReadyType /\ DOMAIN ready \subseteq DOMAIN ready'
      /\ Self \in DOMAIN ready' => Self \in DOMAIN ready \/ (h.kind = "join" /\ u = Self)
  <2>1. CASE h.kind = "join"
    <3>1. ready' = [m \in members \cup {u} |-> m \in members /\ ready[m]] BY <1>1, <1>7, <2>1
    <3>2. ready' \in [members \cup {u} -> BOOLEAN] BY <1>7, <3>1
    <3>3. members \cup {u} \in SUBSET Users BY <1>5
    <3>4. DOMAIN ready' = members \cup {u} /\ DOMAIN ready = members BY <1>7, <3>1
    <3> QED BY <2>1, <3>2, <3>3, <3>4 DEF ReadyType
  <2>2. CASE h.kind # "join"
    <3>1. ready' = [ready EXCEPT ![u] = h.value] BY <1>1, <2>2
    <3>2. ready' \in [members -> BOOLEAN] BY <1>5, <1>7, <3>1
    <3>3. DOMAIN ready' = DOMAIN ready BY <3>1
    <3> QED BY <3>2, <3>3 DEF ReadyType
  <2> QED BY <2>1, <2>2
<1>9. TypeInv'
  <2>1. late' \in BOOLEAN BY <1>1
  <2>2. outdated' \in BOOLEAN BY <1>1 DEF IInv, TypeInv, Overtaken
  <2> QED BY <1>1, <1>6, <1>8, <2>1, <2>2 DEF IInv, TypeInv
<1>10. StepInv'
  <2>1. StepOf(p, q) BY <1>3, <1>4, <1>2 DEF StepOf
  <2>2. \A x \in Slot : StepOf(x, handler'[x]) BY <1>6, <2>1 DEF IInv, StepInv
  <2> QED BY <2>2 DEF StepInv, StepOf
<1>11. RouteInv'
  <2>1. handler'["own"].kind = handler["own"].kind
        /\ (At("own", "idle")' <=> At("own", "idle"))
    BY <1>1, <1>3, <1>4, <1>6 DEF At, Slot, h
  <2> QED BY <1>1, <1>8, <2>1 DEF IInv, RouteInv, Hears
<1>12. CallInv'
  <2>1. Self \in DOMAIN ready' => Self \in DOMAIN ready \/ ~StartUnderWay \/ late'
    BY <1>1, <1>8
  <2>2. (late => late') /\ Dealt' = Dealt /\ Called' = Called
    BY <1>1 DEF Dealt, Called, GameStarting
  <2>3. ASSUME NEW x \in Slot PROVE CallOf(handler[x])'
    <3>1. CASE x = p BY <1>3, <1>6, <3>1 DEF CallOf
    <3>2. CASE x # p
      <4>1. CallOf(handler[x]) /\ handler'[x] = handler[x] BY <1>6, <3>2, Handler
      <4>2. handler[x].step = "create" => StartUnderWay BY DEF StartUnderWay, At
      <4> QED BY <1>1, <2>1, <2>2, <4>1, <4>2 DEF CallOf
    <3> QED BY <3>1, <3>2
  <2>4. game # NoGame => (Self \in DOMAIN ready' => Self \in game.players \/ late')
    BY <2>1, <2>2 DEF IInv, CallInv, StartUnderWay
  <2>5. \A x \in Slot : At(x, "publish") /\ handler[x].kind = "start" =>
                        (At(x, "publish") /\ handler[x].kind = "start")'
    BY <1>1, <1>6 DEF At, h
  <2> QED BY <1>1, <1>8, <2>2, <2>3, <2>4, <2>5 DEF IInv, CallInv
<1>13. CurrentInv'
  <2>1. WillPublish(handler[p])' BY <1>3, <1>6 DEF WillPublish
  <2>2. ASSUME ~outdated', NEW x \in Slot, Lists(handler'[x]) PROVE handler'[x].snapshot = ready'
    <3>1. x # p /\ handler'[x] = handler[x] BY <1>3, <1>6, <2>2 DEF Lists
    <3>2. Holds(x) /\ handler[x].kind # "start" BY <2>2, <3>1 DEF Lists, Holds, At
    <3>3. ready' = ready /\ ~outdated BY <1>1, <2>2, <3>2 DEF Overtaken
    <3> QED BY <2>2, <3>1, <3>3 DEF IInv, CurrentInv
  <2> QED BY <1>4, <2>1, <2>2 DEF CurrentInv, Lists, WillPublish
<1> QED BY <1>9, <1>10, <1>11, <1>12, <1>13 DEF IInv

-----------------------------------------------------------------------------
\* A list is no call.
LEMMA Messages ==
    /\ GameStarting \in Message /\ GameStarting.event # "room:updated"
    /\ \A list \in ReadyType : RoomUpdated(list) \in Message
    /\ \A list : RoomUpdated(list).event = "room:updated" /\ RoomUpdated(list) # GameStarting
               /\ RoomUpdated(list).room = list
<1>1. GameStarting.event = "game:starting" BY DEF GameStarting
<1>2. \A list : RoomUpdated(list).event = "room:updated" /\ RoomUpdated(list).room = list
  BY DEF RoomUpdated
<1>3. \A list : RoomUpdated(list) # GameStarting BY <1>1, <1>2
<1> QED BY <1>1, <1>2, <1>3 DEF Message

\* A message that is sent comes after the others.
LEMMA Sent ==
    ASSUME NEW s \in Seq(Message), NEW m \in Message, NEW t, t = Append(s, m)
    PROVE  /\ t \in Seq(Message) /\ t # <<>>
           /\ \A i \in DOMAIN s : i \in DOMAIN t /\ t[i] = s[i]
           /\ \E n \in DOMAIN t : /\ t[n] = m
                                  /\ \A i \in DOMAIN t : i \in DOMAIN s \/ i = n
                                  /\ \A i \in DOMAIN t : ~(i > n)
<1>1. Len(s) \in Nat /\ DOMAIN s = 1..Len(s) BY LenProperties
<1>2. /\ t \in Seq(Message) /\ t # <<>> /\ Len(t) = Len(s) + 1
      /\ \A i \in 1..Len(s) : t[i] = s[i]
      /\ t[Len(s) + 1] = m
  BY AppendProperties
<1>3. DOMAIN t = 1..(Len(s) + 1) BY <1>2, LenProperties
<1> QED BY <1>1, <1>2, <1>3

\* Where a request that has told the room what it did ends.
LEMMA AnswerStep ==
    ASSUME IInv, NEW p \in Slot, At(p, "publish"), NEW list \in Shown, Answers(p, "ok", list)
    PROVE  /\ p \in {"own", "other"} /\ handler' \in [Slot -> HandlerType]
           /\ \A x \in Slot : x # p => handler'[x] = handler[x]
           /\ p = "other" => handler'[p].kind = "none" /\ handler'[p].step = "idle"
           /\ p = "own" => /\ handler'[p].kind = handler[p].kind /\ handler'[p].step = "reply"
                           /\ handler'[p].outcome = "ok" /\ handler'[p].snapshot = list
<1> DEFINE h == handler[p]
           q == IF p = "other" THEN Idle ELSE Replied(h, "ok", list)
<1>1. handler' = [handler EXCEPT ![p] = q] BY DEF Answers, Answer, Replied
<1>2. h \in HandlerType /\ StepOf(p, h) /\ h.step = "publish" BY Handler DEF At
<1>3. p \in {"own", "other"} BY <1>2 DEF StepOf, Slot
<1>4. handler \in [Slot -> HandlerType] BY DEF IInv, TypeInv
<1>5. /\ Idle \in HandlerType /\ Idle.kind = "none" /\ Idle.step = "idle"
      /\ Replied(h, "ok", list) \in HandlerType /\ Replied(h, "ok", list).step = "reply"
      /\ Replied(h, "ok", list).kind = h.kind /\ Replied(h, "ok", list).outcome = "ok"
      /\ Replied(h, "ok", list).snapshot = list
  BY <1>2, IdleStep, RepliedStep
<1>6. /\ q \in HandlerType
      /\ p = "other" => q.kind = "none" /\ q.step = "idle"
      /\ p = "own" => q.kind = h.kind /\ q.step = "reply" /\ q.outcome = "ok" /\ q.snapshot = list
  BY <1>5
<1> HIDE DEF q
<1> QED BY <1>1, <1>3, <1>4, <1>6

\* The list that is broadcast is the newest, and its own answer repeats it.
LEMMA PublishKeeps == ASSUME IInv, NEW p \in Slot, Publish(p) PROVE IInv'
<1> DEFINE h == handler[p]
           list == handler[p].snapshot
<1>1. /\ h.step = "publish" /\ At(p, "publish") /\ h.kind \in {"join", "ready"} /\ h.kind # "start"
      /\ channel' = IF Hears THEN Append(channel, RoomUpdated(list)) ELSE channel
      /\ outdated' = (outdated \/ (p = "other" /\ Misses))
      /\ Answers(p, "ok", list)
      /\ ready' = ready /\ game' = game /\ connected' = connected /\ inRoom' = inRoom
      /\ sub' = sub /\ ui' = ui /\ late' = late /\ uncalled' = uncalled
  BY DEF Publish, ToRoom, At, server
<1>2. /\ h \in HandlerType /\ StepOf(p, h) /\ (p = "own" => (h.kind = "join" => ui.route = "join"))
      /\ NoRoom # ready
  BY Handler
<1>3. list \in ReadyType /\ list \in Shown BY <1>1, <1>2 DEF StepOf, Shown
<1>4. /\ p \in {"own", "other"} /\ handler' \in [Slot -> HandlerType]
      /\ \A x \in Slot : x # p => handler'[x] = handler[x]
      /\ p = "other" => handler'[p].kind = "none" /\ handler'[p].step = "idle"
      /\ p = "own" => /\ handler'[p].kind = h.kind /\ handler'[p].step = "reply"
                      /\ handler'[p].outcome = "ok" /\ handler'[p].snapshot = list
  BY <1>1, <1>3, AnswerStep
<1>5. ~outdated => list = ready BY <1>1 DEF IInv, CurrentInv, Lists
<1> HIDE DEF h, list
<1>6. channel \in Seq(Message) /\ RoomUpdated(list) \in Message BY <1>3, Messages DEF IInv, TypeInv
<1>7. /\ channel' \in Seq(Message) /\ (Hears => channel' # <<>>)
      /\ \A i \in DOMAIN channel : i \in DOMAIN channel' /\ channel'[i] = channel[i]
      /\ \A i \in DOMAIN channel' : channel'[i] = RoomUpdated(list)
                                     \/ (i \in DOMAIN channel /\ channel'[i] = channel[i])
      /\ Hears => \E n \in DOMAIN channel' : /\ channel'[n] = RoomUpdated(list)
                                             /\ \A i \in DOMAIN channel' : ~(i > n)
  <2>1. CASE Hears
    <3>1. channel' = Append(channel, RoomUpdated(list)) BY <1>1, <2>1
    <3> QED BY <1>6, <3>1, Sent
  <2>2. CASE ~Hears
    <3>1. channel' = channel BY <1>1, <2>2
    <3> QED BY <1>6, <2>2, <3>1
  <2> QED BY <2>1, <2>2
<1>8. TypeInv'
  <2>1. outdated' \in BOOLEAN BY <1>1 DEF IInv, TypeInv
  <2> QED BY <1>1, <1>4, <1>7, <2>1 DEF IInv, TypeInv
<1>9. StepInv'
  <2>1. StepOf(p, handler'[p]) BY <1>1, <1>2, <1>4 DEF StepOf
  <2>2. \A x \in Slot : StepOf(x, handler'[x]) BY <1>4, <2>1 DEF IInv, StepInv
  <2> QED BY <2>2 DEF StepInv, StepOf
<1>10. RouteInv'
  <2>1. handler'["own"].kind = handler["own"].kind /\ (At("own", "idle")' => At("own", "idle"))
    BY <1>1, <1>4 DEF At, Slot, h
  <2>2. ui.route = "join" => channel' = <<>> BY <1>1 DEF IInv, RouteInv, Hears
  <2>3. channel' # <<>> => Hears BY <1>1 DEF IInv, RouteInv
  <2> QED BY <1>1, <2>1, <2>2, <2>3 DEF IInv, RouteInv, Hears
<1>11. CallInv'
  <2>1. Called' = Called
    <3>1. RoomUpdated(list) # GameStarting BY Messages
    <3> QED BY <1>7, <3>1 DEF Called, GameStarting
  <2>2. Dealt' = Dealt BY <1>1 DEF Dealt
  <2>3. ASSUME NEW x \in Slot PROVE CallOf(handler[x])'
    <3>1. CASE x = p BY <1>4, <3>1 DEF CallOf
    <3>2. CASE x # p BY <1>1, <1>4, <2>2, <3>2 DEF IInv, CallInv, CallOf
    <3> QED BY <3>1, <3>2
  <2>4. \A x \in Slot : At(x, "publish") /\ handler[x].kind = "start" =>
                        (At(x, "publish") /\ handler[x].kind = "start")'
    BY <1>1, <1>4 DEF At, h
  <2> QED BY <1>1, <2>1, <2>2, <2>3, <2>4 DEF IInv, CallInv
<1>12. CurrentInv'
  <2> SUFFICES ASSUME ~outdated'
      PROVE  /\ \A x \in Slot : (Lists(handler[x]) => handler[x].snapshot = ready)'
             /\ ui.route = "lobby" => LastUpdate(ready)' \/ (NoUpdate /\ Shows)'
    BY <1>1 DEF CurrentInv
  <2>1. ~outdated /\ list = ready BY <1>1, <1>5
  <2>2. \A x \in Slot : Lists(handler'[x]) => handler'[x].snapshot = ready
    BY <1>4, <2>1 DEF IInv, CurrentInv, Lists
  <2>3. \A x \in Slot : (Lists(handler[x]) => handler[x].snapshot = ready)'
    BY <1>1, <2>2 DEF Lists
  <2>4. CASE Hears
    <3>1. LastUpdate(ready)' BY <1>1, <1>7, <2>1, <2>4 DEF LastUpdate, RoomUpdated
    <3> QED BY <2>3, <3>1
  <2>5. CASE ~Hears /\ ui.route = "lobby"
    <3>1. channel = <<>> /\ channel' = <<>> BY <1>1, <2>5 DEF IInv, RouteInv
    <3>2. NoUpdate' BY <3>1 DEF NoUpdate
    <3>3. CASE p = "own"
      <4>1. h.kind = "ready" BY <1>1, <1>2, <2>5, <3>3
      <4> QED BY <1>4, <2>3, <3>2, <3>3, <4>1 DEF Shows, At
    <3>4. CASE p = "other"
      <4>1. ~Misses BY <1>1, <3>4
      <4>2. \/ At("load", "read") \/ ui.room = ready
            \/ \E x \in {"load", "own"} : At(x, "reply") /\ handler[x].snapshot = ready
        BY <2>5, <4>1 DEF Misses
      <4>3. At("own", "reply") /\ handler["own"].snapshot = ready =>
               handler["own"].kind = "ready" /\ handler["own"].outcome = "ok"
        <5>1. /\ "own" \in Slot /\ handler["own"] \in HandlerType /\ StepOf("own", handler["own"])
              /\ handler["own"].kind # "join"
          BY <2>5, Handler DEF Slot
        <5>2. handler["own"].outcome \in {"none", "ok", "error"} BY <5>1 DEF HandlerType
        <5> QED BY <1>2, <5>1, <5>2 DEF StepOf, At
      <4>4. handler'["load"] = handler["load"] /\ handler'["own"] = handler["own"]
        BY <1>4, <3>4 DEF Slot
      <4>5. Shows' BY <1>1, <4>2, <4>3, <4>4 DEF Shows, At
      <4> QED BY <2>3, <3>2, <4>5
    <3> QED BY <1>4, <3>3, <3>4
  <2> QED BY <2>3, <2>4, <2>5
<1> QED BY <1>8, <1>9, <1>10, <1>11, <1>12 DEF IInv

\* A start that is announced calls who hears it to the match it has dealt.
LEMMA StartAnnounceKeeps == ASSUME IInv, NEW p \in Slot, StartAnnounce(p) PROVE IInv'
<1> DEFINE h == handler[p]
<1>1. /\ h.step = "publish" /\ At(p, "publish") /\ h.kind = "start"
      /\ channel' = IF Hears THEN Append(channel, GameStarting) ELSE channel
      /\ uncalled' = (uncalled \/ ~Hears)
      /\ Answers(p, "ok", NoRoom)
      /\ ready' = ready /\ game' = game /\ connected' = connected /\ inRoom' = inRoom
      /\ sub' = sub /\ ui' = ui /\ late' = late /\ outdated' = outdated
  BY DEF StartAnnounce, ToRoom, At, server
<1>2. h \in HandlerType /\ StepOf(p, h) /\ CallOf(h) /\ NoRoom \in Shown
  BY Handler
<1>3. /\ p \in {"own", "other"} /\ handler' \in [Slot -> HandlerType]
      /\ \A x \in Slot : x # p => handler'[x] = handler[x]
      /\ p = "other" => handler'[p].kind = "none" /\ handler'[p].step = "idle"
      /\ p = "own" => /\ handler'[p].kind = h.kind /\ handler'[p].step = "reply"
                      /\ handler'[p].outcome = "ok" /\ handler'[p].snapshot = NoRoom
  BY <1>1, <1>2, AnswerStep
<1> HIDE DEF h
<1>4. channel \in Seq(Message) /\ GameStarting \in Message BY Messages DEF IInv, TypeInv
<1>5. /\ channel' \in Seq(Message) /\ (~Hears => channel' = channel)
      /\ \A i \in DOMAIN channel : i \in DOMAIN channel' /\ channel'[i] = channel[i]
      /\ \A i \in DOMAIN channel' : channel'[i] = GameStarting
                                     \/ (i \in DOMAIN channel /\ channel'[i] = channel[i])
      /\ Hears => \E i \in DOMAIN channel' : channel'[i] = GameStarting
  <2>1. CASE Hears
    <3>1. channel' = Append(channel, GameStarting) BY <1>1, <2>1
    <3> QED BY <1>4, <2>1, <3>1, Sent
  <2>2. CASE ~Hears BY <1>1, <1>4, <2>2
  <2> QED BY <2>1, <2>2
<1>6. TypeInv'
  <2>1. uncalled' \in BOOLEAN BY <1>1 DEF IInv, TypeInv
  <2> QED BY <1>1, <1>3, <1>5, <2>1 DEF IInv, TypeInv
<1>7. StepInv'
  <2>1. StepOf(p, handler'[p]) BY <1>1, <1>2, <1>3 DEF StepOf
  <2>2. \A x \in Slot : StepOf(x, handler'[x]) BY <1>3, <2>1 DEF IInv, StepInv
  <2> QED BY <2>2 DEF StepInv, StepOf
<1>8. RouteInv'
  <2>1. handler'["own"].kind = handler["own"].kind /\ (At("own", "idle")' => At("own", "idle"))
    BY <1>1, <1>3 DEF At, Slot, h
  <2>2. ui.route = "join" => channel' = <<>> BY <1>1 DEF IInv, RouteInv, Hears
  <2>3. channel' # <<>> => Hears BY <1>1 DEF IInv, RouteInv
  <2> QED BY <1>1, <2>1, <2>2, <2>3 DEF IInv, RouteInv, Hears
<1>9. CallInv'
  <2>1. Dealt /\ Dealt' = Dealt BY <1>1, <1>2 DEF Dealt, CallOf
  <2>2. Hears => Self \in DOMAIN ready BY DEF IInv, RouteInv, Hears
  <2>3. /\ Called => Called'
        /\ Hears => Called'
        /\ ~Hears => (Called' => Called)
    BY <1>5 DEF Called, GameStarting
  <2>4. ASSUME NEW x \in Slot PROVE CallOf(handler[x])'
    <3>1. CASE x = p BY <1>3, <3>1 DEF CallOf
    <3>2. CASE x # p BY <1>1, <1>3, <2>1, <3>2 DEF IInv, CallInv, CallOf
    <3> QED BY <3>1, <3>2
  <2>5. Called' \/ uncalled' BY <1>1, <2>3
  <2>6. (Called \/ ui.route = "game")' => Dealt' /\ Self \in DOMAIN ready'
    BY <1>1, <2>1, <2>2, <2>3 DEF IInv, CallInv
  <2> QED BY <1>1, <2>1, <2>4, <2>5, <2>6 DEF IInv, CallInv
<1>10. CurrentInv'
  <2> SUFFICES ASSUME ~outdated
      PROVE  /\ \A x \in Slot : (Lists(handler[x]) => handler[x].snapshot = ready)'
             /\ ui.route = "lobby" => (\/ WillPublish(handler["own"]) \/ WillPublish(handler["other"])
                                       \/ LastUpdate(ready)
                                       \/ NoUpdate /\ Shows)'
    BY <1>1 DEF CurrentInv
  <2>1. \A x \in Slot : Lists(handler'[x]) => handler'[x].snapshot = ready
    BY <1>1, <1>3 DEF IInv, CurrentInv, Lists
  <2>2. \A x \in Slot : (Lists(handler[x]) => handler[x].snapshot = ready)'
    BY <1>1, <2>1 DEF Lists
  <2>3. \A x \in {"own", "other"} : WillPublish(handler[x]) => WillPublish(handler'[x])
    BY <1>1, <1>3 DEF Slot, WillPublish, h
  <2>4. \A x \in {"own", "other"} : WillPublish(handler[x]) => WillPublish(handler[x])'
    BY <2>3 DEF WillPublish
  <2>5. GameStarting.event # "room:updated" BY Messages
  <2>6. LastUpdate(ready) => LastUpdate(ready)' BY <1>1, <1>5, <2>5 DEF LastUpdate, RoomUpdated
  <2>7. NoUpdate => NoUpdate' BY <1>5, <2>5 DEF NoUpdate
  <2>8. Shows => Shows'
    <3>1. handler'["load"] = handler["load"] BY <1>3 DEF Slot
    <3>2. At("own", "reply") => handler'["own"] = handler["own"] BY <1>1, <1>3 DEF At, Slot, h
    <3> QED BY <1>1, <3>1, <3>2 DEF Shows, At
  <2> QED BY <1>1, <2>2, <2>4, <2>6, <2>7, <2>8 DEF IInv, CurrentInv
<1> QED BY <1>6, <1>7, <1>8, <1>9, <1>10 DEF IInv

\* A start that is refused, at its check, by the unique room or by the deal.
LEMMA RefusedKeeps ==
    ASSUME IInv, NEW p \in Slot, Refuse(p) \/ StartRefused(p)
    PROVE  IInv'
BY ErrorKeeps DEF Refuse, StartRefused, server, network, history, At

\* A start that goes on touches only the game.
LEMMA StartGoesOn ==
    ASSUME IInv, NEW p \in Slot, At(p, "create") \/ At(p, "deal"),
           NEW step \in {"deal", "publish"}, Goes(p, step),
           game' \in GameType, ready' = ready, channel' = channel, connected' = connected,
           inRoom' = inRoom, sub' = sub, ui' = ui, outdated' = outdated, late' = late,
           uncalled' = uncalled
    PROVE  /\ TypeInv' /\ StepInv' /\ RouteInv' /\ CurrentInv'
           /\ game' # NoGame /\ Called' = Called
           /\ handler'[p].step = step /\ handler'[p].kind = "start"
           /\ \A x \in Slot : x # p => handler'[x] = handler[x]
<1> DEFINE h == handler[p]
           q == Moved(h, step)
<1>1. handler' = [handler EXCEPT ![p] = q] BY DEF Goes, Moved
<1>2. h \in HandlerType /\ StepOf(p, h) BY Handler
<1>3. q \in HandlerType /\ q.step = step /\ q.kind = h.kind BY <1>2, MovedStep
<1>4. h.step \in {"create", "deal"} BY DEF At
<1> HIDE DEF h, q
<1>5. p \in {"own", "other"} /\ h.kind = "start" BY <1>2, <1>4 DEF StepOf, Slot
<1>6. /\ handler'[p] = q /\ \A x \in Slot : x # p => handler'[x] = handler[x]
      /\ handler' \in [Slot -> HandlerType]
  BY <1>1, <1>3 DEF IInv, TypeInv
<1>7. TypeInv' BY <1>6 DEF IInv, TypeInv
<1>8. StepInv'
  <2>1. StepOf(p, q) BY <1>3, <1>5 DEF StepOf
  <2>2. \A x \in Slot : StepOf(x, handler'[x]) BY <1>6, <2>1 DEF IInv, StepInv
  <2> QED BY <2>2 DEF StepInv, StepOf
<1>9. RouteInv'
  <2>1. handler'["own"].kind = handler["own"].kind /\ (At("own", "idle")' => At("own", "idle"))
    BY <1>3, <1>5, <1>6 DEF At, Slot, h
  <2> QED BY <2>1 DEF IInv, RouteInv, Hears
<1>10. CurrentInv'
  <2> SUFFICES ASSUME ~outdated
      PROVE  /\ \A x \in Slot : (Lists(handler[x]) => handler[x].snapshot = ready)'
             /\ ui.route = "lobby" => (\/ WillPublish(handler["own"]) \/ WillPublish(handler["other"])
                                       \/ LastUpdate(ready)
                                       \/ NoUpdate /\ Shows)'
    BY DEF CurrentInv
  <2>1. \A x \in Slot : Lists(handler'[x]) => handler'[x].snapshot = ready
    BY <1>3, <1>5, <1>6 DEF IInv, CurrentInv, Lists
  <2>2. \A x \in Slot : (Lists(handler[x]) => handler[x].snapshot = ready)'
    BY <2>1 DEF Lists
  <2>3. \A x \in {"own", "other"} : WillPublish(handler[x]) => WillPublish(handler'[x])
    BY <1>4, <1>5, <1>6 DEF Slot, WillPublish, h
  <2>4. \A x \in {"own", "other"} : WillPublish(handler[x]) => WillPublish(handler[x])'
    BY <2>3 DEF WillPublish
  <2>5. LastUpdate(ready)' <=> LastUpdate(ready) BY DEF LastUpdate, RoomUpdated
  <2>6. NoUpdate' <=> NoUpdate BY DEF NoUpdate
  <2>7. Shows => Shows'
    <3>1. handler'["load"] = handler["load"] BY <1>5, <1>6 DEF Slot
    <3>2. At("own", "reply") => handler'["own"] = handler["own"] BY <1>4, <1>6 DEF At, Slot, h
    <3> QED BY <3>1, <3>2 DEF Shows, At
  <2> QED BY <2>2, <2>4, <2>5, <2>6, <2>7 DEF IInv, CurrentInv
<1>11. game' # NoGame BY LobbyAssumption
<1>12. Called' = Called BY DEF Called, GameStarting
<1> QED BY <1>3, <1>5, <1>6, <1>7, <1>8, <1>9, <1>10, <1>11, <1>12

\* The first start makes the room's game, the others are refused.
LEMMA StartCreateKeeps == ASSUME IInv, NEW p \in Slot, StartCreate(p) PROVE IInv'
<1>1. CASE game # NoGame
  <2>1. /\ Answers(p, "error", NoRoom) /\ At(p, "create") /\ game' = game
        /\ UNCHANGED <<hostId, ready, network, ui, bounds, history>>
    BY <1>1 DEF StartCreate
  <2> QED BY <2>1, ErrorKeeps DEF network, history
<1>2. CASE game = NoGame
  <2> DEFINE made == [players |-> handler[p].players, live |-> FALSE]
  <2>1. /\ Goes(p, "deal") /\ At(p, "create") /\ game' = made
        /\ UNCHANGED <<hostId, ready, network, ui, bounds, history>>
    BY <1>2 DEF StartCreate
  <2>2. handler[p] \in HandlerType /\ CallOf(handler[p]) BY Handler
  <2>3. handler[p].players \in SUBSET Users BY <2>2 DEF HandlerType
  <2>4. made \in GameType /\ made.players = handler[p].players /\ made.live = FALSE
    BY <2>3 DEF GameType
  <2> HIDE DEF made
  <2>5. game' \in GameType BY <2>1, <2>4
  <2>6. /\ TypeInv' /\ StepInv' /\ RouteInv' /\ CurrentInv' /\ game' # NoGame /\ Called' = Called
        /\ handler'[p].step = "deal" /\ handler'[p].kind = "start"
        /\ \A x \in Slot : x # p => handler'[x] = handler[x]
    BY <2>1, <2>5, StartGoesOn DEF network, history
  <2>7. ~Dealt /\ ~Dealt' BY <1>2, <2>1, <2>4 DEF Dealt
  <2>8. Self \in DOMAIN ready => Self \in made.players \/ late
    BY <2>1, <2>2, <2>4 DEF CallOf, At
  <2>9. ASSUME NEW x \in Slot PROVE CallOf(handler[x])'
    <3>1. CASE x = p BY <2>6, <3>1 DEF CallOf
    <3>2. CASE x # p
      <4>1. CallOf(handler[x]) /\ handler'[x] = handler[x] BY <2>6, <3>2, Handler
      <4> QED BY <1>2, <2>1, <2>7, <4>1 DEF CallOf, history
    <3> QED BY <3>1, <3>2
  <2>10. ~Called' /\ ui'.route # "game" BY <2>1, <2>6, <2>7 DEF IInv, CallInv
  <2>11. CallInv' BY <2>1, <2>6, <2>7, <2>8, <2>9, <2>10 DEF CallInv, history
  <2> QED BY <2>6, <2>11 DEF IInv
<1> QED BY <1>1, <1>2

\* The deal makes the game live, and the start has still to tell the room.
LEMMA StartDealKeeps == ASSUME IInv, NEW p \in Slot, StartDeal(p) PROVE IInv'
<1>1. /\ Goes(p, "publish") /\ At(p, "deal") /\ game' = [game EXCEPT !.live = TRUE]
      /\ UNCHANGED <<hostId, status, ready, network, ui, bounds, history>>
  BY DEF StartDeal
<1>2. handler[p] \in HandlerType /\ CallOf(handler[p]) BY Handler
<1>3. game # NoGame /\ game \in GameType BY <1>1, <1>2 DEF CallOf, At, IInv, TypeInv
<1>4. game' \in GameType /\ game'.live = TRUE /\ game'.players = game.players
  BY <1>1, <1>3 DEF GameType
<1>5. /\ TypeInv' /\ StepInv' /\ RouteInv' /\ CurrentInv' /\ game' # NoGame /\ Called' = Called
      /\ handler'[p].step = "publish" /\ handler'[p].kind = "start"
      /\ \A x \in Slot : x # p => handler'[x] = handler[x]
  BY <1>1, <1>4, StartGoesOn DEF network, history
<1>6. Dealt' BY <1>4, <1>5 DEF Dealt
<1>7. ASSUME NEW x \in Slot PROVE CallOf(handler[x])'
  <2>1. CASE x = p BY <1>5, <1>6, <2>1 DEF CallOf
  <2>2. CASE x # p
    <3>1. CallOf(handler[x]) /\ handler'[x] = handler[x] BY <1>5, <2>2, Handler
    <3> QED BY <1>1, <1>5, <1>6, <3>1 DEF CallOf, history
  <2> QED BY <2>1, <2>2
<1>8. At(p, "publish")' /\ (handler[p].kind = "start")' BY <1>5 DEF At
<1>9. CallInv' BY <1>1, <1>3, <1>4, <1>5, <1>6, <1>7, <1>8 DEF IInv, CallInv, history
<1> QED BY <1>5, <1>9 DEF IInv

-----------------------------------------------------------------------------
\* What the socket does leaves the requests, the screen and the messages alone.
LEMMA SocketKeeps ==
    ASSUME IInv, ready' = ready, game' = game, handler' = handler, channel' = channel, ui' = ui,
           outdated' = outdated, late' = late, uncalled' = uncalled
    PROVE  StepInv' /\ CallInv' /\ CurrentInv'
<1>1. StepInv' BY DEF IInv, StepInv, StepOf
<1>2. CallInv'
  <2>1. Called' = Called /\ Dealt' = Dealt BY DEF Called, Dealt, GameStarting
  <2>2. ASSUME NEW x \in Slot PROVE CallOf(handler[x])'
    BY <2>1 DEF IInv, CallInv, CallOf
  <2> QED BY <2>1, <2>2 DEF IInv, CallInv, At
<1>3. CurrentInv'
  <2>1. LastUpdate(ready)' <=> LastUpdate(ready) BY DEF LastUpdate, RoomUpdated
  <2>2. NoUpdate' <=> NoUpdate BY DEF NoUpdate
  <2>3. Shows' <=> Shows BY DEF Shows, At
  <2> QED BY <2>1, <2>2, <2>3 DEF IInv, CurrentInv, WillPublish, Lists
<1> QED BY <1>1, <1>2, <1>3

\* Nothing happens.
LEMMA StutterKeeps == ASSUME IInv, UNCHANGED vars PROVE IInv'
<1>1. StepInv' /\ CallInv' /\ CurrentInv' BY SocketKeeps DEF vars
<1>2. TypeInv' /\ RouteInv' BY DEF IInv, TypeInv, RouteInv, vars, Hears, At
<1> QED BY <1>1, <1>2 DEF IInv

\* The gateway finds a member, and only then lets his socket into the room.
LEMMA SubscribeKeeps ==
    ASSUME IInv, FindMembership \/ JoinRoom
    PROVE  IInv'
<1>1. StepInv' /\ CallInv' /\ CurrentInv'
  BY SocketKeeps DEF FindMembership, JoinRoom, server, history
<1>2. TypeInv' BY DEF IInv, TypeInv, FindMembership, JoinRoom, server, history
<1>3. RouteInv'
  BY DEF IInv, RouteInv, Hears, At, FindMembership, JoinRoom, server, history
<1> QED BY <1>1, <1>2, <1>3 DEF IInv

\* A connection that comes back is in no room, and nothing loads the lobby again.
LEMMA ReconnectKeeps == ASSUME IInv, Reconnect PROVE IInv'
<1>1. StepInv' /\ CallInv' /\ CurrentInv' BY SocketKeeps DEF Reconnect, server, history
<1>2. TypeInv' BY DEF IInv, TypeInv, Reconnect, server, history
<1>3. RouteInv' BY DEF IInv, RouteInv, Hears, At, Reconnect, server, history
<1> QED BY <1>1, <1>2, <1>3 DEF IInv

\* A connection that breaks takes the lists and the call on their way with it, and
\* then the members that are shown are old and the user is uncalled.
LEMMA DisconnectKeeps == ASSUME IInv, Disconnect PROVE IInv'
<1>1. /\ connected' = FALSE /\ inRoom' = FALSE /\ channel' = <<>> /\ sub' = "done"
      /\ outdated' = (outdated \/ channel # <<>>) /\ uncalled' = (uncalled \/ Called)
      /\ ready' = ready /\ game' = game /\ handler' = handler /\ ui' = ui /\ late' = late
  BY DEF Disconnect, server, Called
<1>2. <<>> \in Seq(Message) /\ DOMAIN <<>> = {} BY EmptySeq
<1>3. TypeInv'
  <2>1. uncalled' \in BOOLEAN /\ outdated' \in BOOLEAN BY <1>1 DEF IInv, TypeInv, Called
  <2> QED BY <1>1, <1>2, <2>1 DEF IInv, TypeInv
<1>4. StepInv' BY <1>1 DEF IInv, StepInv, StepOf
<1>5. RouteInv' BY <1>1 DEF IInv, RouteInv, Hears, At
<1>6. CallInv'
  <2>1. ~Called' /\ Dealt' = Dealt BY <1>1, <1>2 DEF Called, Dealt
  <2>2. ASSUME NEW x \in Slot PROVE CallOf(handler[x])'
    BY <1>1, <2>1 DEF IInv, CallInv, CallOf
  <2> QED BY <1>1, <2>1, <2>2 DEF IInv, CallInv, At
<1>7. CurrentInv'
  <2> SUFFICES ASSUME ~outdated, channel' = channel
      PROVE  CurrentInv'
    BY <1>1 DEF CurrentInv
  <2>1. LastUpdate(ready)' <=> LastUpdate(ready) BY <1>1 DEF LastUpdate, RoomUpdated
  <2>2. NoUpdate' <=> NoUpdate BY <1>1 DEF NoUpdate
  <2>3. Shows' <=> Shows BY <1>1 DEF Shows, At
  <2> QED BY <1>1, <2>1, <2>2, <2>3 DEF IInv, CurrentInv, WillPublish, Lists
<1> QED BY <1>3, <1>4, <1>5, <1>6, <1>7 DEF IInv

-----------------------------------------------------------------------------
\* The first message is taken, the others move up.
LEMMA Taken ==
    ASSUME NEW s \in Seq(Message), s # <<>>, NEW t, t = Tail(s), NEW m, m = Head(s)
    PROVE  /\ t \in Seq(Message) /\ m \in Message /\ 1 \in DOMAIN s /\ s[1] = m
           /\ DOMAIN s \subseteq Int /\ DOMAIN t \subseteq Int
           /\ \A i \in DOMAIN t : i + 1 \in DOMAIN s /\ t[i] = s[i + 1]
           /\ \A i \in DOMAIN s : i >= 1
           /\ \A i \in DOMAIN s : i # 1 => i - 1 \in DOMAIN t /\ t[i - 1] = s[i]
<1>1. Len(s) \in Nat /\ DOMAIN s = 1..Len(s) /\ Len(s) # 0 BY LenProperties, EmptySeq
<1>2. /\ t \in Seq(Message) /\ m \in Message /\ m = s[1] /\ Len(t) = Len(s) - 1
      /\ \A i \in 1..Len(t) : t[i] = s[i + 1]
  BY HeadTailProperties
<1>3. DOMAIN t = 1..(Len(s) - 1) BY <1>2, LenProperties
<1> QED BY <1>1, <1>2, <1>3

\* A message is one of two.
LEMMA MessageIs ==
    ASSUME NEW m \in Message
    PROVE  \/ m = GameStarting /\ m.event = "game:starting"
           \/ m.event = "room:updated" /\ m.room \in ReadyType /\ m = RoomUpdated(m.room)
<1>1. CASE m = GameStarting BY <1>1 DEF GameStarting
<1>2. CASE \E list \in ReadyType : m = RoomUpdated(list) BY <1>2 DEF RoomUpdated
<1> QED BY <1>1, <1>2 DEF Message

\* The screen shows the newest list when it takes it, and follows the call.
LEMMA ReceiveKeeps == ASSUME IInv, Receive PROVE IInv'
<1> DEFINE m == Head(channel)
<1>1. /\ channel # <<>> /\ channel' = Tail(channel)
      /\ ui' = IF ui.route # "lobby" THEN ui
               ELSE CASE m.event = "room:updated" -> [ui EXCEPT !.room = m.room]
                      [] m.event = "game:starting" -> [ui EXCEPT !.route = "game"]
      /\ ready' = ready /\ game' = game /\ handler' = handler /\ connected' = connected
      /\ inRoom' = inRoom /\ sub' = sub /\ outdated' = outdated /\ late' = late
      /\ uncalled' = uncalled
  BY DEF Receive, server, history
<1>2. channel \in Seq(Message) /\ ui \in UiType BY DEF IInv, TypeInv
<1>3. /\ channel' \in Seq(Message) /\ m \in Message /\ 1 \in DOMAIN channel /\ channel[1] = m
      /\ DOMAIN channel \subseteq Int /\ DOMAIN channel' \subseteq Int
      /\ \A i \in DOMAIN channel' : i + 1 \in DOMAIN channel /\ channel'[i] = channel[i + 1]
      /\ \A i \in DOMAIN channel : i >= 1
      /\ \A i \in DOMAIN channel : i # 1 => i - 1 \in DOMAIN channel' /\ channel'[i - 1] = channel[i]
  BY <1>1, <1>2, Taken
<1> HIDE DEF m
<1>4. ui.route \in {"lobby", "game"} BY <1>1, <1>2 DEF IInv, RouteInv, UiType
<1>5. \/ m = GameStarting /\ m.event = "game:starting"
      \/ m.event = "room:updated" /\ m.room \in ReadyType /\ m = RoomUpdated(m.room)
  BY <1>3, MessageIs
<1>6. /\ ui' \in UiType /\ ui'.busy = ui.busy
      /\ ui.route = "game" => ui' = ui
      /\ ui.route = "lobby" /\ m = GameStarting => ui'.route = "game"
      /\ ui.route = "lobby" /\ m # GameStarting => ui'.route = "lobby" /\ ui'.room = m.room
      /\ ui'.route \in {"lobby", "game"}
  <2>1. CASE ui.route = "game" BY <1>1, <1>2, <2>1
  <2>2. CASE ui.route = "lobby" /\ m = GameStarting
    <3>1. ui' = [ui EXCEPT !.route = "game"] BY <1>1, <1>5, <2>2 DEF GameStarting
    <3> QED BY <1>2, <2>2, <3>1 DEF UiType
  <2>3. CASE ui.route = "lobby" /\ m # GameStarting
    <3>1. m.event = "room:updated" /\ m.room \in Shown BY <1>5, <2>3 DEF Shown
    <3>2. ui' = [ui EXCEPT !.room = m.room] BY <1>1, <2>3, <3>1
    <3> QED BY <1>2, <2>3, <3>1, <3>2 DEF UiType
  <2> QED BY <1>4, <2>1, <2>2, <2>3
<1>7. TypeInv' BY <1>1, <1>3, <1>6 DEF IInv, TypeInv
<1>8. StepInv' BY <1>1 DEF IInv, StepInv, StepOf
<1>9. RouteInv'
  <2>1. ui'.route # "join" /\ handler["own"].kind # "join" BY <1>4, <1>6 DEF IInv, RouteInv
  <2>2. Hears BY <1>1 DEF IInv, RouteInv
  <2>3. ui'.busy => ui'.route = "game" \/ ~At("own", "idle")
    BY <1>4, <1>6 DEF IInv, RouteInv
  <2> QED BY <1>1, <2>1, <2>2, <2>3 DEF IInv, RouteInv, Hears, At
<1>10. CallInv'
  <2>1. Called' => Called BY <1>3 DEF Called, GameStarting
  <2>2. Called => Called' \/ m = GameStarting BY <1>3 DEF Called, GameStarting
  <2>3. Dealt' = Dealt BY <1>1 DEF Dealt
  <2>4. m = GameStarting => Called BY <1>3 DEF Called
  <2>5. ui'.route = "game" => ui.route = "game" \/ Called BY <1>4, <1>6, <2>4
  <2>6. ASSUME NEW x \in Slot PROVE CallOf(handler[x])'
    BY <1>1, <2>3 DEF IInv, CallInv, CallOf
  <2>7. ui.route = "game" => ui'.route = "game" BY <1>6
  <2>8. m = GameStarting => ui'.route = "game" BY <1>4, <1>6
  <2>9. \A x \in Slot : At(x, "publish")' <=> At(x, "publish") BY <1>1 DEF At
  <2>10. (Called \/ ui.route = "game")' => Dealt' /\ Self \in DOMAIN ready'
    BY <1>1, <2>1, <2>3, <2>5 DEF IInv, CallInv
  <2>11. Dealt' => \/ uncalled' \/ ui'.route = "game" \/ Called'
                   \/ \E x \in Slot : At(x, "publish")' /\ handler'[x].kind = "start"
    BY <1>1, <2>2, <2>3, <2>7, <2>8, <2>9 DEF IInv, CallInv
  <2> QED BY <1>1, <2>6, <2>10, <2>11 DEF IInv, CallInv
<1>11. CurrentInv'
  <2> SUFFICES ASSUME ~outdated, ui'.route = "lobby",
                      LastUpdate(ready) \/ (NoUpdate /\ Shows)
      PROVE  LastUpdate(ready)' \/ (NoUpdate /\ Shows)'
    BY <1>1, <1>4, <1>6 DEF IInv, CurrentInv, WillPublish, Lists
  <2>1. ui.route = "lobby" /\ m # GameStarting /\ ui'.room = m.room
    BY <1>4, <1>6
  <2>2. m.event = "room:updated" BY <1>5, <2>1
  <2>3. ~NoUpdate BY <1>3, <2>2 DEF NoUpdate
  <2>4. PICK i \in DOMAIN channel :
           /\ channel[i] = RoomUpdated(ready)
           /\ \A j \in DOMAIN channel : j > i => channel[j].event # "room:updated"
    BY <2>3 DEF LastUpdate
  <2>5. CASE i = 1
    <3>1. m.room = ready BY <1>3, <2>4, <2>5, Messages
    <3>2. NoUpdate' 
      <4>1. \A j \in DOMAIN channel' : channel'[j].event # "room:updated"
        <5> TAKE j \in DOMAIN channel'
        <5>1. j + 1 \in DOMAIN channel /\ channel'[j] = channel[j + 1] /\ j \in Int BY <1>3
        <5>2. j + 1 # 1
          <6>1. Len(channel') \in Nat /\ DOMAIN channel' = 1..Len(channel') BY <1>3, LenProperties
          <6> QED BY <6>1
        <5>3. j + 1 > 1 BY <1>3, <5>1, <5>2
        <5> QED BY <2>4, <2>5, <5>1, <5>3
      <4> QED BY <4>1 DEF NoUpdate
    <3> QED BY <1>1, <2>1, <3>1, <3>2 DEF Shows
  <2>6. CASE i # 1
    <3>1. i - 1 \in DOMAIN channel' /\ channel'[i - 1] = RoomUpdated(ready) BY <1>3, <2>4, <2>6
    <3>2. \A j \in DOMAIN channel' : j > i - 1 => channel'[j].event # "room:updated"
      <4> TAKE j \in DOMAIN channel'
      <4>1. j + 1 \in DOMAIN channel /\ channel'[j] = channel[j + 1] /\ j \in Int /\ i \in Int
        BY <1>3
      <4>2. j > i - 1 => j + 1 > i BY <4>1
      <4> QED BY <2>4, <4>1, <4>2
    <3> QED BY <1>1, <3>1, <3>2 DEF LastUpdate, RoomUpdated
  <2> QED BY <2>5, <2>6
<1> QED BY <1>7, <1>8, <1>9, <1>10, <1>11 DEF IInv

-----------------------------------------------------------------------------
\* A request of the screen that ends, with whatever the screen makes of it: unless the
\* members that are shown may be old now, they are shown as before or are the newest.
LEMMA EndedKeeps ==
    ASSUME IInv, NEW p \in {"load", "own"}, handler' = [handler EXCEPT ![p] = Idle],
           ~At(p, "publish"),
           ready' = ready, game' = game, channel' = channel, connected' = connected,
           inRoom' = inRoom, sub' = sub, late' = late, uncalled' = uncalled,
           ui' \in UiType, ui'.route = ui.route, ui'.busy => ui.busy,
           p = "own" => (ui'.busy => ui.route = "game"),
           outdated' \in BOOLEAN, outdated => outdated',
           ~outdated' => /\ p = "own" => ~WillPublish(handler[p])
                         /\ ui.route = "lobby" /\ Shows => Shows'
    PROVE  IInv'
<1>1. /\ handler'[p] = Idle /\ \A x \in Slot : x # p => handler'[x] = handler[x]
      /\ handler' \in [Slot -> HandlerType]
      /\ Idle.kind = "none" /\ Idle.step = "idle"
  BY IdleStep DEF IInv, TypeInv, Slot
<1>2. TypeInv' BY <1>1 DEF IInv, TypeInv
<1>3. StepInv'
  <2>1. StepOf(p, Idle) BY <1>1 DEF StepOf
  <2>2. \A x \in Slot : StepOf(x, handler'[x]) BY <1>1, <2>1 DEF IInv, StepInv
  <2> QED BY <2>2 DEF StepInv, StepOf
<1>4. RouteInv' BY <1>1 DEF IInv, RouteInv, Hears, At, Slot
<1>5. CallInv'
  <2>1. Called' = Called /\ Dealt' = Dealt BY DEF Called, Dealt, GameStarting
  <2>2. ASSUME NEW x \in Slot PROVE CallOf(handler[x])'
    <3>1. CASE x = p BY <1>1, <3>1 DEF CallOf
    <3>2. CASE x # p BY <1>1, <2>1, <3>2 DEF IInv, CallInv, CallOf
    <3> QED BY <3>1, <3>2
  <2>3. \A x \in Slot : At(x, "publish") /\ handler[x].kind = "start" =>
                        (At(x, "publish") /\ handler[x].kind = "start")'
    BY <1>1 DEF At
  <2> QED BY <2>1, <2>2, <2>3 DEF IInv, CallInv
<1>6. CurrentInv'
  <2> SUFFICES ASSUME ~outdated'
      PROVE  /\ \A x \in Slot : (Lists(handler[x]) => handler[x].snapshot = ready)'
             /\ ui.route = "lobby" => (\/ WillPublish(handler["own"]) \/ WillPublish(handler["other"])
                                       \/ LastUpdate(ready)
                                       \/ NoUpdate /\ Shows)'
    BY DEF CurrentInv
  <2>1. \A x \in Slot : Lists(handler'[x]) => handler'[x].snapshot = ready
    BY <1>1 DEF IInv, CurrentInv, Lists
  <2>2. \A x \in Slot : (Lists(handler[x]) => handler[x].snapshot = ready)'
    BY <2>1 DEF Lists
  <2>3. \A x \in {"own", "other"} : WillPublish(handler[x]) => WillPublish(handler'[x])
    BY <1>1 DEF Slot
  <2>4. \A x \in {"own", "other"} : WillPublish(handler[x]) => WillPublish(handler[x])'
    BY <2>3 DEF WillPublish
  <2>5. LastUpdate(ready)' <=> LastUpdate(ready) BY DEF LastUpdate, RoomUpdated
  <2>6. NoUpdate' <=> NoUpdate BY DEF NoUpdate
  <2> QED BY <2>2, <2>4, <2>5, <2>6 DEF IInv, CurrentInv
<1> QED BY <1>2, <1>3, <1>4, <1>5, <1>6 DEF IInv

\* The load's answer shows the newest list if none is newer.
LEMMA LoadAnsweredKeeps == ASSUME IInv, LoadAnswered PROVE IInv'
<1> DEFINE list == handler["load"].snapshot
<1>1. /\ At("load", "reply") /\ handler' = [handler EXCEPT !["load"] = Idle]
      /\ ui' = IF ui.route = "lobby" THEN [ui EXCEPT !.room = list] ELSE ui
      /\ UNCHANGED <<server, network, bounds, history>>
  BY DEF LoadAnswered
<1>2. /\ "load" \in Slot /\ handler["load"] \in HandlerType /\ StepOf("load", handler["load"])
      /\ ui \in UiType /\ outdated \in BOOLEAN
  BY Handler DEF Slot, IInv, TypeInv
<1>3. list \in Shown BY <1>2 DEF HandlerType
<1>4. ~outdated => list = ready
  BY <1>1, <1>2 DEF IInv, CurrentInv, Lists, StepOf, At
<1>5. ~At("load", "publish") BY <1>1 DEF At
<1> HIDE DEF list
<1>6. /\ ui' \in UiType /\ ui'.route = ui.route /\ ui'.busy = ui.busy
      /\ ui.route = "lobby" => ui'.room = list
  BY <1>1, <1>2, <1>3 DEF UiType
<1>7. ui.route = "lobby" /\ ~outdated => Shows' BY <1>1, <1>4, <1>6 DEF Shows, server
<1> QED BY <1>1, <1>2, <1>5, <1>6, <1>7, EndedKeeps DEF server, network, history

\* The answer to a ready mark shows the newest list if none is newer.
LEMMA TapAnsweredKeeps == ASSUME IInv, TapAnswered PROVE IInv'
<1> DEFINE h == handler["own"]
           list == handler["own"].snapshot
<1>1. /\ h.step = "reply" /\ handler' = [handler EXCEPT !["own"] = Idle]
      /\ h.kind # "join" \/ h.outcome = "error"
      /\ ui' = CASE ui.route = "game" -> ui
                 [] ui.route # "game" /\ h.outcome = "error" -> [ui EXCEPT !.busy = FALSE]
                 [] ui.route # "game" /\ h.outcome = "ok" ->
                       IF h.kind = "ready" THEN [ui EXCEPT !.busy = FALSE, !.room = list]
                       ELSE [ui EXCEPT !.busy = FALSE]
      /\ UNCHANGED <<server, network, bounds, history>>
  BY DEF TapAnswered, At, OnFailure, OnReady
<1>2. /\ h \in HandlerType /\ StepOf("own", h) /\ ui \in UiType /\ outdated \in BOOLEAN
  BY Handler DEF Slot, IInv, TypeInv
<1>3. list \in Shown /\ h.outcome \in {"ok", "error"} BY <1>1, <1>2 DEF HandlerType, StepOf
<1>4. ~outdated /\ h.kind = "ready" /\ h.outcome = "ok" => list = ready
  BY <1>1, <1>2 DEF IInv, CurrentInv, Lists, Slot
<1>5. ~At("own", "publish") /\ ~WillPublish(h) BY <1>1 DEF At, WillPublish
<1>6. At("own", "reply") BY <1>1 DEF At
<1> HIDE DEF h, list
<1>7. /\ ui' \in UiType /\ ui'.route = ui.route /\ (ui'.busy => ui.busy /\ ui.route = "game")
      /\ ui'.room = IF ui.route # "game" /\ h.outcome = "ok" /\ h.kind = "ready" THEN list ELSE ui.room
  <2>1. CASE ui.route = "game" BY <1>1, <1>2, <2>1
  <2>2. CASE ui.route # "game" /\ h.outcome = "ok" /\ h.kind = "ready"
    <3>1. ui' = [ui EXCEPT !.busy = FALSE, !.room = list] BY <1>1, <2>2
    <3> QED BY <1>2, <1>3, <2>2, <3>1 DEF UiType
  <2>3. CASE ui.route # "game" /\ ~(h.outcome = "ok" /\ h.kind = "ready")
    <3>1. ui' = [ui EXCEPT !.busy = FALSE] BY <1>1, <1>3, <2>3
    <3> QED BY <1>2, <1>3, <2>3, <3>1 DEF UiType
  <2> QED BY <2>1, <2>2, <2>3
<1>8. ui.route = "lobby" /\ Shows /\ ~outdated => Shows'
  <2>1. handler'["load"] = handler["load"] BY <1>1, <1>2 DEF IInv, TypeInv, Slot
  <2> QED BY <1>1, <1>4, <1>7, <2>1 DEF Shows, At, server, h
<1>9. handler' = [handler EXCEPT !["own"] = Idle] BY <1>1
<1> QED BY <1>1, <1>2, <1>5, <1>7, <1>8, <1>9, EndedKeeps DEF server, network, history, h

\* A request that is lost, or whose answer is, leaves the screen as it was; but the
\* list it may have brought is missed.
LEMMA RequestFailsKeeps == ASSUME IInv, NEW p \in Slot, RequestFails(p) PROVE IInv'
<1>1. /\ p \in {"load", "own"} /\ handler' = [handler EXCEPT ![p] = Idle]
      /\ At(p, "check") \/ At(p, "reply") \/ (p = "load" /\ At(p, "read"))
      /\ ui' = IF p = "own" /\ ui.route # "game" THEN [ui EXCEPT !.busy = FALSE] ELSE ui
      /\ outdated' = (outdated \/ p = "load" \/ At(p, "reply"))
      /\ UNCHANGED <<server, network, requests, taps, late, uncalled>>
  BY DEF RequestFails, OnFailure
<1>2. ui \in UiType /\ outdated \in BOOLEAN /\ NoRoom \in Shown BY DEF IInv, TypeInv, Shown
<1>3. ~At(p, "publish") /\ (p = "own" => ~WillPublish(handler[p])) BY <1>1 DEF At, WillPublish
<1>4. /\ ui' \in UiType /\ ui'.route = ui.route /\ ui'.room = ui.room /\ (ui'.busy => ui.busy)
      /\ p = "own" => (ui'.busy => ui.route = "game")
  BY <1>1, <1>2 DEF UiType
<1>5. outdated' \in BOOLEAN BY <1>1, <1>2 DEF At
<1>6. ~outdated' /\ Shows => Shows'
  <2>1. ~outdated' => p = "own" /\ ~At("own", "reply") BY <1>1
  <2>2. p = "own" => handler'["load"] = handler["load"] BY <1>1 DEF IInv, TypeInv, Slot
  <2> QED BY <1>1, <1>4, <2>1, <2>2 DEF Shows, At, server
<1> QED BY <1>1, <1>3, <1>4, <1>5, <1>6, EndedKeeps DEF server, network

\* A tap makes a request, and the button spins.
LEMMA TapKeeps == ASSUME IInv, Submit \/ ToggleReady \/ Start PROVE IInv'
<1>1. PICK kind \in {"join", "ready", "start"}, value \in BOOLEAN :
         /\ handler' = [handler EXCEPT !["own"] = Request(kind, Self, value, "check")]
         /\ kind = "join" => ui.route = "join"
  <2>1. CASE Submit BY <2>1 DEF Submit
  <2>2. CASE ToggleReady
    <3>1. ui.room \in ReadyType /\ Self \in DOMAIN ui.room
      BY <2>2 DEF ToggleReady, IInv, TypeInv, UiType, Shown
    <3>2. ui.room[Self] \in BOOLEAN BY <3>1 DEF ReadyType
    <3>3. \A x \in BOOLEAN : (~x) \in BOOLEAN OBVIOUS
    <3>4. (~ui.room[Self]) \in BOOLEAN BY <3>2, <3>3
    <3> QED BY <2>2, <3>4 DEF ToggleReady
  <2>3. CASE Start BY <2>3 DEF Start
  <2> QED BY <2>1, <2>2, <2>3
<1>2. /\ At("own", "idle") /\ ui' = [ui EXCEPT !.busy = TRUE]
      /\ UNCHANGED <<server, network, history>>
  BY DEF Submit, ToggleReady, Start, TakesTap
<1> DEFINE q == Request(kind, Self, value, "check")
<1>3. q \in HandlerType /\ q.kind = kind /\ q.step = "check"
  <2>1. Self \in Users BY DEF Users
  <2> QED BY <2>1, RequestStep
<1> HIDE DEF q
<1>4. /\ handler'["own"] = q /\ \A x \in Slot : x # "own" => handler'[x] = handler[x]
      /\ handler' \in [Slot -> HandlerType]
  BY <1>1, <1>3 DEF IInv, TypeInv, Slot, q
<1>5. ui' \in UiType /\ ui'.route = ui.route /\ ui'.room = ui.room
  BY <1>2 DEF IInv, TypeInv, UiType
<1>6. TypeInv' BY <1>2, <1>4, <1>5 DEF IInv, TypeInv, server, network, history
<1>7. StepInv'
  <2>1. StepOf("own", q) BY <1>3 DEF StepOf
  <2>2. \A x \in Slot : StepOf(x, handler'[x]) BY <1>4, <2>1 DEF IInv, StepInv
  <2> QED BY <2>2 DEF StepInv, StepOf
<1>8. RouteInv'
  BY <1>1, <1>2, <1>3, <1>4, <1>5 DEF IInv, RouteInv, Hears, At, Slot, network, server
<1>9. CallInv'
  <2>1. Called' = Called /\ Dealt' = Dealt
    BY <1>2 DEF Called, Dealt, GameStarting, server, network
  <2>2. ASSUME NEW x \in Slot PROVE CallOf(handler[x])'
    <3>1. CASE x = "own" BY <1>3, <1>4, <3>1 DEF CallOf
    <3>2. CASE x # "own" BY <1>2, <1>4, <2>1, <3>2 DEF IInv, CallInv, CallOf, server, history
    <3> QED BY <3>1, <3>2
  <2>3. \A x \in Slot : At(x, "publish") /\ handler[x].kind = "start" =>
                        (At(x, "publish") /\ handler[x].kind = "start")'
    BY <1>2, <1>4 DEF At
  <2> QED BY <1>2, <1>5, <2>1, <2>2, <2>3 DEF IInv, CallInv, server, history
<1>10. CurrentInv'
  <2> SUFFICES ASSUME ~outdated
      PROVE  /\ \A x \in Slot : (Lists(handler[x]) => handler[x].snapshot = ready)'
             /\ ui.route = "lobby" => (\/ WillPublish(handler["own"]) \/ WillPublish(handler["other"])
                                       \/ LastUpdate(ready)
                                       \/ NoUpdate /\ Shows)'
    BY <1>2, <1>5 DEF CurrentInv, history
  <2>1. \A x \in Slot : Lists(handler'[x]) => handler'[x].snapshot = ready
    BY <1>3, <1>4 DEF IInv, CurrentInv, Lists
  <2>2. \A x \in Slot : (Lists(handler[x]) => handler[x].snapshot = ready)'
    BY <1>2, <2>1 DEF Lists, server
  <2>3. \A x \in {"own", "other"} : WillPublish(handler[x]) => WillPublish(handler'[x])
    BY <1>2, <1>4 DEF Slot, WillPublish, At
  <2>4. \A x \in {"own", "other"} : WillPublish(handler[x]) => WillPublish(handler[x])'
    BY <2>3 DEF WillPublish
  <2>5. LastUpdate(ready)' <=> LastUpdate(ready) BY <1>2 DEF LastUpdate, RoomUpdated, server, network
  <2>6. NoUpdate' <=> NoUpdate BY <1>2 DEF NoUpdate, network
  <2>7. Shows => Shows' BY <1>2, <1>4, <1>5 DEF Shows, At, Slot, server
  <2> QED BY <2>2, <2>4, <2>5, <2>6, <2>7 DEF IInv, CurrentInv
<1> QED BY <1>6, <1>7, <1>8, <1>9, <1>10 DEF IInv

\* The lobby that is entered loads the members before it shows any.
LEMMA JoinAnsweredKeeps == ASSUME IInv, JoinAnswered PROVE IInv'
<1>1. /\ At("own", "reply") /\ handler["own"].kind = "join"
      /\ ui' = Mounted
      /\ handler' = [handler EXCEPT !["own"] = Idle, !["load"] = Load]
      /\ sub' = IF connected THEN "asked" ELSE "waiting"
      /\ UNCHANGED <<server, channel, connected, inRoom, bounds, history>>
  BY DEF JoinAnswered
<1>2. ui.route = "join" /\ channel = <<>> /\ ~inRoom BY <1>1 DEF IInv, RouteInv
<1>3. /\ Idle \in HandlerType /\ Idle.kind = "none" /\ Idle.step = "idle"
      /\ Load \in HandlerType /\ Load.kind = "load" /\ Load.step = "read"
  BY IdleStep, LoadStep
<1>4. /\ handler'["own"] = Idle /\ handler'["load"] = Load /\ handler'["other"] = handler["other"]
      /\ handler' \in [Slot -> HandlerType]
  BY <1>1, <1>3 DEF IInv, TypeInv, Slot
<1>5. ui' \in UiType /\ ui'.route = "lobby" /\ ui'.busy = FALSE
  BY <1>1 DEF Mounted, UiType, Shown
<1>6. TypeInv' BY <1>1, <1>4, <1>5 DEF IInv, TypeInv, server, history
<1>7. StepInv'
  <2>1. StepOf("own", Idle) /\ StepOf("load", Load) BY <1>3 DEF StepOf
  <2>2. \A x \in Slot : StepOf(x, handler'[x]) BY <1>4, <2>1 DEF IInv, StepInv, Slot
  <2> QED BY <2>2 DEF StepInv, StepOf
<1>8. RouteInv' BY <1>1, <1>2, <1>3, <1>4, <1>5 DEF IInv, RouteInv, Hears, At, server
<1>9. CallInv'
  <2>1. Called' = Called /\ Dealt' = Dealt
    BY <1>1 DEF Called, Dealt, GameStarting, server
  <2>2. ASSUME NEW x \in Slot PROVE CallOf(handler[x])'
    <3>1. CASE x # "other" BY <1>3, <1>4, <3>1 DEF CallOf, Slot
    <3>2. CASE x = "other" BY <1>1, <1>4, <2>1, <3>2 DEF IInv, CallInv, CallOf, server, history
    <3> QED BY <3>1, <3>2
  <2>3. StepOf("load", handler["load"]) BY Handler DEF Slot
  <2>4. \A x \in Slot : At(x, "publish") /\ handler[x].kind = "start" =>
                        (At(x, "publish") /\ handler[x].kind = "start")'
    BY <1>1, <1>4, <2>3 DEF At, Slot, StepOf
  <2> QED BY <1>1, <1>2, <1>5, <2>1, <2>2, <2>4 DEF IInv, CallInv, server, history
<1>10. CurrentInv'
  <2>1. NoUpdate'
    <3>1. DOMAIN <<>> = {} BY EmptySeq
    <3> QED BY <1>1, <1>2, <3>1 DEF NoUpdate
  <2>2. Shows' BY <1>3, <1>4 DEF Shows, At
  <2>3. ~outdated => \A x \in Slot : Lists(handler'[x]) => handler'[x].snapshot = ready
    BY <1>3, <1>4 DEF IInv, CurrentInv, Lists, Slot
  <2> QED BY <1>1, <2>1, <2>2, <2>3 DEF CurrentInv, Lists, server, history
<1> QED BY <1>6, <1>7, <1>8, <1>9, <1>10 DEF IInv

-----------------------------------------------------------------------------
\* The room starts with its creator in it, ready, at the lobby or at another screen.
LEMMA InitIInv == Init => IInv
<1> SUFFICES ASSUME Init PROVE IInv
  OBVIOUS
<1>1. /\ Idle \in HandlerType /\ Idle.kind = "none" /\ Idle.step = "idle"
      /\ Load \in HandlerType /\ Load.kind = "load" /\ Load.step = "read"
  BY IdleStep, LoadStep
<1>2. /\ handler = [p \in Slot |-> IF p = "load" /\ hostId = Self THEN Load ELSE Idle]
      /\ channel = <<>> /\ game = NoGame /\ inRoom = FALSE /\ connected = TRUE
      /\ sub = IF hostId = Self THEN "asked" ELSE "done"
      /\ ui = IF hostId = Self THEN Mounted ELSE [Mounted EXCEPT !.route = "join"]
      /\ ready = [m \in {hostId} |-> TRUE] /\ hostId \in Users
      /\ outdated = FALSE /\ late = FALSE /\ uncalled = FALSE
  BY DEF Init
<1>3. /\ handler \in [Slot -> HandlerType] /\ handler["own"] = Idle /\ handler["other"] = Idle
      /\ handler["load"] = IF hostId = Self THEN Load ELSE Idle
  BY <1>1, <1>2 DEF Slot
<1>4. \A p \in Slot : handler[p] = Idle \/ (handler[p] = Load /\ p = "load")
  BY <1>2
<1>5. /\ ui \in UiType /\ ui.busy = FALSE
      /\ ui.route = IF hostId = Self THEN "lobby" ELSE "join"
  BY <1>2 DEF Mounted, UiType, Shown
<1>6. DOMAIN channel = {} /\ channel \in Seq(Message) BY <1>2, EmptySeq
<1>7. ready \in ReadyType
  <2>1. ready \in [{hostId} -> BOOLEAN] /\ {hostId} \in SUBSET Users BY <1>2
  <2> QED BY <2>1 DEF ReadyType
<1>8. TypeInv BY <1>2, <1>3, <1>5, <1>6, <1>7 DEF TypeInv
<1>9. StepInv BY <1>1, <1>4 DEF StepInv, StepOf
<1>10. RouteInv BY <1>1, <1>2, <1>3, <1>5 DEF RouteInv
<1>11. CallInv
  <2>1. ~Called /\ ~Dealt BY <1>2, <1>6 DEF Called, Dealt
  <2> QED BY <1>1, <1>2, <1>4, <1>5, <2>1 DEF CallInv, CallOf
<1>12. CurrentInv
  <2>1. NoUpdate BY <1>6 DEF NoUpdate
  <2>2. \A p \in Slot : ~Lists(handler[p]) BY <1>1, <1>4 DEF Lists
  <2>3. ui.route = "lobby" => Shows BY <1>1, <1>3, <1>5 DEF Shows, At
  <2> QED BY <2>1, <2>2, <2>3 DEF CurrentInv
<1> QED BY <1>8, <1>9, <1>10, <1>11, <1>12 DEF IInv

\* Every step keeps the invariant.
LEMMA NextIInv == IInv /\ [Next]_vars => IInv'
<1> SUFFICES ASSUME IInv, [Next]_vars PROVE IInv'
  OBVIOUS
<1>1. ASSUME NEW p \in Slot, Check(p) PROVE IInv' BY <1>1, CheckKeeps
<1>2. ASSUME NEW p \in Slot, Refuse(p) \/ StartRefused(p) PROVE IInv' BY <1>2, RefusedKeeps
<1>3. ASSUME NEW p \in Slot, Write(p) PROVE IInv' BY <1>3, WriteKeeps
<1>4. ASSUME NEW p \in Slot, List(p) PROVE IInv' BY <1>4, ListKeeps
<1>5. ASSUME NEW p \in Slot, Publish(p) PROVE IInv' BY <1>5, PublishKeeps
<1>6. ASSUME NEW p \in Slot, StartCheck(p) PROVE IInv' BY <1>6, StartCheckKeeps
<1>7. ASSUME NEW p \in Slot, StartCreate(p) PROVE IInv' BY <1>7, StartCreateKeeps
<1>8. ASSUME NEW p \in Slot, StartDeal(p) PROVE IInv' BY <1>8, StartDealKeeps
<1>9. ASSUME NEW p \in Slot, StartAnnounce(p) PROVE IInv' BY <1>9, StartAnnounceKeeps
<1>10. CASE FindMembership \/ JoinRoom BY <1>10, SubscribeKeeps
<1>11. CASE ClientStep
  BY <1>11, ReceiveKeeps, LoadAnsweredKeeps, JoinAnsweredKeeps, TapAnsweredKeeps DEF ClientStep
<1>12. ASSUME NEW u \in Others, OtherAsks(u) PROVE IInv' BY <1>12, OtherAsksKeeps
<1>13. CASE Submit \/ ToggleReady \/ Start BY <1>13, TapKeeps
<1>14. ASSUME NEW p \in Slot, RequestFails(p) PROVE IInv' BY <1>14, RequestFailsKeeps
<1>15. CASE Disconnect BY <1>15, DisconnectKeeps
<1>16. CASE Reconnect BY <1>16, ReconnectKeeps
<1>17. CASE UNCHANGED vars BY <1>17, StutterKeeps
<1> QED
  BY <1>1, <1>2, <1>3, <1>4, <1>5, <1>6, <1>7, <1>8, <1>9, <1>10, <1>11, <1>12, <1>13, <1>14,
     <1>15, <1>16, <1>17 DEF Next, ServerStep

\* The invariant holds in every state of the lobby and of its room.
THEOREM LobbyInvariant == Spec => []IInv
<1>1. Init => IInv BY InitIInv
<1>2. IInv /\ [Next]_vars => IInv' BY NextIInv
<1> QED BY <1>1, <1>2, PTL DEF Spec

\* When nothing is under way the lobby shows the members as they are, unless the newest
\* change was missed or overtaken, and none of its buttons goes on spinning.
THEOREM QuietLobbyIsCurrentHolds == Spec => []QuietLobbyIsCurrent
<1>1. ASSUME IInv PROVE QuietLobbyIsCurrent
  <2> SUFFICES ASSUME Quiet PROVE /\ ui.busy => ui.route = "game"
                                  /\ (ui.route = "lobby" /\ ~outdated) => ui.room = ready
    BY DEF QuietLobbyIsCurrent
  <2>1. /\ \A p \in Slot : handler[p].step = "idle"
        /\ channel = <<>>
    BY DEF Quiet, At
  <2>2. ui.busy => ui.route = "game" BY <1>1, <2>1 DEF IInv, RouteInv, At, Slot
  <2>3. ~WillPublish(handler["own"]) /\ ~WillPublish(handler["other"])
    BY <2>1 DEF WillPublish, Slot
  <2>4. ~LastUpdate(ready)
    <3>1. DOMAIN <<>> = {} BY EmptySeq
    <3> QED BY <2>1, <3>1 DEF LastUpdate
  <2>5. Shows => ui.room = ready BY <2>1 DEF Shows, At, Slot
  <2> QED BY <1>1, <2>2, <2>3, <2>4, <2>5 DEF IInv, CurrentInv
<1> QED BY <1>1, LobbyInvariant, PTL

\* When a match has been dealt and nothing is under way, only who was not called is
\* still in its lobby.
THEOREM NobodyLeftBehindHolds == Spec => []NobodyLeftBehind
<1>1. ASSUME IInv PROVE NobodyLeftBehind
  <2> SUFFICES ASSUME Quiet, game # NoGame, ui.route = "lobby", game.live PROVE uncalled
    BY DEF NobodyLeftBehind
  <2>1. ~Called
    <3>1. DOMAIN <<>> = {} BY EmptySeq
    <3> QED BY <3>1 DEF Quiet, Called
  <2>2. \A p \in Slot : ~At(p, "publish") BY DEF Quiet, At
  <2> QED BY <1>1, <2>1, <2>2 DEF IInv, CallInv, Dealt
<1> QED BY <1>1, LobbyInvariant, PTL

\* The match a screen is called to is dealt, and is the user's own unless he became a
\* member while its start was under way.
THEOREM EntersOwnGameHolds == Spec => []EntersOwnGame
<1>1. ASSUME IInv PROVE EntersOwnGame BY <1>1 DEF IInv, CallInv, Dealt, EntersOwnGame
<1> QED BY <1>1, LobbyInvariant, PTL
=============================================================================
