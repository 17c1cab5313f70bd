------------------------------- MODULE Lobby --------------------------------
(***************************************************************************)
(* One user's JoinRoomScreen and LobbyScreen against the requests for his  *)
(* room.  What the screen shows comes to it along three ways: the answer   *)
(* to its own load, the answers to its own taps and the broadcasts to the  *)
(* room's sockets.  Each carries the members as some request listed them,  *)
(* a while before it was sent.                                             *)
(*                                                                         *)
(* The requests are those of Rooms without leave, which no screen of the   *)
(* app calls: so the host stays and members only come.  Of the snapshot    *)
(* the screen uses the members and their ready marks.  A user who leaves   *)
(* the screen is of no more interest: nothing tells the server.            *)
(*                                                                         *)
(* HTTP and socket.io are external.  An answer travels by itself and may   *)
(* be lost; a connection delivers in order, what was under way when it     *)
(* broke is gone, and what is emitted without one is sent when it is back. *)
(***************************************************************************)
EXTENDS Integers, Sequences, FiniteSets

CONSTANTS
    Self,          \* the user at the screen
    Others,
    NoGame, NoRoom,
    MaxOthers,     \* bound: requests of the others, one at a time
    MaxTaps,       \* bound: requests the user makes
    MaxLosses      \* bound: requests, answers and connections lost

Users == Others \cup {Self}

\* The ready marks of the members, and the room's game.
ReadyType == UNION {[members -> BOOLEAN] : members \in SUBSET Users}
GameType == [players : SUBSET Users, live : BOOLEAN]

ASSUME LobbyAssumption ==
    /\ Self \notin Others /\ Others # {}
    /\ NoRoom \notin ReadyType /\ NoGame \notin GameType
    /\ MaxOthers \in Nat /\ MaxTaps \in Nat /\ MaxLosses \in Nat

\* Where the requests run: the screen's load, its taps, and the others' requests.
Slot == {"load", "own", "other"}

VARIABLES
    hostId,      \* rooms.hostId
    status,      \* rooms.status
    ready,       \* room_players: isReady of each member
    game,        \* the players of the room's game and whether it is live
    handler,     \* the requests
    channel,     \* the server's messages on their way to the screen's socket
    connected,
    inRoom,      \* the socket is in the lobby's room
    sub,         \* the gateway's handler of room:subscribe
    ui,          \* the screen's route, room and busy flag
    requests, taps, losses,   \* counters of the bounds
    outdated,    \* history: the newest members were missed or may be overtaken
    late,        \* history: the user became a member while a start was under way
    uncalled     \* history: game:starting did not reach his socket

server == <<hostId, status, ready, game>>
network == <<channel, connected, inRoom, sub>>
bounds == <<requests, taps, losses>>
history == <<outdated, late, uncalled>>
vars == <<hostId, status, ready, game, handler, channel, connected, inRoom, sub, ui,
          requests, taps, losses, outdated, late, uncalled>>

-----------------------------------------------------------------------------
\* What it asks for, how far it is, and what it has read.
Request(kind, u, value, step) ==
    [kind |-> kind, user |-> u, value |-> value, step |-> step,
     players |-> {}, outcome |-> "none", snapshot |-> NoRoom]

Idle == Request("none", Self, FALSE, "idle")

At(p, step) == handler[p].step = step
Goes(p, step) == handler' = [handler EXCEPT ![p].step = step]

Answer(p, outcome, snapshot) ==
    [handler[p] EXCEPT !.step = "reply", !.outcome = outcome, !.snapshot = snapshot]

\* The answer goes to the screen; those of the others are not followed.
Answers(p, outcome, snapshot) ==
    handler' = [handler EXCEPT ![p] = IF p = "other" THEN Idle
                                      ELSE Answer(p, outcome, snapshot)]

Hears == connected /\ inRoom

\* broadcastToRoom, as far as this socket hears it.
ToRoom(msg) == channel' = IF Hears THEN Append(channel, msg) ELSE channel

RoomUpdated(snapshot) == [event |-> "room:updated", room |-> snapshot]
GameStarting == [event |-> "game:starting"]

\* The LobbyScreen's initState asks for the room and emits room:subscribe.
Mounted == [route |-> "lobby", room |-> NoRoom, busy |-> FALSE]
Load == Request("load", Self, FALSE, "read")

\* The creator, who is a ready member, has gone to the lobby; anybody else has the
\* code and is at the JoinRoomScreen.
Init ==
    /\ hostId \in Users
    /\ status = "LOBBY"
    /\ ready = [m \in {hostId} |-> TRUE]
    /\ game = NoGame
    /\ connected = TRUE
    /\ handler = [p \in Slot |-> IF p = "load" /\ hostId = Self THEN Load ELSE Idle]
    /\ channel = <<>>
    /\ inRoom = FALSE
    /\ sub = IF hostId = Self THEN "asked" ELSE "done"
    /\ ui = IF hostId = Self THEN Mounted ELSE [Mounted EXCEPT !.route = "join"]
    /\ requests = 0
    /\ taps = 0
    /\ losses = 0
    /\ outdated = FALSE
    /\ late = FALSE
    /\ uncalled = FALSE

-----------------------------------------------------------------------------
(***************************************************************************)
(* RoomsService: check, write, list the members again, broadcast, answer.  *)
(***************************************************************************)
Holds(p) == At(p, "publish") \/ At(p, "reply")

\* A request that has listed the members will deliver what is now old.
Overtaken == \E p \in Slot : Holds(p) /\ handler[p].kind # "start"

\* The screen is neither up to date nor going to be without the broadcast.
Misses ==
    /\ ~Hears
    /\ ui.route = "lobby"
    /\ ~At("load", "read")
    /\ ui.room # ready
    /\ \A p \in {"load", "own"} : At(p, "reply") => handler[p].snapshot # ready

\* assertCanAfford and the size of the room may refuse a join.
Check(p) ==
    /\ At(p, "check")
    /\ handler[p].kind \in {"join", "ready"}
    /\ status = "LOBBY"
    /\ Goes(p, "write")
    /\ UNCHANGED <<server, network, ui, bounds, history>>

Refuse(p) ==
    /\ At(p, "check")
    /\ status # "LOBBY" \/ handler[p].kind = "join"
    /\ Answers(p, "error", NoRoom)
    /\ UNCHANGED <<server, network, ui, bounds, history>>

StartUnderWay ==
    \/ game # NoGame
    \/ \E p \in Slot : At(p, "create")

Write(p) ==
    /\ At(p, "write")
    /\ LET u == handler[p].user
           joins == handler[p].kind = "join"
       IN  /\ ready' = IF joins THEN [m \in DOMAIN ready \cup {u} |-> m \in DOMAIN ready /\ ready[m]]
                       ELSE [ready EXCEPT ![u] = handler[p].value]
           /\ late' = (late \/ (joins /\ u = Self /\ u \notin DOMAIN ready /\ StartUnderWay))
    /\ outdated' = IF ready' = ready THEN outdated ELSE Overtaken
    /\ Goes(p, "read")
    /\ UNCHANGED <<hostId, status, game, network, ui, bounds, uncalled>>

\* getByCode
List(p) ==
    /\ At(p, "read")
    /\ handler' = [handler EXCEPT ![p] =
                      IF p = "load" THEN Answer(p, "ok", ready)
                      ELSE [@ EXCEPT !.step = "publish", !.snapshot = ready]]
    /\ UNCHANGED <<server, network, ui, bounds, history>>

Publish(p) ==
    /\ At(p, "publish")
    /\ handler[p].kind \in {"join", "ready"}
    /\ ToRoom(RoomUpdated(handler[p].snapshot))
    /\ outdated' = (outdated \/ (p = "other" /\ Misses))
    /\ Answers(p, "ok", handler[p].snapshot)
    /\ UNCHANGED <<server, connected, inRoom, sub, ui, bounds, late, uncalled>>

MayStart(u) ==
    /\ hostId = u /\ status = "LOBBY"
    /\ Cardinality(DOMAIN ready) >= 2 /\ \A m \in DOMAIN ready : ready[m]

StartCheck(p) ==
    /\ At(p, "check") /\ handler[p].kind = "start"
    /\ IF MayStart(handler[p].user)
       THEN handler' = [handler EXCEPT ![p].step = "create", ![p].players = DOMAIN ready]
       ELSE Answers(p, "error", NoRoom)
    /\ UNCHANGED <<server, network, ui, bounds, history>>

\* One transaction; games.roomId is unique.
StartCreate(p) ==
    /\ At(p, "create")
    /\ IF game = NoGame
       THEN /\ game' = [players |-> handler[p].players, live |-> FALSE]
            /\ status' = "IN_PROGRESS"
            /\ Goes(p, "deal")
       ELSE /\ Answers(p, "error", NoRoom)
            /\ UNCHANGED <<game, status>>
    /\ UNCHANGED <<hostId, ready, network, ui, bounds, history>>

\* Mutant: the clients are called before the cards are dealt.
StartDealLate(p) ==
    /\ At(p, "deal")
    /\ Goes(p, "publish")
    /\ UNCHANGED <<server, network, ui, bounds, history>>

\* startGame deals and saves the live state, or throws.
StartDeal(p) ==
    /\ At(p, "deal")
    /\ game' = [game EXCEPT !.live = TRUE]
    /\ Goes(p, "publish")
    /\ UNCHANGED <<hostId, status, ready, network, ui, bounds, history>>

StartRefused(p) ==
    /\ At(p, "deal")
    /\ Answers(p, "error", NoRoom)
    /\ UNCHANGED <<server, network, ui, bounds, history>>

StartAnnounce(p) ==
    /\ At(p, "publish") /\ handler[p].kind = "start"
    /\ ToRoom(GameStarting)
    /\ uncalled' = (uncalled \/ ~Hears)
    /\ Answers(p, "ok", NoRoom)
    /\ UNCHANGED <<server, connected, inRoom, sub, ui, bounds, outdated, late>>

OtherAsks(u) ==
    /\ requests < MaxOthers
    /\ At("other", "idle")
    /\ \/ /\ u \notin DOMAIN ready
          /\ handler' = [handler EXCEPT !["other"] = Request("join", u, FALSE, "check")]
       \/ /\ u \in DOMAIN ready
          /\ handler' = [handler EXCEPT !["other"] = Request("ready", u, ~ready[u], "check")]
       \/ /\ u = hostId
          /\ handler' = [handler EXCEPT !["other"] = Request("start", u, FALSE, "check")]
    /\ requests' = requests + 1
    /\ UNCHANGED <<server, network, ui, taps, losses, history>>

-----------------------------------------------------------------------------
(***************************************************************************)
(* onSubscribeRoom and the connection.                                     *)
(***************************************************************************)
FindMembership ==
    /\ sub = "asked"
    /\ sub' = IF Self \in DOMAIN ready THEN "found" ELSE "done"
    /\ UNCHANGED <<server, handler, channel, connected, inRoom, ui, bounds, history>>

JoinRoom ==
    /\ sub = "found"
    /\ inRoom' = TRUE
    /\ sub' = "done"
    /\ UNCHANGED <<server, handler, channel, connected, ui, bounds, history>>

Disconnect ==
    /\ connected
    /\ losses < MaxLosses
    /\ connected' = FALSE
    /\ inRoom' = FALSE
    /\ channel' = <<>>
    /\ sub' = "done"
    /\ losses' = losses + 1
    /\ outdated' = (outdated \/ channel # <<>>)
    /\ uncalled' = (uncalled \/ \E i \in DOMAIN channel : channel[i] = GameStarting)
    /\ UNCHANGED <<server, handler, ui, requests, taps, late>>

\* handleConnection: the user's room, not the lobby's.
Reconnect ==
    /\ ~connected
    /\ connected' = TRUE
    /\ sub' = IF sub = "waiting" THEN "asked" ELSE sub
    /\ UNCHANGED <<server, handler, channel, inRoom, ui, bounds, history>>

-----------------------------------------------------------------------------
(***************************************************************************)
(* The screens.                                                            *)
(***************************************************************************)
\* Mutant: the lobby waits for its room before it follows the call.
ReceiveWhenLoaded ==
    /\ channel # <<>>
    /\ channel' = Tail(channel)
    /\ ui' = IF ui.route # "lobby" THEN ui
             ELSE CASE Head(channel).event = "room:updated" -> [ui EXCEPT !.room = Head(channel).room]
                    [] Head(channel).event = "game:starting" ->
                          IF ui.room = NoRoom THEN ui ELSE [ui EXCEPT !.route = "game"]
    /\ UNCHANGED <<server, handler, connected, inRoom, sub, bounds, history>>

Receive ==
    /\ channel # <<>>
    /\ channel' = Tail(channel)
    /\ ui' = IF ui.route # "lobby" THEN ui
             ELSE CASE Head(channel).event = "room:updated" -> [ui EXCEPT !.room = Head(channel).room]
                    [] Head(channel).event = "game:starting" -> [ui EXCEPT !.route = "game"]
    /\ UNCHANGED <<server, handler, connected, inRoom, sub, bounds, history>>

LoadAnswered ==
    /\ At("load", "reply")
    /\ ui' = IF ui.route = "lobby" THEN [ui EXCEPT !.room = handler["load"].snapshot] ELSE ui
    /\ handler' = [handler EXCEPT !["load"] = Idle]
    /\ UNCHANGED <<server, network, bounds, history>>

TakesTap(kind) ==
    /\ taps < MaxTaps
    /\ ~ui.busy
    /\ At("own", "idle")
    /\ ui' = [ui EXCEPT !.busy = TRUE]
    /\ taps' = taps + 1
    /\ UNCHANGED <<server, network, requests, losses, history>>

\* JoinRoomScreen._submit
Submit ==
    /\ ui.route = "join"
    /\ TakesTap("join")
    /\ handler' = [handler EXCEPT !["own"] = Request("join", Self, FALSE, "check")]

\* _toggleReady
ToggleReady ==
    /\ ui.route = "lobby" /\ ui.room # NoRoom
    /\ Self \in DOMAIN ui.room
    /\ TakesTap("ready")
    /\ handler' = [handler EXCEPT !["own"] = Request("ready", Self, ~ui.room[Self], "check")]

\* _start: canStart is decided on the room as it is shown.
Start ==
    /\ ui.route = "lobby" /\ ui.room # NoRoom
    /\ hostId = Self
    /\ Cardinality(DOMAIN ui.room) >= 2 /\ \A m \in DOMAIN ui.room : ui.room[m]
    /\ TakesTap("start")
    /\ handler' = [handler EXCEPT !["own"] = Request("start", Self, FALSE, "check")]

\* Mutant: the room comes with the broadcast, not with the answer.
OnReadyWaiting(snapshot) == [ui EXCEPT !.busy = FALSE]

OnReady(snapshot) == [ui EXCEPT !.busy = FALSE, !.room = snapshot]

OnFailure == [ui EXCEPT !.busy = FALSE]

\* The join screen goes to the lobby, whose initState loads and subscribes.
JoinAnswered ==
    /\ At("own", "reply") /\ handler["own"].kind = "join" /\ handler["own"].outcome = "ok"
    /\ ui' = Mounted
    /\ handler' = [handler EXCEPT !["own"] = Idle, !["load"] = Load]
    /\ sub' = IF connected THEN "asked" ELSE "waiting"
    /\ UNCHANGED <<server, channel, connected, inRoom, bounds, history>>

TapAnswered ==
    /\ At("own", "reply")
    /\ handler["own"].kind # "join" \/ handler["own"].outcome = "error"
    /\ ui' = CASE ui.route = "game" -> ui
               [] ui.route # "game" /\ handler["own"].outcome = "error" -> OnFailure
               [] ui.route # "game" /\ handler["own"].outcome = "ok" ->
                     IF handler["own"].kind = "ready" THEN OnReady(handler["own"].snapshot)
                     ELSE [ui EXCEPT !.busy = FALSE]
    /\ handler' = [handler EXCEPT !["own"] = Idle]
    /\ UNCHANGED <<server, network, bounds, history>>

\* The request does not arrive, or its answer does not.
RequestFails(p) ==
    /\ p \in {"load", "own"}
    /\ losses < MaxLosses
    /\ At(p, "check") \/ At(p, "reply") \/ (p = "load" /\ At(p, "read"))
    /\ losses' = losses + 1
    /\ ui' = IF p = "own" /\ ui.route # "game" THEN OnFailure ELSE ui
    /\ outdated' = (outdated \/ p = "load" \/ At(p, "reply"))
    /\ handler' = [handler EXCEPT ![p] = Idle]
    /\ UNCHANGED <<server, network, requests, taps, late, uncalled>>

-----------------------------------------------------------------------------
ServerStep ==
    \/ \E p \in Slot :
          \/ Check(p) \/ Refuse(p) \/ Write(p) \/ List(p) \/ Publish(p)
          \/ StartCheck(p) \/ StartCreate(p) \/ StartDeal(p) \/ StartRefused(p)
          \/ StartAnnounce(p)
    \/ FindMembership \/ JoinRoom

ClientStep == Receive \/ LoadAnswered \/ JoinAnswered \/ TapAnswered

Next ==
    \/ ServerStep \/ ClientStep
    \/ \E u \in Others : OtherAsks(u)
    \/ Submit \/ ToggleReady \/ Start
    \/ \E p \in Slot : RequestFails(p)
    \/ Disconnect \/ Reconnect

Spec == Init /\ [][Next]_vars

-----------------------------------------------------------------------------
Quiet ==
    /\ \A p \in Slot : At(p, "idle")
    /\ channel = <<>>
    /\ sub = "done"

\* LobbyScreen "should always reflect their own action immediately and reliably":
\* the load, the answers and the broadcasts leave the lobby with the members as they
\* are, unless the newest change was missed or an older list was still on its way.
\* And no button goes on spinning for a request that has ended, or failed.
QuietLobbyIsCurrent ==
    Quiet => /\ ui.busy => ui.route = "game"
             /\ (ui.route = "lobby" /\ ~outdated) => ui.room = ready

\* When a match has been dealt nobody sits in its lobby any more, host or guest,
\* but those whose socket game:starting, which is sent once, did not reach.
NobodyLeftBehind ==
    (Quiet /\ game # NoGame /\ ui.route = "lobby") => (game.live => uncalled)

\* game:starting leads to a match that is dealt, and to one of one's own: only who
\* became a member while the start was under way is called to a match without him.
EntersOwnGame ==
    ui.route = "game" => game.live /\ (Self \in game.players \/ late)
=============================================================================
