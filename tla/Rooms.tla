------------------------------- MODULE Rooms --------------------------------
(***************************************************************************)
(* RoomsService and LobbyService for one room.  Nothing serialises the     *)
(* requests of a room: each reads the room, lists the members and writes   *)
(* in separate database calls, and between two calls of one request those  *)
(* of another may run.                                                     *)
(*                                                                         *)
(* An action whose name begins with a request's name and ends in Begin is  *)
(* its first read; a request refused there changes nothing and is left     *)
(* out.  members are the room_players in the order they joined.  A crash   *)
(* loses the requests and keeps the rows.                                  *)
(***************************************************************************)
EXTENDS Integers, Sequences, SequencesExt

CONSTANTS
    User,
    Creator,        \* the user who created the room
    MaxPlayers,     \* room.maxPlayers
    NoGame,
    Request,        \* requests in flight at the same time (bound)
    MaxCrashes      \* bound

\* A row of games with its game_players; live is whether Redis has its state.
GameType ==
    [players : Seq(User), status : {"WAITING", "IN_PROGRESS", "FINISHED"}, live : BOOLEAN]

ASSUME RoomAssumption ==
    /\ Creator \in User
    /\ MaxPlayers \in Nat /\ MaxPlayers >= 2    \* CreateRoomDto
    /\ NoGame \notin GameType

VARIABLES
    status,       \* rooms.status, "NONE" before the room exists
    hostId,       \* rooms.hostId
    members,      \* room_players, by joinedAt
    game,         \* the room's row in games
    request,      \* the requests in flight
    crashes,
    overlapped,   \* history: two requests were in flight at the same time
    refused,      \* history: startGame threw before anybody had paid
    interrupted   \* history: a crash or a failed save cut a request short

room == <<status, hostId, members, game>>
history == <<crashes, overlapped, refused, interrupted>>
vars == <<status, hostId, members, game, request, crashes, overlapped, refused, interrupted>>

Done == [step |-> "done"]
Member(u, ready) == [userId |-> u, isReady |-> ready]

Init ==
    /\ status = "NONE"
    /\ hostId = Creator
    /\ members = <<>>
    /\ game = NoGame
    /\ request = [r \in Request |-> Done]
    /\ crashes = 0
    /\ overlapped = FALSE
    /\ refused = FALSE
    /\ interrupted = FALSE

-----------------------------------------------------------------------------
Users(players) == {players[i].userId : i \in DOMAIN players}

Begin(r, step, u) ==
    /\ request[r] = Done
    /\ request' = [request EXCEPT ![r] =
                      [step |-> step, user |-> u, hostId |-> hostId, players |-> <<>>]]
    /\ overlapped' = (overlapped \/ \E o \in Request : request[o] # Done)
    /\ UNCHANGED <<room, crashes, refused, interrupted>>

At(r, step) == request[r] # Done /\ request[r].step = step

\* The request has listed the members and goes on with them.
GoesOn(r, step) ==
    /\ request' = [request EXCEPT ![r].step = step, ![r].players = members]
    /\ UNCHANGED history

\* The request goes on with what it has read.
Proceeds(r, step) ==
    /\ request' = [request EXCEPT ![r].step = step]
    /\ UNCHANGED history

Ends(r) ==
    /\ request' = [request EXCEPT ![r] = Done]
    /\ UNCHANGED history

\* addMember: a member of the same name is returned, not added.
AddMember(u, ready) ==
    members' = IF u \in Users(members) THEN members ELSE Append(members, Member(u, ready))

-----------------------------------------------------------------------------
\* The card set is enabled, the host can pay, the deck is no larger than the set
\* and one of MAX_CODE_ATTEMPTS codes is free; otherwise nothing happens.
CreateBegin(r) ==
    /\ status = "NONE"
    /\ \A o \in Request : request[o] = Done
    /\ Begin(r, "create:room", Creator)

CreateRoom(r) ==
    /\ At(r, "create:room")
    /\ status' = "LOBBY"
    /\ hostId' = request[r].user
    /\ Proceeds(r, "create:add")
    /\ UNCHANGED <<members, game>>

CreateAdd(r) ==
    /\ At(r, "create:add")
    /\ AddMember(request[r].user, TRUE)
    /\ Ends(r)
    /\ UNCHANGED <<status, hostId, game>>

-----------------------------------------------------------------------------
JoinBegin(r, u) == status = "LOBBY" /\ Begin(r, "join:list", u)

MayJoin(r) ==
    /\ request[r].user \notin Users(members)
    /\ Len(members) < MaxPlayers

JoinList(r) ==
    /\ At(r, "join:list")
    /\ MayJoin(r)
    /\ GoesOn(r, "join:add")
    /\ UNCHANGED room

\* Already a member, full, or assertCanAfford throws.
JoinEnds(r) ==
    /\ \/ At(r, "join:list") /\ ~MayJoin(r)
       \/ At(r, "join:add")
    /\ Ends(r)
    /\ UNCHANGED room

JoinAdd(r) ==
    /\ At(r, "join:add")
    /\ AddMember(request[r].user, FALSE)
    /\ Ends(r)
    /\ UNCHANGED <<status, hostId, game>>

-----------------------------------------------------------------------------
SetReadyBegin(r, u, ready) ==
    /\ status = "LOBBY"
    /\ Begin(r, IF ready THEN "ready:on" ELSE "ready:off", u)

\* The update throws when the member is gone.
SetReady(r) ==
    /\ At(r, "ready:on") \/ At(r, "ready:off")
    /\ members' = [i \in DOMAIN members |->
                      IF members[i].userId = request[r].user
                      THEN Member(request[r].user, At(r, "ready:on")) ELSE members[i]]
    /\ Ends(r)
    /\ UNCHANGED <<status, hostId, game>>

-----------------------------------------------------------------------------
LeaveBegin(r, u) == status # "NONE" /\ Begin(r, "leave:remove", u)

LeaveRemove(r) ==
    /\ At(r, "leave:remove")
    /\ \/ \E i \in DOMAIN members :
             /\ members[i].userId = request[r].user
             /\ members' = RemoveAt(members, i)
             /\ Proceeds(r, "leave:list")
       \/ /\ request[r].user \notin Users(members)         \* delete throws
          /\ UNCHANGED members
          /\ Ends(r)
    /\ UNCHANGED <<status, hostId, game>>

LeaveList(r) ==
    /\ At(r, "leave:list")
    /\ GoesOn(r, "leave:update")
    /\ UNCHANGED room

\* Mutant: the host's place is not handed on.
LeaveWithoutHeir(r) ==
    /\ At(r, "leave:update")
    /\ status' = IF request[r].players = <<>> THEN "CANCELLED" ELSE status
    /\ Ends(r)
    /\ UNCHANGED <<hostId, members, game>>

\* The room is cancelled when nobody was left, whatever its status, or the host
\* of the first read is replaced by the longest waiting of those listed.
LeaveUpdate(r) ==
    /\ At(r, "leave:update")
    /\ LET remaining == request[r].players
       IN  /\ status' = IF remaining = <<>> THEN "CANCELLED" ELSE status
           /\ hostId' = IF remaining # <<>> /\ request[r].hostId = request[r].user
                        THEN remaining[1].userId ELSE hostId
    /\ Ends(r)
    /\ UNCHANGED <<members, game>>

-----------------------------------------------------------------------------
StartBegin(r, u) ==
    /\ hostId = u
    /\ status = "LOBBY"
    /\ Begin(r, "start:list", u)

MayStart == Len(members) >= 2 /\ \A i \in DOMAIN members : members[i].isReady

StartList(r) ==
    /\ At(r, "start:list")
    /\ IF MayStart THEN GoesOn(r, "start:create") ELSE Ends(r)
    /\ UNCHANGED room

Seated(r) ==
    [players |-> [i \in DOMAIN request[r].players |-> request[r].players[i].userId],
     status |-> "WAITING", live |-> FALSE]

\* Mutant: a room may have several games.
StartCreateAgain(r) ==
    /\ At(r, "start:create")
    /\ game' = Seated(r)
    /\ status' = "IN_PROGRESS"
    /\ Proceeds(r, "start:pay")
    /\ UNCHANGED <<hostId, members>>

\* One transaction: the game, a seat for each member listed, the room's status.
StartCreate(r) ==
    /\ At(r, "start:create")
    /\ game = NoGame
    /\ game' = Seated(r)
    /\ status' = "IN_PROGRESS"
    /\ Proceeds(r, "start:pay")
    /\ UNCHANGED <<hostId, members>>

\* games.roomId is unique: the transaction of a second start is rolled back.
StartCreateRefused(r) ==
    /\ At(r, "start:create")
    /\ game # NoGame
    /\ Ends(r)
    /\ UNCHANGED room

-----------------------------------------------------------------------------
(***************************************************************************)
(* GameEngineService.startGame: the transaction that debits the entries    *)
(* (Wallet has its statements), the live state in Redis, the answer.       *)
(***************************************************************************)
\* Mutant: the answer is sent without the save.
StartPayAndAnswer(r) ==
    /\ At(r, "start:pay")
    /\ game' = [game EXCEPT !.status = "IN_PROGRESS"]
    /\ Ends(r)
    /\ UNCHANGED <<status, hostId, members>>

StartPay(r) ==
    /\ At(r, "start:pay")
    /\ game' = [game EXCEPT !.status = "IN_PROGRESS"]
    /\ Proceeds(r, "start:save")
    /\ UNCHANGED <<status, hostId, members>>

\* It throws: the card set is too small, a player can no longer pay, or the
\* transaction is aborted.
StartRefused(r) ==
    /\ At(r, "start:pay")
    /\ request' = [request EXCEPT ![r] = Done]
    /\ refused' = TRUE
    /\ UNCHANGED <<room, crashes, overlapped, interrupted>>

StartSave(r) ==
    /\ At(r, "start:save")
    /\ game' = [game EXCEPT !.live = TRUE]
    /\ Ends(r)
    /\ UNCHANGED <<status, hostId, members>>

\* Redis is out of reach.
StartSaveFails(r) ==
    /\ At(r, "start:save")
    /\ request' = [request EXCEPT ![r] = Done]
    /\ interrupted' = TRUE
    /\ UNCHANGED <<room, crashes, overlapped, refused>>

-----------------------------------------------------------------------------
\* The transaction of finishGame.
FinishGame ==
    /\ game # NoGame
    /\ game.status = "IN_PROGRESS" /\ game.live
    /\ game' = [game EXCEPT !.status = "FINISHED"]
    /\ status' = "FINISHED"
    /\ UNCHANGED <<hostId, members, request, history>>

\* The process dies and comes back: what the requests in flight had not written
\* is not written any more.
Crash ==
    /\ crashes < MaxCrashes
    /\ \E r \in Request : request[r] # Done
    /\ crashes' = crashes + 1
    /\ interrupted' = TRUE
    /\ request' = [r \in Request |-> Done]
    /\ UNCHANGED <<room, overlapped, refused>>

Next ==
    \/ \E r \in Request, u \in User :
          JoinBegin(r, u) \/ LeaveBegin(r, u) \/ StartBegin(r, u)
    \/ \E r \in Request, u \in User, ready \in BOOLEAN : SetReadyBegin(r, u, ready)
    \/ \E r \in Request :
          \/ CreateBegin(r) \/ CreateRoom(r) \/ CreateAdd(r)
          \/ JoinList(r) \/ JoinEnds(r) \/ JoinAdd(r)
          \/ SetReady(r)
          \/ LeaveRemove(r) \/ LeaveList(r) \/ LeaveUpdate(r)
          \/ StartList(r) \/ StartCreate(r) \/ StartCreateRefused(r)
          \/ StartPay(r) \/ StartRefused(r) \/ StartSave(r) \/ StartSaveFails(r)
    \/ FinishGame
    \/ Crash

Spec == Init /\ [][Next]_vars

-----------------------------------------------------------------------------
Quiet == \A r \in Request : request[r] = Done

\* Requests that never overlap and are never cut short keep the room whole: the
\* host is in it, it is not overfull, and it is cancelled exactly when the last
\* member has left.
AloneKeepsRoomWhole ==
    (Quiet /\ ~overlapped /\ ~interrupted) =>
        /\ Len(members) <= MaxPlayers
        /\ status = "LOBBY" => hostId \in Users(members)
        /\ status \in {"LOBBY", "CANCELLED"} => (status = "CANCELLED" <=> members = <<>>)

\* Two starts at once, a start against joins, leaves, ready changes and a crash: a
\* room has one game, dealt to the same two or more players for good, and is no
\* lobby again; and what was paid for is not unpaid again.
OneGameForGood ==
    [][ game # NoGame =>
          /\ game' # NoGame /\ game'.players = game.players
          /\ IsInjective(game.players) /\ Len(game.players) >= 2
          /\ game.status # "WAITING" => game'.status # "WAITING"
          /\ status' # "LOBBY" ]_vars

\* RoomsService.start writes the game, takes the entries and saves the live state one
\* after the other.  Overlapping requests leave no room between two of the three:
\* only a refusal leaves one that nobody has paid for, only a crash or a lost save
\* one that is paid for and has no table.
StartedRoomIsPlayable ==
    (Quiet /\ game # NoGame) =>
        /\ game.status = "WAITING" => refused \/ interrupted
        /\ game.status = "IN_PROGRESS" => game.live \/ interrupted
        /\ game.live => game.status # "WAITING"
        /\ status = "IN_PROGRESS" => game.status # "FINISHED"
=============================================================================
