----------------------------- MODULE GameClient -----------------------------
(***************************************************************************)
(* One player's GameScreen against the engine: what he is told, what his   *)
(* screen makes of it and what he can tap.  The handlers of the engine are *)
(* those of GameState, opened up where they talk to the client; the lock's *)
(* queue is inbox.  The other players and the timer act as they may.       *)
(*                                                                         *)
(* Socket.io is external: a connection delivers in order, what was under   *)
(* way when it broke is lost, what the client emits meanwhile waits in     *)
(* outbox and is sent when it is back.  A new socket joins the user's room *)
(* by itself (handleConnection) and the game's room only when the screen   *)
(* subscribes, which it does once.                                         *)
(*                                                                         *)
(* The countdown, sounds and flash messages are left out: nothing the      *)
(* player can do depends on them.                                          *)
(***************************************************************************)
EXTENDS GameState

CONSTANTS
    Self,        \* the player at the screen
    NoView,      \* no game:state yet
    NoCard,
    MaxRound,    \* bound: the others call statistics up to this round
    MaxTaps,     \* bound: statistics the player taps
    MaxDrops     \* bound: losses of the connection

ASSUME ClientAssumption ==
    /\ Self \in Seat
    /\ MaxRound \in Nat /\ MaxTaps \in Nat /\ MaxDrops \in Nat

VARIABLES
    state,       \* GameStateStore
    work,        \* the handler that holds the lock
    inbox,       \* the client's messages, in the order they reach the lock
    outbox,      \* what it emitted without a connection
    channel,     \* the server's messages on their way to the client
    connected,   \* the socket is in the user's room
    inRoom,      \* the socket is in the game's room
    sub,         \* the gateway's handler of game:subscribe
    ui,          \* _GameScreenState
    taps, drops, \* counters of the bounds
    outdated     \* history: the newest game:state was lost or overtaken

server == <<state, work>>
network == <<inbox, outbox, channel, connected, inRoom, drops>>
vars == <<state, work, inbox, outbox, channel, connected, inRoom, sub, ui, taps, drops, outdated>>

-----------------------------------------------------------------------------
\* buildPersonalizedState, as far as the screen acts on it.
Personalized(st) ==
    [status |-> st.status,
     roundNumber |-> st.roundNumber,
     currentPlayerId |-> st.currentPlayerId,
     tieState |-> st.tieState,
     isEliminated |-> Self \in st.isEliminated,
     myCard |-> IF st.cardIds[Self] = <<>> THEN NoCard ELSE TopCard(st, Self)]

GameStateEvent(view) == [event |-> "game:state", view |-> view]
ComparisonEvent == [event |-> "comparison:result"]
TieEvent == [event |-> "game:tie"]
FinishedEvent == [event |-> "game:finished"]
ErrorEvent == [event |-> "error"]

Idle == [phase |-> "idle"]
Working(phase, st) == [phase |-> phase, st |-> st]

\* broadcastToGame and emitToUser, as far as this client hears them.
ToGame(msgs) == channel' = IF connected /\ inRoom THEN channel \o msgs ELSE channel
ToUser(msg) == channel' = IF connected THEN Append(channel, msg) ELSE channel

\* initState emits game:subscribe; game:starting has brought the player here.
Init ==
    /\ state \in {InitialState(deck) : deck \in Shuffled}
    /\ work = Idle
    /\ inbox = <<>>
    /\ outbox = <<>>
    /\ channel = <<>>
    /\ connected = TRUE
    /\ inRoom = FALSE
    /\ sub = [phase |-> "asked"]
    /\ ui = [mounted |-> TRUE, view |-> NoView, isSelectingStat |-> FALSE,
             isForfeiting |-> FALSE, dialog |-> FALSE, comparison |-> FALSE,
             tie |-> FALSE, finished |-> FALSE]
    /\ taps = 0
    /\ drops = 0
    /\ outdated = FALSE

-----------------------------------------------------------------------------
(***************************************************************************)
(* The engine.                                                             *)
(***************************************************************************)
\* A statistic passed the guards: the comparison is broadcast.
Compare(p, s) ==
    /\ work' = Working("save", IF IsTie(state, s) THEN AfterTie(state, s)
                               ELSE AfterRound(state, RoundWinner(state, p, s)))
    /\ ToGame(<<ComparisonEvent>>)

\* What the engine refuses is answered by an error, to the socket the message came by.
Refuse(msg) ==
    /\ IF msg.socketLost THEN UNCHANGED channel ELSE ToUser(ErrorEvent)
    /\ UNCHANGED work

ServeSelect ==
    /\ work = Idle /\ inbox # <<>>
    /\ Head(inbox).kind = "select"
    /\ LET s == Head(inbox).statistic
       IN  IF CanSelect(state, Self, s)
           THEN Compare(Self, s)
           ELSE Refuse(Head(inbox))
    /\ inbox' = Tail(inbox)
    /\ UNCHANGED <<state, outbox, connected, inRoom, sub, ui, taps, drops, outdated>>

ServeForfeit ==
    /\ work = Idle /\ inbox # <<>>
    /\ Head(inbox).kind = "forfeit"
    /\ IF CanForfeit(state, Self)
       THEN work' = Working("save", AfterForfeit(state, Self)) /\ UNCHANGED channel
       ELSE Refuse(Head(inbox))
    /\ inbox' = Tail(inbox)
    /\ UNCHANGED <<state, outbox, connected, inRoom, sub, ui, taps, drops, outdated>>

OtherSelects(p, s) ==
    /\ work = Idle
    /\ p # Self
    /\ state.roundNumber <= MaxRound
    /\ CanSelect(state, p, s)
    /\ Compare(p, s)
    /\ UNCHANGED <<state, inbox, outbox, connected, inRoom, sub, ui, taps, drops, outdated>>

OtherForfeits(p) ==
    /\ work = Idle
    /\ p # Self
    /\ CanForfeit(state, p)
    /\ work' = Working("save", AfterForfeit(state, p))
    /\ UNCHANGED <<state, network, sub, ui, taps, outdated>>

TurnTimeout ==
    /\ work = Idle
    /\ state.status # "GAME_FINISHED"
    /\ work' = Working("save", AfterTimeout(state))
    /\ UNCHANGED <<state, network, sub, ui, taps, outdated>>

\* handleTie announces the tie, then every handler saves.
Save ==
    /\ work.phase = "save"
    /\ state' = work.st
    /\ ToGame(IF work.st.tieState = NoTie THEN <<>> ELSE <<TieEvent>>)
    /\ work' = Working(IF work.st.status = "GAME_FINISHED" THEN "announce" ELSE "broadcast",
                       work.st)
    /\ UNCHANGED <<inbox, outbox, connected, inRoom, sub, ui, taps, drops, outdated>>

\* finishGame: game:finished goes to the game's room before the last state.
Announce ==
    /\ work.phase = "announce"
    /\ ToGame(<<FinishedEvent>>)
    /\ work' = Working("broadcast", work.st)
    /\ UNCHANGED <<state, inbox, outbox, connected, inRoom, sub, ui, taps, drops, outdated>>

\* An older snapshot is read and not yet sent: it is going to overtake.
Overtakes(view) == sub.phase = "send" /\ sub.view # view

\* Mutant: the state goes to the game's room, like the other events.
BroadcastToGame ==
    /\ work.phase = "broadcast"
    /\ ToGame(<<GameStateEvent(Personalized(work.st))>>)
    /\ outdated' = (~connected \/ Overtakes(Personalized(work.st)))
    /\ work' = Idle
    /\ UNCHANGED <<state, inbox, outbox, connected, inRoom, sub, ui, taps, drops>>

\* broadcastFreshState
Broadcast ==
    /\ work.phase = "broadcast"
    /\ ToUser(GameStateEvent(Personalized(work.st)))
    /\ outdated' = (~connected \/ Overtakes(Personalized(work.st)))
    /\ work' = Idle
    /\ UNCHANGED <<state, inbox, outbox, connected, inRoom, sub, ui, taps, drops>>

-----------------------------------------------------------------------------
(***************************************************************************)
(* onSubscribeGame: the member joins the room, getStateForUser reads the   *)
(* state without the lock and awaits the card before it is sent.           *)
(***************************************************************************)
JoinGame ==
    /\ sub.phase = "asked"
    /\ inRoom' = TRUE
    /\ sub' = [phase |-> "read"]
    /\ UNCHANGED <<server, inbox, outbox, channel, connected, ui, taps, drops, outdated>>

GetStateForUser ==
    /\ sub.phase = "read"
    /\ sub' = [phase |-> "send", view |-> Personalized(state)]
    /\ UNCHANGED <<server, network, ui, taps, outdated>>

SendSnapshot ==
    /\ sub.phase = "send"
    /\ ToUser(GameStateEvent(sub.view))
    /\ sub' = [phase |-> "done"]
    /\ UNCHANGED <<server, inbox, outbox, connected, inRoom, ui, taps, drops, outdated>>

-----------------------------------------------------------------------------
(***************************************************************************)
(* The connection.                                                         *)
(***************************************************************************)
Disconnect ==
    /\ connected
    /\ drops < MaxDrops
    /\ connected' = FALSE
    /\ inRoom' = FALSE
    /\ \E n \in 0..Len(inbox) :
          inbox' = [i \in 1..n |-> [inbox[i] EXCEPT !.socketLost = TRUE]]
    /\ channel' = <<>>
    /\ sub' = [phase |-> "done"]
    /\ drops' = drops + 1
    /\ outdated' = TRUE
    /\ UNCHANGED <<server, outbox, ui, taps>>

\* handleConnection
Reconnect ==
    /\ ~connected
    /\ connected' = TRUE
    /\ inbox' = inbox \o outbox
    /\ outbox' = <<>>
    /\ UNCHANGED <<server, channel, inRoom, sub, ui, taps, drops, outdated>>

-----------------------------------------------------------------------------
(***************************************************************************)
(* The screen.                                                             *)
(***************************************************************************)
OnGameState(view) ==
    [ui EXCEPT !.view = view,
               !.isSelectingStat = FALSE,
               !.isForfeiting = FALSE,
               !.tie = @ /\ view.tieState # NoTie]

\* Mutant: a refused forfeit is not noticed.
OnErrorKeepingForfeit == [ui EXCEPT !.isSelectingStat = FALSE]

OnError == [ui EXCEPT !.isSelectingStat = FALSE, !.isForfeiting = FALSE]

OnEvent(msg) ==
    CASE msg.event = "game:state" -> OnGameState(msg.view)
      [] msg.event = "comparison:result" ->
            [ui EXCEPT !.comparison = TRUE, !.isSelectingStat = FALSE]
      [] msg.event = "game:tie" -> [ui EXCEPT !.tie = TRUE]
      [] msg.event = "game:finished" ->
            [ui EXCEPT !.finished = TRUE, !.isForfeiting = FALSE]
      [] msg.event = "error" -> OnError

Receive ==
    /\ channel # <<>>
    /\ channel' = Tail(channel)
    /\ ui' = IF ui.mounted THEN OnEvent(Head(channel)) ELSE ui
    /\ UNCHANGED <<server, inbox, outbox, connected, inRoom, sub, taps, drops, outdated>>

\* _revealTimer
RevealEnds ==
    /\ ui.comparison
    /\ ui' = [ui EXCEPT !.comparison = FALSE]
    /\ UNCHANGED <<server, network, sub, taps, outdated>>

\* The board is there and no overlay or dialog lies over it.
BoardIsOpen ==
    /\ ui.mounted /\ ui.view # NoView
    /\ ~ui.comparison /\ ~ui.isForfeiting /\ ~ui.finished /\ ~ui.dialog

Selectable(view) ==
    {s \in StatSchema :
        /\ view.myCard # NoCard
        /\ isSelectableStatistic(s, StatSchema, Statistics[view.myCard])
        /\ \A i \in DOMAIN view.tieState.usedStatistics : view.tieState.usedStatistics[i] # s}

\* SocketService.emit
Emit(msg) ==
    IF connected
    THEN inbox' = Append(inbox, msg) /\ UNCHANGED outbox
    ELSE outbox' = Append(outbox, msg) /\ UNCHANGED inbox

\* _buildBoard offers the buttons, _selectStatistic emits.
TapStatistic(s) ==
    /\ taps < MaxTaps
    /\ BoardIsOpen
    /\ ui.view.status = "PLAYER_TURN" /\ ui.view.currentPlayerId = Self
    /\ ~ui.view.isEliminated
    /\ s \in Selectable(ui.view)
    /\ ~ui.isSelectingStat
    /\ ui' = [ui EXCEPT !.isSelectingStat = TRUE]
    /\ Emit([kind |-> "select", statistic |-> s, socketLost |-> FALSE])
    /\ taps' = taps + 1
    /\ UNCHANGED <<server, channel, connected, inRoom, sub, drops, outdated>>

\* The flag opens _confirmForfeit's dialog; events go on behind it.
OpenForfeitDialog ==
    /\ BoardIsOpen
    /\ ~ui.view.isEliminated
    /\ ui' = [ui EXCEPT !.dialog = TRUE]
    /\ UNCHANGED <<server, network, sub, taps, outdated>>

ConfirmForfeit ==
    /\ ui.dialog
    /\ ui' = [ui EXCEPT !.dialog = FALSE, !.isForfeiting = TRUE]
    /\ Emit([kind |-> "forfeit", socketLost |-> FALSE])
    /\ UNCHANGED <<server, channel, connected, inRoom, sub, taps, drops, outdated>>

CancelForfeit ==
    /\ ui.dialog
    /\ ui' = [ui EXCEPT !.dialog = FALSE]
    /\ UNCHANGED <<server, network, sub, taps, outdated>>

\* VictoryOverlay's button, or _EliminatedPanel's.
Leave ==
    /\ ui.mounted /\ ~ui.dialog
    /\ ui.finished \/ (BoardIsOpen /\ ui.view.isEliminated)
    /\ ui' = [ui EXCEPT !.mounted = FALSE]
    /\ UNCHANGED <<server, network, sub, taps, outdated>>

-----------------------------------------------------------------------------
ServerStep ==
    \/ ServeSelect \/ ServeForfeit
    \/ Save \/ Announce \/ Broadcast
    \/ JoinGame \/ GetStateForUser \/ SendSnapshot

Next ==
    \/ ServerStep
    \/ \E p \in Seat, s \in StatSchema : OtherSelects(p, s)
    \/ \E p \in Seat : OtherForfeits(p)
    \/ TurnTimeout
    \/ Disconnect \/ Reconnect
    \/ Receive \/ RevealEnds
    \/ \E s \in StatSchema : TapStatistic(s)
    \/ OpenForfeitDialog \/ ConfirmForfeit \/ CancelForfeit
    \/ Leave

Spec == Init /\ [][Next]_vars

\* The server and the client's event loop run, the turn timer goes off and a lost
\* connection comes back; nobody has to tap anything.
FairSpec ==
    /\ Spec
    /\ WF_vars(ServerStep) /\ WF_vars(TurnTimeout)
    /\ WF_vars(Receive) /\ WF_vars(RevealEnds) /\ WF_vars(Reconnect)

-----------------------------------------------------------------------------
Quiet == work = Idle /\ channel = <<>> /\ sub.phase = "done"

\* SPEC "the server state is the source of truth": when nothing is under way the
\* screen shows the saved state, however snapshot, broadcasts and a reconnection
\* crossed, unless the newest game:state itself was lost or overtaken.
\* The banner "TIE! CHOOSE ANOTHER STAT" comes and goes by events of its own, to another
\* room, and yet does not stay when the tie is over.
QuietViewIsCurrent ==
    (Quiet /\ ui.mounted /\ ~outdated) =>
        /\ ui.view = Personalized(state)
        /\ ui.tie => state.tieState # NoTie

\* "Submitting..." and "Forfeiting match..." block the board and end with whatever
\* the server makes of the message, also when somebody else ended the decision or
\* the match first, unless the answer itself was lost.
OverlaysEnd ==
    /\ ui.isSelectingStat ~> (~ui.isSelectingStat \/ outdated \/ ~ui.mounted)
    /\ ui.isForfeiting ~> (~ui.isForfeiting \/ outdated \/ ~ui.mounted)

=============================================================================
