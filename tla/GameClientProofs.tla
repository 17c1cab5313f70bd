-------------------------- MODULE GameClientProofs --------------------------
(***************************************************************************)
(* What the GameScreen shows, for every number of players and lives, every *)
(* set of cards, every number of taps and of losses of the connection.     *)
(*                                                                         *)
(* Between a save and its broadcast the screen may show anything: the      *)
(* broadcast is still to come.  Otherwise either the snapshot of the       *)
(* subscription is still to come and is not old, or the saved state is the *)
(* last one on its way and no tie comes after it, or nothing is on its way *)
(* and the screen shows it (ViewInv).                                      *)
(***************************************************************************)
EXTENDS GameClient, GameStateLemmas, SequenceTheorems

View == {Personalized(st) : st \in StateType}

Message == {GameStateEvent(view) : view \in View}
             \cup {ComparisonEvent, TieEvent, FinishedEvent, ErrorEvent}

UiType ==
    [mounted : BOOLEAN, view : View \cup {NoView}, isSelectingStat : BOOLEAN,
     isForfeiting : BOOLEAN, dialog : BOOLEAN, comparison : BOOLEAN,
     tie : BOOLEAN, finished : BOOLEAN]

TypeInv ==
    /\ channel \in Seq(Message)
    /\ ui \in UiType
    /\ outdated \in BOOLEAN
    /\ sub.phase \in {"asked", "read", "send", "done"}
    /\ sub.phase = "send" => sub.view \in View

\* A handler whose state is saved and has still to be broadcast.
Telling(w) == w.phase \in {"announce", "broadcast"}

\* The saved state has been through no handler but the engine's, the one that is to be
\* saved is the outcome of one of them, and the one that is broadcast is the saved one.
WorkInv ==
    /\ GoodState(state)
    /\ work.phase \in {"idle", "save", "announce", "broadcast"}
    /\ work.phase # "idle" => GoodState(work.st)
    /\ Telling(work) => work.st = state

\* The screen asks for its snapshot on the connection it has started with.
SubInv == sub.phase # "done" => connected

\* What changes the view or the banner.
Telltale(msg) == msg.event \in {"game:state", "game:tie"}

LastView(view) ==
    \E i \in DOMAIN channel :
        /\ channel[i] = GameStateEvent(view)
        /\ \A j \in DOMAIN channel : j > i => ~Telltale(channel[j])

NothingComes == \A i \in DOMAIN channel : ~Telltale(channel[i])

Shows(view) == ui.mounted => ui.view = view /\ (ui.tie => view.tieState # NoTie)

Current(view) ==
    /\ sub.phase = "send" => sub.view = view
    /\ sub.phase # "done" \/ LastView(view) \/ (NothingComes /\ Shows(view))

ViewInv == ~outdated /\ ~Telling(work) => Current(Personalized(state))

IInv == TypeInv /\ WorkInv /\ SubInv /\ ViewInv

-----------------------------------------------------------------------------
\* The messages, and what they tell.
LEMMA Messages ==
    /\ ComparisonEvent \in Message /\ ~Telltale(ComparisonEvent)
    /\ FinishedEvent \in Message /\ ~Telltale(FinishedEvent)
    /\ ErrorEvent \in Message /\ ~Telltale(ErrorEvent)
    /\ TieEvent \in Message
    /\ \A view \in View : GameStateEvent(view) \in Message
<1>1. ComparisonEvent \in Message /\ FinishedEvent \in Message /\ ErrorEvent \in Message
      /\ TieEvent \in Message /\ \A view \in View : GameStateEvent(view) \in Message
  BY DEF Message
<1>2. ~Telltale(ComparisonEvent) BY DEF ComparisonEvent, Telltale
<1>3. ~Telltale(FinishedEvent) BY DEF FinishedEvent, Telltale
<1>4. ~Telltale(ErrorEvent) BY DEF ErrorEvent, Telltale
<1> QED BY <1>1, <1>2, <1>3, <1>4

\* More is on its way than before, and nothing that changes the view or the banner.
Grows(s, t) ==
    /\ t \in Seq(Message)
    /\ \A i \in DOMAIN s : i \in DOMAIN t /\ t[i] = s[i]
    /\ \A i \in DOMAIN t : i \in DOMAIN s \/ ~Telltale(t[i])

\* A message that is sent comes after the others.
LEMMA Sent ==
    ASSUME NEW s \in Seq(Message), NEW m \in Message, NEW t, t = s \o <<m>> \/ t = Append(s, m)
    PROVE  /\ t \in Seq(Message)
           /\ \A i \in DOMAIN s : i \in DOMAIN t /\ t[i] = s[i]
           /\ \E n \in DOMAIN t : /\ t[n] = m
                                  /\ \A i \in DOMAIN t : i \in DOMAIN s \/ i = n
                                  /\ \A i \in DOMAIN t : ~(i > n)
<1>1. Len(s) \in Nat /\ DOMAIN s = 1..Len(s) BY LenProperties
<1>2. /\ t \in Seq(Message) /\ Len(t) = Len(s) + 1
      /\ \A i \in 1..Len(s) : t[i] = s[i]
      /\ t[Len(s) + 1] = m
  <2>1. CASE t = Append(s, m) BY <2>1, AppendProperties
  <2>2. CASE t = s \o <<m>>
    <3>1. <<m>> \in Seq(Message) /\ Len(<<m>>) = 1 /\ <<m>>[1] = m OBVIOUS
    <3>2. /\ t \in Seq(Message) /\ Len(t) = Len(s) + 1
          /\ \A i \in 1..(Len(s) + 1) : t[i] = IF i <= Len(s) THEN s[i] ELSE <<m>>[i - Len(s)]
      BY <2>2, <3>1, ConcatProperties
    <3> QED BY <1>1, <3>1, <3>2
  <2> QED BY <2>1, <2>2
<1>3. DOMAIN t = 1..(Len(s) + 1) BY <1>2, LenProperties
<1> QED BY <1>1, <1>2, <1>3

\* A message that tells nothing of the view or the banner may be sent or left out.
LEMMA SentQuietly ==
    ASSUME NEW s \in Seq(Message), NEW m \in Message, ~Telltale(m), NEW t,
           t = s \/ t = s \o <<m>> \/ t = Append(s, m)
    PROVE  Grows(s, t)
<1>1. CASE t = s BY <1>1 DEF Grows
<1>2. CASE t = s \o <<m>> \/ t = Append(s, m) BY <1>2, Sent DEF Grows
<1> QED BY <1>1, <1>2

\* What the screen shows is as current as before when nothing that tells is sent.
LEMMA QuietStep ==
    ASSUME IInv, Grows(channel, channel'), state' = state, outdated' = outdated, sub' = sub,
           ui'.mounted => ui.mounted, ui'.view = ui.view, ui'.tie = ui.tie,
           Telling(work) => Telling(work')
    PROVE  ViewInv'
<1> SUFFICES ASSUME ~outdated, ~Telling(work)' PROVE Current(Personalized(state))'
  BY DEF ViewInv
<1>1. ~Telling(work) BY DEF Telling
<1> DEFINE view == Personalized(state)
<1>2. view' = view BY DEF Personalized, TopCard
<1>3. Current(view) BY <1>1 DEF IInv, ViewInv
<1> HIDE DEF view
<1>4. LastView(view) => LastView(view)'
  BY <1>2 DEF LastView, Grows, Telltale, GameStateEvent
<1>5. NothingComes => NothingComes' BY DEF NothingComes, Grows, Telltale
<1>6. Shows(view) => Shows(view)' BY <1>2 DEF Shows
<1>7. Current(view)' BY <1>2, <1>3, <1>4, <1>5, <1>6 DEF Current
<1> QED BY <1>7 DEF view

\* Steps that leave the engine's states alone and tell nothing.
LEMMA QuietKeeps ==
    ASSUME IInv, Grows(channel, channel'), state' = state, work' = work, outdated' = outdated,
           sub' = sub, connected' = connected,
           ui' \in UiType, ui'.mounted => ui.mounted, ui'.view = ui.view, ui'.tie = ui.tie
    PROVE  IInv'
<1>1. ViewInv' BY QuietStep
<1>2. TypeInv' BY DEF IInv, TypeInv, Grows
<1>3. WorkInv' BY DEF IInv, WorkInv, Telling, GoodState, Remaining, OneLeft
<1>4. SubInv' BY DEF IInv, SubInv
<1> QED BY <1>1, <1>2, <1>3, <1>4 DEF IInv

\* A handler that has computed the state it will save.
LEMMA ComputesKeeps ==
    ASSUME IInv, work = Idle, NEW next, GoodState(next), work' = Working("save", next),
           Grows(channel, channel'), state' = state, outdated' = outdated,
           sub' = sub, connected' = connected, ui' = ui
    PROVE  IInv'
<1>1. work.phase = "idle" /\ work'.phase = "save" /\ work'.st = next BY DEF Idle, Working
<1>2. ViewInv' BY <1>1, QuietStep DEF Telling
<1>3. TypeInv' BY DEF IInv, TypeInv, Grows
<1>4. GoodState(state)' /\ GoodState(work.st)'
  BY <1>1 DEF IInv, WorkInv, GoodState, Remaining, OneLeft
<1>5. WorkInv' BY <1>1, <1>4 DEF WorkInv, Telling
<1>6. SubInv' BY DEF IInv, SubInv
<1> QED BY <1>2, <1>3, <1>5, <1>6 DEF IInv

\* Every comparison leads from a match in play to a good state.
LEMMA CompareKeeps ==
    ASSUME IInv, work = Idle, NEW p, NEW s, CanSelect(state, p, s), Compare(p, s),
           state' = state, outdated' = outdated, sub' = sub, connected' = connected, ui' = ui
    PROVE  IInv'
<1> DEFINE next == IF IsTie(state, s) THEN AfterTie(state, s)
                   ELSE AfterRound(state, RoundWinner(state, p, s))
<1>1. InPlay(state) /\ p = state.currentPlayerId /\ s \in StatSchema
  BY DEF IInv, WorkInv, InPlay, CanSelect, isSelectableStatistic
<1>2. GoodState(next)
  <2>1. GoodState(AfterTie(state, s)) BY <1>1, TieStep
  <2>2. GoodState(AfterRound(state, RoundWinner(state, p, s)))
    BY <1>1, RoundWinnerRemains, RoundStep
  <2> QED BY <2>1, <2>2
<1>3. work' = Working("save", next) BY DEF Compare
<1> HIDE DEF next
<1>4. Grows(channel, channel')
  <2>1. channel' = channel \o <<ComparisonEvent>> \/ channel' = channel BY DEF Compare, ToGame
  <2> QED BY <2>1, Messages, SentQuietly DEF IInv, TypeInv
<1> QED BY <1>2, <1>3, <1>4, ComputesKeeps

\* A refusal tells the player, if his socket is still there, and nothing else.
LEMMA RefusalKeeps ==
    ASSUME IInv, NEW msg, Refuse(msg), state' = state, outdated' = outdated,
           sub' = sub, connected' = connected, ui' = ui
    PROVE  IInv'
<1>1. Grows(channel, channel')
  <2>1. channel' = Append(channel, ErrorEvent) \/ channel' = channel BY DEF Refuse, ToUser
  <2> QED BY <2>1, Messages, SentQuietly DEF IInv, TypeInv
<1>2. ui' \in UiType BY DEF IInv, TypeInv
<1>3. work' = work BY DEF Refuse
<1> QED BY <1>1, <1>2, <1>3, QuietKeeps

\* The user's pick is served: refused with an error, or compared and computed.
LEMMA ServeSelectKeeps == ASSUME IInv, ServeSelect PROVE IInv'
<1> DEFINE s == Head(inbox).statistic
<1>1. /\ work = Idle /\ state' = state /\ outdated' = outdated /\ sub' = sub
      /\ connected' = connected /\ ui' = ui
      /\ \/ CanSelect(state, Self, s) /\ Compare(Self, s)
         \/ Refuse(Head(inbox))
  BY DEF ServeSelect
<1> HIDE DEF s
<1> QED BY <1>1, CompareKeeps, RefusalKeeps

\* Whoever forfeits has to be in a match in play, and then the state is a good one.
LEMMA ForfeitIsGood ==
    ASSUME IInv, NEW p \in Seat, CanForfeit(state, p)
    PROVE  GoodState(AfterForfeit(state, p))
<1>1. InPlay(state) /\ p \in Remaining(state)
  BY DEF IInv, WorkInv, InPlay, CanForfeit, Remaining
<1> QED BY <1>1, ForfeitStep

\* Sending nothing is a special case of sending nothing that tells.
LEMMA SameChannel == ASSUME IInv, channel' = channel PROVE Grows(channel, channel')
BY DEF IInv, TypeInv, Grows

\* A forfeit, the user's or another's, computes its state and sends nothing yet.
LEMMA ForfeitsKeep ==
    ASSUME IInv, ServeForfeit \/ \E p \in Seat : OtherForfeits(p)
    PROVE  IInv'
<1>1. CASE ServeForfeit /\ ~CanForfeit(state, Self)
  BY <1>1, RefusalKeeps DEF ServeForfeit
<1>2. CASE \E p \in Seat : /\ work = Idle /\ CanForfeit(state, p)
                           /\ work' = Working("save", AfterForfeit(state, p))
                           /\ state' = state /\ outdated' = outdated /\ sub' = sub
                           /\ connected' = connected /\ ui' = ui /\ channel' = channel
  BY <1>2, ForfeitIsGood, SameChannel, ComputesKeeps
<1> QED BY <1>1, <1>2, ClientAssumption DEF ServeForfeit, OtherForfeits, network

\* A turn that times out computes its state and sends nothing yet.
LEMMA TurnTimeoutKeeps == ASSUME IInv, TurnTimeout PROVE IInv'
<1>1. GoodState(AfterTimeout(state))
  BY TimeoutStep DEF TurnTimeout, IInv, WorkInv, InPlay
<1> QED BY <1>1, SameChannel, ComputesKeeps DEF TurnTimeout, network

\* Another player's pick is compared for everybody and computed.
LEMMA OtherSelectsKeeps ==
    ASSUME IInv, NEW p \in Seat, NEW s \in StatSchema, OtherSelects(p, s)
    PROVE  IInv'
BY CompareKeeps DEF OtherSelects

-----------------------------------------------------------------------------
\* A state that is sent is the last one on its way.
LEMMA ViewSent ==
    ASSUME channel \in Seq(Message), NEW view \in View,
           channel' = Append(channel, GameStateEvent(view))
    PROVE  /\ channel' \in Seq(Message)
           /\ \E n \in DOMAIN channel' : /\ channel'[n] = GameStateEvent(view)
                                         /\ \A j \in DOMAIN channel' : ~(j > n)
BY Messages, Sent

\* Once saved, a state is on the screen's way until it is broadcast.
LEMMA SaveKeeps == ASSUME IInv, Save PROVE IInv'
<1>1. /\ work.phase = "save" /\ state' = work.st
      /\ work' = Working(IF work.st.status = "GAME_FINISHED" THEN "announce" ELSE "broadcast",
                         work.st)
      /\ \/ channel' = channel
         \/ channel' = channel \o <<TieEvent>> 
         \/ channel' = channel \o << >>
      /\ outdated' = outdated /\ sub' = sub /\ connected' = connected /\ ui' = ui
  BY DEF Save, ToGame
<1>2. work'.phase \in {"announce", "broadcast"} /\ work'.st = work.st BY <1>1 DEF Working
<1>3. channel' \in Seq(Message)
  <2>1. channel \in Seq(Message) BY DEF IInv, TypeInv
  <2>2. channel \o << >> = channel BY <2>1
  <2>3. CASE channel' = channel \o <<TieEvent>> BY <2>1, <2>3, Messages, Sent
  <2> QED BY <1>1, <2>1, <2>2, <2>3
<1>4. TypeInv' BY <1>1, <1>3 DEF IInv, TypeInv
<1>5. GoodState(state') /\ GoodState(work'.st)
  BY <1>1, <1>2 DEF IInv, WorkInv
<1>6. GoodState(state)' /\ GoodState(work.st)'
  BY <1>5 DEF GoodState, Remaining, OneLeft
<1>7. WorkInv' BY <1>1, <1>2, <1>6 DEF WorkInv, Telling
<1>8. SubInv' /\ ViewInv' BY <1>1, <1>2 DEF IInv, SubInv, ViewInv, Telling
<1> QED BY <1>4, <1>7, <1>8 DEF IInv

\* The end of a match is announced before its state is broadcast.
LEMMA AnnounceKeeps == ASSUME IInv, Announce PROVE IInv'
<1>1. /\ work.phase = "announce" /\ work' = Working("broadcast", work.st)
      /\ channel' = channel \/ channel' = channel \o <<FinishedEvent>>
      /\ state' = state /\ outdated' = outdated /\ sub' = sub /\ connected' = connected
      /\ ui' = ui
  BY DEF Announce, ToGame
<1>2. work'.phase = "broadcast" /\ work'.st = work.st BY <1>1 DEF Working
<1>3. Grows(channel, channel') BY <1>1, Messages, SentQuietly DEF IInv, TypeInv
<1>4. TypeInv' BY <1>1, <1>3 DEF IInv, TypeInv, Grows
<1>5. GoodState(state)' /\ GoodState(work.st)'
  BY <1>1, <1>2 DEF IInv, WorkInv, GoodState, Remaining, OneLeft
<1>6. WorkInv' BY <1>1, <1>2, <1>5 DEF IInv, WorkInv, Telling
<1>7. SubInv' /\ ViewInv' BY <1>1, <1>2 DEF IInv, SubInv, ViewInv, Telling
<1> QED BY <1>4, <1>6, <1>7 DEF IInv

\* The broadcast state is the saved one and comes last, unless an older snapshot does.
LEMMA BroadcastKeeps == ASSUME IInv, Broadcast PROVE IInv'
<1> DEFINE view == Personalized(state)
<1>1. /\ work.phase = "broadcast" /\ work.st = state /\ work' = Idle
      /\ channel' = IF connected THEN Append(channel, GameStateEvent(view)) ELSE channel
      /\ outdated' = (~connected \/ Overtakes(view))
      /\ state' = state /\ sub' = sub /\ connected' = connected /\ ui' = ui
  BY DEF Broadcast, ToUser, IInv, WorkInv, Telling
<1>2. work'.phase = "idle" BY <1>1 DEF Idle
<1>3. view \in View BY DEF View, IInv, WorkInv, GoodState
<1>4. view' = view BY <1>1 DEF Personalized, TopCard
<1>5. channel \in Seq(Message) BY DEF IInv, TypeInv
<1> HIDE DEF view
<1>6. /\ channel' \in Seq(Message)
      /\ connected => LastView(view)'
  <2>1. CASE connected BY <1>1, <1>3, <1>4, <1>5, <2>1, ViewSent DEF LastView, GameStateEvent
  <2>2. CASE ~connected BY <1>1, <1>5, <2>2
  <2> QED BY <2>1, <2>2
<1>7. TypeInv'
  <2>1. outdated' \in BOOLEAN BY <1>1
  <2> QED BY <1>1, <1>6, <2>1 DEF IInv, TypeInv
<1>8. WorkInv'
  <2>1. GoodState(state)' BY <1>1 DEF IInv, WorkInv, GoodState, Remaining, OneLeft
  <2> QED BY <1>2, <2>1 DEF WorkInv, Telling
<1>9. SubInv' BY <1>1 DEF IInv, SubInv
<1>10. ~outdated' => Current(view)'
  BY <1>1, <1>4, <1>6 DEF Current, Overtakes
<1>11. ViewInv' BY <1>10 DEF ViewInv, view
<1> QED BY <1>7, <1>8, <1>9, <1>11 DEF IInv

\* The subscription reads the saved state, and sends what it has read.
LEMMA SubscribeKeeps ==
    ASSUME IInv, JoinGame \/ GetStateForUser
    PROVE  IInv'
<1> DEFINE view == Personalized(state)
<1>1. /\ sub.phase # "done" /\ sub'.phase \in {"read", "send"}
      /\ sub'.phase = "send" => sub'.view = view
      /\ state' = state /\ work' = work /\ channel' = channel /\ outdated' = outdated
      /\ connected' = connected /\ ui' = ui
  BY DEF JoinGame, GetStateForUser, server, network
<1>2. view \in View BY DEF View, IInv, WorkInv, GoodState
<1>3. view' = view BY <1>1 DEF Personalized, TopCard
<1> HIDE DEF view
<1>4. TypeInv' BY <1>1, <1>2 DEF IInv, TypeInv
<1>5. WorkInv'
  BY <1>1 DEF IInv, WorkInv, Telling, GoodState, Remaining, OneLeft
<1>6. SubInv' BY <1>1 DEF IInv, SubInv
<1>7. Current(view)' BY <1>1, <1>3 DEF Current
<1>8. ViewInv' BY <1>7 DEF ViewInv, view
<1> QED BY <1>4, <1>5, <1>6, <1>8 DEF IInv

\* The snapshot is sent: if it is not outdated it is of the saved state, and comes last.
LEMMA SendSnapshotKeeps == ASSUME IInv, SendSnapshot PROVE IInv'
<1> DEFINE view == Personalized(state)
<1>1. /\ sub.phase = "send" /\ connected /\ sub.view \in View
      /\ channel' = Append(channel, GameStateEvent(sub.view))
      /\ sub'.phase = "done"
      /\ state' = state /\ work' = work /\ outdated' = outdated
      /\ connected' = connected /\ ui' = ui
  BY DEF SendSnapshot, ToUser, server, IInv, SubInv, TypeInv
<1>2. view' = view BY <1>1 DEF Personalized, TopCard
<1>3. /\ channel' \in Seq(Message)
      /\ \E n \in DOMAIN channel' : /\ channel'[n] = GameStateEvent(sub.view)
                                    /\ \A j \in DOMAIN channel' : ~(j > n)
  <2>1. channel \in Seq(Message) BY DEF IInv, TypeInv
  <2> QED BY <1>1, <2>1, ViewSent
<1>4. ~outdated /\ ~Telling(work) => sub.view = view BY <1>1 DEF IInv, ViewInv, Current
<1> HIDE DEF view
<1>5. TypeInv' BY <1>1, <1>3 DEF IInv, TypeInv
<1>6. WorkInv'
  BY <1>1 DEF IInv, WorkInv, Telling, GoodState, Remaining, OneLeft
<1>7. SubInv' BY <1>1 DEF SubInv
<1>8. ~outdated /\ ~Telling(work) => Current(view)'
  BY <1>1, <1>2, <1>3, <1>4 DEF Current, LastView, GameStateEvent
<1>9. ViewInv' BY <1>1, <1>8 DEF ViewInv, Telling, view
<1> QED BY <1>5, <1>6, <1>7, <1>9 DEF IInv

\* A connection that is lost leaves the screen with what it has.
LEMMA DisconnectKeeps == ASSUME IInv, Disconnect PROVE IInv'
<1>1. /\ channel' = <<>> /\ sub'.phase = "done" /\ outdated' = TRUE /\ connected' = FALSE
      /\ state' = state /\ work' = work /\ ui' = ui
  BY DEF Disconnect, server
<1>2. TypeInv' BY <1>1, EmptySeq DEF IInv, TypeInv
<1>3. WorkInv' BY <1>1 DEF IInv, WorkInv, Telling, GoodState, Remaining, OneLeft
<1>4. SubInv' /\ ViewInv' BY <1>1 DEF SubInv, ViewInv
<1> QED BY <1>2, <1>3, <1>4 DEF IInv

\* A connection that comes back brings nothing with it: nothing fetches the state again.
LEMMA ReconnectKeeps == ASSUME IInv, Reconnect PROVE IInv'
<1>1. /\ connected' = TRUE /\ channel' = channel /\ sub' = sub /\ outdated' = outdated
      /\ state' = state /\ work' = work /\ ui' = ui
  BY DEF Reconnect, server
<1>2. TypeInv' BY <1>1 DEF IInv, TypeInv
<1>3. WorkInv' BY <1>1 DEF IInv, WorkInv, Telling, GoodState, Remaining, OneLeft
<1>4. SubInv' BY <1>1 DEF SubInv
<1>5. ViewInv' BY <1>1, SameChannel, QuietStep
<1> QED BY <1>2, <1>3, <1>4, <1>5 DEF IInv

-----------------------------------------------------------------------------
\* What the screen makes of a message.
LEMMA OnEventStep ==
    ASSUME ui \in UiType, NEW msg \in Message, NEW next, next = OnEvent(msg)
    PROVE  /\ next \in UiType /\ next.mounted = ui.mounted
           /\ ~Telltale(msg) => next.view = ui.view /\ next.tie = ui.tie
           /\ msg.event = "game:state" => /\ msg = GameStateEvent(msg.view)
                                          /\ next.view = msg.view
                                          /\ next.tie => msg.view.tieState # NoTie
<1>1. CASE \E view \in View : msg = GameStateEvent(view)
  <2>1. msg.event = "game:state" /\ msg.view \in View /\ msg = GameStateEvent(msg.view)
    BY <1>1 DEF GameStateEvent
  <2>2. next = OnGameState(msg.view) BY <2>1 DEF OnEvent
  <2>3. (ui.tie /\ msg.view.tieState # NoTie) \in BOOLEAN OBVIOUS
  <2> QED BY <2>1, <2>2, <2>3 DEF OnGameState, UiType, Telltale
<1>2. CASE msg = ComparisonEvent
  <2>1. msg.event = "comparison:result" BY <1>2 DEF ComparisonEvent
  <2>2. next = [ui EXCEPT !.comparison = TRUE, !.isSelectingStat = FALSE] BY <2>1 DEF OnEvent
  <2> QED BY <2>1, <2>2 DEF UiType
<1>3. CASE msg = TieEvent
  <2>1. msg.event = "game:tie" BY <1>3 DEF TieEvent
  <2>2. next = [ui EXCEPT !.tie = TRUE] BY <2>1 DEF OnEvent
  <2> QED BY <2>1, <2>2 DEF UiType, Telltale
<1>4. CASE msg = FinishedEvent
  <2>1. msg.event = "game:finished" BY <1>4 DEF FinishedEvent
  <2>2. next = [ui EXCEPT !.finished = TRUE, !.isForfeiting = FALSE] BY <2>1 DEF OnEvent
  <2> QED BY <2>1, <2>2 DEF UiType
<1>5. CASE msg = ErrorEvent
  <2>1. msg.event = "error" BY <1>5 DEF ErrorEvent
  <2>2. next = [ui EXCEPT !.isSelectingStat = FALSE, !.isForfeiting = FALSE]
    BY <2>1 DEF OnEvent, OnError
  <2> QED BY <2>1, <2>2 DEF UiType
<1> QED BY <1>1, <1>2, <1>3, <1>4, <1>5 DEF Message

\* The first message is taken, the others move up.
LEMMA Taken ==
    ASSUME NEW s \in Seq(Message), s # <<>>, NEW t, t = Tail(s), NEW m, m = Head(s)
    PROVE  /\ t \in Seq(Message) /\ m \in Message /\ 1 \in DOMAIN s /\ s[1] = m
           /\ DOMAIN s \subseteq Int /\ DOMAIN t \subseteq Int
           /\ \A i \in DOMAIN t : i >= 1 /\ i + 1 \in DOMAIN s /\ t[i] = s[i + 1]
           /\ \A i \in DOMAIN s : i # 1 => i - 1 \in DOMAIN t /\ t[i - 1] = s[i]
<1>1. Len(s) \in Nat /\ DOMAIN s = 1..Len(s) /\ Len(s) # 0 BY LenProperties, EmptySeq
<1>2. /\ t \in Seq(Message) /\ m \in Message /\ m = s[1] /\ Len(t) = Len(s) - 1
      /\ \A i \in 1..Len(t) : t[i] = s[i + 1]
  BY HeadTailProperties
<1>3. DOMAIN t = 1..(Len(s) - 1) BY <1>2, LenProperties
<1> QED BY <1>1, <1>2, <1>3

\* When the last state on its way is taken the screen shows it, banner and all.
LEMMA ReceiveKeeps == ASSUME IInv, Receive PROVE IInv'
<1> DEFINE m == Head(channel)
           view == Personalized(state)
<1>1. /\ channel # <<>> /\ channel' = Tail(channel)
      /\ ui' = IF ui.mounted THEN OnEvent(m) ELSE ui
      /\ state' = state /\ work' = work /\ sub' = sub /\ outdated' = outdated
      /\ connected' = connected
  BY DEF Receive, server
<1>2. channel \in Seq(Message) /\ ui \in UiType BY DEF IInv, TypeInv
<1>3. /\ channel' \in Seq(Message) /\ m \in Message /\ 1 \in DOMAIN channel /\ channel[1] = m
      /\ DOMAIN channel \subseteq Int /\ DOMAIN channel' \subseteq Int
      /\ \A i \in DOMAIN channel' :
            i >= 1 /\ i + 1 \in DOMAIN channel /\ channel'[i] = channel[i + 1]
      /\ \A i \in DOMAIN channel : i # 1 => i - 1 \in DOMAIN channel' /\ channel'[i - 1] = channel[i]
  BY <1>1, <1>2, Taken
<1>4. view' = view BY <1>1 DEF Personalized, TopCard
<1> HIDE DEF m, view
<1>5. /\ ui' \in UiType /\ ui'.mounted = ui.mounted
      /\ ui.mounted /\ ~Telltale(m) => ui'.view = ui.view /\ ui'.tie = ui.tie
      /\ ui.mounted /\ m.event = "game:state" => /\ m = GameStateEvent(m.view)
                                                 /\ ui'.view = m.view
                                                 /\ ui'.tie => m.view.tieState # NoTie
  <2>1. CASE ui.mounted
    <3>1. ui' = OnEvent(m) BY <1>1, <2>1
    <3> QED BY <1>2, <1>3, <3>1, OnEventStep
  <2>2. CASE ~ui.mounted BY <1>1, <1>2, <2>2
  <2> QED BY <2>1, <2>2
<1>6. TypeInv' BY <1>1, <1>3, <1>5 DEF IInv, TypeInv
<1>7. WorkInv' BY <1>1 DEF IInv, WorkInv, Telling, GoodState, Remaining, OneLeft
<1>8. SubInv' BY <1>1 DEF IInv, SubInv
<1>9. ASSUME LastView(view) PROVE LastView(view)' \/ (NothingComes' /\ Shows(view)')
  <2>1. PICK i \in DOMAIN channel :
           /\ channel[i] = GameStateEvent(view)
           /\ \A j \in DOMAIN channel : j > i => ~Telltale(channel[j])
    BY <1>9 DEF LastView
  <2>2. CASE i = 1
    <3>1. m.event = "game:state" /\ m.view = view BY <1>3, <2>1, <2>2 DEF GameStateEvent
    <3>2. Shows(view)' BY <1>4, <1>5, <3>1 DEF Shows
    <3>3. NothingComes'
      <4>1. \A j \in DOMAIN channel' : ~Telltale(channel'[j])
        <5> TAKE j \in DOMAIN channel'
        <5>1. j + 1 \in DOMAIN channel /\ channel'[j] = channel[j + 1] /\ j + 1 > 1 BY <1>3
        <5> QED BY <2>1, <2>2, <5>1
      <4> QED BY <4>1 DEF NothingComes, Telltale
    <3> QED BY <3>2, <3>3
  <2>3. CASE i # 1
    <3>1. i - 1 \in DOMAIN channel' /\ channel'[i - 1] = GameStateEvent(view) BY <1>3, <2>1, <2>3
    <3>2. \A j \in DOMAIN channel' : j > i - 1 => ~Telltale(channel'[j])
      <4> TAKE j \in DOMAIN channel'
      <4>1. j + 1 \in DOMAIN channel /\ channel'[j] = channel[j + 1] /\ j \in Int /\ i \in Int
        BY <1>3
      <4>2. j > i - 1 => j + 1 > i BY <4>1
      <4> QED BY <2>1, <4>1, <4>2
    <3> QED BY <1>4, <3>1, <3>2 DEF LastView, GameStateEvent, Telltale
  <2> QED BY <2>2, <2>3
<1>10. ASSUME NothingComes, Shows(view) PROVE NothingComes' /\ Shows(view)'
  <2>1. ~Telltale(m) BY <1>3, <1>10 DEF NothingComes
  <2>2. \A j \in DOMAIN channel' : ~Telltale(channel'[j])
    BY <1>3, <1>10 DEF NothingComes
  <2> QED BY <1>4, <1>5, <1>10, <2>1, <2>2 DEF NothingComes, Telltale, Shows
<1>11. Current(view) => Current(view)' BY <1>1, <1>4, <1>9, <1>10 DEF Current
<1>12. ViewInv' BY <1>1, <1>11 DEF IInv, ViewInv, Telling, view
<1> QED BY <1>6, <1>7, <1>8, <1>12 DEF IInv

\* What the player does changes what lies over the board, never what it shows.
LEMMA PlayerKeeps ==
    ASSUME IInv, \/ RevealEnds \/ OpenForfeitDialog \/ ConfirmForfeit \/ CancelForfeit \/ Leave
                 \/ \E s \in StatSchema : TapStatistic(s)
    PROVE  IInv'
<1>1. ui \in UiType BY DEF IInv, TypeInv
<1>2. /\ state' = state /\ work' = work /\ sub' = sub /\ outdated' = outdated
      /\ connected' = connected /\ channel' = channel
      /\ \/ ui' = [ui EXCEPT !.comparison = FALSE]
         \/ ui' = [ui EXCEPT !.dialog = TRUE]
         \/ ui' = [ui EXCEPT !.dialog = FALSE, !.isForfeiting = TRUE]
         \/ ui' = [ui EXCEPT !.dialog = FALSE]
         \/ ui' = [ui EXCEPT !.mounted = FALSE]
         \/ ui' = [ui EXCEPT !.isSelectingStat = TRUE]
  BY DEF RevealEnds, OpenForfeitDialog, ConfirmForfeit, CancelForfeit, Leave, TapStatistic,
         server, network
<1>3. ui' \in UiType /\ ui'.view = ui.view /\ ui'.tie = ui.tie /\ (ui'.mounted => ui.mounted)
  BY <1>1, <1>2 DEF UiType
<1> QED BY <1>2, <1>3, SameChannel, QuietKeeps

-----------------------------------------------------------------------------
\* A match starts in a good state, and the screen with its subscription.
LEMMA InitIInv == Init => IInv
<1> SUFFICES ASSUME Init PROVE IInv
  OBVIOUS
<1>1. GoodState(state) BY StartIsGood DEF Init, InPlay
<1>2. work.phase = "idle" /\ sub.phase = "asked" /\ connected = TRUE /\ outdated = FALSE
  BY DEF Init, Idle
<1>3. TypeInv BY EmptySeq DEF TypeInv, Init, UiType
<1>4. WorkInv BY <1>1, <1>2 DEF WorkInv, Telling
<1>5. SubInv /\ ViewInv BY <1>2 DEF SubInv, ViewInv, Current
<1> QED BY <1>3, <1>4, <1>5 DEF IInv

\* Every step keeps the invariant.
LEMMA NextIInv == IInv /\ [Next]_vars => IInv'
<1> SUFFICES ASSUME IInv, [Next]_vars PROVE IInv'
  OBVIOUS
<1>1. CASE ServerStep
  BY <1>1, ServeSelectKeeps, ForfeitsKeep, SaveKeeps, AnnounceKeeps, BroadcastKeeps,
     SubscribeKeeps, SendSnapshotKeeps DEF ServerStep
<1>2. ASSUME NEW p \in Seat, NEW s \in StatSchema, OtherSelects(p, s) PROVE IInv'
  BY <1>2, OtherSelectsKeeps
<1>3. CASE \E p \in Seat : OtherForfeits(p) BY <1>3, ForfeitsKeep
<1>4. CASE TurnTimeout BY <1>4, TurnTimeoutKeeps
<1>5. CASE Disconnect BY <1>5, DisconnectKeeps
<1>6. CASE Reconnect BY <1>6, ReconnectKeeps
<1>7. CASE Receive BY <1>7, ReceiveKeeps
<1>8. CASE \/ RevealEnds \/ OpenForfeitDialog \/ ConfirmForfeit \/ CancelForfeit \/ Leave
           \/ \E s \in StatSchema : TapStatistic(s)
  BY <1>8, PlayerKeeps
<1>9. CASE UNCHANGED vars
  <2>1. ui' \in UiType BY <1>9 DEF IInv, TypeInv, vars
  <2> QED BY <1>9, <2>1, SameChannel, QuietKeeps DEF vars
<1> QED BY <1>1, <1>2, <1>3, <1>4, <1>5, <1>6, <1>7, <1>8, <1>9 DEF Next

\* The invariant holds in every state of the screen and of the match it shows.
THEOREM ClientInvariant == Spec => []IInv
<1>1. Init => IInv BY InitIInv
<1>2. IInv /\ [Next]_vars => IInv' BY NextIInv
<1> QED BY <1>1, <1>2, PTL DEF Spec

\* When nothing is under way the screen shows the saved state and no left-over tie
\* banner, unless the newest state itself was lost or overtaken.
THEOREM QuietViewIsCurrentHolds == Spec => []QuietViewIsCurrent
<1>1. ASSUME IInv PROVE QuietViewIsCurrent
  <2> SUFFICES ASSUME Quiet, ui.mounted, ~outdated
      PROVE  /\ ui.view = Personalized(state)
             /\ ui.tie => state.tieState # NoTie
    BY DEF QuietViewIsCurrent
  <2>1. ~Telling(work) /\ sub.phase = "done" BY DEF Quiet, Idle, Telling
  <2>2. Current(Personalized(state)) BY <1>1, <2>1 DEF IInv, ViewInv
  <2>3. DOMAIN channel = {} BY EmptySeq DEF Quiet
  <2>4. Shows(Personalized(state)) BY <2>1, <2>2, <2>3 DEF Current, LastView
  <2>5. Personalized(state).tieState = state.tieState BY DEF Personalized
  <2> QED BY <2>4, <2>5 DEF Shows
<1> QED BY <1>1, ClientInvariant, PTL
=============================================================================
