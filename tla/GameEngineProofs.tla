-------------------------- MODULE GameEngineProofs --------------------------
(***************************************************************************)
(* GameEngine is correct for every number of players and lives, every set  *)
(* of cards, every number of requests, failures and crashes.               *)
(*                                                                         *)
(* What is saved, logged and paid is only seen to agree between two        *)
(* handlers; the invariant follows the one handler that holds the lock:    *)
(* what it is about to save is its own effect on what is still saved       *)
(* (HandlerInv), how far the log and the payment are ahead of the saved    *)
(* state in each phase (LogInv, ResultInv), and who will arm the timer     *)
(* when none is pending (TimerInv).                                        *)
(***************************************************************************)
EXTENDS GameEngine, GameStateLemmas, SequenceTheorems, FunctionTheorems

Key == Seat \X (Nat \ {0}) \X Nat

Request ==
    {StartRequest}
    \cup {SelectRequest(p, s) : p \in Seat, s \in StatSchema}
    \cup {ForfeitRequest(p) : p \in Seat}
    \cup {TimeoutRequest(key) : key \in Key}

StoredState == StateType \cup {NoState}

\* The state the handler of req saves when it loaded st.
After(req, st) ==
    CASE req.kind = "select" -> AfterSelect(st, req.player, req.statistic)
      [] req.kind = "forfeit" -> AfterForfeit(st, req.player)
      [] req.kind = "timeout" -> AfterTimeout(st)

QueueInv ==
    /\ queue \in Seq(Request)
    /\ \A i \in 1..Len(queue) :
          queue[i].kind = "start" => i = 1 /\ redis = NoState /\ handler = Idle

HandlerType ==
    \/ handler = Idle
    \/ handler \in [phase : {"check", "record", "finish", "save", "publish"},
                    req : Request, st : StoredState]

\* Nobody else saves while a handler holds the lock, so what it computed from the state
\* it loaded is its effect on the state that is saved now.
HandlerInv ==
    /\ HandlerType
    /\ handler.phase = "check" =>
          handler.st = redis /\ (handler.req.kind = "start" => redis = NoState)
    /\ handler.phase \in {"record", "finish", "save"} =>
          IF handler.req.kind = "start"
          THEN handler.phase = "save" /\ redis = NoState /\ handler.st = InitialState(deck)
          ELSE Accepts(handler.req, redis) /\ handler.st = After(handler.req, redis)
    /\ handler.phase = "record" => handler.req.kind # "forfeit"
    /\ handler.phase = "finish" => handler.st.status = "GAME_FINISHED"
    /\ handler.phase = "publish" => handler.st = redis /\ redis # NoState

StoreInv ==
    /\ deck \in Shuffled
    /\ redis # NoState => GoodState(redis)
    /\ timer \in Key \cup {NoTimer}
    /\ faults \in Nat

\* The row of the handler that saves next is in the log before.
LogInv ==
    /\ redis = NoState => events = {}
    /\ redis # NoState =>
          /\ 1..redis.eventSequence \subseteq Sequences(events)
          /\ Sequences(events) \subseteq 1..(redis.eventSequence + 1)
          /\ Tells(events, redis)
    /\ handler.phase \in {"finish", "save"} =>
          /\ 1..handler.st.eventSequence \subseteq Sequences(events)
          /\ Tells(events, handler.st)
    /\ (faults = 0 /\ redis # NoState) =>
          Sequences(events)
              = 1..(IF handler.phase \in {"finish", "save"} THEN handler.st.eventSequence
                                                            ELSE redis.eventSequence)

\* A result committed to Postgres and not yet saved.
Committed == handler.phase = "save" /\ handler.st.status = "GAME_FINISHED"

ResultInv ==
    /\ Over => game = "FINISHED" /\ redis.winnerId \in rewards
    /\ Committed => game = "FINISHED" /\ handler.st.winnerId \in rewards
    /\ faults = 0 => IF Committed THEN rewards = {handler.st.winnerId}
                                  ELSE ResultsAgree

\* Without a fault somebody will bring the pending decision to an end or arm its timer.
TimerInv ==
    (faults = 0 /\ Running) =>
        \/ timer = decisionKeyFor(redis)
        \/ \E i \in 1..Len(queue) : queue[i] = TimeoutRequest(decisionKeyFor(redis))
        \/ handler.phase = "check" /\ handler.req = TimeoutRequest(decisionKeyFor(redis))
        \/ handler.phase \in {"record", "finish", "save", "publish"}

IInv ==
    /\ StoreInv /\ QueueInv /\ HandlerInv
    /\ LogInv /\ ResultInv /\ TimerInv

-----------------------------------------------------------------------------
\* The kinds of requests, and who may send which.
LEMMA RequestKinds ==
    ASSUME NEW req \in Request
    PROVE  /\ req.kind \in {"start", "select", "forfeit", "timeout"}
           /\ req.kind = "start" => req = StartRequest
           /\ req.kind = "select" => req.player \in Seat /\ req.statistic \in StatSchema
           /\ req.kind = "forfeit" => req.player \in Seat
           /\ req.kind = "timeout" => req.key \in Key /\ req = TimeoutRequest(req.key)
<1>1. CASE req = StartRequest
  BY <1>1 DEF StartRequest
<1>2. ASSUME NEW p \in Seat, NEW s \in StatSchema, req = SelectRequest(p, s)
      PROVE  req.kind = "select" /\ req.player = p /\ req.statistic = s
  BY <1>2 DEF SelectRequest
<1>3. ASSUME NEW p \in Seat, req = ForfeitRequest(p)
      PROVE  req.kind = "forfeit" /\ req.player = p
  BY <1>3 DEF ForfeitRequest
<1>4. ASSUME NEW key \in Key, req = TimeoutRequest(key)
      PROVE  req.kind = "timeout" /\ req.key = key
  BY <1>4 DEF TimeoutRequest
<1> QED BY <1>1, <1>2, <1>3, <1>4 DEF Request

\* What the clients and the timer send are requests, and none of them starts the match.
LEMMA SentRequests ==
    /\ \A p \in Seat, s \in StatSchema :
          SelectRequest(p, s) \in Request /\ SelectRequest(p, s).kind = "select"
    /\ \A p \in Seat : ForfeitRequest(p) \in Request /\ ForfeitRequest(p).kind = "forfeit"
    /\ \A key \in Key : TimeoutRequest(key) \in Request /\ TimeoutRequest(key).kind = "timeout"
<1>1. ASSUME NEW p \in Seat, NEW s \in StatSchema
      PROVE  SelectRequest(p, s) \in Request /\ SelectRequest(p, s).kind = "select"
  <2>1. SelectRequest(p, s).kind = "select" BY DEF SelectRequest
  <2>2. SelectRequest(p, s) \in {SelectRequest(q, t) : q \in Seat, t \in StatSchema} OBVIOUS
  <2> QED BY <2>1, <2>2 DEF Request
<1>2. ASSUME NEW p \in Seat
      PROVE  ForfeitRequest(p) \in Request /\ ForfeitRequest(p).kind = "forfeit"
  <2>1. ForfeitRequest(p).kind = "forfeit" BY DEF ForfeitRequest
  <2>2. ForfeitRequest(p) \in {ForfeitRequest(q) : q \in Seat} OBVIOUS
  <2> QED BY <2>1, <2>2 DEF Request
<1>3. ASSUME NEW key \in Key
      PROVE  TimeoutRequest(key) \in Request /\ TimeoutRequest(key).kind = "timeout"
  <2>1. TimeoutRequest(key).kind = "timeout" BY DEF TimeoutRequest
  <2>2. TimeoutRequest(key) \in {TimeoutRequest(k) : k \in Key} OBVIOUS
  <2> QED BY <2>1, <2>2 DEF Request
<1> QED BY <1>1, <1>2, <1>3

\* A decision of any state has a key.
LEMMA KeyType ==
    ASSUME NEW st \in StateType
    PROVE  decisionKeyFor(st) \in Key
<1>1. /\ st.currentPlayerId \in Seat /\ st.roundNumber \in Nat \ {0}
      /\ st.tieState.usedStatistics \in Seq(StatSchema)
  BY DEF StateType
<1> QED BY <1>1, LenProperties DEF decisionKeyFor, Key

\* An accepted request finds a match in play, and its effect is a good state again:
\* one event more unless it is a forfeit, lives lost only to the timer of this decision.
LEMMA AcceptedStep ==
    ASSUME NEW req \in Request, req.kind # "start", NEW st, GoodState(st), Accepts(req, st)
    PROVE  LET n == After(req, st)
           IN  /\ InPlay(st) /\ GoodState(n)
               /\ n.eventSequence = IF req.kind = "forfeit" THEN st.eventSequence
                                                            ELSE st.eventSequence + 1
               /\ n.roundNumber \in {st.roundNumber, st.roundNumber + 1}
               /\ req.kind # "timeout" => n.livesRemaining = st.livesRemaining
               /\ req.kind = "timeout" =>
                     /\ req.key = decisionKeyFor(st)
                     /\ n.livesRemaining = [st.livesRemaining EXCEPT ![st.currentPlayerId] = @ - 1]
<1> DEFINE n == After(req, st)
<1>1. st \in StateType BY DEF GoodState
<1>2. CASE req.kind = "select"
  <2>1. CanSelect(st, req.player, req.statistic) BY <1>2 DEF Accepts
  <2>2. InPlay(st) /\ req.player = st.currentPlayerId /\ req.statistic \in StatSchema
    BY <1>2, <2>1, RequestKinds DEF CanSelect, InPlay
  <2>3. CASE IsTie(st, req.statistic)
    <3>1. After(req, st) = AfterTie(st, req.statistic)
      BY <1>2, <2>3 DEF After, AfterSelect
    <3>2. /\ n.eventSequence = st.eventSequence + 1 /\ n.livesRemaining = st.livesRemaining
          /\ n.roundNumber = st.roundNumber
      <4> HIDE DEF n
      <4>1. LET m == AfterTie(st, req.statistic)
            IN  /\ m.eventSequence = st.eventSequence + 1
                /\ m.livesRemaining = st.livesRemaining /\ m.roundNumber = st.roundNumber
        BY <1>1, HandlersCount
      <4> QED BY <3>1, <4>1 DEF n
    <3>3. GoodState(n) BY <2>2, <3>1, TieStep
    <3> QED BY <1>2, <2>2, <3>2, <3>3
  <2>4. CASE ~IsTie(st, req.statistic)
    <3> DEFINE w == RoundWinner(st, st.currentPlayerId, req.statistic)
    <3>1. After(req, st) = AfterRound(st, w)
      BY <1>2, <2>2, <2>4 DEF After, AfterSelect
    <3>2. w \in Remaining(st) /\ w \in Seat
      BY <2>2, RoundWinnerRemains DEF Remaining
    <3> HIDE DEF w
    <3>3. /\ n.eventSequence = st.eventSequence + 1 /\ n.livesRemaining = st.livesRemaining
          /\ n.roundNumber \in {st.roundNumber, st.roundNumber + 1}
      BY <1>1, <3>1, <3>2, HandlersCount
    <3>4. GoodState(n) BY <2>2, <3>1, <3>2, RoundStep
    <3> QED BY <1>2, <2>2, <3>3, <3>4
  <2> QED BY <2>3, <2>4
<1>3. CASE req.kind = "forfeit"
  <2>1. CanForfeit(st, req.player) /\ After(req, st) = AfterForfeit(st, req.player)
    BY <1>3 DEF Accepts, After
  <2>2. InPlay(st) /\ req.player \in Remaining(st) /\ req.player \in Seat
    BY <1>3, <2>1, RequestKinds DEF CanForfeit, InPlay, Remaining
  <2>3. /\ n.eventSequence = st.eventSequence /\ n.livesRemaining = st.livesRemaining
        /\ n.roundNumber \in {st.roundNumber, st.roundNumber + 1}
    BY <1>1, <2>1, <2>2, HandlersCount
  <2>4. GoodState(n) BY <2>1, <2>2, ForfeitStep
  <2> QED BY <1>3, <2>2, <2>3, <2>4
<1>4. CASE req.kind = "timeout"
  <2>1. InPlay(st) /\ req.key = decisionKeyFor(st) /\ After(req, st) = AfterTimeout(st)
    BY <1>4 DEF Accepts, After, InPlay
  <2>2. /\ n.eventSequence = st.eventSequence + 1
        /\ n.livesRemaining = [st.livesRemaining EXCEPT ![st.currentPlayerId] = @ - 1]
        /\ n.roundNumber \in {st.roundNumber, st.roundNumber + 1}
    BY <1>1, <2>1, HandlersCount
  <2>3. GoodState(n) BY <2>1, TimeoutStep
  <2> QED BY <1>4, <2>1, <2>2, <2>3
<1> QED BY <1>2, <1>3, <1>4, RequestKinds

\* A tie grows by the statistic that was called; every other handler clears it.
LEMMA TieAfter ==
    ASSUME NEW req \in Request, req.kind # "start", NEW st, GoodState(st), Accepts(req, st)
    PROVE  LET n == After(req, st)
           IN  \/ n.tieState.usedStatistics = <<>>
               \/ /\ req.kind = "select"
                  /\ n.tieState.usedStatistics
                        = Append(st.tieState.usedStatistics, req.statistic)
<1> DEFINE n == After(req, st)
<1>1. st \in StateType BY DEF GoodState
<1>2. CASE req.kind = "select" /\ IsTie(st, req.statistic)
  <2>1. n = AfterTie(st, req.statistic) BY <1>2 DEF After, AfterSelect
  <2>2. AfterTie(st, req.statistic).tieState.usedStatistics
            = Append(st.tieState.usedStatistics, req.statistic)
    BY <1>1 DEF AfterTie, StateType
  <2> QED BY <1>2, <2>1, <2>2
<1>3. CASE req.kind = "select" /\ ~IsTie(st, req.statistic)
  <2> DEFINE w == RoundWinner(st, req.player, req.statistic)
  <2>1. n = AfterRound(st, w) BY <1>3 DEF After, AfterSelect
  <2> HIDE DEF w
  <2>2. AfterRound(st, w).tieState = NoTie
    BY <1>1 DEF AfterRound, Decided, NextTurn, StateType
  <2> QED BY <2>1, <2>2 DEF NoTie
<1>4. CASE req.kind = "forfeit"
  <2>1. n = AfterForfeit(st, req.player) BY <1>4 DEF After
  <2>2. AfterForfeit(st, req.player).tieState = NoTie
    BY <1>1 DEF AfterForfeit, Decided, NextTurn, StateType
  <2> QED BY <2>1, <2>2 DEF NoTie
<1>5. CASE req.kind = "timeout"
  <2>1. n = AfterTimeout(st) BY <1>5 DEF After
  <2>2. AfterTimeout(st).tieState = NoTie
    BY <1>1 DEF AfterTimeout, Decided, NextTurn, StateType
  <2> QED BY <2>1, <2>2 DEF NoTie
<1> QED BY <1>2, <1>3, <1>4, <1>5, RequestKinds

-----------------------------------------------------------------------------
\* An empty log tells the state of a match that has just been dealt.
LEMMA NothingToTell == Tells({}, InitialState(deck))
<1> DEFINE st == InitialState(deck)
<1>1. /\ st.tieState.usedStatistics = <<>>
      /\ \A p \in Seat : st.livesRemaining[p] = StartingLives
  BY DEF InitialState, NoTie
<1>2. TieTold({}, st) BY <1>1 DEF TieTold
<1>3. ASSUME NEW p \in Seat PROVE LivesTold({}, st, p)
  <2>1. TimedOut({}, p, st.eventSequence) = {} BY DEF TimedOut
  <2>2. st.livesRemaining[p] .. (StartingLives - 1) = {} BY <1>1, LivesAssumption
  <2> QED BY <2>1, <2>2 DEF LivesTold
<1> QED BY <1>2, <1>3 DEF Tells

\* A forfeit needs no row: it takes no life and ends the tie.
LEMMA ForfeitTold ==
    ASSUME NEW log, NEW st, NEW n, Tells(log, st),
           n.eventSequence = st.eventSequence, n.livesRemaining = st.livesRemaining,
           n.tieState.usedStatistics = <<>>
    PROVE  Tells(log, n)
<1>1. TieTold(log, n) BY DEF TieTold
<1>2. ASSUME NEW p \in Seat PROVE LivesTold(log, n, p)
  BY DEF Tells, LivesTold
<1> QED BY <1>1, <1>2 DEF Tells

\* The rows of the lives lost after one more row.
LEMMA TimedOutAfter ==
    ASSUME NEW log, NEW row, NEW p, NEW k \in Nat, row.sequence = k + 1,
           Sequences(log) \subseteq 1..k
    PROVE  TimedOut(log \cup {row}, p, k + 1)
             = TimedOut(log, p, k)
                 \cup (IF row.type = "turn_timed_out" /\ row.userId = p THEN {row} ELSE {})
<1>1. \A e \in log : e.sequence \in 1..k BY DEF Sequences
<1>2. \A e \in log : e.sequence <= k + 1 /\ e.sequence <= k BY <1>1
<1>3. row.sequence <= k + 1 OBVIOUS
<1> QED BY <1>2, <1>3 DEF TimedOut

\* A row with the next number tells the effect of the call or the timeout it is for.
LEMMA RowTold ==
    ASSUME NEW log, NEW req \in Request, req.kind \notin {"start", "forfeit"},
           NEW st, GoodState(st), Accepts(req, st),
           Sequences(log) \subseteq 1..st.eventSequence, Tells(log, st)
    PROVE  Tells(log \cup {EventRow(req, After(req, st))}, After(req, st))
<1> DEFINE n == After(req, st)
           row == EventRow(req, n)
           k == st.eventSequence
<1>1. st \in StateType /\ k \in Nat BY DEF GoodState, StateType
<1>2. /\ n \in StateType /\ n.eventSequence = k + 1 /\ InPlay(st)
      /\ req.kind # "timeout" => n.livesRemaining = st.livesRemaining
      /\ req.kind = "timeout" =>
            /\ req.key = decisionKeyFor(st)
            /\ n.livesRemaining = [st.livesRemaining EXCEPT ![st.currentPlayerId] = @ - 1]
  BY AcceptedStep DEF GoodState
<1>3. \/ n.tieState.usedStatistics = <<>>
      \/ /\ req.kind = "select"
         /\ n.tieState.usedStatistics = Append(st.tieState.usedStatistics, req.statistic)
  BY TieAfter
<1>4. req.kind \in {"select", "timeout"} BY RequestKinds
<1> HIDE DEF n
<1>5. row.sequence = k + 1 BY <1>2 DEF EventRow
<1>6. req.kind = "timeout" =>
        /\ row.type = "turn_timed_out" /\ row.userId = st.currentPlayerId
        /\ row.livesRemaining = n.livesRemaining[st.currentPlayerId]
  BY <1>2 DEF EventRow, decisionKeyFor
<1>7. req.kind = "select" => row.type = "comparison_result" /\ row.statistic = req.statistic
  BY DEF EventRow
<1> HIDE DEF row, k
<1>8. TieTold(log \cup {row}, n)
  <2>1. CASE n.tieState.usedStatistics = <<>> BY <2>1 DEF TieTold
  <2>2. CASE /\ req.kind = "select"
             /\ n.tieState.usedStatistics = Append(st.tieState.usedStatistics, req.statistic)
    <3> DEFINE used == st.tieState.usedStatistics
               more == n.tieState.usedStatistics
    <3>1. used \in Seq(StatSchema) BY <1>1 DEF StateType
    <3>2. req.statistic \in StatSchema BY <2>2, RequestKinds
    <3>3. more = Append(used, req.statistic) BY <2>2
    <3>4. /\ Len(used) \in Nat /\ Len(more) = Len(used) + 1
          /\ \A i \in 1..Len(used) : more[i] = used[i]
          /\ more[Len(used) + 1] = req.statistic
      BY <3>1, <3>2, <3>3, AppendProperties, LenProperties
    <3>5. \A i \in 1..Len(used) : \E e \in log : /\ e.sequence = k - Len(used) + i
                                                /\ e.type = "comparison_result"
                                                /\ e.statistic = used[i]
      BY DEF Tells, TieTold, k
    <3> HIDE DEF used, more
    <3>6. ASSUME NEW i \in 1..Len(more)
          PROVE  \E e \in log \cup {row} : /\ e.sequence = n.eventSequence - Len(more) + i
                                           /\ e.type = "comparison_result"
                                           /\ e.statistic = more[i]
      <4>1. n.eventSequence - Len(more) + i = k - Len(used) + i BY <1>1, <1>2, <3>4
      <4>2. CASE i = Len(used) + 1
        <5>1. k - Len(used) + i = k + 1 BY <1>1, <3>4, <4>2
        <5> QED BY <1>5, <1>7, <2>2, <3>4, <4>1, <4>2, <5>1
      <4>3. CASE i # Len(used) + 1
        <5>1. i \in 1..Len(used) BY <3>4, <4>3
        <5>2. PICK e \in log : /\ e.sequence = k - Len(used) + i
                               /\ e.type = "comparison_result"
                               /\ e.statistic = used[i]
          BY <3>5, <5>1
        <5> QED BY <3>4, <4>1, <5>1, <5>2
      <4> QED BY <4>2, <4>3
    <3> QED BY <3>6 DEF TieTold, more
  <2> QED BY <1>3, <2>1, <2>2
<1>9. ASSUME NEW p \in Seat PROVE LivesTold(log \cup {row}, n, p)
  <2> DEFINE lost == row.type = "turn_timed_out" /\ row.userId = p
             old == TimedOut(log, p, k)
             new == TimedOut(log \cup {row}, p, k + 1)
  <2>1. new = old \cup (IF lost THEN {row} ELSE {})
    BY <1>1, <1>5, TimedOutAfter DEF k
  <2>2. /\ {e.livesRemaining : e \in old} = st.livesRemaining[p] .. (StartingLives - 1)
        /\ \A e, f \in old : e.livesRemaining = f.livesRemaining => e = f
    BY DEF Tells, LivesTold, k
  <2>3. /\ st.livesRemaining[p] \in 0..StartingLives /\ st.currentPlayerId \in Seat
        /\ n.livesRemaining[p] \in 0..StartingLives
        /\ st.livesRemaining \in [Seat -> 0..StartingLives]
    BY <1>1, <1>2 DEF StateType
  <2> SUFFICES /\ {e.livesRemaining : e \in new} = n.livesRemaining[p] .. (StartingLives - 1)
               /\ \A e, f \in new : e.livesRemaining = f.livesRemaining => e = f
    BY <1>2 DEF LivesTold
  <2> HIDE DEF old, new
  <2>4. CASE ~lost
    <3>1. n.livesRemaining[p] = st.livesRemaining[p]
      <4>1. CASE req.kind = "select" BY <1>2, <4>1
      <4>2. CASE req.kind = "timeout"
        <5>1. p # st.currentPlayerId BY <1>6, <2>4, <4>2
        <5> QED BY <1>2, <2>3, <4>2, <5>1
      <4> QED BY <1>4, <4>1, <4>2
    <3>2. new = old BY <2>1, <2>4
    <3> QED BY <2>2, <3>1, <3>2
  <2>5. CASE lost
    <3>1. req.kind = "timeout" BY <1>4, <1>7, <2>5
    <3>2. p = st.currentPlayerId BY <1>6, <2>5, <3>1
    <3>3. n.livesRemaining[p] = st.livesRemaining[p] - 1
      BY <1>2, <2>3, <3>1, <3>2
    <3>4. row.livesRemaining = n.livesRemaining[p] BY <1>6, <3>1, <3>2
    <3>5. new = old \cup {row} BY <2>1, <2>5
    <3>6. {e.livesRemaining : e \in new}
             = {e.livesRemaining : e \in old} \cup {n.livesRemaining[p]}
      BY <3>4, <3>5
    <3>7. n.livesRemaining[p] .. (StartingLives - 1)
             = (st.livesRemaining[p] .. (StartingLives - 1)) \cup {n.livesRemaining[p]}
      BY <2>3, <3>3, LivesAssumption
    <3>8. \A e \in old : e.livesRemaining \in st.livesRemaining[p] .. (StartingLives - 1)
      BY <2>2
    <3>9. \A e \in old : e.livesRemaining # row.livesRemaining
      BY <2>3, <3>3, <3>4, <3>8
    <3> QED BY <2>2, <3>5, <3>6, <3>7, <3>9
  <2> QED BY <2>4, <2>5
<1> QED BY <1>8, <1>9 DEF Tells, row, n

-----------------------------------------------------------------------------
\* A request joins the queue at its end.
LEMMA Enqueue ==
    ASSUME queue \in Seq(Request), NEW req \in Request, queue' = Append(queue, req)
    PROVE  /\ queue' \in Seq(Request) /\ Len(queue') = Len(queue) + 1 /\ Len(queue) \in Nat
           /\ \A i \in 1..Len(queue) : queue'[i] = queue[i]
           /\ queue'[Len(queue) + 1] = req
  BY AppendProperties, LenProperties

\* The first of the queue gets the lock, the others move up.
LEMMA Dequeue ==
    ASSUME queue \in Seq(Request), queue # <<>>, queue' = Tail(queue)
    PROVE  /\ queue' \in Seq(Request) /\ Len(queue') = Len(queue) - 1 /\ Len(queue) \in Nat
           /\ Head(queue) \in Request /\ Head(queue) = queue[1] /\ 1 \in 1..Len(queue)
           /\ \A i \in 1..Len(queue') : queue'[i] = queue[i + 1]
<1>1. Head(queue) = queue[1] BY DEF Head
<1>2. Len(queue) \in Nat \ {0} BY EmptySeq
<1> QED BY <1>1, <1>2, HeadTailProperties

\* Between its guards and its save a handler has in its hands a good state, its effect
\* on the match in play that is saved; only the start of the match finds none.
LEMMA InHand ==
    ASSUME IInv, handler.phase \in {"record", "finish", "save"}
    PROVE  LET st == handler.st
           IN  /\ handler.req \in Request /\ GoodState(st) /\ st # NoState
               /\ handler.req.kind = "start" =>
                     /\ handler.phase = "save" /\ redis = NoState /\ st = InitialState(deck)
                     /\ st.status # "GAME_FINISHED" /\ st.eventSequence = 0
               /\ handler.req.kind # "start" =>
                     /\ redis # NoState /\ InPlay(redis)
                     /\ Accepts(handler.req, redis) /\ st = After(handler.req, redis)
                     /\ redis.eventSequence \in Nat
                     /\ st.eventSequence = IF handler.req.kind = "forfeit"
                                           THEN redis.eventSequence ELSE redis.eventSequence + 1
<1> DEFINE st == handler.st
<1>1. handler.req \in Request
  BY DEF IInv, HandlerInv, HandlerType, Idle
<1>2. ASSUME handler.req.kind = "start"
      PROVE  /\ handler.phase = "save" /\ redis = NoState /\ st = InitialState(deck)
             /\ st.status # "GAME_FINISHED" /\ st.eventSequence = 0 /\ GoodState(st)
  <2>1. handler.phase = "save" /\ redis = NoState /\ st = InitialState(deck) /\ deck \in Shuffled
    BY <1>2 DEF IInv, HandlerInv, StoreInv
  <2>2. InPlay(st) BY <2>1, StartIsGood
  <2>3. st.eventSequence = 0 BY <2>1 DEF InitialState
  <2> QED BY <2>1, <2>2, <2>3 DEF InPlay
<1>3. ASSUME handler.req.kind # "start"
      PROVE  /\ redis # NoState /\ InPlay(redis) /\ GoodState(st)
             /\ Accepts(handler.req, redis) /\ st = After(handler.req, redis)
             /\ redis.eventSequence \in Nat
             /\ st.eventSequence = IF handler.req.kind = "forfeit"
                                   THEN redis.eventSequence ELSE redis.eventSequence + 1
  <2>1. Accepts(handler.req, redis) /\ st = After(handler.req, redis)
    BY <1>3 DEF IInv, HandlerInv
  <2>2. redis # NoState /\ GoodState(redis)
    BY <2>1 DEF IInv, StoreInv, Accepts
  <2>3. redis.eventSequence \in Nat BY <2>2 DEF GoodState, StateType
  <2> HIDE DEF st
  <2> QED BY <1>1, <1>3, <2>1, <2>2, <2>3, AcceptedStep
<1>4. GoodState(st) => st # NoState
  BY EngineAssumption DEF GoodState
<1> QED BY <1>1, <1>2, <1>3, <1>4

-----------------------------------------------------------------------------
\* A message or an expired timer queues up behind the handler and changes nothing else.
LEMMA QueueStep ==
    ASSUME IInv, NEW req \in Request, req.kind # "start", queue' = Append(queue, req),
           UNCHANGED <<deck, redis, handler, events, game, rewards, faults>>,
           timer' = timer \/ (timer' = NoTimer /\ req = TimeoutRequest(timer))
    PROVE  IInv'
<1>1. /\ queue' \in Seq(Request) /\ Len(queue') = Len(queue) + 1 /\ Len(queue) \in Nat
      /\ \A i \in 1..Len(queue) : queue'[i] = queue[i]
      /\ queue'[Len(queue) + 1] = req
  BY Enqueue DEF IInv, QueueInv
<1>2. StoreInv' BY DEF IInv, StoreInv
<1>3. QueueInv' BY <1>1 DEF IInv, QueueInv
<1>4. HandlerInv' BY DEF IInv, HandlerInv, HandlerType
<1>5. LogInv' BY DEF IInv, LogInv
<1>6. ResultInv' BY DEF IInv, ResultInv, ResultsAgree, Over, Committed
<1>7. TimerInv'
  <2> SUFFICES ASSUME TimerInv, faults = 0, Running PROVE TimerInv'
    BY DEF IInv, TimerInv, Running
  <2> DEFINE key == decisionKeyFor(redis)
  <2>1. CASE timer = key /\ timer' # timer
    <3>1. queue'[Len(queue) + 1] = TimeoutRequest(key) /\ Len(queue) + 1 \in 1..Len(queue')
      BY <1>1, <2>1
    <3> QED BY <3>1 DEF TimerInv
  <2>2. CASE timer = key /\ timer' = timer
    BY <2>2 DEF TimerInv
  <2>3. ASSUME NEW i \in 1..Len(queue), queue[i] = TimeoutRequest(key) PROVE TimerInv'
    <3>1. i \in 1..Len(queue') /\ queue'[i] = TimeoutRequest(key) BY <1>1, <2>3
    <3> QED BY <3>1 DEF TimerInv
  <2> QED BY <2>1, <2>2, <2>3 DEF TimerInv
<1> QED BY <1>2, <1>3, <1>4, <1>5, <1>6, <1>7 DEF IInv

\* The next handler gets the lock and loads what is saved.
LEMMA BeginStep ==
    ASSUME IInv, Begin
    PROVE  IInv'
<1>1. /\ queue' \in Seq(Request) /\ Len(queue') = Len(queue) - 1 /\ Len(queue) \in Nat
      /\ Head(queue) \in Request /\ Head(queue) = queue[1] /\ 1 \in 1..Len(queue)
      /\ \A i \in 1..Len(queue') : queue'[i] = queue[i + 1]
  BY Dequeue DEF IInv, QueueInv, Begin
<1>2. /\ handler = Idle /\ handler' = Handling("check", Head(queue), redis)
      /\ UNCHANGED <<deck, redis, timer, events, game, rewards, requests, faults>>
  BY DEF Begin
<1>3. /\ handler'.phase = "check" /\ handler'.req = Head(queue) /\ handler'.st = redis
      /\ handler.phase = "idle"
  BY <1>2 DEF Handling, Idle
<1>4. redis \in StoredState BY DEF IInv, StoreInv, GoodState, StoredState
<1>5. StoreInv' BY <1>2 DEF IInv, StoreInv
<1>6. QueueInv'
  <2>1. \A i \in 1..Len(queue') : i + 1 \in 1..Len(queue) /\ i + 1 # 1 BY <1>1
  <2> QED BY <1>1, <2>1 DEF IInv, QueueInv
<1>7. HandlerInv'
  <2>1. HandlerType' BY <1>1, <1>2, <1>4 DEF HandlerType, Handling
  <2>2. Head(queue).kind = "start" => redis = NoState BY <1>1 DEF IInv, QueueInv
  <2> QED BY <1>2, <1>3, <2>1, <2>2 DEF HandlerInv
<1>8. LogInv' BY <1>2, <1>3 DEF IInv, LogInv
<1>9. ResultInv' BY <1>2, <1>3 DEF IInv, ResultInv, ResultsAgree, Over, Committed
<1>10. TimerInv'
  <2> SUFFICES ASSUME TimerInv, faults = 0, Running PROVE TimerInv'
    BY <1>2 DEF IInv, TimerInv, Running
  <2> DEFINE key == decisionKeyFor(redis)
  <2>1. CASE timer = key BY <1>2, <2>1 DEF TimerInv
  <2>2. ASSUME NEW i \in 1..Len(queue), queue[i] = TimeoutRequest(key) PROVE TimerInv'
    <3>1. CASE i = 1 BY <1>1, <1>2, <1>3, <2>2, <3>1 DEF TimerInv
    <3>2. CASE i # 1
      <4>1. i - 1 \in 1..Len(queue') /\ queue'[i - 1] = TimeoutRequest(key)
        BY <1>1, <2>2, <3>2
      <4> QED BY <1>2, <4>1 DEF TimerInv
    <3> QED BY <3>1, <3>2
  <2> QED BY <1>3, <2>1, <2>2 DEF TimerInv
<1> QED BY <1>5, <1>6, <1>7, <1>8, <1>9, <1>10 DEF IInv

\* A handler whose guards fail leaves the match as it is; a timeout for the pending
\* decision is never refused.
LEMMA RejectStep ==
    ASSUME IInv, Reject
    PROVE  IInv'
<1>1. /\ handler.phase = "check" /\ handler' = Idle /\ handler'.phase = "idle"
      /\ ~Accepts(handler.req, redis)
      /\ UNCHANGED <<deck, redis, queue, timer, events, game, rewards, requests, faults>>
  BY DEF Reject, Idle, IInv, HandlerInv
<1>2. StoreInv' BY <1>1 DEF IInv, StoreInv
<1>3. QueueInv' BY <1>1 DEF IInv, QueueInv
<1>4. HandlerInv' BY <1>1 DEF HandlerInv, HandlerType
<1>5. LogInv' BY <1>1 DEF IInv, LogInv
<1>6. ResultInv' BY <1>1 DEF IInv, ResultInv, ResultsAgree, Over, Committed
<1>7. TimerInv'
  <2>1. ASSUME Running, handler.req = TimeoutRequest(decisionKeyFor(redis)) PROVE FALSE
    <3>1. handler.req.kind = "timeout" /\ handler.req.key = decisionKeyFor(redis)
      BY <2>1 DEF TimeoutRequest
    <3> QED BY <1>1, <2>1, <3>1 DEF Accepts, Running
  <2> QED BY <1>1, <2>1 DEF IInv, TimerInv, Running
<1> QED BY <1>2, <1>3, <1>4, <1>5, <1>6, <1>7 DEF IInv

\* doStartGame has dealt: the first state is in hand.
LEMMA CheckStartStep ==
    ASSUME IInv, CheckStart
    PROVE  IInv'
<1>1. /\ handler.phase = "check" /\ handler.req.kind = "start" /\ handler.req \in Request
      /\ redis = NoState
      /\ game' = "IN_PROGRESS" /\ handler' = Handling("save", handler.req, InitialState(deck))
      /\ UNCHANGED <<deck, redis, queue, timer, events, rewards, requests, faults>>
  BY DEF CheckStart, Checking, IInv, HandlerInv, HandlerType, Idle
<1>2. InPlay(InitialState(deck)) /\ InitialState(deck).eventSequence = 0
  BY StartIsGood DEF IInv, StoreInv, InitialState
<1>3. /\ handler'.phase = "save" /\ handler'.req = handler.req /\ handler'.st = InitialState(deck)
  BY <1>1 DEF Handling
<1>4. StoreInv' BY <1>1 DEF IInv, StoreInv
<1>5. QueueInv' BY <1>1 DEF IInv, QueueInv, Idle
<1>6. HandlerInv'
  <2>1. InitialState(deck) \in StoredState BY <1>2 DEF InPlay, GoodState, StoredState
  <2>2. HandlerType' BY <1>1, <2>1 DEF HandlerType, Handling
  <2> QED BY <1>1, <1>3, <2>2 DEF HandlerInv
<1>7. LogInv'
  <2>1. events = {} /\ events' = {} BY <1>1 DEF IInv, LogInv
  <2>2. Tells(events', InitialState(deck)) BY <2>1, NothingToTell
  <2> QED BY <1>1, <1>2, <1>3, <2>1, <2>2 DEF LogInv
<1>8. ResultInv' BY <1>1, <1>2, <1>3 DEF IInv, ResultInv, ResultsAgree, Over, Committed, InPlay
<1>9. TimerInv' BY <1>1 DEF TimerInv, Running
<1> QED BY <1>4, <1>5, <1>6, <1>7, <1>8, <1>9 DEF IInv

\* A request that is accepted has its effect computed; what is saved stays.
LEMMA AcceptStep ==
    ASSUME IInv, handler.phase = "check", handler.req.kind # "start",
           Accepts(handler.req, handler.st),
           NEW phase \in {"record", "finish", "save"},
           phase = "record" => handler.req.kind # "forfeit",
           phase # "record" => handler.req.kind = "forfeit",
           phase = "finish" <=>
                phase # "record" /\ After(handler.req, handler.st).status = "GAME_FINISHED",
           handler' = Handling(phase, handler.req, After(handler.req, handler.st)),
           timer' \in {timer, NoTimer},
           UNCHANGED <<deck, redis, queue, events, game, rewards, requests, faults>>
    PROVE  IInv'
<1> DEFINE req == handler.req
           n == After(req, redis)
<1>1. handler.st = redis /\ handler # Idle /\ req \in Request /\ redis # NoState
      /\ Accepts(req, redis) /\ GoodState(redis)
  <2>1. handler # Idle /\ handler.st = redis BY DEF IInv, HandlerInv, Idle
  <2>2. req \in Request BY <2>1 DEF IInv, HandlerInv, HandlerType
  <2>3. Accepts(req, redis) BY <2>1
  <2>4. redis # NoState BY <2>3 DEF Accepts
  <2> QED BY <2>1, <2>2, <2>3, <2>4 DEF IInv, StoreInv
<1>2. InPlay(redis) /\ GoodState(n)
      /\ n.eventSequence = IF req.kind = "forfeit" THEN redis.eventSequence
                                                   ELSE redis.eventSequence + 1
  BY <1>1, AcceptedStep
<1>3. handler'.phase = phase /\ handler'.req = req /\ handler'.st = n
  BY <1>1 DEF Handling
<1>4. redis.eventSequence \in Nat BY <1>1 DEF GoodState, StateType
<1>5. handler' = Handling(phase, req, n) BY <1>1
<1>6. phase = "finish" <=> phase # "record" /\ n.status = "GAME_FINISHED" BY <1>1
<1> HIDE DEF n
<1>7. StoreInv' BY DEF IInv, StoreInv
<1>8. QueueInv' BY <1>1 DEF IInv, QueueInv
<1>9. HandlerInv'
  <2>1. n \in StoredState BY <1>2 DEF GoodState, StoredState
  <2>2. HandlerType' BY <1>1, <1>5, <2>1 DEF HandlerType, Handling
  <2> QED BY <1>1, <1>3, <1>6, <2>2 DEF HandlerInv, n
<1>10. LogInv'
  <2>1. /\ 1..redis.eventSequence \subseteq Sequences(events)
        /\ Sequences(events) \subseteq 1..(redis.eventSequence + 1)
        /\ Tells(events, redis)
        /\ faults = 0 => Sequences(events) = 1..redis.eventSequence
    BY <1>1 DEF IInv, LogInv
  <2>2. handler'.phase \in {"finish", "save"} =>
          n.eventSequence = redis.eventSequence /\ Tells(events, n)
    <3> SUFFICES ASSUME phase # "record"
                 PROVE  n.eventSequence = redis.eventSequence /\ Tells(events, n)
      BY <1>3
    <3>1. req.kind = "forfeit" OBVIOUS
    <3>2. n.tieState.usedStatistics = <<>> BY <1>1, <3>1, TieAfter DEF n
    <3>3. n.livesRemaining = redis.livesRemaining BY <1>1, <3>1, AcceptedStep DEF n
    <3> QED BY <1>2, <2>1, <3>1, <3>2, <3>3, ForfeitTold
  <2> QED BY <1>1, <1>3, <2>1, <2>2 DEF LogInv
<1>11. ResultInv'
  <2>1. ~Committed' BY <1>3, <1>6 DEF Committed
  <2> QED BY <1>1, <2>1 DEF IInv, ResultInv, ResultsAgree, Over, Committed
<1>12. TimerInv' BY <1>3 DEF TimerInv
<1> QED BY <1>7, <1>8, <1>9, <1>10, <1>11, <1>12 DEF IInv

\* Every accepted call, timeout and forfeit.
LEMMA CheckStep ==
    ASSUME IInv, CheckSelect \/ CheckTimeout \/ CheckForfeit
    PROVE  IInv'
<1>1. CASE CheckSelect
  <2>1. After(handler.req, handler.st)
            = AfterSelect(handler.st, handler.req.player, handler.req.statistic)
    BY <1>1 DEF CheckSelect, Checking, After
  <2> QED BY <1>1, <2>1, AcceptStep DEF CheckSelect, Checking
<1>2. CASE CheckTimeout
  <2>1. After(handler.req, handler.st) = AfterTimeout(handler.st)
    BY <1>2 DEF CheckTimeout, Checking, After
  <2> QED BY <1>2, <2>1, AcceptStep DEF CheckTimeout, Checking
<1>3. CASE CheckForfeit
  <2> DEFINE n == After(handler.req, handler.st)
  <2>1. n = AfterForfeit(handler.st, handler.req.player) /\ handler.req.kind = "forfeit"
    BY <1>3 DEF CheckForfeit, Checking, After
  <2>2. handler' = Handling(NextPhase(n), handler.req, n)
    BY <1>3, <2>1 DEF CheckForfeit
  <2> HIDE DEF n
  <2>3. PICK phase \in {"finish", "save"} : phase = NextPhase(n)
    BY DEF NextPhase
  <2>4. phase = "finish" <=> n.status = "GAME_FINISHED"
    BY <2>3 DEF NextPhase
  <2> QED BY <1>3, <2>1, <2>2, <2>3, <2>4, AcceptStep DEF CheckForfeit, Checking, n
<1> QED BY <1>1, <1>2, <1>3

\* The event is written, for the sequence number that follows what is saved.
LEMMA RecordStep ==
    ASSUME IInv, RecordEvent
    PROVE  IInv'
<1> DEFINE st == handler.st
<1>1. /\ handler.phase = "record" /\ st.eventSequence \notin Sequences(events)
      /\ events' = events \cup {EventRow(handler.req, st)}
      /\ handler' = [handler EXCEPT !.phase = NextPhase(st)]
      /\ UNCHANGED <<deck, redis, queue, timer, game, rewards, requests, faults>>
  BY DEF RecordEvent
<1>2. /\ handler.req \in Request /\ handler.req.kind \notin {"start", "forfeit"}
      /\ redis # NoState /\ InPlay(redis) /\ redis.eventSequence \in Nat
      /\ Accepts(handler.req, redis) /\ st = After(handler.req, redis)
      /\ st.eventSequence = redis.eventSequence + 1
  BY <1>1, InHand DEF IInv, HandlerInv
<1>3. /\ handler \in [phase : {"check", "record", "finish", "save", "publish"},
                      req : Request, st : StoredState]
  BY <1>1 DEF IInv, HandlerInv, HandlerType, Idle
<1>4. NextPhase(st) \in {"finish", "save"} /\ (NextPhase(st) = "finish" <=> st.status = "GAME_FINISHED")
  BY DEF NextPhase
<1>5. /\ handler'.phase = NextPhase(st) /\ handler'.req = handler.req /\ handler'.st = st
      /\ handler' \in [phase : {"check", "record", "finish", "save", "publish"},
                       req : Request, st : StoredState]
  BY <1>1, <1>3, <1>4
<1>6. StoreInv' BY <1>1 DEF IInv, StoreInv
<1>7. QueueInv' BY <1>1, <1>2 DEF IInv, QueueInv
<1>8. HandlerInv' BY <1>1, <1>2, <1>4, <1>5 DEF IInv, HandlerInv, HandlerType
<1>9. LogInv'
  <2> DEFINE row == EventRow(handler.req, st)
             k == redis.eventSequence
  <2>1. /\ 1..k \subseteq Sequences(events) /\ Sequences(events) \subseteq 1..(k + 1)
        /\ Tells(events, redis)
    BY <1>1, <1>2 DEF IInv, LogInv
  <2>2. row.sequence = k + 1 BY <1>2 DEF EventRow
  <2>3. Sequences(events) = 1..k
    <3>1. k + 1 \notin Sequences(events) /\ k \in Nat BY <1>1, <1>2
    <3> HIDE DEF k
    <3>2. ASSUME NEW i \in Sequences(events) PROVE i \in 1..k
      <4>1. i \in 1..(k + 1) /\ i # k + 1 BY <2>1, <3>1
      <4> QED BY <3>1, <4>1
    <3> QED BY <2>1, <3>2
  <2>4. Tells(events', st)
    <3>1. GoodState(redis) BY <1>2 DEF IInv, StoreInv
    <3> QED BY <1>1, <1>2, <2>1, <2>3, <3>1, RowTold
  <2>5. Tells(events', redis)
    <3>1. \A e \in events : e.sequence \in 1..k BY <2>3 DEF Sequences
    <3> HIDE DEF row
    <3>2. TieTold(events', redis)
      BY <1>1, <2>1 DEF Tells, TieTold, row
    <3>3. ASSUME NEW p \in Seat PROVE LivesTold(events', redis, p)
      <4>1. ~(row.sequence <= k) BY <1>2, <2>2
      <4>2. TimedOut(events', p, k) = TimedOut(events, p, k)
        BY <1>1, <4>1 DEF TimedOut, row
      <4> QED BY <2>1, <4>2 DEF Tells, LivesTold
    <3> QED BY <3>2, <3>3 DEF Tells
  <2>6. Sequences(events') = 1..(k + 1)
    <3> HIDE DEF row
    <3>1. Sequences(events') = Sequences(events) \cup {row.sequence}
      BY <1>1 DEF Sequences, row
    <3> QED BY <1>2, <2>2, <2>3, <3>1
  <2>7. /\ redis' = redis /\ redis' # NoState /\ redis'.eventSequence = k /\ k \in Nat
        /\ handler'.phase \in {"finish", "save"} /\ handler'.st = st
        /\ st.eventSequence = k + 1
    BY <1>1, <1>2, <1>4, <1>5
  <2> HIDE DEF st, k
  <2>8. 1..k \subseteq 1..(k + 1) BY <2>7
  <2> QED BY <2>4, <2>5, <2>6, <2>7, <2>8 DEF LogInv
<1>10. ResultInv'
  <2>1. ~Committed /\ ~Committed' BY <1>1, <1>4, <1>5 DEF Committed
  <2> QED BY <1>1, <2>1 DEF IInv, ResultInv, ResultsAgree, Over
<1>11. TimerInv' BY <1>4, <1>5 DEF TimerInv
<1> QED BY <1>6, <1>7, <1>8, <1>9, <1>10, <1>11 DEF IInv

\* A row refused by the unique index ends the handler; without a fault there is none.
LEMMA RefusedStep ==
    ASSUME IInv, RecordEventRefused
    PROVE  IInv' /\ faults # 0
<1>1. /\ handler.phase = "record" /\ handler.st.eventSequence \in Sequences(events)
      /\ handler' = Idle /\ handler'.phase = "idle"
      /\ UNCHANGED <<deck, redis, queue, timer, events, game, rewards, requests, faults>>
  BY DEF RecordEventRefused, Idle
<1>2. faults # 0
  <2> SUFFICES ASSUME faults = 0 PROVE FALSE
    OBVIOUS
  <2>1. /\ redis # NoState /\ redis.eventSequence \in Nat
        /\ handler.st.eventSequence = redis.eventSequence + 1
    BY <1>1, InHand DEF IInv, HandlerInv
  <2>2. Sequences(events) = 1..redis.eventSequence BY <1>1, <2>1 DEF IInv, LogInv
  <2> QED BY <1>1, <2>1, <2>2
<1>3. StoreInv' BY <1>1 DEF IInv, StoreInv
<1>4. QueueInv' BY <1>1 DEF IInv, QueueInv
<1>5. HandlerInv' BY <1>1 DEF HandlerInv, HandlerType
<1>6. LogInv' BY <1>1, <1>2 DEF IInv, LogInv
<1>7. ResultInv' BY <1>1, <1>2 DEF IInv, ResultInv, Over, Committed
<1>8. TimerInv' BY <1>1, <1>2 DEF TimerInv
<1> QED BY <1>2, <1>3, <1>4, <1>5, <1>6, <1>7, <1>8 DEF IInv

\* The transaction of finishGame: the game is over and the winner paid before both show.
LEMMA FinishStep ==
    ASSUME IInv, FinishGame
    PROVE  IInv'
<1> DEFINE st == handler.st
<1>1. /\ handler.phase = "finish" /\ timer' = NoTimer /\ game' = "FINISHED"
      /\ rewards' = rewards \cup {st.winnerId}
      /\ handler' = [handler EXCEPT !.phase = "save"]
      /\ UNCHANGED <<deck, redis, queue, events, requests, faults>>
  BY DEF FinishGame
<1>2. /\ st.status = "GAME_FINISHED" /\ handler.req.kind # "start"
      /\ redis # NoState /\ InPlay(redis)
  BY <1>1, InHand DEF IInv, HandlerInv
<1>3. /\ handler \in [phase : {"check", "record", "finish", "save", "publish"},
                      req : Request, st : StoredState]
  BY <1>1 DEF IInv, HandlerInv, HandlerType, Idle
<1>4. /\ handler'.phase = "save" /\ handler'.req = handler.req /\ handler'.st = st
      /\ handler' \in [phase : {"check", "record", "finish", "save", "publish"},
                       req : Request, st : StoredState]
  BY <1>1, <1>3
<1>5. StoreInv' BY <1>1 DEF IInv, StoreInv
<1>6. QueueInv' BY <1>1, <1>2 DEF IInv, QueueInv
<1>7. HandlerInv' BY <1>1, <1>2, <1>4 DEF IInv, HandlerInv, HandlerType
<1>8. LogInv' BY <1>1, <1>4 DEF IInv, LogInv
<1>9. ResultInv'
  <2>1. ~Over /\ ~Committed BY <1>1, <1>2 DEF Over, InPlay, Committed
  <2>2. faults = 0 => rewards = {} BY <2>1 DEF IInv, ResultInv, ResultsAgree
  <2>3. ~Over' /\ Committed' BY <1>1, <1>2, <1>4, <2>1 DEF Over, Committed
  <2> QED BY <1>1, <1>4, <2>2, <2>3 DEF ResultInv
<1>10. TimerInv' BY <1>4 DEF TimerInv
<1> QED BY <1>5, <1>6, <1>7, <1>8, <1>9, <1>10 DEF IInv

\* What was in hand is saved.
LEMMA SaveStep ==
    ASSUME IInv, Save
    PROVE  IInv'
<1> DEFINE st == handler.st
<1>1. /\ handler.phase = "save" /\ redis' = st
      /\ handler' = [handler EXCEPT !.phase = "publish"]
      /\ UNCHANGED <<deck, queue, timer, events, game, rewards, requests, faults>>
  BY DEF Save
<1>2. /\ GoodState(st) /\ st # NoState
      /\ handler.req.kind = "start" =>
            redis = NoState /\ st.status # "GAME_FINISHED" /\ st.eventSequence = 0
      /\ handler.req.kind # "start" =>
            /\ redis # NoState /\ InPlay(redis) /\ redis.eventSequence \in Nat
            /\ st.eventSequence \in {redis.eventSequence, redis.eventSequence + 1}
  BY <1>1, InHand
<1>3. /\ handler \in [phase : {"check", "record", "finish", "save", "publish"},
                      req : Request, st : StoredState]
  BY <1>1 DEF IInv, HandlerInv, HandlerType, Idle
<1>4. /\ handler'.phase = "publish" /\ handler'.req = handler.req /\ handler'.st = st
      /\ handler' \in [phase : {"check", "record", "finish", "save", "publish"},
                       req : Request, st : StoredState]
  BY <1>1, <1>3
<1>5. StoreInv' BY <1>1, <1>2 DEF IInv, StoreInv
<1>6. QueueInv'
  <2>1. handler # Idle BY <1>1 DEF Idle
  <2> QED BY <1>1, <2>1 DEF IInv, QueueInv
<1>7. HandlerInv' BY <1>1, <1>2, <1>4 DEF HandlerInv, HandlerType
<1>8. LogInv'
  <2>1. st.eventSequence \in Nat BY <1>2 DEF GoodState, StateType
  <2>2. 1..st.eventSequence \subseteq Sequences(events) /\ Tells(events, st)
    BY <1>1 DEF IInv, LogInv
  <2>3. Sequences(events) \subseteq 1..(st.eventSequence + 1)
    <3>1. CASE handler.req.kind = "start"
      BY <1>2, <3>1 DEF IInv, LogInv, Sequences
    <3>2. CASE handler.req.kind # "start"
      <4>1. Sequences(events) \subseteq 1..(redis.eventSequence + 1)
        BY <1>2, <3>2 DEF IInv, LogInv
      <4>2. redis.eventSequence <= st.eventSequence /\ redis.eventSequence \in Nat
        BY <1>2, <3>2
      <4> QED BY <2>1, <4>1, <4>2
    <3> QED BY <3>1, <3>2
  <2>4. faults = 0 => Sequences(events) = 1..st.eventSequence
    <3>1. CASE handler.req.kind = "start"
      <4>1. Sequences(events) = {} /\ st.eventSequence = 0
        BY <1>2, <3>1 DEF IInv, LogInv, Sequences
      <4> QED BY <4>1
    <3>2. CASE handler.req.kind # "start"
      BY <1>1, <1>2, <3>2 DEF IInv, LogInv
    <3> QED BY <3>1, <3>2
  <2> HIDE DEF st
  <2> QED BY <1>1, <1>2, <1>4, <2>2, <2>3, <2>4 DEF LogInv
<1>9. ResultInv'
  <2>1. ~Over
    BY <1>2 DEF Over, InPlay
  <2>2. ~Committed' BY <1>4 DEF Committed
  <2>3. Over' <=> st.status = "GAME_FINISHED" BY <1>1, <1>2 DEF Over
  <2>4. Committed <=> st.status = "GAME_FINISHED" BY <1>1 DEF Committed
  <2> HIDE DEF st
  <2>5. CASE st.status = "GAME_FINISHED"
    <3>1. game = "FINISHED" /\ st.winnerId \in rewards /\ (faults = 0 => rewards = {st.winnerId})
      BY <2>4, <2>5 DEF IInv, ResultInv, st
    <3> QED BY <1>1, <2>2, <2>3, <2>5, <3>1 DEF ResultInv, ResultsAgree
  <2>6. CASE st.status # "GAME_FINISHED"
    <3>1. faults = 0 => game # "FINISHED" /\ rewards = {}
      BY <2>1, <2>4, <2>6 DEF IInv, ResultInv, ResultsAgree
    <3> QED BY <1>1, <2>2, <2>3, <2>6, <3>1 DEF ResultInv, ResultsAgree
  <2> QED BY <2>5, <2>6
<1>10. TimerInv' BY <1>4 DEF TimerInv
<1> QED BY <1>5, <1>6, <1>7, <1>8, <1>9, <1>10 DEF IInv

\* The handler ends by arming the timer for the decision that is pending now.
LEMMA PublishStep ==
    ASSUME IInv, Publish
    PROVE  IInv'
<1>1. /\ handler.phase = "publish" /\ handler' = Idle /\ handler'.phase = "idle"
      /\ handler.st = redis /\ redis # NoState
      /\ UNCHANGED <<deck, redis, queue, events, game, rewards, requests, faults>>
  BY DEF Publish, Idle, IInv, HandlerInv
<1>2. timer' = IF redis.status = "GAME_FINISHED" THEN timer ELSE decisionKeyFor(redis)
  BY <1>1 DEF Publish
<1>3. decisionKeyFor(redis) \in Key
  BY <1>1, KeyType DEF IInv, StoreInv, GoodState
<1>4. StoreInv' BY <1>1, <1>2, <1>3 DEF IInv, StoreInv
<1>5. QueueInv' BY <1>1 DEF IInv, QueueInv
<1>6. HandlerInv' BY <1>1 DEF HandlerInv, HandlerType
<1>7. LogInv' BY <1>1 DEF IInv, LogInv
<1>8. ResultInv' BY <1>1 DEF IInv, ResultInv, ResultsAgree, Over, Committed
<1>9. TimerInv' BY <1>1, <1>2 DEF TimerInv, Running
<1> QED BY <1>4, <1>5, <1>6, <1>7, <1>8, <1>9 DEF IInv

\* A throw ends the handler, a crash the queue and the timer too; what is stored stays.
LEMMA FaultStep ==
    ASSUME IInv, Fail \/ Crash
    PROVE  IInv'
<1>1. /\ handler' = Idle /\ handler'.phase = "idle" /\ faults' = faults + 1 /\ faults' # 0
      /\ queue' \in {queue, <<>>} /\ timer' \in {timer, NoTimer}
      /\ UNCHANGED <<deck, redis, events, game, rewards, requests>>
  BY DEF Fail, Crash, Idle, IInv, StoreInv
<1>2. StoreInv' BY <1>1 DEF IInv, StoreInv
<1>3. QueueInv'
  <2>1. CASE queue' = queue BY <1>1, <2>1 DEF IInv, QueueInv
  <2>2. CASE queue' = <<>> BY <2>2, EmptySeq DEF QueueInv
  <2> QED BY <1>1, <2>1, <2>2
<1>4. HandlerInv' BY <1>1 DEF HandlerInv, HandlerType
<1>5. LogInv' BY <1>1 DEF IInv, LogInv
<1>6. ResultInv' BY <1>1 DEF IInv, ResultInv, Over, Committed
<1>7. TimerInv' BY <1>1 DEF TimerInv
<1> QED BY <1>2, <1>3, <1>4, <1>5, <1>6, <1>7 DEF IInv

-----------------------------------------------------------------------------
\* startGame has been called, nothing is saved yet.
LEMMA InitHolds == Init => IInv
<1> SUFFICES ASSUME Init PROVE IInv
  OBVIOUS
<1>1. /\ handler = Idle /\ handler.phase = "idle" /\ redis = NoState
      /\ queue = <<StartRequest>>
  BY DEF Init, Idle
<1>2. StartRequest \in Request BY DEF Request
<1>3. QueueInv BY <1>1, <1>2 DEF QueueInv
<1>4. StoreInv BY DEF Init, StoreInv
<1>5. HandlerInv BY <1>1 DEF HandlerInv, HandlerType
<1>6. LogInv BY <1>1 DEF Init, LogInv
<1>7. ResultInv BY <1>1 DEF Init, ResultInv, ResultsAgree, Over, Committed
<1>8. TimerInv BY <1>1 DEF TimerInv, Running
<1> QED BY <1>3, <1>4, <1>5, <1>6, <1>7, <1>8 DEF IInv

\* Every step keeps the invariant.
LEMMA StepHolds == IInv /\ [Next]_vars => IInv'
<1> SUFFICES ASSUME IInv, [Next]_vars PROVE IInv'
  OBVIOUS
<1>1. ASSUME NEW p \in Seat, NEW s \in StatSchema, SendSelect(p, s) PROVE IInv'
  <2>1. SelectRequest(p, s) \in Request /\ SelectRequest(p, s).kind # "start"
    BY SentRequests
  <2> QED BY <1>1, <2>1, QueueStep DEF SendSelect, Send
<1>2. ASSUME NEW p \in Seat, SendForfeit(p) PROVE IInv'
  <2>1. ForfeitRequest(p) \in Request /\ ForfeitRequest(p).kind # "start"
    BY SentRequests
  <2> QED BY <1>2, <2>1, QueueStep DEF SendForfeit, Send
<1>3. CASE TimerFires
  <2>1. TimeoutRequest(timer) \in Request /\ TimeoutRequest(timer).kind # "start"
    BY <1>3, SentRequests DEF TimerFires, IInv, StoreInv
  <2> QED BY <1>3, <2>1, QueueStep DEF TimerFires
<1>4. CASE HandlerStep
  BY <1>4, BeginStep, RejectStep, CheckStartStep, CheckStep, RecordStep, RefusedStep,
     FinishStep, SaveStep, PublishStep DEF HandlerStep
<1>5. CASE Fail \/ Crash
  BY <1>5, FaultStep
<1>6. CASE UNCHANGED vars
  BY <1>6 DEF vars, IInv, StoreInv, QueueInv, HandlerInv, HandlerType, LogInv, ResultInv,
              ResultsAgree, Over, Committed, TimerInv, Running
<1> QED BY <1>1, <1>2, <1>3, <1>4, <1>5, <1>6 DEF Next

\* The invariant holds of every state the engine reaches, whatever fails.
THEOREM EngineInvariant == Spec => []IInv
  BY InitHolds, StepHolds, PTL DEF Spec

\* In every match, after any failures and crashes: none shows as over whose winner was
\* not paid, and without a fault Redis and Postgres agree whenever the engine is quiet.
THEOREM PaidBeforeShownHolds == Spec => []PaidBeforeShown
<1>1. IInv => PaidBeforeShown
  BY DEF IInv, ResultInv, PaidBeforeShown, Quiet, Committed, Idle
<1> QED BY <1>1, EngineInvariant, PTL

\* In every match and after any failures and crashes the rows that are written explain the
\* saved state: each life lost by one row, a pending tie by its calls, at most one row more.
THEOREM LogExplainsStateHolds == Spec => []LogExplainsState
<1>1. IInv => LogExplainsState
  BY DEF IInv, LogInv, LogExplainsState, Quiet, Idle
<1> QED BY <1>1, EngineInvariant, PTL

\* As long as nothing failed, a quiet engine has its timer pending for the decision the
\* match waits for.
THEOREM TimerGuardsUntilFault == Spec => [](faults = 0 => TimerGuardsDecision)
<1>1. IInv => (faults = 0 => TimerGuardsDecision)
  BY DEF IInv, TimerInv, TimerGuardsDecision, Quiet, Idle
<1> QED BY <1>1, EngineInvariant, PTL

\* GAME_RULES "the server owns the actual deadline": where no await throws and the
\* process does not die, no match ever waits without its timer.
THEOREM TimerGuardsDecisionHolds ==
    ASSUME ~MayFail, ~MayCrash
    PROVE  Spec => []TimerGuardsDecision
<1>1. Init => faults = 0
  BY DEF Init
<1>2. faults = 0 /\ [Next]_vars => (faults = 0)'
  BY DEF Next, vars, SendSelect, SendForfeit, Send, TimerFires, HandlerStep, Begin, Reject,
         CheckStart, CheckSelect, CheckTimeout, CheckForfeit, RecordEvent, RecordEventRefused,
         FinishGame, Save, Publish, Fail, Crash
<1>3. Spec => [](faults = 0)
  BY <1>1, <1>2, PTL DEF Spec
<1> QED BY <1>3, TimerGuardsUntilFault, PTL

\* Only saving changes what is saved.
LEMMA OnlySaveWrites ==
    ASSUME [Next]_vars, redis' # redis
    PROVE  Save
  BY DEF Next, vars, SendSelect, SendForfeit, Send, TimerFires, HandlerStep, Begin, Reject,
         CheckStart, CheckSelect, CheckTimeout, CheckForfeit, RecordEvent, RecordEventRefused,
         FinishGame, Publish, Fail, Crash

\* In every match, and with any failures: nobody loses a life but to the timer that was
\* armed for the decision pending when the loss is saved.
THEOREM LifeLostToOwnTimerHolds == Spec => LifeLostToOwnTimer
<1> DEFINE Loss ==
        (Running /\ redis' # redis /\ redis'.livesRemaining # redis.livesRemaining) =>
          /\ handler.req.kind = "timeout"
          /\ handler.req.key = decisionKeyFor(redis)
<1>1. IInv /\ [Next]_vars => [Loss]_vars
  <2> SUFFICES ASSUME IInv, [Next]_vars, Running, redis' # redis,
                      redis'.livesRemaining # redis.livesRemaining
               PROVE  handler.req.kind = "timeout" /\ handler.req.key = decisionKeyFor(redis)
    OBVIOUS
  <2>1. handler.phase = "save" /\ redis' = handler.st BY OnlySaveWrites DEF Save
  <2>2. handler.req \in Request /\ handler.req.kind # "start" /\ GoodState(redis)
    BY <2>1, InHand DEF Running, InPlay
  <2>3. Accepts(handler.req, redis) /\ handler.st = After(handler.req, redis)
    BY <2>1, <2>2 DEF IInv, HandlerInv
  <2>4. handler.req.kind = "timeout"
    <3> SUFFICES ASSUME handler.req.kind # "timeout" PROVE FALSE
      OBVIOUS
    <3>1. After(handler.req, redis).livesRemaining = redis.livesRemaining
      BY <2>2, <2>3, AcceptedStep
    <3> QED BY <2>1, <2>3, <3>1
  <2>5. handler.req.key = decisionKeyFor(redis)
    BY <2>3, <2>4 DEF Accepts
  <2> QED BY <2>4, <2>5
<1> QED BY <1>1, EngineInvariant, PTL DEF Spec, LifeLostToOwnTimer

-----------------------------------------------------------------------------
(***************************************************************************)
(* The refinement.  Match computes what a handler does with its own copy   *)
(* of GameState, which is this one.                                        *)
(***************************************************************************)
\* The guards and the effects of the match are those of the engine's handlers.
LEMMA SameHandlers ==
    /\ M!Shuffled = Shuffled
    /\ \A d : M!InitialState(d) = InitialState(d)
    /\ \A st, p, s : M!CanSelect(st, p, s) <=> CanSelect(st, p, s)
    /\ \A st, p : M!CanForfeit(st, p) <=> CanForfeit(st, p)
    /\ \A st, s : (M!IsTie(st, s) <=> IsTie(st, s)) /\ M!AfterTie(st, s) = AfterTie(st, s)
    /\ \A st, p, s : M!RoundWinner(st, p, s) = RoundWinner(st, p, s)
    /\ \A st, w : M!AfterRound(st, w) = AfterRound(st, w)
    /\ \A st : M!AfterTimeout(st) = AfterTimeout(st)
    /\ \A st, p : M!AfterForfeit(st, p) = AfterForfeit(st, p)
<1>1. M!Shuffled = Shuffled
    BY DEF M!Shuffled, Shuffled, M!NumDealt, NumDealt, M!Cardinality, Cardinality,
         M!IsFiniteSet, IsFiniteSet
<1>2. ASSUME NEW d PROVE M!InitialState(d) = InitialState(d)
    BY DEF M!InitialState, InitialState, M!Piles, Piles, M!PileSize, PileSize,
         M!NumDealt, NumDealt, M!Cardinality, Cardinality, M!NoTie, NoTie, M!NoSeat,
         NoSeat, M!Seat, Seat
<1>3. ASSUME NEW st, NEW p, NEW s PROVE M!CanSelect(st, p, s) <=> CanSelect(st, p, s)
    BY DEF M!CanSelect, CanSelect, M!AlreadyUsed, AlreadyUsed,
         M!isSelectableStatistic, isSelectableStatistic, M!NON_SELECTABLE_FIELDS,
         NON_SELECTABLE_FIELDS, M!ParsesAsBowlingFigure, ParsesAsBowlingFigure,
         M!TopCard, TopCard
<1>4. ASSUME NEW st, NEW p PROVE M!CanForfeit(st, p) <=> CanForfeit(st, p)
    BY DEF M!CanForfeit, CanForfeit
<1>5. ASSUME NEW st, NEW s
      PROVE  (M!IsTie(st, s) <=> IsTie(st, s)) /\ M!AfterTie(st, s) = AfterTie(st, s)
    BY DEF M!IsTie, IsTie, M!AfterTie, AfterTie, M!Winners, Winners,
         M!determineWinners, determineWinners, M!AtLeastAsGood, AtLeastAsGood,
         M!LOWER_IS_BETTER, LOWER_IS_BETTER, M!Values, Values, M!comparisonValue,
         comparisonValue, M!ParsesAsBowlingFigure, ParsesAsBowlingFigure,
         M!bowlingFigureScore, bowlingFigureScore, M!TopCard, TopCard,
         M!ComparisonPlayers, ComparisonPlayers, M!Remaining, Remaining, M!Seat, Seat,
         M!NoTie, NoTie
<1>6. ASSUME NEW st, NEW p, NEW s PROVE M!RoundWinner(st, p, s) = RoundWinner(st, p, s)
    BY DEF M!RoundWinner, RoundWinner, M!Winners, Winners, M!determineWinners,
         determineWinners, M!AtLeastAsGood, AtLeastAsGood, M!LOWER_IS_BETTER,
         LOWER_IS_BETTER, M!Values, Values, M!comparisonValue, comparisonValue,
         M!ParsesAsBowlingFigure, ParsesAsBowlingFigure, M!bowlingFigureScore,
         bowlingFigureScore, M!TopCard, TopCard, M!ComparisonPlayers,
         ComparisonPlayers, M!Remaining, Remaining, M!Seat, Seat, M!NoTie, NoTie
<1>7. ASSUME NEW st, NEW w PROVE M!AfterRound(st, w) = AfterRound(st, w)
    BY DEF M!AfterRound, AfterRound, M!PilesAfterRound, PilesAfterRound,
         M!CollectedCards, CollectedCards, M!RoundLosers, RoundLosers, M!SeatOrder,
         SeatOrder, M!SeatOrders, SeatOrders, M!Cardinality, Cardinality, M!Fallen,
         Fallen, M!TopCard, TopCard, M!Decided, Decided, M!NextTurn, NextTurn,
         M!OneLeft, OneLeft, M!Remaining, Remaining, M!Seat, Seat, M!NoTie, NoTie
<1>8. ASSUME NEW st PROVE M!AfterTimeout(st) = AfterTimeout(st)
    BY DEF M!AfterTimeout, AfterTimeout, M!NextPlayer, NextPlayer, M!LastPlayer,
         LastPlayer, M!IsOut, IsOut, M!MoveCards, MoveCards, M!TopCard, TopCard,
         M!Decided, Decided, M!NextTurn, NextTurn, M!OneLeft, OneLeft, M!Remaining,
         Remaining, M!Seat, Seat, M!NoTie, NoTie
<1>9. ASSUME NEW st, NEW p PROVE M!AfterForfeit(st, p) = AfterForfeit(st, p)
    BY DEF M!AfterForfeit, AfterForfeit, M!NextPlayer, NextPlayer, M!LastPlayer,
         LastPlayer, M!MoveCards, MoveCards, M!Decided, Decided, M!NextTurn, NextTurn,
         M!OneLeft, OneLeft, M!Remaining, Remaining, M!Seat, Seat, M!NoTie, NoTie
<1> QED BY <1>1, <1>2, <1>3, <1>4, <1>5, <1>6, <1>7, <1>8, <1>9

(***************************************************************************)
(* The match is refined up to MaxRound, which is no bound on the engine:   *)
(* every round that ends uses up a message of a client or a life.          *)
(***************************************************************************)
FromClient(req) == req.kind \in {"select", "forfeit"}

\* The clients' messages that wait for the lock, and the one that holds it.
Waiting == {i \in 1..Len(queue) : FromClient(queue[i])}
Served ==
    IF handler.phase \in {"check", "record", "finish", "save"} /\ FromClient(handler.req)
    THEN 1 ELSE 0

\* Each life that is left.
Lives(st) == {pair \in Seat \X (1..StartingLives) : pair[2] <= st.livesRemaining[pair[1]]}

Dealt == NumPlayers * StartingLives

BoundInv ==
    /\ requests \in 0..MaxRequests
    /\ Cardinality(Waiting) + Served <= requests
    /\ redis # NoState =>
          redis.roundNumber + Cardinality(Lives(redis)) + Cardinality(Waiting) + Served
             <= requests + Dealt + 1

\* The messages that wait are finitely many.
LEMMA WaitingFinite ==
    ASSUME IInv
    PROVE  /\ IsFiniteSet(Waiting) /\ Cardinality(Waiting) \in Nat
           /\ Len(queue) \in Nat
<1>1. Len(queue) \in Nat BY LenProperties DEF IInv, QueueInv
<1>2. IsFiniteSet(1..Len(queue)) BY <1>1, FS_Interval
<1>3. IsFiniteSet(Waiting) BY <1>2, FS_Subset DEF Waiting
<1> QED BY <1>1, <1>3, FS_CardinalityType

\* The lives left are finitely many, all of them at the start.
LEMMA LivesFinite ==
    /\ Dealt \in Nat
    /\ \A st : IsFiniteSet(Lives(st)) /\ Cardinality(Lives(st)) \in Nat
    /\ \A d : Cardinality(Lives(InitialState(d))) = Dealt
<1> DEFINE All == Seat \X (1..StartingLives)
<1>1. /\ IsFiniteSet(Seat) /\ Cardinality(Seat) = NumPlayers
      /\ IsFiniteSet(1..StartingLives) /\ Cardinality(1..StartingLives) = StartingLives
  BY FS_Interval, PlayersAssumption, LivesAssumption DEF Seat
<1>2. IsFiniteSet(All) /\ Cardinality(All) = Dealt
  BY <1>1, FS_Product DEF Dealt
<1>3. Dealt \in Nat BY <1>2, FS_CardinalityType
<1>4. ASSUME NEW st PROVE IsFiniteSet(Lives(st)) /\ Cardinality(Lives(st)) \in Nat
  BY <1>2, FS_Subset, FS_CardinalityType DEF Lives
<1>5. ASSUME NEW d PROVE Lives(InitialState(d)) = All
  BY DEF Lives, InitialState
<1> QED BY <1>2, <1>3, <1>4, <1>5

\* A timeout takes one of the lives left.
LEMMA LifeTaken ==
    ASSUME NEW st, NEW n, InPlay(st),
           n.livesRemaining = [st.livesRemaining EXCEPT ![st.currentPlayerId] = @ - 1]
    PROVE  Cardinality(Lives(n)) = Cardinality(Lives(st)) - 1
<1> DEFINE p == st.currentPlayerId
           k == st.livesRemaining[p]
<1>1. p \in Seat /\ k \in 1..StartingLives /\ st.livesRemaining \in [Seat -> 0..StartingLives]
  BY LivesAssumption DEF InPlay, GoodState, StateType, Remaining
<1>2. <<p, k>> \in Lives(st) BY <1>1 DEF Lives
<1>3. \A q \in Seat : n.livesRemaining[q] = IF q = p THEN k - 1 ELSE st.livesRemaining[q]
  BY <1>1
<1>4. ASSUME NEW q \in Seat, NEW l \in 1..StartingLives
      PROVE  <<q, l>> \in Lives(n) <=> <<q, l>> \in Lives(st) \ {<<p, k>>}
  <2>1. <<q, l>> \in Lives(n) <=> l <= n.livesRemaining[q] BY DEF Lives
  <2>2. <<q, l>> \in Lives(st) <=> l <= st.livesRemaining[q] BY DEF Lives
  <2>3. st.livesRemaining[q] \in Int BY <1>1
  <2>4. CASE q = p
    <3>1. n.livesRemaining[q] = k - 1 /\ st.livesRemaining[q] = k BY <1>3, <2>4
    <3>2. <<q, l>> = <<p, k>> <=> l = k BY <2>4
    <3> HIDE DEF k, p
    <3> QED BY <1>1, <2>1, <2>2, <3>1, <3>2
  <2>5. CASE q # p
    <3>1. n.livesRemaining[q] = st.livesRemaining[q] BY <1>3, <2>5
    <3> HIDE DEF k, p
    <3> QED BY <2>1, <2>2, <2>5, <3>1
  <2> QED BY <2>4, <2>5
<1>5. Lives(n) = Lives(st) \ {<<p, k>>}
  <2>1. Lives(n) \subseteq Seat \X (1..StartingLives) BY DEF Lives
  <2>2. Lives(st) \subseteq Seat \X (1..StartingLives) BY DEF Lives
  <2> HIDE DEF k, p
  <2> QED BY <1>4, <2>1, <2>2
<1>6. PICK x : x = <<p, k>>
  OBVIOUS
<1>7. IsFiniteSet(Lives(st)) BY LivesFinite
<1>8. Cardinality(Lives(st) \ {x}) = Cardinality(Lives(st)) - 1
  BY <1>2, <1>6, <1>7, FS_RemoveElement
<1> QED BY <1>5, <1>6, <1>8

\* The one that gets the lock waits no longer.
LEMMA WaitingShrinks ==
    ASSUME IInv, queue # <<>>, queue' = Tail(queue), IInv'
    PROVE  Cardinality(Waiting') + (IF FromClient(Head(queue)) THEN 1 ELSE 0)
              <= Cardinality(Waiting)
<1>1. /\ Len(queue') = Len(queue) - 1 /\ Len(queue) \in Nat /\ Head(queue) = queue[1]
      /\ 1 \in 1..Len(queue) /\ \A i \in 1..Len(queue') : queue'[i] = queue[i + 1]
  BY Dequeue DEF IInv, QueueInv
<1> DEFINE Others == Waiting \ {1}
           up == [i \in Waiting' |-> i + 1]
<1>2. up \in [Waiting' -> Others]
  BY <1>1 DEF Waiting
<1>3. Waiting' \subseteq Int BY <1>1 DEF Waiting
<1>4. up \in Injection(Waiting', Others)
  <2>1. \A i, j \in Waiting' : up[i] = up[j] => i = j BY <1>3
  <2> HIDE DEF up, Others
  <2> QED BY <1>2, <2>1, Fun_IsInj
<1>5. IsFiniteSet(Waiting) /\ Cardinality(Waiting) \in Nat BY WaitingFinite
<1>6. IsFiniteSet(Others)
      /\ Cardinality(Others) = IF 1 \in Waiting THEN Cardinality(Waiting) - 1 ELSE Cardinality(Waiting)
  BY <1>5, FS_RemoveElement
<1>7. Cardinality(Waiting') <= Cardinality(Others)
  <2> HIDE DEF up, Others
  <2> QED BY <1>4, <1>6, FS_Injection
<1>8. Cardinality(Waiting') \in Nat
  <2>1. IsFiniteSet(Waiting')
    <3> HIDE DEF up, Others
    <3> QED BY <1>4, <1>6, FS_Injection
  <2> QED BY <2>1, FS_CardinalityType
<1>9. 1 \in Waiting <=> FromClient(Head(queue)) BY <1>1 DEF Waiting
<1> HIDE DEF Others, up
<1> QED BY <1>5, <1>6, <1>7, <1>8, <1>9

\* After a step as before it, the messages that wait are finitely many.
LEMMA WaitingFiniteNext ==
    ASSUME IInv'
    PROVE  Cardinality(Waiting') \in Nat
<1>1. Len(queue') \in Nat BY LenProperties DEF IInv, QueueInv
<1>2. IsFiniteSet(1..Len(queue')) BY <1>1, FS_Interval
<1>3. IsFiniteSet(Waiting') BY <1>2, FS_Subset DEF Waiting
<1> QED BY <1>3, FS_CardinalityType

\* The sum of the bound is one of natural numbers.
LEMMA BoundTypes ==
    ASSUME IInv
    PROVE  /\ Cardinality(Waiting) \in Nat /\ Served \in {0, 1} /\ Dealt \in Nat
           /\ redis # NoState =>
                 redis.roundNumber \in Nat /\ Cardinality(Lives(redis)) \in Nat
<1>1. redis # NoState => redis.roundNumber \in Nat
  BY DEF IInv, StoreInv, GoodState, StateType
<1> QED BY <1>1, WaitingFinite, LivesFinite DEF Served

\* A message sent is counted by requests as long as it waits; a timer sends none.
LEMMA BoundOfQueue ==
    ASSUME IInv, IInv', BoundInv, NEW req \in Request, queue' = Append(queue, req),
           UNCHANGED <<redis, handler>>,
           IF FromClient(req) THEN requests < MaxRequests /\ requests' = requests + 1
                              ELSE requests' = requests
    PROVE  BoundInv'
<1>1. /\ Len(queue') = Len(queue) + 1 /\ Len(queue) \in Nat
      /\ \A i \in 1..Len(queue) : queue'[i] = queue[i]
      /\ queue'[Len(queue) + 1] = req
  BY Enqueue DEF IInv, QueueInv
<1> DEFINE m == Len(queue) + 1
<1>2. m \notin Waiting BY <1>1 DEF Waiting
<1>3. Waiting' = IF FromClient(req) THEN Waiting \cup {m} ELSE Waiting
  BY <1>1 DEF Waiting
<1>4. IsFiniteSet(Waiting) BY WaitingFinite
<1>5. Cardinality(Waiting \cup {m}) = Cardinality(Waiting) + 1
  <2> HIDE DEF m
  <2> QED BY <1>2, <1>4, FS_AddElement
<1>6. Served' = Served BY DEF Served
<1> HIDE DEF m
<1>7. requests' \in 0..MaxRequests
  BY EngineAssumption DEF BoundInv
<1>8. CASE FromClient(req)
  <2>1. Cardinality(Waiting') = Cardinality(Waiting) + 1 /\ requests' = requests + 1
    BY <1>3, <1>5, <1>8
  <2>2. requests \in Nat BY DEF BoundInv
  <2> QED BY <1>6, <1>7, <2>1, <2>2, BoundTypes DEF BoundInv
<1>9. CASE ~FromClient(req)
  <2>1. Waiting' = Waiting /\ requests' = requests BY <1>3, <1>9
  <2> QED BY <1>6, <1>7, <2>1 DEF BoundInv
<1> QED BY <1>8, <1>9

\* The message that gets the lock is counted with its handler.
LEMMA BoundOfBegin ==
    ASSUME IInv, IInv', BoundInv, Begin
    PROVE  BoundInv'
<1>1. /\ handler = Idle /\ handler' = Handling("check", Head(queue), redis)
      /\ queue # <<>> /\ queue' = Tail(queue) /\ UNCHANGED <<redis, requests>>
  BY DEF Begin
<1>2. Served = 0 BY <1>1 DEF Served, Idle
<1>3. Served' = IF FromClient(Head(queue)) THEN 1 ELSE 0
  BY <1>1 DEF Served, Handling
<1>4. Cardinality(Waiting') + Served' <= Cardinality(Waiting)
  BY <1>1, <1>3, WaitingShrinks
<1>5. Cardinality(Waiting') \in Nat /\ Served' \in {0, 1} BY <1>3, WaitingFiniteNext
<1>6. requests \in Nat BY DEF BoundInv
<1> QED BY <1>1, <1>2, <1>4, <1>5, <1>6, BoundTypes DEF BoundInv

\* A handler that goes on or gives up uses nothing up, whether the queue stays or is lost.
LEMMA BoundOfHandler ==
    ASSUME IInv, BoundInv, UNCHANGED <<redis, requests>>, queue' \in {queue, <<>>},
           \/ handler' = Idle
           \/ handler.phase \in {"check", "record", "finish"} /\ handler'.req = handler.req
    PROVE  BoundInv'
<1>1. Served' <= Served /\ Served' \in {0, 1} /\ Served \in {0, 1}
  BY DEF Served, Idle
<1>2. Cardinality(Waiting') <= Cardinality(Waiting) /\ Cardinality(Waiting') \in Nat
  <2>1. CASE queue' = queue
    <3>1. Waiting' = Waiting BY <2>1 DEF Waiting
    <3> QED BY <3>1, BoundTypes
  <2>2. CASE queue' = <<>>
    <3>1. Waiting' = {} BY <2>2 DEF Waiting
    <3>2. Cardinality({}) = 0 BY FS_EmptySet
    <3> QED BY <3>1, <3>2, BoundTypes
  <2> QED BY <2>1, <2>2
<1>3. requests \in Nat BY DEF BoundInv
<1>4. Cardinality(Waiting') + Served' <= Cardinality(Waiting) + Served
  BY <1>1, <1>2, BoundTypes
<1>5. redis' = redis /\ requests' = requests
  OBVIOUS
<1>6. redis # NoState =>
         redis.roundNumber + Cardinality(Lives(redis)) + Cardinality(Waiting') + Served'
            <= requests + Dealt + 1
  <2> SUFFICES ASSUME redis # NoState
               PROVE  redis.roundNumber + Cardinality(Lives(redis)) + Cardinality(Waiting') + Served'
                         <= requests + Dealt + 1
    OBVIOUS
  <2>1. redis.roundNumber + Cardinality(Lives(redis)) + Cardinality(Waiting) + Served
            <= requests + Dealt + 1
    BY DEF BoundInv
  <2> QED BY <1>1, <1>2, <1>3, <1>4, <2>1, BoundTypes
<1>7. Cardinality(Waiting') + Served' <= requests
  BY <1>1, <1>2, <1>3, <1>4, BoundTypes DEF BoundInv
<1> QED BY <1>5, <1>6, <1>7 DEF BoundInv

\* A round more is saved for a message served, or for a life.
LEMMA BoundOfSave ==
    ASSUME IInv, BoundInv, Save
    PROVE  BoundInv'
<1> DEFINE st == handler.st
<1>1. /\ handler.phase = "save" /\ redis' = st /\ handler' = [handler EXCEPT !.phase = "publish"]
      /\ queue' = queue /\ requests' = requests
  BY DEF Save
<1>2. handler'.phase = "publish"
  BY <1>1 DEF IInv, HandlerInv, HandlerType, Idle
<1>3. Waiting' = Waiting /\ Served' = 0
  BY <1>1, <1>2 DEF Waiting, Served
<1>4. requests \in Nat BY DEF BoundInv
<1>5. CASE handler.req.kind = "start"
  <2>1. st = InitialState(deck) BY <1>1, <1>5, InHand
  <2>2. st.roundNumber = 1 BY <2>1 DEF InitialState
  <2>3. Cardinality(Lives(st)) = Dealt BY <2>1, LivesFinite
  <2>4. Served = 0 BY <1>5 DEF Served, FromClient
  <2> HIDE DEF st
  <2> QED BY <1>1, <1>3, <1>4, <2>2, <2>3, <2>4, BoundTypes DEF BoundInv
<1>6. CASE handler.req.kind # "start"
  <2>1. /\ redis # NoState /\ InPlay(redis) /\ handler.req \in Request
        /\ Accepts(handler.req, redis) /\ st = After(handler.req, redis)
    BY <1>1, <1>6, InHand DEF IInv, HandlerInv
  <2>2. GoodState(redis) BY <2>1 DEF InPlay
  <2>3. st.roundNumber \in {redis.roundNumber, redis.roundNumber + 1}
    BY <1>6, <2>1, <2>2, AcceptedStep
  <2>4. CASE handler.req.kind = "timeout"
    <3>1. st.livesRemaining = [redis.livesRemaining EXCEPT ![redis.currentPlayerId] = @ - 1]
      BY <1>6, <2>1, <2>2, <2>4, AcceptedStep
    <3>2. Cardinality(Lives(st)) = Cardinality(Lives(redis)) - 1
      BY <2>1, <3>1, LifeTaken
    <3>3. Served = 0 BY <2>4 DEF Served, FromClient
    <3> HIDE DEF st
    <3> QED BY <1>1, <1>3, <1>4, <2>1, <2>3, <3>2, <3>3, BoundTypes DEF BoundInv
  <2>5. CASE handler.req.kind # "timeout"
    <3>1. st.livesRemaining = redis.livesRemaining
      BY <1>6, <2>1, <2>2, <2>5, AcceptedStep
    <3>2. Lives(st) = Lives(redis) BY <3>1 DEF Lives
    <3>3. Served = 1
      BY <1>1, <1>6, <2>1, <2>5, RequestKinds DEF Served, FromClient
    <3> HIDE DEF st
    <3> QED BY <1>1, <1>3, <1>4, <2>1, <2>3, <3>2, <3>3, BoundTypes DEF BoundInv
  <2> QED BY <2>4, <2>5
<1> QED BY <1>5, <1>6

\* At the start one request waits, and it is not a client's.
LEMMA BoundAtStart == Init => BoundInv
<1> SUFFICES ASSUME Init PROVE BoundInv
  OBVIOUS
<1>1. Waiting = {} BY DEF Init, Waiting, FromClient, StartRequest
<1>2. Served = 0 BY DEF Init, Served, Idle
<1> QED BY <1>1, <1>2, FS_EmptySet, EngineAssumption DEF Init, BoundInv

\* No step uses more rounds than there are messages and lives.
LEMMA BoundStep == IInv /\ IInv' /\ BoundInv /\ [Next]_vars => BoundInv'
<1> SUFFICES ASSUME IInv, IInv', BoundInv, [Next]_vars PROVE BoundInv'
  OBVIOUS
<1>1. ASSUME NEW p \in Seat, NEW s \in StatSchema, SendSelect(p, s) PROVE BoundInv'
  <2>1. SelectRequest(p, s) \in Request /\ FromClient(SelectRequest(p, s))
    BY SentRequests DEF FromClient
  <2> QED BY <1>1, <2>1, BoundOfQueue DEF SendSelect, Send
<1>2. ASSUME NEW p \in Seat, SendForfeit(p) PROVE BoundInv'
  <2>1. ForfeitRequest(p) \in Request /\ FromClient(ForfeitRequest(p))
    BY SentRequests DEF FromClient
  <2> QED BY <1>2, <2>1, BoundOfQueue DEF SendForfeit, Send
<1>3. CASE TimerFires
  <2>1. TimeoutRequest(timer) \in Request /\ ~FromClient(TimeoutRequest(timer))
    BY <1>3, SentRequests DEF TimerFires, IInv, StoreInv, FromClient
  <2> QED BY <1>3, <2>1, BoundOfQueue DEF TimerFires
<1>4. CASE Begin BY <1>4, BoundOfBegin
<1>5. CASE Save BY <1>5, BoundOfSave
<1>6. CASE Reject \/ RecordEventRefused \/ Publish \/ Fail \/ Crash
  BY <1>6, BoundOfHandler DEF Reject, RecordEventRefused, Publish, Fail, Crash
<1>7. CASE CheckStart \/ CheckSelect \/ CheckTimeout \/ CheckForfeit
  <2>1. handler.phase = "check" /\ handler'.req = handler.req
        /\ UNCHANGED <<redis, requests, queue>>
    BY <1>7 DEF CheckStart, CheckSelect, CheckTimeout, CheckForfeit, Checking, Handling
  <2> QED BY <2>1, BoundOfHandler
<1>8. CASE RecordEvent \/ FinishGame
  <2>1. handler # Idle /\ handler.phase \in {"record", "finish"} BY <1>8 DEF RecordEvent, FinishGame, Idle
  <2>2. handler \in [phase : {"check", "record", "finish", "save", "publish"},
                     req : Request, st : StoredState]
    BY <2>1 DEF IInv, HandlerInv, HandlerType
  <2>3. handler'.req = handler.req /\ UNCHANGED <<redis, requests, queue>>
    BY <1>8, <2>2 DEF RecordEvent, FinishGame
  <2> QED BY <2>1, <2>3, BoundOfHandler
<1>9. CASE UNCHANGED vars
  BY <1>9 DEF vars, BoundInv, Waiting, Served
<1> QED BY <1>1, <1>2, <1>3, <1>4, <1>5, <1>6, <1>7, <1>8, <1>9 DEF Next, HandlerStep

\* Each save is one step of the match, and nothing else shows.
LEMMA StepsOfMatch == IInv /\ BoundInv /\ [Next]_vars => [M!Next]_(M!vars)
<1> DEFINE shown == IF redis = NoState THEN InitialState(deck) ELSE redis
<1> SUFFICES ASSUME IInv, BoundInv, [Next]_vars PROVE [M!Next]_(M!vars)
  OBVIOUS
<1>1. deck' = deck
  BY DEF Next, vars, SendSelect, SendForfeit, Send, TimerFires, HandlerStep, Begin, Reject,
         CheckStart, CheckSelect, CheckTimeout, CheckForfeit, RecordEvent, RecordEventRefused,
         FinishGame, Save, Publish, Fail, Crash
<1>2. CASE redis' = redis
  BY <1>1, <1>2, SameHandlers DEF M!vars
<1>3. CASE redis' # redis /\ handler.req.kind = "start"
  <2>1. handler.phase = "save" /\ redis' = handler.st /\ handler.st = InitialState(deck)
        /\ redis = NoState /\ handler.st # NoState
    BY <1>3, OnlySaveWrites, InHand DEF Save
  <2> QED BY <1>1, <2>1, SameHandlers DEF M!vars
<1>4. CASE redis' # redis /\ handler.req.kind # "start"
  <2> DEFINE req == handler.req
  <2>1. handler.phase = "save" /\ redis' = handler.st /\ handler.st # NoState
    BY <1>4, OnlySaveWrites, InHand DEF Save
  <2>2. /\ redis # NoState /\ InPlay(redis) /\ req \in Request
        /\ Accepts(req, redis) /\ redis' = After(req, redis) /\ redis' # NoState
    BY <1>4, <2>1, InHand DEF IInv, HandlerInv
  <2>3. redis.roundNumber <= MaxRequests + NumPlayers * StartingLives + NumPlayers + 1
    <3>1. requests \in Nat /\ MaxRequests \in Nat /\ requests <= MaxRequests /\ NumPlayers \in Nat
      BY EngineAssumption, PlayersAssumption DEF BoundInv
    <3> QED BY <2>2, <3>1, BoundTypes DEF BoundInv, Dealt
  <2>4. CASE req.kind = "select"
    <3> DEFINE p == req.player
               s == req.statistic
    <3>1. p \in Seat /\ s \in StatSchema /\ CanSelect(redis, p, s)
          /\ redis' = AfterSelect(redis, p, s)
      BY <2>2, <2>4, RequestKinds DEF Accepts, After
    <3> HIDE DEF p, s
    <3>2. CASE IsTie(redis, s)
      <4>1. M!SelectAndTie(p, s)
        BY <1>1, <2>2, <2>3, <3>1, <3>2, SameHandlers
        DEF M!SelectAndTie, M!SelectStatistic, AfterSelect
      <4> QED BY <3>1, <4>1 DEF M!Next, M!Seat, Seat
    <3>3. CASE ~IsTie(redis, s)
      <4>1. M!SelectAndResolve(p, s)
        BY <1>1, <2>2, <2>3, <3>1, <3>3, SameHandlers
        DEF M!SelectAndResolve, M!SelectStatistic, AfterSelect
      <4> QED BY <3>1, <4>1 DEF M!Next, M!Seat, Seat
    <3> QED BY <3>2, <3>3
  <2>5. CASE req.kind = "forfeit"
    <3> DEFINE p == req.player
    <3>1. p \in Seat /\ CanForfeit(redis, p) /\ redis' = AfterForfeit(redis, p)
      BY <2>2, <2>5, RequestKinds DEF Accepts, After
    <3> HIDE DEF p
    <3>2. M!ForfeitMatch(p)
      BY <1>1, <2>2, <3>1, SameHandlers DEF M!ForfeitMatch
    <3> QED BY <3>1, <3>2 DEF M!Next, M!Seat, Seat
  <2>6. CASE req.kind = "timeout"
    <3>1. redis.status # "GAME_FINISHED" /\ redis' = AfterTimeout(redis)
      BY <2>2, <2>6 DEF InPlay, After
    <3>2. M!TurnTimeout
      BY <1>1, <2>2, <3>1, SameHandlers DEF M!TurnTimeout
    <3> QED BY <3>2 DEF M!Next
  <2> QED BY <1>4, <2>2, <2>4, <2>5, <2>6, RequestKinds
<1> QED BY <1>2, <1>3, <1>4

\* In every match, with any number of requests and whatever fails in between, the states
\* that Redis shows are those of a match whose handlers run one at a time.
THEOREM StoreFollowsMatchHolds == Spec => StoreFollowsMatch
<1>1. Init => M!Init
  BY SameHandlers DEF Init, M!Init
<1>2. Spec => []BoundInv
  BY BoundAtStart, BoundStep, EngineInvariant, PTL DEF Spec
<1>3. Spec => [][M!Next]_(M!vars)
  BY <1>2, StepsOfMatch, EngineInvariant, PTL DEF Spec
<1> QED BY <1>1, <1>3, PTL DEF Spec, StoreFollowsMatch, M!Spec
=============================================================================
