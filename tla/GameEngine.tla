----------------------------- MODULE GameEngine -----------------------------
(***************************************************************************)
(* GameEngineService for one game, with its handlers opened up at their    *)
(* awaits: GameLockService's promise chain, GameTurnTimerService's one     *)
(* timer, the GameState in Redis and the rows in Postgres.                 *)
(*                                                                         *)
(* A request waits in queue for the lock.  The handler that holds it loads *)
(* the state and then passes through the phases                            *)
(*    check    the guards; an accepted request has its new state computed  *)
(*    record   recordEvent, the row a comparison or a timeout leaves in    *)
(*             the append-only event log                                   *)
(*    finish   finishGame's transaction: game FINISHED and the reward      *)
(*    save     stateStore.save                                             *)
(*    publish  broadcastFreshState, then scheduleTurnTimeout               *)
(* and between two phases anything else may happen.  An await may throw    *)
(* (Fail) and the process may die (Crash): the chain, the handler and the  *)
(* timer are memory, Redis and Postgres are not.                           *)
(***************************************************************************)
EXTENDS GameState

CONSTANTS
    NoState,         \* Redis has no value under game:<id>
    NoTimer,         \* no pending turn timer
    MayFail,         \* an await of a handler may throw
    MayCrash,        \* the process may die and start again
    MaxRequests,     \* bound: messages sent by the clients
    MaxFaults        \* bound: failures and crashes

ASSUME EngineAssumption ==
    /\ MayFail \in BOOLEAN /\ MayCrash \in BOOLEAN
    /\ MaxRequests \in Nat /\ MaxFaults \in Nat
    /\ NoState \notin StateType            \* load's null is not a state

VARIABLES
    deck,       \* what the shuffle of doStartGame yields
    redis,      \* GameStateStore
    queue,      \* GameLockService: requests chained behind the running handler
    handler,    \* the handler that holds the lock
    timer,      \* GameTurnTimerService: the decision key of the pending timer
    events,     \* the game's rows in game_events, unique by sequence
    game,       \* games.status
    rewards,    \* players with a GAME_REWARD row (its key names game and player)
    requests,   \* messages sent so far
    faults      \* failures and crashes so far

vars == <<deck, redis, queue, handler, timer, events, game, rewards, requests, faults>>

StartRequest == [kind |-> "start"]
SelectRequest(p, s) == [kind |-> "select", player |-> p, statistic |-> s]
ForfeitRequest(p) == [kind |-> "forfeit", player |-> p]
TimeoutRequest(key) == [kind |-> "timeout", key |-> key]

Idle == [phase |-> "idle"]
Handling(phase, req, st) == [phase |-> phase, req |-> req, st |-> st]

\* RoomsService.start has called startGame.
Init ==
    /\ deck \in Shuffled
    /\ redis = NoState
    /\ queue = <<StartRequest>>
    /\ handler = Idle
    /\ timer = NoTimer
    /\ events = {}
    /\ game = "WAITING"
    /\ rewards = {}
    /\ requests = 0
    /\ faults = 0

-----------------------------------------------------------------------------
(***************************************************************************)
(* What calls withLock: the gateway's messages and the timer.              *)
(***************************************************************************)
Send(req) ==
    /\ requests < MaxRequests
    /\ queue' = Append(queue, req)
    /\ requests' = requests + 1
    /\ UNCHANGED <<deck, redis, handler, timer, events, game, rewards, faults>>

SendSelect(p, s) == Send(SelectRequest(p, s))
SendForfeit(p) == Send(ForfeitRequest(p))

\* setTimeout fires: the timer is deleted, then handleTurnTimeout asks for the lock.
TimerFires ==
    /\ timer # NoTimer
    /\ queue' = Append(queue, TimeoutRequest(timer))
    /\ timer' = NoTimer
    /\ UNCHANGED <<deck, redis, handler, events, game, rewards, requests, faults>>

\* The previous link of the chain settled: the next handler runs and loads the state.
Begin ==
    /\ handler = Idle
    /\ queue # <<>>
    /\ handler' = Handling("check", Head(queue), redis)
    /\ queue' = Tail(queue)
    /\ UNCHANGED <<deck, redis, timer, events, game, rewards, requests, faults>>

-----------------------------------------------------------------------------
Checking(kind) == handler.phase = "check" /\ handler.req.kind = kind

\* Mutant: what the tie has used is not looked at.
AcceptsUsedStatistic(req, st) ==
    /\ st # NoState
    /\ CASE req.kind = "select" -> CanSelect([st EXCEPT !.tieState = NoTie],
                                             req.player, req.statistic)
         [] req.kind = "forfeit" -> CanForfeit(st, req.player)
         [] req.kind = "timeout" -> /\ st.status # "GAME_FINISHED"
                                    /\ decisionKeyFor(st) = req.key

\* Mutant: a timeout is not compared with the decision it was armed for.
AcceptsStaleTimeout(req, st) ==
    /\ st # NoState
    /\ CASE req.kind = "select" -> CanSelect(st, req.player, req.statistic)
         [] req.kind = "forfeit" -> CanForfeit(st, req.player)
         [] req.kind = "timeout" -> st.status # "GAME_FINISHED"

\* load found a state and the handler's guards hold.
Accepts(req, st) ==
    /\ st # NoState
    /\ CASE req.kind = "select" -> CanSelect(st, req.player, req.statistic)
         [] req.kind = "forfeit" -> CanForfeit(st, req.player)
         [] req.kind = "timeout" -> /\ st.status # "GAME_FINISHED"
                                    /\ decisionKeyFor(st) = req.key

AfterSelect(st, p, s) ==
    IF IsTie(st, s) THEN AfterTie(st, s) ELSE AfterRound(st, RoundWinner(st, p, s))

\* Mutant: the result is saved, and so visible, before the transaction.
SaveFirst(st) == "save"

NextPhase(st) == IF st.status = "GAME_FINISHED" THEN "finish" ELSE "save"

\* The handler throws or returns early; the chain goes on.
Reject ==
    /\ handler.phase = "check"
    /\ handler.req.kind # "start"
    /\ ~Accepts(handler.req, handler.st)
    /\ handler' = Idle
    /\ UNCHANGED <<deck, redis, queue, timer, events, game, rewards, requests, faults>>

\* doStartGame debits every player and flips the game in one transaction.
CheckStart ==
    /\ Checking("start")
    /\ game' = "IN_PROGRESS"
    /\ handler' = Handling("save", handler.req, InitialState(deck))
    /\ UNCHANGED <<deck, redis, queue, timer, events, rewards, requests, faults>>

\* The pick happens: the pending timeout is cancelled, the comparison broadcast.
CheckSelect ==
    /\ Checking("select")
    /\ Accepts(handler.req, handler.st)
    /\ timer' = NoTimer
    /\ handler' = Handling("record", handler.req,
                           AfterSelect(handler.st, handler.req.player, handler.req.statistic))
    /\ UNCHANGED <<deck, redis, queue, events, game, rewards, requests, faults>>

CheckTimeout ==
    /\ Checking("timeout")
    /\ Accepts(handler.req, handler.st)
    /\ handler' = Handling("record", handler.req, AfterTimeout(handler.st))
    /\ UNCHANGED <<deck, redis, queue, timer, events, game, rewards, requests, faults>>

\* A forfeit cancels the timeout and records no event.
CheckForfeit ==
    /\ Checking("forfeit")
    /\ Accepts(handler.req, handler.st)
    /\ timer' = NoTimer
    /\ LET st == AfterForfeit(handler.st, handler.req.player)
       IN  handler' = Handling(NextPhase(st), handler.req, st)
    /\ UNCHANGED <<deck, redis, queue, events, game, rewards, requests, faults>>

\* What ComparisonResult and TurnTimedOut put into the log; the player who timed out is
\* the one of the accepted decision key.  No other event of a match is recorded.
EventRow(req, st) ==
    IF req.kind = "timeout"
    THEN [sequence |-> st.eventSequence, type |-> "turn_timed_out",
          userId |-> req.key[1], livesRemaining |-> st.livesRemaining[req.key[1]]]
    ELSE [sequence |-> st.eventSequence, type |-> "comparison_result",
          statistic |-> req.statistic]

Sequences(log) == {e.sequence : e \in log}

RecordEvent ==
    /\ handler.phase = "record"
    /\ handler.st.eventSequence \notin Sequences(events)
    /\ events' = events \cup {EventRow(handler.req, handler.st)}
    /\ handler' = [handler EXCEPT !.phase = NextPhase(handler.st)]
    /\ UNCHANGED <<deck, redis, queue, timer, game, rewards, requests, faults>>

\* Mutant: a row that is there already is taken for one's own, the handler goes on.
RefusalIgnored ==
    /\ handler.phase = "record"
    /\ handler.st.eventSequence \in Sequences(events)
    /\ handler' = [handler EXCEPT !.phase = NextPhase(handler.st)]
    /\ UNCHANGED <<deck, redis, queue, timer, events, game, rewards, requests, faults>>

\* The unique index on (gameId, sequence) refuses the row: the handler throws.
RecordEventRefused ==
    /\ handler.phase = "record"
    /\ handler.st.eventSequence \in Sequences(events)
    /\ handler' = Idle
    /\ UNCHANGED <<deck, redis, queue, timer, events, game, rewards, requests, faults>>

FinishGame ==
    /\ handler.phase = "finish"
    /\ timer' = NoTimer
    /\ game' = "FINISHED"
    /\ rewards' = rewards \cup {handler.st.winnerId}
    /\ handler' = [handler EXCEPT !.phase = "save"]
    /\ UNCHANGED <<deck, redis, queue, events, requests, faults>>

Save ==
    /\ handler.phase = "save"
    /\ redis' = handler.st
    /\ handler' = [handler EXCEPT !.phase = "publish"]
    /\ UNCHANGED <<deck, queue, timer, events, game, rewards, requests, faults>>

\* Mutant: the timer that went off is not armed again.
PublishWithoutTimer ==
    /\ handler.phase = "publish"
    /\ timer' = IF handler.st.status = "GAME_FINISHED" \/ handler.req.kind = "timeout"
                THEN timer ELSE decisionKeyFor(handler.st)
    /\ handler' = Idle
    /\ UNCHANGED <<deck, redis, queue, events, game, rewards, requests, faults>>

\* Every handler but finishGame ends by arming the timer for the new decision.
Publish ==
    /\ handler.phase = "publish"
    /\ timer' = IF handler.st.status = "GAME_FINISHED" THEN timer ELSE decisionKeyFor(handler.st)
    /\ handler' = Idle
    /\ UNCHANGED <<deck, redis, queue, events, game, rewards, requests, faults>>

HandlerStep ==
    \/ Begin \/ Reject
    \/ CheckStart \/ CheckSelect \/ CheckTimeout \/ CheckForfeit
    \/ RecordEvent \/ RecordEventRefused
    \/ FinishGame \/ Save \/ Publish

-----------------------------------------------------------------------------
\* The await of the current phase throws: withLock swallows the error, nobody
\* takes back what earlier phases did.  doStartGame awaits nothing after save.
Fail ==
    /\ MayFail
    /\ faults < MaxFaults
    /\ handler # Idle
    /\ ~(handler.phase = "publish" /\ handler.req.kind = "start")
    /\ handler' = Idle
    /\ faults' = faults + 1
    /\ UNCHANGED <<deck, redis, queue, timer, events, game, rewards, requests>>

\* The process dies and starts again: chains and timers are in-memory Maps and no
\* startup code reads Redis.
Crash ==
    /\ MayCrash
    /\ faults < MaxFaults
    /\ handler' = Idle
    /\ queue' = <<>>
    /\ timer' = NoTimer
    /\ faults' = faults + 1
    /\ UNCHANGED <<deck, redis, events, game, rewards, requests>>

Next ==
    \/ \E p \in Seat, s \in StatSchema : SendSelect(p, s)
    \/ \E p \in Seat : SendForfeit(p)
    \/ TimerFires
    \/ HandlerStep
    \/ Fail
    \/ Crash

Spec == Init /\ [][Next]_vars

\* The event loop runs every settled await and every expired timer.
FairSpec == Spec /\ WF_vars(HandlerStep) /\ WF_vars(TimerFires)

-----------------------------------------------------------------------------
Quiet == handler = Idle /\ queue = <<>>
Running == redis # NoState /\ redis.status # "GAME_FINISHED"
Over == redis # NoState /\ redis.status = "GAME_FINISHED"

(***************************************************************************)
(* The saved state implements Match: between two saves nothing is visible, *)
(* and each save is one whole handler on the state saved before it.        *)
(***************************************************************************)
M == INSTANCE Match WITH
        state <- IF redis = NoState THEN InitialState(deck) ELSE redis,
        MaxRound <- MaxRequests + NumPlayers * StartingLives + NumPlayers + 1

\* Each change of the saved state is one handler's effect on the state saved
\* before it, whatever is queued, expires, fails or dies meanwhile.
StoreFollowsMatch == M!Spec

\* The engine also meets the match's fairness: timeouts end a stalled match.
ImplementsFairMatch == M!FairSpec

\* GAME_RULES "the server owns the actual deadline and enforces it": whenever the
\* engine has nothing to do in a running match, a timer is pending for exactly
\* the decision the match waits for.
TimerGuardsDecision == (Quiet /\ Running) => timer = decisionKeyFor(redis)

\* A life is lost only to the timer armed for the very decision that is pending
\* when the loss is saved.
LifeLostToOwnTimer ==
    [][ (Running /\ redis' # redis /\ redis'.livesRemaining # redis.livesRemaining) =>
          /\ handler.req.kind = "timeout"
          /\ handler.req.key = decisionKeyFor(redis) ]_vars

\* A quiet engine, without a fault: a match over in Redis is over in Postgres and the
\* other way round, and its winner, nobody else, was paid.
ResultsAgree ==
    /\ Over <=> game = "FINISHED"
    /\ rewards = IF Over THEN {redis.winnerId} ELSE {}

\* The result goes to Postgres, to Redis and to the players, in this order: even after
\* failures and crashes no match is shown as over unless its winner was paid, and
\* without one the two stores agree.
PaidBeforeShown ==
    /\ Over => game = "FINISHED" /\ redis.winnerId \in rewards
    /\ (Quiet /\ faults = 0) => ResultsAgree

TimedOut(log, p, n) ==
    {e \in log : e.sequence <= n /\ e.type = "turn_timed_out" /\ e.userId = p}

\* The rows of log up to st's event tell every life p has lost, each by one row.
LivesTold(log, st, p) ==
    LET rows == TimedOut(log, p, st.eventSequence)
    IN  /\ {e.livesRemaining : e \in rows} = st.livesRemaining[p] .. (StartingLives - 1)
        /\ \A e, f \in rows : e.livesRemaining = f.livesRemaining => e = f

\* A pending tie is the last rows of log, the statistics called in this order.
TieTold(log, st) ==
    LET used == st.tieState.usedStatistics
    IN  \A i \in 1..Len(used) :
            \E e \in log : /\ e.sequence = st.eventSequence - Len(used) + i
                          /\ e.type = "comparison_result"
                          /\ e.statistic = used[i]

Tells(log, st) == TieTold(log, st) /\ \A p \in Seat : LivesTold(log, st, p)

\* The rows that are written explain the saved state, whatever fails: none is missing,
\* every life lost has its row and every pending tie its calls.  A fault leaves at most
\* one row more, which the save never followed and no other event is taken for; without
\* a fault there is none.  A forfeit, an elimination and the end of the match leave no
\* row at all (doForfeitMatch, finishGame), so the log does not explain who holds what.
LogExplainsState ==
    redis # NoState =>
        /\ 1..redis.eventSequence \subseteq Sequences(events)
        /\ Sequences(events) \subseteq 1..(redis.eventSequence + 1)
        /\ Tells(events, redis)
        /\ (Quiet /\ faults = 0) => Sequences(events) = 1..redis.eventSequence

\* ECONOMY "duplicate victory rewards": one match pays one player.
SingleReward == \A p, q \in rewards : p = q
=============================================================================
