# Card Cricket: verification project

TLA+ models of the Card Cricket backend (`src/apps/backend`), of the scripts that
make its cards, and of the session, the lobby and the game screen of its mobile client
(`src/apps/mobile`), the TLC runs that
check them on small instances and the TLAPS proofs that hold for every instance.
Every definition is translated from the source; `PROJECT.json` names, for each
one, the file and lines it stands for.

Card Cricket is a card game for two to six players. Each player holds a deck of
cards with cricket statistics. The player on turn calls a statistic of his top
card, the best value takes the round's cards, the caller's seat passes to the
winner and whoever runs out of cards (or of lives, which he loses by not
calling in time) is out. Every player pays coins to enter and the winner takes
the pool.

## 1. Inventory

| Component | State | Operations | Talks to |
|---|---|---|---|
| **Statistic comparison** `game/stat-comparison.util.ts` | none | isSelectableStatistic, extractComparisonValue, determineWinners, bowlingFigureScore | called by the engine |
| **Game engine** `game/game-engine.service.ts` | the `GameState` it loads and saves | startGame, selectStatistic (tie or round), handleTurnTimeout, forfeitMatch, finishGame, getStateForUser | everything below |
| **Per-game lock** `game/game-lock.service.ts` | a Map of promise chains | withLock | wraps every operation of the engine that changes state |
| **Turn timer** `game/game-turn-timer.service.ts` | a Map of timeouts, one per game | schedule, clear, expiry | calls handleTurnTimeout with the decision key it was armed for |
| **Live state store** `game/game-state.store.ts`, `redis/` | one Redis key per game | load, tryLoad, save | engine, gateway |
| **Gateway and broadcasts** `game/game.gateway.ts`, `realtime.service.ts` | socket rooms | subscribe, select, forfeit; game:state and overlay events | clients, engine |
| **Wallet** `wallet/wallet.service.ts` | wallets, coin_transactions | applyDelta under creditWelcomeReward, deductGameEntry, creditGameReward | inside the engine's transactions |
| **Rooms and lobby** `rooms/`, `lobby/` | rooms, room_players, games, game_players | create, join, setReady, leave, start | start calls the engine; leave and join race it |
| **Accounts** `auth/`, `users/` | users | register, login, me | register credits the welcome reward in its transaction |
| **Card data scripts** `scripts/*.mjs`, `prisma-seed/seed.ts` | careers in memory, cricket-data.json, the card tables | extract, look up images, seed | Cricsheet files, Wikipedia, Postgres |
| **Catalogue** `cards/`, `card-sets/`, `players/` | the card tables, read-only | queries | the deck startGame shuffles |
| **Game client** `mobile/lib/features/game` | a copy of the state, overlays, a countdown | render, call, forfeit | gateway |
| **Lobby client** `mobile/lib/features/lobby` | a copy of the room, a busy flag | join, load, ready, start, follow game:starting | rooms over HTTP, gateway |
| **Client session** `mobile/lib/features/auth`, `core/routing` | auth state, stored token, socket, page | launch, register, login, logout, redirect | accounts over HTTP, gateway |

**Not modelled.** The catalogue's services only query (their results appear as the
constants `Card`, `StatSchema`, `Statistics`; `Catalogue` has the rows they read); the
other screens and widgets are layout; the placeholder services (achievements, admin,
leaderboard, rewards) are empty. Of the modelled components these parts are left
out: the drawing of a room code, the form of the create screen, sockets without a valid
token, the countdown and sounds of the game screen, and in the scripts the skipping
of files, the choice of a name, country and team, the text checks of a Wikipedia page
and the rarity, which only frames a card.

### What is hard

* **Interleaving.** NestJS runs on one thread, but each handler awaits Redis and
  Postgres a dozen times. The per-game lock chains the handlers of *one* game;
  nothing serialises two games of one player (wallet) or two requests for one
  room.
* **The timer.** It fires on its own, may fire while a pick waits for the lock,
  and is one slot that handlers clear and arm at different places.
* **Two stores.** The result is committed to Postgres, then saved to Redis, then
  broadcast; the event log is written before the state it belongs to.
* **Failure.** `withLock` swallows errors, so a handler that throws leaves
  whatever its earlier phases did. A crash loses the chains and the timers and
  keeps Redis and Postgres.
* **Long sequences.** Cards move in four ways through four handlers; a slip shows
  many rounds later. Ties nest, and caller and contestants are different sets.
* **The screen.** A tap carries no decision key, six events to two rooms change the
  overlays, the first snapshot is read without the lock, and a reconnected socket is
  in one of the two rooms only.
* **The lobby.** A load, the answers to taps and the broadcasts bring lists that other
  requests made at other moments; the call to the match is sent once.
* **Sessions.** Token, socket, auth state and page change one after the other, and the
  app may be killed or the network fail in between.
* **Scripts.** Millions of deliveries are added up in maps keyed by name; figures are
  compared by one rule in the script and another in the game; the scripts are stopped
  and run again, and the seed writes without a transaction.

`PROJECT.json` lists each of these hazards at its line with the properties that
would catch it.

### What makes each component correct

* Comparison: the cricket order is decided; what may be called can be compared.
* Match: no card is lost or doubled; out means without cards; the turn is
  playable; the winner owns everything; ranks are a permutation; ties are
  genuine and do not touch the table; a stalled match ends.
* Engine: interleaved handlers implement the match above; the timer guards the
  pending decision and takes no life for another one; the result in Redis, the
  result in Postgres and the reward agree.
* Wallet: the ledger explains the balance; entries are all or none; each
  winner is paid once.
* Rooms: one game per room, for good; a host who is in the room; a started room has a
  match.
* Lobby client: the lobby shows the members as they are; nobody is left in it when the
  match begins, nobody enters a match that is not dealt; buttons come back.
* Accounts: one account for an email or username, with one reward; a session is whole;
  only a logout or a 401 ends it.
* Scripts: batting and bowling balance; a card shows what the game compares; ratings
  follow the form; the database has one whole catalogue or none.
* Game client: when nothing is under way the screen shows the saved state; every
  overlay that blocks the board ends; one call at a time.

## 2. Modules

```
StatComparison   comparison rules (pure)
  GameState      the live state and what each handler computes from it (pure)
    GameStateLemmas    facts about these operators, cited by the proofs below
    Match        one handler = one step: the abstract specification
      MatchHistory     + the GameRoundCard rows each handler writes
        MatchProofs    theorems of Match and MatchHistory
    GameEngine   handlers opened at their awaits; INSTANCE Match as refinement
      GameEngineProofs
    GameClient   one player's screen, his connection and the engine's events
      GameClientProofs
  Extraction     careers, cards and ratings out of deliveries  (extends StatComparison)
    Catalogue    cricket-data.json, the image lookups, the seed
      CatalogueProofs    theorems of Extraction, Catalogue and the comparison
Wallet           applyDelta inside the transactions of several games
Rooms            the requests for one room, interleaved between database calls
  RoomsProofs
Lobby            one user's join and lobby screen and the requests of Rooms as he sees them
  LobbyProofs
Accounts         registrations, and the session of the app on several phones
  AccountsProofs         theorems of Accounts and of Wallet, which it credits
MC*              constants and small card sets for TLC; MCStatComparison is the system
                 of all comparisons, and states the rules of cricket
```

**StatComparison.** A raw value of a card is abstracted to what the code tells
apart: null, a number, a bowling figure `w/r`, other text. Parsing is modelled by
that shape; the score `wickets * 1000 - runs`, the fields for which lower is
better and the selection rules are the code's.

**GameState.** The record is the `GameState` interface. `AfterTie`, `AfterRound`,
`AfterTimeout` and `AfterForfeit` are the states the handlers save, `CanSelect`
and `CanForfeit` their guards, `FinalRanks` the ranking `finishGame` writes. Arrays
of player ids that the code only tests for membership are sets of seats;
`eliminationOrder` and the piles stay sequences because their order matters.
Names, emails, timestamps and the text of events are left out.

**Match.** `SelectAndTie`, `SelectAndResolve`, `TurnTimeout` and `ForfeitMatch` are
whole handlers. `MaxRound` bounds calls (a match may go round in circles for
ever), never timeouts or forfeits. `RoundWinner` keeps the code's
`winners[0] ?? userId`.

**MatchHistory.** Adds `owner`: what the newest `GameRoundCard` row says of each
card. It is the audit trail the schema promises.

**GameEngine.** The lock is a queue, the handler a record with a phase, and between
two phases anything may happen. `events` are the rows of `game_events` as far as they tell
the state: the statistic compared, or who timed out and what lives he has left. Phases
correspond to awaits: *check* (load and
guards, `clear` of the timer where the code clears it), *record* (the event row,
refused by its unique key when it exists), *finish* (the transaction of
finishGame), *save* (Redis), *publish* (broadcast, arm the timer). `Fail` lets the
await of any phase throw, `Crash` empties memory. Broadcasts send nothing back and
are modelled in GameClient. Successive reads of one handler under the lock see the same
saved state, so they are one phase.

**GameClient.** `ui` holds the fields of `_GameScreenState` that decide what is shown
and what can be tapped, `OnEvent` its callbacks, `BoardIsOpen` the stack of overlays.
`channel` carries what the server sends to this client: comparison, tie and finish
through the game's room, states and errors to the user. The handlers use the
operators of GameState and are opened where they send (`Compare`, `Save`, `Announce`,
`Broadcast`); their other awaits are in GameEngine. `JoinGame`, `GetStateForUser` and
`SendSnapshot` are the three steps of `onSubscribeGame`, outside the lock. Socket.io
is external: in order while connected; what was under way at a loss is gone (of the
client's messages, any suffix), an error goes to the socket its message came by
(`socketLost`), what is emitted without a connection waits in `outbox`. `outdated` is a history variable: the newest state was sent without a
connection, or an older snapshot is about to overtake it. The other players call and
forfeit at any time, the timer fires at any time.

**Wallet.** One open transaction per game and purpose, a step per statement of
`applyDelta` (look up the key, read the balance, write the absolute balance and
the row). `ledger[u]` are u's rows in the order they were committed, which is all that
`balanceAfter` and the idempotency keys depend on, so the properties speak of it row by
row. Postgres at Read Committed is external: reads see committed data, an
update holds its row until the transaction ends, any transaction may be aborted
(that covers deadlock victims and timeouts). `BeginFinish` has no guard but that the game
has been started, as in the code: it may run again for any player of the game, which is
more than the engine would ask of it. `won` is a history variable: the winners committed.

**Rooms.** A request reads the room, lists the members and writes in separate
calls; `request[r].step` says where it is and `players`/`hostId` are what it read.
`join`'s later refusal (`assertCanAfford`) is nondeterministic. The unique keys on
room_players and on `games.roomId` are modelled where the code meets them. `create`
writes the room, then its host. `start` is followed into `startGame`: the game row
(`StartCreate`), the entries (`StartPay`, or `StartRefused`), the live state
(`StartSave`, or `StartSaveFails`); how the entries are taken is Wallet's matter, what
is dealt GameState's. `Crash` loses the requests in flight.

**Lobby.** The same requests as one user meets them: three may run at once, the load of
his screen, his own tap and one of somebody else, each of which lists the members and
delivers the list later (`List`, then `Publish`). Socket and gateway are those of
GameClient, with the room's subscription. `ui` holds the route, the room shown and the
busy flag. No screen of the app calls `leave`, so it is absent here; `Rooms` has it.
`outdated` says that the newest change was missed or may be overtaken, `late` that the
user became a member during a start, `uncalled` that `game:starting` was sent while his
socket was not in the room.

**Extraction.** `aggByFormat` as careers, an innings as its two maps. A spell (a run of
deliveries of one bowler to one batter, with at most one wicket, at its end) is added
at once; what match files may contain is `MayFollow` (without batters who retire hurt and
return, or are timed out before their first ball). An innings is a match of its own; of
several innings in one file the script counts one match and shares nothing else. A card's rounded decimals are
integers (times ten, the economy rate times a hundred), so that they compare like the
numbers. Percentiles and scores are fractions. The economy and the strike rate are kept
without their constant factors 6 and 100, which ranks do not see.

**Catalogue.** The file's players with their formats and whether name and photo were
found. The image script, plain or with `--force`, has workers that take from one index and write
the file every `CheckpointEvery` results; `findCricketerMatch` is the choice among what the searches
returned. The seed writes its card sets one by one and then three `createMany`s; ids
made by a run are modelled by the run. The scripts run one after the other, as their
header comments prescribe; two seeds may overlap. The extraction runs once and to its end;
the image script and the seed may be stopped at any step and run again. A write of the
file is one step.

**Accounts.** A registration is a transaction of two inserts; the second of two with a
common key waits and gets P2002. On each phone `doing` is the await the AuthController
is at, `auth` its state, `page` what the redirect made of it. A call may fail or time
out while the server goes on. Passwords are the owners', a token is its account.

## 3. Runs

| Run | Question | Bounds |
|---|---|---|
| `stat_comparison` | does one integer score decide as the cricket rule; is everything callable comparable? | 3 players, 14 raw values incl. 999 runs (see below) |
| `match` | the safety of the match, the audit trail while lives last, and that a stall ends | 4 players, 5 cards, calls up to round 3, 2 lives |
| `engine` | do interleaved handlers implement `Match`, with its fairness; and are timers pending, and lives lost, for the right decision | 2 players, 3 cards, 3 client messages |
| `engine_faults` | do result, reward and log agree, do the rows of the log tell the saved state, and what of it survives two failures or crashes at any await | same, 2 faults |
| `rooms` | what holds in a room whose requests overlap, and when they do not | 3 users, room for 2, 2 requests in flight |
| `wallet` | ledger, entries and rewards of games with shared players, finished again and again | 4 users, 2 games of 3 players, 2 of them in both |
| `game_client` | does the screen end up with the saved state, without a stale banner or an overlay that waits for ever | 2 players, 3 cards, 1 life, calls up to round 2, 2 taps, 2 losses of the connection |
| `lobby` | does the lobby show the members as they are, does everybody enter the match, do the buttons come back | 3 users, 3 requests of the others, 2 taps, 2 losses |
| `catalogue` | do the figures balance, compare and rate as they should, and do scripts that are stopped or overlap keep the file and the database whole | 4 people, 3 formats, 3 innings of 2 spells, pools of 3, 2 workers, 2 seeds, 1 stop |
| `accounts` | one account and reward per email and username; is the session whole and never loading for ever | 2 phones, 3 registrations, 1 kill |
| `second_reward` | *violated*: one match pays one player | 1 failure |
| `wallet_lost_update` | *violated*: the ledger adds up to the balance | as `wallet` |

**Why the bounds are enough.** Four players with five cards give piles of one and
two cards, so several players can fall in one round, a winner can hold a single
card, ties of two and three cards exist, a caller can be outside his tie, and
forfeits and timeouts meet each of these. The card set of `MCCards` contains a
statistic none of the tied cards has, a lower-is-better one and a bowling figure.
Two lives reach both branches of a timeout. In the engine, three messages on top of
the timer give a pick, a duplicate and a forfeit in any order around two
timeouts; two faults give a fault during the recovery of a fault. Two players are
enough there because the steps of the handlers for more players are those of
`Match`, checked with four. In `rooms` two requests in flight show every overlap
of two operations; three users in a room for two let a join be one too many. In
`wallet` the two games meet at two wallets in opposite orders, a player can pay one entry
but not both, and each of the three players may be the winner of a repeated finish. In `game_client` three cards give one player two, so
that a timeout, a forfeit, a round or a tie may or may not end the match; two taps
are a tap and one more before its answer, and after the second loss of the connection
the screen is where it was after the first, with newer messages lost. In `lobby` the
user at the screen is host or guest; his two taps are join and ready, or ready and
start, and the others' three requests (join, ready, start) meet each of them; each of
the two losses takes a request, an answer, or a connection with all that is under way
on it. In `rooms` the one crash comes between any two
statements; a second one meets the same rows. In `catalogue` the spells contain each
kind of delivery the code tells apart (extras of either side, wickets of the bowler and
not, a catch, a stumping, a hundred and a fifty); three innings give a career of several
innings, keepers, all-rounders and two bowlers in one pool, and equal figures; a pool
of three of four people leaves one out. Two workers, a checkpoint every two results and
one stop lose every number of results that can be lost. In `accounts` the two phones
share an email on one side and a username on another, and three calls are two at once
and the repetition of one whose answer was lost; the one kill comes at any await.

The bound of 999 runs in `stat_comparison` is the code's own: with 1000 runs or
more a figure `w/1000` scores as `(w-1)/0` and the score no longer decides as the
rule does. No bowler's best figures reach it.

**Fairness.** `Match` and `MatchHistory` assume only that the timer eventually
fires (`WF(TurnTimeout)`): nothing obliges a player to call. `GameEngine` shows
where this comes from: the event loop runs settled awaits (`WF(HandlerStep)`)
and expired timers (`WF(TimerFires)`), and `ImplementsFairMatch` checks that the
engine then meets the match's fairness. `GameClient` assumes that the server's
handlers and the client's event loop run, that the turn timer fires, that the reveal's
timer ends it and that a lost connection comes back (socket_io_client reconnects by
itself); a player never has to tap. `Accounts` assumes the event loops
of the phones and that a call without an answer times out (Dio's timeout of 100 s in
`api_client.dart`); no server has to answer. The other
modules claim no liveness: a request that hangs is not repeated by anybody.

**Deadlock** is checked in `rooms`, `accounts` and `stat_comparison`. The other systems
really stop: a match ends, a faulty match loses its timer, games are over, a screen
is left, the catalogue is there.

### Refinement

`GameEngine` implements `Match` with `state` mapped to what Redis holds (before
the first save, to the state about to be dealt). Every step of a handler but `save`
stutters, and each save is one whole handler applied to the state saved before.
`StoreFollowsMatch` shows the safety part under failures and crashes,
`ImplementsFairMatch` the fairness in a process that does not fail. With it, each
invariant of `Match` is an invariant of the Redis contents.

## 4. Where code and documents disagree

With a run (details under `findings` in `PROJECT.json`):

1. The reward commits before Redis learns the result; a failed save lets the match
   end again for somebody else, who is paid too (`game-engine.service.ts:595`).
2. `applyDelta` writes an absolute balance after an unlocked read; two games of one
   player lose an update (`wallet.service.ts:31`).

Met while modelling, without a run of their own. In the match:

* A caller outside the tie may call a statistic that no tied card has and takes the
  round he was beaten in (`winners[0] ?? userId`, `game-engine.service.ts:254`), whereas
  GAME_RULES.md:37 gives it to the highest value. `TieIsWonByTied` shows that a tie
  goes to nobody else outside it, and to him only when there is such a statistic.
* Timers do not survive a restart (`game-turn-timer.service.ts:21`): no startup code
  arms them from Redis, so a stalled turn never times out, against GAME_RULES.md:28 and
  SPEC.md:1600. `TimerGuardsDecision` is therefore claimed only without faults.
* Any comparison and any state re-opens the board while a tap is on its way, for
  instance the late snapshot of the subscription, although the flag is said to block
  a second call until the first has been processed (`game_screen.dart:127`, comment
  at :66-69). The engine refuses the second call or takes it for the next decision.
* A round won with a single card puts the same card back on top
  (`game-engine.service.ts:311`), although the comment above it (:290-291) and a test
  say that no played card stays there.
* A player who runs out of lives passes on his deck without audit rows (`:419`,
  against schema.prisma:305-306); a forfeit writes them.
  `AuditNamesHoldersWhileLivesLast` claims what is left.
* A snapshot read before a broadcast may be sent after it, and stays on the screen
  until the next state: nothing in the payload tells which is newer. `outdated` is
  exactly this case and the next one.
* The screen subscribes once. After a lost connection its socket is no longer in the
  game's room and nothing fetches the state again: comparison, tie and finish no longer
  reach it, and when the match ended in the meantime the end is never shown.
* The countdown stands still during a reveal, the server's timer does not, so the
  display may promise seconds the player no longer has (GAME_RULES.md:28).
* GAME_RULES.md:46 lets the tied players call on; the code keeps the original
  caller although he may not be among them. GAME_RULES.md:47 repeats "until the
  tie breaks"; when the caller's statistics are used up no call is accepted and only
  the timeout (which costs him a life) goes on (`StallEnds`).
* A handler that throws after `clear` leaves the turn without a timer, and one
  that throws between the event row and the save leaves the log one event ahead, so
  that the next pick is refused by the unique key (`LogExplainsState` allows exactly
  this surplus).
* schema.prisma:319-320 calls `game_events` the "append-only audit log of every
  server-processed game event", for recovery. Only comparisons and timeouts are recorded
  (`game-engine.service.ts:247`, `:403`): a forfeit (:470-539), an elimination and the end of
  the match (:559-606) neither count in `eventSequence` nor leave a row, so the log tells who
  lost which life and what was called, not who holds what. `LogExplainsState` claims the
  former.
* A crash between the entry transaction and the first save leaves a game
  IN_PROGRESS, paid for and without a live state.

In rooms, lobbies and sessions:

* `RoomsService.start` sets the room IN_PROGRESS before the engine may refuse
  (coins, cards); the room is then stuck, whereas GAME_RULES calls the start atomic.
  `StartedRoomIsPlayable` lists the ways into these states and rules out others.
* A refused or failed start broadcasts nothing: the lobbies go on showing a room that
  could be started.
* A tap's answer is shown "immediately and reliably" (`lobby_screen.dart:74-80`), but a
  broadcast that lists an older state may arrive after it and stays on the screen.
* A change between the load's read and the subscription is neither in the load nor
  broadcast to the socket, and after a lost connection the lobby does not subscribe again:
  such a lobby stays as it is, and `game:starting` never reaches it. The host could
  follow the `gameId` in the answer to his start; the screen does not use it.
* Who joins while a start is under way is in the lobby, not in the game, and is called to
  it (`late`); the gateway then refuses his subscription.
* `leave` has a route and no caller in the app.
* When the answer to a registration is lost, the account exists; repeating the
  registration is answered "already taken", and the user has to log in instead.
* A launch without network shows the login page although the token is kept; only another
  launch uses it (`auth_controller.dart:34-40` says so).

In the scripts:

* The worst bowler of a pool scores 0, and `bowlingScore || battingScore`
  (`extract-cricket-data.mjs:372`) rates him by his batting, against :335-336 ("bowlers
  on bowling shape"); `RatingsFollowForm` compares these bowlers with batters only.
* A keeper is rated by his batting alone (:374), against the same comment ("all-rounders/
  keepers blend"). `RatingsFollowForm` says what the code does.
* A seed that dies between its six writes leaves part of a catalogue, which every later
  run takes for done (`seed.ts:140`).
* Looking a player up again who had a name but no photo may replace the name by nothing
  (`fetch-player-images.mjs:165-166`). With `--force` (:28, :150) everybody is looked up
  again, and a photo found before may be replaced by nothing; `LookupsAreShared` promises
  that it stays to the plain run only. Extracting again drops all names and photos (not
  modelled), and a kill in the middle of `writeFileSync` (:172, :176) may cut the file short
  (not modelled: a write is one step).
* A no-ball is not counted as a ball faced (`extract-cricket-data.mjs:201`); by the laws
  it is one.

In rooms and the wallet under load:

* Overlapping joins overfill a room, and overlapping leaves may leave it with an absent
  host; docs/ROADMAP.md:40 acknowledges it, so `AloneKeepsRoomWhole` claims only what
  holds without overlap. ROADMAP.md:39 is out of date about timeouts and forfeits.
* Debits lock wallets in seat order, so two games with the same players in
  opposite seats can block each other; Postgres aborts one start.

## 5. Proofs

TLC checks the instances of section 3. The theorems below hold for every number of
players, users, phones, cards, lives, games, requests, taps, failures, crashes and losses
of a connection, and for every set of people, formats, squads, innings, spells, workers
and seeds. Every safety and action property of section 3 is one of them.

| Module | Theorem | States |
|---|---|---|
| `GameStateLemmas` | `DealIsEven` | no two piles dealt differ by more than one card |
| `MatchProofs` | `TypeCorrect` | `TypeOK` |
| | `EmptyPilesAreOut` | `EliminatedIffEmpty` |
| | `TurnsArePlayable` | `TurnIsPlayable` |
| | `WinnerTakesAll` | `WinnerOwnsAllCards` |
| | `TiesKeepTheTable` | `TieKeepsTheTable` |
| | `KeysAdvance` | `DecisionKeyAdvances` |
| | `DealIsPartition` | the deal puts each card of the cut deck at one place |
| | `CardsAreKept` | `CardConservation` |
| | `RankingHolds` | `RankingIsTotal` |
| | `TiesAreGenuine`, `TiesAreWonByTied` | `TieIsGenuine`, `TieIsWonByTied` |
| | `AuditHolds` | `AuditNamesHoldersWhileLivesLast` |
| `GameEngineProofs` | `EngineInvariant` | `[]IInv` |
| | `PaidBeforeShownHolds` | `PaidBeforeShown` |
| | `LogExplainsStateHolds` | `LogExplainsState` |
| | `TimerGuardsUntilFault` | `TimerGuardsDecision` until the first fault |
| | `TimerGuardsDecisionHolds` | `TimerGuardsDecision` in a process without faults |
| | `LifeLostToOwnTimerHolds` | `LifeLostToOwnTimer` |
| | `StoreFollowsMatchHolds` | `StoreFollowsMatch`: the refinement of `Match` |
| `GameClientProofs` | `ClientInvariant` | `[]IInv` |
| | `QuietViewIsCurrentHolds` | `QuietViewIsCurrent` |
| `AccountsProofs` | `EntriesAllOrNoneHolds` | `EntriesAllOrNone` |
| | `EachWinnerPaidOnceHolds` | `EachWinnerPaidOnce` |
| | `LedgerExplainsUnsharedHolds` | `LedgerExplainsUnshared` |
| | `OneAccountOneRewardHolds` | `OneAccountOneReward` |
| | `SessionIsWholeHolds` | `SessionIsWhole` |
| `RoomsProofs` | `RoomInductive` | `[](MembersInv /\ StartInv)` |
| | `StartedRoomIsPlayableHolds` | `StartedRoomIsPlayable` |
| | `OneGameForGoodHolds` | `OneGameForGood` |
| | `AloneKeepsRoomWholeHolds` | `AloneKeepsRoomWhole` |
| `LobbyProofs` | `LobbyInvariant` | `[]IInv` |
| | `QuietLobbyIsCurrentHolds` | `QuietLobbyIsCurrent` |
| | `NobodyLeftBehindHolds` | `NobodyLeftBehind` |
| | `EntersOwnGameHolds` | `EntersOwnGame` |
| `CatalogueProofs` | `FiguresFollowTheRule` | `FiguresFollowCricket` |
| | `SelectableIsComparableHolds` | `SelectableIsComparable` |
| | `CareersBalanceHolds` | `CareersBalance` |
| | `BestFigureWinsHolds` | `BestFigureWins`, below 1000 runs in an innings |
| | `CardsAreComparableHolds` | `CardsAreComparable` |
| | `RatingsFollowFormHolds` | `RatingsFollowForm` |
| | `LookupsAreSharedHolds` | `LookupsAreShared` |
| | `CatalogueIsWholeHolds` | `CatalogueIsWhole` |

### Assumptions

Those of the modules, which TLC evaluates on every run: at least two players, a finite
card set with a card for each (startGame refuses less), a deck size of at least the number
of players (CreateRoomDto asks for ten), at least one life, raw values of the four shapes
StatComparison knows; in `Wallet` the seats of a game are a sequence of at least two
different users (game_players is unique on game and user) and amounts are naturals; in
`Rooms` a capacity of at least two; in `Extraction` a finite set of people and spells whose
total is at least what batter, byes and extras make of it, as a match file says; in
`Catalogue` card sets that are different formats (the list in seed.ts) and a finite number
of workers. What stands for null is no value (`NoValue`, `NoState`, `NoRoom`, `NoGame`,
`NoFigure`, `NoFile`, `NotRunning`). Two theorems assume more:
`TimerGuardsDecisionHolds` a process that does not fail, because the code claims no timer
after a restart (section 4), and `BestFigureWinsHolds` that no bowler who takes a wicket
concedes a thousand runs in an innings, because beyond that the game's score does not follow
the rule (section 3).

### The arguments

**Match.** None of the properties is inductive alone. A round reads top cards, so
it needs piles that are not empty, so the round's players must be those still in;
whether the match is over depends on who is still in, which depends on the empty
piles; a timeout takes a life that must be there. `GoodState` joins the type, "out
iff without cards", "a life for everybody still in", a playable turn while the
match runs and the winner alone at the end. There is one lemma per handler
(`TieStep`, `RoundStep`, `TimeoutStep`, `ForfeitStep` of `GameStateLemmas`), each of which
shows that the handler moves the cards well and then cites the common end. On top of it:
the piles are a *partition* of the dealt cards (each card at one place of one pile), and
every move, the reordering of a round's cards included, maps partitions to partitions;
eliminationOrder lists the eliminated players each once, which makes the ranks a
permutation although several fall in one round; the top cards of tied players have equal
values of every used statistic, which needs that a tie moves no card and that a round or a
timeout forgets the tie. The audit trail needs that a row names who gets the card in each
of the handlers that write rows, until lives run out.

**GameEngine.** The properties compare two stores at rest; the invariant has to say where
the one handler in the lock is. Because of the lock nobody else saves, so what a handler is
about to save is its own effect on what is *still* saved (`HandlerInv`): this is also the
refinement, since the save then is one handler of `Match` and everything else stutters.
`LogInv` and `ResultInv` say which row and which payment the log and the ledger have more
than the saved state in each phase (the row of the handler's own event, or one left over by
a fault, which is why a refused row must stop the handler); a failure or a crash turns "in this phase" into "for good", which is
why the weaker halves carry no condition on faults. `TimerInv` lists who will arm the
timer when none is pending.

**Wallet.** Which idempotency keys of a game are in the ledger follows from the game's
status and the winners committed (`KeysInv`, `WonInv`); an open transaction has a row for each player it is done with
unless the key was there before (`TxInv`). Aborts drop the transaction's rows and its
status change together. For the balances, a user no two transactions have touched has a
balance that nobody else changes between the read and the write (`MoneyInv`).

**Rooms.** A start knows what it has done with the game (`StartInv`: one start at a time
can be between its game row and the live state, because `games.roomId` is unique). The
properties of overlap-free rooms follow the one request in flight from its first read
(`AloneInv`).

**Lobby** and **GameClient.** Both have to show that the newest state is not lost among
older ones. The invariant is a disjunction over where it is: still to be listed or
broadcast by a handler, or on the channel with nothing after it that would overwrite
it, or shown. The history variable `outdated` is exactly what a disconnection or an
overtaking snapshot adds. In the lobby two more parts say that a call on its way leads to
a match that is dealt and that only those are missed whose socket was not in the room; in
the game, that the saved state has been through whole handlers of `Match`.

**Accounts.** Between its insert and its commit a registration holds its keys; they clash
neither with another one's nor with a row (`KeysAreHeld`). A session is whole because each
await of the AuthController has its owner's account in its hands (`HoldsOwnAccount`) and a
page that goes with its auth state (`PageFollowsAuth`).

**Comparison.** A thousand times the wickets minus fewer than a thousand runs orders
figures lexicographically (`ScoreOrders`); what may be called parses to a number
(`CallableIsComparable`).

**Extraction.** That a career's counters fit together is inductive for each career on its
own (`CareerInv`: one innings adds at most the new highest score to the runs, and so on), and
so is that the best figure is one returned and beaten by none (`BestInv`). That *all* balls
faced are all balls bowled is not: the careers change at the end of an innings only, so the
two maps of the running innings have to be together as well (`LinesTogether`), and a wicket
must be of somebody who was still in. These are sums over all people, which the script never
forms and the property does by a fold. A fold over a finite set is a recursive function on
its subsets; that such a function exists and is the only one is shown by the least
counterexample (`LeastNatural` from the well-founded order of the naturals,
`SubsetInduction`), so that sums of functions add up (`TotalAdds`) and the library's fold
is one of them (`SumsAreSums`).

**Ratings.** All ranks of a pool have one denominator, so whoever is at least as good in both
measures has at least as many below him; that needs cross-multiplied fractions to be in one
order (`RatesAreOrdered`), which needs that no rate divides by zero. A score is a share
between 0 and 1 (`WeightedIsShare`), and rounding 40 + 59 times a share stays in 40..99 and
keeps the order (`RatedInRange`, `RatedGrows`).

**Catalogue.** At most one seed gets past the first card set, because its code is unique;
what is in the database is then a function of how far that seed has come (`DbAt`), also after
it was killed. The image script's workers share an index: whoever is looked up, or still to
be, is not yet found, the results so far are as many as the index has passed minus those
under way, and what the file lacks is at most what came since the last checkpoint
(`LookupInv`).

### Only model-checked

* Liveness: `StallEnds`, `OverlaysEnd`, `LoadingEnds` and the fairness half of
  `ImplementsFairMatch` (its safety half is `StoreFollowsMatch`, which is proved).

Liveness under fairness is out of the provers' reach. No invariant and no action property
is left to TLC alone.

### What the proofs changed in the models

The receiving steps of `Lobby` were CASE expressions whose arms overlapped; TLC takes the
first, TLA+ leaves it open, and no proof could say which. They are disjoint now, in the
order of the code's early returns. The wallet's ledger became one sequence per user, since
nothing depends on the order of two users' rows, and the requests of `Lobby` are records
with the same fields at every step.

What a lookup finds (`LookupFinds`) is said to be a truth value instead of being left to the
shape of the search. The lines of an innings (`Ensured`) and a match more (`Capped`) are
operators of their own, and the sum over people of one format (`SumOver`) has its own name,
apart from that over the formats of one person. `Accounts`, whose proofs are now beside those of
the wallet, and the comparisons have names of their own for `Init`, `Next` and `Spec`.
The assumptions on people, spells, card sets and markers were implicit before.
`RatingsFollowForm` says of all-rounders, and of bowlers without a bowling score, what it
said of the others.

## 6. What is left

1. The parts section 1 leaves out: skipping of archive files and the choice of a player's
   name, country and team in the extraction, the countdown of the game screen, the create
   screen of the lobby.
2. Liveness remains with TLC, on the bounds of section 3.

## 7. Running

```
tlc -workers 2 -config match.cfg MCMatchHistory
tlapm MatchProofs.tla
```

The proof modules are `GameStateLemmas`, `MatchProofs`, `GameEngineProofs`,
`GameClientProofs`, `RoomsProofs`, `LobbyProofs`, `AccountsProofs` and `CatalogueProofs`.
`PROJECT.json` lists the module and configuration of every run, the mutation each
property must detect, and the source lines of each definition.
