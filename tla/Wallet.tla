------------------------------- MODULE Wallet -------------------------------
(***************************************************************************)
(* WalletService under the transactions GameEngineService runs it in.      *)
(* doStartGame debits every player of a game in seat order, finishGame     *)
(* credits the winner, each in one Postgres transaction.  The lock of      *)
(* GameEngine serialises the transactions of one game; those of two games  *)
(* with players in common run side by side, at Read Committed.             *)
(*                                                                         *)
(* Postgres and Prisma are external: a statement sees what was committed   *)
(* before it, an update holds the wallet's row until its transaction ends, *)
(* a transaction may be aborted at any time (deadlock, timeout, lost       *)
(* connection).                                                            *)
(***************************************************************************)
EXTENDS Integers, Sequences, SequencesExt

CONSTANTS
    User, Game,
    Seats,            \* Seats[g]: the players of game g in seat order
    EntryAmount,      \* EntryAmount[g]: room.entryAmount
    WelcomeBonus,     \* ECONOMY_WELCOME_BONUS_COINS
    WinBonus,         \* ECONOMY_MATCH_WIN_BONUS_COINS
    NoUser, NoTransaction

ASSUME GamesAssumption ==
    \A g \in Game :
        /\ Seats[g] \in Seq(User) /\ IsInjective(Seats[g]) /\ Len(Seats[g]) >= 2
        /\ EntryAmount[g] \in Nat
ASSUME AmountsAssumption == WelcomeBonus \in Nat /\ WinBonus \in Nat

\* The transaction of doStartGame and the one of finishGame, for each game.
Transaction == {"start", "finish"} \X Game
GameOf(t) == t[2]

VARIABLES
    balance,    \* wallets.balance, committed
    ledger,     \* coin_transactions of each user in commit order
    game,       \* games.status
    winner,     \* games.winnerId
    won,        \* history: the winners finishGame has committed for each game
    tx,         \* the open transactions
    rowLock,    \* the transaction that updated a wallet and has not ended
    started,    \* games whose doStartGame has run: RoomsService.start calls it once
    shared      \* history: users whom two open transactions meant to change

vars == <<balance, ledger, game, winner, won, tx, rowLock, started, shared>>

Closed == [phase |-> "closed"]
Row(key, user, amount, balanceAfter) ==
    [key |-> key, user |-> user, amount |-> amount, balanceAfter |-> balanceAfter]
Delta(key, user, amount) == [key |-> key, user |-> user, amount |-> amount]

\* creditWelcomeReward, in the transaction that creates the user.
Init ==
    /\ balance = [u \in User |-> WelcomeBonus]
    /\ ledger = [u \in User |-> <<Row(<<"welcome", u>>, u, WelcomeBonus, WelcomeBonus)>>]
    /\ game = [g \in Game |-> "WAITING"]
    /\ winner = [g \in Game |-> NoUser]
    /\ won = [g \in Game |-> {}]
    /\ tx = [t \in Transaction |-> Closed]
    /\ rowLock = [u \in User |-> NoTransaction]
    /\ started = {}
    /\ shared = {}

-----------------------------------------------------------------------------
DeductGameEntries(g) ==
    [i \in 1..Len(Seats[g]) |->
        Delta(<<"entry", g, Seats[g][i]>>, Seats[g][i], -EntryAmount[g])]

TotalReward(g) == EntryAmount[g] * Len(Seats[g]) + WinBonus

CreditGameReward(g, w) ==
    IF TotalReward(g) > 0 THEN <<Delta(<<"reward", g, w>>, w, TotalReward(g))>> ELSE <<>>

ChangedBy(deltas) == {deltas[i].user : i \in DOMAIN deltas}

\* The users an open transaction has changed or is going to change.
Touched(t) ==
    IF tx[t] = Closed THEN {}
    ELSE ChangedBy(tx[t].todo) \cup {u \in User : tx[t].rows[u] # <<>>}

Open(t, deltas, w) ==
    /\ \A k \in {"start", "finish"} : tx[<<k, GameOf(t)>>] = Closed   \* GameLockService
    /\ tx' = [tx EXCEPT ![t] =
                [phase |-> "read", winner |-> w, todo |-> deltas, seen |-> 0,
                 rows |-> [u \in User |-> <<>>]]]
    /\ shared' = shared \cup (ChangedBy(deltas) \cap UNION {Touched(o) : o \in Transaction})

BeginStart(g) ==
    /\ g \notin started
    /\ started' = started \cup {g}
    /\ Open(<<"start", g>>, DeductGameEntries(g), NoUser)
    /\ UNCHANGED <<balance, ledger, game, winner, won, rowLock>>

\* finishGame looks at nothing: it runs again when saving its result to Redis failed,
\* for the same winner or for whoever wins the match that went on.  Its callers have
\* loaded a state, which doStartGame saves after its transaction.
BeginFinish(g, w) ==
    /\ game[g] # "WAITING"
    /\ Open(<<"finish", g>>, CreditGameReward(g, w), w)
    /\ UNCHANGED <<balance, ledger, game, winner, won, rowLock, started>>

End(t) ==
    /\ tx' = [tx EXCEPT ![t] = Closed]
    /\ rowLock' = [u \in User |-> IF rowLock[u] = t THEN NoTransaction ELSE rowLock[u]]
    /\ UNCHANGED <<started, shared>>

\* Nothing the transaction did remains.
Abort(t) ==
    /\ tx[t] # Closed
    /\ End(t)
    /\ UNCHANGED <<balance, ledger, game, winner, won>>

-----------------------------------------------------------------------------
(***************************************************************************)
(* applyDelta: look the idempotency key up, read the balance, write it and *)
(* the coin_transactions row.                                              *)
(***************************************************************************)
Applied(d) == \E i \in DOMAIN ledger[d.user] : ledger[d.user][i].key = d.key

At(t, phase) == tx[t] # Closed /\ tx[t].phase = phase /\ tx[t].todo # <<>>

Skip(t) ==
    /\ At(t, "read")
    /\ Applied(Head(tx[t].todo))
    /\ tx' = [tx EXCEPT ![t].todo = Tail(@)]
    /\ UNCHANGED <<balance, ledger, game, winner, won, rowLock, started, shared>>

\* Mutant: the key is not looked up.
ReadWithoutKey(t) ==
    /\ At(t, "read")
    /\ LET d == Head(tx[t].todo)
       IN  /\ balance[d.user] + d.amount >= 0
           /\ tx' = [tx EXCEPT ![t].phase = "write", ![t].seen = balance[d.user]]
    /\ UNCHANGED <<balance, ledger, game, winner, won, rowLock, started, shared>>

Read(t) ==
    /\ At(t, "read")
    /\ LET d == Head(tx[t].todo)
       IN  /\ ~Applied(d)
           /\ balance[d.user] + d.amount >= 0
           /\ tx' = [tx EXCEPT ![t].phase = "write", ![t].seen = balance[d.user]]
    /\ UNCHANGED <<balance, ledger, game, winner, won, rowLock, started, shared>>

\* Mutant: a player who can not pay is let in free.
RefuseOnlyHim(t) ==
    /\ At(t, "read")
    /\ LET d == Head(tx[t].todo)
       IN  ~Applied(d) /\ balance[d.user] + d.amount < 0
    /\ tx' = [tx EXCEPT ![t].todo = Tail(@)]
    /\ UNCHANGED <<balance, ledger, game, winner, won, rowLock, started, shared>>

\* PAYMENT_REQUIRED rolls the whole transaction back.
Refuse(t) ==
    /\ At(t, "read")
    /\ LET d == Head(tx[t].todo)
       IN  ~Applied(d) /\ balance[d.user] + d.amount < 0
    /\ End(t)
    /\ UNCHANGED <<balance, ledger, game, winner, won>>

WriteRow(t) ==
    LET d == Head(tx[t].todo)
    IN  tx' = [tx EXCEPT ![t].phase = "read",
                         ![t].todo = Tail(@),
                         ![t].rows[d.user] = Append(@, Row(d.key, d.user, d.amount,
                                                           tx[t].seen + d.amount))]

\* Mutant: the wallet is updated outside the transaction.
WriteThrough(t) ==
    /\ At(t, "write")
    /\ LET d == Head(tx[t].todo)
       IN  /\ rowLock[d.user] = NoTransaction
           /\ balance' = [balance EXCEPT ![d.user] = tx[t].seen + d.amount]
    /\ WriteRow(t)
    /\ UNCHANGED <<ledger, game, winner, won, rowLock, started, shared>>

\* The update waits for the row and then writes the absolute balance computed
\* from what was read.
Write(t) ==
    /\ At(t, "write")
    /\ LET d == Head(tx[t].todo)
       IN  /\ rowLock[d.user] = NoTransaction
           /\ rowLock' = [rowLock EXCEPT ![d.user] = t]
    /\ WriteRow(t)
    /\ UNCHANGED <<balance, ledger, game, winner, won, started, shared>>

Commit(t) ==
    /\ tx[t] # Closed
    /\ tx[t].todo = <<>>
    /\ ledger' = [u \in User |-> ledger[u] \o tx[t].rows[u]]
    /\ balance' = [u \in User |-> IF tx[t].rows[u] = <<>> THEN balance[u]
                                  ELSE Last(tx[t].rows[u]).balanceAfter]
    /\ End(t)

CommitStart(g) ==
    /\ Commit(<<"start", g>>)
    /\ game' = [game EXCEPT ![g] = "IN_PROGRESS"]
    /\ UNCHANGED <<winner, won>>

CommitFinish(g) ==
    /\ Commit(<<"finish", g>>)
    /\ game' = [game EXCEPT ![g] = "FINISHED"]
    /\ winner' = [winner EXCEPT ![g] = tx[<<"finish", g>>].winner]
    /\ won' = [won EXCEPT ![g] = @ \cup {tx[<<"finish", g>>].winner}]

Next ==
    \/ \E g \in Game : BeginStart(g) \/ CommitStart(g) \/ CommitFinish(g)
    \/ \E g \in Game : \E w \in ToSet(Seats[g]) : BeginFinish(g, w)
    \/ \E t \in Transaction : Skip(t) \/ Read(t) \/ Refuse(t) \/ Write(t) \/ Abort(t)

Spec == Init /\ [][Next]_vars

-----------------------------------------------------------------------------
RowAmounts(rows) == FoldLeft(LAMBDA sum, r : sum + r.amount, 0, rows)

Rows(kind, g, u) == {n \in DOMAIN ledger[u] : ledger[u][n].key = <<kind, g, u>>}

Once(kind, g, u, amount) ==
    \E n \in DOMAIN ledger[u] : Rows(kind, g, u) = {n} /\ ledger[u][n].amount = amount

\* WalletService "every change is a new coin_transactions row plus the resulting
\* balance, written together": the rows add up to the balance of every wallet.
LedgerExplainsBalance == \A u \in User : RowAmounts(ledger[u]) = balance[u]

\* It is so, row by row, for whoever was never in two open transactions, whatever
\* was refused, aborted or repeated in between: each row leaves what the one before
\* left and its own amount, the last one the balance; and nobody spends what he has not.
LedgerExplainsUnshared ==
    \A u \in User \ shared :
        LET rows == ledger[u]
        IN  /\ Last(rows).balanceAfter = balance[u]
            /\ \A n \in DOMAIN rows :
                  /\ rows[n].balanceAfter =
                        rows[n].amount + IF n = 1 THEN 0 ELSE rows[n - 1].balanceAfter
                  /\ rows[n].balanceAfter >= 0

\* A game is paid for by all its players exactly once or by nobody, also when one
\* of them could not pay or the transaction died between two of them.
EntriesAllOrNone ==
    \A g \in Game : \A u \in ToSet(Seats[g]) :
        IF game[g] = "WAITING" THEN Rows("entry", g, u) = {}
        ELSE Once("entry", g, u, -EntryAmount[g])

\* ECONOMY "double reward": whomever finishGame has committed as a game's winner got its
\* pool and the bonus once, however often it ran again after failed saves, for him or for
\* others; nobody else got anything, and a game is over exactly when it has a winner.
\* (That one game may come to have two winners is GameEngine's SingleReward.)
EachWinnerPaidOnce ==
    \A g \in Game :
        /\ IF game[g] = "FINISHED" THEN winner[g] \in won[g] ELSE won[g] = {}
        /\ \A u \in ToSet(Seats[g]) :
              IF u \in won[g] /\ TotalReward(g) > 0
              THEN Once("reward", g, u, TotalReward(g))
              ELSE Rows("reward", g, u) = {}
=============================================================================
