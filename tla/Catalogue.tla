----------------------------- MODULE Catalogue ------------------------------
(***************************************************************************)
(* From the match archives to the rows of the game: the extraction writes  *)
(* cricket-data.json, fetch-player-images.mjs looks the players up and     *)
(* writes what it found back, prisma-seed/seed.ts fills the database.  The *)
(* scripts run one after the other: the extraction once and to its end;    *)
(* the image script and the seed may be stopped between two steps and run  *)
(* again, and two deployments may seed the database at once.  A write of   *)
(* the file is one step: that a kill may cut a writeFileSync is left out,  *)
(* and so is a second extraction, which makes a new file with nobody found.*)
(*                                                                         *)
(* Wikipedia and Postgres are external: a lookup finds name and photo or   *)
(* not (nothing, the name alone, a failure: such a player is looked up     *)
(* again); a create or a createMany is done as a whole or not at all.      *)
(***************************************************************************)
EXTENDS Extraction, SequencesExt

CONSTANTS
    CARD_SETS,          \* the formats that become card sets, in the order of seed.ts
    Worker,             \* CONCURRENCY
    CheckpointEvery,    \* lookups between two writes of the file
    Seeder,             \* runs of seed.ts at the same time
    NoFile, NotRunning,
    MaxStops            \* bound: scripts killed

ASSUME CatalogueAssumption ==
    /\ CARD_SETS \in Seq(Format) /\ CARD_SETS # <<>> /\ IsInjective(CARD_SETS)
    /\ IsFiniteSet(Worker)
    /\ CheckpointEvery \in Nat \ {0}
    /\ \A S \in SUBSET Person : NoFile \notin [S -> [cards : SUBSET Format, found : BOOLEAN]]
    /\ NotRunning \notin [step : {"sets", "players", "statistics", "cards"}, set : Nat]

VARIABLES
    file,      \* cricket-data.json: of each player his formats, and if name and photo were found
    fetch,     \* the running image script
    seeder,    \* the running seeds
    db,        \* card_sets, players, player_statistics, cards
    stops,
    stopped    \* history: a seed was killed

scripts == <<file, fetch, seeder, db, stops, stopped>>
vars == <<agg, innings, played, spells, figures, file, fetch, seeder, db, stops, stopped>>

Init ==
    /\ ExtractionInit
    /\ file = NoFile
    /\ fetch = NotRunning
    /\ seeder = [s \in Seeder |-> NotRunning]
    /\ db = [cardSets |-> {}, players |-> {}, statistics |-> {}, cards |-> {}]
    /\ stops = 0
    /\ stopped = FALSE

\* The pools become the players of the file; the script ends and with it its memory.
WriteFile ==
    /\ file = NoFile
    /\ innings = NoInnings
    /\ played = MaxInnings
    /\ \E pool \in [Format -> UNION {Pools(f) : f \in Format}] :
          /\ \A f \in Format : pool[f] \in Pools(f)
          /\ file' = [p \in UNION {pool[f] : f \in Format} |->
                        [cards |-> {f \in Format : p \in pool[f]}, found |-> FALSE]]
    /\ agg' = [f \in Format |-> [p \in Person |-> newBattingAgg]]
    /\ figures' = [f \in Format |-> [p \in Person |-> {}]]
    /\ spells' = 0
    /\ UNCHANGED <<innings, played, fetch, seeder, db, stops, stopped>>

-----------------------------------------------------------------------------
(***************************************************************************)
(* The image script: the workers share one index, and every                *)
(* CheckpointEvery results the whole file is written.                      *)
(***************************************************************************)
\* --force looks everybody up again, also who was found.
Pending(data, force) == {p \in DOMAIN data : force \/ ~data[p].found}

NobodySeeds == \A s \in Seeder : seeder[s] = NotRunning

BeginFetch(force) ==
    /\ file # NoFile /\ fetch = NotRunning
    /\ NobodySeeds /\ db.cardSets = {}
    /\ Pending(file, force) # {}
    /\ fetch' = [force |-> force, data |-> file, pending |-> SetToSeq(Pending(file, force)),
                 next |-> 1, looksUp |-> [w \in Worker |-> 0], checked |-> 0]
    /\ UNCHANGED <<extraction, file, seeder, db, stops, stopped>>

\* Mutant: the index moves on when the result is there.
TakeWithoutMoving(w) ==
    /\ fetch # NotRunning
    /\ fetch.looksUp[w] = 0
    /\ fetch.next <= Len(fetch.pending)
    /\ fetch' = [fetch EXCEPT !.looksUp[w] = fetch.next]
    /\ UNCHANGED <<extraction, file, seeder, db, stops, stopped>>

\* mapWithConcurrency's worker: it looks at the index and moves it before it awaits.
Take(w) ==
    /\ fetch # NotRunning
    /\ fetch.looksUp[w] = 0
    /\ fetch.next <= Len(fetch.pending)
    /\ fetch' = [fetch EXCEPT !.looksUp[w] = fetch.next, !.next = @ + 1]
    /\ UNCHANGED <<extraction, file, seeder, db, stops, stopped>>

\* What a title of a search turns out to be.
Candidate == {"no cricketer", "other country", "name", "name and photo"}

\* The titles of the second query count if the first has none; the first title that
\* passes is taken, whether or not it has a photo.
findCricketerMatch(queries) ==
    LET titles == IF queries[1] # <<>> THEN queries[1] ELSE queries[2]
        Passes(c) == c \in {"name", "name and photo"}
    IN  FoldRight(LAMBDA c, later : IF Passes(c) THEN c ELSE later, titles, "nothing")

\* Two titles a query show every outcome (the script looks at up to four); a lookup
\* that throws finds nothing either.
LookupFinds ==
    {found \in BOOLEAN : \E first, second \in SeqOf(Candidate, 2) :
        found <=> findCricketerMatch(<<first, second>>) = "name and photo"}

FindMatch(w, found) ==
    /\ fetch # NotRunning
    /\ fetch.looksUp[w] # 0
    /\ LET p == fetch.pending[fetch.looksUp[w]]
           data == [fetch.data EXCEPT ![p].found = found]
           checked == fetch.checked + 1
       IN  /\ fetch' = [fetch EXCEPT !.data = data, !.looksUp[w] = 0, !.checked = checked]
           /\ file' = IF checked % CheckpointEvery = 0 THEN data ELSE file
    /\ UNCHANGED <<extraction, seeder, db, stops, stopped>>

EndFetch ==
    /\ fetch # NotRunning
    /\ fetch.next > Len(fetch.pending)
    /\ \A w \in Worker : fetch.looksUp[w] = 0
    /\ file' = fetch.data
    /\ fetch' = NotRunning
    /\ UNCHANGED <<extraction, seeder, db, stops, stopped>>

StopFetch ==
    /\ fetch # NotRunning
    /\ stops < MaxStops
    /\ fetch' = NotRunning
    /\ stops' = stops + 1
    /\ UNCHANGED <<extraction, file, seeder, db, stopped>>

-----------------------------------------------------------------------------
(***************************************************************************)
(* seed.ts: the card sets one by one, then all players, all statistics and *)
(* all cards, with ids made up beforehand (here by the run).               *)
(***************************************************************************)
SeedFormats(p) == file[p].cards \cap ToSet(CARD_SETS)
SeedPlayers == {p \in DOMAIN file : SeedFormats(p) # {}}
SeedCards == UNION {{p} \X SeedFormats(p) : p \in SeedPlayers}

Seeds(s, step) == seeder[s] # NotRunning /\ seeder[s].step = step

Running(step) == [step |-> step, set |-> 1]

NextSet(s) ==
    IF seeder[s].set = Len(CARD_SETS) THEN Running("players")
    ELSE [seeder[s] EXCEPT !.set = @ + 1]

SeedGoes(s, to) ==
    /\ seeder' = [seeder EXCEPT ![s] = to]
    /\ UNCHANGED <<extraction, file, fetch, stops, stopped>>

\* A database with card sets is left alone.
BeginSeed(s) ==
    /\ seeder[s] = NotRunning
    /\ file # NoFile /\ fetch = NotRunning
    /\ db.cardSets = {}
    /\ SeedGoes(s, Running("sets"))
    /\ UNCHANGED db

\* Mutant: the code of a card set is not unique.
CreateCardSetAgain(s) ==
    /\ Seeds(s, "sets")
    /\ db' = [db EXCEPT !.cardSets = @ \cup {CARD_SETS[seeder[s].set]}]
    /\ SeedGoes(s, NextSet(s))

\* card_sets.code is unique: the seed that comes second throws.
CreateCardSet(s) ==
    /\ Seeds(s, "sets")
    /\ LET code == CARD_SETS[seeder[s].set]
       IN  IF code \in db.cardSets
           THEN SeedGoes(s, NotRunning) /\ UNCHANGED db
           ELSE /\ db' = [db EXCEPT !.cardSets = @ \cup {code}]
                /\ SeedGoes(s, NextSet(s))

CreatePlayers(s) ==
    /\ Seeds(s, "players")
    /\ db' = [db EXCEPT !.players = @ \cup ({s} \X SeedPlayers)]
    /\ SeedGoes(s, Running("statistics"))

CreateStatistics(s) ==
    /\ Seeds(s, "statistics")
    /\ db' = [db EXCEPT !.statistics = @ \cup ({s} \X SeedCards)]
    /\ SeedGoes(s, Running("cards"))

CreateCards(s) ==
    /\ Seeds(s, "cards")
    /\ db' = [db EXCEPT !.cards = @ \cup ({s} \X SeedCards)]
    /\ SeedGoes(s, NotRunning)

StopSeed(s) ==
    /\ seeder[s] # NotRunning
    /\ stops < MaxStops
    /\ stops' = stops + 1
    /\ stopped' = TRUE
    /\ seeder' = [seeder EXCEPT ![s] = NotRunning]
    /\ UNCHANGED <<extraction, file, fetch, db>>

Next ==
    \/ ExtractionNext /\ UNCHANGED scripts
    \/ WriteFile
    \/ \E force \in BOOLEAN : BeginFetch(force)
    \/ EndFetch \/ StopFetch
    \/ \E w \in Worker : Take(w)
    \/ \E w \in Worker, found \in LookupFinds : FindMatch(w, found)
    \/ \E s \in Seeder :
          \/ BeginSeed(s) \/ CreateCardSet(s)
          \/ CreatePlayers(s) \/ CreateStatistics(s) \/ CreateCards(s)
          \/ StopSeed(s)

Spec == Init /\ [][Next]_vars

-----------------------------------------------------------------------------
Looking == {w \in Worker : fetch.looksUp[w] # 0}

\* The workers share an index without a lock: nobody is looked up twice or left out,
\* and if the script is stopped fewer than CheckpointEvery results are lost; whoever was
\* found with name and photo by an earlier run stays found unless the run is a forced one,
\* which overwrites what it looks up again with whatever it finds now, or with nothing.
LookupsAreShared ==
    fetch # NotRunning =>
        /\ fetch.checked + Cardinality(Looking) = fetch.next - 1
        /\ \A v, w \in Looking : fetch.looksUp[v] = fetch.looksUp[w] => v = w
        /\ Cardinality({p \in DOMAIN file : fetch.data[p] # file[p]}) < CheckpointEvery
        /\ ~fetch.force => \A p \in DOMAIN file : file[p].found => fetch.data[p].found

\* Two seeds at once and seeds cut short: no player has two cards of a set, no card
\* hangs in the air, and unless a seed was killed the sets are there with all the
\* cards of the file or not at all, and nobody in players is without a card.
CatalogueIsWhole ==
    /\ \A c, d \in db.cards : c[2] = d[2] => c = d
    /\ db.cards \subseteq db.statistics
    /\ \A row \in db.statistics : <<row[1], row[2][1]>> \in db.players /\ row[2][2] \in db.cardSets
    /\ (NobodySeeds /\ ~stopped /\ db.cardSets # {}) =>
          /\ db.cardSets = ToSet(CARD_SETS)
          /\ {c[2] : c \in db.cards} = SeedCards
          /\ {row[2] : row \in db.players} = {c[2][1] : c \in db.cards}
=============================================================================
