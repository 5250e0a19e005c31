------------------------------ MODULE Hindsight ------------------------------
(***************************************************************************)
(* What a number of the engine may know.  Training rows and their cutoff   *)
(* (ingest/snapshot.py), the seal, its grade and its void (artifacts.py),  *)
(* the on-demand analysis (core/analysis.py), the notebook (facts/engine)  *)
(* and the tournament replay with its two layers (core and server          *)
(* retrospective.py).                                                      *)
(*                                                                         *)
(* Time counts hours of short days.  A kickoff is recorded exactly, or as  *)
(* the midnight of its day; one second before it is anything earlier.  A   *)
(* pack is a commit of the public results; an index is built of a pack.    *)
(* Fits and their numbers are left out: of a read there remains which      *)
(* results it was fitted on.  Seals of one family.                         *)
(***************************************************************************)
EXTENDS Naturals, FiniteSets

CONSTANTS
    Games,       \* the fixtures, each with its record
    Game,        \* kick, exact, source, club, league, teams
    Tournament,  \* the games of the replayed tournament
    Hours,       \* hours of a day
    Floor,       \* MIN_TEAM_MATCHES
    NoTime,
    Unrecorded,  \* what the meta of an older index says of its pack
    MaxClock, MaxPacks, MaxArtifacts  \* bounds

ASSUME HindsightAssumption ==
    /\ Tournament \subseteq Games /\ IsFiniteSet(Games)
    /\ \A g \in Games : Game[g].kick \in Nat /\ Game[g].exact \in BOOLEAN
    /\ Hours \in Nat \ {0} /\ Floor \in Nat
    /\ \A n \in {MaxClock, MaxPacks, MaxArtifacts} : n \in Nat

VARIABLES
    clock,
    pack,      \* the active pack
    index,     \* the index that is served
    ledger,    \* the artifacts on disk
    audit,     \* the artifacts audit.jsonl names
    writing,   \* the artifact that is being written
    retro,     \* the tournament replay under way
    memo,      \* its memo
    answer     \* what the last step answered

sealVars == <<ledger, audit, writing>>
retroVars == <<retro, memo>>
hindVars == <<clock, pack, index, sealVars, retroVars, answer>>

Resting == [at |-> "idle"]
NoAnswer == [kind |-> "none"]

DayOf(t) == t \div Hours
Midnight(g) == DayOf(Game[g].kick) * Hours

\* The kickoff as it is recorded: with_day_precision_kickoff puts a date that
\* comes alone at its midnight.
Recorded(g) == IF Game[g].exact THEN Game[g].kick ELSE Midnight(g)

HindInit ==
    /\ clock = 0
    /\ pack = [no |-> 0, at |-> 0, rows |-> {}]
    /\ \E of \in {0, Unrecorded} : index = [epoch |-> 0, of |-> of, rows |-> {}]
    /\ ledger = {} /\ audit = {} /\ writing = Resting
    /\ retro = Resting /\ memo = {}
    /\ answer = NoAnswer

-------------------------------------------------------------------------------
(* The world, and what is downloaded of it. *)

Ticks ==
    /\ clock < MaxClock
    /\ clock' = clock + 1
    /\ answer' = NoAnswer
    /\ UNCHANGED <<pack, index, sealVars, retroVars>>

\* A refresh activates a generation: first its pack is the active one.  A result
\* is published, and downloaded, some time after its game ...
Activates ==
    /\ index.epoch = pack.no
    /\ pack.no < MaxPacks
    /\ clock > pack.at
    /\ \E rows \in SUBSET {g \in Games : Game[g].kick < clock} :
          /\ pack.rows \subseteq rows
          /\ pack' = [no |-> pack.no + 1, at |-> clock, rows |-> rows]
    /\ answer' = NoAnswer
    /\ UNCHANGED <<clock, index, sealVars, retroVars>>

\* ... then the index is repointed, or back to that of the installation when
\* the generation's has an old schema.
Repoints ==
    /\ index.epoch # pack.no
    /\ \E superseded \in BOOLEAN :
          index' = IF superseded THEN [epoch |-> pack.no, of |-> 0, rows |-> {}]
                   ELSE [epoch |-> pack.no, of |-> pack.at, rows |-> pack.rows]
    /\ memo' = {}
    /\ answer' = NoAnswer
    /\ UNCHANGED <<clock, pack, sealVars, retro>>

-------------------------------------------------------------------------------
(* The training view. *)

\* _scope_to_fixture_source.
Scoped(rows, g) ==
    {r \in rows : /\ Game[r].source = Game[g].source
                  /\ Game[g].club => Game[r].league = Game[g].league}

\* Mutant: a cutoff on the calendar day.
SameDayView(rows, g, asOf) ==
    {r \in Scoped(rows, g) \ {g} : Midnight(r) <= Midnight(g)}

\* leak_safe_training_view: at or before the second before the kickoff, and
\* what is known at asOf; the game itself is left out.
TrainingView(rows, g, asOf) ==
    {r \in Scoped(rows, g) \ {g} :
        Recorded(r) < Recorded(g) /\ (asOf # NoTime => Recorded(r) <= asOf)}

\* Both sides need a history; the window of eight years is wider than a model.
Abstains(rows, g) ==
    \E t \in Game[g].teams : Cardinality({r \in rows : t \in Game[r].teams}) < Floor

-------------------------------------------------------------------------------
(* Seals. *)

Roots == {a \in ledger : a.status \in {"sealed", "abstained"}}

Writes(artifact) ==
    /\ Cardinality(ledger) < MaxArtifacts
    /\ writing' = [at |-> "file", artifact |-> artifact]
    /\ answer' = NoAnswer
    /\ UNCHANGED <<clock, pack, index, ledger, audit, retroVars>>

\* build_forecast_artifact.
Seals(g) ==
    /\ writing = Resting
    /\ pack.at <= clock
    /\ g \notin pack.rows
    /\ clock < Recorded(g)
    /\ LET train == TrainingView(pack.rows, g, clock) IN
       Writes([status |-> IF Abstains(train, g) THEN "abstained" ELSE "sealed",
               game |-> g, at |-> clock, train |-> train, anchors |-> {pack.at},
               of |-> NoTime])

\* score_forecast: only a seal, from a commit newer than all it rests on.
Scores(a) ==
    /\ writing = Resting
    /\ a.status = "sealed"
    /\ \A t \in a.anchors : pack.at > t
    /\ a.game \in pack.rows
    /\ Writes([a EXCEPT !.status = "scored", !.anchors = @ \cup {pack.at}, !.of = a.at])

\* void_forecast.
Voids(a) ==
    /\ writing = Resting
    /\ a.status \in {"sealed", "abstained"}
    /\ Writes([a EXCEPT !.status = "voided", !.of = a.at])

\* The file is replaced whole; the same bytes are not written again.
FileIsWritten ==
    /\ writing.at = "file"
    /\ ledger' = ledger \cup {writing.artifact}
    /\ writing' = [writing EXCEPT !.at = "audit"]
    /\ answer' = NoAnswer
    /\ UNCHANGED <<clock, pack, index, audit, retroVars>>

AuditIsWritten ==
    /\ writing.at = "audit"
    /\ audit' = audit \cup {writing.artifact}
    /\ writing' = Resting
    /\ answer' = NoAnswer
    /\ UNCHANGED <<clock, pack, index, ledger, retroVars>>

\* The shell kills the sidecar on every exit.
Killed ==
    /\ writing # Resting \/ retro # Resting
    /\ writing' = Resting /\ retro' = Resting /\ memo' = {} /\ answer' = NoAnswer
    /\ UNCHANGED <<clock, pack, index, ledger, audit>>

-------------------------------------------------------------------------------
(* Reads of the index. *)

\* build_match_analysis: a replay of a game that has its result, or a preview.
Analyses(g) ==
    LET train == TrainingView(index.rows, g, NoTime) IN
    /\ answer' = [kind |-> "analysis", game |-> g, train |-> train,
                  replay |-> g \in index.rows, abstained |-> Abstains(train, g)]
    /\ UNCHANGED <<clock, pack, index, sealVars, retroVars>>

\* The notebook of a game: results by their kickoff, goals and shootouts,
\* which internationals alone have, by their date.
ReadsNotebook(g) ==
    /\ answer' = [kind |-> "notebook", game |-> g,
                  train |-> {r \in index.rows : /\ Game[r].source = Game[g].source
                                                /\ Recorded(r) < Recorded(g)},
                  events |-> IF Game[g].club THEN {}
                             ELSE {r \in index.rows : /\ ~Game[r].club
                                                      /\ Midnight(r) < Recorded(g)}]
    /\ UNCHANGED <<clock, pack, index, sealVars, retroVars>>

-------------------------------------------------------------------------------
(* The tournament replay: build. *)

\* _same_day_proxy_count: rows of the day that have no exact kickoff.
Proxies(train, g) ==
    {r \in train : ~Game[r].exact /\ Midnight(r) = DayOf(Recorded(g)) * Hours}

Story(rows) ==
    [g \in Tournament \cap rows |->
        LET train == TrainingView(rows, g, NoTime) IN
        [train |-> train, proxies |-> Cardinality(Proxies(train, g))]]

\* _snapshot_agreement: a pack that cannot be read has no digest.
Agreement(of, readable, p) ==
    IF ~readable \/ of = Unrecorded THEN "unverified"
    ELSE IF of # p.at THEN "mismatched" ELSE "verified"

\* SnapshotReader.read takes the index ...
RetroStarts ==
    /\ retro = Resting
    /\ retro' = [at |-> "snapshot", index |-> index]
    /\ answer' = NoAnswer
    /\ UNCHANGED <<clock, pack, index, sealVars, memo>>

\* ... then the key, which holds the pack: a hit answers at once.
RetroKeys ==
    /\ retro.at = "snapshot"
    /\ \E readable \in BOOLEAN :
        LET known == {e \in memo : e.pack = pack /\ e.readable = readable
                                     /\ e.epoch = retro.index.epoch}
        IN  \/ /\ known = {}
               /\ retro' = [at |-> "compute", index |-> retro.index, pack |-> pack,
                            readable |-> readable]
               /\ answer' = NoAnswer
            \/ /\ known # {}
               /\ retro' = Resting
               /\ IF index = retro.index THEN answer' \in {e.answer : e \in known}
                  ELSE answer' = NoAnswer
    /\ UNCHANGED <<clock, pack, index, sealVars, memo>>

\* The pack of the key is the one the trust layer evaluates.
Trusted(held) == held

\* The layers are published if the index is still the one that was taken.
\* The fold of a pack without the tournament cannot be evaluated.
RetroComputes ==
    /\ retro.at = "compute"
    /\ LET story == Story(retro.index.rows)
           trust == Trusted(retro.pack).rows
           result == [kind |-> "retro", story |-> story, from |-> retro.index.rows,
                      trust |-> IF retro.readable /\ trust \cap Tournament # {}
                                THEN trust ELSE {},
                      agreement |-> Agreement(retro.index.of, retro.readable, retro.pack)]
       IN  IF index = retro.index
           THEN /\ memo' = memo \cup {[pack |-> retro.pack, readable |-> retro.readable,
                                       epoch |-> index.epoch, answer |-> result]}
                /\ answer' = result
           ELSE answer' = NoAnswer /\ UNCHANGED memo
    /\ retro' = Resting
    /\ UNCHANGED <<clock, pack, index, sealVars>>

WorldNext == Ticks \/ Activates \/ Repoints

SealNext ==
    \/ \E g \in Games : Seals(g)
    \/ \E a \in ledger : Scores(a) \/ Voids(a)
    \/ FileIsWritten \/ AuditIsWritten

ReadNext ==
    \/ \E g \in Games : Analyses(g) \/ ReadsNotebook(g)
    \/ RetroStarts \/ RetroKeys \/ RetroComputes

HindNext == WorldNext \/ SealNext \/ ReadNext \/ Killed

HindSpec == HindInit /\ [][HindNext]_hindVars

-------------------------------------------------------------------------------
(* Properties. *)

\* What may stand in the history of g: a game of its own source that began
\* earlier - or one that is known by its date alone and is of the same day;
\* what trains a model is also of its league.
Before(r, g) == Game[r].kick < Game[g].kick
SameDayProxy(r, g) == ~Game[r].exact /\ DayOf(Game[r].kick) = DayOf(Game[g].kick)

EarlierOnly(train, g) ==
    /\ g \notin train
    /\ \A r \in train :
          /\ Game[r].source = Game[g].source
          /\ Before(r, g) \/ SameDayProxy(r, g)

HonestHistory(train, g) ==
    /\ EarlierOnly(train, g)
    /\ Game[g].club => \A r \in train : Game[r].league = Game[g].league

\* Nothing that is published was learned from a result of its own future
\* (snapshot.py: "The fixture's own row can never train its own forecast"): a
\* seal knows only games that were over when it was made and was made before
\* its game, its grade comes of a later commit, its audit line never comes
\* before it; a replay says of each game how many results of the day it cannot
\* prove earlier, and all that it cannot prove earlier are among them.
NothingFromTheFuture ==
    /\ audit \subseteq ledger
    /\ \A a \in ledger :
          /\ HonestHistory(a.train, a.game)
          /\ a.at < Game[a.game].kick
          /\ \A r \in a.train : Game[r].kick < a.at
          /\ a.status = "scored" =>
                \E t \in a.anchors : t > Game[a.game].kick /\ t > a.at
    /\ answer.kind = "analysis" => HonestHistory(answer.train, answer.game)
    /\ answer.kind = "notebook" => EarlierOnly(answer.train, answer.game)
    /\ answer.kind = "retro" =>
          \A g \in DOMAIN answer.story :
              LET train == answer.story[g].train IN
              /\ HonestHistory(train, g)
              /\ answer.story[g].proxies >=
                     Cardinality({r \in train : ~Before(r, g)})

\* The two layers of the tournament replay are called one snapshot only when
\* they are (retrospective.py: "CHECKED here, never assumed"), whatever was
\* activated, repointed or remembered meanwhile.
VerifiedIsOneSnapshot ==
    (answer.kind = "retro" /\ answer.agreement = "verified") =>
        answer.trust = (IF answer.from \cap Tournament # {} THEN answer.from ELSE {})

HindsightIsHonest == NothingFromTheFuture /\ VerifiedIsOneSnapshot

\* What matches.py:13 says of a notebook that is computed on demand ("cannot
\* leak the future"): no goal in it is of the game itself.
NotebookIsBlind ==
    answer.kind = "notebook" => answer.game \notin answer.events
===============================================================================
