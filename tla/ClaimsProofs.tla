----------------------------- MODULE ClaimsProofs -----------------------------
(***************************************************************************)
(* What a number of the engine may know (Hindsight), for every set of      *)
(* games, any calendar and any number of packs and artifacts; what a local *)
(* annotation and an export say (Corrections), for any proposals, values,  *)
(* texts and handlers; what is shown of a reply (Narration), for any       *)
(* bundle; the bundle itself (Notebook), for any games; the lookups at the *)
(* provider (Provider); and a season (Season), for any league.             *)
(*                                                                         *)
(* HindsightIsHonest is not inductive.  What will be in the ledger is      *)
(* carried by the write under way, and what will be answered by the memo   *)
(* of the replay, so both are held to the same standard.  A seal is older  *)
(* than its game only because every row of a pack is older than the pack.  *)
(* And a verified replay compares stamps, not rows: it needs that an index *)
(* whose stamp is that of the active pack has its rows, also for the index *)
(* a replay took some time ago (Stamped).                                  *)
(*                                                                         *)
(* CorrectionsHold is not inductive either.  A verdict is committed later  *)
(* than it was reached, so a handler whose proposal has not moved must     *)
(* still see its content (Sees), and what it will pass already counts as   *)
(* standing (OneStands).  An export is recorded later than it was made,    *)
(* so the exports in the making are held to what those of the table are:   *)
(* one with the head of its proposal shows it (ExportsFit).                *)
(*                                                                         *)
(* ReadIsBacked speaks of the reply as the model wrote it, the review of   *)
(* the repaired one.  The two meet in the references that are chosen: they *)
(* all share a source with what the repaired sentence cites, so the review *)
(* keeps them all (FinalFits), and they display exactly the numbers that   *)
(* are backed (TokensBacked).                                              *)
(*                                                                         *)
(* That a bundle can be quoted needs no arithmetic: a candidate cites the  *)
(* pack whatever its template counted (ProposedAreNotes), the guardrails   *)
(* let only what they read through (BuiltFits), and a number is found by   *)
(* its name (BundleQuotes).  That notes agree is arithmetic: all templates *)
(* of a team count masks of one history (PerspectiveFits), a run is the    *)
(* longest interval at its end inside a mask (LongestFits), and a count    *)
(* over the last games grows with the mask and with the games (MaskOfLast, *)
(* LatestCounts).  The cap holds since a finite set has members of least   *)
(* weight (LightestExist).                                                 *)
(*                                                                         *)
(* A lookup reads a list that grows under it.  New rows only move rows     *)
(* down, so what was listed when the reading began was read or is further  *)
(* down than the pages that were read (SearchHolds, DeskHolds): at the     *)
(* last page nothing is further down, and below a row that is before the   *)
(* window there is nothing of the window.                                  *)
(*                                                                         *)
(* Of a season what counts is that the rows are those of a league, one of  *)
(* each id (LeagueRows): a forced fixture had no result (ForcedWereOpen)   *)
(* and keeps the one it is given in every run (ForcedArePlayed), and a     *)
(* complete list pairs all teams (CompleteIsLeague).  The simulator and the*)
(* standings engine see the same keys since counts of disjoint results add *)
(* up (TotalIsRow).  Sums over sets are folds that CHOOSE an element; what *)
(* is proved of them comes from a least counterexample (SumsExist).        *)
(***************************************************************************)
EXTENDS Corrections, Hindsight, Narration, Notebook, Provider, Season, FiniteSetTheorems,
        SequenceTheorems, WellFoundedInduction, TLAPS

Packs == [no : Nat, at : Nat, rows : SUBSET Games]
Indexes == [epoch : Nat, of : Nat \cup {Unrecorded}, rows : SUBSET Games]
Artifacts ==
    [status : {"sealed", "abstained", "scored", "voided"}, game : Games, at : Nat,
     train : SUBSET Games, anchors : SUBSET Nat, of : Nat \cup {NoTime}]

Writing == [at : {"file", "audit"}, artifact : Artifacts]
Taken == [at : {"snapshot"}, index : Indexes]
Computing == [at : {"compute"}, index : Indexes, pack : Packs, readable : BOOLEAN]

HindTypes ==
    /\ clock \in Nat
    /\ pack \in Packs
    /\ index \in Indexes
    /\ ledger \in SUBSET Artifacts
    /\ writing \in {Resting} \cup Writing
    /\ retro \in {Resting} \cup Taken \cup Computing

\* What an artifact may claim.
HonestArtifact(a) ==
    /\ HonestHistory(a.train, a.game)
    /\ a.at < Game[a.game].kick
    /\ \A r \in a.train : Game[r].kick < a.at
    /\ a.status = "scored" => \E t \in a.anchors : t > Game[a.game].kick /\ t > a.at

HonestReplay(x) ==
    \A g \in DOMAIN x.story :
        /\ HonestHistory(x.story[g].train, g)
        /\ x.story[g].proxies >= Cardinality({r \in x.story[g].train : ~Before(r, g)})

OneSnapshot(x) ==
    x.agreement = "verified" =>
        x.trust = (IF x.from \cap Tournament # {} THEN x.from ELSE {})

HonestAnswer(x) ==
    /\ x.kind = "analysis" => HonestHistory(x.train, x.game)
    /\ x.kind = "notebook" => EarlierOnly(x.train, x.game)
    /\ x.kind = "retro" => HonestReplay(x) /\ OneSnapshot(x)

\* A pack holds what was over when it was taken.
PackIsPast == pack.at <= clock /\ \A r \in pack.rows : Game[r].kick < pack.at

\* An index with the stamp of a pack holds its rows.
Same(i, p) == i.of # Unrecorded /\ i.of = p.at => i.rows = p.rows
Stamped(i) == (i.of # Unrecorded => i.of <= pack.at) /\ Same(i, pack)

LedgerInv ==
    /\ \A a \in ledger : HonestArtifact(a)
    /\ writing # Resting => HonestArtifact(writing.artifact)
    /\ writing.at = "audit" => writing.artifact \in ledger
    /\ audit \subseteq ledger

ReplayInv ==
    /\ Stamped(index)
    /\ retro # Resting => Stamped(retro.index)
    /\ retro.at = "compute" => Same(retro.index, retro.pack)
    /\ \A e \in memo : HonestAnswer(e.answer)
    /\ HonestAnswer(answer)

HindInv == HindTypes /\ PackIsPast /\ LedgerInv /\ ReplayInv

-------------------------------------------------------------------------------
(* Days. *)

LEMMA DivBounds ==
    ASSUME NEW k \in Nat, NEW h \in Nat, h > 0
    PROVE  k \div h \in Nat /\ (k \div h) * h <= k /\ k < ((k \div h) + 1) * h
OBVIOUS

LEMMA DivMultiple == ASSUME NEW d \in Nat, NEW h \in Nat, h > 0 PROVE (d * h) \div h = d
OBVIOUS

LEMMA LessDays == ASSUME NEW a \in Nat, NEW b \in Nat, NEW h \in Nat, a * h < b * h PROVE a < b
OBVIOUS

\* A recorded kickoff is the kickoff, or the midnight before it.
LEMMA RecordedBounds ==
    ASSUME NEW g \in Games
    PROVE  /\ DayOf(Game[g].kick) \in Nat
           /\ Midnight(g) \in Nat /\ Midnight(g) <= Game[g].kick
           /\ Game[g].kick < (DayOf(Game[g].kick) + 1) * Hours
           /\ Recorded(g) \in Nat /\ Recorded(g) <= Game[g].kick
           /\ DayOf(Recorded(g)) = DayOf(Game[g].kick)
<1>1. Game[g].kick \in Nat /\ Hours \in Nat /\ Hours > 0
  BY HindsightAssumption
<1>2. /\ DayOf(Game[g].kick) \in Nat
      /\ DayOf(Game[g].kick) * Hours <= Game[g].kick
      /\ Game[g].kick < (DayOf(Game[g].kick) + 1) * Hours
  BY <1>1, DivBounds DEF DayOf
<1>3. Midnight(g) \in Nat /\ Midnight(g) <= Game[g].kick
  BY <1>1, <1>2 DEF Midnight
<1>4. DayOf(Midnight(g)) = DayOf(Game[g].kick)
  <2> DEFINE d == DayOf(Game[g].kick)
  <2>1. d \in Nat
    BY <1>2
  <2> HIDE DEF d
  <2>2. (d * Hours) \div Hours = d
    BY <1>1, <2>1, DivMultiple
  <2> QED BY <2>2 DEF Midnight, DayOf, d
<1> QED BY <1>1, <1>2, <1>3, <1>4 DEF Recorded

\* What is recorded before a game was played before it, or is known by its date alone
\* and is of the same day.
LEMMA RecordedEarlier ==
    ASSUME NEW g \in Games, NEW r \in Games, Recorded(r) < Recorded(g)
    PROVE  Before(r, g) \/ SameDayProxy(r, g)
<1> DEFINE d == DayOf(Game[r].kick)
           e == DayOf(Game[g].kick)
<1>1. Game[r].kick \in Nat /\ Game[g].kick \in Nat /\ Hours \in Nat
  BY HindsightAssumption
<1>2. CASE Game[r].exact
  BY <1>1, <1>2, RecordedBounds DEF Recorded, Before
<1>3. ASSUME ~Game[r].exact, ~Before(r, g)
      PROVE  SameDayProxy(r, g)
  <2>1. d \in Nat /\ e \in Nat
    BY RecordedBounds
  <2>2. d * Hours < (e + 1) * Hours
    <3>1. Recorded(r) = d * Hours
      BY <1>3 DEF Recorded, Midnight
    <3>2. Game[g].kick < (e + 1) * Hours /\ Recorded(g) <= Game[g].kick /\ Recorded(g) \in Nat
      BY RecordedBounds
    <3> HIDE DEF d, e
    <3>3. d * Hours \in Nat /\ (e + 1) * Hours \in Nat
      BY <1>1, <2>1
    <3> QED BY <1>1, <3>1, <3>2, <3>3
  <2>3. e * Hours < (d + 1) * Hours
    <3>1. e * Hours <= Game[g].kick
      BY RecordedBounds DEF Midnight
    <3>2. Game[r].kick < (d + 1) * Hours
      BY RecordedBounds
    <3>3. Game[g].kick <= Game[r].kick
      BY <1>1, <1>3 DEF Before
    <3> HIDE DEF d, e
    <3>4. e * Hours \in Nat /\ (d + 1) * Hours \in Nat
      BY <1>1, <2>1
    <3> QED BY <1>1, <3>1, <3>2, <3>3, <3>4
  <2>4. d = e
    <3> HIDE DEF d, e
    <3>1. d + 1 \in Nat /\ e + 1 \in Nat
      BY <2>1
    <3>2. d < e + 1 /\ e < d + 1
      BY <1>1, <2>1, <2>2, <2>3, <3>1, LessDays
    <3> QED BY <2>1, <3>2
  <2> QED BY <1>3, <2>4 DEF SameDayProxy
<1> QED BY <1>2, <1>3

\* The training view of a game is an honest history of it, whatever is known when.
LEMMA ViewIsHonest ==
    ASSUME NEW g \in Games, NEW rows \in SUBSET Games, NEW asOf
    PROVE  /\ TrainingView(rows, g, asOf) \in SUBSET rows
           /\ HonestHistory(TrainingView(rows, g, asOf), g)
BY RecordedEarlier DEF TrainingView, Scoped, HonestHistory, EarlierOnly

\* Every result of a training view that is not earlier is counted as a proxy.
LEMMA ProxiesCount ==
    ASSUME NEW g \in Games, NEW train \in SUBSET Games, HonestHistory(train, g)
    PROVE  Cardinality(Proxies(train, g)) >= Cardinality({r \in train : ~Before(r, g)})
<1>1. {r \in train : ~Before(r, g)} \subseteq Proxies(train, g)
  <2> SUFFICES ASSUME NEW r \in train, ~Before(r, g)
               PROVE  r \in Proxies(train, g)
    OBVIOUS
  <2>1. SameDayProxy(r, g)
    BY DEF HonestHistory, EarlierOnly
  <2>2. DayOf(Recorded(g)) = DayOf(Game[g].kick)
    BY RecordedBounds
  <2> QED BY <2>1, <2>2 DEF SameDayProxy, Proxies, Midnight
<1>2. IsFiniteSet(Proxies(train, g))
  BY HindsightAssumption, FS_Subset DEF Proxies
<1>3. /\ Cardinality({r \in train : ~Before(r, g)}) <= Cardinality(Proxies(train, g))
      /\ IsFiniteSet({r \in train : ~Before(r, g)})
  BY <1>1, <1>2, FS_Subset
<1>4. /\ Cardinality({r \in train : ~Before(r, g)}) \in Nat
      /\ Cardinality(Proxies(train, g)) \in Nat
  BY <1>2, <1>3, FS_CardinalityType
<1> QED BY <1>3, <1>4

-------------------------------------------------------------------------------
(* The world. *)

LEMMA WorldKeeps ==
    ASSUME HindInv, WorldNext
    PROVE  HindInv'
<1> USE DEF HindInv
<1>1. HonestAnswer(NoAnswer)
  BY DEF HonestAnswer, NoAnswer
<1>2. CASE Ticks
  BY <1>1, <1>2 DEF Ticks, HindTypes, PackIsPast, LedgerInv, ReplayInv, Stamped, sealVars, retroVars,
                    Packs
<1>3. CASE Activates
  <2> PICK rows \in SUBSET {g \in Games : Game[g].kick < clock} :
          pack' = [no |-> pack.no + 1, at |-> clock, rows |-> rows]
    BY <1>3 DEF Activates
  <2>1. pack' \in Packs /\ pack'.at = clock /\ pack'.rows = rows /\ pack.at < clock
    BY <1>3 DEF Activates, HindTypes, Packs
  <2>2. pack.at \in Nat /\ clock \in Nat
    BY DEF HindTypes, Packs
  <2>3. HindTypes' /\ PackIsPast'
    BY <1>3, <2>1, <2>2 DEF Activates, HindTypes, PackIsPast, sealVars, retroVars
  <2>4. ASSUME NEW i \in Indexes, Stamped(i)
        PROVE  Stamped(i)'
    BY <2>1, <2>2, <2>4 DEF Stamped, Same, Indexes
  <2>5. retro # Resting => retro.index \in Indexes
    BY DEF HindTypes, Taken, Computing
  <2>6. UNCHANGED <<index, retro, memo>> /\ answer' = NoAnswer
    BY <1>3 DEF Activates, retroVars
  <2>7. ReplayInv'
    BY <1>1, <2>4, <2>5, <2>6 DEF ReplayInv, HindTypes
  <2>8. LedgerInv'
    BY <1>3 DEF Activates, sealVars, LedgerInv
  <2> QED BY <2>3, <2>7, <2>8
<1>4. CASE Repoints
  <2>1. index' \in Indexes /\ Stamped(index')
    <3>1. pack \in Packs /\ Unrecorded \in Nat \cup {Unrecorded}
      BY DEF HindTypes
    <3>2. pack.at = 0 => pack.rows = {}
      BY HindsightAssumption, <3>1 DEF PackIsPast, Packs
    <3> QED BY <1>4, <3>1, <3>2 DEF Repoints, Indexes, Packs, Stamped, Same
  <2>2. UNCHANGED <<clock, pack, retro, ledger, audit, writing>> /\ memo' = {} /\ answer' = NoAnswer
    BY <1>4 DEF Repoints, sealVars
  <2> QED BY <1>1, <2>1, <2>2 DEF HindTypes, PackIsPast, LedgerInv, ReplayInv, Stamped
<1> QED BY <1>2, <1>3, <1>4 DEF WorldNext

-------------------------------------------------------------------------------
(* Seals. *)

\* The records of a write and of a replay, apart.
LEMMA HindRecords ==
    ASSUME HindInv
    PROVE  /\ writing # Resting => writing \in Writing
           /\ writing.at \in {"file", "audit"} => writing # Resting
           /\ retro # Resting => retro \in Taken \cup Computing
           /\ retro.at = "snapshot" => retro \in Taken /\ retro # Resting
           /\ retro.at = "compute" => retro \in Computing /\ retro # Resting
<1>1. Resting.at = "idle"
  BY DEF Resting
<1>2. \A x \in Taken : x.at = "snapshot"
  BY DEF Taken
<1>3. \A x \in Computing : x.at = "compute"
  BY DEF Computing
<1> QED BY <1>1, <1>2, <1>3 DEF HindInv, HindTypes

\* A write of an honest artifact begins.
LEMMA WritesKeeps ==
    ASSUME HindInv, NEW a \in Artifacts, HonestArtifact(a), Writes(a)
    PROVE  HindInv'
<1> DEFINE w == [at |-> "file", artifact |-> a]
<1>1. w \in Writing /\ w.artifact = a /\ w.at = "file"
  BY DEF Writing
<1>2. writing' = w /\ answer' = NoAnswer
      /\ UNCHANGED <<clock, pack, index, ledger, audit, retro, memo>>
  BY DEF Writes, retroVars
<1>3. HonestAnswer(NoAnswer)
  BY DEF HonestAnswer, NoAnswer
<1> HIDE DEF w
<1>4. HindTypes' /\ PackIsPast'
  BY <1>1, <1>2 DEF HindInv, HindTypes, PackIsPast
<1>5. LedgerInv'
  BY <1>1, <1>2 DEF HindInv, LedgerInv, HonestArtifact
<1>6. ReplayInv'
  BY <1>2, <1>3 DEF HindInv, ReplayInv, Stamped
<1> QED BY <1>4, <1>5, <1>6 DEF HindInv

\* A seal is made before its game, of games that were over.
LEMMA SealsKeep ==
    ASSUME HindInv, NEW g \in Games, Seals(g)
    PROVE  HindInv'
<1> DEFINE train == TrainingView(pack.rows, g, clock)
           a == [status |-> IF Abstains(train, g) THEN "abstained" ELSE "sealed",
                 game |-> g, at |-> clock, train |-> train, anchors |-> {pack.at},
                 of |-> NoTime]
<1>1. clock \in Nat /\ pack.at \in Nat /\ pack.rows \in SUBSET Games
  BY DEF HindInv, HindTypes, Packs
<1>2. train \in SUBSET pack.rows /\ HonestHistory(train, g)
  BY <1>1, ViewIsHonest
<1>3. pack.at <= clock /\ clock < Recorded(g) /\ Writes(a)
  BY DEF Seals
<1> HIDE DEF train
<1>4. a \in Artifacts
  BY <1>1, <1>2 DEF Artifacts
<1>5. clock < Game[g].kick
  BY <1>1, <1>3, RecordedBounds, HindsightAssumption
<1>6. \A r \in train : Game[r].kick < clock
  BY <1>1, <1>2, <1>3, HindsightAssumption DEF HindInv, PackIsPast
<1>7. HonestArtifact(a)
  BY <1>2, <1>5, <1>6 DEF HonestArtifact
<1> HIDE DEF a
<1> QED BY <1>3, <1>4, <1>7, WritesKeeps

\* A grade comes of a commit that has the result, which is later than the game.
LEMMA ScoresKeep ==
    ASSUME HindInv, NEW a \in ledger, Scores(a)
    PROVE  HindInv'
<1> DEFINE b == [a EXCEPT !.status = "scored", !.anchors = a.anchors \cup {pack.at}, !.of = a.at]
<1>1. a \in Artifacts /\ HonestArtifact(a)
  BY DEF HindInv, HindTypes, LedgerInv
<1>2. pack.at \in Nat /\ a.game \in pack.rows /\ a.at \in Nat /\ a.game \in Games
  BY <1>1 DEF Scores, HindInv, HindTypes, Packs, Artifacts
<1>3. b \in Artifacts
  BY <1>1, <1>2 DEF Artifacts
<1>4. /\ b.train = a.train /\ b.game = a.game /\ b.at = a.at
      /\ b.status = "scored" /\ pack.at \in b.anchors
  BY <1>1 DEF Artifacts
<1>5. pack.at > Game[a.game].kick /\ pack.at > a.at
  BY <1>1, <1>2, HindsightAssumption DEF HindInv, PackIsPast, HonestArtifact
<1>6. Writes(b)
  BY DEF Scores
<1> HIDE DEF b
<1>7. HonestArtifact(b)
  BY <1>1, <1>4, <1>5 DEF HonestArtifact
<1> QED BY <1>3, <1>6, <1>7, WritesKeeps

LEMMA VoidsKeep ==
    ASSUME HindInv, NEW a \in ledger, Voids(a)
    PROVE  HindInv'
<1> DEFINE b == [a EXCEPT !.status = "voided", !.of = a.at]
<1>1. a \in Artifacts /\ HonestArtifact(a)
  BY DEF HindInv, HindTypes, LedgerInv
<1>2. b \in Artifacts
  BY <1>1 DEF Artifacts
<1>3. b.train = a.train /\ b.game = a.game /\ b.at = a.at /\ b.status = "voided"
  BY <1>1 DEF Artifacts
<1>4. Writes(b)
  BY DEF Voids
<1> HIDE DEF b
<1>5. HonestArtifact(b)
  BY <1>1, <1>3 DEF HonestArtifact
<1> QED BY <1>2, <1>4, <1>5, WritesKeeps

\* The file comes before the audit line.
LEMMA FilesKeep ==
    ASSUME HindInv, FileIsWritten \/ AuditIsWritten
    PROVE  HindInv'
<1>1. writing \in Writing /\ writing # Resting
  BY HindRecords DEF FileIsWritten, AuditIsWritten
<1>2. writing.artifact \in Artifacts /\ HonestArtifact(writing.artifact)
  BY <1>1 DEF Writing, HindInv, LedgerInv
<1>3. HonestAnswer(NoAnswer)
  BY DEF HonestAnswer, NoAnswer
<1>4. /\ answer' = NoAnswer
      /\ UNCHANGED <<clock, pack, index, retro, memo>>
  BY DEF FileIsWritten, AuditIsWritten, retroVars
<1>5. ReplayInv' /\ PackIsPast'
  BY <1>3, <1>4 DEF HindInv, ReplayInv, PackIsPast, Stamped
<1>6. CASE FileIsWritten
  <2> DEFINE w == [writing EXCEPT !.at = "audit"]
  <2>1. w \in Writing /\ w.artifact = writing.artifact /\ w.at = "audit"
    BY <1>1 DEF Writing
  <2>2. /\ writing' = w /\ ledger' = ledger \cup {writing.artifact} /\ audit' = audit
    BY <1>6 DEF FileIsWritten
  <2> HIDE DEF w
  <2>3. HindTypes'
    BY <1>2, <1>4, <2>1, <2>2 DEF HindInv, HindTypes
  <2>4. LedgerInv'
    BY <1>2, <2>1, <2>2 DEF HindInv, LedgerInv, HonestArtifact
  <2> QED BY <1>5, <2>3, <2>4 DEF HindInv
<1>7. CASE AuditIsWritten
  <2>1. writing' = Resting /\ Resting.at # "audit" /\ ledger' = ledger
        /\ audit' = audit \cup {writing.artifact} /\ writing.at = "audit"
    BY <1>7 DEF AuditIsWritten, Resting
  <2>2. LedgerInv' /\ HindTypes'
    BY <1>4, <2>1 DEF HindInv, LedgerInv, HindTypes, HonestArtifact
  <2> QED BY <1>5, <2>2 DEF HindInv
<1> QED BY <1>6, <1>7

-------------------------------------------------------------------------------
(* Reads. *)

\* A read changes the answer only.
LEMMA AnswersKeep ==
    ASSUME HindInv, HonestAnswer(answer'), UNCHANGED <<clock, pack, index, sealVars, retroVars>>
    PROVE  HindInv'
<1>1. UNCHANGED <<clock, pack, index, ledger, audit, writing, retro, memo>>
  BY DEF sealVars, retroVars
<1>2. HindTypes' /\ PackIsPast' /\ LedgerInv'
  BY <1>1 DEF HindInv, HindTypes, PackIsPast, LedgerInv
<1>3. ReplayInv'
  BY <1>1 DEF HindInv, ReplayInv, Stamped
<1> QED BY <1>2, <1>3 DEF HindInv

LEMMA AnalysesKeep ==
    ASSUME HindInv, NEW g \in Games, Analyses(g)
    PROVE  HindInv'
<1> DEFINE train == TrainingView(index.rows, g, NoTime)
<1>1. index.rows \in SUBSET Games
  BY DEF HindInv, HindTypes, Indexes
<1>2. HonestHistory(train, g)
  BY <1>1, ViewIsHonest
<1>3. answer'.kind = "analysis" /\ answer'.train = train /\ answer'.game = g
  BY DEF Analyses
<1> HIDE DEF train
<1>4. HonestAnswer(answer')
  BY <1>2, <1>3 DEF HonestAnswer
<1> QED BY <1>4, AnswersKeep DEF Analyses

LEMMA NotebookKeeps ==
    ASSUME HindInv, NEW g \in Games, ReadsNotebook(g)
    PROVE  HindInv'
<1> DEFINE train == {r \in index.rows : Game[r].source = Game[g].source
                                        /\ Recorded(r) < Recorded(g)}
<1>1. index.rows \in SUBSET Games
  BY DEF HindInv, HindTypes, Indexes
<1>2. Recorded(g) \in Nat
  BY RecordedBounds
<1>3. EarlierOnly(train, g)
  BY <1>1, <1>2, RecordedEarlier DEF EarlierOnly
<1>4. answer'.kind = "notebook" /\ answer'.train = train /\ answer'.game = g
  BY DEF ReadsNotebook
<1> HIDE DEF train
<1>5. HonestAnswer(answer')
  BY <1>3, <1>4 DEF HonestAnswer
<1> QED BY <1>5, AnswersKeep DEF ReadsNotebook

-------------------------------------------------------------------------------
(* The tournament replay. *)

LEMMA StoryIsHonest ==
    ASSUME NEW rows \in SUBSET Games
    PROVE  \A g \in DOMAIN Story(rows) :
               LET train == Story(rows)[g].train IN
               /\ HonestHistory(train, g)
               /\ Story(rows)[g].proxies >= Cardinality({r \in train : ~Before(r, g)})
<1> SUFFICES ASSUME NEW g \in Tournament \cap rows
             PROVE  LET train == Story(rows)[g].train IN
                    /\ HonestHistory(train, g)
                    /\ Story(rows)[g].proxies >= Cardinality({r \in train : ~Before(r, g)})
  BY DEF Story
<1> DEFINE train == TrainingView(rows, g, NoTime)
<1>1. g \in Games
  OBVIOUS
<1>2. train \in SUBSET Games /\ HonestHistory(train, g)
  BY <1>1, ViewIsHonest
<1>3. Story(rows)[g].train = train /\ Story(rows)[g].proxies = Cardinality(Proxies(train, g))
  BY DEF Story
<1> HIDE DEF train
<1> QED BY <1>1, <1>2, <1>3, ProxiesCount

\* A replay that ends, with or without an answer.
LEMMA ReplayEnds ==
    ASSUME HindInv, retro' = Resting, HonestAnswer(answer'),
           \A e \in memo' : HonestAnswer(e.answer),
           UNCHANGED <<clock, pack, index, sealVars>>
    PROVE  HindInv'
<1>1. UNCHANGED <<clock, pack, index, ledger, audit, writing>> /\ Resting.at # "compute"
  BY DEF sealVars, Resting
<1>2. HindTypes' /\ PackIsPast' /\ LedgerInv'
  BY <1>1 DEF HindInv, HindTypes, PackIsPast, LedgerInv
<1>3. ReplayInv'
  BY <1>1 DEF HindInv, ReplayInv, Stamped
<1> QED BY <1>2, <1>3 DEF HindInv

LEMMA RetroStartsKeeps ==
    ASSUME HindInv, RetroStarts
    PROVE  HindInv'
<1> DEFINE x == [at |-> "snapshot", index |-> index]
<1>1. x \in Taken /\ x.index = index /\ x.at = "snapshot"
  BY DEF Taken, HindInv, HindTypes
<1>2. retro' = x /\ answer' = NoAnswer
      /\ UNCHANGED <<clock, pack, index, ledger, audit, writing, memo>>
  BY DEF RetroStarts, sealVars
<1>3. HonestAnswer(NoAnswer)
  BY DEF HonestAnswer, NoAnswer
<1> HIDE DEF x
<1>4. HindTypes' /\ PackIsPast' /\ LedgerInv'
  BY <1>1, <1>2 DEF HindInv, HindTypes, PackIsPast, LedgerInv
<1>5. ReplayInv'
  BY <1>1, <1>2, <1>3 DEF HindInv, ReplayInv, Stamped
<1> QED BY <1>4, <1>5 DEF HindInv

\* The pack of the key is the active one; the index may be an earlier one.
LEMMA RetroKeysKeeps ==
    ASSUME HindInv, RetroKeys
    PROVE  HindInv'
<1> PICK readable \in BOOLEAN :
        LET known == {e \in memo : e.pack = pack /\ e.readable = readable
                                     /\ e.epoch = retro.index.epoch}
        IN  \/ /\ retro' = [at |-> "compute", index |-> retro.index, pack |-> pack,
                            readable |-> readable]
               /\ answer' = NoAnswer
            \/ /\ retro' = Resting
               /\ answer' \in {e.answer : e \in known} \cup {NoAnswer}
  BY DEF RetroKeys
<1>1. retro \in Taken /\ retro # Resting
  BY HindRecords DEF RetroKeys
<1>2. HonestAnswer(NoAnswer)
  BY DEF HonestAnswer, NoAnswer
<1>3. UNCHANGED <<clock, pack, index, ledger, audit, writing, memo>>
  BY DEF RetroKeys, sealVars
<1>4. CASE retro' = Resting /\ answer' \in {e.answer : e \in memo} \cup {NoAnswer}
  BY <1>2, <1>3, <1>4, ReplayEnds DEF HindInv, ReplayInv, RetroKeys
<1>5. CASE /\ retro' = [at |-> "compute", index |-> retro.index, pack |-> pack,
                        readable |-> readable]
           /\ answer' = NoAnswer
  <2> DEFINE x == [at |-> "compute", index |-> retro.index, pack |-> pack,
                   readable |-> readable]
  <2>1. x \in Computing /\ x.index = retro.index /\ x.pack = pack
    BY <1>1 DEF Taken, Computing, HindInv, HindTypes
  <2>2. retro' = x
    BY <1>5
  <2> HIDE DEF x
  <2>3. HindTypes' /\ PackIsPast' /\ LedgerInv'
    BY <1>3, <2>1, <2>2 DEF HindInv, HindTypes, PackIsPast, LedgerInv
  <2>4. ReplayInv'
    BY <1>1, <1>2, <1>3, <1>5, <2>1, <2>2 DEF HindInv, ReplayInv, Stamped
  <2> QED BY <2>3, <2>4 DEF HindInv
<1> QED BY <1>4, <1>5

\* The layers are verified only when index and pack have one stamp, and so the same rows.
LEMMA RetroComputesKeeps ==
    ASSUME HindInv, RetroComputes
    PROVE  HindInv'
<1> DEFINE trust == Trusted(retro.pack).rows
           x == [kind |-> "retro", story |-> Story(retro.index.rows), from |-> retro.index.rows,
                 trust |-> IF retro.readable /\ trust \cap Tournament # {} THEN trust ELSE {},
                 agreement |-> Agreement(retro.index.of, retro.readable, retro.pack)]
<1>1. retro \in Computing /\ retro # Resting
  BY HindRecords DEF RetroComputes
<1>2. retro.index.rows \in SUBSET Games
  BY <1>1 DEF Computing, Indexes
<1>3. x.kind = "retro" /\ HonestReplay(x)
  BY <1>2, StoryIsHonest DEF HonestReplay
<1>4. OneSnapshot(x)
  <2> SUFFICES ASSUME Agreement(retro.index.of, retro.readable, retro.pack) = "verified"
               PROVE  x.trust = (IF x.from \cap Tournament # {} THEN x.from ELSE {})
    BY DEF OneSnapshot
  <2>1. retro.readable /\ retro.index.of # Unrecorded /\ retro.index.of = retro.pack.at
    BY DEF Agreement
  <2>2. retro.index.rows = retro.pack.rows
    BY <2>1 DEF RetroComputes, HindInv, ReplayInv, Same
  <2> QED BY <2>1, <2>2 DEF Trusted
<1>5. \/ answer' = x /\ \A e \in memo' : e \in memo \/ e.answer = x
      \/ answer' = NoAnswer /\ memo' = memo
  <2> DEFINE entry == [pack |-> retro.pack, readable |-> retro.readable,
                       epoch |-> index.epoch, answer |-> x]
  <2>1. \/ answer' = x /\ memo' = memo \cup {entry}
        \/ answer' = NoAnswer /\ memo' = memo
    BY DEF RetroComputes
  <2>2. entry.answer = x
    OBVIOUS
  <2> HIDE DEF entry, x
  <2> QED BY <2>1, <2>2
<1> HIDE DEF x
<1>6. HonestAnswer(x) /\ HonestAnswer(NoAnswer)
  BY <1>3, <1>4 DEF HonestAnswer, NoAnswer
<1>7. HonestAnswer(answer') /\ \A e \in memo' : HonestAnswer(e.answer)
  BY <1>5, <1>6 DEF HindInv, ReplayInv
<1> QED BY <1>7, ReplayEnds DEF RetroComputes

-------------------------------------------------------------------------------
(* The steps of the specification. *)

LEMMA HindStart ==
    ASSUME HindInit
    PROVE  HindInv
<1>1. HindTypes /\ PackIsPast
  BY DEF HindInit, HindTypes, PackIsPast, Packs, Indexes
<1>2. Resting.at # "audit" /\ Resting.at # "compute"
  BY DEF Resting
<1>3. LedgerInv /\ ReplayInv
  BY <1>2 DEF HindInit, LedgerInv, ReplayInv, Stamped, Same, HonestAnswer, NoAnswer
<1> QED BY <1>1, <1>3 DEF HindInv

LEMMA HindStep ==
    ASSUME HindInv, [HindNext]_hindVars
    PROVE  HindInv'
<1>1. CASE SealNext
  BY <1>1, SealsKeep, ScoresKeep, VoidsKeep, FilesKeep DEF SealNext
<1>2. CASE ReadNext
  BY <1>2, AnalysesKeep, NotebookKeeps, RetroStartsKeeps, RetroKeysKeeps, RetroComputesKeeps
     DEF ReadNext
<1>3. CASE Killed
  <2>1. Resting.at # "audit" /\ HonestAnswer(NoAnswer)
    BY DEF Resting, HonestAnswer, NoAnswer
  <2>2. /\ retro' = Resting /\ writing' = Resting /\ answer' = NoAnswer /\ memo' = {}
        /\ UNCHANGED <<clock, pack, index, ledger, audit>>
    BY <1>3 DEF Killed
  <2>3. HindTypes' /\ PackIsPast'
    BY <2>2 DEF HindInv, HindTypes, PackIsPast
  <2>4. LedgerInv'
    BY <2>1, <2>2 DEF HindInv, LedgerInv
  <2>5. ReplayInv'
    <3>1. Resting.at # "compute"
      BY DEF Resting
    <3> QED BY <2>1, <2>2, <3>1 DEF HindInv, ReplayInv, Stamped, Same
  <2> QED BY <2>3, <2>4, <2>5 DEF HindInv
<1>4. CASE UNCHANGED hindVars
  <2>1. UNCHANGED <<clock, pack, index, ledger, audit, writing, retro, memo, answer>>
    BY <1>4 DEF hindVars, sealVars, retroVars
  <2> QED BY <2>1 DEF HindInv, HindTypes, PackIsPast, LedgerInv, ReplayInv, Stamped
<1> QED BY <1>1, <1>2, <1>3, <1>4, WorldKeeps DEF HindNext

LEMMA HindInvariant == HindSpec => []HindInv
BY HindStart, HindStep, PTL DEF HindSpec

\* Nothing that is published was learned from a result of its own future, and the two
\* layers of a replay are called one snapshot only when they are: whatever is activated,
\* repointed, remembered or killed meanwhile (leak_safe_training_view, score_forecast,
\* retrospective.py's _same_day_proxy_count and _snapshot_agreement).
THEOREM NothingLeaks == HindSpec => []HindsightIsHonest
<1>1. HindInv => HindsightIsHonest
  BY DEF HindInv, LedgerInv, ReplayInv, HonestArtifact, HonestAnswer, HonestReplay, OneSnapshot,
         HindsightIsHonest, NothingFromTheFuture, VerifiedIsOneSnapshot
<1> QED BY <1>1, HindInvariant, PTL

-------------------------------------------------------------------------------
(* Corrections: the state a step needs to know. *)

Contents == [val : Vals, kept : SUBSET Digests]
ExportFiles == [p : Proposals, head : Nat, val : Vals, kept : SUBSET Digests]
ProposalRows ==
    [state : Active \cup {"withdrawn"}, val : Vals, visible : BOOLEAN, head : Nat,
     last : SUBSET ExportFiles, original : Nat]
NoRows == {NoRow, [state |-> "purged"]}

\* What a handler has read, by where it is.
Attaching == [at : {"attaching"}, p : Proposals, d : Digests]
Moving ==
    {o \in [at : {"accept", "revoke", "withdraw", "submit"}, p : Proposals,
            row : ProposalRows] : o.row.state \in Allowed(o.at)}
Revising ==
    [at : {"revise"}, p : Proposals, row : ProposalRows, val : Vals,
     state : {"evidence_attached", "draft"}]
Validating ==
    {o \in [at : {"validate"}, p : Proposals, row : ProposalRows, content : Contents,
            verdict : {"conflict", "validated_candidate", "evidence_attached"}] :
        o.row.state \in Active}
Redacting ==
    [at : {"redact"}, p : Proposals, row : ProposalRows, d : Digests,
     listed : SUBSET ExportFiles]
Unlinking == [at : {"unlink"}, p : Proposals, d : Digests, listed : SUBSET ExportFiles]
Dropping == [at : {"drop"}, p : Proposals, d : Digests]
Exporting ==
    {o \in [at : {"export", "record"}, p : Proposals, export : ExportFiles] :
        o.export.p = o.p}
Recording ==
    {o \in [at : {"recording"}, p : Proposals, row : ProposalRows, export : ExportFiles] :
        o.export.p = o.p}
Handlers ==
    Attaching \cup Moving \cup Revising \cup Validating \cup Redacting \cup Unlinking
        \cup Dropping \cup Exporting \cup Recording

CorrTypes ==
    /\ row \in [Proposals -> ProposalRows \cup NoRows]
    /\ evidence \in [Proposals -> [Digests -> {"none", "kept", "redacted"}]]
    /\ exports \in SUBSET ExportFiles
    /\ base \in Nat
    /\ passed \in [Proposals -> SUBSET Contents]
    /\ op \in [Views -> Handlers \cup {Idle}]

\* What has passed and was not taken back is what the row and its evidence say.
PassedIsHeld ==
    \A p \in Proposals \ torn :
        /\ row[p].state \in Final => Content(p) \in passed[p]
        /\ Exists(p) /\ row[p].visible => row[p].state \in Final

\* A validation whose proposal has not moved has seen its content.
Sees(v) ==
    /\ op[v] # Idle => row[op[v].p] # NoRow
    /\ op[v].at = "validate" =>
           /\ Exists(op[v].p) => op[v].row.head <= row[op[v].p].head
           /\ op[v].row = row[op[v].p] => op[v].content = Content(op[v].p)

\* The proposals that have passed and were not torn, and those that will have
\* once a handler commits, torn or not: its transaction starts over.
Pending(p) ==
    \E v \in Views : /\ op[v].at = "validate" /\ op[v].p = p
                     /\ op[v].row = row[p] /\ op[v].verdict = "validated_candidate"
Standing(p) ==
    \/ row[p].state \in Final /\ p \notin torn
    \/ Exists(p) /\ Pending(p)

OneStands ==
    \A p, q \in Proposals : Standing(p) /\ Standing(q) => row[p].val = row[q].val

\* An export of the head, made or in the making, and the one the head records.
AtExport == {"export", "record", "recording"}
Exportings == {v \in Views : op[v].at \in AtExport}
Known == exports \cup {op[v].export : v \in Exportings}
Tells(x, p) == x.val = row[p].val /\ x.kept = Kept(p)

ExportsFit ==
    /\ \A x \in Known :
          /\ row[x.p] # NoRow
          /\ Exists(x.p) => /\ x.head <= row[x.p].head
                            /\ x.head = row[x.p].head => Tells(x, x.p)
    /\ \A p \in Proposals : Exists(p) =>
          \A x : row[p].last = {x} /\ x.head = row[p].head - 1 => Tells(x, p)

CorrInv ==
    /\ CorrTypes /\ PassedIsHeld /\ OneStands /\ ExportsFit
    /\ \A v \in Views : Sees(v)

-------------------------------------------------------------------------------
(* Rows and handlers, apart. *)

LEMMA RowsApart ==
    ASSUME CorrTypes, NEW p \in Proposals
    PROVE  /\ Exists(p) <=> row[p] \in ProposalRows
           /\ row[p].state \in Active => Exists(p)
           /\ row[p].state \in Final => Exists(p)
           /\ Exists(p) => row[p] # NoRow
<1>1. row[p] \in ProposalRows \cup NoRows
  BY DEF CorrTypes
<1>2. row[p] \in ProposalRows => row[p].state \in Active \cup {"withdrawn"}
  BY DEF ProposalRows
<1>3. NoRow.state = "none"
  BY DEF NoRow
<1>4. row[p] \in NoRows => row[p].state \in {"none", "purged"}
  BY DEF NoRows, NoRow
<1> QED BY <1>1, <1>2, <1>3, <1>4 DEF Exists, Active, Final

LEMMA HandlersApart ==
    ASSUME CorrTypes, NEW v \in Views
    PROVE  /\ op[v].at = "attaching" => op[v] \in Attaching
           /\ op[v].at \in {"accept", "revoke", "withdraw", "submit"} => op[v] \in Moving
           /\ op[v].at = "revise" => op[v] \in Revising
           /\ op[v].at = "validate" => op[v] \in Validating
           /\ op[v].at = "redact" => op[v] \in Redacting
           /\ op[v].at = "unlink" => op[v] \in Unlinking
           /\ op[v].at \in {"export", "record"} => op[v] \in Exporting
           /\ op[v].at = "recording" => op[v] \in Recording
           /\ op[v].at # "idle" => op[v] # Idle
<1>1. op[v] \in Handlers \cup {Idle}
  BY DEF CorrTypes
<1>2. Idle.at = "idle"
  BY DEF Idle
<1>3. \A o \in Attaching : o.at = "attaching"
  BY DEF Attaching
<1>4. \A o \in Moving : o.at \in {"accept", "revoke", "withdraw", "submit"}
  BY DEF Moving
<1>5. \A o \in Revising : o.at = "revise"
  BY DEF Revising
<1>6. \A o \in Validating : o.at = "validate"
  BY DEF Validating
<1>7. \A o \in Redacting : o.at = "redact"
  BY DEF Redacting
<1>8. \A o \in Exporting : o.at \in {"export", "record"}
  BY DEF Exporting
<1>9. \A o \in Unlinking : o.at = "unlink"
  BY DEF Unlinking
<1>10. \A o \in Dropping : o.at = "drop"
  BY DEF Dropping
<1>11. \A o \in Recording : o.at = "recording"
  BY DEF Recording
<1> QED BY <1>1, <1>2, <1>3, <1>4, <1>5, <1>6, <1>7, <1>8, <1>9, <1>10, <1>11 DEF Handlers

\* A handler that is under way has a proposal.
LEMMA HandlersOwn == \A o \in Handlers : o.p \in Proposals
BY DEF Handlers, Attaching, Moving, Revising, Validating, Redacting, Unlinking, Dropping,
       Exporting, Recording

\* Exports, made and in the making, are of the type of exports.
LEMMA KnownType == ASSUME CorrTypes PROVE Known \in SUBSET ExportFiles
BY HandlersApart DEF Known, Exportings, AtExport, CorrTypes, Exporting, Recording

\* What a transaction of one proposal leaves of the others.
OthersKept(p) ==
    \A q \in Proposals \ {p} :
        evidence'[q] = evidence[q] /\ passed'[q] = passed[q] /\ (q \in torn' <=> q \in torn)

\* A row that is not torn claims no more than it did; an event that records an
\* export of the head before it tells of the row.
ClaimsFit(p, r) ==
    p \notin torn' =>
        /\ r.visible => r.state \in Final
        /\ r.state \in Final => /\ Standing(p)
                                /\ r.val = row[p].val
                                /\ Content(p)' \in passed'[p]
RecordFits(p, r) ==
    \A x : r.last = {x} /\ x.head = row[p].head => x.val = r.val /\ x.kept = Kept(p)'

\* A transaction that appends an event to one proposal.  It takes no other's place:
\* unless it tears, whoever stands after it stood before, with the same value.
LEMMA EditKeeps ==
    ASSUME CorrInv, NEW v \in Views, NEW p \in Proposals, Exists(p),
           NEW r \in ProposalRows, r.head = row[p].head + 1, row' = [row EXCEPT ![p] = r],
           NEW o \in Unlinking \cup {Idle}, o # Idle => o.p = p, op' = [op EXCEPT ![v] = o],
           evidence' \in [Proposals -> [Digests -> {"none", "kept", "redacted"}]],
           passed' \in [Proposals -> SUBSET Contents], OthersKept(p),
           exports' \in SUBSET Known, base' = base, ClaimsFit(p, r), RecordFits(p, r)
    PROVE  CorrInv'
<1> USE DEF CorrInv, OthersKept, ClaimsFit, RecordFits
<1>1. CorrTypes'
  BY KnownType DEF CorrTypes, Handlers
<1>2. \A q \in Proposals \ {p} :
          /\ row'[q] = row[q] /\ (Exists(q)' <=> Exists(q))
          /\ Content(q)' = Content(q) /\ Kept(q)' = Kept(q)
  BY DEF CorrTypes, Exists, Content, Kept
<1>3. row'[p] = r /\ Exists(p)' /\ r # NoRow /\ row[p] \in ProposalRows
  <2>1. row'[p] = r
    BY DEF CorrTypes
  <2>2. r.state \in Active \cup {"withdrawn"}
    BY DEF ProposalRows
  <2>3. NoRow.state = "none"
    BY DEF NoRow
  <2>4. Exists(p)' /\ r # NoRow
    BY <2>1, <2>2, <2>3 DEF Exists, Active
  <2> QED BY <2>1, <2>4, RowsApart
<1>4. row[p].head \in Nat /\ r.head \in Nat
  BY <1>3 DEF ProposalRows
<1>5. PassedIsHeld'
  BY <1>2, <1>3 DEF PassedIsHeld
<1>6. \A u \in Views : u # v => op'[u] = op[u]
  BY DEF CorrTypes
<1>7. op'[v] = o /\ o.at # "validate" /\ o.at \notin AtExport
  BY DEF CorrTypes, Unlinking, Idle, AtExport
<1>8. \A u \in Views : op[u].at = "validate" /\ op[u].p = p =>
          op[u].row.head <= row[p].head /\ op[u].row # r
  <2> SUFFICES ASSUME NEW u \in Views, op[u].at = "validate", op[u].p = p
               PROVE  op[u].row.head <= row[p].head /\ op[u].row # r
    OBVIOUS
  <2>1. op[u].row.head \in Nat
    BY HandlersApart DEF Validating, ProposalRows
  <2>2. op[u].row.head <= row[p].head
    BY DEF Sees
  <2> QED BY <1>4, <2>1, <2>2
<1>9. ASSUME NEW u \in Views PROVE Sees(u)'
  <2>1. CASE u = v
    BY <1>3, <1>7, <2>1 DEF Sees
  <2>2. CASE u # v /\ op[u].p = p
    <3>1. op[u].at = "validate" => op[u].row.head \in Nat
      BY HandlersApart DEF Validating, ProposalRows
    <3> QED BY <1>3, <1>4, <1>6, <1>8, <2>2, <3>1 DEF Sees
  <2>3. CASE u # v /\ op[u] = Idle
    BY <1>6, <2>3 DEF Sees, Idle
  <2>4. CASE u # v /\ op[u] # Idle /\ op[u].p # p
    <3>1. op[u].p \in Proposals
      BY <2>4, HandlersOwn DEF CorrTypes
    <3> QED BY <1>2, <1>6, <2>4, <3>1 DEF Sees
  <2> QED BY <2>1, <2>2, <2>3, <2>4
<1>10. \A q \in Proposals : Standing(q)' => Standing(q) /\ row'[q].val = row[q].val
  <2>1. ASSUME NEW q \in Proposals, q # p, Standing(q)'
        PROVE  Standing(q) /\ row'[q].val = row[q].val
    BY <1>2, <1>6, <1>7, <2>1 DEF Standing, Pending
  <2>2. ASSUME Standing(p)'
        PROVE  Standing(p) /\ row'[p].val = row[p].val
    BY <1>3, <1>6, <1>7, <1>8, <2>2 DEF Standing, Pending
  <2> QED BY <2>1, <2>2
<1>11. OneStands'
  BY <1>10 DEF OneStands
<1>12. Known' \subseteq Known
  BY <1>6, <1>7 DEF Known, Exportings
<1>13. \A x \in Known' : /\ row'[x.p] # NoRow
                         /\ Exists(x.p)' => /\ x.head <= row'[x.p].head
                                            /\ x.head = row'[x.p].head => Tells(x, x.p)'
  <2> SUFFICES ASSUME NEW x \in Known
               PROVE  /\ row'[x.p] # NoRow
                      /\ Exists(x.p)' => /\ x.head <= row'[x.p].head
                                         /\ x.head = row'[x.p].head => Tells(x, x.p)'
    BY <1>12
  <2>1. x \in ExportFiles
    BY KnownType
  <2>2. CASE x.p = p
    <3>1. x.head <= row[p].head /\ x.head \in Nat
      BY <2>1, <2>2 DEF ExportsFit, ExportFiles
    <3> QED BY <1>3, <1>4, <2>2, <3>1
  <2>3. CASE x.p # p
    BY <1>2, <2>1, <2>3 DEF ExportsFit, ExportFiles, Tells
  <2> QED BY <2>2, <2>3
<1>14. ASSUME NEW q \in Proposals, Exists(q)', NEW x,
              row'[q].last = {x}, x.head = row'[q].head - 1
       PROVE  Tells(x, q)'
  <2>1. CASE q = p
    <3>1. r.last = {x} /\ x.head = row[p].head
      <4>1. row'[q] = r /\ r.head - 1 = row[p].head
        BY <1>3, <1>4, <2>1
      <4>2. row'[q].last = {x} /\ x.head = row'[q].head - 1
        BY <1>14
      <4> QED BY <4>1, <4>2
    <3>2. x.val = r.val /\ x.kept = Kept(p)'
      BY <3>1
    <3> QED BY <1>3, <2>1, <3>2 DEF Tells
  <2>2. CASE q # p
    BY <1>2, <1>14, <2>2 DEF ExportsFit, Tells
  <2> QED BY <2>1, <2>2
<1>15. ExportsFit'
  BY <1>13, <1>14 DEF ExportsFit
<1> QED BY <1>1, <1>5, <1>9, <1>11, <1>15

\* A verdict is about what is there, and passes only if nobody stands for another
\* value; an export is a known one or shows the proposal.
VerdictFits(o) ==
    /\ o.row = row[o.p] /\ o.content = Content(o.p) /\ Exists(o.p)
    /\ o.verdict = "validated_candidate" =>
           \A q \in Proposals : Standing(q) => row[q].val = row[o.p].val
ExportFits(o) ==
    \/ o.export \in Known
    \/ o.export.head = row[o.p].head /\ Tells(o.export, o.p)

\* A step of a handler that changes no row and no evidence.
LEMMA StillKeeps ==
    ASSUME CorrInv, NEW v \in Views, NEW o \in Handlers \cup {Idle},
           op' = [op EXCEPT ![v] = o],
           o # Idle => row[o.p] # NoRow,
           o.at = "validate" => VerdictFits(o),
           o.at \in AtExport => ExportFits(o),
           exports' \in SUBSET Known,
           UNCHANGED <<row, evidence, base, passed, torn>>
    PROVE  CorrInv'
<1> USE DEF CorrInv, VerdictFits, ExportFits
<1>1. CorrTypes'
  BY KnownType DEF CorrTypes
<1>2. /\ op'[v] = o
      /\ \A u \in Views : u # v => op'[u] = op[u]
  BY DEF CorrTypes
<1>3. \A q \in Proposals : /\ (Exists(q)' <=> Exists(q))
                           /\ Content(q)' = Content(q) /\ Kept(q)' = Kept(q)
  BY DEF Exists, Content, Kept
<1>4. PassedIsHeld'
  BY <1>3 DEF PassedIsHeld
<1>5. o # Idle => o.p \in Proposals
  BY HandlersOwn
<1>6. o.at # "idle" => o # Idle
  BY DEF Idle
<1>7. ASSUME NEW u \in Views PROVE Sees(u)'
  <2>1. CASE u = v
    <3>1. o.at = "validate" =>
              /\ o.row.head <= row[o.p].head
              /\ o.content = Content(o.p)'
      <4> SUFFICES ASSUME o.at = "validate"
                   PROVE  o.row.head <= row[o.p].head /\ o.content = Content(o.p)'
        OBVIOUS
      <4>1. o.p \in Proposals
        BY <1>5, <1>6
      <4>2. row[o.p].head \in Nat
        BY <4>1, RowsApart DEF ProposalRows
      <4> QED BY <1>3, <4>1, <4>2
    <3> QED BY <1>2, <2>1, <3>1 DEF Sees
  <2>2. CASE u # v
    <3>1. op[u] # Idle => op[u].p \in Proposals
      BY HandlersOwn DEF CorrTypes
    <3>2. op[u].at = "validate" => op[u] # Idle
      BY DEF Idle
    <3> QED BY <1>2, <1>3, <2>2, <3>1, <3>2 DEF Sees
  <2> QED BY <2>1, <2>2
<1>8. OneStands'
  <2>1. ASSUME NEW q \in Proposals, Standing(q)'
        PROVE  \/ Standing(q)
               \/ /\ o.at = "validate" /\ o.p = q
                  /\ o.verdict = "validated_candidate"
    BY <1>2, <1>3, <2>1 DEF Standing, Pending
  <2> QED BY <2>1 DEF OneStands
<1>9. \A x \in Known' : \/ x \in Known
                        \/ x = o.export /\ o.at \in AtExport /\ x \notin Known
  BY <1>2 DEF Known, Exportings
<1>10. \A x \in Known' : /\ row[x.p] # NoRow
                         /\ Exists(x.p)' => /\ x.head <= row[x.p].head
                                            /\ x.head = row[x.p].head => Tells(x, x.p)'
  <2> TAKE x \in Known'
  <2>1. CASE x \in Known
    <3>1. x \in ExportFiles
      BY <2>1, KnownType
    <3> QED BY <1>3, <2>1, <3>1 DEF ExportsFit, ExportFiles, Tells
  <2>2. CASE x = o.export /\ o.at \in AtExport /\ x \notin Known
    <3>1. o \in Exporting \cup Recording /\ o # Idle
      BY <1>6, <2>2 DEF Handlers, Attaching, Moving, Revising, Validating, Redacting, Unlinking,
            Dropping, Exporting, Recording, AtExport
    <3>2. x.p = o.p /\ x.head \in Nat /\ o.p \in Proposals
      BY <2>2, <3>1 DEF Exporting, Recording, ExportFiles
    <3> QED BY <1>3, <2>2, <3>1, <3>2 DEF Tells
  <2> QED BY <1>9, <2>1, <2>2
<1>11. ExportsFit'
  BY <1>3, <1>10 DEF ExportsFit, Tells
<1> QED BY <1>1, <1>4, <1>7, <1>8, <1>11

-------------------------------------------------------------------------------
(* Corrections: the requests. *)

\* What a row becomes when an event is appended.
LEMMA AppendedRow ==
    ASSUME NEW r \in ProposalRows, NEW last \in SUBSET ExportFiles
    PROVE  /\ Appended(r, last) \in ProposalRows /\ Appended(r, last).head = r.head + 1
           /\ Appended(r, last).state = r.state /\ Appended(r, last).visible = r.visible
           /\ Appended(r, last).val = r.val /\ Appended(r, last).last = last
<1>1. r.head + 1 \in Nat
  BY DEF ProposalRows
<1>2. Appended(r, last) = [r EXCEPT !.head = r.head + 1, !.last = last]
  BY DEF Appended
<1> QED BY <1>1, <1>2 DEF ProposalRows

LEMMA CreateKeeps ==
    ASSUME CorrInv, NEW v \in Views, NEW val \in Vals, Create(v, val)
    PROVE  CorrInv'
<1> USE DEF CorrInv
<1> PICK p \in Proposals :
        /\ row[p] = NoRow
        /\ row' = [row EXCEPT ![p] =
                [state |-> "draft", val |-> val, visible |-> FALSE, head |-> 1,
                 last |-> {}, original |-> base]]
  BY DEF Create
<1> DEFINE r == [state |-> "draft", val |-> val, visible |-> FALSE, head |-> 1,
                 last |-> {}, original |-> base]
<1>1. r \in ProposalRows /\ r.state = "draft" /\ r.last = {} /\ ~r.visible /\ r # NoRow
  <2>1. r \in ProposalRows
    BY DEF ProposalRows, Active, CorrTypes
  <2>2. NoRow.state = "none" /\ r.state = "draft"
    BY DEF NoRow
  <2> QED BY <2>1, <2>2
<1>2. row' = [row EXCEPT ![p] = r]
  OBVIOUS
<1>3. UNCHANGED <<evidence, exports, base, passed, torn, op>>
  BY DEF Create
<1> HIDE DEF r
<1>4. row'[p] = r /\ \A q \in Proposals \ {p} : row'[q] = row[q]
  BY <1>2 DEF CorrTypes
<1>5. CorrTypes'
  BY <1>1, <1>2, <1>3 DEF CorrTypes
<1>6. "draft" \notin Final
  BY DEF Final
<1>7. PassedIsHeld'
  BY <1>1, <1>3, <1>4, <1>6 DEF PassedIsHeld, Exists, Content, Kept
<1>8. \A u \in Views : op[u] # Idle => op[u].p \in Proposals \ {p}
  BY HandlersOwn DEF Sees, CorrTypes
<1>9. ASSUME NEW u \in Views PROVE Sees(u)'
  <2>1. op[u].at = "validate" => op[u] # Idle
    BY DEF Idle
  <2> QED BY <1>3, <1>4, <1>8, <2>1 DEF Sees, Exists, Content, Kept
<1>10. \A q \in Proposals : Standing(q)' => q # p /\ Standing(q)
  <2>1. \A u \in Views : op[u].at = "validate" => op[u] # Idle
    BY DEF Idle
  <2> QED BY <1>1, <1>3, <1>4, <1>6, <1>8, <2>1 DEF Standing, Pending, Exists
<1>11. OneStands'
  BY <1>4, <1>10 DEF OneStands
<1>12. \A x \in Known : x.p \in Proposals \ {p}
  BY KnownType DEF ExportsFit, ExportFiles
<1>13. ExportsFit'
  <2>1. Known' = Known
    BY <1>3 DEF Known, Exportings
  <2>2. \A q \in Proposals \ {p} : \A x : Tells(x, q)' <=> Tells(x, q)
    BY <1>3, <1>4 DEF Tells, Kept
  <2> QED BY <1>1, <1>4, <1>12, <2>1, <2>2 DEF ExportsFit, Exists
<1> QED BY <1>5, <1>7, <1>9, <1>11, <1>13

LEMMA AttachKeeps ==
    ASSUME CorrInv, NEW v \in Views, NEW p \in Proposals, NEW d \in Digests, Attach(v, p, d)
    PROVE  CorrInv'
<1> DEFINE o == [at |-> "attaching", p |-> p, d |-> d]
<1>1. o \in Attaching /\ o.p = p /\ o.at # "validate" /\ o.at \notin AtExport
  BY DEF Attaching, AtExport
<1>2. row[p] # NoRow
  BY RowsApart DEF Attach, CorrInv
<1>3. op' = [op EXCEPT ![v] = o] /\ UNCHANGED <<row, evidence, exports, base, passed, torn>>
  BY DEF Attach
<1> HIDE DEF o
<1>4. exports' \in SUBSET Known
  BY <1>3 DEF Known
<1> QED BY <1>1, <1>2, <1>3, <1>4, StillKeeps DEF Handlers

\* A handler reads a proposal and begins.
LEMMA BeginKeeps ==
    ASSUME CorrInv, NEW v \in Views, NEW o \in Moving \cup Revising \cup Redacting,
           Exists(o.p), Begin(v, o)
    PROVE  CorrInv'
<1>1. o.at # "validate" /\ o.at \notin AtExport /\ o.p \in Proposals
  BY DEF Moving, Revising, Redacting, AtExport
<1>2. row[o.p] # NoRow
  BY <1>1, RowsApart DEF CorrInv
<1>3. op' = [op EXCEPT ![v] = o] /\ UNCHANGED <<row, evidence, exports, base, passed, torn>>
  BY DEF Begin
<1>4. exports' \in SUBSET Known
  BY <1>3 DEF Known
<1> QED BY <1>1, <1>2, <1>3, <1>4, StillKeeps DEF Handlers

LEMMA BeginsKeep ==
    ASSUME CorrInv, NEW v \in Views, NEW p \in Proposals,
           \/ \E kind \in {"accept", "revoke", "withdraw", "submit"} : BeginMove(v, kind, p)
           \/ \E val \in Vals : BeginRevise(v, p, val)
           \/ \E d \in Digests : BeginRedact(v, p, d)
    PROVE  CorrInv'
<1>1. ASSUME NEW kind \in {"accept", "revoke", "withdraw", "submit"}, BeginMove(v, kind, p)
      PROVE  CorrInv'
  <2> DEFINE o == [at |-> kind, p |-> p, row |-> row[p]]
  <2>1. Exists(p) /\ row[p].state \in Allowed(kind) /\ Begin(v, o)
    BY <1>1 DEF BeginMove, Checks
  <2>2. o \in Moving /\ o.p = p
    BY <2>1, RowsApart DEF Moving, CorrInv
  <2> HIDE DEF o
  <2> QED BY <2>1, <2>2, BeginKeeps
<1>2. ASSUME NEW val \in Vals, BeginRevise(v, p, val)
      PROVE  CorrInv'
  <2> DEFINE state == IF HasRows(p) THEN "evidence_attached" ELSE "draft"
             o == [at |-> "revise", p |-> p, row |-> row[p], val |-> val, state |-> state]
  <2>1. Exists(p) /\ Begin(v, o)
    BY <1>2 DEF BeginRevise, Checks
  <2>2. o \in Revising /\ o.p = p
    BY <2>1, RowsApart DEF Revising, CorrInv
  <2> HIDE DEF o
  <2> QED BY <2>1, <2>2, BeginKeeps
<1>3. ASSUME NEW d \in Digests, BeginRedact(v, p, d)
      PROVE  CorrInv'
  <2> DEFINE o == [at |-> "redact", p |-> p, row |-> row[p], d |-> d,
                   listed |-> {x \in exports : x.p = p}]
  <2>1. Exists(p) /\ Begin(v, o)
    BY <1>3 DEF BeginRedact, Checks
  <2>2. o \in Redacting /\ o.p = p
    BY <2>1, RowsApart DEF Redacting, CorrInv, CorrTypes
  <2> HIDE DEF o
  <2> QED BY <2>1, <2>2, BeginKeeps
<1> QED BY <1>1, <1>2, <1>3

\* A validation that will pass has seen nobody stand for another value.
LEMMA BeginValidateKeeps ==
    ASSUME CorrInv, NEW v \in Views, NEW p \in Proposals, BeginValidate(v, p)
    PROVE  CorrInv'
<1> DEFINE o == [at |-> "validate", p |-> p, row |-> row[p], verdict |-> Verdict(p),
                 content |-> Content(p)]
<1>1. /\ Exists(p) /\ row[p].state \in Active /\ row[p] \in ProposalRows
      /\ Verdict(p) # "draft" /\ Begin(v, o)
  BY RowsApart DEF BeginValidate, Checks, Allowed, CorrInv
<1>2. Verdict(p) \in {"conflict", "validated_candidate", "evidence_attached"}
  BY <1>1 DEF Verdict
<1>3. Content(p) \in Contents
  BY <1>1 DEF Content, Contents, ProposalRows, Kept
<1>4. o \in Validating /\ o.at = "validate" /\ o.p = p /\ o.row = row[p]
      /\ o.content = Content(p) /\ o.verdict = Verdict(p)
  BY <1>1, <1>2, <1>3 DEF Validating
<1>5. ASSUME Verdict(p) = "validated_candidate", NEW q \in Proposals, Standing(q)
      PROVE  row[q].val = row[p].val
  <2>1. row[q].state \in Active
    <3>1. CASE row[q].state \in Final
      BY <3>1 DEF Final, Active
    <3>2. CASE Pending(q)
      BY <3>2, HandlersApart DEF Pending, Validating, CorrInv
    <3> QED BY <1>5, <3>1, <3>2 DEF Standing
  <2> QED BY <1>5, <2>1 DEF Verdict, Competes
<1>6. op' = [op EXCEPT ![v] = o] /\ UNCHANGED <<row, evidence, exports, base, passed, torn>>
  BY <1>1 DEF Begin
<1>7. row[p] # NoRow
  BY <1>1, RowsApart DEF CorrInv
<1> HIDE DEF o
<1>8. exports' \in SUBSET Known
  BY <1>6 DEF Known
<1>9. VerdictFits(o) /\ o.at \notin AtExport
  BY <1>1, <1>4, <1>5 DEF VerdictFits, AtExport
<1> QED BY <1>4, <1>6, <1>7, <1>8, <1>9, StillKeeps DEF Handlers

-------------------------------------------------------------------------------
(* Corrections: the transactions. *)

LEMMA MarkedRow ==
    ASSUME NEW r \in ProposalRows, NEW state \in Active \cup {"withdrawn"}, NEW visible \in BOOLEAN
    PROVE  LET n == [r EXCEPT !.state = state, !.visible = visible]
           IN  /\ n \in ProposalRows /\ n.state = state /\ n.visible = visible
               /\ n.val = r.val /\ n.head = r.head
BY DEF ProposalRows

\* A transaction that starts a proposal over: what it said does not stand any more.
LEMMA StartsOver ==
    ASSUME CorrInv, NEW v \in Views, NEW p \in Proposals, Exists(p),
           NEW r \in ProposalRows, r.head = row[p].head, ~r.visible, r.state \notin Final,
           row' = [row EXCEPT ![p] = Appended(r, {})],
           NEW o \in Unlinking \cup {Idle}, o # Idle => o.p = p, op' = [op EXCEPT ![v] = o],
           evidence' \in [Proposals -> [Digests -> {"none", "kept", "redacted"}]],
           OthersKept(p), UNCHANGED <<exports, base, passed>>
    PROVE  CorrInv'
<1> DEFINE n == Appended(r, {})
<1>1. /\ n \in ProposalRows /\ n.head = row[p].head + 1
      /\ ~n.visible /\ n.state \notin Final /\ n.last = {}
  BY AppendedRow
<1>2. row' = [row EXCEPT ![p] = n]
  OBVIOUS
<1> HIDE DEF n
<1>3. ClaimsFit(p, n) /\ RecordFits(p, n)
  BY <1>1 DEF ClaimsFit, RecordFits
<1>4. exports' \in SUBSET Known /\ passed' \in [Proposals -> SUBSET Contents]
  BY DEF Known, CorrInv, CorrTypes
<1> QED BY <1>1, <1>2, <1>3, <1>4, EditKeeps

\* What a transaction does to the history of torn proposals.
LEMMA TearsOne ==
    ASSUME NEW v \in Views, NEW startsOver \in BOOLEAN, Tears(v, startsOver)
    PROVE  /\ \A q : q # op[v].p => (q \in torn' <=> q \in torn)
           /\ op[v].p \notin torn' => op[v].row = row[op[v].p]
           /\ op[v].p \notin torn' => startsOver \/ op[v].p \notin torn
BY DEF Tears, HasMoved

LEMMA AttachCommitsKeeps ==
    ASSUME CorrInv, NEW v \in Views, AttachCommits(v)
    PROVE  CorrInv'
<1> DEFINE p == op[v].p
           r == [row[p] EXCEPT !.state = "evidence_attached", !.visible = FALSE]
<1>1. p \in Proposals /\ op[v].d \in Digests
  BY HandlersApart DEF AttachCommits, CorrInv, Attaching
<1>2. Exists(p) /\ row[p] \in ProposalRows
  BY <1>1, RowsApart DEF AttachCommits, CorrInv
<1>3. r \in ProposalRows /\ r.head = row[p].head /\ ~r.visible /\ r.state \notin Final
  BY <1>2 DEF ProposalRows, Active, Final
<1>4. /\ row' = [row EXCEPT ![p] = Appended(r, {})]
      /\ op' = [op EXCEPT ![v] = Idle]
      /\ evidence' = [evidence EXCEPT ![p][op[v].d] = "kept"]
      /\ torn' = torn \ {p}
      /\ UNCHANGED <<exports, base, passed>>
  BY <1>1 DEF AttachCommits, CorrInv, CorrTypes
<1> HIDE DEF p, r
<1>5. /\ evidence' \in [Proposals -> [Digests -> {"none", "kept", "redacted"}]]
      /\ OthersKept(p)
  BY <1>1, <1>4 DEF CorrInv, CorrTypes, OthersKept
<1> QED BY <1>1, <1>2, <1>3, <1>4, <1>5, StartsOver

\* A transition goes by the row that was read, whatever became of it.
LEMMA CommitMoveKeeps ==
    ASSUME CorrInv, NEW v \in Views, CommitMove(v)
    PROVE  CorrInv'
<1>0. op[v] \in Moving /\ op[v].p \in Proposals
  BY HandlersApart DEF CommitMove, Commits, CorrInv, Moving
<1> PICK p \in Proposals : p = op[v].p
  BY <1>0
<1> PICK kind \in {"accept", "revoke", "withdraw", "submit"} :
        LET m == Moved(kind, op[v].row) IN
        /\ Commits(v, kind)
        /\ row' = [row EXCEPT ![p] = Appended([row[p] EXCEPT
                !.state = m.state, !.visible = m.visible], {})]
        /\ Tears(v, kind = "withdraw")
        /\ op' = [op EXCEPT ![v] = Idle]
        /\ UNCHANGED <<evidence, exports, base, passed>>
  BY DEF CommitMove
<1> DEFINE old == op[v].row
           m == Moved(kind, old)
           r == [row[p] EXCEPT !.state = m.state, !.visible = m.visible]
           n == Appended(r, {})
<1>1. op[v] \in Moving /\ op[v].at = kind /\ Exists(p)
  BY <1>0 DEF Commits, CorrInv
<1>2. /\ row[p] \in ProposalRows /\ old \in ProposalRows /\ old.state \in Allowed(kind)
  BY <1>1, RowsApart DEF Moving, CorrInv
<1>3. /\ \A q \in Proposals \ {p} : q \in torn' <=> q \in torn
      /\ p \notin torn' => old = row[p] /\ (kind = "withdraw" \/ p \notin torn)
  BY TearsOne
<1>4. row' = [row EXCEPT ![p] = n]
  OBVIOUS
<1> HIDE DEF old
<1>5. /\ m.state \in Active \cup {"withdrawn"} /\ m.visible \in BOOLEAN
      /\ m.state \in Final => old.state \in Final /\ kind # "withdraw"
      /\ m.visible => m.state \in Final
  <2>1. CASE kind = "accept"
    BY <1>2, <2>1 DEF Moved, Allowed, ProposalRows, Active, Final
  <2>2. CASE kind = "revoke"
    BY <1>2, <2>2 DEF Moved, Allowed, ProposalRows, Active, Final
  <2>3. CASE kind = "withdraw"
    BY <1>2, <2>3 DEF Moved, Allowed, ProposalRows, Active, Final
  <2>4. CASE kind = "submit"
    <3>1. old.visible \in BOOLEAN /\ m.visible = old.visible /\ m.state = "submitted"
      BY <1>2, <2>4 DEF Moved, ProposalRows
    <3> QED BY <1>2, <2>4, <3>1 DEF Allowed, Active, Final
  <2> QED BY <2>1, <2>2, <2>3, <2>4
<1> HIDE DEF m
<1>6. /\ r \in ProposalRows /\ r.state = m.state /\ r.visible = m.visible
      /\ r.val = row[p].val /\ r.head = row[p].head
  BY <1>2, <1>5 DEF ProposalRows
<1> HIDE DEF r
<1>7. /\ n \in ProposalRows /\ n.head = row[p].head + 1 /\ n.state = m.state
      /\ n.visible = m.visible /\ n.val = row[p].val /\ n.last = {}
  BY <1>6, AppendedRow
<1> HIDE DEF n
<1>8. /\ evidence' \in [Proposals -> [Digests -> {"none", "kept", "redacted"}]]
      /\ passed' \in [Proposals -> SUBSET Contents] /\ exports' \in SUBSET Known
  BY DEF CorrInv, CorrTypes, Known
<1>9. ASSUME p \notin torn', n.state \in Final
      PROVE  Standing(p) /\ Content(p)' \in passed'[p]
  <2>1. row[p].state \in Final /\ p \notin torn
    BY <1>3, <1>5, <1>7, <1>9
  <2>2. row'[p].val = row[p].val
    BY <1>4, <1>7 DEF CorrInv, CorrTypes
  <2>3. Content(p)' = Content(p)
    BY <2>2 DEF Content, Kept
  <2> QED BY <2>1, <2>3 DEF Standing, CorrInv, PassedIsHeld
<1>10. ClaimsFit(p, n) /\ RecordFits(p, n)
  <2>1. n.visible => n.state \in Final
    BY <1>5, <1>7
  <2>2. RecordFits(p, n)
    BY <1>7 DEF RecordFits
  <2> QED BY <1>7, <1>9, <2>1, <2>2 DEF ClaimsFit
<1>11. OthersKept(p)
  BY <1>3 DEF OthersKept
<1> QED BY <1>1, <1>4, <1>7, <1>8, <1>10, <1>11, EditKeeps

LEMMA CommitReviseKeeps ==
    ASSUME CorrInv, NEW v \in Views, CommitRevise(v)
    PROVE  CorrInv'
<1> DEFINE p == op[v].p
           state == op[v].state
           r == [row[p] EXCEPT !.val = op[v].val, !.state = state, !.visible = FALSE]
<1>1. /\ Exists(p) /\ p \in Proposals /\ op[v].val \in Vals
      /\ state \in {"evidence_attached", "draft"}
  BY HandlersApart DEF CommitRevise, Commits, CorrInv, Revising
<1>2. row[p] \in ProposalRows
  BY <1>1, RowsApart DEF CorrInv
<1>3. state \in Active \ Final
  BY <1>1 DEF Active, Final
<1>4. /\ row' = [row EXCEPT ![p] = Appended(r, {})]
      /\ \A q \in Proposals \ {p} : q \in torn' <=> q \in torn
  BY TearsOne DEF CommitRevise
<1> HIDE DEF state
<1>5. r \in ProposalRows /\ r.head = row[p].head /\ ~r.visible /\ r.state \notin Final
  BY <1>1, <1>2, <1>3 DEF ProposalRows
<1>6. /\ op' = [op EXCEPT ![v] = Idle]
      /\ UNCHANGED <<evidence, exports, base, passed>>
  BY DEF CommitRevise
<1> HIDE DEF p, r
<1>7. /\ evidence' \in [Proposals -> [Digests -> {"none", "kept", "redacted"}]]
      /\ OthersKept(p)
  BY <1>4, <1>6 DEF CorrInv, CorrTypes, OthersKept
<1> QED BY <1>1, <1>4, <1>5, <1>6, <1>7, StartsOver

LEMMA CommitRedactKeeps ==
    ASSUME CorrInv, NEW v \in Views, CommitRedact(v)
    PROVE  CorrInv'
<1> DEFINE p == op[v].p
           state == IF Kept(p) \ {op[v].d} = {} THEN "draft" ELSE "evidence_attached"
           r == [row[p] EXCEPT !.state = state, !.visible = FALSE]
           o == [at |-> "unlink", p |-> p, d |-> op[v].d, listed |-> op[v].listed]
<1>1. Exists(p) /\ p \in Proposals /\ op[v].d \in Digests /\ op[v] \in Redacting
  BY HandlersApart DEF CommitRedact, Commits, CorrInv, Redacting
<1>2. row[p] \in ProposalRows
  BY <1>1, RowsApart DEF CorrInv
<1>3. state \in Active \ Final
  BY DEF Active, Final
<1>4. /\ row' = [row EXCEPT ![p] = Appended(r, {})]
      /\ \A q \in Proposals \ {p} : q \in torn' <=> q \in torn
  BY TearsOne DEF CommitRedact
<1> HIDE DEF state
<1>5. r \in ProposalRows /\ r.head = row[p].head /\ ~r.visible /\ r.state \notin Final
  BY <1>2, <1>3 DEF ProposalRows
<1>6. o \in Unlinking /\ o.p = p
  BY <1>1 DEF Redacting, Unlinking
<1>7. /\ op' = [op EXCEPT ![v] = o]
      /\ evidence' = [evidence EXCEPT ![p][op[v].d] = "redacted"]
      /\ UNCHANGED <<exports, base, passed>>
  BY <1>1 DEF CommitRedact, CorrInv, CorrTypes
<1> HIDE DEF p, r, o
<1>8. /\ evidence' \in [Proposals -> [Digests -> {"none", "kept", "redacted"}]]
      /\ OthersKept(p)
  BY <1>1, <1>4, <1>7 DEF CorrInv, CorrTypes, OthersKept
<1> QED BY <1>1, <1>4, <1>5, <1>6, <1>7, <1>8, StartsOver

\* The verdict is about the content that is there when it is committed, unless the
\* proposal has moved.
LEMMA CommitValidateKeeps ==
    ASSUME CorrInv, NEW v \in Views, CommitValidate(v)
    PROVE  CorrInv'
<1>0. op[v] \in Validating /\ op[v].p \in Proposals
  BY HandlersApart DEF CommitValidate, Commits, CorrInv, Validating
<1> PICK p \in Proposals : p = op[v].p
  BY <1>0
<1> DEFINE verdict == op[v].verdict
           r == [row[p] EXCEPT !.state = verdict, !.visible = FALSE]
           n == Appended(r, {})
<1>1. /\ op[v] \in Validating /\ op[v].at = "validate"
      /\ Exists(p)
  BY <1>0 DEF CommitValidate, Commits, CorrInv
<1>2. /\ verdict \in {"conflict", "validated_candidate", "evidence_attached"}
      /\ op[v].content \in Contents
  BY <1>1 DEF Validating
<1>20. /\ \A q \in Proposals \ {p} : q \in torn' <=> q \in torn
       /\ p \notin torn' => op[v].row = row[p]
  BY TearsOne DEF CommitValidate
<1>21. p \notin torn' => op[v].content = Content(p)
  BY <1>1, <1>20 DEF CorrInv, Sees
<1>3. row[p] \in ProposalRows
  BY <1>1, <1>2, RowsApart DEF CorrInv
<1>4. /\ row' = [row EXCEPT ![p] = n] /\ op' = [op EXCEPT ![v] = Idle]
      /\ passed' = [passed EXCEPT ![p] = IF verdict = "validated_candidate" THEN {op[v].content}
                                         ELSE passed[p]]
      /\ UNCHANGED <<evidence, exports, base>>
  BY <1>2 DEF CommitValidate, CorrInv, CorrTypes
<1>5. verdict \in Active /\ (verdict \in Final => verdict = "validated_candidate")
  BY <1>2 DEF Active, Final
<1>6. /\ r \in ProposalRows /\ r.state = verdict /\ ~r.visible
      /\ r.val = row[p].val /\ r.head = row[p].head
  BY <1>3, <1>5, MarkedRow
<1> HIDE DEF r
<1>7. /\ n \in ProposalRows /\ n.head = row[p].head + 1 /\ n.state = verdict
      /\ ~n.visible /\ n.val = row[p].val /\ n.last = {}
  BY <1>6, AppendedRow
<1>8. p \notin torn' /\ verdict = "validated_candidate" => Standing(p)
  BY <1>1, <1>20 DEF Standing, Pending
<1> HIDE DEF n, verdict
<1>9. /\ evidence' \in [Proposals -> [Digests -> {"none", "kept", "redacted"}]]
      /\ passed' \in [Proposals -> SUBSET Contents] /\ exports' \in SUBSET Known
      /\ OthersKept(p)
  BY <1>2, <1>4, <1>20 DEF CorrInv, CorrTypes, Known, OthersKept
<1>10. p \notin torn' /\ verdict = "validated_candidate" => Content(p)' \in passed'[p]
  <2>1. row'[p].val = row[p].val
    BY <1>2, <1>4, <1>7 DEF CorrInv, CorrTypes
  <2>2. Content(p)' = Content(p)
    BY <1>4, <2>1 DEF Content, Kept
  <2> QED BY <1>4, <1>21, <2>2 DEF CorrInv, CorrTypes
<1>11. ClaimsFit(p, n) /\ RecordFits(p, n)
  BY <1>5, <1>7, <1>8, <1>10 DEF ClaimsFit, RecordFits
<1> QED BY <1>1, <1>4, <1>7, <1>9, <1>11, EditKeeps

\* A handler ends without touching a proposal.
LEMMA EndsKeeps ==
    ASSUME CorrInv, NEW v \in Views, op' = [op EXCEPT ![v] = Idle],
           exports' \in SUBSET Known, UNCHANGED <<row, evidence, base, passed, torn>>
    PROVE  CorrInv'
<1>1. Idle.at # "validate" /\ Idle.at \notin AtExport
  BY DEF Idle, AtExport
<1> QED BY <1>1, StillKeeps

LEMMA UnlinksKeeps ==
    ASSUME CorrInv, NEW v \in Views, RedactUnlinks(v)
    PROVE  CorrInv'
<1>1. op[v] \in Unlinking /\ op[v] # Idle
  BY HandlersApart DEF RedactUnlinks, CorrInv
<1> DEFINE o == [at |-> "drop", p |-> op[v].p, d |-> op[v].d]
<1>2. o \in Dropping /\ o.p = op[v].p /\ o.at # "validate" /\ o.at \notin AtExport
  BY <1>1 DEF Unlinking, Dropping, AtExport
<1>3. /\ op' = [op EXCEPT ![v] = Idle] \/ op' = [op EXCEPT ![v] = o]
      /\ UNCHANGED <<row, evidence, exports, base, passed, torn>>
  BY DEF RedactUnlinks
<1>4. row[o.p] # NoRow
  BY <1>1, <1>2 DEF CorrInv, Sees
<1> HIDE DEF o
<1>5. exports' \in SUBSET Known
  BY <1>3 DEF Known
<1>6. CASE op' = [op EXCEPT ![v] = Idle]
  BY <1>3, <1>5, <1>6, EndsKeeps
<1>7. CASE op' = [op EXCEPT ![v] = o]
  BY <1>2, <1>3, <1>4, <1>5, <1>7, StillKeeps DEF Handlers
<1> QED BY <1>3, <1>6, <1>7

LEMMA DropsKeeps ==
    ASSUME CorrInv, NEW v \in Views, RedactDrops(v) \/ Bereft(v)
    PROVE  CorrInv'
BY EndsKeeps DEF RedactDrops, Bereft, Known

-------------------------------------------------------------------------------
(* Corrections: exports. *)

LEMMA ExportKeeps ==
    ASSUME CorrInv, NEW v \in Views, NEW p \in Proposals, Export(v, p)
    PROVE  CorrInv'
<1> DEFINE x == Exported(p)
           o == [at |-> "export", p |-> p, export |-> x]
<1>1. Exists(p) /\ row[p] \in ProposalRows /\ row[p] # NoRow
  BY RowsApart DEF Export, CorrInv
<1>2. x \in ExportFiles /\ x.p = p /\ x.head = row[p].head /\ Tells(x, p)
  BY <1>1 DEF Exported, ExportFiles, ProposalRows, Tells, Kept
<1>3. op' = [op EXCEPT ![v] = o] /\ UNCHANGED <<row, evidence, exports, base, passed, torn>>
  BY DEF Export, Begin
<1> HIDE DEF x
<1>4. o \in Exporting /\ o.p = p /\ o.at = "export" /\ o.export = x
  BY <1>2 DEF Exporting
<1> HIDE DEF o
<1>5. exports' \in SUBSET Known
  BY <1>3 DEF Known
<1>6. ExportFits(o) /\ o.at # "validate"
  BY <1>2, <1>4 DEF ExportFits
<1> QED BY <1>1, <1>3, <1>4, <1>5, <1>6, StillKeeps DEF Handlers

LEMMA ExportWritesKeeps ==
    ASSUME CorrInv, NEW v \in Views, ExportWrites(v)
    PROVE  CorrInv'
<1> DEFINE o == [op[v] EXCEPT !.at = "record"]
<1>1. op[v] \in Exporting /\ op[v] # Idle /\ op[v].at = "export"
  BY HandlersApart DEF ExportWrites, CorrInv
<1>2. o \in Exporting /\ o.at = "record" /\ o.p = op[v].p /\ o.export = op[v].export
  BY <1>1 DEF Exporting
<1>3. o.export \in Known /\ row[o.p] # NoRow
  BY <1>1, <1>2 DEF Known, Exportings, AtExport, CorrInv, Sees
<1>4. op' = [op EXCEPT ![v] = o] /\ UNCHANGED <<row, evidence, exports, base, passed, torn>>
  BY DEF ExportWrites, CorrInv, CorrTypes
<1> HIDE DEF o
<1>5. exports' \in SUBSET Known
  BY <1>4 DEF Known
<1>6. ExportFits(o) /\ o.at # "validate"
  BY <1>2, <1>3 DEF ExportFits
<1> QED BY <1>2, <1>3, <1>4, <1>5, <1>6, StillKeeps DEF Handlers

LEMMA ExportReadsKeeps ==
    ASSUME CorrInv, NEW v \in Views, ExportReads(v)
    PROVE  CorrInv'
<1> DEFINE o == [at |-> "recording", p |-> op[v].p, row |-> row[op[v].p], export |-> op[v].export]
<1>1. op[v] \in Exporting /\ op[v] # Idle /\ op[v].at = "record"
  BY HandlersApart DEF ExportReads, CorrInv
<1>2. /\ \/ op' = [op EXCEPT ![v] = Idle]
         \/ Exists(op[v].p) /\ op' = [op EXCEPT ![v] = o]
      /\ UNCHANGED <<row, evidence, exports, base, passed, torn>>
  BY DEF ExportReads
<1>3. exports' \in SUBSET Known
  BY <1>2 DEF Known
<1>4. CASE op' = [op EXCEPT ![v] = Idle]
  BY <1>2, <1>3, <1>4, EndsKeeps
<1>5. CASE Exists(op[v].p) /\ op' = [op EXCEPT ![v] = o]
  <2>1. op[v].p \in Proposals
    BY <1>1 DEF Exporting
  <2>2. row[op[v].p] \in ProposalRows /\ row[op[v].p] # NoRow
    BY <1>5, <2>1, RowsApart DEF CorrInv
  <2>3. o \in Recording /\ o.at = "recording" /\ o.p = op[v].p /\ o.export = op[v].export
    BY <1>1, <2>2 DEF Exporting, Recording
  <2>4. ExportFits(o) /\ o.at # "validate"
    BY <1>1, <2>3 DEF Known, Exportings, AtExport, ExportFits
  <2> HIDE DEF o
  <2> QED BY <1>2, <1>3, <1>5, <2>2, <2>3, <2>4, StillKeeps DEF Handlers
<1> QED BY <1>2, <1>4, <1>5

\* The head is not compared; but an export of an older head is not one of the
\* head that records it.
LEMMA ExportRecordsKeeps ==
    ASSUME CorrInv, NEW v \in Views, ExportRecords(v)
    PROVE  CorrInv'
<1>0. op[v] \in Recording /\ op[v].p \in Proposals
  BY HandlersApart DEF ExportRecords, Commits, CorrInv, Recording
<1> PICK p \in Proposals : p = op[v].p
  BY <1>0
<1> DEFINE e == op[v].export
           old == op[v].row
           r == [row[p] EXCEPT !.state = "exported"]
           n == Appended(r, {e})
<1>1. op[v] \in Recording /\ op[v].at = "recording" /\ Exists(p)
  BY <1>0 DEF ExportRecords, Commits
<1>2. p \in Proposals /\ e \in ExportFiles /\ e.p = p /\ e \in Known
  BY <1>1 DEF Recording, Known, Exportings, AtExport
<1>3. exports' \in SUBSET Known
  BY <1>2 DEF ExportRecords, Known
<1>4. op' = [op EXCEPT ![v] = Idle] /\ UNCHANGED <<evidence, base, passed>>
  BY DEF ExportRecords
<1>5. CASE UNCHANGED <<row, torn>>
  BY <1>3, <1>4, <1>5, EndsKeeps
<1>6. CASE /\ old.state \in {"validated_candidate", "accepted_local"}
           /\ row' = [row EXCEPT ![p] = n] /\ Tears(v, FALSE)
  <2>1. row[p] \in ProposalRows
    BY <1>1, RowsApart DEF CorrInv
  <2>2. /\ r \in ProposalRows /\ r.state = "exported" /\ r.val = row[p].val
        /\ r.head = row[p].head /\ r.visible = row[p].visible
    BY <2>1 DEF ProposalRows, Active
  <2>3. /\ \A q \in Proposals \ {p} : q \in torn' <=> q \in torn
        /\ p \notin torn' => old = row[p] /\ p \notin torn
    BY <1>6, TearsOne
  <2> HIDE DEF r, e, old
  <2>4. /\ n \in ProposalRows /\ n.head = row[p].head + 1 /\ n.state = "exported"
        /\ n.val = row[p].val /\ n.last = {e}
    BY <1>2, <2>2, AppendedRow
  <2> HIDE DEF n
  <2>5. row'[p].val = row[p].val
    BY <1>6, <2>4 DEF CorrInv, CorrTypes
  <2>6. Content(p)' = Content(p) /\ Kept(p)' = Kept(p)
    BY <1>4, <2>5 DEF Content, Kept
  <2>7. ASSUME p \notin torn' PROVE Standing(p) /\ Content(p)' \in passed'[p]
    <3>1. row[p].state \in Final /\ p \notin torn
      BY <1>6, <2>3, <2>7 DEF Final
    <3> QED BY <1>4, <2>6, <3>1 DEF Standing, CorrInv, PassedIsHeld
  <2>8. n.state \in Final
    BY <2>4 DEF Final
  <2>9. RecordFits(p, n)
    BY <1>1, <1>2, <2>4, <2>6 DEF CorrInv, ExportsFit, Tells, RecordFits
  <2>10. ClaimsFit(p, n)
    BY <2>4, <2>7, <2>8 DEF ClaimsFit
  <2>11. /\ evidence' \in [Proposals -> [Digests -> {"none", "kept", "redacted"}]]
         /\ passed' \in [Proposals -> SUBSET Contents]
    BY <1>4 DEF CorrInv, CorrTypes
  <2>12. OthersKept(p)
    BY <1>4, <2>3 DEF OthersKept
  <2> QED BY <1>1, <1>3, <1>4, <1>6, <2>4, <2>9, <2>10, <2>11, <2>12, EditKeeps
<1> QED BY <1>5, <1>6 DEF ExportRecords

-------------------------------------------------------------------------------
(* Corrections: the purge, the index, crashes, and every step. *)

\* Nothing that a handler has read before a purge is there after it.
LEMMA PurgeKeeps == ASSUME CorrInv, Purge PROVE CorrInv'
<1> DEFINE gone == [state |-> "purged"]
<1>1. /\ row' = [p \in Proposals |-> IF row[p] = NoRow THEN NoRow ELSE gone]
      /\ evidence' = [p \in Proposals |-> [d \in Digests |-> "none"]]
      /\ exports' = {} /\ UNCHANGED <<base, passed, torn, op>>
  BY DEF Purge
<1>2. gone # NoRow /\ gone.state = "purged" /\ NoRow.state = "none"
  BY DEF NoRow
<1>3. gone \in NoRows /\ NoRow \in NoRows
  BY DEF NoRows
<1> HIDE DEF gone
<1>4. CorrTypes'
  BY <1>1, <1>3 DEF CorrInv, CorrTypes
<1>5. \A p \in Proposals :
          /\ row'[p].state \notin Final /\ ~Exists(p)'
          /\ row[p] # NoRow => row'[p] # NoRow
          /\ row'[p] \in NoRows
  BY <1>1, <1>2, <1>3 DEF Exists, Final, Active
<1>6. PassedIsHeld' /\ OneStands'
  BY <1>5 DEF PassedIsHeld, OneStands, Standing
<1>7. ASSUME NEW v \in Views PROVE Sees(v)'
  <2>1. op[v] # Idle => op[v].p \in Proposals
    BY HandlersOwn DEF CorrInv, CorrTypes
  <2>2. op[v].at = "validate" => op[v] # Idle /\ op[v].row \in ProposalRows
    BY HandlersApart DEF CorrInv, Validating, Idle
  <2>3. \A p \in Proposals : row'[p] \notin ProposalRows
    <3>1. \A r \in ProposalRows : r.state \in Active \cup {"withdrawn"}
      BY DEF ProposalRows
    <3>2. \A p \in Proposals : row'[p].state \notin Active \cup {"withdrawn"}
      BY <1>5 DEF Exists
    <3> QED BY <3>1, <3>2
  <2> QED BY <1>1, <1>5, <2>1, <2>2, <2>3 DEF CorrInv, Sees
<1>8. Known' \subseteq Known
  BY <1>1 DEF Known, Exportings
<1>9. \A x \in Known' : row'[x.p] # NoRow /\ ~Exists(x.p)'
  BY <1>5, <1>8, KnownType DEF CorrInv, ExportsFit, ExportFiles
<1>10. ExportsFit'
  BY <1>5, <1>9 DEF ExportsFit
<1> QED BY <1>4, <1>6, <1>7, <1>10 DEF CorrInv

LEMMA BaseChangesKeeps == ASSUME CorrInv, BaseChanges PROVE CorrInv'
<1>1. base' \in Nat /\ UNCHANGED <<row, evidence, exports, passed, torn, op>>
  BY DEF BaseChanges, CorrInv, CorrTypes
<1>2. CorrTypes'
  BY <1>1 DEF CorrInv, CorrTypes
<1>3. PassedIsHeld' /\ OneStands'
  BY <1>1 DEF CorrInv, PassedIsHeld, OneStands, Standing, Pending, Content, Kept, Exists
<1>4. ExportsFit'
  BY <1>1 DEF CorrInv, ExportsFit, Known, Exportings, Tells, Kept, Exists
<1>5. \A v \in Views : Sees(v)'
  BY <1>1 DEF CorrInv, Sees, Content, Kept, Exists
<1> QED BY <1>2, <1>3, <1>4, <1>5 DEF CorrInv

\* A handler that dies leaves what it has committed.
LEMMA CrashKeeps == ASSUME CorrInv, Crash PROVE CorrInv'
<1>1. op' = [v \in Views |-> Idle] /\ UNCHANGED <<row, evidence, exports, base, passed, torn>>
  BY DEF Crash
<1>2. Idle.at # "validate" /\ Idle.at \notin AtExport
  BY DEF Idle, AtExport
<1>3. CorrTypes'
  BY <1>1 DEF CorrInv, CorrTypes
<1>4. PassedIsHeld'
  BY <1>1 DEF CorrInv, PassedIsHeld, Content, Kept, Exists
<1>5. \A p \in Proposals : Standing(p)' => Standing(p)
  BY <1>1, <1>2 DEF Standing, Pending
<1>6. OneStands'
  BY <1>1, <1>5 DEF CorrInv, OneStands
<1>7. Known' \subseteq Known
  BY <1>1, <1>2 DEF Known, Exportings
<1>8. ExportsFit'
  BY <1>1, <1>7 DEF CorrInv, ExportsFit, Tells, Kept, Exists
<1>9. \A v \in Views : Sees(v)'
  BY <1>1, <1>2 DEF Sees
<1> QED BY <1>3, <1>4, <1>6, <1>8, <1>9 DEF CorrInv

LEMMA CorrStart == ASSUME Init PROVE CorrInv
<1>1. NoRow.state = "none" /\ Idle.at = "idle"
  BY DEF NoRow, Idle
<1>2. CorrTypes
  BY DEF Init, CorrTypes, NoRows
<1>3. \A p \in Proposals : ~Exists(p) /\ row[p].state \notin Final
  BY <1>1 DEF Init, Exists, Active, Final
<1>4. PassedIsHeld /\ OneStands
  BY <1>3 DEF PassedIsHeld, OneStands, Standing
<1>5. /\ \A v \in Views : op[v] = Idle /\ op[v].at \notin AtExport /\ op[v].at # "validate"
      /\ exports = {}
  BY <1>1 DEF Init, AtExport
<1>7. Known = {} /\ \A v \in Views : Sees(v)
  BY <1>5 DEF Known, Exportings, Sees
<1>8. ExportsFit
  BY <1>3, <1>7 DEF ExportsFit
<1> QED BY <1>2, <1>4, <1>7, <1>8 DEF CorrInv

LEMMA CorrStep ==
    ASSUME CorrInv, [Next]_vars
    PROVE  CorrInv'
<1>1. ASSUME NEW v \in Views, Request(v) PROVE CorrInv'
  <2>1. CASE \E val \in Vals : Create(v, val)
    BY <2>1, CreateKeeps
  <2>2. CASE \E p \in Proposals : \E d \in Digests : Attach(v, p, d)
    BY <2>2, AttachKeeps
  <2>3. CASE \E p \in Proposals :
                 \/ \E d \in Digests : BeginRedact(v, p, d)
                 \/ \E kind \in {"accept", "revoke", "withdraw", "submit"} : BeginMove(v, kind, p)
                 \/ \E val \in Vals : BeginRevise(v, p, val)
    BY <2>3, BeginsKeep
  <2>4. CASE \E p \in Proposals : BeginValidate(v, p)
    BY <2>4, BeginValidateKeeps
  <2>5. CASE \E p \in Proposals : Export(v, p)
    BY <2>5, ExportKeeps
  <2> QED BY <1>1, <2>1, <2>2, <2>3, <2>4, <2>5 DEF Request
<1>2. ASSUME NEW v \in Views, Goes(v) PROVE CorrInv'
  BY <1>2, AttachCommitsKeeps, CommitMoveKeeps, CommitReviseKeeps, CommitValidateKeeps,
     CommitRedactKeeps, UnlinksKeeps, DropsKeeps, ExportWritesKeeps, ExportReadsKeeps,
     ExportRecordsKeeps DEF Goes
<1>3. CASE UNCHANGED vars
  <2>1. UNCHANGED <<row, evidence, exports, base, passed, torn, op>>
    BY <1>3 DEF vars
  <2>2. CorrTypes'
    BY <2>1 DEF CorrInv, CorrTypes
  <2>3. PassedIsHeld' /\ OneStands'
    BY <2>1 DEF CorrInv, PassedIsHeld, OneStands, Standing, Pending, Content, Kept, Exists
  <2>4. ExportsFit'
    BY <2>1 DEF CorrInv, ExportsFit, Known, Exportings, Tells, Kept, Exists
  <2>5. \A v \in Views : Sees(v)'
    BY <2>1 DEF CorrInv, Sees, Content, Kept, Exists
  <2> QED BY <2>2, <2>3, <2>4, <2>5 DEF CorrInv
<1> QED BY <1>1, <1>2, <1>3, PurgeKeeps, BaseChangesKeeps, CrashKeeps DEF Next

LEMMA CorrInvariant == Spec => []CorrInv
BY CorrStart, CorrStep, PTL DEF Spec

\* With any number of handlers whose transactions do not look at the row again: an
\* annotation is what its own proposal was validated with, and no other proposal that
\* passed says otherwise, unless a transaction wrote a proposal that had moved, and then
\* until the proposal starts over; and an export that is handed out again shows the
\* proposal as it is (accept_local, transition, competing_proposals, _export_matches_head).
THEOREM CorrectionsStand == Spec => []CorrectionsHold
<1>1. CorrInv => CorrectionsHold
  <2> SUFFICES ASSUME CorrInv PROVE CorrectionsHold
    OBVIOUS
  <2>1. AnnotationIsValidated
    BY DEF CorrInv, PassedIsHeld, AnnotationIsValidated
  <2>2. OneWinner
    <3> SUFFICES ASSUME NEW p \in Proposals, NEW q \in Proposals, p \notin torn, q \notin torn,
                        row[p].state \in Final, row[q].state \in Final
                 PROVE  row[p].val = row[q].val
      BY DEF OneWinner
    <3> QED BY DEF CorrInv, OneStands, Standing
  <2>3. ReuseIsCurrent
    <3> SUFFICES ASSUME NEW p \in Proposals, NEW x \in Reusable(p) PROVE Tells(x, p)
      BY DEF ReuseIsCurrent, Tells
    <3>1. x \in Known /\ x.p = p /\ Exists(p) /\ Matches(x, row[p])
      BY DEF Reusable, Known, Exists, Active
    <3> QED BY <3>1 DEF CorrInv, ExportsFit, Matches
  <2> QED BY <2>1, <2>2, <2>3 DEF CorrectionsHold, AnnotationStands
<1> QED BY <1>1, CorrInvariant, PTL


-------------------------------------------------------------------------------
(***************************************************************************)
(* Narration.                                                              *)
(***************************************************************************)
\* A number is found by its name.
LEMMA NumberIsNamed ==
    ASSUME NEW n \in Numbers
    PROVE  Number(n.id) = n
BY NarrationAssumption DEF Number

\* A reference that is chosen is to a number that is written in the text and
\* shares a source with what the sentence cites.
LEMMA RefsFit ==
    ASSUME NEW i \in Items
    PROVE  /\ \A id \in Refs(i) :
                 /\ Number(id) \in Numbers /\ Number(id).id = id
                 /\ Shown(Number(id).display, i)
                 /\ Cited(i) # {} => Number(id).sources \cap Cited(i) # {}
                 /\ \A other \in Refs(i) : Number(other).display = Number(id).display => other = id
           /\ \A d \in Displays : Shown(d, i) /\ Candidates(d, i) # {} =>
                 \E id \in Refs(i) : Number(id).display = d
<1> DEFINE Ds == {e \in Displays : Shown(e, i) /\ Candidates(e, i) # {}}
<1>1. ASSUME NEW d \in Ds PROVE Chosen(d, i) \in Candidates(d, i)
  BY DEF Chosen
<1>2. ASSUME NEW d \in Ds
      PROVE  /\ Chosen(d, i) \in Numbers /\ Chosen(d, i).display = d
             /\ Cited(i) # {} => Chosen(d, i).sources \cap Cited(i) # {}
             /\ Number(Chosen(d, i).id) = Chosen(d, i)
  <2>1. /\ Chosen(d, i) \in Numbers /\ Chosen(d, i).display = d
        /\ Cited(i) # {} => Chosen(d, i).sources \cap Cited(i) # {}
    BY <1>1 DEF Candidates
  <2> QED BY <2>1, NumberIsNamed
<1>3. Refs(i) = {Chosen(d, i).id : d \in Ds}
  BY DEF Refs
<1> HIDE DEF Ds
<1>4. ASSUME NEW id \in Refs(i)
      PROVE  \E d \in Ds : id = Chosen(d, i).id /\ Number(id).display = d
  BY <1>2, <1>3
<1>5. \A d \in Ds : Shown(d, i)
  BY DEF Ds
<1>6. \A id \in Refs(i) :
         /\ Number(id) \in Numbers /\ Number(id).id = id
         /\ Shown(Number(id).display, i)
         /\ Cited(i) # {} => Number(id).sources \cap Cited(i) # {}
         /\ \A other \in Refs(i) : Number(other).display = Number(id).display => other = id
  BY <1>2, <1>4, <1>5
<1>7. ASSUME NEW d \in Displays, Shown(d, i), Candidates(d, i) # {}
      PROVE  \E id \in Refs(i) : Number(id).display = d
  <2>1. d \in Ds
    BY <1>7 DEF Ds
  <2> QED BY <1>2, <1>3, <2>1
<1> QED BY <1>6, <1>7

\* After the repair every chosen reference shares a source with the citations.
LEMMA RepairShares ==
    ASSUME NEW i \in Items
    PROVE  /\ Repaired(i).refs = Refs(i) /\ Repaired(i).says = i.says
           /\ Repaired(i).names = i.names /\ Repaired(i).marks = i.marks
           /\ \A id \in Refs(i) : Number(id).sources \cap Repaired(i).cites \cap Sources # {}
           /\ Repaired(i).cites \cap Sources # {} <=> Cited(i) # {} \/ Refs(i) # {}
<1>1. /\ Repaired(i).refs = Refs(i) /\ Repaired(i).says = i.says
      /\ Repaired(i).names = i.names /\ Repaired(i).marks = i.marks
      /\ Repaired(i).cites = IF Cited(i) # {} THEN Cited(i)
                             ELSE {s \in Sources : \E id \in Refs(i) : s \in Number(id).sources}
  BY DEF Repaired, Items
<1>2. Cited(i) \subseteq Sources
  BY DEF Cited, Items
<1>3. \A id \in Refs(i) : /\ Number(id).sources # {} /\ Number(id).sources \subseteq Sources
                          /\ Cited(i) # {} => Number(id).sources \cap Cited(i) # {}
  BY RefsFit, NarrationAssumption
<1>4. CASE Cited(i) # {}
  BY <1>1, <1>2, <1>3, <1>4
<1>5. CASE Cited(i) = {}
  <2>1. Repaired(i).cites = {s \in Sources : \E id \in Refs(i) : s \in Number(id).sources}
    BY <1>1, <1>5
  <2> QED BY <1>1, <1>3, <1>5, <2>1
<1> QED BY <1>1, <1>4, <1>5

\* The references that are left of a repaired sentence are all that were chosen.
LEMMA FinalFits ==
    ASSUME NEW i \in Items
    PROVE  FinalRefs(Repaired(i)) = Refs(i)
<1>1. \A id \in Refs(i) : id \in NumberIds
  BY RefsFit DEF NumberIds
<1>2. \A id \in Refs(i) : \E t \in i.says \cup i.names :
          Number(id).display = t \/ <<Number(id).display, t>> \in Inside
  BY RefsFit, NarrationAssumption DEF Shown
<1> QED BY <1>1, <1>2, RepairShares DEF FinalRefs

\* A number token is backed exactly when a chosen reference displays it.
LEMMA TokensBacked ==
    ASSUME NEW i \in Items, NEW t \in i.says
    PROVE  (\E id \in Refs(i) : Number(id).display = t) <=>
               \E n \in Numbers : n.display = t /\ (Cited(i) # {} => n.sources \cap Cited(i) # {})
<1>1. ASSUME NEW n \in Numbers, n.display = t, Cited(i) # {} => n.sources \cap Cited(i) # {}
      PROVE  \E id \in Refs(i) : Number(id).display = t
  <2>1. t \in Displays /\ Shown(t, i) /\ n \in Candidates(t, i)
    BY <1>1 DEF Displays, Shown, Candidates
  <2> QED BY <2>1, RefsFit
<1> QED BY <1>1, RefsFit

\* A sentence survives the review when it is backed, and no other does.
LEMMA SurvivorsAreBacked ==
    ASSUME NEW i \in Items, ~Secret(i)
    PROVE  ItemSurvives(Repaired(i)) <=> Backed(i)
<1>1. i.marks = {} <=> i.marks \cap {"betting", "cot", "word"} = {}
  BY DEF Items, Marks, Secret
<1>2. Refs(i) # {} => \E d \in Displays : Shown(d, i)
  BY RefsFit DEF Displays
<1>3. Cited(i) = {} => \A d \in Displays : Candidates(d, i) # {}
  BY DEF Displays, Candidates
<1>4. (Cited(i) # {} \/ Refs(i) # {}) <=> (Cited(i) # {} \/ \E d \in Displays : Shown(d, i))
  BY <1>2, <1>3, RefsFit
<1>5. Unsupported(Repaired(i), Refs(i)) = {} <=>
          \A t \in i.says : \E id \in Refs(i) : Number(id).display = t
  BY RepairShares DEF Unsupported
<1> QED BY <1>1, <1>4, <1>5, RepairShares, FinalFits, TokensBacked DEF ItemSurvives, Backed, Shown

\* What is shown of a surviving sentence: itself and the numbers it says.
LEMMA ShownFits ==
    ASSUME NEW i \in Items, ItemSurvives(Repaired(i))
    PROVE  Sentence(Reviewed(Repaired(i))) = Sentence(i) /\ ChipsFit(Reviewed(Repaired(i)))
<1> DEFINE r == Reviewed(Repaired(i))
<1>1. /\ r.says = i.says /\ r.names = i.names /\ r.marks = i.marks /\ r.refs = Refs(i)
      /\ r.cites = Repaired(i).cites \cap Sources
  <2>1. Repaired(i) \in [says : SUBSET Tokens, names : SUBSET NameTokens, mentions : SUBSET Sources,
                         cites : {Repaired(i).cites}, refs : {Refs(i)},
                         marks : {{}} \cup {{m} : m \in Marks}]
    BY DEF Repaired, Items
  <2> QED BY <2>1, RepairShares, FinalFits DEF Reviewed
<1>2. \A id \in Refs(i) :
          /\ \E t \in i.says \cup i.names :
                 Number(id).display = t \/ <<Number(id).display, t>> \in Leads
          /\ \A other \in Refs(i) : Number(other).display = Number(id).display => other = id
  BY RefsFit DEF Shown
<1>3. \A id \in Refs(i) : Number(id).sources \cap r.cites # {}
  BY <1>1, RepairShares
<1>4. \A t \in i.says : \E id \in Refs(i) : Number(id).display = t
  BY FinalFits, RepairShares DEF ItemSurvives, Unsupported
<1> HIDE DEF r
<1>5. Sentence(r) = Sentence(i) /\ ChipsFit(r)
  BY <1>1, <1>2, <1>3, <1>4, SMTT(30) DEF Sentence, ChipsFit
<1> QED BY <1>5 DEF r

\* Of sentences without a secret the backed ones are shown.
LEMMA LaneIsBacked ==
    ASSUME NEW S \in SUBSET Items, \A i \in S : ~Secret(i)
    PROVE  LET shown == Surviving({Repaired(i) : i \in S})
           IN  /\ ShowsTheBacked(shown, S)
               /\ shown # {} <=> \E i \in S : Backed(i)
               /\ \A i \in shown : ChipsFit(i)
<1> DEFINE shown == Surviving({Repaired(i) : i \in S})
<1>1. shown = {Reviewed(Repaired(i)) : i \in {j \in S : Backed(j)}}
  BY SurvivorsAreBacked DEF Surviving
<1>2. \A i \in S : Backed(i) =>
          Sentence(Reviewed(Repaired(i))) = Sentence(i) /\ ChipsFit(Reviewed(Repaired(i)))
  BY SurvivorsAreBacked, ShownFits
<1> HIDE DEF shown
<1>3. ShowsTheBacked(shown, S)
  BY <1>1, <1>2 DEF ShowsTheBacked
<1>4. shown # {} <=> \E i \in S : Backed(i)
  BY <1>1
<1>5. \A i \in shown : ChipsFit(i)
  BY <1>1, <1>2
<1> QED BY <1>3, <1>4, <1>5 DEF shown

-------------------------------------------------------------------------------
\* What may be in a reply.
Replies ==
    [claims : SUBSET Items, scenarios : SUBSET Items, verdict : SUBSET Items, facts : SUBSET Notes,
     background : SUBSET Notes, research : SUBSET Notes, wrappers : Nat, inVerdict : BOOLEAN]

\* The three lanes of sentences of a normalized reply.
LEMMA NormalizedLanes ==
    ASSUME NEW c \in Replies, c.wrappers <= 3, ~c.inVerdict
    PROVE  LET n == Normalized(c)
           IN  /\ n.claims = {Repaired(i) : i \in c.claims}
               /\ n.scenarios = {Repaired(i) : i \in c.scenarios}
               /\ n.verdict = {Repaired(i) : i \in c.verdict}
               /\ n.facts = c.facts
<1>1. Unwrapped(c) = c
  BY DEF Unwrapped, Replies
<1> QED BY <1>1 DEF Normalized, Replies

\* The repair does not touch what a secret is found by.
LEMMA SecretsStay ==
    ASSUME NEW S \in SUBSET Items
    PROVE  /\ (\E i \in {Repaired(j) : j \in S} : Secret(i)) <=> \E i \in S : Secret(i)
           /\ {i \in {Repaired(j) : j \in S} : ~Secret(i)} = {Repaired(i) : i \in {j \in S : ~Secret(j)}}
<1>1. \A i \in S : Secret(Repaired(i)) <=> Secret(i)
  BY RepairShares DEF Secret
<1> QED BY <1>1

\* A sentence with a secret is not backed, so leaving it out changes nothing.
LEMMA SecretIsNotBacked ==
    ASSUME NEW S \in SUBSET Items, NEW shown
    PROVE  ShowsTheBacked(shown, {i \in S : ~Secret(i)}) <=> ShowsTheBacked(shown, S)
<1>1. {j \in {i \in S : ~Secret(i)} : Backed(j)} = {j \in S : Backed(j)}
  BY DEF Secret, Backed
<1> QED BY <1>1 DEF ShowsTheBacked

\* The review of a repaired reply is the one that is promised.
LEMMA ReviewIsBacked ==
    ASSUME NEW c \in Replies, c.wrappers <= 3, ~c.inVerdict
    PROVE  LET v == Review(Normalized(c))
               sentences == c.claims \cup c.scenarios
           IN  /\ v.accepted <=>
                    /\ \E i \in sentences : Backed(i)
                    /\ ~\E i \in sentences : "secret" \in i.marks
                    /\ "facts" \in allowed => ~\E f \in c.facts : FactRejected(f)
               /\ v.accepted =>
                    /\ ShowsTheBacked(v.claims, c.claims)
                    /\ ShowsTheBacked(v.scenarios, c.scenarios)
                    /\ ShowsTheBacked(v.verdict, c.verdict)
                    /\ \A i \in v.claims \cup v.scenarios \cup v.verdict : ChipsFit(i)
<1> DEFINE n == Normalized(c)
           v == Review(n)
           sentences == c.claims \cup c.scenarios
           spoken == {i \in c.verdict : ~Secret(i)}
           voided == \/ \E i \in sentences : Secret(i)
                     \/ "facts" \in allowed /\ \E f \in c.facts : FactRejected(f)
           Shown_(S) == Surviving({Repaired(i) : i \in S})
           both == Shown_(c.claims) \cup Shown_(c.scenarios)
<1>1. c.claims \in SUBSET Items /\ c.scenarios \in SUBSET Items /\ c.verdict \in SUBSET Items
  BY DEF Replies
<1>2. /\ Surviving(n.claims) = Shown_(c.claims)
      /\ Surviving(n.scenarios) = Shown_(c.scenarios)
      /\ Surviving({i \in n.verdict : ~Secret(i)}) = Shown_(spoken)
      /\ (\E i \in n.claims \cup n.scenarios : Secret(i)) <=> \E i \in sentences : Secret(i)
      /\ n.facts = c.facts
  <2>1. /\ n.claims = {Repaired(i) : i \in c.claims}
        /\ n.scenarios = {Repaired(i) : i \in c.scenarios}
        /\ n.verdict = {Repaired(i) : i \in c.verdict}
        /\ n.facts = c.facts
    BY NormalizedLanes
  <2>2. {i \in n.verdict : ~Secret(i)} = {Repaired(i) : i \in spoken}
    BY <1>1, <2>1, SecretsStay
  <2>3. (\E i \in n.claims \cup n.scenarios : Secret(i)) <=> \E i \in sentences : Secret(i)
    BY <1>1, <2>1, SecretsStay
  <2> QED BY <2>1, <2>2, <2>3
<1>3. IF voided \/ both = {} THEN v = NotAccepted
      ELSE /\ v.accepted = TRUE
           /\ v.claims = Shown_(c.claims) /\ v.scenarios = Shown_(c.scenarios)
           /\ v.verdict = Shown_(spoken)
  <2> HIDE DEF n, Shown_
  <2> QED BY <1>2 DEF Review
<1>4. CASE \E i \in sentences : Secret(i)
  BY <1>3, <1>4 DEF NotAccepted, Secret
<1>5. CASE \A i \in sentences : ~Secret(i)
  <2>1. /\ ShowsTheBacked(Shown_(c.claims), c.claims)
        /\ Shown_(c.claims) # {} <=> \E i \in c.claims : Backed(i)
        /\ \A i \in Shown_(c.claims) : ChipsFit(i)
    BY <1>1, <1>5, LaneIsBacked
  <2>2. /\ ShowsTheBacked(Shown_(c.scenarios), c.scenarios)
        /\ Shown_(c.scenarios) # {} <=> \E i \in c.scenarios : Backed(i)
        /\ \A i \in Shown_(c.scenarios) : ChipsFit(i)
    BY <1>1, <1>5, LaneIsBacked
  <2>3. /\ ShowsTheBacked(Shown_(spoken), c.verdict)
        /\ \A i \in Shown_(spoken) : ChipsFit(i)
    <3>1. spoken \in SUBSET Items /\ \A i \in spoken : ~Secret(i)
      BY <1>1
    <3>2. ShowsTheBacked(Shown_(spoken), spoken) /\ \A i \in Shown_(spoken) : ChipsFit(i)
      BY <3>1, LaneIsBacked
    <3> QED BY <1>1, <3>2, SecretIsNotBacked
  <2>4. both # {} <=> \E i \in sentences : Backed(i)
    BY <2>1, <2>2
  <2>5. ~\E i \in sentences : "secret" \in i.marks
    BY <1>5 DEF Secret
  <2> HIDE DEF Shown_, v
  <2>6. v = NotAccepted => ~v.accepted
    BY DEF NotAccepted
  <2> QED BY <1>3, <1>5, <2>1, <2>2, <2>3, <2>4, <2>5, <2>6 DEF v
<1> QED BY <1>4, <1>5

\* An attempt at such a reply ends in the review that is promised.
LEMMA AttemptIsBacked ==
    ASSUME NEW blocks, NEW c \in Replies, Attempt(blocks, c)
    PROVE  ReadIsBacked'
<1> SUFFICES ASSUME Extracted(blocks) = "read", c.wrappers <= 3, ~c.inVerdict
             PROVE  LET v == Review(Normalized(c))
                        sentences == c.claims \cup c.scenarios
                    IN  /\ v.accepted <=>
                             /\ \E i \in sentences : Backed(i)
                             /\ ~\E i \in sentences : "secret" \in i.marks
                             /\ "facts" \in allowed => ~\E f \in c.facts : FactRejected(f)
                        /\ v.accepted =>
                             /\ ShowsTheBacked(v.claims, c.claims)
                             /\ ShowsTheBacked(v.scenarios, c.scenarios)
                             /\ ShowsTheBacked(v.verdict, c.verdict)
                             /\ \A i \in v.claims \cup v.scenarios \cup v.verdict : ChipsFit(i)
  BY DEF Attempt, ReadIsBacked
<1> QED BY ReviewIsBacked

\* The read that reaches the user has the backed sentences of the reply, all of
\* them and no other, each with the numbers it says, whatever is in the bundle and
\* in the reply (normalize_narration_shape, review_narration).
THEOREM ReadsAreBacked == NarrSpec => []ReadIsBacked
<1>1. NarrInit => ReadIsBacked
  BY DEF NarrInit, ReadIsBacked
<1>2. ReadIsBacked /\ [NarrNext]_narrVars => ReadIsBacked'
  <2> SUFFICES ASSUME ReadIsBacked, [NarrNext]_narrVars PROVE ReadIsBacked'
    OBVIOUS
  <2>1. ASSUME NEW i \in Items, Attempt(<<"read">>, [Empty EXCEPT !.claims = {i}])
        PROVE  ReadIsBacked'
    <3>1. [Empty EXCEPT !.claims = {i}] \in Replies
      BY DEF Empty, Replies
    <3> QED BY <2>1, <3>1, AttemptIsBacked
  <2>2. ASSUME NEW cs \in SUBSET Samples, NEW ss \in AtMostOne(Samples), NEW vs \in AtMostOne(Samples),
               NEW fs \in AtMostOne(Notes), NEW ns \in {{}, Notes}, NEW ms \in {{}, Notes},
               Attempt(<<"read">>, [Empty EXCEPT !.claims = cs, !.scenarios = ss, !.verdict = vs,
                                        !.facts = fs, !.background = ns, !.research = ms])
        PROVE  ReadIsBacked'
    <3>1. [Empty EXCEPT !.claims = cs, !.scenarios = ss, !.verdict = vs, !.facts = fs,
                        !.background = ns, !.research = ms] \in Replies
      BY NarrationAssumption DEF Empty, Replies, AtMostOne
    <3> QED BY <2>2, <3>1, AttemptIsBacked
  <2>3. ASSUME NEW blocks, NEW w \in 0 .. 4, NEW inVerdict \in BOOLEAN, NEW cs \in SUBSET Samples,
               Attempt(blocks, [Empty EXCEPT !.claims = cs, !.facts = Notes, !.wrappers = w,
                                             !.inVerdict = inVerdict])
        PROVE  ReadIsBacked'
    <3>1. [Empty EXCEPT !.claims = cs, !.facts = Notes, !.wrappers = w,
                        !.inVerdict = inVerdict] \in Replies
      <4>1. w \in Nat /\ cs \in SUBSET Items
        BY NarrationAssumption
      <4> QED BY <4>1 DEF Empty, Replies
    <3> QED BY <2>3, <3>1, AttemptIsBacked
  <2>4. CASE UNCHANGED narrVars
    BY <2>4 DEF narrVars, ReadIsBacked
  <2> QED BY <2>1, <2>2, <2>3, <2>4 DEF NarrNext, ReadSentence, ReadLanes, ReadShape
<1> QED BY <1>1, <1>2, PTL DEF NarrSpec

-------------------------------------------------------------------------------
(* The provider's lookups. *)

\* A lookup is a record that says where it is, and on its way whether it was cancelled.
IsLookup(x) ==
    /\ x = [k \in DOMAIN x |-> x[k]] /\ "at" \in DOMAIN x
    /\ x.at # "refused" => "cut" \in DOMAIN x
    /\ x.at = "answered" => ~x.cut
LookupsFit == lookup = [l \in Lookups |-> lookup[l]] /\ \A l \in Lookups : IsLookup(lookup[l])

\* One lookup makes a step.
LEMMA StepFits ==
    ASSUME LookupsFit, NEW l \in Lookups, NEW x, Steps(l, x), IsLookup(x)
    PROVE  LookupsFit'
<1> DEFINE y == [k \in Lookups |-> IF k = l THEN x ELSE lookup[k]]
<1>1. lookup' = y
  BY DEF Steps, LookupsFit
<1> QED BY <1>1 DEF LookupsFit

LEMMA RefusedFits == IsLookup(Refused)
<1>1. DOMAIN Refused = {"at"} /\ Refused.at = "refused"
  BY DEF Refused
<1> QED BY <1>1 DEF IsLookup, Refused

\* A cancellation marks the lookups that are on their way.
LEMMA CancelsFit ==
    ASSUME LookupsFit, Cancels
    PROVE  LookupsFit'
<1> DEFINE y == [l \in Lookups |->
                    IF UnderWay(l) THEN [lookup[l] EXCEPT !.cut = TRUE] ELSE lookup[l]]
<1>1. lookup' = y
  BY DEF Cancels
<1>2. ASSUME NEW l \in Lookups PROVE IsLookup(y[l])
  <2>1. CASE UnderWay(l)
    BY <2>1 DEF UnderWay, LookupsFit, IsLookup
  <2>2. CASE ~UnderWay(l)
    BY <2>2 DEF LookupsFit
  <2> QED BY <2>1, <2>2
<1> HIDE DEF y
<1> QED BY <1>1, <1>2 DEF LookupsFit, y

LEMMA BeginsFit ==
    ASSUME LookupsFit, NEW l \in Lookups, LookupBegins(l)
    PROVE  LookupsFit'
<1>1. PICK m \in Asked : Steps(l, [at |-> "settings", match |-> m, cut |-> FALSE])
  BY DEF LookupBegins
<1>2. IsLookup([at |-> "settings", match |-> m, cut |-> FALSE])
  BY DEF IsLookup
<1> QED BY <1>1, <1>2, StepFits

LEMMA ReadsSettingsFit ==
    ASSUME LookupsFit, NEW l \in Lookups, LookupReadsSettings(l)
    PROVE  LookupsFit'
<1> DEFINE caps == Wanted(l, lookup[l].match)
           x == [at |-> "token", match |-> lookup[l].match, cut |-> lookup[l].cut, caps |-> caps]
<1>1. Steps(l, IF caps = {} THEN Refused ELSE x)
  BY DEF LookupReadsSettings
<1>2. IsLookup(x)
  BY DEF IsLookup
<1> HIDE DEF caps, x
<1> QED BY <1>1, <1>2, StepFits, RefusedFits

LEMMA ReadsTokenFit ==
    ASSUME LookupsFit, NEW l \in Lookups, LookupReadsToken(l)
    PROVE  LookupsFit'
<1> DEFINE x == [at |-> "fixture", match |-> lookup[l].match, cut |-> lookup[l].cut,
                 caps |-> lookup[l].caps, page |-> 1, sent |-> FALSE, found |-> {},
                 first |-> <<>>]
<1>1. Steps(l, IF HasToken /\ Findable(lookup[l].match) THEN x ELSE Refused)
  BY DEF LookupReadsToken
<1>2. IsLookup(x)
  BY DEF IsLookup
<1> HIDE DEF x
<1> QED BY <1>1, <1>2, StepFits, RefusedFits

LEMMA AsksFit ==
    ASSUME LookupsFit, NEW l \in Lookups, LookupAsks(l)
    PROVE  LookupsFit'
<1> DEFINE r == lookup[l]
           list == IF r.page # 1 THEN r.first
                   ELSE CASE r.at = "fixture" -> catalog.day
                          [] r.at = "transfer_desk" -> catalog.team
                          [] OTHER -> r.first
           x == [r EXCEPT !.sent = TRUE, !.first = list]
<1>1. Steps(l, IF r.cut THEN Refused ELSE x)
  <2>1. IsLookup(r)
    BY DEF LookupsFit
  <2> QED BY <2>1, Zenon DEF LookupAsks
<1>2. IsLookup(x)
  <2>1. IsLookup(r)
    BY DEF LookupsFit
  <2> HIDE DEF list, r
  <2> QED BY <2>1 DEF IsLookup
<1> HIDE DEF r, x
<1> QED BY <1>1, <1>2, StepFits, RefusedFits

\* An answer that arrives in time leaves a lookup that fits.
LEMMA FixturePageFit ==
    ASSUME LookupsFit, NEW l \in Lookups, ~lookup[l].cut, FixturePageArrives(l)
    PROVE  LookupsFit'
<1> DEFINE m == lookup[l].match
           found == lookup[l].found
                    \cup Fitting(catalog.day, lookup[l].page, m)
           more == HasMore(catalog.day, lookup[l].page)
           x == [lookup[l] EXCEPT !.page = lookup[l].page + 1, !.sent = FALSE, !.found = found]
<1>1. lookup[l].at = "fixture"
  BY DEF FixturePageArrives
<1>2. PICK y : Steps(l, y) /\ y \in {Refused, x, Found(l)}
  BY Zenon DEF FixturePageArrives
<1>3. IsLookup(x)
  <2>1. IsLookup(lookup[l])
    BY DEF LookupsFit
  <2> HIDE DEF found
  <2> QED BY <2>1, <1>1 DEF IsLookup
<1>4. IsLookup(Found(l))
  BY DEF IsLookup, Found
<1> HIDE DEF x
<1> QED BY <1>2, <1>3, <1>4, StepFits, RefusedFits

LEMMA HeardFits ==
    ASSUME LookupsFit, NEW l \in Lookups, NEW said,
           lookup[l].at \in MatchCapabilities, ~lookup[l].cut, Steps(l, Heard(l, said))
    PROVE  LookupsFit'
<1> DEFINE feeds == [f \in DOMAIN lookup[l].feeds \cup {lookup[l].at} |->
                        IF f = lookup[l].at THEN said ELSE lookup[l].feeds[f]]
           next == NextFeed(DOMAIN feeds, lookup[l].caps)
           x == [lookup[l] EXCEPT !.at = next, !.sent = FALSE, !.feeds = feeds]
<1>1. Heard(l, said) = IF next = "answered" THEN Answer(l, feeds) ELSE x
  BY DEF Heard
<1> HIDE DEF feeds, next
<1>2. IsLookup(Answer(l, feeds))
  BY DEF IsLookup, Answer
<1>3. next # "answered" => IsLookup(x)
  <2>1. IsLookup(lookup[l])
    BY DEF LookupsFit
  <2>2. lookup[l].at # "refused" => "cut" \in DOMAIN lookup[l]
    BY <2>1 DEF IsLookup
  <2>3. lookup[l].at # "refused"
    BY DEF MatchCapabilities
  <2> QED BY <2>1, <2>2, <2>3 DEF IsLookup
<1> HIDE DEF x
<1> QED BY <1>1, <1>2, <1>3, StepFits

LEMMA TransferPageFit ==
    ASSUME LookupsFit, NEW l \in Lookups, ~lookup[l].cut, TransferPageArrives(l)
    PROVE  LookupsFit'
<1> DEFINE rows == lookup[l].rows \o PageOf(catalog.team, lookup[l].page)
           more == HasMore(catalog.team, lookup[l].page) /\ ~WindowClosed(rows)
           x == [lookup[l] EXCEPT !.page = lookup[l].page + 1, !.sent = FALSE, !.rows = rows]
           y == [at |-> "answered", match |-> lookup[l].match, cut |-> lookup[l].cut,
                 status |-> IF more THEN "partial" ELSE "available",
                 first |-> lookup[l].first, shown |-> InWindow(rows)]
<1>1. lookup[l].at = "transfer_desk"
  BY DEF TransferPageArrives
<1>2. PICK z : Steps(l, z) /\ z \in {Refused, x, y}
  BY Zenon DEF TransferPageArrives
<1>3. IsLookup(x)
  <2>1. IsLookup(lookup[l])
    BY DEF LookupsFit
  <2> HIDE DEF rows
  <2> QED BY <2>1, <1>1 DEF IsLookup
<1>4. IsLookup(y)
  <2> HIDE DEF rows, more
  <2> QED BY DEF IsLookup
<1> HIDE DEF x, y
<1> QED BY <1>2, <1>3, <1>4, StepFits, RefusedFits

LEMMA HearsFit ==
    ASSUME LookupsFit, NEW l \in Lookups, LookupHears(l)
    PROVE  LookupsFit'
<1>1. CASE FailureEnds(l)
  BY <1>1, StepFits, RefusedFits DEF FailureEnds
<1>2. CASE ~lookup[l].cut /\ FixturePageArrives(l)
  BY <1>2, FixturePageFit
<1>3. CASE ~lookup[l].cut /\ FeedArrives(l)
  <2>1. PICK p \in Predictions, o \in OddsReplies, r \in LensReplies :
            Steps(l, Heard(l, FeedSays(lookup[l].at, p, o, r)))
    BY <1>3 DEF FeedArrives
  <2> QED BY <1>3, <2>1, HeardFits DEF FeedArrives
<1>4. CASE ~lookup[l].cut /\ TransferPageArrives(l)
  BY <1>4, TransferPageFit
<1>5. CASE /\ ~lookup[l].cut /\ lookup[l].at \in MatchCapabilities
           /\ Steps(l, Heard(l, [reply |-> <<>>, shown |-> None]))
  BY <1>5, HeardFits
<1> QED BY <1>1, <1>2, <1>3, <1>4, <1>5 DEF LookupHears

LEMMA LookupNextFits ==
    ASSUME LookupsFit, NEW l \in Lookups, LookupNext(l)
    PROVE  LookupsFit'
<1> QED BY BeginsFit, ReadsSettingsFit, ReadsTokenFit, AsksFit, HearsFit DEF LookupNext

LEMMA ProviderChangesFit ==
    ASSUME LookupsFit, ProviderChanges
    PROVE  LookupsFit'
<1>1. CASE ConfigureCancels
  BY <1>1, CancelsFit DEF ConfigureCancels
<1>2. CASE DeleteCancels
  BY <1>2, CancelsFit DEF DeleteCancels
<1>3. CASE UNCHANGED lookup
  BY <1>3 DEF LookupsFit
<1> QED
  BY <1>1, <1>2, <1>3
  DEF ProviderChanges, ConfigureReads, ConfigureSaves, SettingsAreLost, KeyIsSaved,
      DeleteEnds, ProviderLists

\* A lookup that the settings or the key cancelled is never answered, in whatever order
\* the cancellation, the requests and their answers come (sportmonks.py:141-204).
THEOREM CutOffStaysSilent == ProviderSpec => []CancelledStaysSilent
<1>1. ProviderInit => LookupsFit
  <2> SUFFICES ASSUME ProviderInit PROVE LookupsFit
    OBVIOUS
  <2>1. lookup = [l \in Lookups |-> Refused]
    BY DEF ProviderInit
  <2> QED BY <2>1, RefusedFits DEF LookupsFit
<1>2. LookupsFit /\ [ProviderChanges \/ \E l \in Lookups : LookupNext(l)]_providerVars
          => LookupsFit'
  <2> SUFFICES ASSUME LookupsFit,
                      [ProviderChanges \/ \E l \in Lookups : LookupNext(l)]_providerVars
               PROVE  LookupsFit'
    OBVIOUS
  <2>1. CASE ProviderChanges
    BY <2>1, ProviderChangesFit
  <2>2. ASSUME NEW l \in Lookups, LookupNext(l) PROVE LookupsFit'
    BY <2>2, LookupNextFits
  <2>3. CASE UNCHANGED providerVars
    BY <2>3 DEF LookupsFit, providerVars
  <2> QED BY <2>1, <2>2, <2>3
<1>3. LookupsFit => CancelledStaysSilent
  BY DEF LookupsFit, IsLookup, CancelledStaysSilent, Answered
<1> QED BY <1>1, <1>2, <1>3, PTL DEF ProviderSpec

\* One list has the rows of another, each where it was or further down.
Grows(old, new) == \A i \in DOMAIN old : \E j \in DOMAIN new : j >= i /\ new[j] = old[i]

\* What inserting a row does to a list: the rows from its place on move down by one.
MovesDown(new, s, i, e) ==
    /\ DOMAIN new = 1 .. Len(s) + 1
    /\ \A j \in 1 .. Len(s) + 1 :
           new[j] = IF j < i THEN s[j] ELSE IF j = i THEN e ELSE s[j - 1]

LEMMA InsertedAt ==
    ASSUME NEW S, NEW s \in Seq(S), NEW i \in 1 .. Len(s) + 1, NEW e \in S
    PROVE  /\ InsertAt(s, i, e) \in Seq(S)
           /\ MovesDown(InsertAt(s, i, e), s, i, e)
<1> DEFINE a == SubSeq(s, 1, i - 1)
           b == SubSeq(s, i, Len(s))
           t == <<e>>
<1>1. Len(s) \in Nat /\ i \in Nat /\ i >= 1 /\ i <= Len(s) + 1 /\ s \in [1 .. Len(s) -> S]
  BY LenProperties
<1>2. /\ a \in Seq(S) /\ Len(a) = i - 1
      /\ \A j \in 1 .. i - 1 : a[j] = s[j]
  <2>1. \A j \in 1 .. i - 1 : s[j] \in S
    BY <1>1
  <2>2. 1 \in Int /\ i - 1 \in Int
    BY <1>1
  <2>3. /\ a \in Seq(S)
        /\ Len(a) = IF 1 <= i - 1 THEN (i - 1) - 1 + 1 ELSE 0
        /\ \A j \in 1 .. (i - 1) - 1 + 1 : a[j] = s[1 + j - 1]
    BY <2>1, <2>2, SubSeqProperties
  <2> HIDE DEF a
  <2> QED BY <1>1, <2>3
<1>3. /\ b \in Seq(S) /\ Len(b) = Len(s) - i + 1
      /\ \A j \in 1 .. Len(s) - i + 1 : b[j] = s[i + j - 1]
  <2>1. \A j \in i .. Len(s) : s[j] \in S
    BY <1>1
  <2>2. i \in Int /\ Len(s) \in Int
    BY <1>1
  <2>3. /\ b \in Seq(S)
        /\ Len(b) = IF i <= Len(s) THEN Len(s) - i + 1 ELSE 0
        /\ \A j \in 1 .. Len(s) - i + 1 : b[j] = s[i + j - 1]
    BY <2>1, <2>2, SubSeqProperties
  <2> HIDE DEF b
  <2> QED BY <1>1, <2>3
<1>4. t \in Seq(S) /\ Len(t) = 1 /\ t[1] = e
  OBVIOUS
<1> HIDE DEF a, b, t
<1> DEFINE at == a \o t
<1>5. /\ at \in Seq(S) /\ Len(at) = i
      /\ \A j \in 1 .. i : at[j] = IF j <= i - 1 THEN a[j] ELSE t[j - (i - 1)]
  <2>1. /\ at \in Seq(S) /\ Len(at) = Len(a) + Len(t)
        /\ \A j \in 1 .. Len(a) + Len(t) : at[j] = IF j <= Len(a) THEN a[j] ELSE t[j - Len(a)]
    BY <1>2, <1>4, ConcatProperties
  <2> HIDE DEF at
  <2> QED BY <1>1, <1>2, <1>4, <2>1
<1> HIDE DEF at
<1> DEFINE all == at \o b
<1>6. /\ all \in Seq(S) /\ Len(all) = Len(s) + 1
      /\ \A j \in 1 .. Len(s) + 1 : all[j] = IF j <= i THEN at[j] ELSE b[j - i]
  <2>1. /\ all \in Seq(S) /\ Len(all) = Len(at) + Len(b)
        /\ \A j \in 1 .. Len(at) + Len(b) : all[j] = IF j <= Len(at) THEN at[j] ELSE b[j - Len(at)]
    BY <1>3, <1>5, ConcatProperties
  <2> HIDE DEF all
  <2> QED BY <1>1, <1>3, <1>5, <2>1
<1>7. InsertAt(s, i, e) = all
  BY DEF InsertAt, all, at, a, b, t
<1> HIDE DEF all
<1>8. DOMAIN all = 1 .. Len(s) + 1
  BY <1>6, LenProperties
<1>9. ASSUME NEW j \in 1 .. Len(s) + 1
      PROVE  all[j] = IF j < i THEN s[j] ELSE IF j = i THEN e ELSE s[j - 1]
  <2>1. CASE j < i
    BY <1>1, <1>2, <1>5, <1>6, <2>1, SMTT(30)
  <2>2. CASE j = i
    BY <1>1, <1>4, <1>5, <1>6, <2>2, SMTT(30)
  <2>3. CASE j > i
    <3>1. all[j] = b[j - i]
      BY <1>1, <1>6, <2>3
    <3>2. j - i \in 1 .. Len(s) - i + 1 /\ i + (j - i) - 1 = j - 1
      BY <1>1, <2>3
    <3> QED BY <1>1, <1>3, <2>3, <3>1, <3>2
  <2> QED BY <1>1, <2>1, <2>2, <2>3
<1> QED BY <1>6, <1>7, <1>8, <1>9 DEF MovesDown

\* A new row leaves the old rows where they were or moves them down, and is no duplicate.
LEMMA InsertedGrows ==
    ASSUME NEW S, NEW s \in Seq(S), NEW i \in 1 .. Len(s) + 1, NEW e \in S,
           e \notin Range(s), IsInjective(s)
    PROVE  Grows(s, InsertAt(s, i, e)) /\ IsInjective(InsertAt(s, i, e))
<1> DEFINE new == InsertAt(s, i, e)
<1>0. MovesDown(new, s, i, e)
  BY InsertedAt
<1>1. /\ DOMAIN new = 1 .. Len(s) + 1
      /\ \A j \in 1 .. Len(s) + 1 :
                 new[j] = IF j < i THEN s[j] ELSE IF j = i THEN e ELSE s[j - 1]
  BY <1>0, Zenon DEF MovesDown
<1>2. DOMAIN s = 1 .. Len(s) /\ Len(s) \in Nat
  BY LenProperties
<1>3. \A j \in DOMAIN s : s[j] # e
  BY DEF Range
<1> HIDE DEF new
<1>4. Grows(s, new)
  <2> SUFFICES ASSUME NEW j \in DOMAIN s
               PROVE  \E k \in DOMAIN new : k >= j /\ new[k] = s[j]
    BY DEF Grows
  <2>1. CASE j < i
    BY <1>1, <1>2, <2>1
  <2>2. CASE ~(j < i)
    <3>1. j + 1 \in 1 .. Len(s) + 1 /\ ~(j + 1 < i) /\ j + 1 # i /\ (j + 1) - 1 = j
      BY <1>2, <2>2
    <3>2. new[j + 1] = s[j]
      BY <1>1, <3>1
    <3> QED BY <1>1, <1>2, <3>1, <3>2
  <2> QED BY <2>1, <2>2
<1>5. IsInjective(new)
  <2> SUFFICES ASSUME NEW j \in 1 .. Len(s) + 1, NEW k \in 1 .. Len(s) + 1, new[j] = new[k], j < k
               PROVE  FALSE
    <3>1. \A j, k \in 1 .. Len(s) + 1 : j < k \/ k < j \/ j = k
      BY <1>2
    <3> QED BY <1>1, <3>1 DEF IsInjective
  <2> DEFINE J == IF j < i THEN j ELSE j - 1
             K == IF k < i THEN k ELSE k - 1
  <2>1. j # i => J \in DOMAIN s /\ new[j] = s[J]
    BY <1>1, <1>2
  <2>2. k # i => K \in DOMAIN s /\ new[k] = s[K]
    BY <1>1, <1>2
  <2>3. (j = i => new[j] = e) /\ (k = i => new[k] = e)
    BY <1>1
  <2>4. j # i /\ k # i => J # K
    BY <1>2
  <2> HIDE DEF J, K
  <2> QED BY <1>2, <1>3, <2>1, <2>2, <2>3, <2>4 DEF IsInjective
<1> QED BY <1>4, <1>5 DEF new

\* The sizes of sets that share nothing add up.
LEMMA DisjointCardinality ==
    ASSUME NEW S, IsFiniteSet(S), NEW T, IsFiniteSet(T), S \cap T = {}
    PROVE  IsFiniteSet(S \cup T) /\ Cardinality(S \cup T) = Cardinality(S) + Cardinality(T)
<1>1. Cardinality(S \cap T) = 0
  BY FS_EmptySet
<1>2. Cardinality(S) \in Nat /\ Cardinality(T) \in Nat
  BY FS_CardinalityType
<1>3. /\ IsFiniteSet(S \cup T)
      /\ Cardinality(S \cup T) = Cardinality(S) + Cardinality(T) - Cardinality(S \cap T)
  BY FS_Union
<1> QED BY <1>1, <1>2, <1>3

\* Three prices for three outcomes are one for each.
LEMMA OddsOneEach ==
    ASSUME NEW rows \in Seq(Price), NEW b \in Odds(rows), NEW s \in {"home", "draw", "away"}
    PROVE  Cardinality(Quoted(rows, b, s)) = 1
<1> DEFINE P == Prices(rows, b)
           Q(x) == {i \in P : rows[i].sel = x}
<1>1. {rows[i].sel : i \in P} = {"home", "draw", "away"} /\ Cardinality(P) = 3
  BY DEF Odds, None
<1>2. IsFiniteSet(P)
  <2>1. DOMAIN rows = 1 .. Len(rows) /\ Len(rows) \in Nat
    BY LenProperties
  <2>2. IsFiniteSet(1 .. Len(rows))
    BY <2>1, FS_Interval
  <2>3. P \subseteq 1 .. Len(rows)
    BY <2>1 DEF Prices
  <2> QED BY <2>2, <2>3, FS_Subset
<1> HIDE DEF P
<1>3. \A x : IsFiniteSet(Q(x))
  BY <1>2, FS_Subset
<1>4. \A x \in {"home", "draw", "away"} : Cardinality(Q(x)) \in Nat /\ Cardinality(Q(x)) # 0
  <2> SUFFICES ASSUME NEW x \in {"home", "draw", "away"}
               PROVE  Cardinality(Q(x)) \in Nat /\ Cardinality(Q(x)) # 0
    OBVIOUS
  <2>1. PICK i \in P : rows[i].sel = x
    BY <1>1
  <2>2. Q(x) # {} /\ IsFiniteSet(Q(x))
    BY <1>3, <2>1
  <2> HIDE DEF Q
  <2> QED BY <2>2, FS_EmptySet, FS_CardinalityType
<1>5. Cardinality(Q("home") \cup Q("draw")) = Cardinality(Q("home")) + Cardinality(Q("draw"))
      /\ IsFiniteSet(Q("home") \cup Q("draw"))
  <2>1. Q("home") \cap Q("draw") = {}
    OBVIOUS
  <2>2. IsFiniteSet(Q("home")) /\ IsFiniteSet(Q("draw"))
    BY <1>3
  <2> HIDE DEF Q
  <2> QED BY <2>1, <2>2, DisjointCardinality
<1>6. Cardinality((Q("home") \cup Q("draw")) \cup Q("away"))
        = Cardinality(Q("home") \cup Q("draw")) + Cardinality(Q("away"))
  <2>1. (Q("home") \cup Q("draw")) \cap Q("away") = {}
    OBVIOUS
  <2>2. IsFiniteSet(Q("away"))
    BY <1>3
  <2> HIDE DEF Q
  <2> QED BY <1>5, <2>1, <2>2, DisjointCardinality
<1>7. (Q("home") \cup Q("draw")) \cup Q("away") = P
  BY <1>1
<1>8. Quoted(rows, b, s) = Q(s)
  BY DEF P, Prices, Quoted
<1>9. Cardinality(Q(s)) = 1
  <2>1. s = "home" \/ s = "draw" \/ s = "away"
    OBVIOUS
  <2> HIDE DEF Q
  <2>2. Cardinality(Q("home")) + Cardinality(Q("draw")) + Cardinality(Q("away")) = 3
    BY <1>1, <1>5, <1>6, <1>7
  <2>3. /\ Cardinality(Q("home")) \in Nat \ {0} /\ Cardinality(Q("draw")) \in Nat \ {0}
        /\ Cardinality(Q("away")) \in Nat \ {0}
    BY <1>4
  <2>4. /\ Cardinality(Q("home")) = 1 /\ Cardinality(Q("draw")) = 1
        /\ Cardinality(Q("away")) = 1
    BY <2>2, <2>3
  <2> QED BY <2>1, <2>4
<1> QED BY <1>8, <1>9

-------------------------------------------------------------------------------
\* A fixture that fits and was listed when the search began was seen or is still to
\* come: it is further down than the pages that were read.
Seen(found, f) == \E p \in found : p[2] = f
StillAhead(list, page, f) == \E j \in DOMAIN list : j > (page - 1) * Page /\ list[j] = f

SearchHolds(day, r) ==
    /\ {"match", "page", "found", "first"} \subseteq DOMAIN r
    /\ r.page \in Nat \ {0} /\ IsFiniteSet(r.found) /\ IsInjective(r.first)
    /\ \A i \in DOMAIN r.first : FixtureMatches(r.first[i], r.match) =>
           Seen(r.found, r.first[i]) \/ StillAhead(day, r.page, r.first[i])

OnlyOne(first, m) == Cardinality({i \in DOMAIN first : FixtureMatches(first[i], m)}) <= 1

\* What is ahead stays ahead while the list grows.
LEMMA AheadGrows ==
    ASSUME NEW S, NEW old \in Seq(S), NEW new \in Seq(S), Grows(old, new),
           NEW page \in Nat \ {0}, NEW f, StillAhead(old, page, f)
    PROVE  StillAhead(new, page, f)
<1>1. PICK i \in DOMAIN old : i > (page - 1) * Page /\ old[i] = f
  BY DEF StillAhead
<1>2. PICK j \in DOMAIN new : j >= i /\ new[j] = f
  BY <1>1 DEF Grows
<1>3. DOMAIN old \subseteq Nat /\ DOMAIN new \subseteq Nat
  BY LenProperties
<1>4. (page - 1) * Page \in Int
  BY ProviderAssumption
<1>5. j > (page - 1) * Page
  BY <1>1, <1>2, <1>3, <1>4
<1> QED BY <1>2, <1>5 DEF StillAhead

\* What was ahead of a page is on it or ahead of the next.
LEMMA PageIsRead ==
    ASSUME NEW S, NEW list \in Seq(S), NEW page \in Nat \ {0}, NEW f, StillAhead(list, page, f)
    PROVE  (\E j \in Places(list, page) : list[j] = f) \/ StillAhead(list, page + 1, f)
<1> DEFINE k == (page - 1) * Page
<1>1. k \in Int /\ page * Page = k + Page /\ (page + 1 - 1) * Page = k + Page /\ k + Page \in Int
  BY ProviderAssumption
<1>2. PICK j \in DOMAIN list : j > k /\ list[j] = f
  BY DEF StillAhead
<1>3. j \in Nat /\ j <= Len(list) /\ Len(list) \in Nat
  BY LenProperties
<1>4. CASE j <= k + Page
  <2>1. j \in Places(list, page)
    <3> HIDE DEF k
    <3>1. Places(list, page) = k + 1 .. (IF Len(list) < k + Page THEN Len(list) ELSE k + Page)
      BY <1>1 DEF Places, k
    <3> QED BY <1>1, <1>2, <1>3, <1>4, <3>1
  <2> QED BY <1>2, <2>1
<1>5. CASE ~(j <= k + Page)
  BY <1>1, <1>2, <1>3, <1>5 DEF StillAhead
<1> QED BY <1>4, <1>5

\* A page is read: what was kept of the fixtures is kept, and when it was the last
\* page, they were all seen.
LEMMA SearchReads ==
    ASSUME NEW S, NEW day \in Seq(S), NEW r, SearchHolds(day, r),
           NEW found, found = r.found \cup Fitting(day, r.page, r.match)
    PROVE  /\ IsFiniteSet(found)
           /\ \A i \in DOMAIN r.first : FixtureMatches(r.first[i], r.match) =>
                  Seen(found, r.first[i]) \/ StillAhead(day, r.page + 1, r.first[i])
<1>1. IsFiniteSet(found)
  <2> DEFINE J == {j \in Places(day, r.page) : FixtureMatches(day[j], r.match)}
             f == [j \in J |-> <<j, day[j]>>]
  <2>1. IsFiniteSet(J)
    <3>1. DOMAIN day = 1 .. Len(day) /\ Len(day) \in Nat
      BY LenProperties
    <3>2. (r.page - 1) * Page + 1 \in Int /\ r.page * Page \in Int
      BY ProviderAssumption DEF SearchHolds
    <3>3. IsFiniteSet(Places(day, r.page))
      BY <3>1, <3>2, FS_Interval DEF Places
    <3> QED BY <3>3, FS_Subset
  <2>2. f \in Surjection(J, Fitting(day, r.page, r.match))
    BY DEF Surjection, Fitting
  <2> HIDE DEF J, f
  <2>3. IsFiniteSet(Fitting(day, r.page, r.match))
    BY <2>1, <2>2, FS_Surjection
  <2> QED BY <2>3, FS_Union DEF SearchHolds
<1>2. ASSUME NEW i \in DOMAIN r.first, FixtureMatches(r.first[i], r.match)
      PROVE  Seen(found, r.first[i]) \/ StillAhead(day, r.page + 1, r.first[i])
  <2>1. Seen(r.found, r.first[i]) \/ StillAhead(day, r.page, r.first[i])
    BY <1>2 DEF SearchHolds
  <2>2. CASE Seen(r.found, r.first[i])
    BY <2>2 DEF Seen
  <2>3. CASE StillAhead(day, r.page, r.first[i])
    <3>1. r.page \in Nat \ {0}
      BY DEF SearchHolds
    <3>2. CASE StillAhead(day, r.page + 1, r.first[i])
      BY <3>2
    <3>3. ASSUME NEW j \in Places(day, r.page), day[j] = r.first[i]
          PROVE  Seen(found, r.first[i])
      <4>1. FixtureMatches(day[j], r.match)
        BY <1>2, <3>3
      <4>2. <<j, day[j]>> \in found
        BY <4>1 DEF Fitting
      <4>3. <<j, day[j]>>[2] = r.first[i]
        BY <3>3
      <4> QED BY <4>2, <4>3 DEF Seen
    <3> QED BY <2>3, <3>1, <3>2, <3>3, PageIsRead
  <2> QED BY <2>1, <2>2, <2>3
<1> QED BY <1>1, <1>2

\* No row is ahead of the last page.
LEMMA NothingAhead ==
    ASSUME NEW S, NEW list \in Seq(S), NEW page \in Nat \ {0}, ~HasMore(list, page), NEW f
    PROVE  ~StillAhead(list, page + 1, f)
<1>1. (page + 1 - 1) * Page = page * Page /\ page * Page \in Int
  BY ProviderAssumption
<1>2. DOMAIN list = 1 .. Len(list) /\ Len(list) \in Nat
  BY LenProperties
<1>3. ~(Len(list) > page * Page)
  BY DEF HasMore
<1> QED BY <1>1, <1>2, <1>3 DEF StillAhead

\* The last page shows whether one fixture fits: none that was listed at the start
\* was passed over.
LEMMA SearchEnds ==
    ASSUME NEW S, NEW day \in Seq(S), NEW r, SearchHolds(day, r), ~HasMore(day, r.page),
           NEW found, found = r.found \cup Fitting(day, r.page, r.match), Cardinality(found) = 1
    PROVE  OnlyOne(r.first, r.match)
<1>1. \A i \in DOMAIN r.first : FixtureMatches(r.first[i], r.match) => Seen(found, r.first[i])
  <2>1. r.page \in Nat \ {0}
    BY DEF SearchHolds
  <2> QED BY <2>1, SearchReads, NothingAhead
<1>2. PICK p : found = {p}
  BY SearchReads, FS_Singleton
<1> DEFINE I == {i \in DOMAIN r.first : FixtureMatches(r.first[i], r.match)}
<1>3. \A i, j \in I : i = j
  BY <1>1, <1>2 DEF Seen, SearchHolds, IsInjective
<1> HIDE DEF I
<1>4. CASE I = {}
  <2>1. Cardinality(I) = 0
    BY <1>4, FS_EmptySet
  <2> QED BY <2>1 DEF OnlyOne, I
<1>5. CASE I # {}
  <2>1. PICK i : i \in I
    BY <1>5
  <2>2. I = {i}
    BY <1>3, <2>1
  <2>3. Cardinality(I) = 1
    BY <2>2, FS_Singleton
  <2> QED BY <2>3 DEF OnlyOne, I
<1> QED BY <1>4, <1>5

-------------------------------------------------------------------------------
\* The same of a team's transfers.
Descends(list) == \A i, j \in DOMAIN list : i < j => list[i].day >= list[j].day

Read(rows, t) == \E i \in DOMAIN rows : rows[i] = t

DeskHolds(team, r) ==
    /\ {"page", "rows", "first"} \subseteq DOMAIN r
    /\ r.page \in Nat \ {0} /\ r.rows \in Seq(Transfer)
    /\ \A i \in DOMAIN r.first : Read(r.rows, r.first[i]) \/ StillAhead(team, r.page, r.first[i])

\* The rows of a page.
LEMMA PageRows ==
    ASSUME NEW list \in Seq(Transfer), NEW page \in Nat \ {0}
    PROVE  /\ PageOf(list, page) \in Seq(Transfer)
           /\ \A j \in Places(list, page) : Read(PageOf(list, page), list[j])
           /\ HasMore(list, page) =>
                 /\ PageOf(list, page) # <<>> /\ page * Page \in DOMAIN list
                 /\ PageOf(list, page)[Len(PageOf(list, page))] = list[page * Page]
<1> DEFINE m == (page - 1) * Page + 1
           n == IF Len(list) < page * Page THEN Len(list) ELSE page * Page
           rows == PageOf(list, page)
<1>1. /\ m \in Int /\ n \in Int /\ m >= 1 /\ n <= Len(list) /\ Len(list) \in Nat
      /\ page * Page = m - 1 + Page /\ page * Page \in Int /\ Page \in Nat \ {0}
  <2>1. (page - 1) * Page \in Nat
    BY ProviderAssumption
  <2>2. page * Page = (page - 1) * Page + Page
    BY ProviderAssumption
  <2> QED BY <2>1, <2>2, LenProperties, ProviderAssumption
<1>2. DOMAIN list = 1 .. Len(list) /\ list \in [1 .. Len(list) -> Transfer]
  BY LenProperties
<1>3. rows = SubSeq(list, m, n)
  BY DEF PageOf
<1>4. Places(list, page) = m .. n
  BY DEF Places
<1>5. HasMore(list, page) => n = page * Page /\ page * Page <= Len(list)
  BY <1>1 DEF HasMore
<1> HIDE DEF m, n, rows
<1>6. /\ rows \in Seq(Transfer)
      /\ Len(rows) = IF m <= n THEN n - m + 1 ELSE 0
      /\ \A i \in 1 .. n - m + 1 : rows[i] = list[m + i - 1]
  <2>1. \A i \in m .. n : list[i] \in Transfer
    BY <1>1, <1>2
  <2> QED BY <1>1, <1>3, <2>1, SubSeqProperties
<1>7. DOMAIN rows = 1 .. Len(rows)
  BY <1>6, LenProperties
<1>8. ASSUME NEW j \in m .. n
      PROVE  Read(rows, list[j])
  <2>1. j - m + 1 \in 1 .. n - m + 1 /\ m + (j - m + 1) - 1 = j /\ m <= n
    BY <1>1
  <2>2. rows[j - m + 1] = list[j] /\ j - m + 1 \in DOMAIN rows
    BY <1>6, <1>7, <2>1
  <2> QED BY <2>2 DEF Read
<1>9. ASSUME HasMore(list, page)
      PROVE  /\ rows # <<>> /\ page * Page \in DOMAIN list
             /\ rows[Len(rows)] = list[page * Page]
  <2>1. n = m - 1 + Page /\ n <= Len(list) /\ n = page * Page
    BY <1>1, <1>5, <1>9
  <2>2. Len(rows) = Page /\ n - m + 1 = Page /\ m + Page - 1 = n
    BY <1>1, <1>6, <2>1
  <2>3. rows[Page] = list[n]
    <3>1. Page \in 1 .. n - m + 1
      BY <1>1, <2>2
    <3>2. rows[Page] = list[m + Page - 1]
      BY <1>6, <3>1
    <3> QED BY <2>2, <3>2
  <2>4. rows # <<>>
    BY <1>1, <1>6, <2>2
  <2>5. n \in DOMAIN list
    BY <1>1, <1>2, <2>1
  <2> QED BY <2>1, <2>2, <2>3, <2>4, <2>5
<1> QED BY <1>4, <1>6, <1>8, <1>9 DEF rows

\* Reading on keeps what was read.
LEMMA ConcatReads ==
    ASSUME NEW s \in Seq(Transfer), NEW t \in Seq(Transfer)
    PROVE  /\ s \o t \in Seq(Transfer)
           /\ \A x : Read(s, x) \/ Read(t, x) => Read(s \o t, x)
           /\ t # <<>> => Len(s \o t) \in DOMAIN (s \o t) /\ (s \o t)[Len(s \o t)] = t[Len(t)]
<1>1. /\ Len(s) \in Nat /\ Len(t) \in Nat /\ DOMAIN s = 1 .. Len(s) /\ DOMAIN t = 1 .. Len(t)
  BY LenProperties
<1> DEFINE all == s \o t
<1>2. /\ all \in Seq(Transfer) /\ Len(all) = Len(s) + Len(t)
      /\ \A i \in 1 .. Len(s) + Len(t) : all[i] = IF i <= Len(s) THEN s[i] ELSE t[i - Len(s)]
  BY ConcatProperties
<1> HIDE DEF all
<1>3. DOMAIN all = 1 .. Len(s) + Len(t)
  BY <1>2, LenProperties
<1>4. ASSUME NEW x, Read(s, x) PROVE Read(all, x)
  BY <1>1, <1>2, <1>3, <1>4 DEF Read
<1>5. ASSUME NEW x, Read(t, x) PROVE Read(all, x)
  <2>1. PICK i \in DOMAIN t : t[i] = x
    BY <1>5 DEF Read
  <2>2. Len(s) + i \in 1 .. Len(s) + Len(t) /\ ~(Len(s) + i <= Len(s)) /\ (Len(s) + i) - Len(s) = i
    BY <1>1
  <2>3. all[Len(s) + i] = x
    BY <1>2, <2>1, <2>2
  <2> QED BY <1>3, <2>2, <2>3 DEF Read
<1>6. ASSUME t # <<>>
      PROVE  Len(all) \in DOMAIN all /\ all[Len(all)] = t[Len(t)]
  <2>1. Len(t) > 0
    BY <1>1, <1>6, EmptySeq
  <2>2. Len(all) \in 1 .. Len(s) + Len(t) /\ ~(Len(all) <= Len(s)) /\ Len(all) - Len(s) = Len(t)
    BY <1>1, <1>2, <2>1
  <2> QED BY <1>2, <1>3, <2>2
<1> QED BY <1>2, <1>4, <1>5, <1>6 DEF all

\* The same when a page of transfers is read.
LEMMA DeskReads ==
    ASSUME NEW team \in Seq(Transfer), NEW r, DeskHolds(team, r),
           NEW rows, rows = r.rows \o PageOf(team, r.page)
    PROVE  /\ rows \in Seq(Transfer)
           /\ \A i \in DOMAIN r.first :
                 Read(rows, r.first[i]) \/ StillAhead(team, r.page + 1, r.first[i])
           /\ HasMore(team, r.page) =>
                 /\ Len(rows) \in DOMAIN rows /\ r.page * Page \in DOMAIN team
                 /\ rows[Len(rows)] = team[r.page * Page]
<1>1. r.page \in Nat \ {0} /\ r.rows \in Seq(Transfer)
  BY DEF DeskHolds
<1> DEFINE page == PageOf(team, r.page)
<1>2. /\ page \in Seq(Transfer) /\ \A j \in Places(team, r.page) : Read(page, team[j])
      /\ HasMore(team, r.page) =>
            /\ page # <<>> /\ r.page * Page \in DOMAIN team
            /\ page[Len(page)] = team[r.page * Page]
  BY <1>1, PageRows
<1> HIDE DEF page
<1>3. rows = r.rows \o page
  BY DEF page
<1>4. /\ rows \in Seq(Transfer) /\ \A x : Read(r.rows, x) \/ Read(page, x) => Read(rows, x)
      /\ page # <<>> => Len(rows) \in DOMAIN rows /\ rows[Len(rows)] = page[Len(page)]
  BY <1>1, <1>2, <1>3, ConcatReads
<1>5. ASSUME NEW i \in DOMAIN r.first
      PROVE  Read(rows, r.first[i]) \/ StillAhead(team, r.page + 1, r.first[i])
  <2>1. Read(r.rows, r.first[i]) \/ StillAhead(team, r.page, r.first[i])
    BY DEF DeskHolds
  <2>2. CASE StillAhead(team, r.page, r.first[i])
    BY <1>1, <1>2, <1>4, <2>2, PageIsRead
  <2> QED BY <1>4, <2>1, <2>2
<1> QED BY <1>2, <1>4, <1>5

\* The days of transfers are numbers.
LEMMA TransferDays ==
    ASSUME NEW s \in Seq(Transfer)
    PROVE  DOMAIN s = 1 .. Len(s) /\ Len(s) \in Nat /\ \A j \in DOMAIN s : s[j].day \in Nat
<1>1. DOMAIN s = 1 .. Len(s) /\ Len(s) \in Nat
  BY LenProperties
<1>2. \A j \in DOMAIN s : s[j] \in Transfer
  BY <1>1, ElementOfSeq
<1>3. \A t \in Transfer : t.day \in Nat
  BY DEF Transfer
<1> QED BY <1>1, <1>2, <1>3

\* The last of rows that are in order is before the window, once one of them is.
LEMMA ClosedAtLast ==
    ASSUME NEW rows \in Seq(Transfer), InOrder(rows), WindowClosed(rows), NEW d \in Window
    PROVE  rows[Len(rows)].day < d
<1>1. PICK t \in Range(rows) : t.day < d
  BY DEF WindowClosed
<1>2. PICK c \in DOMAIN rows : rows[c].day < d
  <2>1. PICK c \in DOMAIN rows : rows[c] = t
    BY <1>1 DEF Range
  <2> QED BY <1>1, <2>1
<1>3. /\ DOMAIN rows = 1 .. Len(rows) /\ Len(rows) \in Nat
      /\ \A j \in DOMAIN rows : rows[j].day \in Nat
  BY TransferDays
<1>4. c \in Nat /\ c <= Len(rows) /\ Len(rows) \in DOMAIN rows
  BY <1>2, <1>3
<1>5. CASE c = Len(rows)
  BY <1>2, <1>5
<1>6. CASE c < Len(rows)
  <2>1. rows[c].day >= rows[Len(rows)].day
    BY <1>2, <1>4, <1>6 DEF InOrder
  <2>2. rows[c].day \in Nat /\ rows[Len(rows)].day \in Nat /\ d \in Nat
    BY <1>2, <1>3, <1>4, ProviderAssumption
  <2> QED BY <1>2, <2>1, <2>2
<1> QED BY <1>3, <1>4, <1>5, <1>6

\* The rows further down are not later than the last of a page.
LEMMA BelowPage ==
    ASSUME NEW team \in Seq(Transfer), Descends(team), NEW page \in Nat \ {0},
           page * Page \in DOMAIN team, NEW f, StillAhead(team, page + 1, f)
    PROVE  f.day \in Nat /\ team[page * Page].day >= f.day
<1>1. PICK j \in DOMAIN team : j > (page + 1 - 1) * Page /\ team[j] = f
  BY DEF StillAhead
<1>2. (page + 1 - 1) * Page = page * Page
  OBVIOUS
<1>3. team[page * Page].day >= team[j].day
  BY <1>1, <1>2 DEF Descends
<1> QED BY <1>1, <1>3, TransferDays

\* A desk whose list is read to its end, or to a row before the window, has every row
\* of the window that was listed when the reading began.
LEMMA DeskEnds ==
    ASSUME NEW team \in Seq(Transfer), Descends(team), NEW r, DeskHolds(team, r),
           InOrder(r.rows \o PageOf(team, r.page)),
           ~HasMore(team, r.page) \/ WindowClosed(r.rows \o PageOf(team, r.page)),
           NEW i \in DOMAIN r.first, r.first[i].day \in Window
    PROVE  \E p \in InWindow(r.rows \o PageOf(team, r.page)) : p[2] = r.first[i]
<1> DEFINE rows == r.rows \o PageOf(team, r.page)
<1>0. /\ InOrder(rows) /\ (~HasMore(team, r.page) \/ WindowClosed(rows))
      /\ rows \in Seq(Transfer)
      /\ \A j \in DOMAIN r.first :
            Read(rows, r.first[j]) \/ StillAhead(team, r.page + 1, r.first[j])
      /\ HasMore(team, r.page) =>
            r.page * Page \in DOMAIN team /\ rows[Len(rows)] = team[r.page * Page]
  BY DeskReads
<1> HIDE DEF rows
<1>1. r.page \in Nat \ {0}
  BY DEF DeskHolds
<1>2. Read(rows, r.first[i])
  <2>1. CASE ~HasMore(team, r.page)
    BY <1>0, <1>1, <2>1, NothingAhead
  <2>2. CASE HasMore(team, r.page) /\ WindowClosed(rows)
    <3>1. /\ rows \in Seq(Transfer) /\ r.page * Page \in DOMAIN team
          /\ rows[Len(rows)] = team[r.page * Page]
      BY <1>0, <2>2
    <3>2. rows[Len(rows)].day < r.first[i].day
      BY <1>0, <2>2, <3>1, ClosedAtLast
    <3>3. team[r.page * Page].day \in Nat
      BY <3>1, TransferDays
    <3>4. ASSUME StillAhead(team, r.page + 1, r.first[i])
          PROVE  FALSE
      <4>1. r.first[i].day \in Nat /\ team[r.page * Page].day >= r.first[i].day
        BY <1>1, <3>1, <3>4, BelowPage
      <4> QED BY <3>1, <3>2, <3>3, <4>1
    <3> QED BY <1>0, <3>4
  <2> QED BY <1>0, <2>1, <2>2
<1>3. PICK k \in DOMAIN rows : rows[k] = r.first[i]
  BY <1>2 DEF Read
<1>4. <<k, rows[k]>> \in InWindow(rows) /\ <<k, rows[k]>>[2] = r.first[i]
  BY <1>3 DEF InWindow
<1> QED BY <1>4 DEF rows

\* Rows in order have no transfer twice.
LEMMA ShownOnce ==
    ASSUME NEW rows \in Seq(Transfer), InOrder(rows)
    PROVE  \A p, q \in InWindow(rows) : p[2].id = q[2].id => p = q
<1> SUFFICES ASSUME NEW p \in InWindow(rows), NEW q \in InWindow(rows), p[2].id = q[2].id
             PROVE  p = q
  OBVIOUS
<1>1. PICK i \in DOMAIN rows : p = <<i, rows[i]>>
  BY DEF InWindow
<1>2. PICK j \in DOMAIN rows : q = <<j, rows[j]>>
  BY DEF InWindow
<1>3. rows[i].id = rows[j].id
  BY <1>1, <1>2
<1>4. i < j \/ j < i \/ i = j
  BY LenProperties
<1>5. i = j
  BY <1>3, <1>4 DEF InOrder
<1> QED BY <1>1, <1>2, <1>5

-------------------------------------------------------------------------------
\* What a lookup may rely on where it is.
Stages(l) ==
    {"refused", "settings", "token", "fixture", "answered"}
        \cup (IF l = "signals" THEN MatchCapabilities ELSE {"transfer_desk"})

OneEach(odds) ==
    \A b \in odds.shown, s \in {"home", "draw", "away"} :
        Cardinality(Quoted(odds.reply, b, s)) = 1

OddsHold(feeds) == "external_odds" \in DOMAIN feeds => OneEach(feeds["external_odds"])

FeedsHold(r) ==
    /\ {"match", "first", "feeds"} \subseteq DOMAIN r
    /\ OnlyOne(r.first, r.match) /\ OddsHold(r.feeds)

ShownHolds(r) ==
    /\ \A p, q \in r.shown : p[2].id = q[2].id => p = q
    /\ r.status = "available" =>
           \A i \in DOMAIN r.first : r.first[i].day \in Window =>
               \E p \in r.shown : p[2] = r.first[i]

Holds(day, team, l, r) ==
    /\ r.at \in Stages(l)
    /\ r.at = "fixture" => SearchHolds(day, r)
    /\ r.at \in MatchCapabilities => FeedsHold(r)
    /\ r.at = "transfer_desk" => DeskHolds(team, r)
    /\ r.at = "answered" => IF l = "signals" THEN FeedsHold(r) ELSE ShownHolds(r)

ListsHold ==
    /\ catalog = [day |-> catalog.day, team |-> catalog.team]
    /\ catalog.day \in Seq(Listing) /\ IsInjective(catalog.day)
    /\ catalog.team \in Seq(Transfer) /\ IsInjective(catalog.team) /\ Descends(catalog.team)

LookupsHold ==
    LookupsFit /\ ListsHold /\ \A l \in Lookups : Holds(catalog.day, catalog.team, l, lookup[l])

\* What a lookup relies on stands while the lists grow.
LEMMA HoldsLater ==
    ASSUME NEW day \in Seq(Listing), NEW day2 \in Seq(Listing), Grows(day, day2),
           NEW team \in Seq(Transfer), NEW team2 \in Seq(Transfer), Grows(team, team2),
           NEW l, NEW r, Holds(day, team, l, r)
    PROVE  Holds(day2, team2, l, r)
<1>1. ASSUME SearchHolds(day, r) PROVE SearchHolds(day2, r)
  BY <1>1, AheadGrows DEF SearchHolds
<1>2. ASSUME DeskHolds(team, r) PROVE DeskHolds(team2, r)
  BY <1>2, AheadGrows DEF DeskHolds
<1> QED BY <1>1, <1>2 DEF Holds

\* A list that stays has its rows where they were.
LEMMA GrowsSelf == ASSUME NEW S, NEW list \in Seq(S) PROVE Grows(list, list)
<1>1. DOMAIN list \subseteq Nat
  BY LenProperties
<1> QED BY <1>1 DEF Grows

\* The lists stay in order while they grow.
LEMMA InsertedDescends ==
    ASSUME NEW S, NEW s \in Seq(S), NEW i \in 1 .. Len(s) + 1, NEW e \in S
    PROVE  /\ Descends(s) /\ \A x \in S : x.day \in Nat
           /\ \A j \in DOMAIN s : IF j < i THEN s[j].day >= e.day ELSE s[j].day <= e.day
           => Descends(InsertAt(s, i, e))
<1> DEFINE new == InsertAt(s, i, e)
<1>0. MovesDown(new, s, i, e)
  BY InsertedAt
<1>1. /\ DOMAIN new = 1 .. Len(s) + 1
      /\ \A j \in 1 .. Len(s) + 1 :
                 new[j] = IF j < i THEN s[j] ELSE IF j = i THEN e ELSE s[j - 1]
  BY <1>0, Zenon DEF MovesDown
<1> SUFFICES ASSUME Descends(s), \A x \in S : x.day \in Nat,
                    \A j \in DOMAIN s : IF j < i THEN s[j].day >= e.day ELSE s[j].day <= e.day
             PROVE  Descends(new)
  OBVIOUS
<1>2. DOMAIN s = 1 .. Len(s) /\ Len(s) \in Nat /\ \A j \in DOMAIN s : s[j].day \in Nat
  <2>1. DOMAIN s = 1 .. Len(s) /\ Len(s) \in Nat
    BY LenProperties
  <2>2. \A j \in DOMAIN s : s[j] \in S
    BY <2>1, ElementOfSeq
  <2> QED BY <2>1, <2>2
<1>3. e.day \in Nat
  OBVIOUS
<1> HIDE DEF new
<1>4. ASSUME NEW j \in 1 .. Len(s) + 1, NEW k \in 1 .. Len(s) + 1, j < k
      PROVE  new[j].day >= new[k].day
  <2>1. CASE k < i
    <3>1. j < i /\ j \in DOMAIN s /\ k \in DOMAIN s
      BY <1>2, <1>4, <2>1
    <3> QED BY <1>1, <1>4, <2>1, <3>1 DEF Descends
  <2>2. CASE k = i
    <3>1. j < i /\ j \in DOMAIN s
      BY <1>2, <1>4, <2>2
    <3> QED BY <1>1, <2>2, <3>1
  <2>3. CASE k > i /\ j < i
    <3>1. j \in DOMAIN s /\ k - 1 \in DOMAIN s /\ j < k - 1 /\ ~(k < i) /\ k # i
      BY <1>2, <1>4, <2>3
    <3> QED BY <1>1, <2>3, <3>1 DEF Descends
  <2>4. CASE k > i /\ j = i
    <3>1. k - 1 \in DOMAIN s /\ ~(k - 1 < i) /\ ~(k < i) /\ k # i
      BY <1>2, <1>4, <2>4
    <3>2. s[k - 1].day <= e.day /\ new[k] = s[k - 1] /\ new[j] = e
      BY <1>1, <2>4, <3>1
    <3> QED BY <1>2, <1>3, <3>1, <3>2
  <2>5. CASE k > i /\ j > i
    <3>1. /\ k - 1 \in DOMAIN s /\ ~(k < i) /\ k # i
          /\ j - 1 \in DOMAIN s /\ ~(j < i) /\ j # i /\ j - 1 < k - 1
      BY <1>2, <1>4, <2>5
    <3> QED BY <1>1, <3>1 DEF Descends
  <2> QED BY <1>2, <1>4, <2>1, <2>2, <2>3, <2>4, <2>5
<1> QED BY <1>1, <1>4 DEF Descends, new

\* What the provider lists anew moves rows down and drops none.
LEMMA ListsGrow ==
    ASSUME ListsHold, ProviderLists
    PROVE  ListsHold' /\ Grows(catalog.day, catalog'.day) /\ Grows(catalog.team, catalog'.team)
<1>1. ASSUME NEW f \in NewFixtures, NEW i \in 1 .. Len(catalog.day) + 1,
             f \notin Range(catalog.day),
             catalog' = [catalog EXCEPT !.day = InsertAt(@, i, f)]
      PROVE  ListsHold' /\ Grows(catalog.day, catalog'.day) /\ Grows(catalog.team, catalog'.team)
  <2> DEFINE new == InsertAt(catalog.day, i, f)
  <2>1. f \in Listing
    BY ProviderAssumption
  <2>2. new \in Seq(Listing) /\ Grows(catalog.day, new) /\ IsInjective(new)
    BY <1>1, <2>1, InsertedAt, InsertedGrows DEF ListsHold
  <2>3. catalog' = [day |-> new, team |-> catalog.team]
    BY <1>1 DEF ListsHold
  <2> HIDE DEF new
  <2>4. catalog'.day = new /\ catalog'.team = catalog.team
    BY <2>3
  <2> QED BY <2>2, <2>3, <2>4, GrowsSelf DEF ListsHold, Descends
<1>2. ASSUME NEW t \in NewTransfers, NEW i \in 1 .. Len(catalog.team) + 1,
             t \notin Range(catalog.team),
             \A j \in DOMAIN catalog.team :
                 IF j < i THEN catalog.team[j].day >= t.day ELSE catalog.team[j].day <= t.day,
             catalog' = [catalog EXCEPT !.team = InsertAt(@, i, t)]
      PROVE  ListsHold' /\ Grows(catalog.day, catalog'.day) /\ Grows(catalog.team, catalog'.team)
  <2> DEFINE new == InsertAt(catalog.team, i, t)
  <2>1. t \in Transfer
    BY ProviderAssumption
  <2>2. new \in Seq(Transfer) /\ Grows(catalog.team, new) /\ IsInjective(new)
    BY <1>2, <2>1, InsertedAt, InsertedGrows DEF ListsHold
  <2>3. Descends(new)
    <3>1. \A x \in Transfer : x.day \in Nat
      BY DEF Transfer
    <3> QED BY <1>2, <2>1, <3>1, InsertedDescends DEF ListsHold
  <2>4. catalog' = [day |-> catalog.day, team |-> new]
    BY <1>2 DEF ListsHold
  <2> HIDE DEF new
  <2>5. catalog'.day = catalog.day /\ catalog'.team = new
    BY <2>4
  <2> QED BY <2>2, <2>3, <2>4, <2>5, GrowsSelf DEF ListsHold, Descends
<1> QED BY <1>1, <1>2 DEF ProviderLists

\* One lookup makes a step while the lists stay.
LEMMA StepHolds ==
    ASSUME LookupsHold, LookupsFit', catalog' = catalog, NEW l \in Lookups, NEW x, Steps(l, x),
           Holds(catalog.day, catalog.team, l, x)
    PROVE  LookupsHold'
<1>1. ASSUME NEW k \in Lookups PROVE lookup'[k] = IF k = l THEN x ELSE lookup[k]
  BY DEF Steps, LookupsHold, LookupsFit
<1>2. ASSUME NEW k \in Lookups
      PROVE  Holds(catalog'.day, catalog'.team, k, lookup'[k])
  BY <1>1 DEF LookupsHold
<1>3. ListsHold'
  BY DEF LookupsHold, ListsHold
<1> QED BY <1>2, <1>3 DEF LookupsHold

\* A refused lookup relies on nothing; the next ones say the same of each step.
LEMMA RefusedHolds == ASSUME NEW l PROVE Holds(catalog.day, catalog.team, l, Refused)
<1>1. Refused.at = "refused"
  BY DEF Refused
<1> QED BY <1>1 DEF Holds, Stages, MatchCapabilities

\* A lookup begins: nothing was read yet.
LEMMA BeginsHold ==
    ASSUME LookupsHold, LookupsFit', catalog' = catalog, NEW l \in Lookups, LookupBegins(l)
    PROVE  LookupsHold'
<1>1. PICK m \in Asked : Steps(l, [at |-> "settings", match |-> m, cut |-> FALSE])
  BY DEF LookupBegins
<1>2. Holds(catalog.day, catalog.team, l, [at |-> "settings", match |-> m, cut |-> FALSE])
  BY DEF Holds, Stages, MatchCapabilities
<1> QED BY <1>1, <1>2, StepHolds

\* It read the settings.
LEMMA ReadsSettingsHold ==
    ASSUME LookupsHold, LookupsFit', catalog' = catalog, NEW l \in Lookups, LookupReadsSettings(l)
    PROVE  LookupsHold'
<1> DEFINE caps == Wanted(l, lookup[l].match)
           x == [at |-> "token", match |-> lookup[l].match, cut |-> lookup[l].cut, caps |-> caps]
<1>1. Steps(l, IF caps = {} THEN Refused ELSE x)
  BY DEF LookupReadsSettings
<1>2. Holds(catalog.day, catalog.team, l, x)
  BY DEF Holds, Stages, MatchCapabilities
<1> HIDE DEF caps, x
<1> QED BY <1>1, <1>2, StepHolds, RefusedHolds

\* It read the token and searches from the first page, with nothing seen.
LEMMA ReadsTokenHold ==
    ASSUME LookupsHold, LookupsFit', catalog' = catalog, NEW l \in Lookups, LookupReadsToken(l)
    PROVE  LookupsHold'
<1> DEFINE x == [at |-> "fixture", match |-> lookup[l].match, cut |-> lookup[l].cut,
                 caps |-> lookup[l].caps, page |-> 1, sent |-> FALSE, found |-> {},
                 first |-> <<>>]
<1>1. Steps(l, IF HasToken /\ Findable(lookup[l].match) THEN x ELSE Refused)
  BY DEF LookupReadsToken
<1>2. SearchHolds(catalog.day, x)
  <2>1. DOMAIN x.first = {} /\ IsFiniteSet({}) /\ x.found = {} /\ x.page = 1
    BY FS_EmptySet
  <2> QED BY <2>1 DEF SearchHolds, IsInjective
<1>3. x.at = "fixture"
  OBVIOUS
<1> HIDE DEF x
<1>4. Holds(catalog.day, catalog.team, l, x)
  BY <1>2, <1>3 DEF Holds, Stages, MatchCapabilities
<1> QED BY <1>1, <1>4, StepHolds, RefusedHolds

\* The list as it is when its first page is asked for is all ahead.
LEMMA AllAhead ==
    ASSUME NEW S, NEW list \in Seq(S), NEW i \in DOMAIN list
    PROVE  StillAhead(list, 1, list[i])
<1>1. i > (1 - 1) * Page
  BY LenProperties, ProviderAssumption
<1> QED BY <1>1 DEF StillAhead

\* It asks: with the first page it takes the list as it is.
LEMMA AsksHold ==
    ASSUME LookupsHold, LookupsFit', catalog' = catalog, NEW l \in Lookups, LookupAsks(l)
    PROVE  LookupsHold'
<1> DEFINE r == lookup[l]
           list == IF r.page # 1 THEN r.first
                   ELSE CASE r.at = "fixture" -> catalog.day
                          [] r.at = "transfer_desk" -> catalog.team
                          [] OTHER -> r.first
           x == [r EXCEPT !.sent = TRUE, !.first = list]
<1>1. IsLookup(r) /\ Holds(catalog.day, catalog.team, l, r)
  BY DEF LookupsHold, LookupsFit
<1>2. Steps(l, IF r.cut THEN Refused ELSE x)
  BY <1>1, Zenon DEF LookupAsks
<1>3. r.at \in {"fixture", "transfer_desk"} \cup MatchCapabilities
  BY DEF LookupAsks, Asking
<1>4. /\ catalog.day \in Seq(Listing) /\ IsInjective(catalog.day)
      /\ catalog.team \in Seq(Transfer)
  BY DEF LookupsHold, ListsHold
<1> HIDE DEF r
<1>5. /\ r.at = "fixture" => list = IF r.page # 1 THEN r.first ELSE catalog.day
      /\ r.at = "transfer_desk" => list = IF r.page # 1 THEN r.first ELSE catalog.team
      /\ r.at \in MatchCapabilities => list = r.first
  BY DEF MatchCapabilities
<1> HIDE DEF list
<1>6. /\ DOMAIN x = DOMAIN r /\ x = [k \in DOMAIN r |-> x[k]] /\ x.at = r.at
      /\ "match" \in DOMAIN r => x.match = r.match
      /\ "page" \in DOMAIN r => x.page = r.page
      /\ "found" \in DOMAIN r => x.found = r.found
      /\ "rows" \in DOMAIN r => x.rows = r.rows
      /\ "feeds" \in DOMAIN r => x.feeds = r.feeds
      /\ "first" \in DOMAIN r => x.first = list
  BY <1>1 DEF IsLookup
<1> HIDE DEF x
<1>7. ASSUME r.at = "fixture" PROVE SearchHolds(catalog.day, x)
  <2>1. SearchHolds(catalog.day, r)
    BY <1>1, <1>7 DEF Holds
  <2>2. /\ x.match = r.match /\ x.page = r.page /\ x.found = r.found /\ x.first = list
        /\ {"match", "page", "found", "first"} \subseteq DOMAIN x
    BY <1>6, <2>1 DEF SearchHolds
  <2>3. CASE r.page # 1
    BY <1>5, <1>7, <2>1, <2>2, <2>3 DEF SearchHolds
  <2>4. CASE r.page = 1
    <3>1. list = catalog.day
      BY <1>5, <1>7, <2>4
    <3> QED BY <1>4, <2>1, <2>2, <2>4, <3>1, AllAhead DEF SearchHolds
  <2> QED BY <2>3, <2>4
<1>8. ASSUME r.at = "transfer_desk" PROVE DeskHolds(catalog.team, x)
  <2>1. DeskHolds(catalog.team, r)
    BY <1>1, <1>8 DEF Holds, MatchCapabilities
  <2>2. /\ x.page = r.page /\ x.rows = r.rows /\ x.first = list
        /\ {"page", "rows", "first"} \subseteq DOMAIN x
    BY <1>6, <2>1 DEF DeskHolds
  <2>3. CASE r.page # 1
    BY <1>5, <1>8, <2>1, <2>2, <2>3 DEF DeskHolds
  <2>4. CASE r.page = 1
    <3>1. list = catalog.team
      BY <1>5, <1>8, <2>4
    <3> QED BY <1>4, <2>1, <2>2, <2>4, <3>1, AllAhead DEF DeskHolds
  <2> QED BY <2>3, <2>4
<1>9. ASSUME r.at \in MatchCapabilities PROVE FeedsHold(x)
  <2>1. FeedsHold(r)
    BY <1>1, <1>9 DEF Holds
  <2>2. /\ x.match = r.match /\ x.feeds = r.feeds /\ x.first = r.first
        /\ {"match", "first", "feeds"} \subseteq DOMAIN x
    BY <1>5, <1>6, <1>9, <2>1 DEF FeedsHold
  <2> QED BY <2>1, <2>2 DEF FeedsHold
<1>10. Holds(catalog.day, catalog.team, l, x)
  BY <1>1, <1>3, <1>6, <1>7, <1>8, <1>9 DEF Holds, MatchCapabilities
<1> QED BY <1>2, <1>10, StepHolds, RefusedHolds

\* The one fixture that fits was found.
LEMMA FoundHolds ==
    ASSUME NEW l \in Lookups, OnlyOne(lookup[l].first, lookup[l].match)
    PROVE  Holds(catalog.day, catalog.team, l, Found(l))
<1>1. CASE l = "transfers"
  <2> DEFINE x == [at |-> "transfer_desk", match |-> lookup[l].match, cut |-> lookup[l].cut,
                   page |-> 1, sent |-> FALSE, first |-> <<>>, rows |-> <<>>]
  <2>1. Found(l) = x
    BY <1>1 DEF Found
  <2>2. DeskHolds(catalog.team, x)
    <3>1. DOMAIN x.first = {} /\ x.page = 1 /\ x.rows = <<>> /\ <<>> \in Seq(Transfer)
      BY EmptySeq
    <3> QED BY <3>1 DEF DeskHolds
  <2>3. x.at = "transfer_desk"
    OBVIOUS
  <2> HIDE DEF x
  <2> QED BY <1>1, <2>1, <2>2, <2>3 DEF Holds, Stages, MatchCapabilities
<1>2. CASE l # "transfers"
  <2> DEFINE caps == lookup[l].caps
             mute == IF lookup[l].match.five THEN {} ELSE caps \cap {"player_lens"}
             feeds == [f \in mute |-> [reply |-> <<>>, shown |-> None]]
             x == [at |-> NextFeed(mute, caps), match |-> lookup[l].match, cut |-> lookup[l].cut,
                   caps |-> caps, page |-> 1, sent |-> FALSE, first |-> lookup[l].first,
                   feeds |-> feeds]
  <2>1. Found(l) = x
    BY <1>2 DEF Found
  <2>2. "external_odds" \notin DOMAIN feeds
    OBVIOUS
  <2> HIDE DEF feeds, mute
  <2>3. FeedsHold(x)
    BY <2>2 DEF FeedsHold, OddsHold
  <2>4. x.at \in MatchCapabilities \cup {"answered"}
    BY DEF NextFeed, MatchCapabilities
  <2> HIDE DEF x
  <2>5. l = "signals"
    BY <1>2 DEF Lookups
  <2> QED BY <2>1, <2>3, <2>4, <2>5 DEF Holds, Stages, MatchCapabilities
<1> QED BY <1>1, <1>2

\* A page of fixtures arrives.
LEMMA FixturePageHold ==
    ASSUME LookupsHold, LookupsFit', catalog' = catalog, NEW l \in Lookups, FixturePageArrives(l)
    PROVE  LookupsHold'
<1> DEFINE r == lookup[l]
           found == r.found \cup Fitting(catalog.day, r.page, r.match)
           more == HasMore(catalog.day, r.page)
           x == [r EXCEPT !.page = r.page + 1, !.sent = FALSE, !.found = found]
<1>1. /\ r.at = "fixture" /\ IsLookup(r) /\ SearchHolds(catalog.day, r)
      /\ catalog.day \in Seq(Listing)
  BY DEF FixturePageArrives, LookupsHold, LookupsFit, Holds, ListsHold
<1>2. Steps(l, IF more /\ r.page = MaxPages THEN Refused
               ELSE IF more THEN x
               ELSE IF Cardinality(found) = 1 THEN Found(l)
               ELSE Refused)
  BY Zenon DEF FixturePageArrives
<1>3. IsFiniteSet(found)
      /\ \A i \in DOMAIN r.first : FixtureMatches(r.first[i], r.match) =>
            Seen(found, r.first[i]) \/ StillAhead(catalog.day, r.page + 1, r.first[i])
  BY <1>1, SearchReads
<1>4. ~more /\ Cardinality(found) = 1 => Holds(catalog.day, catalog.team, l, Found(l))
  <2> SUFFICES ASSUME ~more, Cardinality(found) = 1
               PROVE  Holds(catalog.day, catalog.team, l, Found(l))
    OBVIOUS
  <2>1. OnlyOne(r.first, r.match)
    BY <1>1, SearchEnds
  <2> QED BY <2>1, FoundHolds
<1> HIDE DEF r, found, more
<1>5. /\ {"match", "page", "found", "first"} \subseteq DOMAIN x
      /\ x.at = "fixture" /\ x.match = r.match /\ x.page = r.page + 1
      /\ x.found = found /\ x.first = r.first
  BY <1>1 DEF IsLookup, SearchHolds
<1> HIDE DEF x
<1>6. Holds(catalog.day, catalog.team, l, x)
  <2>1. SearchHolds(catalog.day, x)
    BY <1>1, <1>3, <1>5 DEF SearchHolds
  <2> QED BY <1>5, <2>1 DEF Holds, Stages, MatchCapabilities
<1> QED BY <1>2, <1>4, <1>6, StepHolds, RefusedHolds

\* What is heard of one feed.
SaysTheTruth(feed, said) == feed = "external_odds" => OneEach(said)

\* A feed that was heard joins the others; odds are the only ones with a condition.
LEMMA HeardHolds ==
    ASSUME LookupsHold, LookupsFit', catalog' = catalog, NEW l \in Lookups,
           lookup[l].at \in MatchCapabilities, NEW said, SaysTheTruth(lookup[l].at, said),
           Steps(l, Heard(l, said))
    PROVE  LookupsHold'
<1> DEFINE r == lookup[l]
           feeds == [f \in DOMAIN r.feeds \cup {r.at} |-> IF f = r.at THEN said ELSE r.feeds[f]]
           next == NextFeed(DOMAIN feeds, r.caps)
           x == [r EXCEPT !.at = next, !.sent = FALSE, !.feeds = feeds]
<1>1. IsLookup(r) /\ FeedsHold(r) /\ r.at \in Stages(l)
  BY DEF LookupsHold, LookupsFit, Holds
<1>2. l = "signals"
  BY <1>1 DEF Stages, MatchCapabilities, Lookups
<1>3. OddsHold(feeds)
  <2>1. CASE r.at = "external_odds"
    <3>1. feeds["external_odds"] = said
      BY <2>1
    <3> HIDE DEF feeds, r
    <3> QED BY <2>1, <3>1 DEF SaysTheTruth, OddsHold, r
  <2>2. CASE r.at # "external_odds"
    <3>1. "external_odds" \in DOMAIN feeds =>
             "external_odds" \in DOMAIN r.feeds /\ feeds["external_odds"] = r.feeds["external_odds"]
      BY <2>2
    <3> HIDE DEF feeds, r
    <3> QED BY <1>1, <3>1 DEF FeedsHold, OddsHold
  <2> QED BY <2>1, <2>2
<1>4. Heard(l, said) = IF next = "answered" THEN Answer(l, feeds) ELSE x
  BY DEF Heard
<1>5. next \in MatchCapabilities \cup {"answered"}
  BY DEF NextFeed, MatchCapabilities
<1>6. /\ {"match", "first", "feeds"} \subseteq DOMAIN Answer(l, feeds)
      /\ Answer(l, feeds).at = "answered" /\ Answer(l, feeds).match = r.match
      /\ Answer(l, feeds).first = r.first /\ Answer(l, feeds).feeds = feeds
  <2> HIDE DEF feeds
  <2> QED BY DEF Answer
<1> HIDE DEF feeds, next, r
<1>7. /\ {"match", "first", "feeds"} \subseteq DOMAIN x
      /\ x.at = next /\ x.match = r.match /\ x.first = r.first /\ x.feeds = feeds
  BY <1>1 DEF IsLookup, FeedsHold
<1> HIDE DEF x
<1>8. Holds(catalog.day, catalog.team, l, Answer(l, feeds))
  BY <1>1, <1>2, <1>3, <1>6 DEF Holds, Stages, MatchCapabilities, FeedsHold
<1>9. next # "answered" => Holds(catalog.day, catalog.team, l, x)
  BY <1>1, <1>2, <1>3, <1>5, <1>7 DEF Holds, Stages, MatchCapabilities, FeedsHold
<1> QED BY <1>4, <1>8, <1>9, StepHolds

\* A feed arrives: its odds show whole bookmakers only.
LEMMA FeedHolds ==
    ASSUME LookupsHold, LookupsFit', catalog' = catalog, NEW l \in Lookups, FeedArrives(l)
    PROVE  LookupsHold'
<1>1. PICK p \in Predictions, o \in OddsReplies, r \in LensReplies :
          Steps(l, Heard(l, FeedSays(lookup[l].at, p, o, r)))
  BY DEF FeedArrives
<1>2. lookup[l].at \in MatchCapabilities
  BY DEF FeedArrives
<1> DEFINE said == FeedSays(lookup[l].at, p, o, r)
<1>3. SaysTheTruth(lookup[l].at, said)
  <2> SUFFICES ASSUME lookup[l].at = "external_odds" PROVE OneEach(said)
    BY DEF SaysTheTruth
  <2>1. said = [reply |-> o, shown |-> Odds(o)]
    BY DEF FeedSays
  <2>2. o \in Seq(Price)
    BY ProviderAssumption
  <2>3. said.reply = o /\ said.shown = Odds(o)
    BY <2>1
  <2> HIDE DEF said
  <2> QED BY <2>2, <2>3, OddsOneEach DEF OneEach
<1> HIDE DEF said
<1> QED BY <1>1, <1>2, <1>3, HeardHolds DEF said

\* A feed that failed shows nothing.
LEMMA MutedHolds ==
    ASSUME LookupsHold, LookupsFit', catalog' = catalog, NEW l \in Lookups,
           lookup[l].at \in MatchCapabilities,
           Steps(l, Heard(l, [reply |-> <<>>, shown |-> None]))
    PROVE  LookupsHold'
<1>1. OneEach([reply |-> <<>>, shown |-> None])
  BY DEF OneEach, None
<1> QED BY <1>1, HeardHolds DEF SaysTheTruth

\* A page of transfers arrives.
LEMMA TransferPageHold ==
    ASSUME LookupsHold, LookupsFit', catalog' = catalog, NEW l \in Lookups, TransferPageArrives(l)
    PROVE  LookupsHold'
<1> DEFINE r == lookup[l]
           rows == r.rows \o PageOf(catalog.team, r.page)
           more == HasMore(catalog.team, r.page) /\ ~WindowClosed(rows)
           x == [r EXCEPT !.page = r.page + 1, !.sent = FALSE, !.rows = rows]
           y == [at |-> "answered", match |-> r.match, cut |-> r.cut,
                 status |-> IF more THEN "partial" ELSE "available",
                 first |-> r.first, shown |-> InWindow(rows)]
<1>1. /\ r.at = "transfer_desk" /\ IsLookup(r) /\ DeskHolds(catalog.team, r) /\ r.at \in Stages(l)
      /\ catalog.team \in Seq(Transfer) /\ Descends(catalog.team)
  BY DEF TransferPageArrives, LookupsHold, LookupsFit, Holds, ListsHold
<1>2. l # "signals"
  BY <1>1 DEF Stages, MatchCapabilities
<1>3. Steps(l, IF ~(Parsed(rows) /\ InOrder(rows)) THEN Refused
               ELSE IF more /\ r.page < MaxPages THEN x ELSE y)
  BY Zenon DEF TransferPageArrives
<1>4. /\ rows \in Seq(Transfer)
      /\ \A i \in DOMAIN r.first :
            Read(rows, r.first[i]) \/ StillAhead(catalog.team, r.page + 1, r.first[i])
  BY <1>1, DeskReads
<1>5. InOrder(rows) => ShownHolds(y)
  <2> SUFFICES ASSUME InOrder(rows) PROVE ShownHolds(y)
    OBVIOUS
  <2>1. \A p, q \in InWindow(rows) : p[2].id = q[2].id => p = q
    BY <1>4, ShownOnce
  <2>2. ASSUME ~more, NEW i \in DOMAIN r.first, r.first[i].day \in Window
        PROVE  \E p \in InWindow(rows) : p[2] = r.first[i]
    BY <1>1, <2>2, DeskEnds
  <2> HIDE DEF more, rows, r
  <2>3. /\ y.shown = InWindow(rows) /\ y.first = r.first
        /\ y.status = "available" => ~more
    OBVIOUS
  <2> QED BY <2>1, <2>2, <2>3 DEF ShownHolds
<1>6. y.at = "answered"
  OBVIOUS
<1> HIDE DEF y
<1>7. InOrder(rows) => Holds(catalog.day, catalog.team, l, y)
  BY <1>2, <1>5, <1>6 DEF Holds, Stages, MatchCapabilities
<1> HIDE DEF rows, more, r
<1>8. /\ {"page", "rows", "first"} \subseteq DOMAIN x
      /\ x.at = "transfer_desk" /\ x.page = r.page + 1 /\ x.rows = rows /\ x.first = r.first
  BY <1>1 DEF IsLookup, DeskHolds
<1> HIDE DEF x
<1>9. Holds(catalog.day, catalog.team, l, x)
  <2>1. DeskHolds(catalog.team, x)
    BY <1>1, <1>4, <1>8 DEF DeskHolds
  <2> QED BY <1>1, <1>8, <2>1 DEF Holds, MatchCapabilities
<1> QED BY <1>3, <1>7, <1>9, StepHolds, RefusedHolds

\* No step of a lookup breaks what lookups rely on.
LEMMA LookupNextHolds ==
    ASSUME LookupsHold, NEW l \in Lookups, LookupNext(l)
    PROVE  LookupsHold'
<1>1. LookupsFit'
  BY LookupNextFits DEF LookupsHold
<1>2. catalog' = catalog
  BY DEF LookupNext, LookupBegins, LookupReadsSettings, LookupReadsToken, LookupAsks, LookupHears,
         Still
<1>3. CASE LookupHears(l)
  <2>1. CASE FailureEnds(l)
    BY <1>1, <1>2, <2>1, StepHolds, RefusedHolds DEF FailureEnds
  <2> QED BY <1>1, <1>2, <1>3, <2>1, FixturePageHold, FeedHolds, TransferPageHold, MutedHolds
          DEF LookupHears
<1> QED BY <1>1, <1>2, <1>3, BeginsHold, ReadsSettingsHold, ReadsTokenHold, AsksHold DEF LookupNext

\* A cancellation changes what nothing relies on.
LEMMA CancelsHold ==
    ASSUME LookupsHold, LookupsFit', catalog' = catalog, Cancels
    PROVE  LookupsHold'
<1>1. ASSUME NEW l \in Lookups
      PROVE  Holds(catalog.day, catalog.team, l, lookup'[l])
  <2> DEFINE r == lookup[l]
             x == [r EXCEPT !.cut = TRUE]
  <2>1. lookup'[l] = IF UnderWay(l) THEN x ELSE r
    BY DEF Cancels
  <2>2. IsLookup(r) /\ Holds(catalog.day, catalog.team, l, r)
    BY DEF LookupsHold, LookupsFit
  <2>3. UnderWay(l) => r.at # "answered"
    BY DEF UnderWay
  <2> HIDE DEF r
  <2>4. /\ DOMAIN x = DOMAIN r /\ x.at = r.at
        /\ "match" \in DOMAIN r => x.match = r.match
        /\ "page" \in DOMAIN r => x.page = r.page
        /\ "found" \in DOMAIN r => x.found = r.found
        /\ "rows" \in DOMAIN r => x.rows = r.rows
        /\ "feeds" \in DOMAIN r => x.feeds = r.feeds
        /\ "first" \in DOMAIN r => x.first = r.first
    BY <2>2 DEF IsLookup
  <2> HIDE DEF x
  <2>5. SearchHolds(catalog.day, r) => SearchHolds(catalog.day, x)
    BY <2>4 DEF SearchHolds
  <2>6. DeskHolds(catalog.team, r) => DeskHolds(catalog.team, x)
    BY <2>4 DEF DeskHolds
  <2>7. FeedsHold(r) => FeedsHold(x)
    BY <2>4 DEF FeedsHold
  <2> QED BY <2>1, <2>2, <2>3, <2>4, <2>5, <2>6, <2>7 DEF Holds
<1> QED BY <1>1 DEF LookupsHold, ListsHold

\* Nor do the settings, the key and the provider's lists.
LEMMA ProviderChangesHold ==
    ASSUME LookupsHold, ProviderChanges
    PROVE  LookupsHold'
<1>1. LookupsFit'
  BY ProviderChangesFit DEF LookupsHold
<1>2. CASE ConfigureCancels \/ DeleteCancels
  BY <1>1, <1>2, CancelsHold DEF ConfigureCancels, DeleteCancels
<1>3. CASE ProviderLists
  <2>1. ListsHold' /\ Grows(catalog.day, catalog'.day) /\ Grows(catalog.team, catalog'.team)
    BY <1>3, ListsGrow DEF LookupsHold
  <2>2. lookup' = lookup
    BY <1>3 DEF ProviderLists
  <2>3. ASSUME NEW l \in Lookups PROVE Holds(catalog'.day, catalog'.team, l, lookup'[l])
    BY <2>1, <2>2, HoldsLater DEF LookupsHold, ListsHold
  <2> QED BY <1>1, <2>1, <2>3 DEF LookupsHold
<1>4. CASE UNCHANGED <<lookup, catalog>>
  BY <1>1, <1>4 DEF LookupsHold, ListsHold
<1> QED
  BY <1>2, <1>3, <1>4
  DEF ProviderChanges, ConfigureReads, ConfigureSaves, SettingsAreLost, KeyIsSaved, DeleteEnds

\* Whatever the order in which the lists grow between two pages (_find_fixture and
\* _transfers, sportmonks.py:676-741, 1386-1463), the settings and the key change and a
\* request fails: of the fixtures listed when the search began the one a lookup is answered
\* for is the only one that fits the match, a bookmaker is shown only with one live price
\* for each outcome (_odds, 850-945), the transfers of the window are each shown once and
\* all of them unless the answer says it is partial, and a cancelled lookup stays silent.
THEOREM LookupsAreHonest == ProviderSpec => []LookupIsHonest
<1>1. ProviderInit => LookupsHold
  <2> SUFFICES ASSUME ProviderInit PROVE LookupsHold
    OBVIOUS
  <2>1. lookup = [l \in Lookups |-> Refused] /\ catalog \in [day : DayLists, team : TransferLists]
    BY DEF ProviderInit
  <2>2. LookupsFit
    BY <2>1, RefusedFits DEF LookupsFit
  <2>3. ListsHold
    BY <2>1, ProviderAssumption DEF ListsHold, Descends
  <2> QED BY <2>1, <2>2, <2>3, RefusedHolds DEF LookupsHold
<1>2. LookupsHold /\ [ProviderChanges \/ \E l \in Lookups : LookupNext(l)]_providerVars
          => LookupsHold'
  <2> SUFFICES ASSUME LookupsHold,
                      [ProviderChanges \/ \E l \in Lookups : LookupNext(l)]_providerVars
               PROVE  LookupsHold'
    OBVIOUS
  <2>1. CASE UNCHANGED providerVars
    BY <2>1 DEF LookupsHold, LookupsFit, ListsHold, providerVars
  <2> QED BY <2>1, ProviderChangesHold, LookupNextHolds
<1>3. LookupsHold => LookupIsHonest
  <2> SUFFICES ASSUME LookupsHold PROVE LookupIsHonest
    OBVIOUS
  <2>1. CancelledStaysSilent
    BY DEF LookupsHold, LookupsFit, IsLookup, CancelledStaysSilent, Answered
  <2>2. ASSUME NEW l \in Lookups, Answered(l)
        PROVE  /\ l = "signals" => FixtureIsTheOnlyOne(l) /\ OddsAreWhole(l)
               /\ l = "transfers" => TransfersAreComplete(l)
    <3>1. IF l = "signals" THEN FeedsHold(lookup[l]) ELSE ShownHolds(lookup[l])
      BY <2>2 DEF LookupsHold, Holds, Answered
    <3>2. CASE l = "signals"
      BY <3>1, <3>2 DEF FeedsHold, OnlyOne, OddsHold, OneEach, FixtureIsTheOnlyOne, OddsAreWhole
    <3>3. CASE l # "signals"
      BY <3>1, <3>3 DEF ShownHolds, TransfersAreComplete
    <3> QED BY <3>2, <3>3
  <2> QED BY <2>1, <2>2 DEF LookupIsHonest
<1> QED BY <1>1, <1>2, <1>3, PTL DEF ProviderSpec

-------------------------------------------------------------------------------
(* The least of sets and of numbers. *)

\* A set that is not empty, of subsets of a finite set, has a least one; and so has one of
\* numbers.
LEMMA LeastSubset ==
    ASSUME NEW S, IsFiniteSet(S), NEW C, C \subseteq SUBSET S, C # {}
    PROVE  \E T \in C : \A U \in C : U \subseteq T => U = T
<1>1. IsWellFoundedOn(StrictSubsetOrdering(S), SUBSET S)
  BY FS_StrictSubsetOrderingWellFounded, FS_FiniteSubsetsOfFinite
<1>2. PICK T \in C : \A U \in C : ~(<<U, T>> \in StrictSubsetOrdering(S))
  BY <1>1, WFMin
<1> QED BY <1>2 DEF StrictSubsetOrdering

LEMMA LeastNumber ==
    ASSUME NEW C, C \subseteq Nat, C # {}
    PROVE  \E n \in C : \A m \in C : n <= m
<1> DEFINE R == {p \in Nat \X Nat : p[1] < p[2]}
<1>1. IsWellFoundedOn(R, Nat)
  BY NatLessThanWellFounded DEF OpToRel
<1>2. PICK n \in C : \A m \in C : ~(<<m, n>> \in R)
  <2> HIDE DEF R
  <2> QED BY <1>1, WFMin
<1>3. \A m \in C : ~(m < n)
  <2> SUFFICES ASSUME NEW m \in C, m < n PROVE FALSE
    OBVIOUS
  <2>1. <<m, n>> \in R
    BY <1>2
  <2> QED BY <1>2, <2>1
<1>4. \A m \in C : n <= m
  BY <1>2, <1>3
<1> QED BY <1>2, <1>4

-------------------------------------------------------------------------------
(* Numbers, masks and the last rows. *)

LEMMA GreatestNumber ==
    ASSUME NEW n \in Nat, NEW C, C \subseteq 0 .. n, C # {}
    PROVE  Max(C) \in C /\ \A m \in C : m <= Max(C)
<1> DEFINE D == {n - m : m \in C}
<1>1. D \subseteq Nat /\ D # {}
  OBVIOUS
<1>2. PICK d \in D : \A e \in D : d <= e
  <2> HIDE DEF D
  <2> QED BY <1>1, LeastNumber
<1>3. PICK k \in C : d = n - k
  BY <1>2
<1>4. \A m \in C : m <= k
  <2> SUFFICES ASSUME NEW m \in C PROVE m <= k
    OBVIOUS
  <2>1. n - m \in D
    OBVIOUS
  <2> HIDE DEF D
  <2> QED BY <1>2, <1>3, <2>1
<1>5. \A x, y \in C : x >= y <=> y <= x
  OBVIOUS
<1> HIDE DEF D
<1> QED BY <1>3, <1>4, <1>5, Zenon DEF Max

LEMMA GreaterOfTwo ==
    ASSUME NEW a \in Int, NEW b \in Int
    PROVE  Max({a, b}) = (IF a > b THEN a ELSE b) /\ Min({a, b}) = (IF a < b THEN a ELSE b)
BY DEF Max, Min

\* Places a .. b, counted.
LEMMA IntervalCounts ==
    ASSUME NEW m \in Nat, NEW n \in 0 .. m
    PROVE  IsFiniteSet(m - n + 1 .. m) /\ Cardinality(m - n + 1 .. m) = n
<1>1. m - n + 1 \in Int /\ m \in Int
  OBVIOUS
<1>2. IF m - n + 1 > m THEN n = 0 ELSE m - (m - n + 1) + 1 = n
  OBVIOUS
<1> QED BY <1>1, <1>2, FS_Interval

LEMMA PlacesCount ==
    ASSUME NEW m \in Nat, NEW J, J \subseteq 1 .. m
    PROVE  /\ IsFiniteSet(J) /\ Cardinality(J) \in Nat /\ Cardinality(J) <= m
           /\ \A n \in 0 .. m : m - n + 1 .. m \subseteq J => n <= Cardinality(J)
<1>1. IsFiniteSet(1 .. m) /\ Cardinality(1 .. m) = m
  BY FS_Interval
<1>2. IsFiniteSet(J) /\ Cardinality(J) \in Nat /\ Cardinality(J) <= m
  BY <1>1, FS_Subset, FS_CardinalityType
<1>3. ASSUME NEW n \in 0 .. m, m - n + 1 .. m \subseteq J PROVE n <= Cardinality(J)
  BY <1>2, <1>3, FS_Subset, IntervalCounts
<1> QED BY <1>2, <1>3

\* Of each rank a mask has a place.
LEMMA RankExists ==
    ASSUME NEW n \in Nat, NEW I, I \subseteq 1 .. n, NEW k \in 1 .. Cardinality(I)
    PROVE  \E i \in I : Rank(I, i) = k
<1> DEFINE C == {i \in I : Rank(I, i) >= k}
           Below(i) == {j \in I : j <= i}
<1>1. IsFiniteSet(I) /\ Cardinality(I) \in Nat
  BY PlacesCount
<1>2. I \subseteq Nat
  OBVIOUS
<1>3. \A i : IsFiniteSet(Below(i)) /\ Rank(I, i) \in Nat /\ Rank(I, i) = Cardinality(Below(i))
  BY <1>1, FS_Subset, FS_CardinalityType DEF Rank
<1>4. C # {}
  <2>1. I # {}
    BY <1>1, FS_EmptySet
  <2>2. I \subseteq 0 .. n
    OBVIOUS
  <2>3. Max(I) \in I /\ \A m \in I : m <= Max(I)
    BY <2>1, <2>2, GreatestNumber
  <2>4. Below(Max(I)) = I
    BY <2>3
  <2>5. Rank(I, Max(I)) = Cardinality(I)
    BY <1>3, <2>4
  <2> QED BY <1>1, <2>3, <2>5
<1>5. PICK i \in C : \A m \in C : i <= m
  <2>1. C \subseteq I /\ I \subseteq Nat
    BY <1>2, Zenon
  <2> HIDE DEF C
  <2> QED BY <1>4, <2>1, LeastNumber
<1>6. i \in I /\ Rank(I, i) \in Nat /\ Rank(I, i) >= k
  BY <1>3, <1>5
<1>7. SUFFICES ASSUME Rank(I, i) > k PROVE FALSE
  BY <1>6
<1> DEFINE B == Below(i) \ {i}
<1>8. Cardinality(B) = Rank(I, i) - 1 /\ IsFiniteSet(B)
  <2>1. i \in Below(i)
    BY <1>6
  <2>2. IsFiniteSet(Below(i)) /\ Cardinality(Below(i)) = Rank(I, i)
    BY <1>3
  <2> HIDE DEF Below
  <2> QED BY <2>1, <2>2, FS_RemoveElement
<1>9. B # {}
  <2>1. Cardinality(B) # 0
    BY <1>6, <1>7, <1>8
  <2> QED BY <2>1, FS_EmptySet
<1>10. B \subseteq 0 .. n
  <2>1. B \subseteq I
    OBVIOUS
  <2> HIDE DEF B
  <2> QED BY <2>1
<1> DEFINE h == Max(B)
<1>11. h \in B /\ \A m \in B : m <= h
  <2> HIDE DEF B
  <2> QED BY <1>9, <1>10, GreatestNumber
<1> HIDE DEF h
<1>12. h \in I /\ h < i
  BY <1>6, <1>11
<1>13. Below(h) = B
  <2>1. \A m \in B : m \in I /\ m <= h
    BY <1>11
  <2>2. \A m \in I : m <= h => m \in B
    BY <1>6, <1>12
  <2> HIDE DEF B
  <2> QED BY <2>1, <2>2
<1>14. Rank(I, h) = Rank(I, i) - 1
  BY <1>3, <1>8, <1>13
<1>15. h \in C
  BY <1>6, <1>7, <1>12, <1>14
<1>16. i <= h
  <2> HIDE DEF C
  <2> QED BY <1>5, <1>15
<1> QED BY <1>6, <1>12, <1>16

\* A table is a sequence of rows, whatever the rows are.
IsTable(s) == \E S : s \in Seq(S)

LEMMA TableFits ==
    ASSUME NEW s, IsTable(s)
    PROVE  Len(s) \in Nat /\ DOMAIN s = 1 .. Len(s)
BY DEF IsTable

LEMMA MakesTable ==
    ASSUME NEW n \in Nat, NEW s, DOMAIN s = 1 .. n, s = [i \in 1 .. n |-> s[i]]
    PROVE  IsTable(s) /\ Len(s) = n
<1> DEFINE S == {s[i] : i \in 1 .. n}
<1>1. s \in [1 .. n -> S]
  OBVIOUS
<1>2. s \in Seq(S)
  BY <1>1, SeqDef
<1>3. Len(s) = n
  BY <1>2
<1> QED BY <1>2, <1>3 DEF IsTable

LEMMA PickedFits ==
    ASSUME NEW s, IsTable(s), NEW I, I \subseteq DOMAIN s
    PROVE  /\ IsTable(Picked(s, I)) /\ Len(Picked(s, I)) = Cardinality(I)
           /\ \A k \in DOMAIN Picked(s, I) : \E i \in I : Picked(s, I)[k] = s[i]
<1> DEFINE n == Cardinality(I)
           p == Picked(s, I)
           At(k) == CHOOSE i \in I : Rank(I, i) = k
<1>1. n \in Nat /\ Len(s) \in Nat /\ I \subseteq 1 .. Len(s)
  BY TableFits, PlacesCount
<1>2. p = [k \in 1 .. n |-> s[At(k)]]
  BY DEF Picked
<1>3. \A k \in 1 .. n : At(k) \in I
  <2> SUFFICES ASSUME NEW k \in 1 .. n PROVE At(k) \in I
    OBVIOUS
  <2>1. \E i \in I : Rank(I, i) = k
    BY <1>1, RankExists
  <2> QED BY <2>1
<1> HIDE DEF p, n, At
<1>4. DOMAIN p = 1 .. n /\ p = [k \in 1 .. n |-> p[k]] /\ \A k \in 1 .. n : p[k] = s[At(k)]
  BY <1>2
<1>5. IsTable(p) /\ Len(p) = n
  BY <1>1, <1>4, MakesTable
<1> QED BY <1>3, <1>4, <1>5 DEF p, n

\* The last n rows, or all there are.
LEMMA LatestFits ==
    ASSUME NEW s, IsTable(s), NEW n \in Nat,
           NEW m \in 0 .. Len(s), m = n \/ (m = Len(s) /\ m < n)
    PROVE  /\ IsTable(Latest(s, n)) /\ Len(Latest(s, n)) = m
           /\ \A i \in 1 .. m : Latest(s, n)[i] = s[Len(s) - m + i]
<1>1. PICK S : s \in Seq(S)
  BY DEF IsTable
<1>2. PICK len \in Nat : len = Len(s)
  BY <1>1
<1>3. m \in 0 .. len /\ (m = n \/ (m = len /\ len < n))
  BY <1>2
<1> DEFINE first == len - m + 1
<1>4. first \in 1 .. len + 1 /\ first = len - m + 1
  BY <1>3
<1> HIDE DEF first
<1>5. Max({1, len - n + 1}) = first
  <2> DEFINE x == len - n + 1
  <2>1. x \in Int /\ x = len - n + 1
    BY <1>2
  <2> HIDE DEF x
  <2>2. Max({1, x}) = IF 1 > x THEN 1 ELSE x
    <3>1. 1 \in Int /\ x \in Int
      BY <2>1
    <3> QED BY <3>1, GreaterOfTwo, Zenon
  <2>3. CASE m = n
    <3>1. first = x /\ ~(1 > x)
      BY <1>3, <1>4, <2>1, <2>3
    <3> QED BY <2>1, <2>2, <3>1
  <2>4. CASE m = len /\ len < n
    <3>1. first = 1 /\ 1 > x
      BY <1>3, <1>4, <2>1, <2>4
    <3> QED BY <2>1, <2>2, <3>1
  <2> QED BY <1>3, <2>3, <2>4
<1>6. Latest(s, n) = SubSeq(s, first, len)
  BY <1>2, <1>5 DEF Latest
<1>7. /\ SubSeq(s, first, len) \in Seq(S) /\ Len(SubSeq(s, first, len)) = len - first + 1
      /\ \A i \in 1 .. len - first + 1 : SubSeq(s, first, len)[i] = s[first + i - 1]
  BY <1>1, <1>2, <1>4, SubSeqProperties
<1>8. len - first + 1 = m /\ \A i \in Nat : first + i - 1 = len - m + i
  BY <1>2, <1>3, <1>4
<1>9. IsTable(Latest(s, n)) /\ Len(Latest(s, n)) = m
  BY <1>6, <1>7, <1>8 DEF IsTable
<1>10. ASSUME NEW i \in 1 .. m PROVE Latest(s, n)[i] = s[Len(s) - m + i]
  <2>1. i \in Nat /\ i \in 1 .. len - first + 1
    BY <1>3, <1>8
  <2> QED BY <1>2, <1>6, <1>7, <1>8, <2>1
<1>11. m \in 0 .. Len(s)
  BY <1>2, <1>3
<1> QED BY <1>9, <1>10, <1>11, Zenon

\* A run is of rows of the mask, and as long as such can be.
LEMMA LongestFits ==
    ASSUME NEW n \in Nat, NEW I
    PROVE  LET k == Longest(n, I)
           IN  /\ k \in 0 .. n /\ n - k + 1 .. n \subseteq I
               /\ \A j \in 0 .. n : n - j + 1 .. n \subseteq I => j <= k
<1> DEFINE C == {k \in 0 .. n : n - k + 1 .. n \subseteq I}
<1>1. n - 0 + 1 .. n \subseteq I
  OBVIOUS
<1>2. 0 \in C
  BY <1>1
<1>3. C \subseteq 0 .. n
  OBVIOUS
<1>4. Max(C) \in C /\ \A m \in C : m <= Max(C)
  <2> HIDE DEF C
  <2> QED BY <1>2, <1>3, GreatestNumber
<1>5. Longest(n, I) = Max(C)
  BY DEF Longest
<1> QED BY <1>4, <1>5

\* Longer where the mask has more.
LEMMA LongerRun ==
    ASSUME NEW n \in Nat, NEW I, NEW J, I \subseteq J
    PROVE  Longest(n, I) <= Longest(n, J)
<1> DEFINE k == Longest(n, I)
<1>1. k \in 0 .. n /\ n - k + 1 .. n \subseteq I
  BY LongestFits
<1> HIDE DEF k
<1>2. n - k + 1 .. n \subseteq J
  BY <1>1
<1>3. k <= Longest(n, J)
  BY <1>1, <1>2, LongestFits
<1> QED BY <1>3 DEF k

LEMMA TrailingRunFits ==
    ASSUME NEW s, IsTable(s), NEW I, NEW k, k = Longest(Len(s), I)
    PROVE  /\ IsTable(Latest(s, k)) /\ Len(Latest(s, k)) = k /\ k \in 0 .. Len(s)
           /\ \A i \in 1 .. k : Latest(s, k)[i] = s[Len(s) - k + i]
           /\ Len(s) - k + 1 .. Len(s) \subseteq I
<1>1. Len(s) \in Nat
  BY TableFits
<1>2. k \in 0 .. Len(s) /\ Len(s) - k + 1 .. Len(s) \subseteq I
  BY <1>1, LongestFits
<1>3. k \in Nat
  BY <1>1, <1>2
<1> QED BY <1>2, <1>3, LatestFits

\* Among the last m rows a mask of the table has the last n of them, if it has the last n.
LEMMA LastOnesCount ==
    ASSUME NEW len \in Nat, NEW m \in 0 .. len, NEW n \in 0 .. m, NEW I,
           len - n + 1 .. len \subseteq I,
           NEW J, J \subseteq 1 .. m, \A i \in 1 .. m : len - m + i \in I => i \in J
    PROVE  n <= Cardinality(J)
<1>1. m - n + 1 .. m \subseteq J
  <2> SUFFICES ASSUME NEW i \in m - n + 1 .. m PROVE i \in J
    OBVIOUS
  <2>1. i \in 1 .. m /\ len - m + i \in len - n + 1 .. len
    OBVIOUS
  <2> QED BY <2>1
<1>2. m \in Nat
  OBVIOUS
<1> QED BY <1>1, <1>2, PlacesCount

\* A mask of the last rows.
LEMMA MaskOfLast ==
    ASSUME NEW s, IsTable(s), NEW m \in 0 .. Len(s), NEW l, DOMAIN l = 1 .. m,
           \A i \in 1 .. m : l[i] = s[Len(s) - m + i]
    PROVE  /\ \A i \in 1 .. m : Len(s) - m + i \in Mask(s, IsWin) => i \in Mask(l, IsWin)
           /\ \A i \in 1 .. m : Len(s) - m + i \in Mask(s, IsDraw) => i \in Mask(l, IsDraw)
           /\ \A i \in 1 .. m : Len(s) - m + i \in Mask(s, KeptClean) => i \in Mask(l, KeptClean)
<1> USE DEF Mask
<1>1. \A i \in 1 .. m : Len(s) - m + i \in DOMAIN s
  BY TableFits
<1>2. \A i \in 1 .. m : IsWin(s[Len(s) - m + i]) => IsWin(l[i])
  OBVIOUS
<1>3. \A i \in 1 .. m : IsDraw(s[Len(s) - m + i]) => IsDraw(l[i])
  OBVIOUS
<1>4. \A i \in 1 .. m : KeptClean(s[Len(s) - m + i]) => KeptClean(l[i])
  OBVIOUS
<1> QED BY <1>1, <1>2, <1>3, <1>4

\* The last rows of those with at least as many.
LEMMA CountsOfLast ==
    ASSUME NEW s, IsTable(s), NEW m \in 0 .. Len(s), NEW l, IsTable(l), Len(l) = m,
           \A i \in 1 .. m : l[i] = s[Len(s) - m + i], NEW n \in 0 .. m
    PROVE  /\ Len(s) - n + 1 .. Len(s) \subseteq Mask(s, IsWin) => n <= CountIf(l, IsWin)
           /\ Len(s) - n + 1 .. Len(s) \subseteq Mask(s, IsDraw) => n <= CountIf(l, IsDraw)
           /\ Len(s) - n + 1 .. Len(s) \subseteq Mask(s, KeptClean) => n <= CountIf(l, KeptClean)
<1>1. Len(s) \in Nat /\ DOMAIN l = 1 .. m
  BY TableFits
<1>2. Mask(l, IsWin) \subseteq 1 .. m /\ Mask(l, IsDraw) \subseteq 1 .. m
      /\ Mask(l, KeptClean) \subseteq 1 .. m
  BY <1>1 DEF Mask
<1>3. /\ \A i \in 1 .. m : Len(s) - m + i \in Mask(s, IsWin) => i \in Mask(l, IsWin)
      /\ \A i \in 1 .. m : Len(s) - m + i \in Mask(s, IsDraw) => i \in Mask(l, IsDraw)
      /\ \A i \in 1 .. m : Len(s) - m + i \in Mask(s, KeptClean) => i \in Mask(l, KeptClean)
  BY <1>1, MaskOfLast
<1>4. Len(s) - n + 1 .. Len(s) \subseteq Mask(s, IsWin) => n <= Cardinality(Mask(l, IsWin))
  BY <1>1, <1>2, <1>3, LastOnesCount
<1>5. Len(s) - n + 1 .. Len(s) \subseteq Mask(s, IsDraw) => n <= Cardinality(Mask(l, IsDraw))
  BY <1>1, <1>2, <1>3, LastOnesCount
<1>6. Len(s) - n + 1 .. Len(s) \subseteq Mask(s, KeptClean) => n <= Cardinality(Mask(l, KeptClean))
  BY <1>1, <1>2, <1>3, LastOnesCount
<1> QED BY <1>4, <1>5, <1>6 DEF CountIf

-------------------------------------------------------------------------------
(* What the templates of the notebook read. *)

IsGame(g) == g.hs \in Nat /\ g.as \in Nat /\ g.day \in Nat /\ IsFiniteSet(g.goals)
IsSeen(r) == r.gf \in Nat /\ r.ga \in Nat /\ r.day \in Nat
GameTable(rows) == IsTable(rows) /\ \A i \in DOMAIN rows : IsGame(rows[i])
SeenTable(rows) == IsTable(rows) /\ \A i \in DOMAIN rows : IsSeen(rows[i])

LEMMA MaskOfRows ==
    ASSUME NEW rows, IsTable(rows), NEW I, I \subseteq DOMAIN rows
    PROVE  /\ GameTable(rows) => GameTable(Picked(rows, I))
           /\ SeenTable(rows) => SeenTable(Picked(rows, I))
BY PickedFits DEF GameTable, SeenTable

LEMMA OwnGamesFit ==
    ASSUME GameTable(games)
    PROVE  GameTable(OwnGames)
<1> DEFINE I == Mask(games, LAMBDA g : g.source = fixture.source)
<1>1. I \subseteq DOMAIN games
  BY DEF Mask
<1>2. OwnGames = Picked(games, I)
  BY DEF OwnGames, Where
<1> HIDE DEF I
<1> QED BY <1>1, <1>2, MaskOfRows DEF GameTable

LEMMA PerspectiveFits ==
    ASSUME NEW rows, GameTable(rows), NEW t
    PROVE  SeenTable(Perspective(rows, t))
<1> DEFINE I == Mask(rows, LAMBDA g : t \in {g.home, g.away})
           mine == Picked(rows, I)
           SeenBy(g, atHome) ==
               [day |-> g.day, atHome |-> atHome, neutral |-> g.neutral, comp |-> g.comp,
                teams |-> <<g.home, g.away>>, ht |-> g.ht,
                gf |-> IF atHome THEN g.hs ELSE g.as, ga |-> IF atHome THEN g.as ELSE g.hs]
           p == [i \in DOMAIN mine |-> SeenBy(mine[i], mine[i].home = t)]
<1>1. Perspective(rows, t) = p
  BY DEF Perspective, Where
<1>2. I \subseteq DOMAIN rows
  BY DEF Mask
<1>3. GameTable(mine)
  <2> HIDE DEF I
  <2> QED BY <1>2, MaskOfRows DEF GameTable
<1>4. Len(mine) \in Nat /\ DOMAIN mine = 1 .. Len(mine)
  BY <1>3, TableFits DEF GameTable
<1> HIDE DEF mine
<1>5. IsTable(p)
  <2>1. DOMAIN p = 1 .. Len(mine) /\ p = [i \in 1 .. Len(mine) |-> p[i]]
    BY <1>4
  <2> HIDE DEF p
  <2> QED BY <1>4, <2>1, MakesTable
<1>6. \A i \in DOMAIN p : IsSeen(p[i])
  <2> SUFFICES ASSUME NEW i \in DOMAIN p PROVE IsSeen(p[i])
    OBVIOUS
  <2>1. IsGame(mine[i])
    BY <1>3 DEF GameTable
  <2> QED BY <2>1 DEF IsGame, IsSeen
<1> HIDE DEF p
<1> QED BY <1>1, <1>5, <1>6 DEF SeenTable

LEMMA MeetingsFit ==
    ASSUME NEW rows, GameTable(rows)
    PROVE  SeenTable(Meetings(rows))
<1> DEFINE I == Mask(rows, LAMBDA g : {g.home, g.away} = {fixture.home, fixture.away})
<1>1. I \subseteq DOMAIN rows
  BY DEF Mask
<1>2. Meetings(rows) = Perspective(Picked(rows, I), fixture.home)
  BY DEF Meetings, Where
<1> HIDE DEF I
<1>3. GameTable(Picked(rows, I))
  BY <1>1, MaskOfRows DEF GameTable
<1> QED BY <1>2, <1>3, PerspectiveFits

\* What a function has of a finite set is finite.
LEMMA ImageIsFinite ==
    ASSUME NEW f, IsFiniteSet(DOMAIN f)
    PROVE  IsFiniteSet({f[x] : x \in DOMAIN f})
<1> DEFINE T == {f[x] : x \in DOMAIN f}
           h == [x \in DOMAIN f |-> f[x]]
<1>1. h \in Surjection(DOMAIN f, T)
  BY DEF Surjection
<1> QED BY <1>1, FS_Surjection

\* The goals of finitely many games.
LEMMA GoalsAreFinite ==
    ASSUME NEW rows, GameTable(rows)
    PROVE  IsFiniteSet(GoalRows(rows))
<1> DEFINE GoalsOf(g) == {[day |-> g.day, teams |-> <<g.home, g.away>>, goal |-> x] : x \in g.goals}
           All == {GoalsOf(g) : g \in Range(rows)}
<1>1. Range(rows) = {rows[i] : i \in DOMAIN rows}
  BY DEF Range
<1>2. IsFiniteSet(DOMAIN rows)
  BY TableFits, FS_Interval DEF GameTable
<1>3. IsFiniteSet(Range(rows))
  BY <1>1, <1>2, ImageIsFinite
<1>4. ASSUME NEW g \in Range(rows) PROVE IsFiniteSet(GoalsOf(g))
  <2>1. IsFiniteSet(g.goals)
    BY <1>1 DEF GameTable, IsGame
  <2> DEFINE f == [x \in g.goals |-> [day |-> g.day, teams |-> <<g.home, g.away>>, goal |-> x]]
  <2>2. DOMAIN f = g.goals /\ GoalsOf(g) = {f[x] : x \in DOMAIN f}
    OBVIOUS
  <2> HIDE DEF f, GoalsOf
  <2> QED BY <2>1, <2>2, ImageIsFinite
<1>5. IsFiniteSet(All)
  <2> DEFINE f == [g \in Range(rows) |-> GoalsOf(g)]
  <2>1. DOMAIN f = Range(rows) /\ All = {f[x] : x \in DOMAIN f}
    OBVIOUS
  <2> HIDE DEF f, All
  <2> QED BY <1>3, <2>1, ImageIsFinite
<1>6. \A T \in All : IsFiniteSet(T)
  BY <1>4
<1>7. IsFiniteSet(UNION All)
  <2> HIDE DEF All
  <2> QED BY <1>5, <1>6, FS_UNION
<1>8. GoalRows(rows) = UNION All
  BY DEF GoalRows
<1> QED BY <1>7, <1>8

-------------------------------------------------------------------------------
(* What the templates propose. *)

\* A candidate is a record that cites the pack, as its template proposed it.
Fields == {"id", "about", "says", "n", "last", "weight", "source"}
IsNote(c) == DOMAIN c = Fields /\ c = [k \in Fields |-> c[k]] /\ c.source = Pack

\* Notes of a template, and of some of these.
IsNoteOf(c, id) == IsNote(c) /\ c.id = id
NotesOf(S, ids) == \A c \in S : \E id \in ids : IsNoteOf(c, id)

LEMMA CandidateIsNote ==
    ASSUME NEW id, NEW about, NEW says, NEW n, NEW last
    PROVE  IsNoteOf(Candidate(id, about, says, n, last), id)
<1> QED BY DEF Candidate, IsNoteOf, IsNote, Fields

LEMMA RecordIsNote ==
    ASSUME NEW id, NEW t, NEW s, NEW least, NEW keys
    PROVE  \A c \in Record(id, t, s, least, keys) : IsNoteOf(c, id)
<1> QED BY Zenon, CandidateIsNote DEF Record

FormIds == {"unbeaten_run", "winless_run", "win_streak", "clean_sheet_run"}
LEMMA FormIsNote == \A t, s : NotesOf(Form(t, s), FormIds)
<1> QED BY Zenon, RecordIsNote DEF Form, NotesOf, FormIds

LEMMA HomeAwayIsNote == \A t, s : NotesOf(HomeAwayForm(t, s), {"home_away_form"})
<1> QED BY Zenon, RecordIsNote DEF HomeAwayForm, NotesOf

LEMMA BiggestWinIsNote == \A t, s : NotesOf(BiggestWin(t, s), {"biggest_win"})
<1> SUFFICES ASSUME NEW t, NEW s, NEW c \in BiggestWin(t, s) PROVE IsNoteOf(c, "biggest_win")
  BY DEF NotesOf
<1> DEFINE wins == {i \in DOMAIN s : IsWin(s[i])}
           Bigger(i, j) ==
               LET a == s[i].gf - s[i].ga
                   b == s[j].gf - s[j].ga
               IN  a > b \/ (a = b /\ i >= j)
           best == s[CHOOSE i \in wins : \A j \in wins : Bigger(i, j)]
<1>1. c \in IF wins = {} THEN {}
           ELSE {Candidate("biggest_win", {t},
                           [goals_for |-> Times(best.gf), goals_against |-> Times(best.ga)],
                           Len(s), LastOf(s))}
  BY Zenon DEF BiggestWin
<1> HIDE DEF wins, best
<1> QED BY Zenon, <1>1, CandidateIsNote

LEMMA NeutralIsNote == \A t, s : NotesOf(NeutralRecord(t, s), {"neutral_venue_record"})
<1> QED BY Zenon, RecordIsNote DEF NeutralRecord, NotesOf

LEMMA TournamentIsNote == \A t, s : NotesOf(TournamentRecord(t, s), {"tournament_record"})
<1> QED BY Zenon, RecordIsNote DEF TournamentRecord, NotesOf

LEMMA SignatureIsNote == \A t, s : NotesOf(Signature(t, s), {"both_teams_scored_rate", "clean_sheet_rate"})
<1> QED BY Zenon, RecordIsNote DEF Signature, NotesOf

LEMMA ScoringIsNote == \A t, s : NotesOf(ScoringTrend(t, s), {"scoring_trend"})
<1> SUFFICES ASSUME NEW t, NEW s, NEW c \in ScoringTrend(t, s) PROVE IsNoteOf(c, "scoring_trend")
  BY DEF NotesOf
<1> DEFINE recent == Latest(s, Span.recent)
           before == Latest(SubSeq(s, 1, Len(s) - Span.recent), Span.baseline)
           says == [recent |-> Rate(GoalsFor(recent), Len(recent)),
                    games |-> Times(Len(recent)), base |-> Rate(GoalsFor(before), Len(before))]
           new == Candidate("scoring_trend", {t}, says, Len(s), LastOf(recent))
<1>1. c \in {new}
  BY Zenon DEF ScoringTrend
<1> HIDE DEF recent, says
<1> QED BY <1>1, CandidateIsNote

LEMMA HalfTimesIsNote == \A t, s : NotesOf(HalfTimes(t, s), {"ht_comeback_record", "ht_lead_conversion"})
<1> QED BY Zenon, RecordIsNote DEF HalfTimes, NotesOf

LEMMA ScorersAreNotes ==
    \A t, s, table : /\ NotesOf(TopScorer(t, table), {"top_scorer"})
                     /\ NotesOf(InFormScorer(t, s, table), {"in_form_scorer"})
<1>1. \A t, table : \A c \in TopScorer(t, table) : IsNoteOf(c, "top_scorer")
  BY Zenon, CandidateIsNote DEF TopScorer
<1>2. ASSUME NEW t, NEW s, NEW table, NEW c \in InFormScorer(t, s, table)
      PROVE  IsNoteOf(c, "in_form_scorer")
  <2> DEFINE recent == Latest(s, Span.form)
             keys == {<<r.day, r.teams>> : r \in Range(recent)}
             mine == {r \in Proper(table, t) : <<r.day, r.teams>> \in keys}
  <2>1. c \in IF s = <<>> \/ mine = {} THEN {}
             ELSE IF MostBy(mine) < Least.hot THEN {}
             ELSE {Candidate("in_form_scorer", {t},
                             [goals |-> Times(MostBy(mine)), games |-> Times(Len(recent))],
                             Len(recent), LastIn(mine))}
    BY <1>2, Zenon DEF InFormScorer
  <2> HIDE DEF recent, mine
  <2> QED BY Zenon, <2>1, CandidateIsNote
<1> QED BY <1>1, <1>2, Zenon DEF NotesOf

LEMMA GoalsAreNotes ==
    \A t, table : /\ NotesOf(GoalTiming(t, table), {"goal_timing_profile"})
                  /\ NotesOf(PenaltyShare(t, table), {"penalty_goal_share"})
<1>1. ASSUME NEW t, NEW table, NEW c \in GoalTiming(t, table)
      PROVE  IsNoteOf(c, "goal_timing_profile")
  <2> DEFINE timed == {r \in Proper(table, t) : r.goal.phase # "unknown"}
             n == Cardinality(timed)
             In(phase) == Cardinality({r \in timed : r.goal.phase = phase})
             Off(phase) == Max({6 * In(phase) - n, n - 6 * In(phase)})
             far == IF Off("opening") > Off("closing") THEN "opening" ELSE "closing"
  <2>1. c \in IF n < Least.timed \/ 100 * Off(far) < 72 * n THEN {}
             ELSE {Candidate("goal_timing_profile", {t},
                             [goals |-> Times(In(far)), timed |-> Times(n),
                              share |-> Rate(In(far), n)], n, LastIn(timed))}
    BY <1>1, Zenon DEF GoalTiming
  <2> HIDE DEF timed, n, In, Off, far
  <2> QED BY Zenon, <2>1, CandidateIsNote
<1>2. \A t, table : \A c \in PenaltyShare(t, table) :
          IsNoteOf(c, "penalty_goal_share")
  BY Zenon, CandidateIsNote DEF PenaltyShare
<1> QED BY <1>1, <1>2, Zenon DEF NotesOf

LEMMA ShootoutIsNote == \A t, rows : NotesOf(ShootoutRecord(t, rows), {"shootout_record"})
<1> QED BY Zenon, CandidateIsNote DEF ShootoutRecord, NotesOf

LEMMA WeightedIsNote ==
    ASSUME NEW c, NEW id, NEW whole, IsNoteOf(c, id)
    PROVE  IsNoteOf(Weighted(c, whole), id)
<1> DEFINE w == Min({24, (24 * c.n) \div whole})
<1>1. Weighted(c, whole) = [c EXCEPT !.weight = w]
  BY DEF Weighted
<1> HIDE DEF w
<1> QED BY <1>1 DEF IsNoteOf, IsNote, Fields

\* What a coincidence weighs is a number.
LEMMA WeightIsNumber ==
    ASSUME NEW c, IsNote(c), c.n \in Nat, NEW whole \in Nat \ {0}
    PROVE  Weighted(c, whole).weight \in Nat
<1> DEFINE x == (24 * c.n) \div whole
           w == Min({24, x})
<1>1. Weighted(c, whole) = [c EXCEPT !.weight = w]
  BY DEF Weighted
<1>2. w \in Nat
  <2>1. x \in Nat
    <3>1. 24 * c.n \in Nat
      OBVIOUS
    <3> QED BY <3>1
  <2>2. 24 \in Int /\ x \in Int
    BY <2>1
  <2> HIDE DEF x
  <2>3. w = IF 24 < x THEN 24 ELSE x
    BY <2>2, GreaterOfTwo, Zenon
  <2> QED BY <2>1, <2>3
<1> HIDE DEF w
<1> QED BY <1>1, <1>2 DEF IsNote, Fields

LEMMA QuirksAreNotes ==
    \A t, s, table : /\ NotesOf(WeekdayQuirk(t, s), {"day_of_week_streak"})
                     /\ NotesOf(CalendarQuirk(t, s), {"calendar_date_repeat"})
                     /\ NotesOf(OwnGoalQuirk(t, table), {"own_goal_quirk"})
<1>1. \A t, s : \A c \in WeekdayQuirk(t, s) : IsNoteOf(c, "day_of_week_streak")
  BY Zenon, RecordIsNote, WeightedIsNote DEF WeekdayQuirk
<1>2. \A t, s : \A c \in CalendarQuirk(t, s) : IsNoteOf(c, "calendar_date_repeat")
  BY Zenon, RecordIsNote, WeightedIsNote DEF CalendarQuirk
<1>3. ASSUME NEW t, NEW table, NEW c \in OwnGoalQuirk(t, table)
      PROVE  IsNoteOf(c, "own_goal_quirk")
  <2> DEFINE own == {r \in table : r.goal.team = t /\ r.goal.own}
             n == Cardinality(own)
             d == Candidate("own_goal_quirk", {t}, [own |-> Times(n)], n, LastIn(own))
  <2>1. c = Weighted(d, 12)
    BY <1>3 DEF OwnGoalQuirk
  <2>2. IsNoteOf(d, "own_goal_quirk")
    BY CandidateIsNote, Zenon
  <2> HIDE DEF d
  <2> QED BY <2>1, <2>2, WeightedIsNote
<1> QED BY <1>1, <1>2, <1>3, Zenon DEF NotesOf

LEMMA MeetingsAreNotes ==
    \A s : /\ NotesOf(HeadToHeadRecord(s), {"head_to_head_record"})
           /\ NotesOf(HeadToHeadGoals(s), {"head_to_head_goals"})
           /\ NotesOf(ScorelineRepeat(s), {"scoreline_repeat"})
<1>1. \A id, says, s, n : IsNoteOf(Between(id, says, s, n), id)
  BY CandidateIsNote DEF Between
<1>2. \A s : \A c \in HeadToHeadRecord(s) : IsNoteOf(c, "head_to_head_record")
  BY Zenon, <1>1 DEF HeadToHeadRecord
<1>3. \A s : \A c \in HeadToHeadGoals(s) : IsNoteOf(c, "head_to_head_goals")
  BY Zenon, <1>1 DEF HeadToHeadGoals
<1>4. ASSUME NEW s, NEW c \in ScorelineRepeat(s) PROVE IsNoteOf(c, "scoreline_repeat")
  <2> DEFINE last == s[Len(s)]
             same == CountIf(s, LAMBDA r : {r.gf, r.ga} = {last.gf, last.ga})
             says == Joined(LastScore(s), [repeats |-> Times(same), games |-> Times(Len(s))])
             d == Between("scoreline_repeat", says, s, same)
  <2>1. c = Weighted(d, Len(s))
    BY <1>4 DEF ScorelineRepeat
  <2>2. IsNoteOf(d, "scoreline_repeat")
    BY <1>1, Zenon
  <2> HIDE DEF d
  <2> QED BY <2>1, <2>2, WeightedIsNote
<1> QED BY <1>2, <1>3, <1>4, Zenon DEF NotesOf

LEMMA CompetitionIsNote ==
    \A rows : NotesOf(CompetitionFacts(rows),
                      {"home_advantage_base_rate", "competition_debut_base_rate"})
<1> SUFFICES ASSUME NEW rows, NEW c \in CompetitionFacts(rows)
             PROVE  \/ IsNoteOf(c, "home_advantage_base_rate")
                    \/ IsNoteOf(c, "competition_debut_base_rate")
  BY DEF NotesOf
<1> DEFINE comp == Where(rows, LAMBDA g : g.comp = fixture.comp)
           fair == Where(comp, LAMBDA g : ~g.neutral)
           homeWins == CountIf(fair, LAMBDA g : g.hs > g.as)
           First(t) == Head(Perspective(comp, t)).day
           arrived == {t \in UNION {{g.home, g.away} : g \in Range(comp)} :
                          First(t) > Head(comp).day + Span.year}
           FirstYear(t) ==
               Where(Perspective(comp, t), LAMBDA r : r.day <= First(t) + Span.year)
           Sum(F(_)) == FoldSet(LAMBDA t, sum : sum + F(t), 0, arrived)
           total == Sum(LAMBDA t : Len(FirstYear(t)))
           wins == Sum(LAMBDA t : CountIf(FirstYear(t), IsWin))
           last == Max({LastOf(FirstYear(t)) : t \in arrived})
<1>1. c \in (IF fair = <<>> THEN {}
            ELSE {Candidate("home_advantage_base_rate", {fixture.comp},
                    [rate |-> Rate(homeWins, Len(fair)), games |-> Times(Len(fair))],
                    Len(fair), LastOf(fair))})
          \cup (IF comp = <<>> THEN {}
                ELSE IF Cardinality(arrived) < Least.debuts THEN {}
                ELSE {Candidate("competition_debut_base_rate", {fixture.comp},
                         [rate |-> Rate(wins, total), games |-> Times(total),
                          teams |-> Times(Cardinality(arrived))], total, last)})
  BY Zenon DEF CompetitionFacts
<1>2. ASSUME NEW S, NEW T, NEW p, NEW q, NEW v, NEW id1, NEW a1, NEW s1, NEW n1, NEW l1,
             NEW id2, NEW a2, NEW s2, NEW n2, NEW l2,
             S = (IF p THEN {} ELSE {Candidate(id1, a1, s1, n1, l1)}),
             T = (IF q THEN {} ELSE IF v THEN {} ELSE {Candidate(id2, a2, s2, n2, l2)}),
             c \in S \cup T
      PROVE  IsNoteOf(c, id1) \/ IsNoteOf(c, id2)
  BY Zenon, <1>2, CandidateIsNote
<1> HIDE DEF comp, fair, homeWins, arrived, total, wins, last
<1> QED BY Zenon, <1>1, <1>2

LEMMA ShooterIsNote == \A rows : NotesOf(FirstShooterEdge(rows), {"shootout_first_shooter_edge"})
<1> SUFFICES ASSUME NEW rows, NEW c \in FirstShooterEdge(rows)
             PROVE  IsNoteOf(c, "shootout_first_shooter_edge")
  BY DEF NotesOf
<1> DEFINE known == Where(Shootouts(rows), LAMBDA g : g.shoot.first # "unknown")
           won == CountIf(known, LAMBDA g : g.shoot.winner = g.shoot.first)
<1>1. c \in IF known = <<>> THEN {}
           ELSE {Candidate("shootout_first_shooter_edge", {fixture.comp},
                           [shootouts |-> Times(Len(known)), rate |-> Rate(won, Len(known))],
                           Len(known), LastOf(known))}
  BY Zenon DEF FirstShooterEdge
<1> HIDE DEF known, won
<1> QED BY Zenon, <1>1, CandidateIsNote

LEMMA NotesAreOf ==
    ASSUME NEW S, NEW ids, NotesOf(S, ids), NEW c \in S
    PROVE  IsNote(c) /\ c.id \in ids
BY DEF NotesOf, IsNoteOf

\* Which template a note comes from.
LEMMA GameNotes ==
    ASSUME NEW t, NEW s, NEW c \in OfGames(t, s)
    PROVE  /\ IsNote(c)
           /\ \/ (c.id \in FormIds /\ c \in Form(t, s))
              \/ c.id = "home_away_form"
              \/ (c.id = "biggest_win" /\ c \in BiggestWin(t, s))
              \/ c.id \in {"neutral_venue_record", "tournament_record", "scoring_trend"}
              \/ (c.id \in {"both_teams_scored_rate", "clean_sheet_rate"} /\ c \in Signature(t, s))
              \/ (c.id \in {"ht_comeback_record", "ht_lead_conversion"} /\ c \in HalfTimes(t, s))
              \/ (c.id = "day_of_week_streak" /\ c \in WeekdayQuirk(t, s))
              \/ (c.id = "calendar_date_repeat" /\ c \in CalendarQuirk(t, s))
<1>1. \/ c \in Form(t, s) \/ c \in HomeAwayForm(t, s) \/ c \in BiggestWin(t, s)
      \/ c \in NeutralRecord(t, s) \/ c \in TournamentRecord(t, s) \/ c \in Signature(t, s)
      \/ c \in ScoringTrend(t, s) \/ c \in HalfTimes(t, s) \/ c \in WeekdayQuirk(t, s)
      \/ c \in CalendarQuirk(t, s)
  BY DEF OfGames
<1>2. c \in Form(t, s) => IsNote(c) /\ c.id \in FormIds
  BY FormIsNote, NotesAreOf
<1>3. c \in HomeAwayForm(t, s) => IsNote(c) /\ c.id \in {"home_away_form"}
  BY HomeAwayIsNote, NotesAreOf
<1>4. c \in BiggestWin(t, s) => IsNote(c) /\ c.id \in {"biggest_win"}
  BY BiggestWinIsNote, NotesAreOf
<1>5. c \in NeutralRecord(t, s) => IsNote(c) /\ c.id \in {"neutral_venue_record"}
  BY NeutralIsNote, NotesAreOf
<1>6. c \in TournamentRecord(t, s) => IsNote(c) /\ c.id \in {"tournament_record"}
  BY TournamentIsNote, NotesAreOf
<1>7. c \in Signature(t, s) => IsNote(c) /\ c.id \in {"both_teams_scored_rate", "clean_sheet_rate"}
  BY SignatureIsNote, NotesAreOf
<1>8. c \in ScoringTrend(t, s) => IsNote(c) /\ c.id \in {"scoring_trend"}
  BY ScoringIsNote, NotesAreOf
<1>9. c \in HalfTimes(t, s) => IsNote(c) /\ c.id \in {"ht_comeback_record", "ht_lead_conversion"}
  BY HalfTimesIsNote, NotesAreOf
<1>10. c \in WeekdayQuirk(t, s) => IsNote(c) /\ c.id \in {"day_of_week_streak"}
  BY QuirksAreNotes, NotesAreOf
<1>11. c \in CalendarQuirk(t, s) => IsNote(c) /\ c.id \in {"calendar_date_repeat"}
  BY QuirksAreNotes, NotesAreOf
<1> QED BY <1>1, <1>2, <1>3, <1>4, <1>5, <1>6, <1>7, <1>8, <1>9, <1>10, <1>11

LEMMA GoalNotes ==
    ASSUME NEW t, NEW s, NEW table, NEW c \in OfGoals(t, s, table)
    PROVE  /\ IsNote(c)
           /\ \/ (c.id = "top_scorer" /\ c \in TopScorer(t, table))
              \/ (c.id = "in_form_scorer" /\ c \in InFormScorer(t, s, table))
              \/ c.id \in {"goal_timing_profile", "penalty_goal_share"}
              \/ (c.id = "own_goal_quirk" /\ c \in OwnGoalQuirk(t, table))
<1>1. \/ c \in TopScorer(t, table) \/ c \in InFormScorer(t, s, table) \/ c \in GoalTiming(t, table)
      \/ c \in PenaltyShare(t, table) \/ c \in OwnGoalQuirk(t, table)
  BY DEF OfGoals
<1>2. c \in TopScorer(t, table) => IsNote(c) /\ c.id \in {"top_scorer"}
  BY ScorersAreNotes, NotesAreOf
<1>3. c \in InFormScorer(t, s, table) => IsNote(c) /\ c.id \in {"in_form_scorer"}
  BY ScorersAreNotes, NotesAreOf
<1>4. c \in GoalTiming(t, table) => IsNote(c) /\ c.id \in {"goal_timing_profile"}
  BY GoalsAreNotes, NotesAreOf
<1>5. c \in PenaltyShare(t, table) => IsNote(c) /\ c.id \in {"penalty_goal_share"}
  BY GoalsAreNotes, NotesAreOf
<1>6. c \in OwnGoalQuirk(t, table) => IsNote(c) /\ c.id \in {"own_goal_quirk"}
  BY QuirksAreNotes, NotesAreOf
<1> QED BY <1>1, <1>2, <1>3, <1>4, <1>5, <1>6

LEMMA MeetingNotes ==
    ASSUME NEW s, NEW c \in OfMeetings(s)
    PROVE  /\ IsNote(c)
           /\ \/ (c.id = "head_to_head_record" /\ c \in HeadToHeadRecord(s))
              \/ (c.id = "head_to_head_goals" /\ c \in HeadToHeadGoals(s))
              \/ (c.id = "scoreline_repeat" /\ c \in ScorelineRepeat(s))
<1>1. c \in HeadToHeadRecord(s) \/ c \in HeadToHeadGoals(s) \/ c \in ScorelineRepeat(s)
  BY DEF OfMeetings
<1>2. c \in HeadToHeadRecord(s) => IsNote(c) /\ c.id \in {"head_to_head_record"}
  BY MeetingsAreNotes, NotesAreOf
<1>3. c \in HeadToHeadGoals(s) => IsNote(c) /\ c.id \in {"head_to_head_goals"}
  BY MeetingsAreNotes, NotesAreOf
<1>4. c \in ScorelineRepeat(s) => IsNote(c) /\ c.id \in {"scoreline_repeat"}
  BY MeetingsAreNotes, NotesAreOf
<1> QED BY <1>1, <1>2, <1>3, <1>4

History(t) == Perspective(OwnGames, t)
Met == Meetings(OwnGames)

\* Which part of what is proposed a note comes from.
LEMMA ProposedNotes ==
    ASSUME NEW c \in Proposed
    PROVE  /\ IsNote(c)
           /\ \/ (\E t \in Sides : c \in OfGames(t, History(t)))
              \/ (\E t \in Sides : c \in OfGoals(t, History(t), OwnGoals))
              \/ c \in OfMeetings(Met)
              \/ c.id \in {"shootout_record", "home_advantage_base_rate",
                           "competition_debut_base_rate", "shootout_first_shooter_edge"}
<1>1. \/ \E t \in Sides : c \in OfSide(t)
      \/ c \in OfMeetings(Met) \/ c \in CompetitionFacts(OwnGames)
      \/ c \in FirstShooterEdge(OwnShootouts)
  BY DEF Proposed, Sides, Met
<1>2. ASSUME NEW t, c \in OfSide(t)
      PROVE  \/ c \in OfGames(t, History(t)) \/ c \in OfGoals(t, History(t), OwnGoals)
             \/ c \in ShootoutRecord(t, OwnShootouts)
  BY <1>2 DEF OfSide, History
<1>3. ASSUME NEW t, c \in ShootoutRecord(t, OwnShootouts)
      PROVE  IsNote(c) /\ c.id \in {"shootout_record"}
  BY <1>3, ShootoutIsNote, NotesAreOf
<1>4. c \in CompetitionFacts(OwnGames) =>
        IsNote(c) /\ c.id \in {"home_advantage_base_rate", "competition_debut_base_rate"}
  BY CompetitionIsNote, NotesAreOf
<1>5. c \in FirstShooterEdge(OwnShootouts) => IsNote(c) /\ c.id \in {"shootout_first_shooter_edge"}
  BY ShooterIsNote, NotesAreOf
<1>6. ASSUME NEW t, c \in OfGames(t, History(t)) PROVE IsNote(c)
  BY <1>6, GameNotes
<1>7. ASSUME NEW t, c \in OfGoals(t, History(t), OwnGoals) PROVE IsNote(c)
  BY <1>7, GoalNotes
<1>8. c \in OfMeetings(Met) => IsNote(c)
  BY MeetingNotes
<1> QED BY <1>1, <1>2, <1>3, <1>4, <1>5, <1>6, <1>7, <1>8

GameIds == FormIds \cup {"biggest_win", "both_teams_scored_rate", "clean_sheet_rate",
                         "ht_comeback_record", "ht_lead_conversion", "day_of_week_streak",
                         "calendar_date_repeat"}
GoalIds == {"top_scorer", "in_form_scorer", "own_goal_quirk"}
MeetingIds == {"head_to_head_record", "head_to_head_goals", "scoreline_repeat"}

LEMMA NotesById ==
    ASSUME NEW c \in Proposed
    PROVE  /\ c.id \in GameIds => \E t \in Sides : c \in OfGames(t, History(t))
           /\ c.id \in GoalIds => \E t \in Sides : c \in OfGoals(t, History(t), OwnGoals)
           /\ c.id \in MeetingIds => c \in OfMeetings(Met)
<1> DEFINE OtherIds == {"shootout_record", "home_advantage_base_rate",
                        "competition_debut_base_rate", "shootout_first_shooter_edge"}
           OtherGameIds == {"home_away_form", "neutral_venue_record", "tournament_record",
                            "scoring_trend"}
           OtherGoalIds == {"goal_timing_profile", "penalty_goal_share"}
<1>1. ASSUME NEW t, c \in OfGames(t, History(t)) PROVE c.id \in GameIds \cup OtherGameIds
  BY <1>1, GameNotes DEF GameIds
<1>2. ASSUME NEW t, c \in OfGoals(t, History(t), OwnGoals) PROVE c.id \in GoalIds \cup OtherGoalIds
  BY <1>2, GoalNotes DEF GoalIds
<1>3. c \in OfMeetings(Met) => c.id \in MeetingIds
  BY MeetingNotes DEF MeetingIds
<1>4. /\ GameIds \cap (GoalIds \cup OtherGoalIds \cup MeetingIds \cup OtherIds) = {}
      /\ GoalIds \cap (GameIds \cup OtherGameIds \cup MeetingIds \cup OtherIds) = {}
      /\ MeetingIds \cap (GameIds \cup OtherGameIds \cup GoalIds \cup OtherGoalIds \cup OtherIds) = {}
  BY DEF GameIds, FormIds, GoalIds, MeetingIds
<1> HIDE DEF OtherGameIds, OtherGoalIds
<1>5. \/ \E t \in Sides : c \in OfGames(t, History(t))
      \/ \E t \in Sides : c \in OfGoals(t, History(t), OwnGoals)
      \/ c \in OfMeetings(Met)
      \/ c.id \in OtherIds
  BY ProposedNotes
<1> HIDE DEF OtherIds
<1> QED BY <1>1, <1>2, <1>3, <1>4, <1>5

\* Everything the templates propose cites the pack.
LEMMA ProposedAreNotes == \A c \in Proposed : IsNote(c)
<1> QED BY ProposedNotes

-------------------------------------------------------------------------------
(* What the notes say. *)

LEMMA TallySays ==
    ASSUME NEW s, NEW keys
    PROVE  /\ DOMAIN Tally(s, keys) = keys
           /\ "games" \in keys => Tally(s, keys)["games"][2] = Len(s)
           /\ "wins" \in keys => Tally(s, keys)["wins"][2] = CountIf(s, IsWin)
           /\ "draws" \in keys => Tally(s, keys)["draws"][2] = CountIf(s, IsDraw)
           /\ "losses" \in keys => Tally(s, keys)["losses"][2] = CountIf(s, IsLoss)
           /\ "clean" \in keys => Tally(s, keys)["clean"][2] = CountIf(s, KeptClean)
<1> DEFINE w == CountIf(s, IsWin)
           d == CountIf(s, IsDraw)
           l == CountIf(s, IsLoss)
           c == CountIf(s, KeptClean)
           b == CountIf(s, BothScored)
           n == Len(s)
<1>1. Tally(s, keys) =
        [k \in keys |->
            CASE k = "games" -> Times(n)
              [] k = "wins" -> Times(w)
              [] k = "draws" -> Times(d)
              [] k = "losses" -> Times(l)
              [] k = "clean" -> Times(c)
              [] k = "both" -> Times(b)
              [] k = "win_rate" -> Rate(w, n)
              [] k = "clean_rate" -> Rate(c, n)
              [] k = "both_rate" -> Rate(b, n)]
  BY Zenon DEF Tally
<1>2. Times(n)[2] = n /\ Times(w)[2] = w /\ Times(d)[2] = d /\ Times(l)[2] = l /\ Times(c)[2] = c
  BY DEF Times
<1> HIDE DEF w, d, l, c, b, n
<1>3. /\ DOMAIN Tally(s, keys) = keys
      /\ "games" \in keys => Tally(s, keys)["games"] = Times(n)
      /\ "wins" \in keys => Tally(s, keys)["wins"] = Times(w)
      /\ "draws" \in keys => Tally(s, keys)["draws"] = Times(d)
      /\ "losses" \in keys => Tally(s, keys)["losses"] = Times(l)
      /\ "clean" \in keys => Tally(s, keys)["clean"] = Times(c)
  BY <1>1
<1> QED BY <1>2, <1>3 DEF n, w, d, l, c

LEMMA CandidateTells ==
    ASSUME NEW id, NEW about, NEW says, NEW n, NEW last, NEW c,
           c = Candidate(id, about, says, n, last)
    PROVE  /\ c.id = id /\ c.about = about /\ c.says = says /\ c.n = n /\ c.last = last
           /\ c.weight = 0
BY DEF Candidate

\* A note of a record of these games.
Records(c, id, t, l, keys) ==
    /\ c.id = id /\ c.about = {t} /\ c.says = Tally(l, keys)
    /\ c.n = Len(l) /\ c.last = LastOf(l)

LEMMA RecordTells ==
    ASSUME NEW id, NEW t, NEW l, NEW least, NEW keys
    PROVE  /\ \A c \in Record(id, t, l, least, keys) :
                 Records(c, id, t, l, keys) /\ ~(Len(l) < least)
           /\ ~(Len(l) < least) =>
                 \E c \in Record(id, t, l, least, keys) : Records(c, id, t, l, keys)
<1> DEFINE new == Candidate(id, {t}, Tally(l, keys), Len(l), LastOf(l))
<1>1. Record(id, t, l, least, keys) = IF Len(l) < least THEN {} ELSE {new}
  BY Zenon DEF Record
<1>2. Records(new, id, t, l, keys)
  <2> DEFINE says == Tally(l, keys)
             n == Len(l)
             last == LastOf(l)
  <2> HIDE DEF says, n, last
  <2>1. Candidate(id, {t}, says, n, last).id = id
    BY DEF Candidate
  <2>2. Candidate(id, {t}, says, n, last).about = {t}
    BY DEF Candidate
  <2>3. Candidate(id, {t}, says, n, last).says = says
    BY DEF Candidate
  <2>4. Candidate(id, {t}, says, n, last).n = n
    BY DEF Candidate
  <2>5. Candidate(id, {t}, says, n, last).last = last
    BY DEF Candidate
  <2> QED BY <2>1, <2>2, <2>3, <2>4, <2>5 DEF Records, says, n, last
<1> HIDE DEF new
<1> QED BY <1>1, <1>2, Zenon

\* A record of a run, as the templates say it: of the last games, two at least.
IsRun(c, t, s, k) ==
    /\ c.about = {t} /\ c.n = k /\ c.last = s[Len(s)].day
    /\ k \in 2 .. Len(s) /\ Said(c, "games") = k

LEMMA RunTells ==
    ASSUME NEW s, IsTable(s), NEW I, NEW k, k = Longest(Len(s), I), NEW t, NEW id, NEW keys,
           NEW c, Records(c, id, t, Latest(s, k), keys), ~(Len(Latest(s, k)) < 2), "games" \in keys
    PROVE  /\ IsRun(c, t, s, k)
           /\ "wins" \in keys => Said(c, "wins") = CountIf(Latest(s, k), IsWin)
           /\ "draws" \in keys => Said(c, "draws") = CountIf(Latest(s, k), IsDraw)
<1> DEFINE l == Latest(s, k)
<1>1. /\ Len(l) = k /\ k \in 0 .. Len(s) /\ Len(s) \in Nat
      /\ \A i \in 1 .. k : l[i] = s[Len(s) - k + i]
  BY TrailingRunFits, TableFits
<1> HIDE DEF l
<1>2. k \in 2 .. Len(s)
  BY <1>1 DEF l
<1>3. k \in 1 .. k /\ Len(s) - k + k = Len(s)
  BY <1>1, <1>2
<1>4. LastOf(l) = s[Len(s)].day
  BY <1>1, <1>3 DEF LastOf
<1>5. c.about = {t} /\ c.n = k /\ c.last = LastOf(l)
  BY <1>1 DEF Records, l
<1>6. c.says = Tally(l, keys)
  BY DEF Records, l
<1>7. /\ c.says["games"][2] = Len(l)
      /\ "wins" \in keys => c.says["wins"][2] = CountIf(l, IsWin)
      /\ "draws" \in keys => c.says["draws"][2] = CountIf(l, IsDraw)
  BY <1>6, TallySays
<1> QED BY <1>1, <1>2, <1>4, <1>5, <1>7 DEF IsRun, Said, l

RunOf(s, I) == Latest(s, Longest(Len(s), I))

\* The four records of form.
LEMMA FormTells ==
    ASSUME NEW t, NEW s, NEW c \in Form(t, s)
    PROVE  \/ /\ Records(c, "unbeaten_run", t, RunOf(s, Mask(s, Unbeaten)), {"games", "wins", "draws"})
              /\ ~(Len(RunOf(s, Mask(s, Unbeaten))) < 2)
           \/ /\ Records(c, "winless_run", t, RunOf(s, Mask(s, Winless)), {"games", "draws", "losses"})
              /\ ~(Len(RunOf(s, Mask(s, Winless))) < 2)
           \/ /\ Records(c, "win_streak", t, RunOf(s, Mask(s, IsWin)), {"games"})
              /\ ~(Len(RunOf(s, Mask(s, IsWin))) < 2)
           \/ /\ Records(c, "clean_sheet_run", t, RunOf(s, Mask(s, KeptClean)), {"games"})
              /\ ~(Len(RunOf(s, Mask(s, KeptClean))) < 2)
<1>1. /\ TrailingRun(s, Unbeaten) = RunOf(s, Mask(s, Unbeaten))
      /\ TrailingRun(s, Winless) = RunOf(s, Mask(s, Winless))
      /\ TrailingRun(s, IsWin) = RunOf(s, Mask(s, IsWin))
      /\ TrailingRun(s, KeptClean) = RunOf(s, Mask(s, KeptClean))
  BY DEF TrailingRun, RunOf
<1> DEFINE A == Record("unbeaten_run", t, RunOf(s, Mask(s, Unbeaten)), 2, {"games", "wins", "draws"})
           B == Record("winless_run", t, RunOf(s, Mask(s, Winless)), 2, {"games", "draws", "losses"})
           C == Record("win_streak", t, RunOf(s, Mask(s, IsWin)), 2, {"games"})
           D == Record("clean_sheet_run", t, RunOf(s, Mask(s, KeptClean)), 2, {"games"})
<1>2. c \in A \/ c \in B \/ c \in C \/ c \in D
  BY <1>1 DEF Form
<1>3. c \in A => Records(c, "unbeaten_run", t, RunOf(s, Mask(s, Unbeaten)), {"games", "wins", "draws"})
                 /\ ~(Len(RunOf(s, Mask(s, Unbeaten))) < 2)
  BY RecordTells, Zenon
<1>4. c \in B => Records(c, "winless_run", t, RunOf(s, Mask(s, Winless)), {"games", "draws", "losses"})
                 /\ ~(Len(RunOf(s, Mask(s, Winless))) < 2)
  BY RecordTells, Zenon
<1>5. c \in C => Records(c, "win_streak", t, RunOf(s, Mask(s, IsWin)), {"games"})
                 /\ ~(Len(RunOf(s, Mask(s, IsWin))) < 2)
  BY RecordTells, Zenon
<1>6. c \in D => Records(c, "clean_sheet_run", t, RunOf(s, Mask(s, KeptClean)), {"games"})
                 /\ ~(Len(RunOf(s, Mask(s, KeptClean))) < 2)
  BY RecordTells, Zenon
<1> HIDE DEF A, B, C, D
<1> QED BY <1>2, <1>3, <1>4, <1>5, <1>6

\* What the runs of a team say of its games.
LEMMA FormNotes ==
    ASSUME NEW t, NEW s, SeenTable(s), NEW c \in Form(t, s)
    PROVE  /\ c.id = "unbeaten_run" =>
                 LET k == Longest(Len(s), Mask(s, Unbeaten))
                 IN  /\ IsRun(c, t, s, k)
                     /\ Said(c, "wins") = CountIf(Latest(s, k), IsWin)
                     /\ Said(c, "draws") = CountIf(Latest(s, k), IsDraw)
           /\ c.id = "winless_run" =>
                 LET k == Longest(Len(s), Mask(s, Winless))
                 IN  IsRun(c, t, s, k) /\ Said(c, "draws") = CountIf(Latest(s, k), IsDraw)
           /\ c.id = "win_streak" => IsRun(c, t, s, Longest(Len(s), Mask(s, IsWin)))
           /\ c.id = "clean_sheet_run" => IsRun(c, t, s, Longest(Len(s), Mask(s, KeptClean)))
<1>0. IsTable(s)
  BY DEF SeenTable
<1> DEFINE K(P(_)) == Longest(Len(s), Mask(s, P))
<1>1. ASSUME c.id = "unbeaten_run"
      PROVE  LET k == Longest(Len(s), Mask(s, Unbeaten))
             IN  /\ IsRun(c, t, s, k)
                 /\ Said(c, "wins") = CountIf(Latest(s, k), IsWin)
                 /\ Said(c, "draws") = CountIf(Latest(s, k), IsDraw)
  <2> DEFINE k == Longest(Len(s), Mask(s, Unbeaten))
  <2>1. Records(c, "unbeaten_run", t, RunOf(s, Mask(s, Unbeaten)), {"games", "wins", "draws"})
        /\ ~(Len(RunOf(s, Mask(s, Unbeaten))) < 2)
    BY <1>1, FormTells DEF Records
  <2>2. Records(c, "unbeaten_run", t, Latest(s, k), {"games", "wins", "draws"})
        /\ ~(Len(Latest(s, k)) < 2)
    BY <2>1 DEF RunOf
  <2>3. "games" \in {"games", "wins", "draws"} /\ "wins" \in {"games", "wins", "draws"}
        /\ "draws" \in {"games", "wins", "draws"}
    OBVIOUS
  <2>4. k = Longest(Len(s), Mask(s, Unbeaten))
    OBVIOUS
  <2> HIDE DEF k
  <2>5. IsRun(c, t, s, k) /\ Said(c, "wins") = CountIf(Latest(s, k), IsWin)
        /\ Said(c, "draws") = CountIf(Latest(s, k), IsDraw)
    BY <1>0, <2>2, <2>3, <2>4, RunTells
  <2> QED BY <2>5 DEF k
<1>2. ASSUME c.id = "winless_run"
      PROVE  LET k == Longest(Len(s), Mask(s, Winless))
             IN  IsRun(c, t, s, k) /\ Said(c, "draws") = CountIf(Latest(s, k), IsDraw)
  <2> DEFINE k == Longest(Len(s), Mask(s, Winless))
  <2>1. Records(c, "winless_run", t, RunOf(s, Mask(s, Winless)), {"games", "draws", "losses"})
        /\ ~(Len(RunOf(s, Mask(s, Winless))) < 2)
    BY <1>2, FormTells DEF Records
  <2>2. Records(c, "winless_run", t, Latest(s, k), {"games", "draws", "losses"})
        /\ ~(Len(Latest(s, k)) < 2)
    BY <2>1 DEF RunOf
  <2>3. "games" \in {"games", "draws", "losses"} /\ "draws" \in {"games", "draws", "losses"}
    OBVIOUS
  <2>4. k = Longest(Len(s), Mask(s, Winless))
    OBVIOUS
  <2> HIDE DEF k
  <2>5. IsRun(c, t, s, k) /\ Said(c, "draws") = CountIf(Latest(s, k), IsDraw)
    BY <1>0, <2>2, <2>3, <2>4, RunTells
  <2> QED BY <2>5 DEF k
<1>3. ASSUME c.id = "win_streak" PROVE IsRun(c, t, s, Longest(Len(s), Mask(s, IsWin)))
  <2>1. Records(c, "win_streak", t, RunOf(s, Mask(s, IsWin)), {"games"})
        /\ ~(Len(RunOf(s, Mask(s, IsWin))) < 2)
    BY <1>3, FormTells DEF Records
  <2>2. "games" \in {"games"}
    OBVIOUS
  <2> QED BY <1>0, <2>1, <2>2, RunTells DEF RunOf
<1>4. ASSUME c.id = "clean_sheet_run" PROVE IsRun(c, t, s, Longest(Len(s), Mask(s, KeptClean)))
  <2>1. Records(c, "clean_sheet_run", t, RunOf(s, Mask(s, KeptClean)), {"games"})
        /\ ~(Len(RunOf(s, Mask(s, KeptClean))) < 2)
    BY <1>4, FormTells DEF Records
  <2>2. "games" \in {"games"}
    OBVIOUS
  <2> QED BY <1>0, <2>1, <2>2, RunTells DEF RunOf
<1> QED BY <1>1, <1>2, <1>3, <1>4

LEMMA SignatureTells ==
    ASSUME NEW t, NEW s, NEW c \in Signature(t, s), c.id = "clean_sheet_rate"
    PROVE  c.about = {t} /\ Said(c, "clean") = CountIf(Latest(s, Span.rate), KeptClean)
<1> DEFINE l == Latest(s, Span.rate)
           B == Record("both_teams_scored_rate", t, l, 1, {"both", "games", "both_rate"})
           C == Record("clean_sheet_rate", t, l, 1, {"clean", "games", "clean_rate"})
<1>1. c \in B \/ c \in C
  BY DEF Signature
<1>2. c \in B => Records(c, "both_teams_scored_rate", t, l, {"both", "games", "both_rate"})
  BY RecordTells, Zenon
<1>3. c \in C => Records(c, "clean_sheet_rate", t, l, {"clean", "games", "clean_rate"})
  BY RecordTells, Zenon
<1> HIDE DEF l, B, C
<1>4. Records(c, "clean_sheet_rate", t, l, {"clean", "games", "clean_rate"})
  BY <1>1, <1>2, <1>3 DEF Records
<1>5. c.about = {t} /\ c.says = Tally(l, {"clean", "games", "clean_rate"})
  BY <1>4 DEF Records
<1>6. "clean" \in {"clean", "games", "clean_rate"}
  OBVIOUS
<1>7. Tally(l, {"clean", "games", "clean_rate"})["clean"][2] = CountIf(l, KeptClean)
  BY <1>6, TallySays
<1> QED BY <1>5, <1>7 DEF Said, l

LEMMA BiggestWinTells ==
    ASSUME NEW t, NEW s, NEW c \in BiggestWin(t, s)
    PROVE  c.about = {t} /\ c.n = Len(s)
<1> DEFINE wins == {i \in DOMAIN s : IsWin(s[i])}
           Bigger(i, j) ==
               LET a == s[i].gf - s[i].ga
                   b == s[j].gf - s[j].ga
               IN  a > b \/ (a = b /\ i >= j)
           best == s[CHOOSE i \in wins : \A j \in wins : Bigger(i, j)]
           says == [goals_for |-> Times(best.gf), goals_against |-> Times(best.ga)]
           n == Len(s)
           last == LastOf(s)
<1>1. c \in IF wins = {} THEN {} ELSE {Candidate("biggest_win", {t}, says, n, last)}
  BY Zenon DEF BiggestWin
<1> HIDE DEF wins, best, says, last
<1>2. c = Candidate("biggest_win", {t}, says, n, last)
  BY <1>1
<1> HIDE DEF n
<1> QED BY <1>2 DEF Candidate, n

\* Leads and deficits at half-time are of different games.
LEMMA HalfTimesTell ==
    ASSUME NEW t, NEW s, SeenTable(s), NEW c \in HalfTimes(t, s), NEW d \in HalfTimes(t, s),
           c.id = "ht_comeback_record", d.id = "ht_lead_conversion"
    PROVE  /\ c.about = {t} /\ d.about = {t}
           /\ Said(c, "games") + Said(d, "games") <= Len(s)
<1> DEFINE I == Mask(s, LAMBDA r : r.ht # "unknown")
           known == Picked(s, I)
           J == Mask(known, LAMBDA r : r.ht \notin {t, "level"})
           K == Mask(known, LAMBDA r : r.ht = t)
           keys == {"games", "wins", "draws"}
           A == Record("ht_comeback_record", t, Picked(known, J), 1, keys)
           B == Record("ht_lead_conversion", t, Picked(known, K), 1, keys)
<1>1. HalfTimes(t, s) = A \cup B
  BY DEF HalfTimes, Where
<1>2. I \subseteq DOMAIN s
  BY DEF Mask
<1>3. J \subseteq DOMAIN known /\ K \subseteq DOMAIN known /\ J \cap K = {}
  <2> HIDE DEF known
  <2> QED BY DEF Mask
<1> HIDE DEF I, J, K, A, B
<1>4. IsTable(known) /\ Len(known) = Cardinality(I)
  BY <1>2, PickedFits DEF SeenTable
<1>5. Cardinality(I) \in Nat /\ Cardinality(I) <= Len(s)
  BY <1>2, TableFits, PlacesCount DEF SeenTable
<1>6. Len(s) \in Nat
  BY TableFits DEF SeenTable
<1>7. DOMAIN known = 1 .. Cardinality(I)
  BY <1>4, TableFits
<1>8. /\ IsFiniteSet(J) /\ IsFiniteSet(K) /\ Cardinality(J) \in Nat /\ Cardinality(K) \in Nat
      /\ Cardinality(J \cup K) <= Cardinality(I)
  BY <1>3, <1>5, <1>7, PlacesCount
<1>9. Cardinality(J \cup K) = Cardinality(J) + Cardinality(K)
  <2>1. Cardinality(J \cup K) = Cardinality(J) + Cardinality(K) - Cardinality(J \cap K)
    BY <1>8, FS_Union
  <2>2. Cardinality(J \cap K) = 0
    BY <1>3, FS_EmptySet
  <2> QED BY <1>8, <2>1, <2>2
<1>10. Len(Picked(known, J)) = Cardinality(J) /\ Len(Picked(known, K)) = Cardinality(K)
  BY <1>3, <1>4, PickedFits
<1> DEFINE lJ == Picked(known, J)
           lK == Picked(known, K)
<1>11. c \in A => Records(c, "ht_comeback_record", t, lJ, keys)
  BY RecordTells, Zenon DEF A
<1>12. c \in B => Records(c, "ht_lead_conversion", t, lK, keys)
  BY RecordTells, Zenon DEF B
<1>13. d \in A => Records(d, "ht_comeback_record", t, lJ, keys)
  BY RecordTells, Zenon DEF A
<1>14. d \in B => Records(d, "ht_lead_conversion", t, lK, keys)
  BY RecordTells, Zenon DEF B
<1> HIDE DEF lJ, lK
<1>15. Records(c, "ht_comeback_record", t, lJ, keys) /\ Records(d, "ht_lead_conversion", t, lK, keys)
  BY <1>1, <1>11, <1>12, <1>13, <1>14 DEF Records
<1>16. "games" \in keys
  OBVIOUS
<1> HIDE DEF keys
<1>17. Tally(lJ, keys)["games"][2] = Len(lJ) /\ Tally(lK, keys)["games"][2] = Len(lK)
  BY <1>16, TallySays
<1>18. /\ c.about = {t} /\ c.says = Tally(lJ, keys)
       /\ d.about = {t} /\ d.says = Tally(lK, keys)
  BY <1>15 DEF Records
<1>19. Said(c, "games") = Cardinality(J) /\ Said(d, "games") = Cardinality(K)
  BY <1>10, <1>17, <1>18 DEF Said, lJ, lK
<1> QED BY <1>5, <1>6, <1>8, <1>9, <1>18, <1>19

\* Who has most of a table has no more of a part of it.
LEMMA MostOfPart ==
    ASSUME NEW T, IsFiniteSet(T), NEW S, S \subseteq T, S # {}
    PROVE  /\ MostBy(S) \in Nat /\ MostBy(T) \in Nat /\ MostBy(S) <= MostBy(T)
<1> DEFINE By(X, q) == {r \in X : r.goal.by = q.goal.by}
           Counts(X) == {Cardinality(By(X, q)) : q \in X}
<1>1. ASSUME NEW X, X \subseteq T, X # {}
      PROVE  MostBy(X) \in Counts(X) /\ MostBy(X) \in Nat /\ \A m \in Counts(X) : m <= MostBy(X)
  <2>1. IsFiniteSet(X) /\ Cardinality(X) \in Nat
    BY <1>1, FS_Subset, FS_CardinalityType
  <2>2. ASSUME NEW q \in X
        PROVE  Cardinality(By(X, q)) \in Nat /\ Cardinality(By(X, q)) <= Cardinality(X)
    <3>1. By(X, q) \subseteq X
      OBVIOUS
    <3> HIDE DEF By
    <3> QED BY <2>1, <3>1, FS_Subset, FS_CardinalityType
  <2>3. Counts(X) \subseteq 0 .. Cardinality(X) /\ Counts(X) # {}
    <3>1. \A q \in X : Cardinality(By(X, q)) \in 0 .. Cardinality(X)
      BY <2>1, <2>2
    <3>2. X # {}
      BY <1>1
    <3> HIDE DEF By
    <3> QED BY <3>1, <3>2
  <2>4. MostBy(X) = Max(Counts(X))
    BY DEF MostBy
  <2> HIDE DEF Counts
  <2>5. MostBy(X) \in Counts(X) /\ \A m \in Counts(X) : m <= MostBy(X)
    BY <2>1, <2>3, <2>4, GreatestNumber
  <2> QED BY <2>1, <2>3, <2>5
<1>2. MostBy(S) \in Counts(S) /\ MostBy(S) \in Nat
  BY <1>1
<1>3. MostBy(T) \in Nat /\ \A m \in Counts(T) : m <= MostBy(T)
  <2>1. T \subseteq T /\ T # {}
    OBVIOUS
  <2> HIDE DEF Counts
  <2> QED BY <1>1, <2>1
<1>4. PICK q \in S : MostBy(S) = Cardinality(By(S, q))
  BY <1>2
<1>5. By(S, q) \subseteq By(T, q) /\ By(T, q) \subseteq T
  OBVIOUS
<1>6. Cardinality(By(T, q)) \in Counts(T)
  BY <1>4
<1> HIDE DEF By, Counts
<1>7. IsFiniteSet(By(T, q)) /\ Cardinality(By(T, q)) \in Nat
  BY <1>5, FS_Subset, FS_CardinalityType
<1>8. Cardinality(By(S, q)) <= Cardinality(By(T, q))
  BY <1>5, <1>7, FS_Subset
<1> QED BY <1>2, <1>3, <1>4, <1>6, <1>7, <1>8

LEMMA ScorersTell ==
    ASSUME NEW t, NEW s, NEW table, IsFiniteSet(table),
           NEW c \in InFormScorer(t, s, table), NEW d \in TopScorer(t, table)
    PROVE  /\ c.about = {t} /\ d.about = {t}
           /\ Said(c, "goals") <= Said(d, "goals")
<1> DEFINE recent == Latest(s, Span.form)
           keys == {<<r.day, r.teams>> : r \in Range(recent)}
           all == Proper(table, t)
           mine == {r \in all : <<r.day, r.teams>> \in keys}
           says == [goals |-> Times(MostBy(mine)), games |-> Times(Len(recent))]
           of == [goals |-> Times(MostBy(all))]
           n == Len(recent)
           last == LastIn(mine)
           m == MostBy(all)
           final == LastIn(all)
<1>1. c \in IF s = <<>> \/ mine = {} THEN {}
            ELSE IF MostBy(mine) < Least.hot THEN {}
            ELSE {Candidate("in_form_scorer", {t}, says, n, last)}
  BY Zenon DEF InFormScorer
<1>2. d \in IF all = {} THEN {} ELSE {Candidate("top_scorer", {t}, of, m, final)}
  BY Zenon DEF TopScorer
<1>3. IsFiniteSet(all)
  <2>1. all \subseteq table
    BY DEF Proper
  <2> HIDE DEF all
  <2> QED BY <2>1, FS_Subset
<1>4. mine \subseteq all
  OBVIOUS
<1>5. says.goals[2] = MostBy(mine) /\ of.goals[2] = MostBy(all)
  BY DEF Times
<1> HIDE DEF recent, keys, all, mine, says, of, n, last, m, final
<1>6. c = Candidate("in_form_scorer", {t}, says, n, last) /\ mine # {}
  BY <1>1
<1>7. d = Candidate("top_scorer", {t}, of, m, final)
  BY <1>2
<1>8. MostBy(mine) <= MostBy(all)
  BY <1>3, <1>4, <1>6, MostOfPart
<1>9. c.about = {t} /\ c.says = says
  BY <1>6 DEF Candidate
<1>10. d.about = {t} /\ d.says = of
  BY <1>7 DEF Candidate
<1> QED BY <1>5, <1>8, <1>9, <1>10 DEF Said

LEMMA JoinedKeeps ==
    ASSUME NEW f, NEW g, NEW k \in DOMAIN f
    PROVE  Joined(f, g)[k] = f[k]
BY DEF Joined

\* Every game is won, drawn or lost.
LEMMA ResultsCount ==
    ASSUME NEW s, SeenTable(s)
    PROVE  /\ CountIf(s, IsWin) \in Nat /\ CountIf(s, IsDraw) \in Nat /\ CountIf(s, IsLoss) \in Nat
           /\ CountIf(s, IsWin) + CountIf(s, IsDraw) + CountIf(s, IsLoss) = Len(s)
<1> DEFINE W == Mask(s, IsWin)
           D == Mask(s, IsDraw)
           L == Mask(s, IsLoss)
<1>1. Len(s) \in Nat /\ DOMAIN s = 1 .. Len(s)
  BY TableFits DEF SeenTable
<1>2. \A i \in DOMAIN s : s[i].gf \in Nat /\ s[i].ga \in Nat
  BY DEF SeenTable, IsSeen
<1>3. W \subseteq DOMAIN s /\ D \subseteq DOMAIN s /\ L \subseteq DOMAIN s
  BY DEF Mask
<1>4. W \cap D = {} /\ (W \cup D) \cap L = {} /\ (W \cup D) \cup L = DOMAIN s
  <2>1. \A i \in DOMAIN s : /\ i \in W <=> s[i].gf > s[i].ga
                            /\ i \in D <=> s[i].gf = s[i].ga
                            /\ i \in L <=> s[i].gf < s[i].ga
    BY DEF Mask, IsWin, IsDraw, IsLoss
  <2> HIDE DEF W, D, L
  <2>2. ASSUME NEW i \in DOMAIN s
        PROVE  (i \in W \/ i \in D \/ i \in L) /\ ~(i \in W /\ i \in D)
               /\ ~(i \in W /\ i \in L) /\ ~(i \in D /\ i \in L)
    BY <1>2, <2>1
  <2> QED BY <1>3, <2>2
<1> HIDE DEF W, D, L
<1>5. /\ IsFiniteSet(W) /\ IsFiniteSet(D) /\ IsFiniteSet(L) /\ IsFiniteSet(W \cup D)
      /\ Cardinality(W) \in Nat /\ Cardinality(D) \in Nat /\ Cardinality(L) \in Nat
      /\ Cardinality(W \cup D) \in Nat
  <2>1. W \cup D \subseteq 1 .. Len(s) /\ W \subseteq 1 .. Len(s) /\ D \subseteq 1 .. Len(s)
        /\ L \subseteq 1 .. Len(s)
    BY <1>1, <1>3
  <2> QED BY <1>1, <2>1, PlacesCount
<1>6. Cardinality({}) = 0
  BY FS_EmptySet
<1>7. Cardinality(W \cup D) = Cardinality(W) + Cardinality(D)
  <2>1. Cardinality(W \cup D) = Cardinality(W) + Cardinality(D) - Cardinality(W \cap D)
    BY <1>5, FS_Union
  <2>2. Cardinality(W \cap D) = 0
    BY <1>4, <1>6
  <2> QED BY <1>5, <2>1, <2>2
<1>8. Cardinality((W \cup D) \cup L) = Cardinality(W \cup D) + Cardinality(L)
  <2>1. Cardinality((W \cup D) \cup L)
          = Cardinality(W \cup D) + Cardinality(L) - Cardinality((W \cup D) \cap L)
    BY <1>5, FS_Union
  <2>2. Cardinality((W \cup D) \cap L) = 0
    BY <1>4, <1>6
  <2> QED BY <1>5, <2>1, <2>2
<1>9. Cardinality(DOMAIN s) = Len(s)
  <2> DEFINE n == Len(s)
  <2>1. n \in Nat
    BY <1>1
  <2> HIDE DEF n
  <2>2. Cardinality(1 .. n) = n
    BY <2>1, FS_Interval
  <2> QED BY <1>1, <2>2 DEF n
<1>10. Cardinality(W) + Cardinality(D) + Cardinality(L) = Len(s)
  BY <1>1, <1>4, <1>5, <1>7, <1>8, <1>9
<1> QED BY <1>5, <1>10 DEF CountIf, W, D, L

LEMMA MeetingsTell ==
    ASSUME NEW s, SeenTable(s)
    PROVE  /\ \A c \in HeadToHeadRecord(s) :
                 /\ c.about = {fixture.home, fixture.away}
                 /\ Said(c, "wins") + Said(c, "draws") + Said(c, "losses") = Said(c, "games")
                 /\ Said(c, "games") = Len(s)
           /\ \A c \in HeadToHeadGoals(s) :
                 c.about = {fixture.home, fixture.away} /\ Said(c, "games") = Len(s)
<1> DEFINE both == {fixture.home, fixture.away}
           keys == {"games", "wins", "draws", "losses"}
           few == {"games", "both"}
           score == LastScore(s)
           avg == [avg |-> Rate(GoalsIn(s), Len(s))]
           n == Len(s)
           last == LastOf(s)
<1>1. \A c \in HeadToHeadRecord(s) :
          c = Candidate("head_to_head_record", both, Joined(Tally(s, keys), score), n, last)
  BY DEF HeadToHeadRecord, Between
<1>2. \A c \in HeadToHeadGoals(s) :
          c = Candidate("head_to_head_goals", both, Joined(Tally(s, few), avg), n, last)
  BY DEF HeadToHeadGoals, Between
<1>3. /\ "games" \in keys /\ "wins" \in keys /\ "draws" \in keys /\ "losses" \in keys
      /\ "games" \in few
  OBVIOUS
<1> HIDE DEF both, keys, few, score, avg, last
<1> DEFINE says == Joined(Tally(s, keys), score)
           goals == Joined(Tally(s, few), avg)
<1>4. DOMAIN Tally(s, keys) = keys /\ DOMAIN Tally(s, few) = few
  BY TallySays
<1>5. /\ says["games"][2] = Tally(s, keys)["games"][2]
      /\ says["wins"][2] = Tally(s, keys)["wins"][2]
      /\ says["draws"][2] = Tally(s, keys)["draws"][2]
      /\ says["losses"][2] = Tally(s, keys)["losses"][2]
      /\ goals["games"][2] = Tally(s, few)["games"][2]
  BY <1>3, <1>4, JoinedKeeps
<1>6. /\ Tally(s, keys)["games"][2] = Len(s)
      /\ Tally(s, keys)["wins"][2] = CountIf(s, IsWin)
      /\ Tally(s, keys)["draws"][2] = CountIf(s, IsDraw)
      /\ Tally(s, keys)["losses"][2] = CountIf(s, IsLoss)
      /\ Tally(s, few)["games"][2] = Len(s)
  BY <1>3, TallySays
<1> HIDE DEF says, goals
<1>7. ASSUME NEW c \in HeadToHeadRecord(s)
      PROVE  c.about = both /\ c.says = says
  <2>1. c = Candidate("head_to_head_record", both, says, n, last)
    BY <1>1, <1>7 DEF says
  <2> HIDE DEF n
  <2> QED BY <2>1 DEF Candidate
<1>8. ASSUME NEW c \in HeadToHeadGoals(s)
      PROVE  c.about = both /\ c.says = goals
  <2>1. c = Candidate("head_to_head_goals", both, goals, n, last)
    BY <1>2, <1>8 DEF goals
  <2> HIDE DEF n
  <2> QED BY <2>1 DEF Candidate
<1>9. CountIf(s, IsWin) + CountIf(s, IsDraw) + CountIf(s, IsLoss) = Len(s)
  BY ResultsCount
<1>10. ASSUME NEW c \in HeadToHeadRecord(s)
       PROVE  /\ c.about = {fixture.home, fixture.away}
              /\ Said(c, "wins") + Said(c, "draws") + Said(c, "losses") = Said(c, "games")
              /\ Said(c, "games") = Len(s)
  <2>1. c.about = both /\ c.says = says
    BY <1>7, <1>10
  <2> QED BY <2>1, <1>5, <1>6, <1>9 DEF Said, both
<1>11. ASSUME NEW c \in HeadToHeadGoals(s)
       PROVE  c.about = {fixture.home, fixture.away} /\ Said(c, "games") = Len(s)
  <2>1. c.about = both /\ c.says = goals
    BY <1>8, <1>11
  <2> QED BY <2>1, <1>5, <1>6 DEF Said, both
<1> QED BY <1>10, <1>11

\* The runs of a team end in the same game, so they compare.
LEMMA SeenMasks ==
    ASSUME NEW s, SeenTable(s)
    PROVE  /\ Mask(s, IsWin) \subseteq Mask(s, Unbeaten)
           /\ Mask(s, Unbeaten) \cap Mask(s, Winless) \subseteq Mask(s, IsDraw)
           /\ Len(s) \in Nat /\ DOMAIN s = 1 .. Len(s)
           /\ \A i \in DOMAIN s : s[i].day \in Nat
<1>1. \A i \in DOMAIN s : s[i].gf \in Nat /\ s[i].ga \in Nat /\ s[i].day \in Nat
  BY DEF SeenTable, IsSeen
<1>2. ASSUME NEW i \in DOMAIN s
      PROVE  /\ IsWin(s[i]) => Unbeaten(s[i])
             /\ Unbeaten(s[i]) /\ Winless(s[i]) => IsDraw(s[i])
  BY <1>1 DEF IsWin, Unbeaten, IsLoss, Winless, IsDraw
<1>3. Len(s) \in Nat /\ DOMAIN s = 1 .. Len(s)
  BY TableFits DEF SeenTable
<1> QED BY <1>1, <1>2, <1>3 DEF Mask

\* Of the last m games at least n are wins, draws or without a goal against, when n are
\* at the end of the history.
LEMMA LatestCounts ==
    ASSUME NEW s, SeenTable(s), NEW m \in 0 .. Len(s), NEW r \in Nat, m = r \/ (m = Len(s) /\ m < r),
           NEW n \in 0 .. m
    PROVE  /\ Len(s) - n + 1 .. Len(s) \subseteq Mask(s, IsWin) =>
                 n <= CountIf(Latest(s, r), IsWin)
           /\ Len(s) - n + 1 .. Len(s) \subseteq Mask(s, IsDraw) =>
                 n <= CountIf(Latest(s, r), IsDraw)
           /\ Len(s) - n + 1 .. Len(s) \subseteq Mask(s, KeptClean) =>
                 n <= CountIf(Latest(s, r), KeptClean)
           /\ CountIf(Latest(s, r), IsWin) \in Nat /\ CountIf(Latest(s, r), IsDraw) \in Nat
           /\ CountIf(Latest(s, r), KeptClean) \in Nat
<1> DEFINE l == Latest(s, r)
<1>1. IsTable(s)
  BY DEF SeenTable
<1>2. IsTable(l) /\ Len(l) = m /\ \A i \in 1 .. m : l[i] = s[Len(s) - m + i]
  BY <1>1, LatestFits
<1> HIDE DEF l
<1>3. /\ Len(s) - n + 1 .. Len(s) \subseteq Mask(s, IsWin) => n <= CountIf(l, IsWin)
      /\ Len(s) - n + 1 .. Len(s) \subseteq Mask(s, IsDraw) => n <= CountIf(l, IsDraw)
      /\ Len(s) - n + 1 .. Len(s) \subseteq Mask(s, KeptClean) => n <= CountIf(l, KeptClean)
  BY <1>1, <1>2, CountsOfLast
<1>4. DOMAIN l = 1 .. m /\ m \in Nat
  BY <1>2, TableFits
<1>5. Mask(l, IsWin) \subseteq 1 .. m /\ Mask(l, IsDraw) \subseteq 1 .. m
      /\ Mask(l, KeptClean) \subseteq 1 .. m
  BY <1>4 DEF Mask
<1>6. CountIf(l, IsWin) \in Nat /\ CountIf(l, IsDraw) \in Nat /\ CountIf(l, KeptClean) \in Nat
  BY <1>4, <1>5, PlacesCount DEF CountIf
<1> QED BY <1>3, <1>6 DEF l

\* A run of wins is in an unbeaten run, which is told with the same last game.
LEMMA WinsAreUnbeaten ==
    ASSUME NEW t, NEW s, SeenTable(s), NEW c \in Form(t, s), c.id = "win_streak"
    PROVE  \E u \in Form(t, s) :
              /\ u.id = "unbeaten_run" /\ u.about = {t} /\ c.about = {t}
              /\ u.n \in Nat /\ c.n \in Nat /\ u.n >= c.n
              /\ u.last = c.last /\ c.last \in Nat
              /\ Said(u, "wins") \in Nat /\ Said(u, "wins") >= Said(c, "games")
<1> DEFINE j == Longest(Len(s), Mask(s, IsWin))
           k == Longest(Len(s), Mask(s, Unbeaten))
           keys == {"games", "wins", "draws"}
<1>1. /\ Mask(s, IsWin) \subseteq Mask(s, Unbeaten) /\ Len(s) \in Nat /\ DOMAIN s = 1 .. Len(s)
      /\ \A i \in DOMAIN s : s[i].day \in Nat
  BY SeenMasks
<1>2. IsRun(c, t, s, j)
  BY FormNotes
<1>3. j \in 0 .. Len(s) /\ Len(s) - j + 1 .. Len(s) \subseteq Mask(s, IsWin)
  BY <1>1, LongestFits
<1>4. k \in 0 .. Len(s)
  BY <1>1, LongestFits
<1>5. j <= k
  BY <1>1, LongerRun
<1>6. TrailingRun(s, Unbeaten) = Latest(s, k)
  BY DEF TrailingRun
<1>7. k = Longest(Len(s), Mask(s, Unbeaten)) /\ IsTable(s)
  BY DEF SeenTable
<1> HIDE DEF j, k
<1>8. Len(Latest(s, k)) = k
  BY <1>7, TrailingRunFits
<1>9. j \in 2 .. Len(s) /\ c.about = {t} /\ c.n = j /\ c.last = s[Len(s)].day /\ Said(c, "games") = j
  BY <1>2 DEF IsRun
<1>10. ~(Len(Latest(s, k)) < 2) /\ j \in 0 .. k
  BY <1>1, <1>4, <1>5, <1>8, <1>9
<1>11. PICK u \in Record("unbeaten_run", t, Latest(s, k), 2, keys) :
          Records(u, "unbeaten_run", t, Latest(s, k), keys)
  BY <1>10, RecordTells, Zenon
<1>12. u \in Form(t, s)
  BY <1>6, <1>11 DEF Form
<1>13. "games" \in keys /\ "wins" \in keys
  OBVIOUS
<1> HIDE DEF keys
<1>14. IsRun(u, t, s, k) /\ Said(u, "wins") = CountIf(Latest(s, k), IsWin)
  BY <1>7, <1>10, <1>11, <1>13, RunTells
<1>15. u.id = "unbeaten_run"
  BY <1>11 DEF Records
<1>16. u.about = {t} /\ u.n = k /\ u.last = s[Len(s)].day
  BY <1>14 DEF IsRun
<1>17. j <= CountIf(Latest(s, k), IsWin) /\ CountIf(Latest(s, k), IsWin) \in Nat
  <2>1. k \in Nat /\ k \in 0 .. Len(s) /\ j \in 0 .. k
    BY <1>1, <1>4, <1>10
  <2> QED BY <1>3, <2>1, LatestCounts
<1>18. s[Len(s)].day \in Nat
  BY <1>1, <1>9
<1>19. k \in Nat /\ j \in Nat /\ k >= j /\ CountIf(Latest(s, k), IsWin) >= j
  BY <1>1, <1>4, <1>9, <1>10, <1>17
<1>20. /\ u.about = {t} /\ c.about = {t} /\ u.n \in Nat /\ c.n \in Nat /\ u.n >= c.n
       /\ u.last = c.last /\ c.last \in Nat
  BY <1>9, <1>16, <1>18, <1>19
<1>21. Said(u, "wins") \in Nat /\ Said(u, "wins") >= Said(c, "games")
  BY <1>9, <1>14, <1>17, <1>19
<1> QED BY <1>12, <1>15, <1>20, <1>21

\* Games neither lost nor won are drawn.
LEMMA DrawsAreShared ==
    ASSUME NEW t, NEW s, SeenTable(s), NEW u \in Form(t, s), NEW w \in Form(t, s),
           u.id = "unbeaten_run", w.id = "winless_run"
    PROVE  /\ u.about = {t} /\ w.about = {t}
           /\ Said(u, "games") \in Nat /\ Said(w, "games") \in Nat
           /\ Said(u, "draws") \in Nat /\ Said(w, "draws") \in Nat
           /\ \A n \in {Said(u, "games"), Said(w, "games")} :
                 n <= Said(u, "games") /\ n <= Said(w, "games") =>
                    n <= Said(u, "draws") /\ n <= Said(w, "draws")
<1> DEFINE j == Longest(Len(s), Mask(s, Unbeaten))
           k == Longest(Len(s), Mask(s, Winless))
<1>1. /\ Mask(s, Unbeaten) \cap Mask(s, Winless) \subseteq Mask(s, IsDraw)
      /\ Len(s) \in Nat
  BY SeenMasks
<1>2. IsRun(u, t, s, j) /\ Said(u, "draws") = CountIf(Latest(s, j), IsDraw)
  BY FormNotes
<1>3. IsRun(w, t, s, k) /\ Said(w, "draws") = CountIf(Latest(s, k), IsDraw)
  BY FormNotes
<1>4. j \in 0 .. Len(s) /\ Len(s) - j + 1 .. Len(s) \subseteq Mask(s, Unbeaten)
  BY <1>1, LongestFits
<1>5. k \in 0 .. Len(s) /\ Len(s) - k + 1 .. Len(s) \subseteq Mask(s, Winless)
  BY <1>1, LongestFits
<1> HIDE DEF j, k
<1>6. u.about = {t} /\ w.about = {t} /\ Said(u, "games") = j /\ Said(w, "games") = k
  BY <1>2, <1>3 DEF IsRun
<1>7. j \in Nat /\ k \in Nat
  BY <1>1, <1>4, <1>5
<1>8. ASSUME NEW n \in 0 .. j, n \in 0 .. k
      PROVE  Len(s) - n + 1 .. Len(s) \subseteq Mask(s, IsDraw)
  <2>1. Len(s) - n + 1 .. Len(s) \subseteq Len(s) - j + 1 .. Len(s)
    BY <1>1, <1>7, <1>8
  <2>2. Len(s) - n + 1 .. Len(s) \subseteq Len(s) - k + 1 .. Len(s)
    BY <1>1, <1>7, <1>8
  <2> QED BY <1>1, <1>4, <1>5, <2>1, <2>2
<1>9. ASSUME NEW n \in 0 .. j, n \in 0 .. k
      PROVE  n <= CountIf(Latest(s, j), IsDraw) /\ n <= CountIf(Latest(s, k), IsDraw)
  <2>1. Len(s) - n + 1 .. Len(s) \subseteq Mask(s, IsDraw)
    BY <1>8, <1>9
  <2>2. n <= CountIf(Latest(s, j), IsDraw)
    BY <1>4, <1>7, <2>1, LatestCounts
  <2>3. n <= CountIf(Latest(s, k), IsDraw)
    BY <1>5, <1>7, <1>9, <2>1, LatestCounts
  <2> QED BY <2>2, <2>3
<1>10. CountIf(Latest(s, j), IsDraw) \in Nat
  <2>1. 0 \in 0 .. j
    BY <1>7
  <2> QED BY <1>4, <1>7, <2>1, LatestCounts
<1>11. CountIf(Latest(s, k), IsDraw) \in Nat
  <2>1. 0 \in 0 .. k
    BY <1>7
  <2> QED BY <1>5, <1>7, <2>1, LatestCounts
<1>12. ASSUME NEW n \in {Said(u, "games"), Said(w, "games")},
              n <= Said(u, "games"), n <= Said(w, "games")
       PROVE  n <= Said(u, "draws") /\ n <= Said(w, "draws")
  <2>1. n \in 0 .. j /\ n \in 0 .. k
    BY <1>6, <1>7, <1>12
  <2> QED BY <1>2, <1>3, <1>9, <2>1
<1>13. Said(u, "draws") \in Nat /\ Said(w, "draws") \in Nat
  BY <1>2, <1>3, <1>10, <1>11
<1> QED BY <1>6, <1>7, <1>12, <1>13

\* The games of a run without a goal against are among the last that the rate counts.
LEMMA CleanRunsAgree ==
    ASSUME NEW t, NEW s, SeenTable(s),
           NEW c \in Form(t, s), c.id = "clean_sheet_run",
           NEW r \in Signature(t, s), r.id = "clean_sheet_rate"
    PROVE  /\ c.about = {t} /\ r.about = {t}
           /\ Said(c, "games") \in Nat /\ Said(r, "clean") \in Nat
           /\ Said(c, "games") <= Said(r, "clean") \/ Span.rate <= Said(r, "clean")
<1> DEFINE k == Longest(Len(s), Mask(s, KeptClean))
           m == IF Span.rate <= Len(s) THEN Span.rate ELSE Len(s)
           n == IF k <= m THEN k ELSE m
<1>1. Len(s) \in Nat /\ Span.rate \in Nat
  BY SeenMasks, NotebookAssumption
<1>2. IsRun(c, t, s, k)
  BY FormNotes
<1>3. k \in 0 .. Len(s) /\ Len(s) - k + 1 .. Len(s) \subseteq Mask(s, KeptClean)
  BY <1>1, LongestFits
<1>4. r.about = {t} /\ Said(r, "clean") = CountIf(Latest(s, Span.rate), KeptClean)
  BY SignatureTells
<1> HIDE DEF k
<1>5. c.about = {t} /\ Said(c, "games") = k /\ k \in Nat
  BY <1>1, <1>2, <1>3 DEF IsRun
<1>6. /\ m \in 0 .. Len(s) /\ (m = Span.rate \/ (m = Len(s) /\ m < Span.rate))
      /\ n \in 0 .. m /\ n \in 0 .. k /\ (n = k \/ n = Span.rate)
  BY <1>1, <1>3, <1>5
<1> HIDE DEF m, n
<1>7. Len(s) - n + 1 .. Len(s) \subseteq Mask(s, KeptClean)
  <2>1. Len(s) - n + 1 .. Len(s) \subseteq Len(s) - k + 1 .. Len(s)
    BY <1>1, <1>5, <1>6
  <2> QED BY <1>3, <2>1
<1>8. n <= CountIf(Latest(s, Span.rate), KeptClean)
      /\ CountIf(Latest(s, Span.rate), KeptClean) \in Nat
  BY <1>1, <1>6, <1>7, LatestCounts
<1> QED BY <1>4, <1>5, <1>6, <1>8

-------------------------------------------------------------------------------
(* The cap on coincidences. *)

\* Of a finite set there are k members of least weight.
LEMMA LightestExist ==
    ASSUME NEW S, IsFiniteSet(S), \A c \in S : c.weight \in Nat, NEW k \in 0 .. Cardinality(S)
    PROVE  \E K \in SUBSET S : /\ Cardinality(K) = k
                               /\ \A c \in K, d \in S \ K : c.weight <= d.weight
<1> DEFINE Lightest(n) == \E K \in SUBSET S : /\ Cardinality(K) = n
                                            /\ \A c \in K, d \in S \ K : c.weight <= d.weight
           C == {n \in 0 .. Cardinality(S) : ~Lightest(n)}
<1>0. Cardinality(S) \in Nat
  BY FS_CardinalityType
<1>1. SUFFICES ASSUME C # {} PROVE FALSE
  OBVIOUS
<1>2. PICK n \in C : \A m \in C : n <= m
  <2>1. C \subseteq Nat
    OBVIOUS
  <2> HIDE DEF C
  <2> QED BY <1>1, <2>1, LeastNumber
<1>3. n \in 0 .. Cardinality(S) /\ ~Lightest(n)
  OBVIOUS
<1>4. n # 0
  <2>1. {} \in SUBSET S /\ Cardinality({}) = 0
    BY FS_EmptySet
  <2>2. Lightest(0)
    BY <2>1
  <2> HIDE DEF Lightest
  <2> QED BY <1>3, <2>2
<1>5. n - 1 \in 0 .. Cardinality(S) /\ n - 1 < n
  BY <1>0, <1>3, <1>4
<1>6. Lightest(n - 1)
  <2> DEFINE h == n - 1
  <2>1. h \notin C /\ h \in 0 .. Cardinality(S)
    <3> HIDE DEF C
    <3> QED BY <1>0, <1>2, <1>3, <1>5
  <2> HIDE DEF Lightest, h
  <2>2. Lightest(h)
    BY <2>1, Zenon
  <2> QED BY <2>2 DEF h
<1>7. PICK K \in SUBSET S : /\ Cardinality(K) = n - 1
                            /\ \A c \in K, d \in S \ K : c.weight <= d.weight
  BY <1>6
<1>8. IsFiniteSet(K)
  BY FS_Subset
<1> DEFINE R == S \ K
           W == {c.weight : c \in R}
<1>9. R # {}
  <2>1. SUFFICES ASSUME R = {} PROVE FALSE
    OBVIOUS
  <2>2. K = S
    BY <2>1
  <2> QED BY <1>0, <1>3, <1>5, <1>7, <2>2
<1>10. PICK x \in R : \A d \in R : x.weight <= d.weight
  <2>1. W \subseteq Nat /\ W # {}
    BY <1>9
  <2>2. PICK w \in W : \A v \in W : w <= v
    <3> HIDE DEF W
    <3> QED BY <2>1, LeastNumber
  <2> QED BY <2>2
<1> DEFINE L == K \cup {x}
<1>11. L \in SUBSET S /\ Cardinality(L) = n
  <2>1. Cardinality(L) = Cardinality(K) + 1
    BY <1>8, FS_AddElement
  <2> QED BY <1>0, <1>3, <1>7, <2>1
<1>12. \A c \in L, d \in S \ L : c.weight <= d.weight
  BY <1>7, <1>10
<1> HIDE DEF L
<1> QED BY <1>3, <1>11, <1>12

Odd(S) == {c \in S : c.id \in Coincidences}

\* The notes that are kept: of the coincidences at most the cap, and all others.
LEMMA CapHolds ==
    ASSUME NEW S, IsFiniteSet(Odd(S)), \A c \in Odd(S) : c.weight \in Nat
    PROVE  /\ MostSpecific(S) \subseteq S
           /\ \A c \in S : c.id \notin Coincidences => c \in MostSpecific(S)
           /\ IsFiniteSet(Odd(MostSpecific(S))) /\ Cardinality(Odd(MostSpecific(S))) <= Cap
           /\ Cardinality(Odd(MostSpecific(S))) \in Nat
<1> DEFINE odd == Odd(S)
           k == Max({0, Cardinality(odd) - Cap})
           suppressed == CHOOSE K \in SUBSET odd :
                  /\ Cardinality(K) = k
                  /\ \A c \in K, d \in odd \ K : c.weight <= d.weight
<1>1. MostSpecific(S) = S \ suppressed
  BY DEF MostSpecific, Odd
<1>2. Cardinality(odd) \in Nat /\ Cap \in Nat
  BY FS_CardinalityType, NotebookAssumption
<1>3. k = IF 0 > Cardinality(odd) - Cap THEN 0 ELSE Cardinality(odd) - Cap
  <2> DEFINE x == Cardinality(odd) - Cap
  <2>1. x \in Int
    BY <1>2
  <2> HIDE DEF x
  <2>2. 0 \in Int
    OBVIOUS
  <2>3. Max({0, x}) = IF 0 > x THEN 0 ELSE x
    BY <2>1, <2>2, GreaterOfTwo, Zenon
  <2> QED BY <2>3 DEF x
<1> HIDE DEF k
<1>4. k \in 0 .. Cardinality(odd) /\ Cardinality(odd) - k <= Cap
  BY <1>2, <1>3
<1>5. \E K \in SUBSET odd : /\ Cardinality(K) = k
                            /\ \A c \in K, d \in odd \ K : c.weight <= d.weight
  <2> HIDE DEF odd
  <2> QED BY <1>4, LightestExist DEF odd
<1>6. suppressed \in SUBSET odd /\ Cardinality(suppressed) = k
  <2> HIDE DEF odd
  <2> QED BY <1>5
<1> HIDE DEF suppressed
<1>7. Odd(MostSpecific(S)) = odd \ suppressed
  BY <1>1 DEF Odd
<1>8. IsFiniteSet(odd \ suppressed) /\ Cardinality(odd \ suppressed) \in Nat
  BY FS_Subset, FS_CardinalityType
<1>9. Cardinality(odd \ suppressed) = Cardinality(odd) - k
  <2>1. odd \cap suppressed = suppressed
    BY <1>6
  <2>2. Cardinality(odd \ suppressed) = Cardinality(odd) - Cardinality(odd \cap suppressed)
    BY FS_Difference
  <2> QED BY <1>6, <2>1, <2>2
<1>10. \A c \in S : c.id \notin Coincidences => c \in MostSpecific(S)
  BY <1>1, <1>6 DEF Odd
<1>11. MostSpecific(S) \subseteq S
  BY <1>1
<1> QED BY <1>4, <1>7, <1>8, <1>9, <1>10, <1>11

\* Finitely many notes with a number for a weight.
Weighs(S) == IsFiniteSet(S) /\ \A c \in S : c.weight \in Nat

AllWeighted(S, whole) == {Weighted(c, whole) : c \in S}

LEMMA WeighedFits ==
    ASSUME NEW S, NEW d, S \subseteq {d}, \A c \in S : IsNote(c) /\ c.n \in Nat,
           NEW whole \in Nat \ {0}
    PROVE  Weighs(AllWeighted(S, whole))
<1>1. AllWeighted(S, whole) \subseteq {Weighted(d, whole)}
  BY DEF AllWeighted
<1>2. IsFiniteSet(AllWeighted(S, whole))
  BY <1>1, FS_Singleton, FS_Subset
<1>3. \A c \in S : Weighted(c, whole).weight \in Nat
  BY WeightIsNumber
<1> QED BY <1>2, <1>3 DEF Weighs, AllWeighted

LEMMA RecordWeighs ==
    ASSUME NEW id, NEW t, NEW l, IsTable(l), NEW least, NEW keys, NEW whole \in Nat \ {0}
    PROVE  Weighs(AllWeighted(Record(id, t, l, least, keys), whole))
<1> DEFINE new == Candidate(id, {t}, Tally(l, keys), Len(l), LastOf(l))
           S == Record(id, t, l, least, keys)
<1>1. S \subseteq {new}
  BY DEF Record
<1>2. \A c \in S : Records(c, id, t, l, keys)
  BY RecordTells, Zenon
<1>3. \A c \in S : IsNoteOf(c, id)
  BY RecordIsNote, Zenon
<1>4. Len(l) \in Nat
  BY TableFits
<1> HIDE DEF new, S
<1>5. \A c \in S : IsNote(c) /\ c.n \in Nat
  BY <1>2, <1>3, <1>4 DEF Records, IsNoteOf
<1>6. Weighs(AllWeighted(S, whole))
  BY <1>1, <1>5, WeighedFits
<1> QED BY <1>6 DEF S

LEMMA WeekdayWeighs ==
    ASSUME NEW t, NEW s, SeenTable(s)
    PROVE  Weighs(WeekdayQuirk(t, s))
<1> DEFINE wins == Picked(s, Mask(s, IsWin))
           I == Mask(wins, LAMBDA r : r.day % Span.week = LastOf(wins) % Span.week)
           k == Longest(Len(wins), I)
           l == Latest(wins, k)
<1>1. Mask(s, IsWin) \subseteq DOMAIN s
  BY DEF Mask
<1>2. IsTable(wins)
  BY <1>1, PickedFits DEF SeenTable
<1>3. WeekdayQuirk(t, s)
        = AllWeighted(Record("day_of_week_streak", t, l, Least.wins, {"games"}), 8)
  BY Zenon DEF WeekdayQuirk, AllWeighted, TrailingRun, Where
<1> HIDE DEF wins, I
<1>4. k = Longest(Len(wins), I)
  OBVIOUS
<1> HIDE DEF k
<1>5. IsTable(l)
  BY <1>2, <1>4, TrailingRunFits
<1> HIDE DEF l
<1>6. 8 \in Nat \ {0}
  OBVIOUS
<1>7. Weighs(AllWeighted(Record("day_of_week_streak", t, l, Least.wins, {"games"}), 8))
  BY <1>5, <1>6, RecordWeighs, Zenon
<1> QED BY <1>3, <1>7

LEMMA CalendarWeighs ==
    ASSUME NEW t, NEW s, SeenTable(s)
    PROVE  Weighs(CalendarQuirk(t, s))
<1> DEFINE I == Mask(s, LAMBDA r : r.day % Span.year = Kickoff % Span.year)
           l == Picked(s, I)
<1>1. I \subseteq DOMAIN s
  BY DEF Mask
<1>2. CalendarQuirk(t, s)
        = AllWeighted(Record("calendar_date_repeat", t, l, Least.dates, {"games", "wins"}), 6)
  BY Zenon DEF CalendarQuirk, AllWeighted, Where
<1> HIDE DEF I
<1>3. IsTable(l)
  BY <1>1, PickedFits DEF SeenTable
<1> HIDE DEF l
<1>4. 6 \in Nat \ {0}
  OBVIOUS
<1>5. Weighs(AllWeighted(Record("calendar_date_repeat", t, l, Least.dates, {"games", "wins"}), 6))
  BY <1>3, <1>4, RecordWeighs, Zenon
<1> QED BY <1>2, <1>5

LEMMA OwnGoalWeighs ==
    ASSUME NEW t, NEW table, IsFiniteSet(table)
    PROVE  Weighs(OwnGoalQuirk(t, table))
<1> DEFINE own == {r \in table : r.goal.team = t /\ r.goal.own}
           n == Cardinality(own)
           last == LastIn(own)
           says == [own |-> Times(n)]
           d == Candidate("own_goal_quirk", {t}, says, n, last)
<1>1. n \in Nat
  <2>1. own \subseteq table
    OBVIOUS
  <2> HIDE DEF own
  <2> QED BY <2>1, FS_Subset, FS_CardinalityType
<1>2. OwnGoalQuirk(t, table) \subseteq AllWeighted({d}, 12)
  BY DEF OwnGoalQuirk, AllWeighted
<1> HIDE DEF own, n, last, says
<1>3. IsNoteOf(d, "own_goal_quirk")
  BY CandidateIsNote, Zenon
<1>4. d.n = n
  BY DEF Candidate
<1> HIDE DEF d
<1>5. \A c \in {d} : IsNote(c) /\ c.n \in Nat
  BY <1>1, <1>3, <1>4 DEF IsNoteOf
<1>6. 12 \in Nat \ {0} /\ {d} \subseteq {d}
  OBVIOUS
<1> DEFINE S == {d}
<1>7. S \subseteq {d} /\ \A c \in S : IsNote(c) /\ c.n \in Nat
  BY <1>5
<1> HIDE DEF S
<1>8. Weighs(AllWeighted(S, 12))
  BY <1>6, <1>7, WeighedFits
<1> QED BY <1>2, <1>8, FS_Subset DEF Weighs, S

LEMMA ScorelineWeighs ==
    ASSUME NEW s, SeenTable(s)
    PROVE  Weighs(ScorelineRepeat(s))
<1> DEFINE last == s[Len(s)]
           I == Mask(s, LAMBDA r : {r.gf, r.ga} = {last.gf, last.ga})
           same == Cardinality(I)
           says == Joined(LastScore(s), [repeats |-> Times(same), games |-> Times(Len(s))])
           both == {fixture.home, fixture.away}
           day == LastOf(s)
           d == Candidate("scoreline_repeat", both, says, same, day)
<1>1. Len(s) \in Nat /\ DOMAIN s = 1 .. Len(s)
  BY TableFits DEF SeenTable
<1>2. same \in Nat
  <2>1. I \subseteq 1 .. Len(s)
    BY <1>1 DEF Mask
  <2> HIDE DEF I
  <2> QED BY <1>1, <2>1, PlacesCount
<1>3. s # <<>> => Len(s) # 0
  BY DEF SeenTable, IsTable
<1>4. ScorelineRepeat(s) \subseteq (IF s = <<>> THEN {} ELSE {Weighted(d, Len(s))})
  BY Zenon DEF ScorelineRepeat, CountIf, Between
<1> HIDE DEF last, I, same, says, both, day
<1>5. IsNoteOf(d, "scoreline_repeat")
  BY CandidateIsNote, Zenon
<1>6. d.n = same
  BY DEF Candidate
<1> HIDE DEF d
<1> DEFINE S == {d}
           n == Len(s)
<1>7. S \subseteq {d} /\ \A c \in S : IsNote(c) /\ c.n \in Nat
  BY <1>2, <1>5, <1>6 DEF IsNoteOf
<1>8. CASE s = <<>>
  <2>1. ScorelineRepeat(s) = {}
    BY <1>4, <1>8
  <2> QED BY <2>1, FS_EmptySet DEF Weighs
<1>9. CASE s # <<>>
  <2>1. n \in Nat \ {0}
    BY <1>1, <1>3, <1>9
  <2>2. ScorelineRepeat(s) \subseteq AllWeighted(S, n)
    BY <1>4, <1>9 DEF AllWeighted
  <2> HIDE DEF S, n
  <2>3. Weighs(AllWeighted(S, n))
    BY <1>7, <2>1, WeighedFits
  <2> QED BY <2>2, <2>3, FS_Subset DEF Weighs
<1> QED BY <1>8, <1>9

\* The template that has proposed a note.
LEMMA NoteIn ==
    ASSUME NEW c \in Proposed
    PROVE  /\ c.id \in FormIds => \E t \in Sides : c \in Form(t, History(t))
           /\ c.id = "clean_sheet_rate" => \E t \in Sides : c \in Signature(t, History(t))
           /\ c.id = "biggest_win" => \E t \in Sides : c \in BiggestWin(t, History(t))
           /\ c.id \in {"ht_comeback_record", "ht_lead_conversion"} =>
                 \E t \in Sides : c \in HalfTimes(t, History(t))
           /\ c.id = "day_of_week_streak" => \E t \in Sides : c \in WeekdayQuirk(t, History(t))
           /\ c.id = "calendar_date_repeat" => \E t \in Sides : c \in CalendarQuirk(t, History(t))
           /\ c.id = "top_scorer" => \E t \in Sides : c \in TopScorer(t, OwnGoals)
           /\ c.id = "in_form_scorer" =>
                 \E t \in Sides : c \in InFormScorer(t, History(t), OwnGoals)
           /\ c.id = "own_goal_quirk" => \E t \in Sides : c \in OwnGoalQuirk(t, OwnGoals)
           /\ c.id = "head_to_head_record" => c \in HeadToHeadRecord(Met)
           /\ c.id = "head_to_head_goals" => c \in HeadToHeadGoals(Met)
           /\ c.id = "scoreline_repeat" => c \in ScorelineRepeat(Met)
<1>1. c.id \in GameIds => \E t \in Sides : c \in OfGames(t, History(t))
  BY NotesById
<1>2. c.id \in GoalIds => \E t \in Sides : c \in OfGoals(t, History(t), OwnGoals)
  BY NotesById
<1>3. c.id \in MeetingIds => c \in OfMeetings(Met)
  BY NotesById
<1>4. ASSUME NEW t, c \in OfGames(t, History(t))
      PROVE  /\ c.id \in FormIds => c \in Form(t, History(t))
             /\ c.id = "clean_sheet_rate" => c \in Signature(t, History(t))
             /\ c.id = "biggest_win" => c \in BiggestWin(t, History(t))
             /\ c.id \in {"ht_comeback_record", "ht_lead_conversion"} =>
                   c \in HalfTimes(t, History(t))
             /\ c.id = "day_of_week_streak" => c \in WeekdayQuirk(t, History(t))
             /\ c.id = "calendar_date_repeat" => c \in CalendarQuirk(t, History(t))
  BY <1>4, GameNotes DEF FormIds
<1>5. ASSUME NEW t, c \in OfGoals(t, History(t), OwnGoals)
      PROVE  /\ c.id = "top_scorer" => c \in TopScorer(t, OwnGoals)
             /\ c.id = "in_form_scorer" => c \in InFormScorer(t, History(t), OwnGoals)
             /\ c.id = "own_goal_quirk" => c \in OwnGoalQuirk(t, OwnGoals)
  BY <1>5, GoalNotes
<1>6. c \in OfMeetings(Met) =>
        /\ c.id = "head_to_head_record" => c \in HeadToHeadRecord(Met)
        /\ c.id = "head_to_head_goals" => c \in HeadToHeadGoals(Met)
        /\ c.id = "scoreline_repeat" => c \in ScorelineRepeat(Met)
  BY MeetingNotes
<1>7. c.id \in FormIds => c.id \in GameIds
  BY DEF GameIds
<1>8. /\ c.id = "clean_sheet_rate" => c.id \in GameIds
      /\ c.id = "biggest_win" => c.id \in GameIds
      /\ c.id \in {"ht_comeback_record", "ht_lead_conversion"} => c.id \in GameIds
      /\ c.id = "day_of_week_streak" => c.id \in GameIds
      /\ c.id = "calendar_date_repeat" => c.id \in GameIds
      /\ c.id = "top_scorer" => c.id \in GoalIds
      /\ c.id = "in_form_scorer" => c.id \in GoalIds
      /\ c.id = "own_goal_quirk" => c.id \in GoalIds
      /\ c.id = "head_to_head_record" => c.id \in MeetingIds
      /\ c.id = "head_to_head_goals" => c.id \in MeetingIds
      /\ c.id = "scoreline_repeat" => c.id \in MeetingIds
  BY DEF GameIds, GoalIds, MeetingIds
<1> QED BY <1>1, <1>2, <1>3, <1>4, <1>5, <1>6, <1>7, <1>8

LEMMA HistoriesFit ==
    ASSUME GameTable(games)
    PROVE  /\ \A t : SeenTable(History(t))
           /\ SeenTable(Met)
           /\ IsFiniteSet(OwnGoals)
<1>1. GameTable(OwnGames)
  BY OwnGamesFit
<1>2. IsFiniteSet(GoalRows(OwnGames))
  BY <1>1, GoalsAreFinite
<1> QED BY <1>1, <1>2, PerspectiveFits, MeetingsFit, FS_EmptySet DEF History, Met, OwnGoals

WorldCupIds == {"wc_pedigree", "wc_awards"}

LEMMA UnionWeighs ==
    ASSUME NEW A, NEW B, Weighs(A), Weighs(B)
    PROVE  Weighs(A \cup B)
BY FS_Union DEF Weighs

QuirksOf(t) ==
    (WeekdayQuirk(t, History(t)) \cup CalendarQuirk(t, History(t))) \cup OwnGoalQuirk(t, OwnGoals)
Quirks == (QuirksOf(fixture.home) \cup QuirksOf(fixture.away)) \cup ScorelineRepeat(Met)

\* The coincidences among what is proposed are finitely many.
LEMMA OddWeighs ==
    ASSUME GameTable(games), NEW S, \A c \in S : c \in Proposed \/ c.id \in WorldCupIds
    PROVE  Weighs(Odd(S))
<1>1. ASSUME NEW t PROVE Weighs(QuirksOf(t))
  <2>1. /\ Weighs(WeekdayQuirk(t, History(t))) /\ Weighs(CalendarQuirk(t, History(t)))
        /\ Weighs(OwnGoalQuirk(t, OwnGoals))
    BY HistoriesFit, WeekdayWeighs, CalendarWeighs, OwnGoalWeighs
  <2>2. Weighs(WeekdayQuirk(t, History(t)) \cup CalendarQuirk(t, History(t)))
    BY <2>1, UnionWeighs
  <2> QED BY <2>1, <2>2, UnionWeighs DEF QuirksOf
<1>2. Weighs(ScorelineRepeat(Met))
  BY HistoriesFit, ScorelineWeighs
<1>3. Weighs(QuirksOf(fixture.home) \cup QuirksOf(fixture.away))
  BY <1>1, UnionWeighs
<1>4. Weighs(Quirks)
  BY <1>2, <1>3, UnionWeighs DEF Quirks
<1>5. Odd(S) \subseteq Quirks
  <2> SUFFICES ASSUME NEW c \in Odd(S) PROVE c \in Quirks
    OBVIOUS
  <2>1. c \in S /\ c.id \in Coincidences
    BY DEF Odd
  <2>2. c \in Proposed
    BY <2>1 DEF WorldCupIds, Coincidences
  <2>3. \/ \E t \in Sides : c \in WeekdayQuirk(t, History(t))
        \/ \E t \in Sides : c \in CalendarQuirk(t, History(t))
        \/ \E t \in Sides : c \in OwnGoalQuirk(t, OwnGoals)
        \/ c \in ScorelineRepeat(Met)
    BY <2>1, <2>2, NoteIn DEF Coincidences
  <2>4. (\E t \in Sides : c \in QuirksOf(t)) \/ c \in ScorelineRepeat(Met)
    BY <2>3 DEF QuirksOf
  <2> QED BY <2>4 DEF Quirks, Sides
<1> QED BY <1>4, <1>5, FS_Subset DEF Weighs

-------------------------------------------------------------------------------
(* The notes agree. *)

WinsAreTold(S, c) ==
    \E u \in S : /\ u.id = "unbeaten_run" /\ u.about = c.about
                 /\ Said(u, "wins") >= Said(c, "games")
SharesDraws(u, w) ==
    {Said(u, "draws"), Said(w, "draws")}
        \cap 0 .. Min({Said(u, "games"), Said(w, "games")}) - 1 = {}
CleanEnough(c, r) == Said(r, "clean") >= Min({Span.rate, Said(c, "games")})
AddsUp(m) == Said(m, "wins") + Said(m, "draws") + Said(m, "losses") = Said(m, "games")

\* What the notes of S say of one team, or of the two, fits together: pair by pair.
PairsAgree(S) ==
    /\ \A c \in S : c.id = "win_streak" => WinsAreTold(S, c)
    /\ \A u, w \in S : u.id = "unbeaten_run" /\ w.id = "winless_run" /\ u.about = w.about =>
          SharesDraws(u, w)
    /\ \A c, r \in S : c.id = "clean_sheet_run" /\ r.id = "clean_sheet_rate" /\ c.about = r.about =>
          CleanEnough(c, r)
    /\ \A m \in S : m.id = "head_to_head_record" => AddsUp(m)
    /\ \A m, g \in S : m.id = "head_to_head_record" /\ g.id = "head_to_head_goals" =>
          Said(g, "games") = Said(m, "games")
    /\ \A f, t \in S : f.id = "in_form_scorer" /\ t.id = "top_scorer" /\ f.about = t.about =>
          Said(f, "goals") <= Said(t, "goals")
    /\ \A b, k, l \in S :
          (/\ b.id = "biggest_win" /\ k.id = "ht_comeback_record" /\ l.id = "ht_lead_conversion"
           /\ b.about = k.about /\ b.about = l.about) =>
          Said(k, "games") + Said(l, "games") <= b.n

LEMMA PairsAreEnough ==
    ASSUME NEW S, PairsAgree(S)
    PROVE  NotesAgree(S)
<1> DEFINE OfId(id, about) == {c \in S : c.id = id /\ c.about = about}
<1>1. \A id, about : \A c \in OfId(id, about) : c \in S /\ c.id = id /\ c.about = about
  OBVIOUS
<1>2. \A about : \A c \in OfId("win_streak", about) : \E u \in OfId("unbeaten_run", about) :
        Said(u, "wins") >= Said(c, "games")
  BY DEF PairsAgree, WinsAreTold
<1>3. ASSUME NEW about PROVE
        \A u \in OfId("unbeaten_run", about), w \in OfId("winless_run", about) : SharesDraws(u, w)
  BY DEF PairsAgree
<1>4. ASSUME NEW about PROVE
        \A c \in OfId("clean_sheet_run", about), r \in OfId("clean_sheet_rate", about) :
           CleanEnough(c, r)
  BY DEF PairsAgree
<1>5. ASSUME NEW about PROVE
        \A m \in OfId("head_to_head_record", about) :
           AddsUp(m) /\ \A g \in OfId("head_to_head_goals", about) : Said(g, "games") = Said(m, "games")
  BY DEF PairsAgree
<1>6. ASSUME NEW about PROVE
        \A f \in OfId("in_form_scorer", about) : \A t \in OfId("top_scorer", about) :
           Said(f, "goals") <= Said(t, "goals")
  BY DEF PairsAgree
<1>7. ASSUME NEW about PROVE
        \A b \in OfId("biggest_win", about) :
           \A k \in OfId("ht_comeback_record", about), l \in OfId("ht_lead_conversion", about) :
              Said(k, "games") + Said(l, "games") <= b.n
  BY DEF PairsAgree
<1> HIDE DEF OfId
<1> SUFFICES ASSUME NEW about
    PROVE /\ \A c \in OfId("win_streak", about) : \E u \in OfId("unbeaten_run", about) :
                Said(u, "wins") >= Said(c, "games")
          /\ \A u \in OfId("unbeaten_run", about), w \in OfId("winless_run", about) :
                {Said(u, "draws"), Said(w, "draws")}
                    \cap 0 .. Min({Said(u, "games"), Said(w, "games")}) - 1 = {}
          /\ \A c \in OfId("clean_sheet_run", about), r \in OfId("clean_sheet_rate", about) :
                Said(r, "clean") >= Min({Span.rate, Said(c, "games")})
          /\ \A m \in OfId("head_to_head_record", about) :
                /\ Said(m, "wins") + Said(m, "draws") + Said(m, "losses") = Said(m, "games")
                /\ \A g \in OfId("head_to_head_goals", about) : Said(g, "games") = Said(m, "games")
          /\ \A f \in OfId("in_form_scorer", about) : \A t \in OfId("top_scorer", about) :
                Said(f, "goals") <= Said(t, "goals")
          /\ \A b \in OfId("biggest_win", about) :
                \A k \in OfId("ht_comeback_record", about), l \in OfId("ht_lead_conversion", about) :
                    Said(k, "games") + Said(l, "games") <= b.n
  BY Zenon DEF NotesAgree, OfId
<1>8. \A u \in OfId("unbeaten_run", about), w \in OfId("winless_run", about) :
                {Said(u, "draws"), Said(w, "draws")}
                    \cap 0 .. Min({Said(u, "games"), Said(w, "games")}) - 1 = {}
  BY <1>3, Zenon DEF SharesDraws
<1>9. \A c \in OfId("clean_sheet_run", about), r \in OfId("clean_sheet_rate", about) :
                Said(r, "clean") >= Min({Span.rate, Said(c, "games")})
  BY <1>4, Zenon DEF CleanEnough
<1>10. \A m \in OfId("head_to_head_record", about) :
                /\ Said(m, "wins") + Said(m, "draws") + Said(m, "losses") = Said(m, "games")
                /\ \A g \in OfId("head_to_head_goals", about) : Said(g, "games") = Said(m, "games")
  BY <1>5, Zenon DEF AddsUp
<1> QED BY <1>2, <1>6, <1>7, <1>8, <1>9, <1>10, Zenon

\* The notes of F tell what those of D tell.
SaysAs(c, d) ==
    /\ c.id = d.id /\ c.about = d.about /\ c.says = d.says /\ c.n = d.n

LEMMA TellingAgrees ==
    ASSUME NEW D, NEW F, PairsAgree(D), \A c \in F : \E d \in D : SaysAs(c, d),
           \A d \in D : \E c \in F : SaysAs(c, d)
    PROVE  PairsAgree(F)
<1>1. ASSUME NEW c \in F, c.id = "win_streak" PROVE WinsAreTold(F, c)
  <2>1. PICK d \in D : SaysAs(c, d)
    OBVIOUS
  <2>2. WinsAreTold(D, d)
    BY <1>1, <2>1 DEF PairsAgree, SaysAs
  <2>3. PICK v \in D : v.id = "unbeaten_run" /\ v.about = d.about
                       /\ Said(v, "wins") >= Said(d, "games")
    BY <2>2 DEF WinsAreTold
  <2>4. PICK u \in F : SaysAs(u, v)
    OBVIOUS
  <2> QED BY <2>1, <2>3, <2>4 DEF WinsAreTold, SaysAs, Said
<1>2. ASSUME NEW u \in F, NEW w \in F, u.id = "unbeaten_run", w.id = "winless_run",
             u.about = w.about
      PROVE  SharesDraws(u, w)
  <2>1. \A x, y \in D : x.id = "unbeaten_run" /\ y.id = "winless_run" /\ x.about = y.about =>
          SharesDraws(x, y)
    BY Zenon DEF PairsAgree
  <2>2. PICK x \in D : SaysAs(u, x)
    OBVIOUS
  <2>3. PICK y \in D : SaysAs(w, y)
    OBVIOUS
  <2>4. x.id = "unbeaten_run" /\ y.id = "winless_run" /\ x.about = y.about
    BY <1>2, <2>2, <2>3 DEF SaysAs
  <2>5. SharesDraws(x, y)
    BY <2>1, <2>4, Zenon
  <2>6. u.says = x.says /\ w.says = y.says
    BY <2>2, <2>3 DEF SaysAs
  <2> QED BY <2>5, <2>6, Zenon DEF SharesDraws, Said
<1>3. ASSUME NEW c \in F, NEW r \in F, c.id = "clean_sheet_run", r.id = "clean_sheet_rate",
             c.about = r.about
      PROVE  CleanEnough(c, r)
  <2>1. \A x, y \in D : x.id = "clean_sheet_run" /\ y.id = "clean_sheet_rate" /\ x.about = y.about =>
          CleanEnough(x, y)
    BY Zenon DEF PairsAgree
  <2>2. PICK x \in D : SaysAs(c, x)
    OBVIOUS
  <2>3. PICK y \in D : SaysAs(r, y)
    OBVIOUS
  <2>4. x.id = "clean_sheet_run" /\ y.id = "clean_sheet_rate" /\ x.about = y.about
    BY <1>3, <2>2, <2>3 DEF SaysAs
  <2>5. CleanEnough(x, y)
    BY <2>1, <2>4, Zenon
  <2>6. c.says = x.says /\ r.says = y.says
    BY <2>2, <2>3 DEF SaysAs
  <2> QED BY <2>5, <2>6, Zenon DEF CleanEnough, Said
<1>4. ASSUME NEW m \in F, m.id = "head_to_head_record"
      PROVE  /\ AddsUp(m)
             /\ \A g \in F : g.id = "head_to_head_goals" => Said(g, "games") = Said(m, "games")
  <2>1. PICK x \in D : SaysAs(m, x)
    OBVIOUS
  <2>2. /\ AddsUp(x)
        /\ \A y \in D : y.id = "head_to_head_goals" => Said(y, "games") = Said(x, "games")
    BY <1>4, <2>1 DEF PairsAgree, SaysAs
  <2>3. AddsUp(m)
    BY <2>1, <2>2 DEF AddsUp, Said, SaysAs
  <2>4. ASSUME NEW g \in F, g.id = "head_to_head_goals" PROVE Said(g, "games") = Said(m, "games")
    <3>1. PICK y \in D : SaysAs(g, y)
      OBVIOUS
    <3> QED BY <2>1, <2>2, <2>4, <3>1 DEF SaysAs, Said
  <2> QED BY <2>3, <2>4
<1>5. ASSUME NEW f \in F, NEW t \in F, f.id = "in_form_scorer", t.id = "top_scorer",
             f.about = t.about
      PROVE  Said(f, "goals") <= Said(t, "goals")
  <2>1. PICK x \in D : SaysAs(f, x)
    OBVIOUS
  <2>2. PICK y \in D : SaysAs(t, y)
    OBVIOUS
  <2>3. Said(x, "goals") <= Said(y, "goals")
    BY <1>5, <2>1, <2>2 DEF PairsAgree, SaysAs
  <2> QED BY <2>1, <2>2, <2>3 DEF SaysAs, Said
<1>6. ASSUME NEW b \in F, NEW k \in F, NEW l \in F, b.id = "biggest_win",
             k.id = "ht_comeback_record", l.id = "ht_lead_conversion",
             b.about = k.about, b.about = l.about
      PROVE  Said(k, "games") + Said(l, "games") <= b.n
  <2>1. PICK x \in D : SaysAs(b, x)
    OBVIOUS
  <2>2. PICK y \in D : SaysAs(k, y)
    OBVIOUS
  <2>3. PICK z \in D : SaysAs(l, z)
    OBVIOUS
  <2>4. Said(y, "games") + Said(z, "games") <= x.n
    BY <1>6, <2>1, <2>2, <2>3, ZenonT(40) DEF PairsAgree, SaysAs
  <2> QED BY <2>1, <2>2, <2>3, <2>4 DEF SaysAs, Said
<1> QED BY <1>1, <1>2, <1>3, <1>4, <1>5, <1>6 DEF PairsAgree

LEMMA InFormAbout ==
    ASSUME NEW t, NEW s, NEW table, NEW c \in InFormScorer(t, s, table)
    PROVE  c.about = {t}
<1> DEFINE recent == Latest(s, Span.form)
           keys == {<<r.day, r.teams>> : r \in Range(recent)}
           mine == {r \in Proper(table, t) : <<r.day, r.teams>> \in keys}
           says == [goals |-> Times(MostBy(mine)), games |-> Times(Len(recent))]
           n == Len(recent)
           last == LastIn(mine)
<1>1. c \in IF s = <<>> \/ mine = {} THEN {}
            ELSE IF MostBy(mine) < Least.hot THEN {}
            ELSE {Candidate("in_form_scorer", {t}, says, n, last)}
  BY Zenon DEF InFormScorer
<1> HIDE DEF recent, keys, mine, says, n, last
<1>2. c = Candidate("in_form_scorer", {t}, says, n, last)
  BY <1>1
<1> QED BY <1>2 DEF Candidate

LEMMA TopAbout ==
    ASSUME NEW t, NEW table, NEW c \in TopScorer(t, table)
    PROVE  c.about = {t}
BY DEF TopScorer, Candidate

LEMMA HalfTimesAbout ==
    ASSUME NEW t, NEW s, NEW c \in HalfTimes(t, s)
    PROVE  c.about = {t}
<1> DEFINE known == Where(s, LAMBDA r : r.ht # "unknown")
           lJ == Where(known, LAMBDA r : r.ht \notin {t, "level"})
           lK == Where(known, LAMBDA r : r.ht = t)
           keys == {"games", "wins", "draws"}
           A == Record("ht_comeback_record", t, lJ, 1, keys)
           B == Record("ht_lead_conversion", t, lK, 1, keys)
<1>1. c \in A \/ c \in B
  BY DEF HalfTimes
<1>2. c \in A => Records(c, "ht_comeback_record", t, lJ, keys)
  BY RecordTells, Zenon
<1>3. c \in B => Records(c, "ht_lead_conversion", t, lK, keys)
  BY RecordTells, Zenon
<1> HIDE DEF A, B, lJ, lK, keys
<1> QED BY <1>1, <1>2, <1>3 DEF Records

\* Long and recent enough for the notebook, at a day.
Passes(c, asOf) == c.n >= MinSample[c.id] /\ Fresh(c, asOf)

LEMMA ProposedAgree ==
    ASSUME GameTable(games), NEW asOf \in Nat,
           NEW D, \A c \in D : (c \in Proposed /\ Passes(c, asOf)) \/ c.id \in WorldCupIds,
           \A c \in Proposed : Passes(c, asOf) /\ c.id \notin Coincidences => c \in D
    PROVE  PairsAgree(D)
<1>0. /\ \A t : SeenTable(History(t))
      /\ SeenTable(Met)
      /\ IsFiniteSet(OwnGoals)
  BY HistoriesFit
<1>1. ASSUME NEW c \in D, c.id \notin WorldCupIds PROVE c \in Proposed /\ Passes(c, asOf)
  BY <1>1
<1>2. \A t \in Sides : Form(t, History(t)) \subseteq Proposed
  BY DEF Sides, Proposed, OfSide, OfGames, History
<1>3. ASSUME NEW c \in D, c.id = "win_streak" PROVE WinsAreTold(D, c)
  <2>1. c \in Proposed /\ Passes(c, asOf)
    BY <1>1, <1>3 DEF WorldCupIds
  <2>2. PICK t \in Sides : c \in Form(t, History(t))
    BY <1>3, <2>1, NoteIn DEF FormIds
  <2>3. PICK u \in Form(t, History(t)) :
              /\ u.id = "unbeaten_run" /\ u.about = {t} /\ c.about = {t}
              /\ u.n \in Nat /\ c.n \in Nat /\ u.n >= c.n
              /\ u.last = c.last /\ c.last \in Nat
              /\ Said(u, "wins") \in Nat /\ Said(u, "wins") >= Said(c, "games")
    BY <1>0, <1>3, <2>2, WinsAreUnbeaten
  <2>4. c.n >= MinSample["win_streak"] /\ asOf - c.last <= StaleAfter["win_streak"]
    BY <1>3, <2>1 DEF Passes, Fresh
  <2>5. /\ MinSample["unbeaten_run"] \in Nat /\ MinSample["win_streak"] \in Nat
        /\ StaleAfter["unbeaten_run"] \in Nat /\ StaleAfter["win_streak"] \in Nat
        /\ MinSample["unbeaten_run"] <= MinSample["win_streak"]
        /\ StaleAfter["win_streak"] <= StaleAfter["unbeaten_run"]
    BY NotebookAssumption
  <2>6. u.n >= MinSample["unbeaten_run"] /\ asOf - u.last <= StaleAfter["unbeaten_run"]
    BY <2>3, <2>4, <2>5
  <2>7. Passes(u, asOf)
    BY <2>3, <2>6 DEF Passes, Fresh
  <2>8. u \in D
    BY <1>2, <2>3, <2>7 DEF Coincidences
  <2> QED BY <2>3, <2>8 DEF WinsAreTold
<1>4. ASSUME NEW u \in D, NEW w \in D, u.id = "unbeaten_run", w.id = "winless_run",
             u.about = w.about
      PROVE  SharesDraws(u, w)
  <2>1. u \in Proposed /\ w \in Proposed
    BY <1>1, <1>4 DEF WorldCupIds
  <2>2. PICK t \in Sides : u \in Form(t, History(t))
    BY <1>4, <2>1, NoteIn DEF FormIds
  <2>3. PICK v \in Sides : w \in Form(v, History(v))
    BY <1>4, <2>1, NoteIn DEF FormIds
  <2>4. u.about = {t} /\ w.about = {v}
    BY <1>0, <1>4, <2>2, <2>3, FormNotes DEF IsRun
  <2>5. v = t
    BY <1>4, <2>4
  <2>6. /\ Said(u, "games") \in Nat /\ Said(w, "games") \in Nat
        /\ Said(u, "draws") \in Nat /\ Said(w, "draws") \in Nat
        /\ \A n \in {Said(u, "games"), Said(w, "games")} :
              n <= Said(u, "games") /\ n <= Said(w, "games") =>
                 n <= Said(u, "draws") /\ n <= Said(w, "draws")
    BY <1>0, <1>4, <2>2, <2>3, <2>5, DrawsAreShared
  <2> DEFINE a == Said(u, "games")
             b == Said(w, "games")
             n == Min({a, b})
  <2>7. a \in Nat /\ b \in Nat
    BY <2>6
  <2>8. n \in {a, b} /\ n <= a /\ n <= b
    <3> HIDE DEF a, b
    <3>1. a \in Int /\ b \in Int
      BY <2>7
    <3>2. n = IF a < b THEN a ELSE b
      BY <3>1, GreaterOfTwo, Zenon
    <3> QED BY <2>7, <3>2
  <2>9. n <= Said(u, "draws") /\ n <= Said(w, "draws") /\ n \in Nat
    <3> HIDE DEF n
    <3> QED BY <2>6, <2>7, <2>8
  <2>10. {Said(u, "draws"), Said(w, "draws")} \cap 0 .. n - 1 = {}
    <3> HIDE DEF n
    <3> QED BY <2>6, <2>9
  <2> QED BY <2>10 DEF SharesDraws
<1>5. ASSUME NEW c \in D, NEW r \in D, c.id = "clean_sheet_run", r.id = "clean_sheet_rate",
             c.about = r.about
      PROVE  CleanEnough(c, r)
  <2>1. c \in Proposed /\ r \in Proposed
    BY <1>1, <1>5 DEF WorldCupIds
  <2>2. PICK t \in Sides : c \in Form(t, History(t))
    BY <1>5, <2>1, NoteIn DEF FormIds
  <2>3. PICK v \in Sides : r \in Signature(v, History(v))
    BY <1>5, <2>1, NoteIn
  <2>4. c.about = {t} /\ r.about = {v}
    BY <1>0, <1>5, <2>2, <2>3, FormNotes, SignatureTells DEF IsRun
  <2>5. v = t
    BY <1>5, <2>4
  <2>6. /\ Said(c, "games") \in Nat /\ Said(r, "clean") \in Nat
        /\ Said(c, "games") <= Said(r, "clean") \/ Span.rate <= Said(r, "clean")
    BY <1>0, <1>5, <2>2, <2>3, <2>5, CleanRunsAgree
  <2> DEFINE a == Span.rate
             b == Said(c, "games")
             n == Min({a, b})
  <2>7. a \in Nat /\ b \in Nat
    BY <2>6, NotebookAssumption
  <2>8. n = IF a < b THEN a ELSE b
    <3> HIDE DEF a, b
    <3>1. a \in Int /\ b \in Int
      BY <2>7
    <3> QED BY <3>1, GreaterOfTwo, Zenon
  <2>9. Said(r, "clean") >= n
    <3> HIDE DEF n
    <3> QED BY <2>6, <2>7, <2>8
  <2> QED BY <2>9 DEF CleanEnough
<1>6. ASSUME NEW m \in D, m.id = "head_to_head_record"
      PROVE  /\ AddsUp(m)
             /\ \A g \in D : g.id = "head_to_head_goals" => Said(g, "games") = Said(m, "games")
  <2>1. m \in HeadToHeadRecord(Met)
    BY <1>1, <1>6, NoteIn DEF WorldCupIds
  <2>2. \A g \in D : g.id = "head_to_head_goals" => g \in HeadToHeadGoals(Met)
    BY <1>1, NoteIn DEF WorldCupIds
  <2>3. /\ Said(m, "wins") + Said(m, "draws") + Said(m, "losses") = Said(m, "games")
        /\ Said(m, "games") = Len(Met)
    BY <1>0, <2>1, MeetingsTell
  <2>4. \A g \in HeadToHeadGoals(Met) : Said(g, "games") = Len(Met)
    BY <1>0, MeetingsTell
  <2> QED BY <2>2, <2>3, <2>4 DEF AddsUp
<1>7. ASSUME NEW f \in D, NEW t \in D, f.id = "in_form_scorer", t.id = "top_scorer",
             f.about = t.about
      PROVE  Said(f, "goals") <= Said(t, "goals")
  <2>1. f \in Proposed /\ t \in Proposed
    BY <1>1, <1>7 DEF WorldCupIds
  <2>2. PICK x \in Sides : f \in InFormScorer(x, History(x), OwnGoals)
    BY <1>7, <2>1, NoteIn
  <2>3. PICK y \in Sides : t \in TopScorer(y, OwnGoals)
    BY <1>7, <2>1, NoteIn
  <2>4. f.about = {x}
    BY <2>2, InFormAbout
  <2>5. t.about = {y}
    BY <2>3, TopAbout
  <2>6. x = y
    BY <1>7, <2>4, <2>5
  <2> QED BY <1>0, <2>2, <2>3, <2>6, ScorersTell
<1>8. ASSUME NEW b \in D, NEW k \in D, NEW l \in D, b.id = "biggest_win",
             k.id = "ht_comeback_record", l.id = "ht_lead_conversion",
             b.about = k.about, b.about = l.about
      PROVE  Said(k, "games") + Said(l, "games") <= b.n
  <2>1. b \in Proposed /\ k \in Proposed /\ l \in Proposed
    BY <1>1, <1>8 DEF WorldCupIds
  <2>2. PICK x \in Sides : b \in BiggestWin(x, History(x))
    BY <1>8, <2>1, NoteIn
  <2>3. PICK y \in Sides : k \in HalfTimes(y, History(y))
    BY <1>8, <2>1, NoteIn
  <2>4. PICK z \in Sides : l \in HalfTimes(z, History(z))
    BY <1>8, <2>1, NoteIn
  <2>5. b.about = {x} /\ b.n = Len(History(x))
    BY <2>2, BiggestWinTells
  <2>6. k.about = {y} /\ l.about = {z}
    BY <2>3, <2>4, HalfTimesAbout
  <2>7. x = y /\ x = z
    BY <1>8, <2>5, <2>6
  <2>8. Said(k, "games") + Said(l, "games") <= Len(History(x))
    BY <1>0, <1>8, <2>3, <2>4, <2>7, HalfTimesTell
  <2> QED BY <2>5, <2>8
<1> QED BY <1>3, <1>4, <1>5, <1>6, <1>7, <1>8 DEF PairsAgree

-------------------------------------------------------------------------------
(* The notebook. *)

\* A fact may cite a source of its own.
IsCited(c) == DOMAIN c = Fields /\ c = [k \in Fields |-> c[k]]

LEMMA WorldCupIsCited == \A t : \A c \in WorldCupFacts(t) : IsCited(c) /\ c.id \in WorldCupIds
<1> DEFINE FromCups(id, t, says, n, last) ==
             [Candidate(id, {t}, says, n, last) EXCEPT !.source = WorldCups]
           CupFact(c) == IsCited(c) /\ c.id \in WorldCupIds
<1>1. \A id, t, says, n, last : id \in WorldCupIds => CupFact(FromCups(id, t, says, n, last))
  BY DEF Candidate, IsCited, Fields
<1>2. "wc_pedigree" \in WorldCupIds /\ "wc_awards" \in WorldCupIds
  BY DEF WorldCupIds
<1> SUFFICES ASSUME NEW t, NEW c \in WorldCupFacts(t) PROVE CupFact(c)
  OBVIOUS
<1> DEFINE over == {x \in Pedigree[t] : x.end <= Kickoff}
           awards == MapThenSumSet(LAMBDA x : x.awards, over)
           last == Max({x.end : x \in over})
           apps == [apps |-> Times(Cardinality(over)),
                    titles |-> Times(Cardinality({x \in over : x.title}))]
<1>3. c \in IF fixture.comp # "World Cup" \/ over = {} THEN {}
           ELSE {FromCups("wc_pedigree", t, apps, Cardinality(over), last)}
                \cup (IF awards = 0 THEN {}
                      ELSE {FromCups("wc_awards", t, [awards |-> Times(awards)], awards, last)})
  BY Zenon DEF WorldCupFacts
<1> HIDE DEF FromCups, CupFact, over, awards, last, apps
<1> QED BY Zenon, <1>1, <1>2, <1>3

\* A fact of a notebook cites a source of it and says no digit that it does not display.
NotesFit(notebook) ==
    \A c \in notebook.facts :
        IsCited(c) /\ c.source \in notebook.sources /\ Text(c) \subseteq DisplaysOf(c)

LEMMA EmptyFits == NotesFit(NoNotebook) /\ NotesFit(Unreadable)
<1>1. NoNotebook.facts = {} /\ Unreadable.facts = {}
  BY DEF NoNotebook, Unreadable
<1> QED BY <1>1 DEF NotesFit

LEMMA MostSpecificClears ==
    ASSUME NEW S
    PROVE  MostSpecific(S) \subseteq S
<1> QED BY Zenon DEF MostSpecific

LEMMA SourcedKeeps ==
    ASSUME NEW c, IsCited(c), NEW own
    PROVE  LET d == [c EXCEPT !.source = own]
           IN  /\ IsCited(d) /\ d.source = own
               /\ Text(d) = Text(c) /\ DisplaysOf(d) = DisplaysOf(c)
<1> DEFINE d == [c EXCEPT !.source = own]
<1>1. IsCited(d) /\ d.source = own /\ d.says = c.says /\ d.about = c.about
  BY DEF IsCited, Fields
<1> HIDE DEF d
<1>2. DisplaysOf(d) = DisplaysOf(c)
  BY <1>1 DEF DisplaysOf
<1>3. Text(d) = Text(c)
  BY <1>1, <1>2 DEF Text
<1> QED BY <1>1, <1>2, <1>3 DEF d

\* The guardrails leave only such facts, or no notebook.
LEMMA BuiltFits ==
    ASSUME NEW proposed, \A c \in proposed : IsCited(c), NEW own, NEW asOf
    PROVE  /\ NotesFit(Built(proposed, own, asOf))
           /\ (\A c \in proposed : c.source = Pack)
                  => \A c \in Built(proposed, own, asOf).facts : c.source = own
<1> DEFINE cleared == {c \in proposed : c.n >= MinSample[c.id] /\ Fresh(c, asOf)}
           Sourced(c) == IF c.source = Pack THEN [c EXCEPT !.source = own] ELSE c
           facts == {Sourced(c) : c \in MostSpecific(cleared)}
           whole == [facts |-> facts, own |-> own, sources |-> {own} \cup {c.source : c \in facts}]
<1>1. Built(proposed, own, asOf) =
          IF \E c \in cleared : ~(Text(c) \subseteq DisplaysOf(c)) THEN NoNotebook ELSE whole
  BY Zenon DEF Built
<1>2. MostSpecific(cleared) \subseteq proposed /\ MostSpecific(cleared) \subseteq cleared
  <2>1. MostSpecific(cleared) \subseteq cleared
    <3> HIDE DEF cleared
    <3> QED BY MostSpecificClears
  <2> QED BY <2>1
<1>3. CASE \E c \in cleared : ~(Text(c) \subseteq DisplaysOf(c))
  <2>1. Built(proposed, own, asOf) = NoNotebook
    BY <1>1, <1>3
  <2>2. NoNotebook.facts = {}
    BY DEF NoNotebook
  <2> QED BY <2>1, <2>2, EmptyFits
<1>4. CASE \A c \in cleared : Text(c) \subseteq DisplaysOf(c)
  <2>1. Built(proposed, own, asOf) = whole
    BY <1>1, <1>4
  <2>2. ASSUME NEW c \in MostSpecific(cleared)
        PROVE  /\ IsCited(Sourced(c)) /\ Text(Sourced(c)) \subseteq DisplaysOf(Sourced(c))
               /\ c.source = Pack => Sourced(c).source = own
    <3> HIDE DEF cleared
    <3>1. IsCited(c) /\ Text(c) \subseteq DisplaysOf(c)
      BY <1>2, <1>4
    <3> QED BY <3>1, SourcedKeeps
  <2> HIDE DEF cleared, Sourced
  <2>3. whole.facts = facts /\ \A c \in facts : c.source \in whole.sources
    OBVIOUS
  <2>4. NotesFit(whole)
    BY <2>2, <2>3 DEF NotesFit
  <2> HIDE DEF whole
  <2> QED BY <2>1, <2>2, <2>3, <2>4, <1>2
<1> QED BY <1>3, <1>4

LEMMA OnDemandFits == NotesFit(OnDemand)
<1>1. \A c \in Proposed \cup WorldCupFacts(fixture.home) \cup WorldCupFacts(fixture.away) :
          IsCited(c)
  BY ProposedAreNotes, WorldCupIsCited DEF IsNote, IsCited
<1> QED BY Zenon, <1>1, BuiltFits DEF OnDemand

\* What the notes of a notebook are held to.
NotesKeep(notebook) == Cardinality(Odd(notebook.facts)) <= Cap /\ NotesAgree(notebook.facts)

LEMMA EmptyKeeps ==
    ASSUME NEW notebook, notebook.facts = {}
    PROVE  NotesKeep(notebook)
<1>1. NotesAgree({})
  BY PairsAreEnough DEF PairsAgree
<1>2. Odd({}) = {}
  BY DEF Odd
<1>3. Cardinality(Odd({})) <= Cap
  BY <1>2, FS_EmptySet, NotebookAssumption
<1> QED BY <1>1, <1>3 DEF NotesKeep

\* The source replaces that of the pack, and nothing else.
SourcedAs(c, own) == IF c.source = Pack THEN [c EXCEPT !.source = own] ELSE c

LEMMA SourcedTells ==
    ASSUME NEW c, IsCited(c), NEW own
    PROVE  SaysAs(SourcedAs(c, own), c)
<1>1. CASE c.source = Pack
  <2> DEFINE d == [c EXCEPT !.source = own]
  <2>1. d.id = c.id /\ d.about = c.about /\ d.says = c.says /\ d.n = c.n
    BY DEF IsCited, Fields
  <2> HIDE DEF d
  <2> QED BY <1>1, <2>1 DEF SaysAs, SourcedAs, d
<1>2. CASE c.source # Pack
  BY <1>2 DEF SaysAs, SourcedAs
<1> QED BY <1>1, <1>2

\* Kept notes stay within the cap, and agree, when they get their source.
LEMMA SourcedKeep ==
    ASSUME NEW D, \A c \in D : IsCited(c), PairsAgree(D),
           IsFiniteSet(Odd(D)), Cardinality(Odd(D)) <= Cap, Cap \in Nat,
           NEW own, NEW F, F = {SourcedAs(c, own) : c \in D}
    PROVE  Cardinality(Odd(F)) <= Cap /\ NotesAgree(F)
<1>1. \A c \in D : SaysAs(SourcedAs(c, own), c)
  BY SourcedTells
<1>2. /\ \A c \in F : \E d \in D : c = SourcedAs(d, own)
      /\ \A d \in D : SourcedAs(d, own) \in F
  OBVIOUS
<1>3. PairsAgree(F)
  <2>1. \A c \in F : \E d \in D : SaysAs(c, d)
    BY <1>1, <1>2
  <2>2. \A d \in D : \E c \in F : SaysAs(c, d)
    BY <1>1, <1>2
  <2> QED BY <2>1, <2>2, TellingAgrees
<1>4. NotesAgree(F)
  BY <1>3, PairsAreEnough
<1> DEFINE f == [c \in Odd(D) |-> SourcedAs(c, own)]
<1>5. f \in Surjection(Odd(D), Odd(F))
  <2>1. \A c \in D : SourcedAs(c, own).id = c.id
    BY <1>1 DEF SaysAs
  <2>2. \A c \in Odd(D) : SourcedAs(c, own) \in Odd(F)
    BY <1>2, <2>1 DEF Odd
  <2>3. \A e \in Odd(F) : \E c \in Odd(D) : SourcedAs(c, own) = e
    BY <1>2, <2>1 DEF Odd
  <2> QED BY <2>2, <2>3 DEF Surjection
<1>6. IsFiniteSet(Odd(F)) /\ Cardinality(Odd(F)) <= Cardinality(Odd(D))
  <2> HIDE DEF f
  <2> QED BY <1>5, FS_Surjection
<1>7. Cardinality(Odd(F)) \in Nat /\ Cardinality(Odd(D)) \in Nat
  BY <1>6, FS_CardinalityType
<1> QED BY <1>4, <1>6, <1>7

LEMMA BuiltKeeps ==
    ASSUME GameTable(games), NEW asOf \in Nat, NEW proposed,
           Proposed \subseteq proposed,
           \A c \in proposed : IsCited(c) /\ (c \in Proposed \/ c.id \in WorldCupIds), NEW own
    PROVE  NotesKeep(Built(proposed, own, asOf))
<1> DEFINE cleared == {c \in proposed : c.n >= MinSample[c.id] /\ Fresh(c, asOf)}
           D == MostSpecific(cleared)
           facts == {SourcedAs(c, own) : c \in D}
           whole == [facts |-> facts, own |-> own, sources |-> {own} \cup {c.source : c \in facts}]
<1>1. Built(proposed, own, asOf) =
          IF \E c \in cleared : ~(Text(c) \subseteq DisplaysOf(c)) THEN NoNotebook ELSE whole
  BY Zenon DEF Built, SourcedAs
<1>2. cleared = {c \in proposed : Passes(c, asOf)}
  BY DEF Passes
<1> HIDE DEF cleared
<1>3. IsFiniteSet(Odd(cleared)) /\ \A c \in Odd(cleared) : c.weight \in Nat
  <2>1. \A c \in cleared : c \in Proposed \/ c.id \in WorldCupIds
    BY <1>2
  <2> QED BY <2>1, OddWeighs DEF Weighs
<1>4. /\ D \subseteq cleared
      /\ \A c \in cleared : c.id \notin Coincidences => c \in D
      /\ IsFiniteSet(Odd(D)) /\ Cardinality(Odd(D)) <= Cap
  BY <1>3, CapHolds
<1> HIDE DEF D
<1>5. PairsAgree(D)
  <2>1. \A c \in D : (c \in Proposed /\ Passes(c, asOf)) \/ c.id \in WorldCupIds
    BY <1>2, <1>4
  <2>2. \A c \in Proposed : Passes(c, asOf) /\ c.id \notin Coincidences => c \in D
    BY <1>2, <1>4
  <2> QED BY <2>1, <2>2, ProposedAgree
<1>6. \A c \in D : IsCited(c)
  BY <1>2, <1>4
<1>7. Cap \in Nat
  BY NotebookAssumption
<1>8. facts = {SourcedAs(c, own) : c \in D}
  OBVIOUS
<1>9. whole.facts = facts
  OBVIOUS
<1> HIDE DEF facts, whole
<1>10. Cardinality(Odd(facts)) <= Cap /\ NotesAgree(facts)
  BY <1>4, <1>5, <1>6, <1>7, <1>8, SourcedKeep
<1>11. NotesKeep(whole)
  BY <1>9, <1>10 DEF NotesKeep
<1>12. NotesKeep(NoNotebook)
  <2>1. NoNotebook.facts = {}
    BY DEF NoNotebook
  <2> QED BY <2>1, EmptyKeeps
<1>13. CASE \E c \in cleared : ~(Text(c) \subseteq DisplaysOf(c))
  BY <1>1, <1>12, <1>13
<1>14. CASE ~\E c \in cleared : ~(Text(c) \subseteq DisplaysOf(c))
  BY <1>1, <1>11, <1>14
<1> QED BY <1>13, <1>14

LEMMA OnDemandKeeps ==
    ASSUME GameTable(games)
    PROVE  NotesKeep(OnDemand)
<1> DEFINE all == Proposed \cup WorldCupFacts(fixture.home) \cup WorldCupFacts(fixture.away)
<1>1. \A c \in all : IsCited(c) /\ (c \in Proposed \/ c.id \in WorldCupIds)
  BY ProposedAreNotes, WorldCupIsCited DEF IsNote, IsCited
<1>2. Proposed \subseteq all
  OBVIOUS
<1>3. Kickoff \in Nat
  BY NotebookAssumption
<1>4. OnDemand = Built(all, Pack, Kickoff)
  BY DEF OnDemand
<1> HIDE DEF all
<1> QED BY <1>1, <1>2, <1>3, <1>4, BuiltKeeps

\* A day with a game.
LEMMA GamesGrow ==
    ASSUME GameTable(games), NEW day \in Nat, NEW kind \in GameKinds,
           NEW later, later = Append(games, Joined([day |-> day], kind))
    PROVE  GameTable(later)
<1> DEFINE g == Joined([day |-> day], kind)
<1>1. {"hs", "as", "goals"} \subseteq DOMAIN kind
      /\ kind.hs \in Nat /\ kind.as \in Nat /\ IsFiniteSet(kind.goals)
  BY NotebookAssumption
<1>2. IsGame(g)
  <2> DEFINE d == [day |-> day]
  <2>1. DOMAIN d = {"day"} /\ d["day"] = day
    OBVIOUS
  <2> HIDE DEF d
  <2>2. g = [k \in DOMAIN d \cup DOMAIN kind |-> IF k \in DOMAIN d THEN d[k] ELSE kind[k]]
    BY DEF Joined, d
  <2>3. g["day"] = day /\ g["hs"] = kind["hs"] /\ g["as"] = kind["as"] /\ g["goals"] = kind["goals"]
    BY <1>1, <2>1, <2>2
  <2> HIDE DEF g
  <2> QED BY <1>1, <2>3 DEF IsGame
<1> HIDE DEF g
<1>3. PICK S : games \in Seq(S)
  BY DEF GameTable, IsTable
<1> DEFINE T == S \cup {g}
<1>4. games \in Seq(T) /\ g \in T
  BY <1>3
<1> HIDE DEF T
<1>5. /\ later \in Seq(T) /\ Len(later) = Len(games) + 1
      /\ \A i \in 1 .. Len(games) : later[i] = games[i]
      /\ later[Len(games) + 1] = g
  BY <1>4 DEF g
<1>6. Len(games) \in Nat /\ DOMAIN games = 1 .. Len(games)
  BY <1>4
<1>7. DOMAIN later = 1 .. Len(games) + 1
  BY <1>5, <1>6
<1>8. \A i \in DOMAIN later : IsGame(later[i])
  BY <1>2, <1>5, <1>6, <1>7 DEF GameTable
<1> QED BY <1>5, <1>8 DEF GameTable, IsTable

-------------------------------------------------------------------------------
(* The bundles. *)

\* A number of the engine has the name x, and sources that follow from it.
EngineNumber(x, sources) ==
    [id |-> <<"engine", x>>, fact |-> [engine |-> x], display |-> <<"of", x>>,
     sources |-> sources]

IsEngine(n, A, D) == \E x : n = EngineNumber(x, IF x \in A THEN {Snapshot} ELSE D)

\* The engine's part: numbers by their names, those in A from the snapshot alone, and
\* facts that show such numbers and mention terms and names of the match alone.
IsShown(f, N, S) ==
    \E names : \E M \in SUBSET (Terminology \cup MatchNames) : \E T \in SUBSET S :
        f = Shows(names, M, T) /\ \A x \in names : \E n \in N : n.id = <<"engine", x>>
EngineFits(N, F, S, A, D) ==
    /\ \A n \in N : IsEngine(n, A, D)
    /\ \A n \in N : n.sources \subseteq S
    /\ \A f \in F : IsShown(f, N, S)

LEMMA BundleQuotes ==
    ASSUME NEW notebook, NEW scoping, NEW N, NEW F, NEW S, NEW A, NEW D,
           NotesFit(notebook), EngineFits(N, F, S, A, D),
           \A c \in Folded(notebook) : Attributed(c, scoping) \in S
    PROVE  Quotable([numbers |-> N \cup NoteNumbers(notebook, scoping),
                     facts |-> F \cup NoteFacts(notebook, scoping), sources |-> S,
                     names |-> MatchNames])
<1> DEFINE notes == NoteNumbers(notebook, scoping)
           told2 == NoteFacts(notebook, scoping)
           b == [numbers |-> N \cup notes, facts |-> F \cup told2, sources |-> S,
                 names |-> MatchNames]
<1>1. \A n \in notes : \E c \in Folded(notebook) : \E k \in DOMAIN c.says :
          n = [id |-> <<c.id, c, k>>, fact |-> c, display |-> c.says[k],
               sources |-> {Attributed(c, scoping)}]
  BY DEF NoteNumbers, NumbersOf, NumberName
<1>2. \A c \in Folded(notebook) : \A k \in DOMAIN c.says : \E n \in notes :
          n.id = <<c.id, c, k>> /\ n.display = c.says[k]
  <2> SUFFICES ASSUME NEW c \in Folded(notebook), NEW k \in DOMAIN c.says
               PROVE  \E n \in notes : n.id = <<c.id, c, k>> /\ n.display = c.says[k]
    OBVIOUS
  <2> DEFINE n == [id |-> NumberName(c, k), fact |-> c, display |-> c.says[k],
                   sources |-> {Attributed(c, scoping)}]
  <2>1. n \in NumbersOf(c, scoping)
    BY DEF NumbersOf
  <2>2. n.id = <<c.id, c, k>> /\ n.display = c.says[k]
    BY DEF NumberName
  <2>3. n \in notes
    BY <2>1, Zenon DEF NoteNumbers
  <2> HIDE DEF n, notes
  <2> QED BY <2>2, <2>3
<1>3. \A n, m \in N \cup notes : n.id = m.id => n = m
  <2>1. \A n, m \in N : n.id = m.id => n = m
    BY SMTT(30) DEF EngineFits, IsEngine, EngineNumber
  <2>2. \A n, m \in notes : n.id = m.id => n = m
    <3> SUFFICES ASSUME NEW n \in notes, NEW m \in notes, n.id = m.id PROVE n = m
      OBVIOUS
    <3> HIDE DEF notes
    <3>1. PICK c \in Folded(notebook) : \E k \in DOMAIN c.says :
              n = [id |-> <<c.id, c, k>>, fact |-> c, display |-> c.says[k],
                   sources |-> {Attributed(c, scoping)}]
      BY <1>1
    <3>2. PICK k \in DOMAIN c.says :
              n = [id |-> <<c.id, c, k>>, fact |-> c, display |-> c.says[k],
                   sources |-> {Attributed(c, scoping)}]
      BY <3>1
    <3>3. PICK d \in Folded(notebook) : \E j \in DOMAIN d.says :
              m = [id |-> <<d.id, d, j>>, fact |-> d, display |-> d.says[j],
                   sources |-> {Attributed(d, scoping)}]
      BY <1>1
    <3>4. PICK j \in DOMAIN d.says :
              m = [id |-> <<d.id, d, j>>, fact |-> d, display |-> d.says[j],
                   sources |-> {Attributed(d, scoping)}]
      BY <3>3
    <3>5. <<c.id, c, k>> = <<d.id, d, j>>
      BY <3>2, <3>4
    <3>6. c = d /\ k = j
      BY <3>5
    <3> QED BY <3>2, <3>4, <3>6
  <2>3. \A n \in N, m \in notes : n.id # m.id
    <3> HIDE DEF notes
    <3> QED BY <1>1 DEF EngineFits, IsEngine, EngineNumber
  <2> HIDE DEF notes
  <2> QED BY <2>1, <2>2, <2>3
<1>4. \A n \in N \cup notes : n.sources \subseteq S
  <2> HIDE DEF notes
  <2> QED BY <1>1 DEF EngineFits
<1>5. ASSUME NEW f \in told2
      PROVE  /\ f.sources \subseteq S
             /\ \A r \in f.refs : \E n \in notes : n.id = r
             /\ f.mentions = {}
             /\ \A d \in f.text : \E n \in notes : n.id \in f.refs /\ n.display = d
  <2>1. PICK c \in Folded(notebook) :
            f = [text |-> Text(c), mentions |-> {}, refs |-> {NumberName(c, k) : k \in DOMAIN c.says},
                 sources |-> {Attributed(c, scoping)}]
    BY DEF NoteFacts
  <2> HIDE DEF notes, told2
  <2>2. f.sources \subseteq S /\ f.mentions = {}
    BY <2>1
  <2>3. f.refs = {<<c.id, c, k>> : k \in DOMAIN c.says} /\ f.text = Text(c)
    BY <2>1 DEF NumberName
  <2>4. Text(c) \subseteq DisplaysOf(c)
    BY DEF Folded, NotesFit
  <2>5. \A d \in f.text : \E k \in DOMAIN c.says : d = c.says[k]
    BY <2>3, <2>4 DEF DisplaysOf
  <2>6. \A r \in f.refs : \E n \in notes : n.id = r
    BY <1>2, <2>3
  <2>7. ASSUME NEW d \in f.text PROVE \E n \in notes : n.id \in f.refs /\ n.display = d
    <3>1. PICK k \in DOMAIN c.says : d = c.says[k]
      BY <2>5
    <3>2. PICK n \in notes : n.id = <<c.id, c, k>> /\ n.display = c.says[k]
      BY <1>2
    <3>3. n.id \in f.refs
      BY <2>3, <3>2
    <3> QED BY <3>1, <3>2, <3>3
  <2> QED BY <2>2, <2>6, <2>7
<1>6. ASSUME NEW f \in F
      PROVE  /\ f.sources \subseteq S
             /\ \A r \in f.refs : \E n \in N : n.id = r
             /\ f.mentions \subseteq Terminology \cup MatchNames
             /\ \A d \in f.text : \E n \in N : n.id \in f.refs /\ n.display = d
  <2>0. PICK names : \E M \in SUBSET (Terminology \cup MatchNames) : \E T \in SUBSET S :
            f = Shows(names, M, T) /\ \A x \in names : \E n \in N : n.id = <<"engine", x>>
    BY DEF EngineFits, IsShown
  <2>10. PICK M \in SUBSET (Terminology \cup MatchNames) : \E T \in SUBSET S :
            f = Shows(names, M, T) /\ \A x \in names : \E n \in N : n.id = <<"engine", x>>
    BY <2>0
  <2>1. PICK T \in SUBSET S :
            f = Shows(names, M, T) /\ \A x \in names : \E n \in N : n.id = <<"engine", x>>
    BY <2>10
  <2>2. /\ f.sources = T /\ f.mentions = M /\ f.refs = {<<"engine", x>> : x \in names}
        /\ f.text = {<<"of", x>> : x \in names}
    BY <2>1 DEF Shows
  <2>3. ASSUME NEW n \in N, NEW x, n.id = <<"engine", x>> PROVE n.display = <<"of", x>>
    <3>1. PICK y : n = EngineNumber(y, IF y \in A THEN {Snapshot} ELSE D)
      BY DEF EngineFits, IsEngine
    <3>2. n.id = <<"engine", y>> /\ n.display = <<"of", y>>
      BY <3>1 DEF EngineNumber
    <3>3. x = y
      BY <2>3, <3>2
    <3> QED BY <3>2, <3>3
  <2>4. \A r \in f.refs : \E n \in N : n.id = r
    BY <2>1, <2>2
  <2>5. ASSUME NEW d \in f.text PROVE \E n \in N : n.id \in f.refs /\ n.display = d
    <3>1. PICK x \in names : d = <<"of", x>>
      BY <2>2
    <3>2. PICK n \in N : n.id = <<"engine", x>>
      BY <2>1
    <3>3. n.display = d
      BY <3>1, <3>2, <2>3
    <3>4. n.id \in f.refs
      BY <2>2, <3>2
    <3> QED BY <3>3, <3>4
  <2> QED BY <2>2, <2>4, <2>5
<1> HIDE DEF notes, told2
<1>7. b.numbers = N \cup notes /\ b.facts = F \cup told2 /\ b.sources = S /\ b.names = MatchNames
  OBVIOUS
<1> HIDE DEF b
<1>8. Closed(b)
  BY <1>3, <1>4, <1>5, <1>6, <1>7 DEF Closed
<1>9. ASSUME NEW f \in b.facts
      PROVE  FoundBy(f, b) \subseteq {n.display : n \in {m \in b.numbers : m.id \in f.refs}}
  <2>1. f.mentions \ (Terminology \cup b.names) = {}
    BY <1>5, <1>6, <1>7
  <2>2. FoundBy(f, b) = f.text
    BY <2>1 DEF FoundBy
  <2> QED BY <1>5, <1>6, <1>7, <2>2
<1>10. Quotable(b)
  BY <1>8, <1>9 DEF Quotable
<1> QED BY <1>10 DEF b, notes, told2

\* Numbers of these names, in a set of numbers.
LEMMA NamedIsEngine ==
    ASSUME NEW names, NEW A, NEW D, \A x \in names : x \notin A
    PROVE  \A n \in Named(names, D) :
               IsEngine(n, A, D) /\ n.sources = D
<1> SUFFICES ASSUME NEW n \in Named(names, D)
             PROVE  IsEngine(n, A, D) /\ n.sources = D
  OBVIOUS
<1>1. PICK x \in names : n = EngineNumber(x, D)
  BY DEF Named, EngineNumber
<1>2. (IF x \in A THEN {Snapshot} ELSE D) = D
  OBVIOUS
<1>3. n.sources = D
  BY <1>1 DEF EngineNumber
<1> QED BY <1>1, <1>2, <1>3 DEF IsEngine

LEMMA NamedHasAll ==
    ASSUME NEW names, NEW D
    PROVE  \A x \in names : \E n \in Named(names, D) : n.id = <<"engine", x>>
<1> SUFFICES ASSUME NEW x \in names PROVE \E n \in Named(names, D) : n.id = <<"engine", x>>
  OBVIOUS
<1>1. EngineNumber(x, D) \in Named(names, D)
  BY DEF Named, EngineNumber
<1>2. EngineNumber(x, D).id = <<"engine", x>>
  BY DEF EngineNumber
<1> QED BY <1>1, <1>2

LEMMA CouncilFits ==
    ASSUME NEW seal, NEW S, NEW D \in SUBSET S, Engine \in D
    PROVE  EngineFits(CouncilNumbers(seal, D), CouncilFacts(seal, D), S, {}, D)
<1> DEFINE N == CouncilNumbers(seal, D)
           goals == ExpectedGoals("dixon_coles") \cup Scoreline(1) \cup {<<"btts">>}
                       \cup {<<"clean_sheet", x>> : x \in Ends}
           voices == UNION {Named(Probs(v), D) : v \in seal.voices}
           scorer == IF "dixon_coles" \in seal.voices THEN Named(goals, D) ELSE {}
<1>1. N = voices \cup scorer
  BY Zenon DEF CouncilNumbers
<1> HIDE DEF N, goals
<1>0. ASSUME NEW names, NEW n \in Named(names, D)
      PROVE  IsEngine(n, {}, D) /\ n.sources = D
  <2> DEFINE A == {}
  <2>1. \A x \in names : x \notin A
    OBVIOUS
  <2> HIDE DEF A
  <2>2. IsEngine(n, A, D) /\ n.sources = D
    BY <2>1, <1>0, NamedIsEngine
  <2> QED BY <2>2 DEF A
<1>2. ASSUME NEW n \in N
      PROVE  IsEngine(n, {}, D) /\ n.sources = D
  <2>1. CASE "dixon_coles" \in seal.voices /\ n \in Named(goals, D)
    BY <2>1, <1>0
  <2>2. ASSUME NEW v \in seal.voices, n \in Named(Probs(v), D)
        PROVE  IsEngine(n, {}, D) /\ n.sources = D
    BY <2>2, <1>0
  <2>3. \/ \E v \in seal.voices : n \in Named(Probs(v), D)
        \/ "dixon_coles" \in seal.voices /\ n \in Named(goals, D)
    <3>1. CASE n \in voices
      BY <3>1, Zenon
    <3>2. CASE n \in scorer
      BY <3>2
    <3> HIDE DEF voices, scorer
    <3> QED BY <1>1, <3>1, <3>2
  <2> QED BY <2>1, <2>2, <2>3, Zenon
<1>4. ASSUME NEW f \in CouncilFacts(seal, D)
      PROVE  IsShown(f, N, S)
  <2>1. CASE f = Shows({}, {}, {Engine})
    BY <2>1 DEF IsShown
  <2>2. ASSUME NEW v \in seal.voices, f = Shows(Probs(v), Sides, D)
        PROVE  IsShown(f, N, S)
    <3>1. Named(Probs(v), D) \subseteq N
      BY <1>1, Zenon
    <3>2. \A x \in Probs(v) : \E n \in N : n.id = <<"engine", x>>
      BY <3>1, NamedHasAll
    <3>3. Sides \in SUBSET (Terminology \cup MatchNames)
      BY DEF Sides, MatchNames
    <3> QED BY <2>2, <3>2, <3>3, Zenon DEF IsShown
  <2> QED BY <2>1, <2>2 DEF CouncilFacts
<1> QED BY <1>2, <1>4 DEF EngineFits, N

\* The result is that of the snapshot.
Actuals == {<<"actual", x>> : x \in Ends}
OfTheSeal == Probs("prob") \cup ExpectedGoals("prob") \cup Scoreline(1) \cup Scoreline(2)
                 \cup Scoreline(3) \cup Beyond \cup {<<"prob_assigned">>, <<"log_loss">>, <<"brier">>}

LEMMA NamesDiffer == OfTheSeal \cap Actuals = {}
<1>1. \A x \in Probs("prob") \cup ExpectedGoals("prob") : x[1] # "actual"
  BY DEF Probs, ExpectedGoals
<1>2. \A r : \A x \in Scoreline(r) \cup Beyond : x[1] # "actual"
  BY DEF Scoreline, Beyond
<1>3. \A x \in {<<"prob_assigned">>, <<"log_loss">>, <<"brier">>} : x[1] # "actual"
  OBVIOUS
<1>4. \A x \in Actuals : x[1] = "actual"
  BY DEF Actuals
<1> QED BY <1>1, <1>2, <1>3, <1>4 DEF OfTheSeal

LEMMA SealedFits ==
    ASSUME NEW seal, seal.leading \in Outcomes, seal.horizon \in Terminology,
           NEW D, Engine \in D, Snapshot \in D, NEW G,
           G = IF seal.goals THEN {Shows(ExpectedGoals("prob"), {}, {Engine})} ELSE {}
    PROVE  EngineFits(SealedNumbers(seal, D), SealedFacts(seal, D) \cup G, D, Actuals, D)
<1> DEFINE N == SealedNumbers(seal, D)
           Has(names) == \A x \in names : \E n \in N : n.id = <<"engine", x>>
           Fits(f) == IsShown(f, N, D)
           Said_ == SUBSET (Terminology \cup MatchNames)
           rest == {<<"prob_assigned">>, <<"log_loss">>, <<"brier">>}
           scores == Scoreline(1) \cup Scoreline(2) \cup Scoreline(3)
           P1 == IF seal.abstained THEN {} ELSE Named(Probs("prob"), D)
           P2 == IF seal.goals THEN Named(ExpectedGoals("prob"), D) \cup ScoreNumbers(D) ELSE {}
           P3 == IF seal.scored THEN Named(Actuals, {Snapshot}) \cup Named(rest, D) ELSE {}
<1>1. N = P1 \cup P2 \cup P3
  BY Zenon DEF SealedNumbers, Actuals
<1>2. ScoreNumbers(D) = Named(scores \cup Beyond, D)
  BY DEF ScoreNumbers
<1> HIDE DEF N, rest, scores
<1>3. ASSUME NEW names, names \subseteq OfTheSeal, NEW n \in Named(names, D)
      PROVE  IsEngine(n, Actuals, D) /\ n.sources = D
  <2>1. \A x \in names : x \notin Actuals
    BY <1>3, NamesDiffer
  <2> QED BY <2>1, <1>3, NamedIsEngine
<1>4. ASSUME NEW n \in Named(Actuals, {Snapshot})
      PROVE  IsEngine(n, Actuals, D) /\ n.sources = {Snapshot}
  <2>1. PICK x \in Actuals : n = EngineNumber(x, {Snapshot})
    BY <1>4 DEF Named, EngineNumber
  <2>2. (IF x \in Actuals THEN {Snapshot} ELSE D) = {Snapshot}
    OBVIOUS
  <2>3. n.sources = {Snapshot}
    BY <2>1 DEF EngineNumber
  <2> QED BY <2>1, <2>2, <2>3 DEF IsEngine
<1>5. /\ Probs("prob") \subseteq OfTheSeal /\ ExpectedGoals("prob") \subseteq OfTheSeal
      /\ scores \cup Beyond \subseteq OfTheSeal /\ rest \subseteq OfTheSeal
  BY DEF OfTheSeal, scores, rest
<1>6. ASSUME NEW n \in N PROVE IsEngine(n, Actuals, D) /\ n.sources \subseteq D
  <2>1. \/ n \in Named(Probs("prob"), D) \/ n \in Named(ExpectedGoals("prob"), D)
        \/ n \in Named(scores \cup Beyond, D) \/ n \in Named(rest, D)
        \/ n \in Named(Actuals, {Snapshot})
    BY <1>1, <1>2
  <2> QED BY <2>1, <1>3, <1>4, <1>5
<1>7. ~seal.abstained => Has(Probs("prob"))
  <2>1. ~seal.abstained => Named(Probs("prob"), D) \subseteq N
    BY <1>1
  <2> QED BY <2>1, NamedHasAll
<1>8. seal.goals => Has(ExpectedGoals("prob")) /\ Has(scores \cup Beyond)
  <2>1. seal.goals => /\ Named(ExpectedGoals("prob"), D) \subseteq N
                      /\ Named(scores \cup Beyond, D) \subseteq N
    BY <1>1, <1>2
  <2> QED BY <2>1, NamedHasAll
<1>9. seal.scored => Has(Actuals) /\ Has(rest)
  <2>1. seal.scored => Named(Actuals, {Snapshot}) \subseteq N /\ Named(rest, D) \subseteq N
    BY <1>1
  <2> QED BY <2>1, NamedHasAll
<1> HIDE DEF P1, P2, P3
<1>10. ASSUME NEW names, Has(names), NEW M \in Said_, NEW T \in SUBSET D
       PROVE  Fits(Shows(names, M, T))
  BY <1>10, Zenon DEF IsShown
<1>11. Has({})
  OBVIOUS
<1>12. {Engine} \in SUBSET D /\ D \in SUBSET D
  OBVIOUS
<1> DEFINE Home_ == IF fixture.neutral THEN {} ELSE {fixture.home}
           Led == {fixture[x] : x \in {seal.leading} \cap Ends}
<1>20. /\ {} \in Said_ /\ {seal.horizon} \in Said_ /\ Home_ \in Said_ /\ Sides \in Said_
       /\ Sides \cup {"1X2"} \in Said_
  BY DEF Sides, MatchNames, Terminology
<1>21. Led \in Said_
  BY DEF MatchNames, Ends
<1> HIDE DEF Fits, Said_, Led, Home_
<1>13. Fits(Shows({}, {}, {Engine})) /\ Fits(Shows({}, {seal.horizon}, {Engine}))
       /\ Fits(Shows({}, Home_, D))
  BY <1>10, <1>11, <1>12, <1>20
<1>14. ~seal.abstained => /\ Fits(Shows({<<"prob", seal.leading>>}, Led, D))
                          /\ Fits(Shows(Probs("prob"), Sides \cup {"1X2"}, D))
  <2>1. {<<"prob", seal.leading>>} \subseteq Probs("prob")
    BY DEF Probs, Outcomes
  <2>2. ~seal.abstained => Has({<<"prob", seal.leading>>})
    BY <1>7, <2>1
  <2> HIDE DEF Has
  <2> QED BY <1>7, <1>10, <1>12, <1>20, <1>21, <2>2
<1>15. seal.goals => /\ Fits(Shows(ExpectedGoals("prob"), Sides, {Engine}))
                     /\ Fits(Shows(ExpectedGoals("prob"), {}, {Engine}))
                     /\ \A f \in ScoreFacts(D) : Fits(f)
  <2>1. seal.goals => Has(Scoreline(1)) /\ Has(scores) /\ Has(Beyond)
    BY <1>8 DEF scores
  <2> HIDE DEF Has
  <2> QED BY <1>8, <1>10, <1>12, <1>20, <2>1 DEF ScoreFacts, scores
<1>16. seal.scored => Fits(Shows(Actuals \cup {<<"prob_assigned">>}, Sides, D))
  <2>1. seal.scored => Has(Actuals \cup {<<"prob_assigned">>})
    BY <1>9 DEF rest
  <2> HIDE DEF Has
  <2> QED BY <1>10, <1>12, <1>20, <2>1
<1>17. \A f \in SealedFacts(seal, D) \cup G : Fits(f)
  BY <1>13, <1>14, <1>15, <1>16 DEF SealedFacts, Actuals, Home_, Led
<1> QED BY <1>6, <1>17 DEF EngineFits, N, Fits

\* What a notebook is kept with: only the snapshot's sources, as a seal has them, and notes
\* that agree.
NotebookInv ==
    /\ GameTable(games) /\ today \in Nat /\ fixture \in Fixtures
    /\ NotesFit(sidecar) /\ \A c \in sidecar.facts : c.source = Snapshot
    /\ NotesKeep(sidecar) /\ NotesKeep(told.notebook)
    /\ BundleIsQuotable

LEMMA NothingIsQuotable == Quotable(NotTold.bundle)
<1>1. /\ NotTold.bundle.numbers = {} /\ NotTold.bundle.facts = {}
  BY DEF NotTold
<1> QED BY <1>1 DEF Quotable, Closed

LEMMA MatchBundleQuotes ==
    ASSUME NEW notebook, NotesFit(notebook)
    PROVE  Quotable(MatchBundle(notebook))
<1> DEFINE D == {Engine} \cup ({notebook.own} \ {NoNotebook.own})
           S == D \cup notebook.sources \cup NoteSources(notebook)
           N == CouncilNumbers(fixture.seal, D)
           F == CouncilFacts(fixture.seal, D)
<1>1. MatchBundle(notebook) =
          [numbers |-> N \cup NoteNumbers(notebook, TRUE),
           facts |-> F \cup NoteFacts(notebook, TRUE), sources |-> S, names |-> MatchNames]
  BY Zenon DEF MatchBundle
<1>2. D \in SUBSET S /\ Engine \in D
  OBVIOUS
<1>3. \A c \in Folded(notebook) : Attributed(c, TRUE) \in S
  <2> SUFFICES ASSUME NEW c \in Folded(notebook) PROVE Attributed(c, TRUE) \in S
    OBVIOUS
  <2>1. CASE Dataset(c.id) # "results"
    <3>1. Attributed(c, TRUE) \in NoteSources(notebook)
      BY <2>1, Zenon DEF NoteSources
    <3> QED BY <3>1
  <2>2. CASE Dataset(c.id) = "results"
    <3>1. Attributed(c, TRUE) = c.source
      BY <2>2, Zenon DEF Attributed
    <3>2. c.source \in notebook.sources
      BY DEF Folded, NotesFit
    <3> QED BY <3>1, <3>2
  <2> QED BY <2>1, <2>2
<1> HIDE DEF D, S
<1>4. EngineFits(N, F, S, {}, D)
  BY <1>2, CouncilFits
<1> HIDE DEF N, F
<1> QED BY <1>1, <1>3, <1>4, BundleQuotes, ZenonT(40)

LEMMA SealBundleQuotes ==
    ASSUME NEW notebook, NotesFit(notebook), fixture \in Fixtures,
           \A c \in notebook.facts : c.source = Snapshot
    PROVE  Quotable(SealBundle(notebook))
<1> DEFINE D == {Engine, Snapshot}
           N == SealedNumbers(fixture.seal, D)
           G == IF fixture.seal.goals THEN {Shows(ExpectedGoals("prob"), {}, {Engine})} ELSE {}
           F == SealedFacts(fixture.seal, D) \cup G
<1>1. SealBundle(notebook) =
          [numbers |-> N \cup NoteNumbers(notebook, FALSE),
           facts |-> F \cup NoteFacts(notebook, FALSE), sources |-> D, names |-> MatchNames]
  BY Zenon DEF SealBundle
<1>2. Engine \in D /\ Snapshot \in D
  OBVIOUS
<1>3. \A c \in Folded(notebook) : Attributed(c, FALSE) \in D
  BY <1>2 DEF Folded, Attributed
<1> HIDE DEF D
<1>4. EngineFits(N, F, D, Actuals, D)
  <2>1. fixture.seal.horizon \in Terminology /\ fixture.seal.leading \in Outcomes
    BY NotebookAssumption DEF Terminology, Outcomes
  <2> QED BY <1>2, <2>1, SealedFits
<1> DEFINE scoping == FALSE
<1> HIDE DEF N, F, scoping
<1>5. \A c \in Folded(notebook) : Attributed(c, scoping) \in D
  BY <1>3, Zenon DEF scoping
<1>6. Quotable([numbers |-> N \cup NoteNumbers(notebook, scoping),
                facts |-> F \cup NoteFacts(notebook, scoping), sources |-> D, names |-> MatchNames])
  BY <1>4, <1>5, BundleQuotes
<1> QED BY <1>1, <1>6, Zenon DEF scoping

\* Whatever the games, the templates' floors and the seal: the evidence a language model is
\* shown passes the validation that evidence.py:645-675 makes, every digit that the guard
\* still sees in its facts (once the fixed terms and the names of the match are taken out,
\* whitelist.py:178-225) is the display of a number it may quote, no more coincidences are told than the cap
\* (registry.py), and what the templates say of a team, or of the two, fits together.
THEOREM EvidenceStaysClosed == NotebookSpec => []EvidenceIsClosed
<1>1. NotebookInit => NotebookInv
  <2> SUFFICES ASSUME NotebookInit PROVE NotebookInv
    OBVIOUS
  <2>1. sidecar = NoNotebook /\ told = NotTold /\ games = <<>> /\ today = 1 /\ fixture \in Fixtures
    BY DEF NotebookInit
  <2>2. NoNotebook.facts = {}
    BY DEF NoNotebook
  <2>3. NotesKeep(NoNotebook)
    BY <2>2, EmptyKeeps
  <2>4. NotTold.notebook = NoNotebook
    BY DEF NotTold
  <2>5. GameTable(<<>>)
    BY DEF GameTable, IsTable
  <2> QED BY <2>1, <2>2, <2>3, <2>4, <2>5, EmptyFits, NothingIsQuotable
          DEF NotebookInv, BundleIsQuotable
<1>2. NotebookInv /\ [NotebookNext]_notebookVars => NotebookInv'
  <2> SUFFICES ASSUME NotebookInv, [NotebookNext]_notebookVars PROVE NotebookInv'
    OBVIOUS
  <2>1. /\ NotesFit(sidecar) /\ (\A c \in sidecar.facts : c.source = Snapshot)
        /\ NotesKeep(sidecar) /\ NotesKeep(told.notebook) /\ BundleIsQuotable
        /\ GameTable(games) /\ today \in Nat /\ fixture \in Fixtures
    BY DEF NotebookInv
  <2>2. NotesKeep(NotTold.notebook) /\ NotesKeep(NoNotebook) /\ NotesKeep(Unreadable)
    <3>1. NotTold.notebook = NoNotebook /\ NoNotebook.facts = {} /\ Unreadable.facts = {}
      BY DEF NotTold, NoNotebook, Unreadable
    <3> QED BY <3>1, EmptyKeeps
  <2>3. CASE DayPasses
    <3>1. /\ today' = today + 1 /\ told' = NotTold /\ UNCHANGED <<fixture, sidecar>>
          /\ \/ UNCHANGED games
             \/ \E kind \in GameKinds : games' = Append(games, Joined([day |-> today], kind))
      BY <2>3 DEF DayPasses
    <3>2. GameTable(games')
      BY <2>1, <3>1, GamesGrow
    <3>3. GameTable(games)'
      BY <3>2 DEF GameTable, IsTable
    <3>4. BundleIsQuotable'
      BY <3>1, NothingIsQuotable DEF BundleIsQuotable
    <3>5. NotesKeep(sidecar)' /\ NotesKeep(told.notebook)'
      BY <2>1, <2>2, <3>1 DEF NotesKeep
    <3> QED BY <2>1, <3>1, <3>3, <3>4, <3>5 DEF NotebookInv, NotesFit
  <2>4. CASE SealWrites
    <3>1. sidecar' = Built(Proposed, Snapshot, today) /\ told' = NotTold /\ UNCHANGED <<fixture, games, today>>
      BY <2>4 DEF SealWrites
    <3>2. \A c \in Proposed : IsCited(c) /\ c.source = Pack
      BY ProposedAreNotes DEF IsNote, IsCited
    <3>3. NotesFit(Built(Proposed, Snapshot, today))
      BY <3>2, BuiltFits
    <3>4. \A c \in Built(Proposed, Snapshot, today).facts : c.source = Snapshot
      BY <3>2, BuiltFits
    <3>5. NotesKeep(Built(Proposed, Snapshot, today))
      BY <2>1, <3>2, BuiltKeeps
    <3>6. NotesKeep(sidecar)' /\ NotesKeep(told.notebook)'
      BY <2>2, <3>1, <3>5 DEF NotesKeep
    <3>7. GameTable(games)' /\ (today \in Nat)'
      BY <2>1, <3>1 DEF GameTable
    <3> QED BY <2>1, <3>1, <3>3, <3>4, <3>6, <3>7, NothingIsQuotable
            DEF NotebookInv, BundleIsQuotable, NotesFit
  <2>5. CASE SidecarIsDamaged
    <3>1. sidecar' = Unreadable /\ told' = NotTold /\ UNCHANGED <<fixture, games, today>>
      BY <2>5 DEF SidecarIsDamaged
    <3>2. Unreadable.facts = {}
      BY DEF Unreadable, NoNotebook
    <3>3. NotesKeep(sidecar)' /\ NotesKeep(told.notebook)'
      BY <2>2, <3>1 DEF NotesKeep
    <3>4. GameTable(games)' /\ (today \in Nat)'
      BY <2>1, <3>1 DEF GameTable
    <3> QED BY <2>1, <3>1, <3>2, <3>3, <3>4, NothingIsQuotable DEF NotebookInv, BundleIsQuotable, NotesFit
  <2>6. CASE NarratesMatch
    <3>1. /\ told'.bundle = MatchBundle(MatchNotebook) /\ told'.notebook = MatchNotebook
          /\ UNCHANGED <<fixture, sidecar, games, today>>
      BY <2>6 DEF NarratesMatch
    <3>2. NotesFit(MatchNotebook)
      BY <2>1, OnDemandFits DEF MatchNotebook
    <3>3. NotesKeep(MatchNotebook)
      BY <2>1, OnDemandKeeps DEF MatchNotebook
    <3>4. NotesKeep(sidecar)' /\ NotesKeep(told.notebook)'
      BY <2>1, <3>1, <3>3 DEF NotesKeep
    <3>5. GameTable(games)' /\ (today \in Nat)'
      BY <2>1, <3>1 DEF GameTable
    <3>6. BundleIsQuotable'
      BY <3>1, <3>2, MatchBundleQuotes DEF BundleIsQuotable
    <3> QED BY <2>1, <3>1, <3>4, <3>5, <3>6 DEF NotebookInv, NotesFit
  <2>7. CASE NarratesSeal
    <3> DEFINE notebook == IF sidecar = Unreadable THEN NoNotebook ELSE sidecar
    <3>1. /\ told'.bundle = SealBundle(notebook) /\ told'.notebook = notebook
          /\ UNCHANGED <<fixture, sidecar, games, today>>
      BY <2>7 DEF NarratesSeal
    <3>2. NoNotebook.facts = {}
      BY DEF NoNotebook
    <3>3. NotesFit(notebook) /\ \A c \in notebook.facts : c.source = Snapshot
      BY <2>1, <3>2, EmptyFits
    <3>4. NotesKeep(notebook)
      BY <2>1, <2>2
    <3> HIDE DEF notebook
    <3>5. NotesKeep(sidecar)' /\ NotesKeep(told.notebook)'
      BY <2>1, <3>1, <3>4 DEF NotesKeep
    <3>6. GameTable(games)' /\ (today \in Nat)'
      BY <2>1, <3>1 DEF GameTable
    <3>7. BundleIsQuotable'
      BY <2>1, <3>1, <3>3, SealBundleQuotes DEF BundleIsQuotable
    <3> QED BY <2>1, <3>1, <3>5, <3>6, <3>7 DEF NotebookInv, NotesFit
  <2>8. CASE UNCHANGED notebookVars
    <3>1. UNCHANGED <<fixture, games, today, sidecar, told>>
      BY <2>8 DEF notebookVars
    <3>2. NotesKeep(sidecar)' /\ NotesKeep(told.notebook)'
      BY <2>1, <3>1 DEF NotesKeep
    <3> QED BY <2>1, <3>1, <3>2 DEF NotebookInv, BundleIsQuotable, NotesFit, GameTable
  <2> QED BY <2>3, <2>4, <2>5, <2>6, <2>7, <2>8 DEF NotebookNext
<1>3. NotebookInv => EvidenceIsClosed
  BY DEF NotebookInv, EvidenceIsClosed, NotesKeep, Odd
<1> QED BY <1>1, <1>2, <1>3, PTL DEF NotebookSpec

-------------------------------------------------------------------------------
(* Sums over finite sets. *)

\* A sum takes the elements of its set in the order in which CHOOSE finds them.
Some(s) == CHOOSE x \in s : TRUE
Summed(g, f, s) == IF s = {} THEN 0 ELSE f[Some(s)] + g[s \ {Some(s)}]
SumsUp(g, f, S) == \A s \in SUBSET S : g[s] = Summed(g, f, s)

LEMMA SumUnfolds ==
    ASSUME NEW f, NEW S
    PROVE  \E g : SumOf(f, S) = g[S] /\ g = (CHOOSE h : h = [s \in SUBSET S |-> Summed(h, f, s)])
BY DEF SumOf, MapThenSumSet, MapThenFoldSet, Summed, Some

\* There is a function that sums up: one for the sets of up to n elements, for each n.
LEMMA SumsExist ==
    ASSUME NEW S, IsFiniteSet(S), NEW f
    PROVE  \E g : SumsUp(g, f, S)
<1> DEFINE Size(s) == Cardinality(s)
           UpTo(n, g) == \A s \in SUBSET S : Size(s) <= n => g[s] = Summed(g, f, s)
           Missing == {n \in Nat : ~\E g : UpTo(n, g)}
<1>1. \A s \in SUBSET S :
          /\ IsFiniteSet(s) /\ Size(s) \in Nat
          /\ s # {} => Some(s) \in s /\ Size(s \ {Some(s)}) = Size(s) - 1
          /\ Size(s) = 0 => s = {}
  BY FS_Subset, FS_CardinalityType, FS_RemoveElement, FS_EmptySet DEF Some
<1>2. Missing = {}
  <2> SUFFICES ASSUME Missing # {} PROVE FALSE
    OBVIOUS
  <2>1. PICK n \in Missing : \A m \in Missing : n <= m
    <3>1. Missing \subseteq Nat
      OBVIOUS
    <3> HIDE DEF Missing
    <3> QED BY <3>1, LeastNumber
  <2>2. n # 0
    <3> DEFINE g == [s \in SUBSET S |-> 0]
    <3>1. \A s \in SUBSET S : Size(s) <= 0 => s = {}
      <4> SUFFICES ASSUME NEW s \in SUBSET S, Size(s) <= 0 PROVE s = {}
        OBVIOUS
      <4>1. Size(s) \in Nat /\ (Size(s) = 0 => s = {})
        BY <1>1
      <4> HIDE DEF Size
      <4> QED BY <4>1
    <3>2. g[{}] = 0
      OBVIOUS
    <3>3. Summed(g, f, {}) = 0
      BY DEF Summed
    <3>4. UpTo(0, g)
      BY <3>1, <3>2, <3>3, Zenon
    <3> HIDE DEF g, UpTo
    <3> QED BY <3>4, <2>1
  <2>3. PICK g : UpTo(n - 1, g)
    <3> HIDE DEF UpTo
    <3> QED BY <2>1, <2>2
  <2> DEFINE h == [s \in SUBSET S |-> IF Size(s) = n THEN Summed(g, f, s) ELSE g[s]]
  <2>4. \A s \in SUBSET S : Size(s) = n - 1 \/ Size(s) < n => h[s] = g[s]
    BY <1>1, <2>1
  <2>5. \A s \in SUBSET S : Size(s) <= n => Summed(h, f, s) = Summed(g, f, s)
    <3> SUFFICES ASSUME NEW s \in SUBSET S, Size(s) <= n, s # {}
                 PROVE  h[s \ {Some(s)}] = g[s \ {Some(s)}]
      BY Zenon DEF Summed
    <3> HIDE DEF h, Size
    <3> QED BY <1>1, <2>1, <2>4
  <2>6. UpTo(n, h)
    <3> SUFFICES ASSUME NEW s \in SUBSET S, Size(s) <= n PROVE h[s] = Summed(h, f, s)
      OBVIOUS
    <3>1. CASE Size(s) = n
      BY <3>1, <2>5
    <3>2. CASE Size(s) # n
      <4>1. Size(s) <= n - 1
        <5>1. Size(s) \in Nat /\ n \in Nat
          BY <1>1, <2>1
        <5> HIDE DEF Size
        <5> QED BY <3>2, <5>1
      <4>2. g[s] = Summed(g, f, s)
        BY <4>1, <2>3
      <4> QED BY <3>2, <4>2, <2>5
    <3> QED BY <3>1, <3>2
  <2> HIDE DEF h, UpTo
  <2> QED BY <2>1, <2>6
<1>3. PICK g : UpTo(Size(S), g)
  <2>1. Size(S) \in Nat
    BY <1>1
  <2> HIDE DEF UpTo, Size
  <2> QED BY <1>2, <2>1
<1>4. \A s \in SUBSET S : Size(s) <= Size(S)
  BY FS_Subset
<1> HIDE DEF Size
<1> QED BY <1>3, <1>4 DEF SumsUp

\* Two that sum up agree.
LEMMA SumsAreOne ==
    ASSUME NEW S, IsFiniteSet(S), NEW f, NEW g, SumsUp(g, f, S), NEW h, SumsUp(h, f, S)
    PROVE  \A s \in SUBSET S : g[s] = h[s]
<1> DEFINE C == {s \in SUBSET S : g[s] # h[s]}
<1> SUFFICES ASSUME C # {} PROVE FALSE
  OBVIOUS
<1>1. PICK s \in C : \A u \in C : u \subseteq s => u = s
  <2>1. C \subseteq SUBSET S
    OBVIOUS
  <2> HIDE DEF C
  <2> QED BY <2>1, LeastSubset
<1>2. CASE s = {}
  BY <1>1, <1>2 DEF SumsUp, Summed
<1>3. CASE s # {}
  <2>1. Some(s) \in s
    BY <1>3 DEF Some
  <2>2. g[s \ {Some(s)}] = h[s \ {Some(s)}]
    BY <1>1, <2>1
  <2> QED BY <1>1, <1>3, <2>2 DEF SumsUp, Summed
<1> QED BY <1>2, <1>3

\* A sum is what any function that sums up says.
LEMMA SumIs ==
    ASSUME NEW S, IsFiniteSet(S), NEW f, NEW g, SumsUp(g, f, S)
    PROVE  \A s \in SUBSET S : SumOf(f, s) = g[s]
<1> SUFFICES ASSUME NEW s \in SUBSET S PROVE SumOf(f, s) = g[s]
  OBVIOUS
<1>1. PICK h : SumOf(f, s) = h[s] /\ h = (CHOOSE k : k = [u \in SUBSET s |-> Summed(k, f, u)])
  BY SumUnfolds
<1>2. SumsUp(g, f, s)
  BY DEF SumsUp
<1> DEFINE k == [u \in SUBSET s |-> g[u]]
<1>3. \A u \in SUBSET s : k[u] = Summed(k, f, u)
  BY <1>2 DEF SumsUp, Summed
<1>4. k = [u \in SUBSET s |-> Summed(k, f, u)]
  <2> DEFINE j == [u \in SUBSET s |-> Summed(k, f, u)]
  <2>1. \A u \in SUBSET s : k[u] = j[u]
    BY <1>3
  <2> QED BY <2>1
<1>5. h = [u \in SUBSET s |-> Summed(h, f, u)]
  <2> HIDE DEF k
  <2> QED BY <1>1, <1>4, Zenon
<1>6. SumsUp(h, f, s)
  <2>1. \A u \in SUBSET s : h[u] = Summed(h, f, u)
    BY <1>5
  <2> QED BY <2>1 DEF SumsUp
<1>7. IsFiniteSet(s)
  BY FS_Subset
<1> QED BY <1>1, <1>2, <1>6, <1>7, SumsAreOne

\* A sum over nothing; and over what remains when an element, any one, is taken away.
LEMMA SumOfNone == ASSUME NEW f PROVE SumOf(f, {}) = 0
<1>1. PICK g : SumsUp(g, f, {})
  BY FS_EmptySet, SumsExist
<1>2. SumOf(f, {}) = g[{}]
  BY <1>1, FS_EmptySet, SumIs
<1> QED BY <1>1, <1>2 DEF SumsUp, Summed

LEMMA SumSteps ==
    ASSUME NEW S, IsFiniteSet(S), S # {}, NEW f
    PROVE  SumOf(f, S) = f[Some(S)] + SumOf(f, S \ {Some(S)})
<1>1. PICK g : SumsUp(g, f, S)
  BY SumsExist
<1>2. SumOf(f, S) = g[S] /\ SumOf(f, S \ {Some(S)}) = g[S \ {Some(S)}]
  BY <1>1, SumIs
<1> QED BY <1>1, <1>2 DEF SumsUp, Summed

LEMMA SumType ==
    ASSUME NEW S, IsFiniteSet(S), NEW f, \A x \in S : f[x] \in Int
    PROVE  SumOf(f, S) \in Int
<1> DEFINE C == {s \in SUBSET S : SumOf(f, s) \notin Int}
<1> SUFFICES ASSUME C # {} PROVE FALSE
  OBVIOUS
<1>1. PICK s \in C : \A u \in C : u \subseteq s => u = s
  <2>1. C \subseteq SUBSET S
    OBVIOUS
  <2> HIDE DEF C
  <2> QED BY <2>1, LeastSubset
<1>2. s # {}
  <2>1. SumOf(f, {}) \in Int
    BY SumOfNone
  <2> QED BY <1>1, <2>1
<1>3. Some(s) \in s
  BY <1>2 DEF Some
<1>4. SumOf(f, s \ {Some(s)}) \in Int
  BY <1>1, <1>3
<1>5. IsFiniteSet(s)
  BY FS_Subset
<1>6. SumOf(f, s) = f[Some(s)] + SumOf(f, s \ {Some(s)})
  BY <1>2, <1>5, SumSteps
<1> QED BY <1>1, <1>3, <1>4, <1>6

LEMMA SumRemoves ==
    ASSUME NEW S, IsFiniteSet(S), NEW f, \A y \in S : f[y] \in Int
    PROVE  \A x \in S : SumOf(f, S) = f[x] + SumOf(f, S \ {x})
<1> DEFINE Off(s, x) == SumOf(f, s) # f[x] + SumOf(f, s \ {x})
           C == {s \in SUBSET S : \E x \in s : Off(s, x)}
<1> SUFFICES ASSUME C # {} PROVE FALSE
  BY DEF Off
<1>1. PICK s \in C : \A u \in C : u \subseteq s => u = s
  <2>1. C \subseteq SUBSET S
    OBVIOUS
  <2> HIDE DEF C
  <2> QED BY <2>1, LeastSubset
<1>2. PICK x \in s : Off(s, x)
  BY <1>1
<1>3. IsFiniteSet(s) /\ x \in S /\ s \subseteq S
  BY <1>1, <1>2, FS_Subset
<1>4. \A u \in SUBSET S : \A z \in u : u \subseteq s /\ u # s =>
          SumOf(f, u) = f[z] + SumOf(f, u \ {z})
  BY <1>1
<1> DEFINE y == Some(s)
<1>5. y \in s
  BY <1>2 DEF Some
<1> HIDE DEF C
<1>6. SumOf(f, s) = f[y] + SumOf(f, s \ {y})
  BY <1>2, <1>3, SumSteps
<1> HIDE DEF y
<1>7. y # x
  BY <1>2, <1>6
<1>8. SumOf(f, s \ {y}) = f[x] + SumOf(f, (s \ {y}) \ {x})
  BY <1>2, <1>3, <1>4, <1>5, <1>7
<1>9. SumOf(f, s \ {x}) = f[y] + SumOf(f, (s \ {x}) \ {y})
  BY <1>2, <1>3, <1>4, <1>5, <1>7
<1>10. (s \ {y}) \ {x} = (s \ {x}) \ {y}
  OBVIOUS
<1>11. f[x] \in Int /\ f[y] \in Int /\ SumOf(f, (s \ {y}) \ {x}) \in Int
  <2>1. IsFiniteSet((s \ {y}) \ {x})
    BY <1>3, FS_Subset
  <2>2. \A z \in (s \ {y}) \ {x} : f[z] \in Int
    BY <1>3
  <2> QED BY <1>3, <1>5, <2>1, <2>2, SumType
<1>12. SumOf(f, s) = f[x] + SumOf(f, s \ {x})
  <2> DEFINE rest == SumOf(f, (s \ {y}) \ {x})
  <2>1. SumOf(f, s \ {y}) = f[x] + rest /\ SumOf(f, s \ {x}) = f[y] + rest
    BY <1>8, <1>9, <1>10
  <2>2. rest \in Int
    BY <1>11
  <2> HIDE DEF rest
  <2> QED BY <1>6, <1>11, <2>1, <2>2
<1> QED BY <1>2, <1>12

\* What is less for each element is less in sum.
LEMMA SumAtMost ==
    ASSUME NEW S, IsFiniteSet(S), NEW f, NEW g,
           \A x \in S : f[x] \in Int /\ g[x] \in Int /\ f[x] <= g[x]
    PROVE  SumOf(f, S) <= SumOf(g, S)
<1> DEFINE C == {s \in SUBSET S : ~(SumOf(f, s) <= SumOf(g, s))}
<1> SUFFICES ASSUME C # {} PROVE FALSE
  OBVIOUS
<1>1. PICK s \in C : \A u \in C : u \subseteq s => u = s
  <2>1. C \subseteq SUBSET S
    OBVIOUS
  <2> HIDE DEF C
  <2> QED BY <2>1, LeastSubset
<1>2. s # {}
  <2>1. SumOf(f, {}) <= SumOf(g, {})
    BY SumOfNone
  <2> QED BY <1>1, <2>1
<1>3. Some(s) \in s /\ IsFiniteSet(s) /\ IsFiniteSet(s \ {Some(s)})
  BY <1>2, FS_Subset DEF Some
<1>4. SumOf(f, s \ {Some(s)}) <= SumOf(g, s \ {Some(s)})
  BY <1>1, <1>3
<1>5. SumOf(f, s \ {Some(s)}) \in Int /\ SumOf(g, s \ {Some(s)}) \in Int
  BY <1>1, <1>3, SumType
<1>6. /\ SumOf(f, s) = f[Some(s)] + SumOf(f, s \ {Some(s)})
      /\ SumOf(g, s) = g[Some(s)] + SumOf(g, s \ {Some(s)})
  BY <1>2, <1>3, SumSteps
<1>7. /\ f[Some(s)] \in Int /\ g[Some(s)] \in Int /\ f[Some(s)] <= g[Some(s)]
      /\ ~(SumOf(f, s) <= SumOf(g, s))
  BY <1>1, <1>3
<1> HIDE DEF C
<1> QED BY <1>4, <1>5, <1>6, <1>7

\* The sum of two, one of them as often as k says.
LEMMA SumAdds ==
    ASSUME NEW S, IsFiniteSet(S), NEW k \in Int, NEW f, NEW g, NEW h,
           \A x \in S : f[x] \in Int /\ g[x] \in Int /\ h[x] = k * f[x] + g[x]
    PROVE  SumOf(h, S) = k * SumOf(f, S) + SumOf(g, S)
<1> DEFINE C == {s \in SUBSET S : SumOf(h, s) # k * SumOf(f, s) + SumOf(g, s)}
<1> SUFFICES ASSUME C # {} PROVE FALSE
  OBVIOUS
<1>1. PICK s \in C : \A u \in C : u \subseteq s => u = s
  <2>1. C \subseteq SUBSET S
    OBVIOUS
  <2> HIDE DEF C
  <2> QED BY <2>1, LeastSubset
<1>2. s # {}
  <2>1. SumOf(f, {}) = 0 /\ SumOf(g, {}) = 0 /\ SumOf(h, {}) = 0
    BY SumOfNone
  <2>2. k * 0 + 0 = 0
    OBVIOUS
  <2> QED BY <1>1, <2>1, <2>2
<1>3. Some(s) \in s /\ IsFiniteSet(s) /\ IsFiniteSet(s \ {Some(s)})
  BY <1>2, FS_Subset DEF Some
<1> DEFINE x == Some(s)
           a == SumOf(f, s \ {x})
           b == SumOf(g, s \ {x})
<1>4. SumOf(h, s \ {x}) = k * a + b
  BY <1>1, <1>3
<1>5. a \in Int /\ b \in Int
  BY <1>1, <1>3, SumType
<1>6. SumOf(f, s) = f[x] + a /\ SumOf(g, s) = g[x] + b /\ SumOf(h, s) = h[x] + SumOf(h, s \ {x})
  BY <1>2, <1>3, SumSteps
<1>7. /\ f[x] \in Int /\ g[x] \in Int /\ h[x] = k * f[x] + g[x]
      /\ SumOf(h, s) # k * SumOf(f, s) + SumOf(g, s)
  BY <1>1, <1>3
<1>8. \A p, q \in Int : k * (p + q) = k * p + k * q /\ k * p \in Int
  OBVIOUS
<1>9. k * (f[x] + a) = k * f[x] + k * a /\ k * f[x] \in Int /\ k * a \in Int
  BY <1>5, <1>7, <1>8
<1> DEFINE kf == k * f[x]
           ka == k * a
<1>10. /\ SumOf(h, s) = (kf + g[x]) + (ka + b)
       /\ k * SumOf(f, s) + SumOf(g, s) = (kf + ka) + (g[x] + b)
  BY <1>4, <1>6, <1>7, <1>9
<1>11. kf \in Int /\ ka \in Int /\ g[x] \in Int /\ b \in Int
  BY <1>5, <1>7, <1>9
<1> HIDE DEF C, x, a, b, kf, ka
<1> QED BY <1>7, <1>10, <1>11

\* Ones are counted.
LEMMA SumCounts ==
    ASSUME NEW S, IsFiniteSet(S), NEW R, NEW f, \A x \in S : f[x] = IF x \in R THEN 1 ELSE 0
    PROVE  SumOf(f, S) = Cardinality(S \cap R)
<1> DEFINE C == {s \in SUBSET S : SumOf(f, s) # Cardinality(s \cap R)}
<1> SUFFICES ASSUME C # {} PROVE FALSE
  OBVIOUS
<1>1. PICK s \in C : \A u \in C : u \subseteq s => u = s
  <2>1. C \subseteq SUBSET S
    OBVIOUS
  <2> HIDE DEF C
  <2> QED BY <2>1, LeastSubset
<1>2. s # {}
  <2>1. SumOf(f, {}) = 0 /\ {} \cap R = {}
    BY SumOfNone
  <2> QED BY <1>1, <2>1, FS_EmptySet
<1>3. Some(s) \in s /\ IsFiniteSet(s \cap R) /\ IsFiniteSet(s)
  BY <1>2, FS_Subset DEF Some
<1> DEFINE x == Some(s)
<1>4. SumOf(f, s \ {x}) = Cardinality((s \ {x}) \cap R)
  BY <1>1, <1>3
<1>5. SumOf(f, s) = f[x] + SumOf(f, s \ {x})
  BY <1>2, <1>3, SumSteps
<1>6. CASE x \in R
  <2>1. Cardinality((s \cap R) \ {x}) = Cardinality(s \cap R) - 1
    BY <1>3, <1>6, FS_RemoveElement
  <2>2. (s \cap R) \ {x} = (s \ {x}) \cap R
    OBVIOUS
  <2>3. Cardinality(s \cap R) \in Nat /\ f[x] = 1
    BY <1>1, <1>3, <1>6, FS_CardinalityType
  <2>4. SumOf(f, s) = 1 + (Cardinality(s \cap R) - 1)
    BY <1>4, <1>5, <2>1, <2>2, <2>3
  <2>5. SumOf(f, s) # Cardinality(s \cap R)
    BY <1>1
  <2> HIDE DEF C, x
  <2> QED BY <2>3, <2>4, <2>5
<1>7. CASE x \notin R
  <2>1. (s \ {x}) \cap R = s \cap R
    BY <1>7
  <2>2. Cardinality(s \cap R) \in Nat /\ f[x] = 0
    BY <1>1, <1>3, <1>7, FS_CardinalityType
  <2>3. SumOf(f, s) = 0 + Cardinality(s \cap R)
    BY <1>4, <1>5, <2>1, <2>2
  <2>4. SumOf(f, s) # Cardinality(s \cap R)
    BY <1>1
  <2> HIDE DEF C, x
  <2> QED BY <2>2, <2>3, <2>4
<1> QED BY <1>6, <1>7

\* The sum over two, and over four.
LEMMA SumOfTwo ==
    ASSUME NEW f, NEW a, NEW b, a # b, f[a] \in Int, f[b] \in Int
    PROVE  SumOf(f, {a, b}) = f[a] + f[b]
<1>1. IsFiniteSet({a, b}) /\ IsFiniteSet({b})
  <2>1. {a, b} = {a} \cup {b}
    OBVIOUS
  <2>2. IsFiniteSet({a}) /\ IsFiniteSet({b})
    BY FS_Singleton
  <2> QED BY <2>1, <2>2, FS_Union
<1>2. {a, b} \ {a} = {b} /\ {b} \ {b} = {}
  OBVIOUS
<1>3. SumOf(f, {a, b}) = f[a] + SumOf(f, {b})
  BY <1>1, <1>2, SumRemoves
<1>4. SumOf(f, {b}) = f[b] + SumOf(f, {})
  BY <1>1, <1>2, SumRemoves
<1> QED BY <1>3, <1>4, SumOfNone

AreFour(S, a, b, c, d) ==
    S = {a, b, c, d} /\ a # b /\ a # c /\ a # d /\ b # c /\ b # d /\ c # d

LEMMA SumOfFour ==
    ASSUME NEW f, NEW S, NEW a, NEW b, NEW c, NEW d, AreFour(S, a, b, c, d),
           \A x \in S : f[x] \in Int
    PROVE  SumOf(f, S) = (f[a] + f[b]) + (f[c] + f[d])
<1> USE DEF AreFour
<1>1. IsFiniteSet({a, b, c, d}) /\ IsFiniteSet({b, c, d})
  <2>1. \A x : IsFiniteSet({x})
    BY FS_Singleton
  <2>2. IsFiniteSet({b} \cup {c}) /\ IsFiniteSet({d} \cup {a})
    BY <2>1, FS_Union
  <2>3. IsFiniteSet(({b} \cup {c}) \cup {d}) /\ IsFiniteSet(({b} \cup {c}) \cup ({d} \cup {a}))
    BY <2>1, <2>2, FS_Union
  <2>4. /\ {b, c, d} = ({b} \cup {c}) \cup {d}
        /\ {a, b, c, d} = ({b} \cup {c}) \cup ({d} \cup {a})
    OBVIOUS
  <2> QED BY <2>3, <2>4
<1>2. {a, b, c, d} \ {a} = {b, c, d} /\ {b, c, d} \ {b} = {c, d}
  OBVIOUS
<1>3. SumOf(f, {a, b, c, d}) = f[a] + SumOf(f, {b, c, d})
  <2>1. \A x \in {a, b, c, d} : f[x] \in Int
    OBVIOUS
  <2> QED BY <1>1, <1>2, <2>1, SumRemoves
<1>4. SumOf(f, {b, c, d}) = f[b] + SumOf(f, {c, d})
  <2>1. \A x \in {b, c, d} : f[x] \in Int
    OBVIOUS
  <2> QED BY <1>1, <1>2, <2>1, SumRemoves
<1>5. SumOf(f, {c, d}) = f[c] + f[d]
  BY SumOfTwo
<1> DEFINE p == f[a]
           q == f[b]
           r == f[c]
           s == f[d]
<1>6. p \in Int /\ q \in Int /\ r \in Int /\ s \in Int
  OBVIOUS
<1>7. SumOf(f, {a, b, c, d}) = p + (q + (r + s))
  BY <1>3, <1>4, <1>5
<1> HIDE DEF p, q, r, s
<1>8. p + (q + (r + s)) = (p + q) + (r + s)
  BY <1>6
<1> QED BY <1>7, <1>8 DEF p, q, r, s

-------------------------------------------------------------------------------
(* A bracket, and the shares on display. *)

\* A bracket's sums have four terms.
Crosses == [{1, 2} \X {3, 4} -> 0 .. 2]

LEMMA OnFourPaths ==
    ASSUME NEW a \in 0 .. 2, NEW c \in 0 .. 2, NEW wins \in Crosses, NEW t \in 1 .. 4
    PROVE  /\ OnPaths(Paths(a, c), t, 1, wins) =
                (a * c * Gets(t, 1, 3, wins) + a * (2 - c) * Gets(t, 1, 4, wins))
                  + ((2 - a) * c * Gets(t, 2, 3, wins) + (2 - a) * (2 - c) * Gets(t, 2, 4, wins))
           /\ OnPaths(Paths(a, c), t, 2, wins) =
                (a * c * Gets(t, 2, 4, wins) + a * (2 - c) * Gets(t, 2, 3, wins))
                  + ((2 - a) * c * Gets(t, 1, 4, wins) + (2 - a) * (2 - c) * Gets(t, 1, 3, wins))
<1> DEFINE p == <<<<1, 2, a>>, <<3, 4, c>>>>
           q == <<<<1, 2, a>>, <<4, 3, 2 - c>>>>
           r == <<<<2, 1, 2 - a>>, <<3, 4, c>>>>
           s == <<<<2, 1, 2 - a>>, <<4, 3, 2 - c>>>>
           f(place) == [w \in Paths(a, c) |-> w[1][3] * w[2][3] * Gets(t, w[1][place], w[2][place], wins)]
<1>1. Paths(a, c) = {p, q, r, s}
  BY DEF Paths
<1>2. p # q /\ p # r /\ p # s /\ q # r /\ q # s /\ r # s
  OBVIOUS
<1>3. \A v \in {1, 2}, w \in {3, 4} : Gets(t, v, w, wins) \in Int
  BY DEF Gets, Crosses
<1>4. \A x, y \in 0 .. 2, z \in Int : x * y * z \in Int
  OBVIOUS
<1>5. /\ f(1)[p] = a * c * Gets(t, 1, 3, wins) /\ f(1)[q] = a * (2 - c) * Gets(t, 1, 4, wins)
      /\ f(1)[r] = (2 - a) * c * Gets(t, 2, 3, wins)
      /\ f(1)[s] = (2 - a) * (2 - c) * Gets(t, 2, 4, wins)
  BY <1>1
<1>6. /\ f(2)[p] = a * c * Gets(t, 2, 4, wins) /\ f(2)[q] = a * (2 - c) * Gets(t, 2, 3, wins)
      /\ f(2)[r] = (2 - a) * c * Gets(t, 1, 4, wins)
      /\ f(2)[s] = (2 - a) * (2 - c) * Gets(t, 1, 3, wins)
  BY <1>1
<1>7. 2 - a \in 0 .. 2 /\ 2 - c \in 0 .. 2
  OBVIOUS
<1>8. \A x \in {p, q, r, s} : f(1)[x] \in Int /\ f(2)[x] \in Int
  <2> HIDE DEF p, q, r, s, f
  <2> QED BY <1>3, <1>4, <1>5, <1>6, <1>7
<1>9. /\ OnPaths(Paths(a, c), t, 1, wins) = SumOf(f(1), {p, q, r, s})
      /\ OnPaths(Paths(a, c), t, 2, wins) = SumOf(f(2), {p, q, r, s})
  BY <1>1 DEF OnPaths
<1> HIDE DEF p, q, r, s, f
<1>10. ASSUME NEW g, \A x \in {p, q, r, s} : g[x] \in Int
       PROVE  SumOf(g, {p, q, r, s}) = (g[p] + g[q]) + (g[r] + g[s])
  <2> DEFINE S == {p, q, r, s}
  <2>1. SumOf(g, S) = (g[p] + g[q]) + (g[r] + g[s])
    <3> HIDE DEF S
    <3>1. AreFour(S, p, q, r, s)
      BY <1>2 DEF AreFour, S
    <3>2. \A x \in S : g[x] \in Int
      BY <1>10 DEF S
    <3> QED BY <3>1, <3>2, SumOfFour
  <2> QED BY <2>1
<1>11. /\ SumOf(f(1), {p, q, r, s}) = (f(1)[p] + f(1)[q]) + (f(1)[r] + f(1)[s])
       /\ SumOf(f(2), {p, q, r, s}) = (f(2)[p] + f(2)[q]) + (f(2)[r] + f(2)[s])
  BY <1>8, <1>10
<1> QED BY <1>5, <1>6, <1>9, <1>11

\* The places of a bracket are given away once.
LEMMA BracketTotals ==
    ASSUME NEW a \in 0 .. 2, NEW c \in 0 .. 2, NEW cross \in Crosses,
           NEW T, T = Bracket(a, c, cross, cross)
    PROVE  /\ T[1].champion + T[2].champion + (T[3].champion + T[4].champion) = 8
           /\ T[1].third + T[2].third + (T[3].third + T[4].third) = 8
           /\ T[1].final + T[2].final + (T[3].final + T[4].final) = 16
           /\ T[1].small + T[2].small + (T[3].small + T[4].small) = 16
           /\ \A t \in 1 .. 4 :
                 /\ T[t].champion \in Int /\ T[t].third \in Int
                 /\ T[t].final \in Int /\ T[t].small \in Int
                 /\ T[t].champion <= T[t].final
                 /\ T[t].third <= T[t].small
           /\ a = 2 => T[2].champion = 0
           /\ a = 0 => T[1].champion = 0
           /\ c = 2 => T[4].champion = 0
           /\ c = 0 => T[3].champion = 0
<1> DEFINE k == cross[<<1, 3>>]
           l == cross[<<1, 4>>]
           m == cross[<<2, 3>>]
           n == cross[<<2, 4>>]
<1>1. k \in 0 .. 2 /\ l \in 0 .. 2 /\ m \in 0 .. 2 /\ n \in 0 .. 2
  BY DEF Crosses
<1>2. /\ T[1].final = 4 * a /\ T[2].final = 4 * (2 - a)
      /\ T[3].final = 4 * c /\ T[4].final = 4 * (2 - c)
      /\ T[1].small = 4 * (2 - a) /\ T[2].small = 4 * (2 - (2 - a))
      /\ T[3].small = 4 * (2 - c) /\ T[4].small = 4 * (2 - (2 - c))
  BY DEF Bracket
<1>3. \A t \in 1 .. 4 :
          /\ T[t].champion = OnPaths(Paths(a, c), t, 1, cross)
          /\ T[t].third = OnPaths(Paths(a, c), t, 2, cross)
  BY DEF Bracket
<1>4. /\ Gets(1, 1, 3, cross) = k /\ Gets(1, 1, 4, cross) = l
      /\ Gets(1, 2, 3, cross) = 0 /\ Gets(1, 2, 4, cross) = 0
      /\ Gets(2, 1, 3, cross) = 0 /\ Gets(2, 1, 4, cross) = 0
      /\ Gets(2, 2, 3, cross) = m /\ Gets(2, 2, 4, cross) = n
      /\ Gets(3, 1, 3, cross) = 2 - k /\ Gets(3, 1, 4, cross) = 0
      /\ Gets(3, 2, 3, cross) = 2 - m /\ Gets(3, 2, 4, cross) = 0
      /\ Gets(4, 1, 3, cross) = 0 /\ Gets(4, 1, 4, cross) = 2 - l
      /\ Gets(4, 2, 3, cross) = 0 /\ Gets(4, 2, 4, cross) = 2 - n
  BY DEF Gets
<1> HIDE DEF k, l, m, n
<1>5. /\ T[1].champion = (a * c * k + a * (2 - c) * l) + ((2 - a) * c * 0 + (2 - a) * (2 - c) * 0)
      /\ T[2].champion = (a * c * 0 + a * (2 - c) * 0) + ((2 - a) * c * m + (2 - a) * (2 - c) * n)
      /\ T[3].champion = (a * c * (2 - k) + a * (2 - c) * 0)
                            + ((2 - a) * c * (2 - m) + (2 - a) * (2 - c) * 0)
      /\ T[4].champion = (a * c * 0 + a * (2 - c) * (2 - l))
                            + ((2 - a) * c * 0 + (2 - a) * (2 - c) * (2 - n))
  BY <1>3, <1>4, OnFourPaths
<1>6. /\ T[1].third = (a * c * 0 + a * (2 - c) * 0) + ((2 - a) * c * l + (2 - a) * (2 - c) * k)
      /\ T[2].third = (a * c * n + a * (2 - c) * m) + ((2 - a) * c * 0 + (2 - a) * (2 - c) * 0)
      /\ T[3].third = (a * c * 0 + a * (2 - c) * (2 - m))
                         + ((2 - a) * c * 0 + (2 - a) * (2 - c) * (2 - k))
      /\ T[4].third = (a * c * (2 - n) + a * (2 - c) * 0)
                         + ((2 - a) * c * (2 - l) + (2 - a) * (2 - c) * 0)
  BY <1>3, <1>4, OnFourPaths
<1>7. \A t \in 1 .. 4 : t = 1 \/ t = 2 \/ t = 3 \/ t = 4
  OBVIOUS
<1>8. (a = 0 \/ a = 1 \/ a = 2) /\ (c = 0 \/ c = 1 \/ c = 2)
  OBVIOUS
<1>9. CASE a = 0 /\ c = 0
  BY <1>1, <1>2, <1>5, <1>6, <1>7, <1>9
<1>10. CASE a = 0 /\ c = 1
  BY <1>1, <1>2, <1>5, <1>6, <1>7, <1>10
<1>11. CASE a = 0 /\ c = 2
  BY <1>1, <1>2, <1>5, <1>6, <1>7, <1>11
<1>12. CASE a = 1 /\ c = 0
  BY <1>1, <1>2, <1>5, <1>6, <1>7, <1>12
<1>13. CASE a = 1 /\ c = 1
  BY <1>1, <1>2, <1>5, <1>6, <1>7, <1>13
<1>14. CASE a = 1 /\ c = 2
  BY <1>1, <1>2, <1>5, <1>6, <1>7, <1>14
<1>15. CASE a = 2 /\ c = 0
  BY <1>1, <1>2, <1>5, <1>6, <1>7, <1>15
<1>16. CASE a = 2 /\ c = 1
  BY <1>1, <1>2, <1>5, <1>6, <1>7, <1>16
<1>17. CASE a = 2 /\ c = 2
  BY <1>1, <1>2, <1>5, <1>6, <1>7, <1>17
<1> QED BY <1>8, <1>9, <1>10, <1>11, <1>12, <1>13, <1>14, <1>15, <1>16, <1>17

\* What a bracket shows adds up, and a semifinal that was lost leaves no chance of the title.
LEMMA BracketIsOne ==
    ASSUME AsksBracket
    PROVE  BracketAddsUp'
<1>1. PICK semis \in [Semifinals -> [complete : BOOLEAN, kick : {"before", "after"},
                                     score : {<<0, 1>>, <<1, 0>>, <<1, 1>>}]],
           half \in [Semifinals -> 0 .. 2], cross \in [{1, 2} \X {3, 4} -> 0 .. 2] :
        LET level == \E s \in Semifinals : Resolved(semis[s]) /\ semis[s].score = <<1, 1>>
            p == [s \in Semifinals |-> Fixed(semis[s], half[s])]
        IN  outlook' =
                   IF level THEN [status |-> "unavailable"]
                   ELSE [status |-> "bracket", semis |-> semis,
                         teams |-> Bracket(p[<<1, 2>>], p[<<3, 4>>], cross, cross)]
  BY ZenonT(40) DEF AsksBracket
<1> DEFINE level == \E s \in Semifinals : Resolved(semis[s]) /\ semis[s].score = <<1, 1>>
           a == Fixed(semis[<<1, 2>>], half[<<1, 2>>])
           c == Fixed(semis[<<3, 4>>], half[<<3, 4>>])
           T == Bracket(a, c, cross, cross)
<1>2. <<1, 2>> \in Semifinals /\ <<3, 4>> \in Semifinals /\ \A s \in Semifinals : s = <<1, 2>> \/ s = <<3, 4>>
  BY DEF Semifinals
<1>3. outlook' = IF level THEN [status |-> "unavailable"]
                 ELSE [status |-> "bracket", semis |-> semis, teams |-> T]
  BY <1>1, <1>2, SMTT(30)
<1>4. CASE level
  BY <1>3, <1>4 DEF BracketAddsUp
<1>5. CASE ~level
  <2>1. outlook'.status = "bracket" /\ outlook'.semis = semis /\ outlook'.teams = T
    BY <1>3, <1>5
  <2>2. a \in 0 .. 2 /\ c \in 0 .. 2
    BY <1>2 DEF Fixed
  <2>3. cross \in Crosses
    BY DEF Crosses
  <2> DEFINE total(m) == SumOf([t \in 1 .. 4 |-> T[t][m]], 1 .. 4)
  <2>4. /\ T[1].champion + T[2].champion + (T[3].champion + T[4].champion) = 8
        /\ T[1].third + T[2].third + (T[3].third + T[4].third) = 8
        /\ T[1].final + T[2].final + (T[3].final + T[4].final) = 16
        /\ T[1].small + T[2].small + (T[3].small + T[4].small) = 16
        /\ \A t \in 1 .. 4 :
              /\ T[t].champion \in Int /\ T[t].third \in Int
              /\ T[t].final \in Int /\ T[t].small \in Int
              /\ T[t].champion <= T[t].final
              /\ T[t].third <= T[t].small
        /\ a = 2 => T[2].champion = 0
        /\ a = 0 => T[1].champion = 0
        /\ c = 2 => T[4].champion = 0
        /\ c = 0 => T[3].champion = 0
    <3> HIDE DEF a, c
    <3> QED BY <2>2, <2>3, BracketTotals, SMTT(30)
  <2> HIDE DEF T
  <2>5. ASSUME NEW m, \A t \in 1 .. 4 : T[t][m] \in Int
        PROVE  total(m) = T[1][m] + T[2][m] + (T[3][m] + T[4][m])
    <3> DEFINE f == [t \in 1 .. 4 |-> T[t][m]]
    <3>1. f[1] = T[1][m] /\ f[2] = T[2][m] /\ f[3] = T[3][m] /\ f[4] = T[4][m]
      OBVIOUS
    <3>2. AreFour(1 .. 4, 1, 2, 3, 4)
      BY DEF AreFour
    <3>3. \A t \in 1 .. 4 : f[t] \in Int
      BY <2>5
    <3> HIDE DEF f
    <3>4. SumOf(f, 1 .. 4) = f[1] + f[2] + (f[3] + f[4])
      BY <3>2, <3>3, SumOfFour
    <3> QED BY <3>1, <3>4 DEF f
  <2>6. /\ total("champion") = 8 /\ total("third") = 8
        /\ total("final") = 16 /\ total("small") = 16
    BY <2>4, <2>5
  <2>7. ASSUME NEW s \in Semifinals, Resolved(semis[s])
        PROVE  T[s[IF semis[s].score[1] > semis[s].score[2] THEN 2 ELSE 1]].champion = 0
    <3>1. semis[s].score \in {<<0, 1>>, <<1, 0>>}
      BY <1>5, <2>7
    <3>2. Fixed(semis[s], half[s]) = IF semis[s].score[1] > semis[s].score[2] THEN 2 ELSE 0
      BY <2>7 DEF Fixed
    <3>3. CASE s = <<1, 2>>
      BY <2>4, <3>1, <3>2, <3>3
    <3>4. CASE s = <<3, 4>>
      BY <2>4, <3>1, <3>2, <3>4
    <3> QED BY <1>2, <3>3, <3>4
  <2> QED BY <2>1, <2>4, <2>6, <2>7 DEF BracketAddsUp, Resolved
<1> QED BY <1>4, <1>5

\* Whole units leave a remainder of each share.
LEMMA UnitsAndRest ==
    ASSUME NEW x \in Nat
    PROVE  /\ x \div Runs \in Int /\ x % Runs \in 0 .. Runs - 1
           /\ x = Runs * (x \div Runs) + (x % Runs)
<1> DEFINE n == Runs
<1>1. n \in Nat /\ n > 0
  BY SeasonAssumption
<1> HIDE DEF n
<1>2. x \div n \in Int /\ x % n \in 0 .. n - 1
  BY <1>1
<1>3. x = n * (x \div n) + (x % n)
  BY <1>1
<1> QED BY <1>2, <1>3 DEF n

\* The units that are missing go to remainders, and not to one that is nothing: the
\* remainders are as many units' worth as are missing.
LEMMA SharesFit ==
    ASSUME NEW slots \in Nat, NEW counts \in [Teams -> 0 .. Runs],
           SumOf(counts, Teams) = slots * Runs, NEW shown \in Shares(counts, slots)
    PROVE  /\ SumOf(shown, Teams) = slots * Units
           /\ \A t \in Teams :
                 /\ counts[t] * Units - Runs < shown[t] * Runs
                 /\ shown[t] * Runs < counts[t] * Units + Runs
<1> DEFINE exact == [t \in Teams |-> counts[t] * Units]
           floor == [t \in Teams |-> (counts[t] * Units) \div Runs]
           rest == [t \in Teams |-> (counts[t] * Units) % Runs]
           missing == slots * Units - SumOf(floor, Teams)
<1>1. PICK R \in SUBSET Teams :
          /\ Cardinality(R) = missing
          /\ \A t \in R, u \in Teams \ R : rest[t] >= rest[u]
          /\ shown = [t \in Teams |-> floor[t] + IF t \in R THEN 1 ELSE 0]
  BY Zenon DEF Shares
<1> DEFINE one == [t \in Teams |-> IF t \in R THEN 1 ELSE 0]
<1>2. \A t \in Teams :
          /\ exact[t] \in Nat /\ floor[t] \in Int /\ rest[t] \in 0 .. Runs - 1
          /\ one[t] \in Int /\ one[t] = IF t \in R THEN 1 ELSE 0
          /\ counts[t] \in Int
  <2>1. \A m \in 0 .. Runs : m * Units \in Nat
    BY SeasonAssumption
  <2> QED BY <2>1, UnitsAndRest
<1>3. \A t \in Teams :
          /\ exact[t] = Runs * floor[t] + rest[t]
          /\ exact[t] = Units * counts[t] + 0
          /\ shown[t] = 1 * one[t] + floor[t]
  <2> SUFFICES ASSUME NEW t \in Teams
               PROVE  /\ exact[t] = Runs * floor[t] + rest[t]
                      /\ exact[t] = Units * counts[t] + 0
                      /\ shown[t] = 1 * one[t] + floor[t]
    OBVIOUS
  <2>1. exact[t] = Runs * floor[t] + rest[t]
    <3> DEFINE x == counts[t] * Units
    <3>1. x \in Nat
      BY <1>2
    <3>2. exact[t] = x /\ floor[t] = x \div Runs /\ rest[t] = x % Runs
      OBVIOUS
    <3> HIDE DEF x
    <3>3. x = Runs * (x \div Runs) + (x % Runs)
      BY <3>1, UnitsAndRest
    <3> QED BY <3>2, <3>3
  <2>2. exact[t] = Units * counts[t] + 0
    <3>1. counts[t] \in Int /\ Units \in Int
      BY <1>2, SeasonAssumption
    <3>2. counts[t] * Units = Units * counts[t] /\ counts[t] * Units \in Int
      BY <3>1
    <3> QED BY <3>1, <3>2
  <2>3. shown[t] = 1 * one[t] + floor[t]
    BY <1>1, <1>2
  <2> QED BY <2>1, <2>2, <2>3
<1>4. IsFiniteSet(Teams) /\ Runs \in Nat \ {0} /\ Units \in Nat \ {0} /\ Runs \in Int /\ Units \in Int
  BY SeasonAssumption
<1> DEFINE none == [t \in Teams |-> 0]
<1>5. \A t \in Teams : none[t] = 0 /\ none[t] \in Int /\ none[t] = IF t \in {} THEN 1 ELSE 0
  OBVIOUS
<1> HIDE DEF exact, floor, rest, one, none
<1>6. SumOf(shown, Teams) = 1 * SumOf(one, Teams) + SumOf(floor, Teams)
  <2> DEFINE k == 1
  <2>1. k \in Int
    OBVIOUS
  <2>2. \A t \in Teams : one[t] \in Int /\ floor[t] \in Int /\ shown[t] = k * one[t] + floor[t]
    BY <1>2, <1>3
  <2> HIDE DEF k
  <2>3. SumOf(shown, Teams) = k * SumOf(one, Teams) + SumOf(floor, Teams)
    BY <1>4, <2>1, <2>2, SumAdds
  <2> QED BY <2>3 DEF k
<1>7. SumOf(one, Teams) = Cardinality(R)
  <2>1. SumOf(one, Teams) = Cardinality(Teams \cap R)
    BY <1>2, <1>4, SumCounts
  <2>2. Teams \cap R = R
    OBVIOUS
  <2> QED BY <2>1, <2>2
<1>8. /\ SumOf(floor, Teams) \in Int /\ SumOf(rest, Teams) \in Int /\ SumOf(exact, Teams) \in Int
      /\ SumOf(counts, Teams) \in Int
  <2>1. \A t \in Teams : rest[t] \in Int /\ exact[t] \in Int
    BY <1>2
  <2> QED BY <1>2, <1>4, <2>1, SumType
<1>9. SumOf(shown, Teams) = slots * Units
  <2>1. slots * Units \in Int
    BY <1>4
  <2> QED BY <1>1, <1>6, <1>7, <1>8, <2>1
<1>10. SumOf(exact, Teams) = Runs * SumOf(floor, Teams) + SumOf(rest, Teams)
  <2>1. \A t \in Teams : rest[t] \in Int
    BY <1>2
  <2> QED BY <1>2, <1>3, <1>4, <2>1, SumAdds
<1>11. SumOf(exact, Teams) = Units * (slots * Runs)
  <2>1. \A t \in Teams : exact[t] = Units * counts[t] + none[t]
    BY <1>3, <1>5
  <2>2. SumOf(exact, Teams) = Units * SumOf(counts, Teams) + SumOf(none, Teams)
    BY <1>2, <1>4, <1>5, <2>1, SumAdds
  <2>3. SumOf(none, Teams) = 0
    <3>1. SumOf(none, Teams) = Cardinality(Teams \cap {})
      BY <1>4, <1>5, SumCounts
    <3>2. Teams \cap {} = {}
      OBVIOUS
    <3> QED BY <3>1, <3>2, FS_EmptySet
  <2>4. Units * (slots * Runs) \in Int
    BY <1>4
  <2> QED BY <2>2, <2>3, <2>4
<1>12. SumOf(rest, Teams) = Runs * missing
  <2> DEFINE F == SumOf(floor, Teams)
  <2>1. F \in Int
    BY <1>8
  <2> HIDE DEF F
  <2>2. Units * (slots * Runs) = Runs * (slots * Units)
    BY <1>4
  <2>3. Runs * (slots * Units - F) = Runs * (slots * Units) - Runs * F
    BY <1>4, <2>1
  <2>4. Runs * (slots * Units) \in Int /\ Runs * F \in Int
    BY <1>4, <2>1
  <2> QED BY <1>8, <1>10, <1>11, <2>2, <2>3, <2>4 DEF F
<1>13. ASSUME NEW t \in R
       PROVE  rest[t] > 0
  <2> SUFFICES ASSUME rest[t] = 0 PROVE FALSE
    BY <1>2
  <2> DEFINE others == [u \in Teams |-> IF u \in R \ {t} THEN 1 ELSE 0]
             most == [u \in Teams |-> Runs * others[u] + none[u]]
  <2>1. \A u \in Teams : others[u] = (IF u \in R \ {t} THEN 1 ELSE 0) /\ others[u] \in Int
    OBVIOUS
  <2>2. \A u \in Teams : most[u] = Runs * others[u] + none[u] /\ most[u] \in Int
    BY <1>4, <1>5
  <2>3. \A u \in Teams : rest[u] <= most[u]
    <3> SUFFICES ASSUME NEW u \in Teams PROVE rest[u] <= most[u]
      OBVIOUS
    <3>1. CASE u \in R \ {t}
      BY <1>2, <1>4, <1>5, <3>1
    <3>2. CASE u = t
      BY <1>4, <1>5, <3>2
    <3>3. CASE u \notin R
      <4>1. rest[u] = 0
        BY <1>1, <1>2, <3>3
      <4> QED BY <1>4, <1>5, <3>3, <4>1
    <3> QED BY <3>1, <3>2, <3>3
  <2> HIDE DEF others, most
  <2>4. SumOf(rest, Teams) <= SumOf(most, Teams)
    <3>1. \A u \in Teams : rest[u] \in Int
      BY <1>2
    <3> QED BY <1>4, <2>2, <2>3, <3>1, SumAtMost
  <2>5. SumOf(most, Teams) = Runs * SumOf(others, Teams) + SumOf(none, Teams)
    BY <1>4, <1>5, <2>1, <2>2, SumAdds
  <2>6. SumOf(none, Teams) = 0
    <3>1. SumOf(none, Teams) = Cardinality(Teams \cap {})
      BY <1>4, <1>5, SumCounts
    <3>2. Teams \cap {} = {}
      OBVIOUS
    <3> QED BY <3>1, <3>2, FS_EmptySet
  <2>7. SumOf(others, Teams) = Cardinality(R) - 1
    <3>1. SumOf(others, Teams) = Cardinality(Teams \cap (R \ {t}))
      BY <1>4, <2>1, SumCounts
    <3>2. Teams \cap (R \ {t}) = R \ {t}
      OBVIOUS
    <3>3. IsFiniteSet(R)
      BY <1>4, FS_Subset
    <3> QED BY <3>1, <3>2, <3>3, FS_RemoveElement
  <2>8. missing \in Int
    BY <1>4, <1>8
  <2> HIDE DEF missing
  <2>9. Runs * missing <= Runs * (missing - 1)
    <3>1. Runs * (missing - 1) \in Int
      BY <1>4, <2>8
    <3> QED BY <1>1, <1>12, <2>4, <2>5, <2>6, <2>7, <3>1
  <2>10. Runs * (missing - 1) = Runs * missing - Runs /\ Runs * missing \in Int
    BY <1>4, <2>8
  <2> QED BY <1>4, <2>9, <2>10
<1>14. \A t \in Teams : counts[t] * Units - Runs < shown[t] * Runs /\ shown[t] * Runs < counts[t] * Units + Runs
  <2> SUFFICES ASSUME NEW t \in Teams
               PROVE  exact[t] - Runs < shown[t] * Runs /\ shown[t] * Runs < exact[t] + Runs
    BY DEF exact
  <2>1. exact[t] = Runs * floor[t] + rest[t] /\ floor[t] \in Int /\ rest[t] \in 0 .. Runs - 1
    BY <1>2, <1>3
  <2> DEFINE whole == Runs * floor[t]
  <2>2. /\ floor[t] * Runs = whole /\ (floor[t] + 1) * Runs = whole + Runs
        /\ whole \in Int /\ exact[t] = whole + rest[t]
    BY <1>4, <2>1
  <2> HIDE DEF whole
  <2>3. CASE t \in R
    <3>1. shown[t] * Runs = whole + Runs
      BY <1>1, <2>2, <2>3
    <3>2. rest[t] > 0
      BY <1>13, <2>3
    <3> QED BY <1>4, <2>1, <2>2, <3>1, <3>2
  <2>4. CASE t \notin R
    <3>1. shown[t] * Runs = whole
      BY <1>1, <2>1, <2>2, <2>4
    <3> QED BY <1>4, <2>1, <2>2, <3>1
  <2> QED BY <2>3, <2>4
<1> QED BY <1>9, <1>14

\* So the shares on display add up.
LEMMA SharesAreWhole ==
    ASSUME AsksShares
    PROVE  SharesAddUp'
<1>1. PICK slots \in 1 .. Cardinality(Teams), counts \in [Teams -> 0 .. Runs] :
          /\ SumOf(counts, Teams) = slots * Runs
          /\ outlook' \in {[status |-> "shares", shown |-> s, counts |-> counts,
                            slots |-> slots] : s \in Shares(counts, slots)}
  BY DEF AsksShares
<1>2. PICK s \in Shares(counts, slots) :
          outlook' = [status |-> "shares", shown |-> s, counts |-> counts, slots |-> slots]
  BY <1>1
<1>3. outlook'.shown = s /\ outlook'.counts = counts /\ outlook'.slots = slots
  BY <1>2
<1>4. slots \in Nat
  OBVIOUS
<1>5. /\ SumOf(s, Teams) = slots * Units
      /\ \A t \in Teams :
            /\ counts[t] * Units - Runs < s[t] * Runs
            /\ s[t] * Runs < counts[t] * Units + Runs
  BY <1>1, <1>4, SharesFit
<1> QED BY <1>3, <1>5 DEF SharesAddUp

-------------------------------------------------------------------------------
(* A season. *)

\* A row of the index; of each id there is one, and there are finitely many.
RowFields == {"id", "pair", "kick", "score"}
IsRow(r) ==
    /\ DOMAIN r = RowFields /\ r = [k \in RowFields |-> r[k]]
    /\ r.kick \in {"before", "at", "after"}
RowsFit(rows) ==
    /\ IsFiniteSet(rows)
    /\ \A r \in rows : IsRow(r)
    /\ \A r, q \in rows : r.id = q.id => r = q

\* The rows an index starts with.
LEMMA ListedFits ==
    ASSUME NEW scores
    PROVE  RowsFit(Listed(scores))
<1>1. IsFiniteSet(Pairs)
  <2>1. IsFiniteSet(Teams \X Teams)
    BY FS_Product, SeasonAssumption
  <2> QED BY <2>1, FS_Subset DEF Pairs
<1>2. IsFiniteSet(Listed(scores))
  <2> DEFINE f == [p \in Pairs |-> [id |-> p, pair |-> p, kick |-> Kick[p], score |-> scores[p]]]
  <2>1. f \in Surjection(Pairs, Listed(scores))
    BY DEF Listed, Surjection
  <2> HIDE DEF f
  <2> QED BY <1>1, <2>1, FS_Surjection
<1>3. \A r \in Listed(scores) : IsRow(r)
  BY SeasonAssumption DEF Listed, IsRow, RowFields
<1>4. \A r, q \in Listed(scores) : r.id = q.id => r = q
  BY DEF Listed
<1> QED BY <1>2, <1>3, <1>4 DEF RowsFit

\* A list that lacks a fixture, or has a pair wrong, still has one row of each id.
LEMMA DefectsFit ==
    ASSUME NEW rows, RowsFit(rows)
    PROVE  \A d \in Defects(rows) : RowsFit(d)
<1> SUFFICES ASSUME NEW d \in Defects(rows) PROVE RowsFit(d)
  OBVIOUS
<1>1. CASE d \subseteq rows
  BY <1>1, FS_Subset DEF RowsFit
<1>2. ASSUME NEW p, NEW q, d = Mispaired(rows, p, q)
      PROVE  RowsFit(d)
  <2> DEFINE F(r) == IF r.id = p THEN [r EXCEPT !.pair = q] ELSE r
  <2>1. d = {F(r) : r \in rows}
    BY <1>2 DEF Mispaired
  <2>2. \A r \in rows : IsRow(F(r)) /\ F(r).id = r.id
    BY DEF RowsFit, IsRow, RowFields
  <2> HIDE DEF F
  <2>3. IsFiniteSet(d)
    <3> DEFINE f == [r \in rows |-> F(r)]
    <3>1. f \in Surjection(rows, d)
      BY <2>1 DEF Surjection
    <3> HIDE DEF f
    <3> QED BY <3>1, FS_Surjection DEF RowsFit
  <2>4. \A r \in d : IsRow(r)
    BY <2>1, <2>2
  <2>5. \A r, s \in d : r.id = s.id => r = s
    <3> SUFFICES ASSUME NEW r \in d, NEW s \in d, r.id = s.id PROVE r = s
      OBVIOUS
    <3>1. PICK a \in rows : r = F(a)
      BY <2>1
    <3>2. PICK b \in rows : s = F(b)
      BY <2>1
    <3>3. a = b
      BY <2>2, <3>1, <3>2 DEF RowsFit
    <3> QED BY <3>1, <3>2, <3>3
  <2> QED BY <2>3, <2>4, <2>5 DEF RowsFit
<1>3. \/ d \subseteq rows
      \/ \E p, q : d = Mispaired(rows, p, q)
  BY DEF Defects
<1> QED BY <1>1, <1>2, <1>3, Zenon

\* What a scenario may force: fixtures of the season that have not begun.
Forces(rows, forced) ==
    /\ forced \in [DOMAIN forced -> Results]
    /\ DOMAIN forced \subseteq {r.id : r \in Remaining(rows)}

\* Forcing rows changes their scores alone.
LEMMA ForcedRows ==
    ASSUME NEW rows, RowsFit(rows), NEW forced,
           NEW r \in Forced(rows, forced)
    PROVE  /\ IsRow(r)
           /\ \E q \in rows :
                 /\ q.id = r.id
                 /\ r.id \in DOMAIN forced => r.score = forced[r.id]
                 /\ r.id \notin DOMAIN forced => r = q
<1>1. PICK q \in rows :
          r = IF q.id \in DOMAIN forced THEN [q EXCEPT !.score = forced[q.id]] ELSE q
  BY DEF Forced
<1>2. IsRow(q)
  BY DEF RowsFit
<1> QED BY <1>1, <1>2 DEF IsRow, RowFields

\* They are the rows of the same fixtures.
FixturesOf(rows) == {<<r.id, r.pair>> : r \in rows}

LEMMA ForcedKeepsFixtures ==
    ASSUME NEW rows, \A r \in rows : IsRow(r), NEW forced
    PROVE  FixturesOf(Forced(rows, forced)) = FixturesOf(rows)
<1> DEFINE F(r) == IF r.id \in DOMAIN forced THEN [r EXCEPT !.score = forced[r.id]] ELSE r
<1>1. Forced(rows, forced) = {F(r) : r \in rows}
  BY DEF Forced
<1>2. \A r \in rows : F(r).id = r.id /\ F(r).pair = r.pair
  BY DEF IsRow, RowFields
<1> HIDE DEF F
<1> QED BY <1>1, <1>2 DEF FixturesOf

\* A fixture that is forced had no result, and its row is no more in the index.
LEMMA ForcedWereOpen ==
    ASSUME NEW rows, RowsFit(rows), NEW forced, Forces(rows, forced),
           NEW q \in rows, q.id \in DOMAIN forced
    PROVE  ~Played(q)
<1>1. PICK r \in Remaining(rows) : r.id = q.id
  BY DEF Forces
<1>2. r = q
  BY <1>1 DEF Remaining, RowsFit
<1> QED BY <1>1, <1>2 DEF Remaining

\* Once forced, a fixture has a result.
LEMMA ForcedArePlayed ==
    ASSUME NEW rows, RowsFit(rows), NEW forced, Forces(rows, forced),
           NEW r \in Forced(rows, forced), r.id \in DOMAIN forced
    PROVE  Played(r) /\ r \notin rows
<1>1. r.score = forced[r.id] /\ forced[r.id] \in Results
  BY ForcedRows DEF Forces
<1>2. Played(r)
  BY <1>1, SeasonAssumption DEF Played
<1> QED BY <1>2, ForcedWereOpen

\* The rows the table may count are the results that were known, and what the
\* scenario forces.
LEMMA VisibleIsKnown ==
    ASSUME NEW rows, RowsFit(rows), NEW forced, Forces(rows, forced)
    PROVE  Visible(Forced(rows, forced), forced)
             = {r \in Forced(rows, forced) :
                   Played(r) /\ (r \in rows => r.kick # "after")}
<1> SUFFICES ASSUME NEW r \in Forced(rows, forced), Played(r)
             PROVE  (r.kick # "after" \/ r.id \in DOMAIN forced)
                       <=> (r \in rows => r.kick # "after")
  BY DEF Visible
<1>1. CASE r.id \in DOMAIN forced
  BY <1>1, ForcedArePlayed
<1>2. CASE r.id \notin DOMAIN forced
  BY <1>2, ForcedRows
<1> QED BY <1>1, <1>2

\* The fixtures that a run draws, and the season it ends with.
OpenRows(rows, forced) == {r \in Forced(rows, forced) : ~Played(r)}
FinalRows(rows, forced, scores) ==
    (Forced(rows, forced) \ OpenRows(rows, forced)) \cup Forced(OpenRows(rows, forced), scores)

\* A run keeps the fixtures, what was played and what is forced.
LEMMA RunKeeps ==
    ASSUME NEW rows, RowsFit(rows), NEW forced, Forces(rows, forced),
           NEW scores
    PROVE  /\ FixturesOf(FinalRows(rows, forced, scores)) = FixturesOf(rows)
           /\ \A r \in rows : Played(r) => r \in FinalRows(rows, forced, scores)
           /\ \A r \in FinalRows(rows, forced, scores) : r.id \in DOMAIN forced => r.score = forced[r.id]
<1> DEFINE open == OpenRows(rows, forced)
           done == Forced(rows, forced) \ open
           drawn == Forced(open, scores)
<1>1. ASSUME NEW r \in rows, Played(r)
      PROVE  r \in done
  <2>1. r.id \notin DOMAIN forced
    BY <1>1, ForcedWereOpen
  <2>2. r \in Forced(rows, forced)
    BY <2>1 DEF Forced
  <2> QED BY <1>1, <2>2 DEF OpenRows
<1>2. ASSUME NEW r \in done, r.id \in DOMAIN forced
      PROVE  r.score = forced[r.id]
  BY <1>2, ForcedRows
<1>3. ASSUME NEW r \in drawn
      PROVE  r.id \notin DOMAIN forced
  <2>1. PICK q \in open :
            r = IF q.id \in DOMAIN scores THEN [q EXCEPT !.score = scores[q.id]] ELSE q
    BY <1>3 DEF Forced
  <2>2. q \in Forced(rows, forced) /\ ~Played(q) /\ IsRow(q)
    BY ForcedRows DEF OpenRows
  <2>3. r.id = q.id
    BY <2>1, <2>2 DEF IsRow, RowFields
  <2> QED BY <2>2, <2>3, ForcedArePlayed
<1>4. FixturesOf(done \cup drawn) = FixturesOf(rows)
  <2>1. \A r \in Forced(rows, forced) : IsRow(r)
    BY ForcedRows
  <2>2. FixturesOf(drawn) = FixturesOf(open)
    <3>1. \A r \in open : IsRow(r)
      BY <2>1 DEF OpenRows
    <3> QED BY <3>1, ForcedKeepsFixtures
  <2>3. FixturesOf(Forced(rows, forced)) = FixturesOf(rows)
    BY ForcedKeepsFixtures DEF RowsFit
  <2>4. open \subseteq Forced(rows, forced)
    BY DEF OpenRows
  <2>5. \A S, T : FixturesOf(S \cup T) = FixturesOf(S) \cup FixturesOf(T)
    BY DEF FixturesOf
  <2>6. FixturesOf(done \cup drawn) = FixturesOf(done) \cup FixturesOf(open)
    BY <2>2, <2>5
  <2>7. done \cup open = Forced(rows, forced)
    BY <2>4
  <2> HIDE DEF done, drawn
  <2> QED BY <2>3, <2>5, <2>6, <2>7, ZenonT(40)
<1> QED BY <1>1, <1>2, <1>3, <1>4 DEF FinalRows

\* What lets a season be simulated.
LEMMA ReasonIsNone ==
    ASSUME NEW rows, Reason(rows) = "none"
    PROVE  /\ ListIsComplete(rows)
           /\ \A r \in rows : r.kick = "after" => ~Played(r)
           /\ \A r \in rows : r.kick = "before" => Played(r)
BY DEF Reason

\* The pulse has each row at most once, and rates whoever still plays.
LEMMA PulseAgrees ==
    ASSUME NEW rows, RowsFit(rows)
    PROVE  LET played == {r \in rows : Played(r) /\ r.kick # "after"}
               gaps == {r \in rows : ~Played(r) /\ r.kick # "after"}
               rest == Remaining(rows)
               rated == IF ~ListIsComplete(rows) THEN {}
                        ELSE UNION {{r.pair[1], r.pair[2]} : r \in Remaining(rows)}
           IN
           /\ rows \ (played \cup gaps \cup rest)
                  = {r \in rows : r \notin Visible(rows, <<>>) /\ Played(r)}
           /\ Cardinality(played) + Cardinality(gaps) + Cardinality(rest)
                  <= Cardinality(rows)
           /\ Reason(rows) = "none" =>
                  /\ \A r \in gaps : r.kick = "at"
                  /\ rated = UNION {{r.pair[1], r.pair[2]} :
                                       r \in {q \in rows : q.kick = "after"}}
<1> DEFINE played == {r \in rows : Played(r) /\ r.kick # "after"}
           gaps == {r \in rows : ~Played(r) /\ r.kick # "after"}
           rest == Remaining(rows)
           rated == IF ~ListIsComplete(rows) THEN {}
                    ELSE UNION {{r.pair[1], r.pair[2]} : r \in Remaining(rows)}
<1>1. rows \ (played \cup gaps \cup rest)
         = {r \in rows : r \notin Visible(rows, <<>>) /\ Played(r)}
  <2>1. DOMAIN <<>> = {}
    OBVIOUS
  <2> QED BY <2>1 DEF Visible, Remaining
<1>2. Cardinality(played) + Cardinality(gaps) + Cardinality(rest) <= Cardinality(rows)
  <2>1. /\ IsFiniteSet(rows) /\ IsFiniteSet(played) /\ IsFiniteSet(gaps) /\ IsFiniteSet(rest)
        /\ IsFiniteSet(played \cup gaps)
        /\ played \cup gaps \cup rest \subseteq rows
    <3>1. played \cup gaps \cup rest \subseteq rows
      BY DEF Remaining
    <3> QED BY <3>1, FS_Subset DEF RowsFit
  <2>2. Cardinality(played \cup gaps) = Cardinality(played) + Cardinality(gaps)
    <3>1. played \cap gaps = {}
      OBVIOUS
    <3> QED BY <2>1, <3>1, DisjointCardinality
  <2>3. Cardinality((played \cup gaps) \cup rest)
          = Cardinality(played \cup gaps) + Cardinality(rest)
    <3>1. (played \cup gaps) \cap rest = {}
      BY DEF Remaining
    <3> QED BY <2>1, <3>1, DisjointCardinality
  <2>4. Cardinality((played \cup gaps) \cup rest) <= Cardinality(rows)
    BY <2>1, FS_Subset
  <2> QED BY <2>2, <2>3, <2>4
<1>3. ASSUME Reason(rows) = "none"
      PROVE  /\ \A r \in gaps : r.kick = "at"
             /\ rated = UNION {{r.pair[1], r.pair[2]} :
                                  r \in {q \in rows : q.kick = "after"}}
  <2>1. \A r \in gaps : r.kick = "at"
    BY <1>3, ReasonIsNone DEF RowsFit, IsRow
  <2>2. Remaining(rows) = {q \in rows : q.kick = "after"}
    BY <1>3, ReasonIsNone DEF Remaining
  <2> QED BY <1>3, <2>1, <2>2, ReasonIsNone
<1> QED BY <1>1, <1>2, <1>3

\* The pairs of a group: each with each other, in two orders.
PairsOf(G) == {p \in G \X G : p[1] # p[2]}

LEMMA PairsAreMany ==
    ASSUME NEW G, IsFiniteSet(G)
    PROVE  /\ IsFiniteSet(PairsOf(G)) /\ Cardinality(G) \in Nat
           /\ Cardinality(PairsOf(G)) = Cardinality(G) * (Cardinality(G) - 1)
<1> DEFINE D == {<<t, t>> : t \in G}
           n == Cardinality(G)
<1>1. n \in Nat /\ IsFiniteSet(G \X G) /\ Cardinality(G \X G) = n * n
  BY FS_CardinalityType, FS_Product
<1>2. IsFiniteSet(D) /\ Cardinality(D) = n
  <2> DEFINE f == [t \in G |-> <<t, t>>]
  <2>1. f \in Bijection(G, D)
    BY DEF Bijection, Injection, IsInjective, Surjection
  <2> HIDE DEF f, D
  <2> QED BY <2>1, FS_Bijection DEF ExistsBijection
<1>3. PairsOf(G) \cup D = G \X G /\ PairsOf(G) \cap D = {}
  BY DEF PairsOf
<1>4. IsFiniteSet(PairsOf(G))
  BY <1>1, <1>3, FS_Subset
<1> HIDE DEF D
<1>5. Cardinality(G \X G) = Cardinality(PairsOf(G)) + Cardinality(D)
  BY <1>2, <1>3, <1>4, DisjointCardinality
<1>6. Cardinality(PairsOf(G)) \in Nat
  BY <1>4, FS_CardinalityType
<1>7. n * (n - 1) = n * n - n
  BY <1>1
<1> QED BY <1>1, <1>2, <1>4, <1>5, <1>6, <1>7

LEMMA PairsOfTeams ==
    /\ IsFiniteSet(Teams) /\ IsFiniteSet(Pairs)
    /\ Cardinality(Teams) \in Nat /\ Cardinality(Teams) >= 2 /\ Cardinality(Pairs) \in Nat
    /\ Cardinality(Pairs) = Cardinality(Teams) * (Cardinality(Teams) - 1)
<1>1. IsFiniteSet(Teams) /\ Pairs = PairsOf(Teams)
  BY SeasonAssumption DEF Pairs, PairsOf
<1>2. Cardinality(Teams) \in Nat /\ Cardinality(Teams) >= 2
  <2>1. Cardinality(Teams) \in Nat
    BY <1>1, FS_CardinalityType
  <2> QED BY <2>1, SeasonAssumption
<1> QED BY <1>1, <1>2, PairsAreMany, FS_CardinalityType

\* As many rows as ids.
IdsOf(rows) == {r.id : r \in rows}
PairsIn(rows) == {r.pair : r \in rows}

LEMMA RowsPerId ==
    ASSUME NEW rows, RowsFit(rows)
    PROVE  /\ IsFiniteSet(rows) /\ Cardinality(rows) \in Nat
           /\ Cardinality(rows) = Cardinality(IdsOf(rows))
<1> DEFINE f == [r \in rows |-> r.id]
<1>1. f \in Bijection(rows, IdsOf(rows))
  BY DEF Bijection, Injection, IsInjective, Surjection, IdsOf, RowsFit
<1> HIDE DEF f
<1> QED BY <1>1, FS_Bijection, FS_CardinalityType DEF RowsFit, ExistsBijection

\* The rows of an index: of each pair one, all of them but for a defect.
LeagueRows(rows) ==
    /\ RowsFit(rows)
    /\ \A r \in rows : r.pair \in Teams \X Teams /\ r.score \in Results \cup {NoScore}
    /\ rows = {} \/ Cardinality(rows) \in {Cardinality(Pairs), Cardinality(Pairs) - 1}

LEMMA ListedIsLeague ==
    ASSUME NEW scores \in [Pairs -> Results \cup {NoScore}]
    PROVE  LeagueRows(Listed(scores)) /\ Cardinality(Listed(scores)) = Cardinality(Pairs)
<1>1. RowsFit(Listed(scores))
  BY ListedFits
<1>2. \A r \in Listed(scores) : r.pair \in Teams \X Teams /\ r.score \in Results \cup {NoScore}
  BY DEF Listed, Pairs
<1>3. IdsOf(Listed(scores)) = Pairs
  <2>1. \A r \in Listed(scores) : r.id \in Pairs
    BY DEF Listed
  <2>2. ASSUME NEW p \in Pairs
        PROVE  \E r \in Listed(scores) : r.id = p
    <3> DEFINE r == [id |-> p, pair |-> p, kick |-> Kick[p], score |-> scores[p]]
    <3>1. r \in Listed(scores) /\ r.id = p
      BY DEF Listed
    <3> QED BY <3>1
  <2> QED BY <2>1, <2>2 DEF IdsOf
<1>4. Cardinality(Listed(scores)) = Cardinality(Pairs)
  BY <1>1, <1>3, RowsPerId
<1> QED BY <1>1, <1>2, <1>4 DEF LeagueRows

LEMMA OneIsOne ==
    ASSUME NEW S, IsFiniteSet(S)
    PROVE  /\ One(S) \subseteq S
           /\ IsFiniteSet(S \ One(S)) /\ Cardinality(S) \in Nat
           /\ S # {} => Cardinality(S \ One(S)) = Cardinality(S) - 1
<1> DEFINE x == CHOOSE y \in S : TRUE
<1>1. S # {} => x \in S /\ One(S) = {x}
  BY DEF One
<1>2. One(S) \subseteq S
  BY DEF One
<1> HIDE DEF x
<1>3. S # {} => S \ One(S) = S \ {x}
  BY <1>1
<1> QED BY <1>1, <1>2, <1>3, FS_RemoveElement, FS_Subset, FS_CardinalityType

LEMMA DefectsAreLeague ==
    ASSUME NEW rows, LeagueRows(rows), Cardinality(rows) = Cardinality(Pairs)
    PROVE  \A d \in Defects(rows) : LeagueRows(d)
<1> SUFFICES ASSUME NEW d \in Defects(rows) PROVE LeagueRows(d)
  OBVIOUS
<1>1. RowsFit(d)
  BY DefectsFit DEF LeagueRows
<1>2. IsFiniteSet(rows) /\ Cardinality(rows) \in Nat
  BY RowsPerId DEF LeagueRows
<1>3. CASE d = {}
  BY <1>1, <1>3 DEF LeagueRows
<1>4. CASE d = rows
  BY <1>4
<1>5. CASE d = rows \ One(rows)
  <2>1. rows # {} => Cardinality(d) = Cardinality(Pairs) - 1
    BY <1>2, <1>5, OneIsOne
  <2>2. d \subseteq rows
    BY <1>5
  <2> QED BY <1>1, <2>1, <2>2 DEF LeagueRows
<1>6. ASSUME NEW p, NEW q \in Teams \X Teams, d = Mispaired(rows, p, q)
      PROVE  LeagueRows(d)
  <2> DEFINE F(r) == IF r.id = p THEN [r EXCEPT !.pair = q] ELSE r
  <2>1. d = {F(r) : r \in rows}
    BY <1>6 DEF Mispaired
  <2>2. \A r \in rows : F(r).id = r.id /\ F(r).score = r.score /\ F(r).pair \in {r.pair, q}
    BY DEF LeagueRows, RowsFit, IsRow, RowFields
  <2> HIDE DEF F
  <2>3. IdsOf(d) = IdsOf(rows)
    BY <2>1, <2>2 DEF IdsOf
  <2>4. Cardinality(d) = Cardinality(rows)
    BY <1>1, <2>3, RowsPerId DEF LeagueRows
  <2>5. \A r \in d : r.pair \in Teams \X Teams /\ r.score \in Results \cup {NoScore}
    BY <2>1, <2>2 DEF LeagueRows
  <2> QED BY <1>1, <2>4, <2>5 DEF LeagueRows
<1>7. \/ d = {} \/ d = rows \/ d = rows \ One(rows)
      \/ \E p, q : q \in Teams \X Teams /\ d = Mispaired(rows, p, q)
  <2>1. \A m \in Mistaken : m[2] \in Teams \X Teams
    BY DEF Mistaken, One, Pairs
  <2> QED BY <2>1 DEF Defects
<1> QED BY <1>3, <1>4, <1>5, <1>6, <1>7

\* A list that is complete, as the certificate counts it, has each pair of the league once.
LEMMA CompleteIsLeague ==
    ASSUME NEW rows, LeagueRows(rows), rows # {}, ListIsComplete(rows)
    PROVE  PairsIn(rows) = Pairs /\ Cardinality(rows) = Cardinality(Pairs)
<1> DEFINE pairs == PairsIn(rows)
           U == UNION {{p[1], p[2]} : p \in pairs}
           n == Cardinality(Teams)
           E == Expected
<1>1. /\ Cardinality(U) = E
      /\ Cardinality(rows) = E * (E - 1)
      /\ Cardinality(pairs) = E * (E - 1)
      /\ \A p \in pairs : p[1] # p[2]
  BY DEF ListIsComplete, PairsIn
<1>2. pairs \subseteq Pairs
  BY <1>1 DEF PairsIn, LeagueRows, Pairs
<1>3. U \subseteq Teams
  BY <1>2 DEF Pairs
<1>4. E \in Nat /\ E <= n /\ n \in Nat /\ n >= 2
  <2> HIDE DEF U
  <2> QED BY <1>1, <1>3, PairsOfTeams, FS_Subset, FS_CardinalityType
<1> HIDE DEF U, pairs
<1>5. E = n
  <2> SUFFICES ASSUME E # n PROVE FALSE
    OBVIOUS
  <2>1. Cardinality(rows) \in {n * (n - 1), n * (n - 1) - 1}
    BY PairsOfTeams DEF LeagueRows
  <2>2. PICK m \in Nat : E + m = n - 1
    <3>1. n - 1 - E \in Nat /\ E + (n - 1 - E) = n - 1
      BY <1>4
    <3> QED BY <3>1
  <2>3. n * (n - 1) = E * (E - 1) + (2 * E) + (m * (E + m + 1) + E * m)
    <3>1. n = E + m + 1
      BY <1>4, <2>2
    <3> QED BY <1>4, <3>1
  <2>4. m * (E + m + 1) \in Nat /\ E * m \in Nat /\ E * (E - 1) \in Int
    BY <1>4
  <2>5. m * (E + m + 1) >= m
    BY <1>4, <2>2
  <2> DEFINE x == m * (E + m + 1)
             y == E * m
             z == E * (E - 1)
             w == n * (n - 1)
  <2>6. x \in Nat /\ y \in Nat /\ z \in Int /\ x >= m /\ w = z + (2 * E) + (x + y) /\ z \in {w, w - 1}
    BY <1>1, <2>1, <2>3, <2>4, <2>5
  <2>7. E = 0 => x >= 2
    BY <1>4, <2>2
  <2> HIDE DEF x, y, z, w
  <2> QED BY <1>4, <2>6, <2>7
<1>6. Cardinality(pairs) = Cardinality(Pairs) /\ Cardinality(rows) = Cardinality(Pairs)
  BY <1>1, <1>5, PairsOfTeams
<1>7. pairs = Pairs
  BY <1>2, <1>6, PairsOfTeams, FS_Subset
<1> QED BY <1>6, <1>7 DEF pairs

-------------------------------------------------------------------------------
(* The order a season ends in. *)

\* Results: rows that have a score.
AllScored(rows) == RowsFit(rows) /\ \A r \in rows : r.score \in Nat \X Nat

\* What a team has of two seasons, or of the halves of one, is what it has of each.
LEMMA CountsAdd ==
    ASSUME NEW A, NEW B, AllScored(A \cup B), A \cap B = {}, NEW t
    PROVE  /\ Won(A \cup B, t) = Won(A, t) + Won(B, t)
           /\ Drawn(A \cup B, t) = Drawn(A, t) + Drawn(B, t)
           /\ Won(A, t) \in Nat /\ Won(B, t) \in Nat /\ Drawn(A, t) \in Nat /\ Drawn(B, t) \in Nat
<1> DEFINE W(rows) == {r \in Of(rows, t) : For(r, t) > Against(r, t)}
           D(rows) == {r \in Of(rows, t) : For(r, t) = Against(r, t)}
<1>1. /\ W(A \cup B) = W(A) \cup W(B) /\ W(A) \cap W(B) = {}
      /\ D(A \cup B) = D(A) \cup D(B) /\ D(A) \cap D(B) = {}
  BY DEF Of
<1>2. IsFiniteSet(W(A)) /\ IsFiniteSet(W(B)) /\ IsFiniteSet(D(A)) /\ IsFiniteSet(D(B))
  <2>1. /\ W(A) \subseteq A \cup B /\ W(B) \subseteq A \cup B
        /\ D(A) \subseteq A \cup B /\ D(B) \subseteq A \cup B
    BY DEF Of
  <2> HIDE DEF W, D
  <2> QED BY <2>1, FS_Subset DEF AllScored, RowsFit
<1>3. /\ Won(A, t) = Cardinality(W(A)) /\ Won(B, t) = Cardinality(W(B))
      /\ Won(A \cup B, t) = Cardinality(W(A \cup B))
      /\ Drawn(A, t) = Cardinality(D(A)) /\ Drawn(B, t) = Cardinality(D(B))
      /\ Drawn(A \cup B, t) = Cardinality(D(A \cup B))
  BY DEF Won, Drawn
<1> HIDE DEF W, D
<1>4. /\ Cardinality(W(A) \cup W(B)) = Cardinality(W(A)) + Cardinality(W(B))
      /\ Cardinality(D(A) \cup D(B)) = Cardinality(D(A)) + Cardinality(D(B))
  BY <1>1, <1>2, DisjointCardinality
<1>5. /\ Cardinality(W(A)) \in Nat /\ Cardinality(W(B)) \in Nat
      /\ Cardinality(D(A)) \in Nat /\ Cardinality(D(B)) \in Nat
  BY <1>2, FS_CardinalityType
<1> QED BY <1>1, <1>3, <1>4, <1>5

\* Goals are counted one by one; g is of the team's, or of its opponents'.
GoalSets(rows, g) == UNION {{<<r.id, goal>> : goal \in 1 .. g[r]} : r \in rows}

LEMMA GoalsFit ==
    ASSUME NEW rows, IsFiniteSet(rows), NEW g, \A r \in rows : g[r] \in Nat
    PROVE  IsFiniteSet(GoalSets(rows, g))
<1> DEFINE each(r) == {<<r.id, goal>> : goal \in 1 .. g[r]}
           all == {each(r) : r \in rows}
<1>1. ASSUME NEW r \in rows
      PROVE  IsFiniteSet(each(r))
  <2> DEFINE f == [goal \in 1 .. g[r] |-> <<r.id, goal>>]
  <2>1. f \in Surjection(1 .. g[r], each(r))
    BY DEF Surjection
  <2>2. IsFiniteSet(1 .. g[r])
    BY FS_Interval
  <2> HIDE DEF f, each
  <2> QED BY <2>1, <2>2, FS_Surjection
<1>2. IsFiniteSet(all)
  <2> DEFINE f == [r \in rows |-> each(r)]
  <2> HIDE DEF each
  <2>1. f \in Surjection(rows, all)
    BY DEF Surjection
  <2> HIDE DEF f, all
  <2> QED BY <2>1, FS_Surjection
<1>3. \A s \in all : IsFiniteSet(s)
  <2> HIDE DEF each
  <2> QED BY <1>1
<1> HIDE DEF all
<1>4. IsFiniteSet(UNION all)
  BY <1>2, <1>3, FS_UNION
<1> QED BY <1>4 DEF GoalSets, all

LEMMA GoalsAdd ==
    ASSUME NEW A, NEW B, AllScored(A \cup B), A \cap B = {}, NEW g, \A r \in A \cup B : g[r] \in Nat
    PROVE  /\ Cardinality(GoalSets(A \cup B, g)) = Cardinality(GoalSets(A, g)) + Cardinality(GoalSets(B, g))
           /\ Cardinality(GoalSets(A, g)) \in Nat /\ Cardinality(GoalSets(B, g)) \in Nat
<1>1. GoalSets(A \cup B, g) = GoalSets(A, g) \cup GoalSets(B, g)
  BY DEF GoalSets
<1>2. IsFiniteSet(A) /\ IsFiniteSet(B)
  BY FS_Subset DEF AllScored, RowsFit
<1>3. IsFiniteSet(GoalSets(A, g)) /\ IsFiniteSet(GoalSets(B, g))
  BY <1>2, GoalsFit
<1>4. GoalSets(A, g) \cap GoalSets(B, g) = {}
  <2> SUFFICES ASSUME NEW x \in GoalSets(A, g), x \in GoalSets(B, g) PROVE FALSE
    OBVIOUS
  <2>1. PICK r \in A : x[1] = r.id
    BY DEF GoalSets
  <2>2. PICK q \in B : x[1] = q.id
    BY DEF GoalSets
  <2>3. r = q
    BY <2>1, <2>2 DEF AllScored, RowsFit
  <2> QED BY <2>3
<1> QED BY <1>1, <1>3, <1>4, DisjointCardinality, FS_CardinalityType

LEMMA ScoresAdd ==
    ASSUME NEW A, NEW B, AllScored(A \cup B), A \cap B = {}, NEW t
    PROVE  /\ Scored(A \cup B, t) = Scored(A, t) + Scored(B, t)
           /\ Conceded(A \cup B, t) = Conceded(A, t) + Conceded(B, t)
           /\ Scored(A, t) \in Nat /\ Scored(B, t) \in Nat
           /\ Conceded(A, t) \in Nat /\ Conceded(B, t) \in Nat
<1> DEFINE g == [r \in A \cup B |-> For(r, t)]
           h == [r \in A \cup B |-> Against(r, t)]
<1>1. \A r \in A \cup B : g[r] \in Nat /\ h[r] \in Nat
  BY DEF AllScored, For, Against
<1>2. ASSUME NEW rows, rows \subseteq A \cup B
      PROVE  /\ Scored(rows, t) = Cardinality(GoalSets(Of(rows, t), g))
             /\ Conceded(rows, t) = Cardinality(GoalSets(Of(rows, t), h))
  <2>1. /\ GoalSets(Of(rows, t), g) = UNION {{<<r.id, goal>> : goal \in 1 .. For(r, t)} : r \in Of(rows, t)}
        /\ GoalSets(Of(rows, t), h) = UNION {{<<r.id, goal>> : goal \in 1 .. Against(r, t)} : r \in Of(rows, t)}
    <3>1. \A r \in Of(rows, t) : g[r] = For(r, t) /\ h[r] = Against(r, t)
      BY <1>2 DEF Of
    <3> HIDE DEF g, h
    <3> QED BY <3>1 DEF GoalSets
  <2> QED BY <2>1 DEF Scored, Conceded
<1>3. Of(A \cup B, t) = Of(A, t) \cup Of(B, t) /\ Of(A, t) \cap Of(B, t) = {}
  BY DEF Of
<1>4. Of(A, t) \cup Of(B, t) \subseteq A \cup B
  BY DEF Of
<1>5. AllScored(Of(A, t) \cup Of(B, t))
  BY <1>4, FS_Subset DEF AllScored, RowsFit
<1> HIDE DEF g, h
<1>6. /\ Cardinality(GoalSets(Of(A, t) \cup Of(B, t), g))
           = Cardinality(GoalSets(Of(A, t), g)) + Cardinality(GoalSets(Of(B, t), g))
      /\ Cardinality(GoalSets(Of(A, t), g)) \in Nat /\ Cardinality(GoalSets(Of(B, t), g)) \in Nat
  BY <1>1, <1>3, <1>4, <1>5, GoalsAdd
<1>7. /\ Cardinality(GoalSets(Of(A, t) \cup Of(B, t), h))
           = Cardinality(GoalSets(Of(A, t), h)) + Cardinality(GoalSets(Of(B, t), h))
      /\ Cardinality(GoalSets(Of(A, t), h)) \in Nat /\ Cardinality(GoalSets(Of(B, t), h)) \in Nat
  BY <1>1, <1>3, <1>4, <1>5, GoalsAdd
<1> QED BY <1>2, <1>3, <1>6, <1>7

\* So the total a run computes is the row of the table of all results.
LEMMA TotalIsRow ==
    ASSUME NEW A, NEW B, AllScored(A \cup B), A \cap B = {}, NEW t \in Teams
    PROVE  Total(A, B, t) = Row(A \cup B, t)
<1> DEFINE d == Deduction[t]
<1>1. d \in Int
  BY SeasonAssumption
<1> HIDE DEF d
<1>2. /\ Won(A \cup B, t) = Won(A, t) + Won(B, t)
      /\ Drawn(A \cup B, t) = Drawn(A, t) + Drawn(B, t)
      /\ Won(A, t) \in Nat /\ Won(B, t) \in Nat /\ Drawn(A, t) \in Nat /\ Drawn(B, t) \in Nat
  BY CountsAdd, Zenon
<1>3. /\ Scored(A \cup B, t) = Scored(A, t) + Scored(B, t)
      /\ Conceded(A \cup B, t) = Conceded(A, t) + Conceded(B, t)
      /\ Scored(A, t) \in Nat /\ Scored(B, t) \in Nat
      /\ Conceded(A, t) \in Nat /\ Conceded(B, t) \in Nat
  BY ScoresAdd, Zenon
<1>4. (Points(A, t) - d) + Points(B, t) = Points(A \cup B, t) - d
  BY <1>1, <1>2 DEF Points
<1>5. Margin(A, t) + Margin(B, t) = Margin(A \cup B, t)
  BY <1>3 DEF Margin
<1>6. /\ Total(A, B, t) = [team |-> t, points |-> (Points(A, t) - d) + Points(B, t),
                           margin |-> Margin(A, t) + Margin(B, t),
                           scored |-> Scored(A, t) + Scored(B, t), won |-> Won(A, t) + Won(B, t)]
      /\ Row(A \cup B, t) = [team |-> t, points |-> Points(A \cup B, t) - d,
                             margin |-> Margin(A \cup B, t), scored |-> Scored(A \cup B, t),
                             won |-> Won(A \cup B, t)]
  BY DEF Total, Row, d
<1>7. Scored(A, t) + Scored(B, t) = Scored(A \cup B, t) /\ Won(A, t) + Won(B, t) = Won(A \cup B, t)
  BY <1>2, <1>3
<1> QED BY <1>4, <1>5, <1>6, <1>7

\* Once each pair has met, all duels of a group were played, whichever group.
TableOf(rows) == {Row(rows, t) : t \in Teams}

LEMMA LevelAreTeams ==
    ASSUME NEW rows, NEW entry
    PROVE  Level(TableOf(rows), entry) = {t \in Teams : Row(rows, t).points = entry.points}
<1>1. \A t \in Teams : Row(rows, t).team = t
  BY DEF Row
<1> DEFINE q == {r \in TableOf(rows) : r.points = entry.points}
<1>2. Level(TableOf(rows), entry) = {r.team : r \in q}
  BY DEF Level
<1>3. \A r \in q : \E t \in Teams : r = Row(rows, t) /\ Row(rows, t).points = entry.points
  BY DEF TableOf
<1>4. \A t \in Teams : Row(rows, t).points = entry.points => Row(rows, t) \in q
  BY DEF TableOf
<1> HIDE DEF q
<1> QED BY <1>1, <1>2, <1>3, <1>4

LEMMA AllDuelsPlayed ==
    ASSUME NEW rows, PairsIn(rows) = Pairs, NEW G, G \subseteq Teams
    PROVE  DuelsComplete(Among(rows, G), G)
<1>1. {r.pair : r \in Among(rows, G)} = PairsOf(G)
  <2>1. ASSUME NEW r \in Among(rows, G)
        PROVE  r.pair \in PairsOf(G)
    <3>1. r \in rows /\ {r.pair[1], r.pair[2]} \subseteq G
      BY DEF Among
    <3>2. r.pair \in Pairs
      BY <3>1 DEF PairsIn
    <3> QED BY <3>1, <3>2 DEF Pairs, PairsOf
  <2>2. ASSUME NEW p \in PairsOf(G)
        PROVE  \E r \in Among(rows, G) : r.pair = p
    <3>1. p \in Pairs /\ {p[1], p[2]} \subseteq G
      BY DEF Pairs, PairsOf
    <3>2. PICK r \in rows : r.pair = p
      BY <3>1 DEF PairsIn
    <3> QED BY <3>1, <3>2 DEF Among
  <2> QED BY <2>1, <2>2
<1>2. IsFiniteSet(G)
  BY PairsOfTeams, FS_Subset
<1> QED BY <1>1, <1>2, PairsAreMany DEF DuelsComplete

\* The simulator and the standings engine rank the same results alike.
LEMMA OrderIsStandings ==
    ASSUME NEW rows, PairsIn(rows) = Pairs, NEW rule
    PROVE  Order(TableOf(rows), rows, rule) = Standings(rows, rule)
<1> DEFINE table == TableOf(rows)
           simulated(entry) ==
               IF Duels(rule) THEN DuelKey(entry, Among(rows, Level(table, entry)))
               ELSE Key(rule, entry)
           ranked(entry) ==
               IF Duels(rule) /\ DuelsComplete(Among(rows, Level(table, entry)), Level(table, entry))
               THEN DuelKey(entry, Among(rows, Level(table, entry))) ELSE Key(rule, entry)
<1>1. \A entry : simulated(entry) = ranked(entry)
  <2> SUFFICES ASSUME NEW entry PROVE DuelsComplete(Among(rows, Level(table, entry)), Level(table, entry))
    OBVIOUS
  <2>1. Level(table, entry) \subseteq Teams
    BY LevelAreTeams
  <2> QED BY <2>1, AllDuelsPlayed
<1>2. Order(TableOf(rows), rows, rule) = Ranked({[key |-> simulated(entry), team |-> entry.team] : entry \in table})
  BY DEF Order
<1>3. Standings(rows, rule) = Ranked({[key |-> ranked(entry), team |-> entry.team] : entry \in table})
  BY DEF Standings, TableOf
<1> HIDE DEF simulated, ranked, table
<1>4. {[key |-> simulated(entry), team |-> entry.team] : entry \in table}
        = {[key |-> ranked(entry), team |-> entry.team] : entry \in table}
  BY <1>1
<1> QED BY <1>2, <1>3, <1>4

\* A play-off changes the places of two who have as many points.
LevelWith(rows, order, other) ==
    /\ DOMAIN order = DOMAIN other
    /\ \A i \in DOMAIN order : Row(rows, order[i]).points = Row(rows, other[i]).points

LEMMA PlayoffsAreLevel ==
    ASSUME NEW rows, NEW rule, NEW i \in Int, NEW other,
           NEW orders, \A o \in orders : LevelWith(rows, o, other)
    PROVE  \A o \in AfterPlayoff(orders, TableOf(rows), rule, i) : LevelWith(rows, o, other)
<1> SUFFICES ASSUME NEW p \in orders, NEW entry, {p[i], p[i + 1]} \subseteq Level(TableOf(rows), entry)
             PROVE  LevelWith(rows, Swapped(p, i), other)
  BY DEF AfterPlayoff
<1>1. Row(rows, p[i]).points = Row(rows, p[i + 1]).points
  BY LevelAreTeams
<1>2. LevelWith(rows, p, other)
  OBVIOUS
<1>3. DOMAIN Swapped(p, i) = DOMAIN p
  BY DEF Swapped
<1>4. ASSUME NEW j \in DOMAIN p
      PROVE  Swapped(p, i)[j] = IF j = i + 1 THEN p[i] ELSE IF j = i THEN p[i + 1] ELSE p[j]
  BY <1>4, <1>2 DEF Swapped, LevelWith
<1>5. ASSUME NEW j \in DOMAIN p
      PROVE  Row(rows, Swapped(p, i)[j]).points = Row(rows, p[j]).points
  BY <1>1, <1>4, <1>5
<1> QED BY <1>2, <1>3, <1>5 DEF LevelWith

LEMMA NoPlayoff ==
    ASSUME NEW orders, NEW table, NEW rule, rule # "duels_playoffs", NEW i
    PROVE  AfterPlayoff(orders, table, rule, i) = orders
BY DEF AfterPlayoff

\* So a run ends as the standings engine would end it.
EndsInOrder(order, rows, rule) ==
    IF rule = "duels_playoffs" THEN SameButPlayoffs(order, Standings(rows, rule), rows)
    ELSE order = Standings(rows, rule)

LEMMA RunsEndInOrder ==
    ASSUME NEW A, NEW B, AllScored(A \cup B), A \cap B = {}, PairsIn(A \cup B) = Pairs,
           NEW rule, NEW order \in FinalOrders(A, B, rule)
    PROVE  EndsInOrder(order, A \cup B, rule)
<1> DEFINE rows == A \cup B
           standings == Standings(rows, rule)
           last == Cardinality(Teams) - Relegated
<1>1. {Total(A, B, t) : t \in Teams} = TableOf(rows)
  BY TotalIsRow DEF TableOf
<1>2. last \in Int
  BY SeasonAssumption, PairsOfTeams
<1>3. order \in AfterPlayoff(AfterPlayoff({Order(TableOf(rows), rows, rule)}, TableOf(rows), rule, 1),
                             TableOf(rows), rule, last)
  BY <1>1 DEF FinalOrders
<1>4. Order(TableOf(rows), rows, rule) = standings
  BY OrderIsStandings
<1> HIDE DEF rows, standings, last
<1>5. CASE rule = "duels_playoffs"
  <2>1. \A o \in {standings} : LevelWith(rows, o, standings)
    BY DEF LevelWith
  <2>2. \A o \in AfterPlayoff({standings}, TableOf(rows), rule, 1) : LevelWith(rows, o, standings)
    BY <2>1, PlayoffsAreLevel
  <2>3. LevelWith(rows, order, standings)
    BY <1>2, <1>3, <1>4, <2>2, PlayoffsAreLevel
  <2>4. SameButPlayoffs(order, standings, rows)
    BY <2>3 DEF LevelWith, SameButPlayoffs
  <2> QED BY <1>5, <2>4 DEF rows, standings, EndsInOrder
<1>6. CASE rule # "duels_playoffs"
  <2>1. order = standings
    BY <1>3, <1>4, <1>6, NoPlayoff
  <2> QED BY <1>6, <2>1 DEF rows, standings, EndsInOrder
<1> QED BY <1>5, <1>6

-------------------------------------------------------------------------------
(* What was answered is true. *)

\* Forcing scores keeps one row of each id.
LEMMA ForcedFits ==
    ASSUME NEW rows, RowsFit(rows), NEW forced
    PROVE  RowsFit(Forced(rows, forced)) /\ IdsOf(Forced(rows, forced)) = IdsOf(rows)
<1> DEFINE F(r) == IF r.id \in DOMAIN forced THEN [r EXCEPT !.score = forced[r.id]] ELSE r
           d == Forced(rows, forced)
<1>1. d = {F(r) : r \in rows}
  BY DEF Forced
<1>2. \A r \in rows : IsRow(F(r)) /\ F(r).id = r.id
  BY DEF RowsFit, IsRow, RowFields
<1> HIDE DEF F, d
<1>3. IsFiniteSet(d)
  <2> DEFINE f == [r \in rows |-> F(r)]
  <2>1. f \in Surjection(rows, d)
    BY <1>1 DEF Surjection
  <2> HIDE DEF f
  <2> QED BY <2>1, FS_Surjection DEF RowsFit
<1>4. \A r \in d : IsRow(r)
  BY <1>1, <1>2
<1>5. \A r, s \in d : r.id = s.id => r = s
  <2> SUFFICES ASSUME NEW r \in d, NEW s \in d, r.id = s.id PROVE r = s
    OBVIOUS
  <2>1. PICK a \in rows : r = F(a)
    BY <1>1
  <2>2. PICK b \in rows : s = F(b)
    BY <1>1
  <2>3. a = b
    BY <1>2, <2>1, <2>2 DEF RowsFit
  <2> QED BY <2>1, <2>2, <2>3
<1>6. IdsOf(d) = IdsOf(rows)
  BY <1>1, <1>2 DEF IdsOf
<1> QED BY <1>3, <1>4, <1>5, <1>6 DEF RowsFit, d

\* The same fixtures have the same ids and pairs.
LEMMA SameFixtures ==
    ASSUME NEW X, NEW Y, FixturesOf(X) = FixturesOf(Y)
    PROVE  PairsIn(X) = PairsIn(Y) /\ IdsOf(X) = IdsOf(Y)
<1>1. ASSUME NEW A, NEW B, FixturesOf(A) = FixturesOf(B)
      PROVE  PairsIn(A) \subseteq PairsIn(B) /\ IdsOf(A) \subseteq IdsOf(B)
  <2>1. ASSUME NEW r \in A
        PROVE  \E q \in B : q.id = r.id /\ q.pair = r.pair
    <3>1. <<r.id, r.pair>> \in FixturesOf(B)
      BY <1>1 DEF FixturesOf
    <3> QED BY <3>1 DEF FixturesOf
  <2> QED BY <2>1 DEF PairsIn, IdsOf
<1>2. /\ PairsIn(X) \subseteq PairsIn(Y) /\ IdsOf(X) \subseteq IdsOf(Y)
      /\ PairsIn(Y) \subseteq PairsIn(X) /\ IdsOf(Y) \subseteq IdsOf(X)
  BY <1>1
<1> QED BY <1>2

\* A run draws each fixture that is open: it ends with a result for each pair.
DoneRows(rows, forced) == Forced(rows, forced) \ OpenRows(rows, forced)
DrawnRows(rows, forced, scores) == Forced(OpenRows(rows, forced), scores)

LEMMA FinalIsLeague ==
    ASSUME NEW rows, LeagueRows(rows), NEW forced, Forces(rows, forced), Reason(rows) = "none",
           NEW scores \in [IdsOf(OpenRows(rows, forced)) -> Results]
    PROVE  /\ FinalRows(rows, forced, scores) = DoneRows(rows, forced) \cup DrawnRows(rows, forced, scores)
           /\ DoneRows(rows, forced) \cap DrawnRows(rows, forced, scores) = {}
           /\ AllScored(FinalRows(rows, forced, scores))
           /\ PairsIn(FinalRows(rows, forced, scores)) = Pairs
           /\ Cardinality(FinalRows(rows, forced, scores)) = Cardinality(Pairs)
<1> DEFINE all == Forced(rows, forced)
           open == OpenRows(rows, forced)
           done == DoneRows(rows, forced)
           drawn == DrawnRows(rows, forced, scores)
           final == FinalRows(rows, forced, scores)
<1>1. final = done \cup drawn
  BY DEF FinalRows, DoneRows, DrawnRows
<1>2. RowsFit(all) /\ open \subseteq all /\ done \subseteq all /\ open \cap done = {}
  BY ForcedFits DEF LeagueRows, OpenRows, DoneRows
<1>3. RowsFit(open) /\ RowsFit(done)
  BY <1>2, FS_Subset DEF RowsFit
<1>4. RowsFit(drawn) /\ IdsOf(drawn) = IdsOf(open)
  BY <1>3, ForcedFits DEF DrawnRows
<1>5. \A r \in done, q \in drawn : r.id # q.id
  <2> SUFFICES ASSUME NEW r \in done, NEW q \in drawn, r.id = q.id PROVE FALSE
    OBVIOUS
  <2>1. PICK o \in open : o.id = q.id
    BY <1>4, ZenonT(40) DEF IdsOf
  <2> QED BY <1>2, <2>1 DEF RowsFit
<1>6. done \cap drawn = {}
  BY <1>5
<1>7. RowsFit(final)
  <2>1. IsFiniteSet(final)
    <3>1. IsFiniteSet(done) /\ IsFiniteSet(drawn)
      BY <1>3, <1>4 DEF RowsFit
    <3> HIDE DEF done, drawn
    <3> QED BY <1>1, <3>1, FS_Union
  <2> QED BY <1>1, <1>3, <1>4, <1>5, <2>1 DEF RowsFit
<1>8. ASSUME NEW r \in final
      PROVE  r.score \in Nat \X Nat
  <2>1. CASE r \in done
    <3>1. r \in all /\ Played(r)
      BY <2>1 DEF DoneRows, OpenRows
    <3>2. PICK q \in rows : /\ r.id \in DOMAIN forced => r.score = forced[r.id]
                            /\ r.id \notin DOMAIN forced => r = q
      BY <3>1, ForcedRows DEF LeagueRows
    <3>3. r.score \in Results \cup {NoScore}
      BY <3>2 DEF Forces, LeagueRows
    <3> QED BY <3>1, <3>3, SeasonAssumption DEF Played
  <2>2. CASE r \in drawn
    <3>1. r.id \in DOMAIN scores
      BY <1>4, <2>2 DEF IdsOf
    <3>2. r.score = scores[r.id]
      BY <1>3, <2>2, <3>1, ForcedRows DEF DrawnRows
    <3> QED BY <3>1, <3>2, SeasonAssumption
  <2> QED BY <1>1, <1>8, <2>1, <2>2
<1>9. PairsIn(rows) = Pairs /\ Cardinality(rows) = Cardinality(Pairs)
  <2>1. rows # {}
    BY DEF Reason
  <2> QED BY <2>1, ReasonIsNone, CompleteIsLeague
<1>10. PairsIn(final) = PairsIn(rows) /\ IdsOf(final) = IdsOf(rows)
  <2>1. FixturesOf(final) = FixturesOf(rows)
    BY RunKeeps DEF LeagueRows
  <2> HIDE DEF final
  <2> QED BY <2>1, SameFixtures
<1>11. Cardinality(final) = Cardinality(rows)
  BY <1>7, <1>10, RowsPerId DEF LeagueRows
<1> QED BY <1>1, <1>6, <1>7, <1>8, <1>9, <1>10, <1>11 DEF AllScored

\* What is inductive: the rows of the index are a league's, and what was answered is true.
SeasonInv == LeagueRows(season.rows) /\ OutlookIsPossible

\* It holds of a season that was not asked about.
LEMMA SeasonInvInit == ASSUME SeasonInit PROVE SeasonInv
<1>1. LeagueRows(season.rows)
  <2>1. PICK rule \in Rules, scores \in [Pairs -> Results \cup {NoScore}] :
            \E rows \in Defects(Listed(scores)) : season = [rule |-> rule, rows |-> rows]
    BY DEF SeasonInit
  <2> QED BY <2>1, ListedIsLeague, DefectsAreLeague
<1>2. outlook.status = "none"
  BY DEF SeasonInit, NotAsked
<1> QED BY <1>1, <1>2 DEF SeasonInv, OutlookIsPossible, TableIsOfTheCutoff, RunsArePossible,
                          RunKeepsResults, ViewsAgree, SharesAddUp, BracketAddsUp

\* An outlook, refused or simulated, keeps it.
LEMMA OutlookStep ==
    ASSUME SeasonInv, AsksOutlook
    PROVE  SeasonInv'
<1>1. PICK S \in {{}} \cup {{r.id} : r \in {q \in Remaining(season.rows) : q.pair \in Pairs}} :
          \E forced \in [S -> Results] : Simulates(forced) /\ season' = season
  BY DEF AsksOutlook
<1>2. PICK forced \in [S -> Results] : Simulates(forced) /\ season' = season
  BY <1>1
<1>3. Forces(season.rows, forced)
  BY <1>1, <1>2 DEF Forces
<1>4. RowsFit(season.rows) /\ LeagueRows(season.rows)
  BY DEF SeasonInv, LeagueRows
<1> DEFINE rows == Forced(season.rows, forced)
           table == Standings(Visible(rows, forced), season.rule)
           known == {r \in rows : Played(r) /\ (r \in season.rows => r.kick # "after")}
<1>5. table = Standings(known, season.rule)
  BY <1>3, <1>4, VisibleIsKnown
<1>6. CASE outlook' = [status |-> "blocked", reason |-> Reason(season.rows),
                       rule |-> season.rule, forced |-> forced, table |-> table]
  <2>1. LeagueRows(season.rows)'
    BY <1>2, <1>4 DEF LeagueRows, RowsFit
  <2>2. TableIsOfTheCutoff'
    BY <1>2, <1>5, <1>6 DEF TableIsOfTheCutoff
  <2>3. RunsArePossible' /\ ViewsAgree' /\ SharesAddUp' /\ BracketAddsUp'
    BY <1>6 DEF RunsArePossible, RunKeepsResults, ViewsAgree, SharesAddUp, BracketAddsUp
  <2> QED BY <2>1, <2>2, <2>3 DEF SeasonInv, OutlookIsPossible
<1>7. ASSUME Reason(season.rows) = "none",
             NEW scores \in [IdsOf(OpenRows(season.rows, forced)) -> Results],
             NEW order \in FinalOrders(DoneRows(season.rows, forced),
                                       DrawnRows(season.rows, forced, scores), season.rule),
             outlook' = [status |-> "available", order |-> order,
                         final |-> FinalRows(season.rows, forced, scores),
                         rule |-> season.rule, forced |-> forced, table |-> table]
      PROVE  SeasonInv'
  <2>1. LeagueRows(season.rows)'
    BY <1>2, <1>4 DEF LeagueRows, RowsFit
  <2>2. TableIsOfTheCutoff'
    BY <1>2, <1>5, <1>7 DEF TableIsOfTheCutoff
  <2> DEFINE final == FinalRows(season.rows, forced, scores)
  <2>3. /\ FixturesOf(final) = FixturesOf(season.rows)
        /\ \A r \in season.rows : Played(r) => r \in final
        /\ \A r \in final : r.id \in DOMAIN forced => r.score = forced[r.id]
    BY <1>3, <1>4, RunKeeps
  <2>4. RunKeepsResults'
    <3> HIDE DEF final, rows, table, known
    <3>1. outlook'.final = final /\ outlook'.forced = forced
      BY <1>7 DEF final
    <3>2. UNCHANGED season
      BY <1>2
    <3> QED BY <2>3, <3>1, <3>2 DEF RunKeepsResults, Played, FixturesOf
  <2>5. ViewsAgree' /\ SharesAddUp' /\ BracketAddsUp'
    BY <1>7 DEF ViewsAgree, SharesAddUp, BracketAddsUp
  <2>6. RunsArePossible'
    <3>1. PairsIn(final) = Pairs /\ Cardinality(final) = Cardinality(Pairs)
      BY <1>3, <1>4, <1>7, FinalIsLeague
    <3>2. EndsInOrder(order, final, season.rule)
      <4> DEFINE A == DoneRows(season.rows, forced)
                 B == DrawnRows(season.rows, forced, scores)
      <4>1. /\ final = A \cup B /\ A \cap B = {} /\ AllScored(final) /\ PairsIn(final) = Pairs
            /\ order \in FinalOrders(A, B, season.rule)
        BY <1>3, <1>4, <1>7, FinalIsLeague
      <4> HIDE DEF A, B, final
      <4> QED BY <4>1, RunsEndInOrder
    <3> HIDE DEF final, rows, table, known
    <3>3. outlook'.final = final /\ outlook'.rule = season.rule /\ outlook'.order = order
      BY <1>7 DEF final
    <3> QED BY <2>4, <3>1, <3>2, <3>3 DEF RunsArePossible, PairsIn, EndsInOrder
  <2> QED BY <2>1, <2>2, <2>5, <2>6 DEF SeasonInv, OutlookIsPossible
<1>8. \/ outlook' = [status |-> "blocked", reason |-> Reason(season.rows),
                     rule |-> season.rule, forced |-> forced, table |-> table]
      \/ /\ Reason(season.rows) = "none"
         /\ \E scores \in [IdsOf(OpenRows(season.rows, forced)) -> Results] :
            \E order \in FinalOrders(DoneRows(season.rows, forced),
                                    DrawnRows(season.rows, forced, scores), season.rule) :
            outlook' = [status |-> "available", order |-> order,
                        final |-> FinalRows(season.rows, forced, scores),
                        rule |-> season.rule, forced |-> forced, table |-> table]
  BY <1>2, Zenon DEF Simulates, FinalRows, OpenRows, DoneRows, DrawnRows, IdsOf
<1> QED BY <1>6, <1>7, <1>8

\* So does the pulse.
LEMMA PulseStep ==
    ASSUME SeasonInv, AsksPulse
    PROVE  SeasonInv'
<1> DEFINE rows == season.rows
           played == {r \in rows : Played(r) /\ r.kick # "after"}
           gaps == {r \in rows : ~Played(r) /\ r.kick # "after"}
           rest == Remaining(rows)
           rated == IF ~ListIsComplete(rows) THEN {}
                    ELSE UNION {{r.pair[1], r.pair[2]} : r \in Remaining(rows)}
<1>1. season' = season /\ RowsFit(season.rows) /\ LeagueRows(season.rows)
  BY DEF AsksPulse, SeasonInv, LeagueRows
<1>2. outlook' = [status |-> "pulse", played |-> played, gaps |-> gaps,
                  remaining |-> rest, rated |-> rated]
  BY Zenon DEF AsksPulse
<1>3. /\ rows \ (played \cup gaps \cup rest)
            = {r \in rows : r \notin Visible(rows, <<>>) /\ Played(r)}
      /\ Cardinality(played) + Cardinality(gaps) + Cardinality(rest) <= Cardinality(rows)
      /\ Reason(rows) = "none" =>
            /\ \A r \in gaps : r.kick = "at"
            /\ rated = UNION {{r.pair[1], r.pair[2]} :
                                 r \in {q \in rows : q.kick = "after"}}
  BY <1>1, PulseAgrees, Zenon
<1> HIDE DEF played, gaps, rest, rated
<1>4. /\ outlook'.status = "pulse" /\ outlook'.played = played /\ outlook'.gaps = gaps
      /\ outlook'.remaining = rest /\ outlook'.rated = rated
  BY <1>2
<1>5. ViewsAgree'
  BY <1>1, <1>3, <1>4, Zenon DEF ViewsAgree
<1>6. LeagueRows(season.rows)'
  BY <1>1
<1> QED BY <1>4, <1>5, <1>6 DEF SeasonInv, OutlookIsPossible, TableIsOfTheCutoff, RunsArePossible,
                               RunKeepsResults, SharesAddUp, BracketAddsUp

\* So do the shares and the bracket.
LEMMA OtherStep ==
    ASSUME SeasonInv, AsksShares \/ AsksBracket
    PROVE  SeasonInv'
<1>1. season' = season /\ LeagueRows(season.rows)
  BY DEF AsksShares, AsksBracket, SeasonInv
<1>2. LeagueRows(season.rows)'
  BY <1>1, SMTT(30)
<1>3. CASE AsksShares
  <2>1. outlook'.status = "shares"
    BY <1>3 DEF AsksShares
  <2> QED BY <1>2, <1>3, <2>1, SharesAreWhole
          DEF SeasonInv, OutlookIsPossible, TableIsOfTheCutoff, RunsArePossible, RunKeepsResults,
              ViewsAgree, BracketAddsUp
<1>4. CASE AsksBracket
  <2>1. outlook'.status \in {"bracket", "unavailable"}
    BY <1>4 DEF AsksBracket
  <2> QED BY <1>2, <1>4, <2>1, BracketIsOne
          DEF SeasonInv, OutlookIsPossible, TableIsOfTheCutoff, RunsArePossible, RunKeepsResults,
              ViewsAgree, SharesAddUp
<1> QED BY <1>3, <1>4

\* Whatever the league, the calendar, the results and the scenario: a table counts no
\* result of the future but a forced one, also where the outlook is refused because
\* there is one; a simulated season has the fixtures of the list and no other, each pair of
\* teams once at each one's ground, with what was played and what is forced as it was, and
\* ends in the order of the standings engine but for play-offs of teams that are level; the
\* pulse, the certificate and the outlook agree on what is played, missing and still to come;
\* the shares on display add up to the places and none is off by a unit; and a bracket gives
\* each place away once (season_outlook, _apply_forced_results, _voice_simulation,
\* _largest_remainder_percent, _current_season_pulse, enumerate_four_team_bracket).
THEOREM SeasonsArePossible == SeasonSpec => []OutlookIsPossible
<1>1. SeasonInit => SeasonInv
  BY SeasonInvInit
<1>2. SeasonInv /\ [SeasonNext]_seasonVars => SeasonInv'
  <2> SUFFICES ASSUME SeasonInv, [SeasonNext]_seasonVars PROVE SeasonInv'
    OBVIOUS
  <2>1. CASE UNCHANGED seasonVars
    BY <2>1 DEF seasonVars, SeasonInv, LeagueRows, RowsFit, OutlookIsPossible, TableIsOfTheCutoff,
                RunsArePossible, RunKeepsResults, ViewsAgree, SharesAddUp, BracketAddsUp
  <2> QED BY <2>1, OutlookStep, PulseStep, OtherStep, SMTT(30) DEF SeasonNext
<1>3. SeasonInv => OutlookIsPossible
  BY DEF SeasonInv
<1> QED BY <1>1, <1>2, <1>3, PTL DEF SeasonSpec
===============================================================================
