----------------------------- MODULE Forecasts -----------------------------
(***************************************************************************)
(* Sealed forecasts and their settlement                                   *)
(* (server/golavo_server/seal.py and settlement.py, core/golavo_core/      *)
(* artifacts.py and calibration.py).                                       *)
(*                                                                         *)
(* A seal is a root of the append-only ledger, written by the engine from  *)
(* a data pack before the kickoff; a settlement appends its one successor, *)
(* graded against the results two public sources publish.  A seal reads    *)
(* the fixture from the index and then resolves the pack, and a refresh    *)
(* may come between the two.  A settlement downloads from each source in   *)
(* turn; each download may fail.                                           *)
(*                                                                         *)
(* One model family: the ledger keeps a history for each, and they do not  *)
(* meet.  Artifacts are known by what identifies them here; their numbers, *)
(* hashes, notebooks and the audit log, which nothing reads back, are left *)
(* out.                                                                    *)
(***************************************************************************)
EXTENDS Fixtures, FiniteSets

CONSTANTS Results,      \* the scores a source may publish
          Competition,  \* "world_cup", "international" or "club"
          Grace         \* RESULT_GRACE

ASSUME ForecastsAssumption ==
    /\ Competition \in {"world_cup", "international", "club"}
    /\ Grace \in Nat

VARIABLES roots,   \* the seals, abstentions included
          scored,  \* their successors
          feed     \* the fixture's row in the newest commit of each source

forecastVars == <<roots, scored, feed>>

Sources == {"martj42", "worldcup"}

\* A source that published nothing of the fixture, one that could not be read.
Nothing == [day |-> 0, result |-> "none", at |-> 0]
NotRead == [day |-> 0, result |-> "not read", at |-> 0]

InitForecasts ==
    /\ roots = {}
    /\ scored = {}
    /\ feed = [s \in Sources |-> Nothing]

-----------------------------------------------------------------------------
(* Sealing *)

\* The seals of a match.
Existing(i) == {r \in roots : r.id = i}

\* A seal request takes the lock, reads the clock, and reads the fixture from the
\* index.  Only its id and its date go on to the engine.
SealStarts ==
    /\ Free
    /\ Spend("seal")
    /\ \E i \in Ids :
          LET row == RowOf(i, gen)
          IN /\ row # Gone
             /\ ~row.complete
             /\ clock < row.kickoff
             /\ busy' = [op |-> "seal", id |-> i, now |-> clock, day |-> Day(row.kickoff)]
    /\ UNCHANGED <<clock, gen, roots, scored, feed>>

\* The pack is resolved.  A seal that exists is returned; otherwise the engine
\* seals if the pack has the fixture, on that date, without a result, not yet
\* started, and is no newer than the request.
SealBuilds ==
    LET row == RowOf(busy.id, gen)
        sealable == /\ row # Gone
                    /\ Day(row.kickoff) = busy.day
                    /\ ~row.complete
                    /\ gen.at <= busy.now
                    /\ busy.now < row.kickoff
    IN /\ busy.op = "seal"
       /\ busy' = Idle
       /\ \/ /\ Existing(busy.id) = {} /\ sealable
             /\ \E abstained \in BOOLEAN :
                   roots' = roots \cup {[id |-> busy.id, kick |-> row.kickoff, at |-> gen.at,
                                         asOf |-> busy.now, abstained |-> abstained]}
          \/ /\ Existing(busy.id) # {} \/ ~sealable
             /\ UNCHANGED roots
       /\ UNCHANGED <<clock, gen, left, scored, feed>>

-----------------------------------------------------------------------------
(* Settlement *)

\* A source commits the fixture's row with a score.
SourcePublishes ==
    /\ Spend("result")
    /\ \E s \in Sources, d \in {Day(k) : k \in Kickoffs}, x \in Results :
          /\ d <= Day(clock)
          /\ feed' = [feed EXCEPT ![s] = [day |-> d, result |-> x, at |-> clock]]
    /\ UNCHANGED <<clock, gen, busy, roots, scored>>

Successors(r) == {s \in scored : s.root = r}

\* The chains that wait for a result.
Pending == {r \in roots : ~r.abstained /\ Successors(r) = {}}

\* The pending seals a settlement at a time goes through: those still in play are
\* deferred, and those of a club are held for a second source that does not exist.
Eligible(now) == {r \in Pending : Competition # "club" /\ now >= r.kick + Grace}

\* The lock is taken and the ledger read; a ledger with two successors of one
\* seal is refused.  Nothing is downloaded when nothing is eligible.
SettleStarts ==
    /\ Free
    /\ \A r \in roots : Cardinality(Successors(r)) <= 1
    /\ Eligible(clock) # {}
    /\ busy' = [op |-> "settle", todo |-> Eligible(clock), asked |-> {},
                read |-> [s \in Sources |-> NotRead]]
    /\ UNCHANGED <<clock, gen, left, roots, scored, feed>>

\* Which sources a settlement asks, one after the other.
Asked == IF Competition = "world_cup" THEN Sources ELSE {"martj42"}
Asks(s) == busy.op = "settle" /\ s \in Asked \ busy.asked /\ (s = "worldcup" => "martj42" \in busy.asked)

FetchOk(s) ==
    /\ Asks(s)
    /\ busy' = [busy EXCEPT !.asked = @ \cup {s}, !.read[s] = feed[s]]
    /\ UNCHANGED <<clock, gen, left, roots, scored, feed>>

\* Mutant: an error of a source ends the settlement.
FetchAborts(s) ==
    /\ Asks(s)
    /\ busy' = Idle
    /\ UNCHANGED <<clock, gen, left, roots, scored, feed>>

\* A download or a payload fails: the error is reported, the source left out.
FetchFails(s) ==
    /\ Asks(s)
    /\ busy' = [busy EXCEPT !.asked = @ \cup {s}]
    /\ UNCHANGED <<clock, gen, left, roots, scored, feed>>

\* What the sources say of a seal's fixture, found by the date it was sealed for.
Observed(r) ==
    {o \in {busy.read[s] : s \in Sources} : o.result \in Results /\ o.day = Day(r.kick)}

\* One seal is graded: when a source has its result, the sources that have it
\* agree, and the newest is newer than the pack it was sealed from.
Grade ==
    /\ busy.op = "settle"
    /\ busy.asked = Asked
    /\ \E r \in busy.todo :
          LET seen == Observed(r)
              agreed == Cardinality({o.result : o \in seen}) = 1
              newest == {o \in seen : o.at > r.at /\ \A p \in seen : p.at <= o.at}
          IN /\ busy' = [busy EXCEPT !.todo = @ \ {r}]
             /\ \/ /\ agreed
                   /\ \E o \in newest :
                         scored' = scored \cup {[root |-> r, result |-> o.result, at |-> o.at]}
                \/ /\ ~agreed \/ newest = {}
                   /\ UNCHANGED scored
    /\ UNCHANGED <<clock, gen, left, roots, feed>>

SettleEnds ==
    /\ busy.op = "settle"
    /\ busy.todo = {}
    /\ busy' = Idle
    /\ UNCHANGED <<clock, gen, left, roots, scored, feed>>

Settles == SettleStarts \/ Grade \/ SettleEnds \/ \E s \in Sources : FetchOk(s) \/ FetchFails(s)

ForecastsNext == SealStarts \/ SealBuilds \/ SourcePublishes \/ Settles

-----------------------------------------------------------------------------
(* Properties *)

\* The history of a seal does not split: a match has one root, a root one
\* successor, whatever request is repeated and wherever the process died
\* (_existing_seal, the pending filter of settle_pending_forecasts; _chain_pairs
\* refuses the whole ledger otherwise).
OneHistory ==
    /\ \A q, r \in roots : q.id = r.id => q = r
    /\ \A r \in roots : Cardinality(Successors(r)) <= 1

\* A seal whose result is out: played, published for the date it was sealed for
\* by the first source in a commit newer than its pack, not contradicted.
Due(r) ==
    /\ r \in Pending
    /\ clock >= r.kick + Grace
    /\ Competition # "club"
    /\ feed["martj42"].result \in Results
    /\ feed["martj42"].day = Day(r.kick)
    /\ feed["martj42"].at > r.at
    /\ feed["worldcup"].result \in {feed["martj42"].result, "none"} \/ feed["worldcup"].day # Day(r.kick)

\* A seal whose result is out is scored once the results are checked often
\* enough, even if the second source can never be read and whatever else is done
\* with the ledger meanwhile (settle_pending_forecasts, the isolation of errors).
SealsSettle == []<>(\A r \in roots : ~Due(r))

\* Not an invariant.  A fixture that changed its id may have a seal under both:
\* the seal is found by its match id alone.
OneRootPerFixture == Cardinality(roots) <= 1

\* Not an invariant.  A grade is never taken back; a source that could not be
\* read, or that publishes later, may disagree with it.
GradedByAll ==
    \A s \in scored : feed["worldcup"].day = Day(s.root.kick) /\ feed["worldcup"].result \in Results
                         => feed["worldcup"].result = s.result
=============================================================================
