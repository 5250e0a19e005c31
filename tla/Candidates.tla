------------------------------ MODULE Candidates ------------------------------
(***************************************************************************)
(* What a refresh makes of the documents it downloaded: the candidate      *)
(* index (refresh.py), from the martj42 results, worldcup.json and the     *)
(* country repositories, and the gate that lets it replace the active one. *)
(*                                                                         *)
(* A fixture key is the date with the two teams.  An international match   *)
(* id is the key with the venue, a club's the key alone (snapshot.py,      *)
(* openfootball.py: repeat fixtures, which are numbered, are left out).    *)
(* score = None is a fixture without a result.  A behaviour is about one   *)
(* family of packs; they meet in the collision of ids only.                *)
(***************************************************************************)
EXTENDS FiniteSets, Naturals

CONSTANTS
    Matches,      \* international fixture keys
    Venues,
    Unmapped,     \* a venue of worldcup.json whose country is not known
    Clubs,        \* club fixture keys of the current season
    Earlier,      \* club fixture keys of earlier seasons
    Scores,
    Kicks,        \* exact kickoffs of worldcup.json
    None,
    Unknown,      \* a row of results.csv whose teams are not known yet
    MaxSeals      \* bound

\* A key is of one kind: of teams that are known, of this season or of an earlier one.
ASSUME CandidatesAssumption ==
    /\ Unknown \notin Matches
    /\ Clubs \cap Earlier = {}
    /\ Scores # {}

VARIABLES
    family,       \* "international" or "club"
    index,        \* the rows of the active index
    former,       \* the index a rollback returns to
    seals         \* the fixtures of sealed forecasts, as they were sealed

candVars == <<family, index, former, seals>>

Results == Scores \cup {None}
Completed(r) == r.score # None
Ids(rows) == {r.id : r \in rows}
Alone(rows, k) == \E r \in rows : {q \in rows : q.key = k} = {r}

-------------------------------------------------------------------------------
(* The documents. *)

Listed == [key : Matches, venue : Venues, score : Results]
Unresolved == [key : {Unknown}, venue : Venues, score : Results]

\* results.csv lists a fixture once per venue.
Martj42 ==
    {d \in SUBSET Listed : \A r, q \in d : r.key = q.key /\ r.venue = q.venue => r = q}
        \cup {{r} : r \in Unresolved}

\* worldcup.json lists a fixture once, or does not list it.
WorldCup ==
    UNION {[ks -> [kick : Kicks \cup {None}, ground : Venues \cup {Unmapped}, score : Results]]
             : ks \in SUBSET Matches}

\* A country repository's file of the season, or None when it has none yet.
Domestic == {None} \cup UNION {[ks -> Results] : ks \in SUBSET Clubs}

-------------------------------------------------------------------------------
(* build_international_runtime_pack *)

\* _drop_unresolved_identity_rows, unless a row without teams has a score.
ScoredUnresolved(m) == \E r \in m : r.key = Unknown /\ Completed(r)
Resolved(m) == {r \in m : r.key # Unknown}

\* parse_worldcup: rows without a usable kickoff are dropped.
Timed(w) == {k \in DOMAIN w : w[k].kick # None}

\* crosscheck_completed.
Disagree(m, w) ==
    \E k \in Timed(w), r \in m :
        r.key = k /\ Completed(r) /\ w[k].score # None /\ w[k].score # r.score

\* missing_fixtures: scheduled in worldcup.json, not listed by martj42.
MissingFixtures(m, w) ==
    {k \in Timed(w) : w[k].score = None /\ \A r \in m : r.key # k}

\* The pack as build_match_index reads it: kickoffs.csv sharpens the day.
Pack(m, w) ==
    LET rows == m \cup {[key |-> k, venue |-> w[k].ground, score |-> None] : k \in MissingFixtures(m, w)}
    IN {[id |-> <<r.key, r.venue>>, key |-> r.key, venue |-> r.venue, score |-> r.score,
         kick |-> IF r.key \in Timed(w) THEN w[r.key].kick ELSE None] : r \in rows}

\* Whether the pack can be built at all.
PackFails(m, w) ==
    \/ ScoredUnresolved(m)
    \/ Disagree(Resolved(m), w)
    \/ \E k \in MissingFixtures(Resolved(m), w) : w[k].ground = Unmapped

-------------------------------------------------------------------------------
(* merge_refresh_generation *)

\* Mutant of Rekeyed: a venue that is spelled anew makes a new fixture.
RekeyedNever(rows) == rows

\* A fixture that is alone under its date and teams on both sides keeps the id
\* and the venue it had.
Rekeyed(rows) ==
    {IF Alone(index, r.key) /\ Alone(rows, r.key)
     THEN LET old == CHOOSE b \in index : b.key = r.key
          IN [r EXCEPT !.id = old.id, !.venue = old.venue]
     ELSE r : r \in rows}

\* Completed rows that upstream no longer lists.
Retained(rows) ==
    {b \in index : /\ Completed(b)
                   /\ b.id \notin Ids(Rekeyed(rows))
                   /\ \A r \in rows : r.key # b.key}

International(rows) == Rekeyed(rows) \cup Retained(rows)

ClubRow(k, score) == [id |-> <<k>>, key |-> k, venue |-> None, score |-> score, kick |-> None]

\* build_domestic_runtime_pack: the file of the season beside the history the
\* bundled pack has.
Past == CHOOSE s \in Scores : TRUE
History == {ClubRow(k, Past) : k \in Earlier}
SeasonPack(d) == History \cup {ClubRow(k, d[k]) : k \in DOMAIN d}

\* Only the current season of a domestic pack is new.
Fresh(d) == IF d = None THEN {} ELSE {r \in SeasonPack(d) : r.key \in Clubs}

\* Of the active rows only that season gives way.  A competition without a file
\* keeps what it has.
Carried(d) == IF d = None THEN index ELSE {b \in index : b.key \notin Clubs}

Collision(d) == Ids(Fresh(d)) \cap Ids(Carried(d)) # {}

-------------------------------------------------------------------------------
(* assert_safe_change *)

\* Mutant of Represented: any row with the date and the teams will do.
RepresentedByKey(b, cand) == \E r \in cand : r.key = b.key

\* A completed row is there with its score, or was one of several rows for the
\* same fixture.
Represented(b, cand) ==
    IF b.id \in Ids(cand)
    THEN \E r \in cand : r.id = b.id /\ r.score = b.score
    ELSE \E r \in cand : r.key = b.key /\ r.score = b.score /\ Alone(cand, b.key)

NoRewrites(cand) == \A b \in index : Completed(b) => Represented(b, cand)

\* Every sealed fixture is there as it was sealed.
SealsKept(cand) ==
    \A s \in seals : \E r \in cand : r.id = s.id /\ r.venue = s.venue /\ r.kick = s.kick

Safe(cand) == NoRewrites(cand) /\ SealsKept(cand)

-------------------------------------------------------------------------------
CandInit ==
    /\ \/ family = "international" /\ index = {}
       \/ family = "club" /\ index = History
    /\ former = index
    /\ seals = {}

Activates(cand) ==
    /\ Safe(cand)
    /\ cand # index
    /\ former' = index
    /\ index' = cand
    /\ UNCHANGED <<family, seals>>

\* A refresh whose candidate passes; one that fails or conflicts changes nothing.
RefreshInternational(m, w) ==
    /\ family = "international"
    /\ ~PackFails(m, w)
    /\ Activates(International(Pack(Resolved(m), w)))

RefreshClubs(d) ==
    /\ family = "club"
    /\ ~Collision(d)
    /\ Activates(Fresh(d) \cup Carried(d))

\* Back to the generation before, and the other way.
SwapBack ==
    /\ index # former
    /\ index' = former
    /\ former' = index
    /\ UNCHANGED <<family, seals>>

SealFixture(r) ==
    /\ ~Completed(r)
    /\ Cardinality(seals) < MaxSeals
    /\ \A s \in seals : s.id # r.id
    /\ seals' = seals \cup {[id |-> r.id, key |-> r.key, venue |-> r.venue, kick |-> r.kick]}
    /\ UNCHANGED <<family, index, former>>

CandNext ==
    \/ \E m \in Martj42, w \in WorldCup : RefreshInternational(m, w)
    \/ \E d \in Domestic : RefreshClubs(d)
    \/ SwapBack
    \/ \E r \in index : SealFixture(r)

CandSpec == CandInit /\ [][CandNext]_candVars

-------------------------------------------------------------------------------
(* Properties *)

\* A result, once part of the active index, stays there under its date and
\* teams with its score, through any refresh and whatever upstream renames,
\* moves to another venue, merges or drops; and a sealed fixture stays the one
\* that was sealed (assert_safe_change; a rollback is the user's own choice).
EvidenceIsKept ==
    [][index' # index /\ ~SwapBack =>
        /\ \A b \in index : Completed(b) =>
              \E r \in index' : r.key = b.key /\ r.score = b.score
        /\ \A s \in seals : \E r \in index' :
              r.id = s.id /\ r.key = s.key /\ r.venue = s.venue /\ r.kick = s.kick
        /\ \A r, q \in index' : r.id = q.id => r = q]_candVars

\* Upstream that contradicts nothing: it lists a fixture once, a known result
\* unchanged or not at all, sealed fixtures still scheduled or played at their
\* kickoff; both sources agree.  Venues may be spelled anew.
Harmless(m, w) ==
    /\ ~PackFails(m, w)
    /\ \A b \in index : Alone(index, b.key)
    /\ \A r, q \in m : r.key = q.key => r = q
    /\ \A b \in index, r \in m : Completed(b) /\ r.key = b.key => r.score = b.score
    /\ \A b \in index : Completed(b) => b.key \notin MissingFixtures(m, w)
    /\ \A s \in seals :
          /\ \E b \in index : b.id = s.id
          /\ (\E r \in m : r.key = s.key) \/ s.key \in MissingFixtures(m, w)
          /\ s.kick = IF s.key \in Timed(w) THEN w[s.key].kick ELSE None

HarmlessSeason(d) ==
    d # None =>
        /\ \A b \in index : Completed(b) /\ b.key \in Clubs => b.key \in DOMAIN d /\ d[b.key] = b.score
        /\ \A s \in seals : s.key \in Clubs => s.key \in DOMAIN d

\* Nothing that contradicts no evidence and no seal is refused: the gate does
\* not block the refreshes it protects (a refused source is quarantined).
HarmlessPasses ==
    /\ family = "international" => \A m \in Martj42, w \in WorldCup :
          Harmless(m, w) => Safe(International(Pack(Resolved(m), w)))
    /\ family = "club" => \A d \in Domestic :
          HarmlessSeason(d) /\ (\A s \in seals : \E b \in index : b.id = s.id) =>
              ~Collision(d) /\ Safe(Fresh(d) \cup Carried(d))

\* Not an invariant.  A sealed fixture that worldcup.json reports as played
\* before martj42 lists it is in no pack, and the candidate is refused.
PlayedIsHarmless ==
    \A m \in Martj42, w \in WorldCup :
        /\ ~PackFails(m, w)
        /\ \A b \in index : ~Completed(b)
        /\ \A s \in seals : s.key \in Timed(w) /\ w[s.key].kick = s.kick
        => Safe(International(Pack(Resolved(m), w)))

\* Not an invariant.  A rollback may return to an index without a sealed fixture.
SealsResolve == \A s \in seals : s.id \in Ids(index)
===============================================================================
