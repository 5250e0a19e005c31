----------------------- MODULE SourceObservationsProofs -----------------------
(***************************************************************************)
(* Two proofs about what a generation is made of.  First, the quarantine   *)
(* and the completeness of generations, for every set of sources, every    *)
(* history of references and every conflict (SourceObservations).  Second, *)
(* the gate a candidate passes: it keeps every result and every sealed     *)
(* fixture and refuses nothing harmless, for all fixtures, venues, scores  *)
(* and documents (Candidates).                                             *)
(*                                                                         *)
(* The gate compares ids and says something about fixtures: both rest on   *)
(* an id naming one fixture, that of its own date, teams and venue, in     *)
(* every index there ever is (RowsFit).                                    *)
(***************************************************************************)
EXTENDS SourceObservations, Candidates, TLAPS

(***************************************************************************)
(* A reference is observed as changed once: the branch only moves on, so   *)
(* what a job sees for the first time was never part of a generation.      *)
(***************************************************************************)
Counters ==
    /\ head \in [Sources -> Nat \ {0}]
    /\ seen \in [Sources -> Nat]
    /\ held \in [Sources -> Nat]
    /\ active \in [Sources -> Nat]
    /\ previous \in [Sources -> Nat]
    /\ obs \in [Sources -> Nat]
    /\ fresh \in SUBSET Sources

Ordered ==
    \A s \in Sources :
        /\ seen[s] <= head[s]
        /\ active[s] <= seen[s]
        /\ previous[s] <= seen[s]
        /\ obs[s] # 0 => obs[s] = seen[s]

FreshIsNew ==
    \A s \in fresh : obs[s] # 0 /\ active[s] < obs[s] /\ previous[s] < obs[s]

HeldIsNew ==
    \A s \in Sources : held[s] # 0 =>
        held[s] = seen[s] /\ active[s] < held[s] /\ previous[s] < held[s]

Whole ==
    /\ active # NoRefs => \A s \in Sources : active[s] # 0
    /\ previous # NoRefs => \A s \in Sources : previous[s] # 0
    /\ pc = "completing" => \A s \in Sources \ todo : obs[s] # 0
    /\ pc = "building" => ~Blocked /\ \A s \in Sources : obs[s] # 0

ObsInv == Counters /\ Ordered /\ FreshIsNew /\ HeldIsNew /\ Whole

\* Nothing has been observed yet.
LEMMA ObsInit == Init => ObsInv
BY DEF Init, ObsInv, Counters, Ordered, FreshIsNew, HeldIsNew, Whole, NoRefs

\* A successful check moves one source's record to its head.
LEMMA ObserveKeeps ==
    ASSUME ObsInv, NEW s \in Sources, Observe(s),
           UNCHANGED <<head, active, previous>>
    PROVE  Counters' /\ Ordered' /\ FreshIsNew' /\ HeldIsNew'
BY DEF ObsInv, Counters, Ordered, FreshIsNew, HeldIsNew, Observe, Succeed

\* Every step keeps the invariant.
LEMMA ObsStep == ObsInv /\ [Next]_vars => ObsInv'
<1> SUFFICES ASSUME ObsInv, [Next]_vars PROVE ObsInv'
  OBVIOUS
<1> USE DEF ObsInv, recordVars, storeVars, jobVars
<1>1. ASSUME NEW s \in Sources, Publish(s) PROVE ObsInv'
  BY <1>1 DEF Publish, Counters, Ordered, FreshIsNew, HeldIsNew, Whole, Blocked
<1>2. ASSUME NEW s \in Sources, Elapse(s) PROVE ObsInv'
  BY <1>2 DEF Elapse, Counters, Ordered, FreshIsNew, HeldIsNew, Whole, Blocked
<1>3. CASE BeginAny
  BY <1>3 DEF BeginAny, Begin, Counters, Ordered, FreshIsNew, HeldIsNew, Whole, Blocked
<1>4. ASSUME NEW s \in Sources, SkipCheck(s) PROVE ObsInv'
  BY <1>4 DEF SkipCheck, Counters, Ordered, FreshIsNew, HeldIsNew, Whole, Blocked
<1>5. ASSUME NEW s \in Sources, CheckSource(s) PROVE ObsInv'
  <2>1. Counters' /\ Ordered' /\ FreshIsNew' /\ HeldIsNew'
    BY <1>5, ObserveKeeps DEF CheckSource
  <2>2. Whole'
    BY <1>5 DEF CheckSource, Whole, NoRefs
  <2> QED BY <2>1, <2>2
<1>6. ASSUME NEW s \in Sources, CheckDependency(s) PROVE ObsInv'
  <2>1. Counters' /\ Ordered' /\ FreshIsNew' /\ HeldIsNew'
    BY <1>6, ObserveKeeps DEF CheckDependency
  <2>2. Whole'
    BY <1>6 DEF CheckDependency, Observe, Whole, NoRefs, Counters
  <2> QED BY <2>1, <2>2
<1>7. ASSUME NEW s \in Sources, NEW rate \in BOOLEAN, CheckFails(s, rate) PROVE ObsInv'
  BY <1>7 DEF CheckFails, Fail, Counters, Ordered, FreshIsNew, HeldIsNew, Whole
<1>8. ASSUME EndJob, UNCHANGED <<head, seen, held, active, previous>> PROVE ObsInv'
  BY <1>8 DEF EndJob, Counters, Ordered, FreshIsNew, HeldIsNew, Whole, NoRefs
<1>9. ASSUME NEW s \in Sources, NEW rate \in BOOLEAN, DependencyFails(s, rate) PROVE ObsInv'
  BY <1>8, <1>9 DEF DependencyFails, Fail
<1>10. CASE Stop \/ StopUnbuilt \/ BuildRaises \/ Crash
  BY <1>8, <1>10 DEF Stop, StopUnbuilt, BuildRaises, Crash
<1>11. CASE Complete
  BY <1>11 DEF Complete, Missing, Counters, Ordered, FreshIsNew, HeldIsNew, Whole
<1>12. CASE Build
  BY <1>12 DEF Build, Blocked, Counters, Ordered, FreshIsNew, HeldIsNew, Whole
<1>13. CASE Conflict
  BY <1>13 DEF Conflict, EndJob, Counters, Ordered, FreshIsNew, HeldIsNew, Whole, NoRefs
<1>14. CASE Activate
  <2>1. \A s \in Sources : obs[s] # 0 /\ obs[s] = seen[s] /\ held[s] = 0
    BY <1>14 DEF Activate, Whole, Blocked, Ordered, HeldIsNew
  <2>2. /\ active' = obs
        /\ previous' = active \/ previous' = previous
        /\ UNCHANGED <<head, seen, held>>
        /\ obs' = NoRefs /\ fresh' = {} /\ pc' = "idle"
    BY <1>14 DEF Activate, EndJob
  <2>3. previous' # NoRefs => \A s \in Sources : previous'[s] # 0
    BY <2>2 DEF Whole
  <2> QED BY <2>1, <2>2, <2>3 DEF Counters, Ordered, FreshIsNew, HeldIsNew, Whole, NoRefs
<1>15. CASE Rollback
  BY <1>15 DEF Rollback, Counters, Ordered, FreshIsNew, HeldIsNew, Whole
<1>16. CASE Cancel
  BY <1>16 DEF Cancel, Counters, Ordered, FreshIsNew, HeldIsNew, Whole, Blocked
<1>17. CASE UNCHANGED vars
  BY <1>17 DEF vars, Counters, Ordered, FreshIsNew, HeldIsNew, Whole, Blocked
<1>18. CASE WorkerStep
  BY <1>18, <1>4, <1>5, <1>6, <1>7, <1>9, <1>10, <1>11, <1>12, <1>13, <1>14 DEF WorkerStep
<1> QED BY <1>1, <1>2, <1>3, <1>10, <1>15, <1>16, <1>17, <1>18 DEF Next

\* A quarantined reference is in neither generation and is the last one
\* observed, whichever jobs, conflicts, rollbacks and crashes came before.
THEOREM QuarantineHolds == Spec => []QuarantineKeptOut
<1>1. ObsInv => QuarantineKeptOut
  BY DEF ObsInv, HeldIsNew, QuarantineKeptOut, Counters
<1> QED BY <1>1, ObsInit, ObsStep, PTL DEF Spec

\* Every generation served carries an observed reference of every source.
THEOREM GenerationsAreComplete == Spec => []GenerationComplete
<1>1. ASSUME ObsInv PROVE GenerationComplete
  <2>1. ASSUME active # NoRefs, NEW s \in Sources PROVE active[s] \in 1..seen[s]
    <3>1. active[s] \in Nat /\ seen[s] \in Nat /\ active[s] <= seen[s]
      BY <1>1 DEF ObsInv, Ordered, Counters
    <3>2. active[s] # 0
      BY <1>1, <2>1 DEF ObsInv, Whole
    <3> QED BY <3>1, <3>2
  <2> QED BY <2>1 DEF GenerationComplete
<1> QED BY <1>1, ObsInit, ObsStep, PTL DEF Spec

-------------------------------------------------------------------------------
(***************************************************************************)
(* Candidates.                                                             *)
(***************************************************************************)
Grounds == Venues \cup {Unmapped}
Kickoffs == Kicks \cup {None}

\* A row of an international pack, and one of a club pack.
PackRow == [id : Matches \X Grounds, key : Matches, venue : Grounds,
            score : Results, kick : Kickoffs]
SeasonRow == [id : {<<k>> : k \in Clubs \cup Earlier}, key : Clubs \cup Earlier, venue : {None},
              score : Results, kick : {None}]

\* The id says which fixture a row is, whatever was renamed since.
IdOf(r) == IF family = "international" THEN <<r.key, r.venue>> ELSE <<r.key>>

\* A row is one of its family, and an id is of one row.
RowsFit(rows) ==
    /\ rows \subseteq IF family = "international" THEN PackRow ELSE SeasonRow
    /\ \A r \in rows : r.id = IdOf(r)
    /\ \A r, q \in rows : r.id = q.id => r = q

SealsFit ==
    \A s \in seals :
        /\ s.id = IdOf(s)
        /\ family = "club" => s.venue = None /\ s.kick = None

CandInv ==
    /\ family \in {"international", "club"}
    /\ RowsFit(index)
    /\ RowsFit(former)
    /\ SealsFit

-------------------------------------------------------------------------------
\* The pack of a build that passes lists a fixture once per venue.
LEMMA PackFits ==
    ASSUME NEW m \in Martj42, NEW w \in WorldCup, ~PackFails(m, w)
    PROVE  /\ Pack(Resolved(m), w) \subseteq PackRow
           /\ \A r \in Pack(Resolved(m), w) : r.id = <<r.key, r.venue>>
           /\ \A r, q \in Pack(Resolved(m), w) : r.id = q.id => r = q
<1> DEFINE n == Resolved(m)
<1>1. n \subseteq Listed /\ \A r, q \in n : r.key = q.key /\ r.venue = q.venue => r = q
  <2>1. CASE m \subseteq Listed /\ \A r, q \in m : r.key = q.key /\ r.venue = q.venue => r = q
    BY <2>1 DEF Resolved
  <2>2. CASE \E r \in Unresolved : m = {r}
    BY <2>2 DEF Resolved, Unresolved
  <2> QED BY <2>1, <2>2 DEF Martj42
<1>2. PICK ks \in SUBSET Matches :
          w \in [ks -> [kick : Kicks \cup {None}, ground : Grounds, score : Results]]
  BY DEF WorldCup, Grounds
<1> DEFINE news == {[key |-> k, venue |-> w[k].ground, score |-> None] : k \in MissingFixtures(n, w)}
<1>3. \A r \in n \cup news : r.key \in Matches /\ r.venue \in Grounds /\ r.score \in Results
  BY <1>1, <1>2 DEF MissingFixtures, Timed, Listed, Grounds, Results
<1>4. \A r, q \in n \cup news : r.key = q.key /\ r.venue = q.venue => r = q
  BY <1>1, <1>2 DEF MissingFixtures
<1>5. \A k \in Timed(w) : w[k].kick \in Kickoffs
  BY <1>2 DEF Timed, Kickoffs
<1> DEFINE PackOf(r) == [id |-> <<r.key, r.venue>>, key |-> r.key, venue |-> r.venue, score |-> r.score,
                         kick |-> IF r.key \in Timed(w) THEN w[r.key].kick ELSE None]
<1>6. Pack(n, w) = {PackOf(r) : r \in n \cup news}
  BY DEF Pack
<1> HIDE DEF n, news
<1>7. \A r \in n \cup news : PackOf(r) \in PackRow
  BY <1>3, <1>5 DEF PackRow, Kickoffs
<1>8. \A r, q \in n \cup news : PackOf(r).id = PackOf(q).id => PackOf(r) = PackOf(q)
  <2> SUFFICES ASSUME NEW r \in n \cup news, NEW q \in n \cup news, PackOf(r).id = PackOf(q).id
               PROVE  PackOf(r) = PackOf(q)
    OBVIOUS
  <2>1. r.key = q.key /\ r.venue = q.venue
    OBVIOUS
  <2> QED BY <2>1, <1>4
<1> QED BY <1>6, <1>7, <1>8 DEF n

\* Rekeying moves a row to the id and the venue of the fixture it is, and keeps
\* what it says of it.
LEMMA RekeyedFits ==
    ASSUME family = "international", RowsFit(index), NEW rows, RowsFit(rows)
    PROVE  /\ RowsFit(Rekeyed(rows))
           /\ \A r \in rows : Alone(rows, r.key) => \A b \in index : b.key = r.key /\ Alone(index, b.key) =>
                  \E q \in Rekeyed(rows) : /\ q.id = b.id /\ q.venue = b.venue
                                           /\ q.score = r.score /\ q.kick = r.kick
           /\ \A q \in Rekeyed(rows) : \E r \in rows : q.key = r.key
<1> DEFINE Both(r) == Alone(index, r.key) /\ Alone(rows, r.key)
           Old(r) == CHOOSE b \in index : b.key = r.key
           New(r) == IF Both(r) THEN [r EXCEPT !.id = Old(r).id, !.venue = Old(r).venue] ELSE r
<1>1. \A r \in rows : r \in PackRow /\ r.id = <<r.key, r.venue>>
  BY DEF RowsFit, IdOf
<1>2. \A r \in rows : Both(r) => Old(r) \in index /\ Old(r).key = r.key
  BY DEF Alone
<1>3. \A b \in index : b \in PackRow /\ b.id = <<b.key, b.venue>>
  BY DEF RowsFit, IdOf
<1>4. \A r \in rows : /\ New(r) \in PackRow /\ New(r).id = <<New(r).key, New(r).venue>>
                      /\ New(r).key = r.key /\ New(r).score = r.score /\ New(r).kick = r.kick
  <2> SUFFICES ASSUME NEW r \in rows
               PROVE  /\ New(r) \in PackRow /\ New(r).id = <<New(r).key, New(r).venue>>
                      /\ New(r).key = r.key /\ New(r).score = r.score /\ New(r).kick = r.kick
    OBVIOUS
  <2>1. CASE Both(r)
    <3> HIDE DEF Both, Old
    <3>1. Old(r) \in PackRow /\ Old(r).id = <<r.key, Old(r).venue>>
      BY <2>1, <1>2, <1>3
    <3> QED BY <2>1, <3>1, <1>1 DEF PackRow
  <2>2. CASE ~Both(r)
    BY <2>2, <1>1
  <2> QED BY <2>1, <2>2
<1>5. Rekeyed(rows) = {New(r) : r \in rows}
  BY DEF Rekeyed
<1>6. \A r, q \in rows : Both(r) /\ r.key = q.key => r = q
  BY DEF Alone
<1>7. \A r, q \in rows : New(r).id = New(q).id => New(r) = New(q)
  <2> SUFFICES ASSUME NEW r \in rows, NEW q \in rows, New(r).id = New(q).id
               PROVE  New(r) = New(q)
    OBVIOUS
  <2>1. r.key = q.key
    <3> HIDE DEF New
    <3> QED BY <1>4
  <2>2. CASE Both(r) \/ Both(q)
    <3> HIDE DEF New, Both
    <3> QED BY <2>1, <2>2, <1>6
  <2>3. CASE ~Both(r) /\ ~Both(q)
    BY <2>3 DEF RowsFit
  <2> QED BY <2>2, <2>3
<1>8. \A r \in rows : Alone(rows, r.key) => \A b \in index : b.key = r.key /\ Alone(index, b.key) =>
          New(r).id = b.id /\ New(r).venue = b.venue
  <2> SUFFICES ASSUME NEW r \in rows, Alone(rows, r.key), NEW b \in index, b.key = r.key, Alone(index, b.key)
               PROVE  New(r).id = b.id /\ New(r).venue = b.venue
    OBVIOUS
  <2>1. Both(r) OBVIOUS
  <2>2. Old(r) = b
    BY <2>1, <1>2 DEF Alone
  <2> HIDE DEF Both, Old
  <2> QED BY <2>1, <2>2, <1>1 DEF PackRow
<1> HIDE DEF New
<1> QED BY <1>4, <1>5, <1>7, <1>8 DEF RowsFit, IdOf

\* An international candidate lists a fixture once per id.
LEMMA InternationalFits ==
    ASSUME family = "international", RowsFit(index), NEW rows, RowsFit(rows)
    PROVE  RowsFit(International(rows))
<1>1. RowsFit(Rekeyed(rows))
  BY RekeyedFits
<1>2. /\ Retained(rows) \subseteq index
      /\ \A b \in Retained(rows), r \in Rekeyed(rows) : b.id # r.id
  BY DEF Retained, Ids
<1> QED BY <1>1, <1>2 DEF RowsFit, International, IdOf

\* What a season file changes and what it leaves.
LEMMA SeasonFits ==
    ASSUME family = "club", RowsFit(index), NEW d \in Domestic
    PROVE  /\ RowsFit(Fresh(d))
           /\ Carried(d) \subseteq index
           /\ d # None => /\ Fresh(d) = {ClubRow(k, d[k]) : k \in DOMAIN d} /\ DOMAIN d \subseteq Clubs
                          /\ Carried(d) = {b \in index : b.key \notin Clubs}
<1>1. CASE d = None
  BY <1>1 DEF Fresh, Carried, RowsFit
<1>2. CASE d # None
  <2>1. PICK ks \in SUBSET Clubs : d \in [ks -> Results]
    BY <1>2 DEF Domestic
  <2>2. \A r \in History : r.key \in Earlier
    BY DEF History, ClubRow
  <2>3. Fresh(d) = {ClubRow(k, d[k]) : k \in DOMAIN d}
    BY <1>2, <2>1, <2>2, CandidatesAssumption DEF Fresh, SeasonPack, ClubRow
  <2>4. \A k \in DOMAIN d : ClubRow(k, d[k]) \in SeasonRow
    BY <2>1 DEF ClubRow, SeasonRow
  <2> QED BY <1>2, <2>1, <2>3, <2>4 DEF RowsFit, IdOf, ClubRow, Carried
<1> QED BY <1>1, <1>2

\* A club candidate without a collision lists a fixture once per id.
LEMMA ClubCandidateFits ==
    ASSUME family = "club", RowsFit(index), NEW d \in Domestic, ~Collision(d)
    PROVE  RowsFit(Fresh(d) \cup Carried(d))
BY SeasonFits DEF Collision, Ids, RowsFit, IdOf

-------------------------------------------------------------------------------
\* Both families start with fixtures of one id each.
LEMMA CandStart == CandInit => CandInv
<1> SUFFICES ASSUME CandInit PROVE CandInv
  OBVIOUS
<1>1. Past \in Scores
  BY CandidatesAssumption DEF Past
<1>2. \A r \in History : r \in SeasonRow /\ r.id = <<r.key>>
  BY <1>1 DEF History, ClubRow, SeasonRow, Results
<1>3. \A r, q \in History : r.id = q.id => r = q
  BY DEF History, ClubRow
<1> QED BY <1>2, <1>3 DEF CandInit, CandInv, RowsFit, SealsFit, IdOf

\* What a refresh lets through, on either side.
LEMMA CandidateFits ==
    ASSUME CandInv, NEW cand,
           \/ \E m \in Martj42, w \in WorldCup : /\ family = "international" /\ ~PackFails(m, w)
                                                 /\ cand = International(Pack(Resolved(m), w))
           \/ \E d \in Domestic : /\ family = "club" /\ ~Collision(d)
                                  /\ cand = Fresh(d) \cup Carried(d)
    PROVE  RowsFit(cand)
<1>1. ASSUME NEW m \in Martj42, NEW w \in WorldCup, family = "international", ~PackFails(m, w)
      PROVE  RowsFit(International(Pack(Resolved(m), w)))
  <2>1. RowsFit(Pack(Resolved(m), w))
    BY <1>1, PackFits DEF RowsFit, IdOf
  <2> QED BY <1>1, <2>1, InternationalFits DEF CandInv
<1> QED BY <1>1, ClubCandidateFits DEF CandInv

\* What a refresh activates fits and passed the gate.
LEMMA RefreshFits ==
    ASSUME CandInv, \/ \E m \in Martj42, w \in WorldCup : RefreshInternational(m, w)
                    \/ \E d \in Domestic : RefreshClubs(d)
    PROVE  RowsFit(index') /\ Safe(index') /\ former' = index /\ UNCHANGED <<family, seals>>
BY CandidateFits DEF RefreshInternational, RefreshClubs, Activates

\* Every step keeps the invariant.
LEMMA CandKept == CandInv /\ [CandNext]_candVars => CandInv'
<1> SUFFICES ASSUME CandInv, [CandNext]_candVars PROVE CandInv'
  OBVIOUS
<1>1. ASSUME NEW m \in Martj42, NEW w \in WorldCup, RefreshInternational(m, w) PROVE CandInv'
  BY <1>1, RefreshFits DEF CandInv, RowsFit, SealsFit, IdOf
<1>2. ASSUME NEW d \in Domestic, RefreshClubs(d) PROVE CandInv'
  BY <1>2, RefreshFits DEF CandInv, RowsFit, SealsFit, IdOf
<1>3. CASE SwapBack
  BY <1>3 DEF SwapBack, CandInv, RowsFit, SealsFit, IdOf
<1>4. ASSUME NEW r \in index, SealFixture(r) PROVE CandInv'
  <2>1. family = "club" => r.venue = None /\ r.kick = None
    BY DEF CandInv, RowsFit, SeasonRow
  <2>2. r.id = IdOf(r)
    BY DEF CandInv, RowsFit
  <2> QED BY <1>4, <2>1, <2>2 DEF SealFixture, CandInv, RowsFit, SealsFit, IdOf
<1>5. CASE UNCHANGED candVars
  BY <1>5 DEF candVars, CandInv, RowsFit, SealsFit, IdOf
<1> QED BY <1>1, <1>2, <1>3, <1>4, <1>5 DEF CandNext

\* An id names one fixture, its own, in both indexes and in every seal.
THEOREM CandInvariant == CandSpec => []CandInv
BY CandStart, CandKept, PTL DEF CandSpec

-------------------------------------------------------------------------------
\* A gate that lets a candidate through has seen every result and every seal in it.
LEMMA SafeKeeps ==
    ASSUME CandInv, NEW cand, RowsFit(cand), Safe(cand)
    PROVE  /\ \A b \in index : Completed(b) => \E r \in cand : r.key = b.key /\ r.score = b.score
           /\ \A s \in seals : \E r \in cand :
                 r.id = s.id /\ r.key = s.key /\ r.venue = s.venue /\ r.kick = s.kick
<1>1. \A r, q : IdOf(r) = IdOf(q) => r.key = q.key
  BY DEF IdOf
<1>2. ASSUME NEW b \in index, Completed(b)
      PROVE  \E r \in cand : r.key = b.key /\ r.score = b.score
  BY <1>1, <1>2 DEF Safe, NoRewrites, Represented, CandInv, RowsFit
<1>3. ASSUME NEW s \in seals
      PROVE  \E r \in cand : r.id = s.id /\ r.key = s.key /\ r.venue = s.venue /\ r.kick = s.kick
  BY <1>1 DEF Safe, SealsKept, CandInv, RowsFit, SealsFit
<1> QED BY <1>2, <1>3

\* A result that was activated stays under its date and teams with its score, and
\* a sealed fixture stays the one that was sealed, through any refresh, for every
\* set of fixtures, venues and scores (assert_safe_change).
THEOREM ResultsStay == CandSpec => EvidenceIsKept
<1>1. ASSUME CandInv, [CandNext]_candVars, index' # index, ~SwapBack
      PROVE  /\ \A b \in index : Completed(b) =>
                   \E r \in index' : r.key = b.key /\ r.score = b.score
             /\ \A s \in seals : \E r \in index' :
                   r.id = s.id /\ r.key = s.key /\ r.venue = s.venue /\ r.kick = s.kick
             /\ \A r, q \in index' : r.id = q.id => r = q
  <2>1. \/ \E m \in Martj42, w \in WorldCup : RefreshInternational(m, w)
        \/ \E d \in Domestic : RefreshClubs(d)
    BY <1>1 DEF CandNext, candVars, SealFixture
  <2>2. RowsFit(index') /\ Safe(index')
    BY <1>1, <2>1, RefreshFits
  <2>3. \A r, q \in index' : r.id = q.id => r = q
    BY <2>2 DEF RowsFit
  <2> HIDE DEF RowsFit
  <2> QED BY <1>1, <2>2, <2>3, SafeKeeps
<1>2. CandInv /\ [CandNext]_candVars =>
      [index' # index /\ ~SwapBack =>
        /\ \A b \in index : Completed(b) =>
              \E r \in index' : r.key = b.key /\ r.score = b.score
        /\ \A s \in seals : \E r \in index' :
              r.id = s.id /\ r.key = s.key /\ r.venue = s.venue /\ r.kick = s.kick
        /\ \A r, q \in index' : r.id = q.id => r = q]_candVars
  BY <1>1
<1> QED BY <1>2, CandInvariant, PTL DEF CandSpec, EvidenceIsKept

-------------------------------------------------------------------------------
\* A harmless refresh of the international pack passes.
LEMMA HarmlessInternational ==
    ASSUME CandInv, family = "international", NEW m \in Martj42, NEW w \in WorldCup, Harmless(m, w)
    PROVE  Safe(International(Pack(Resolved(m), w)))
<1> DEFINE n == Resolved(m)
           rows == Pack(n, w)
           cand == International(rows)
<1>1. RowsFit(rows)
  BY PackFits DEF RowsFit, IdOf, Harmless
<1>2. \A b \in index : b.key \in Matches /\ b.id = <<b.key, b.venue>> /\ Alone(index, b.key)
  BY DEF CandInv, RowsFit, PackRow, IdOf, Harmless
<1>3. Timed(w) \subseteq Matches
  BY DEF WorldCup, Timed
<1>4. MissingFixtures(n, w) = MissingFixtures(m, w)
  BY <1>3, CandidatesAssumption DEF MissingFixtures, Resolved
<1> DEFINE news == {[key |-> k, venue |-> w[k].ground, score |-> None] : k \in MissingFixtures(n, w)}
           PackOf(r) == [id |-> <<r.key, r.venue>>, key |-> r.key, venue |-> r.venue, score |-> r.score,
                         kick |-> IF r.key \in Timed(w) THEN w[r.key].kick ELSE None]
<1>5. ASSUME NEW r \in n \cup news PROVE PackOf(r) \in rows /\ PackOf(r).key = r.key
  BY DEF Pack
<1>6. ASSUME NEW k \in MissingFixtures(m, w) PROVE \E q \in rows : q.key = k
  <2> DEFINE r == [key |-> k, venue |-> w[k].ground, score |-> None]
  <2>1. r \in news /\ r.key = k
    BY <1>4
  <2> HIDE DEF n, news, rows, PackOf, r
  <2> QED BY <1>5, <2>1
<1>7. \A q \in rows : /\ \/ q.key \in MissingFixtures(m, w)
                         \/ \E r \in n : r.key = q.key /\ r.score = q.score
                      /\ q.kick = IF q.key \in Timed(w) THEN w[q.key].kick ELSE None
  BY <1>4 DEF Pack
<1>8. \A q \in rows : Alone(rows, q.key)
  <2>1. \A q, r \in rows : q.key = r.key => q = r
    <3> SUFFICES ASSUME NEW q \in n, NEW r \in n, q.key = r.key PROVE q = r
      BY <1>4 DEF Pack, MissingFixtures
    <3> QED BY DEF Resolved, Harmless
  <2> HIDE DEF rows
  <2> QED BY <2>1 DEF Alone
<1>9. Rekeyed(rows) \subseteq cand /\ Retained(rows) \subseteq cand
  BY DEF International
<1>10. \A q \in rows, b \in index : b.key = q.key =>
          \E r \in cand : r.id = b.id /\ r.venue = b.venue /\ r.score = q.score /\ r.kick = q.kick
  BY <1>1, <1>2, <1>8, <1>9, RekeyedFits DEF CandInv
<1>11. ASSUME NEW b \in index, Completed(b) PROVE Represented(b, cand)
  <2>1. CASE \E q \in rows : q.key = b.key
    <3>1. PICK q \in rows : q.key = b.key
      BY <2>1
    <3>2. q.score = b.score
      <4>1. b.key \notin MissingFixtures(m, w)
        BY <1>11 DEF Harmless
      <4>2. PICK r \in n : r.key = q.key /\ r.score = q.score
        BY <1>7, <3>1, <4>1
      <4> QED BY <1>11, <3>1, <4>2 DEF Harmless, Resolved
    <3> QED BY <1>10, <3>1, <3>2 DEF Represented, Ids
  <2>2. CASE \A q \in rows : q.key # b.key
    <3>1. \A q \in Rekeyed(rows) : q.id # b.id
      <4>1. \A q \in Rekeyed(rows) : q.id = <<q.key, q.venue>> /\ q.key # b.key
        BY <1>1, <2>2, RekeyedFits DEF CandInv, RowsFit, IdOf
      <4> QED BY <1>2, <4>1
    <3>2. b \in Retained(rows)
      BY <1>11, <2>2, <3>1 DEF Retained, Ids
    <3> QED BY <1>9, <3>2 DEF Represented, Ids
  <2> QED BY <2>1, <2>2
<1>12. ASSUME NEW s \in seals
       PROVE  \E r \in cand : r.id = s.id /\ r.venue = s.venue /\ r.kick = s.kick
  <2>1. PICK b \in index : b.id = s.id
    BY DEF Harmless
  <2>2. b.key = s.key /\ b.venue = s.venue
    BY <1>2, <2>1 DEF CandInv, SealsFit, IdOf
  <2>3. PICK q \in rows : q.key = s.key
    <3>1. CASE s.key \in MissingFixtures(m, w)
      BY <3>1, <1>6
    <3>2. ASSUME NEW r \in m, r.key = s.key PROVE \E q \in rows : q.key = s.key
      <4>1. r \in n
        BY <3>2, <2>2, <1>2, CandidatesAssumption DEF Resolved
      <4> QED BY <3>2, <4>1, <1>5
    <3> QED BY <3>1, <3>2 DEF Harmless
  <2>4. q.kick = s.kick
    BY <1>7, <2>3 DEF Harmless
  <2> QED BY <1>10, <2>1, <2>2, <2>3, <2>4
<1> HIDE DEF cand
<1> QED BY <1>11, <1>12 DEF Safe, NoRewrites, SealsKept, cand

\* A harmless season of a club competition passes, and collides with nothing.
LEMMA HarmlessClubs ==
    ASSUME CandInv, family = "club", NEW d \in Domestic, HarmlessSeason(d),
           \A s \in seals : \E b \in index : b.id = s.id
    PROVE  ~Collision(d) /\ Safe(Fresh(d) \cup Carried(d))
<1>1. \A b \in index : b.id = <<b.key>> /\ b.venue = None /\ b.kick = None
  BY DEF CandInv, RowsFit, SeasonRow, IdOf
<1>2. \A s \in seals : s.id = <<s.key>> /\ s.venue = None /\ s.kick = None
  BY DEF CandInv, SealsFit, IdOf
<1>3. CASE d = None
  <2>1. Fresh(d) = {} /\ Carried(d) = index
    BY <1>3 DEF Fresh, Carried
  <2> QED BY <1>1, <1>2, <2>1
          DEF Collision, Ids, Safe, NoRewrites, Represented, SealsKept
<1>4. CASE d # None
  <2>1. /\ Fresh(d) = {ClubRow(k, d[k]) : k \in DOMAIN d} /\ DOMAIN d \subseteq Clubs
        /\ Carried(d) = {b \in index : b.key \notin Clubs}
    BY <1>4, SeasonFits DEF CandInv
  <2>2. ~Collision(d)
    BY <1>1, <2>1 DEF Collision, Ids, ClubRow
  <2>3. ASSUME NEW b \in index, Completed(b) PROVE Represented(b, Fresh(d) \cup Carried(d))
    <3>1. CASE b.key \in Clubs
      <4>1. ClubRow(b.key, d[b.key]) \in Fresh(d) /\ d[b.key] = b.score
        BY <1>4, <2>1, <2>3, <3>1 DEF HarmlessSeason
      <4> QED BY <1>1, <4>1 DEF Represented, Ids, ClubRow
    <3>2. CASE b.key \notin Clubs
      BY <2>1, <3>2 DEF Represented, Ids
    <3> QED BY <3>1, <3>2
  <2>4. ASSUME NEW s \in seals
        PROVE  \E r \in Fresh(d) \cup Carried(d) : r.id = s.id /\ r.venue = s.venue /\ r.kick = s.kick
    <3>1. CASE s.key \in Clubs
      <4>1. ClubRow(s.key, d[s.key]) \in Fresh(d)
        BY <1>4, <2>1, <3>1 DEF HarmlessSeason
      <4> QED BY <1>2, <4>1 DEF ClubRow
    <3>2. CASE s.key \notin Clubs
      BY <1>1, <1>2, <2>1, <3>2
    <3> QED BY <3>1, <3>2
  <2> QED BY <2>2, <2>3, <2>4 DEF Safe, NoRewrites, SealsKept
<1> QED BY <1>3, <1>4

\* Nothing that contradicts no result and no seal is refused, though venues are
\* spelled anew and rows dropped (merge_refresh_generation, assert_safe_change).
THEOREM HarmlessIsNotRefused == CandSpec => []HarmlessPasses
<1>1. CandInv => HarmlessPasses
  BY HarmlessInternational, HarmlessClubs DEF HarmlessPasses
<1> QED BY <1>1, CandInvariant, PTL
===============================================================================
