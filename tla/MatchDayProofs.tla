----------------------------- MODULE MatchDayProofs -----------------------------
(***************************************************************************)
(* The user's ledger never splits, and no pick is accepted after the       *)
(* kickoff: for any ids, times, results and budgets of events, and any     *)
(* interleaving of picks, seals, settlements, publications and crashes.    *)
(***************************************************************************)
EXTENDS MatchDay, FiniteSetTheorems, TLAPS

(***************************************************************************)
(* The shapes of what is stored, and of what the holder of the lock knows. *)
(***************************************************************************)
Generations == [row : Rows \cup {Gone}, at : Nat]
Drafts == [day : Nat, saved : Nat, lock : Nat]
Calls == [op : {"get", "save", "delete"}, id : Ids, now : Nat]
Seals == [id : Ids, kick : Nat, at : Nat, asOf : Nat, abstained : BOOLEAN]
Reports == [day : Nat, result : Results \cup {"none", "not read"}, at : Nat]
Grades == [root : Seals, result : Results, at : Nat]

Saving == [op : {"save"}, call : Calls, seen : Generations, draft : Drafts]
Sealing == [op : {"seal"}, id : Ids, now : Nat, day : Nat]
Settling == [op : {"settle"}, todo : SUBSET Seals, asked : SUBSET Sources,
             read : [Sources -> Reports]]

TypeOK ==
    /\ clock \in Nat
    /\ gen \in Generations
    /\ busy \in {Idle} \cup Saving \cup Sealing \cup Settling
    /\ drafts \in [Ids -> Drafts]
    /\ locked \in SUBSET [id : Ids, day : Nat, saved : Nat, lock : Nat]
    /\ calls \in SUBSET Calls
    /\ roots \in SUBSET Seals
    /\ scored \in SUBSET Grades
    /\ feed \in [Sources -> Reports]

\* What a save decided before it waits for the models stays true of the
\* generation it saw, and of the locked records, since it holds the lock.
Decided ==
    busy.op = "save" =>
        /\ RowOf(busy.call.id, busy.seen) # Gone
        /\ ~busy.seen.row.complete
        /\ busy.draft.saved < busy.draft.lock
        /\ busy.draft.lock <= busy.seen.row.kickoff
        /\ \A l \in locked : l.id # busy.call.id

\* The seals a settlement still has to go through have no successor.
Ungraded == busy.op = "settle" => \A r \in busy.todo : Successors(r) = {}

\* The two ledgers, with the second half of OneHistory said of the records.
OneRootPerId == \A q, r \in roots : q.id = r.id => q = r
OneGradePerRoot == \A s, t \in scored : s.root = t.root => s = t

DayInv == TypeOK /\ Decided /\ Ungraded /\ OneLockPerMatch /\ OneRootPerId /\ OneGradePerRoot

-------------------------------------------------------------------------------
(* Operators. *)

\* Dates are numbers.
LEMMA DayType == ASSUME NEW t \in Nat PROVE Day(t) \in Nat
BY DEF Day

\* A fixture that is listed has a kickoff.
LEMMA RowTypes ==
    ASSUME NEW row \in Rows \cup {Gone}
    PROVE  row.kickoff \in Nat
<1>1. Kickoffs \subseteq Nat
  BY FixturesAssumption
<1>2. CASE row \in Rows
  BY <1>1, <1>2 DEF Rows
<1>3. CASE row = Gone
  BY <1>3 DEF Gone
<1> QED BY <1>2, <1>3

\* The row of an id is that of the generation, or none.
LEMMA RowOfType ==
    ASSUME NEW i \in Ids, NEW g \in Generations
    PROVE  /\ RowOf(i, g) \in Rows \cup {Gone}
           /\ RowOf(i, g) # Gone => RowOf(i, g) = g.row /\ g.row.kickoff \in Nat
<1>1. g.row \in Rows \cup {Gone}
  BY DEF Generations
<1>2. RowOf(i, g) \in {g.row, Gone}
  BY DEF RowOf
<1> QED BY <1>1, <1>2, RowTypes

\* The lock of a draft is at the kickoff of the row at the latest.
LEMMA EffectiveLockBounds ==
    ASSUME NEW d \in Drafts, NEW row \in Rows \cup {Gone}
    PROVE  /\ EffectiveLock(d, row) \in Nat
           /\ row # Gone => EffectiveLock(d, row) <= row.kickoff
BY RowTypes DEF EffectiveLock, Smaller, Drafts

\* What no operation finds under an id is not locked under it.
LEMMA NotFound ==
    ASSUME NEW i, NEW row, FindLocked(i, row) = {}
    PROVE  \A l \in locked : l.id # i
BY DEF FindLocked

\* A draft is frozen into a record of its own id and time.
LEMMA FreezeAdds ==
    ASSUME TypeOK, NEW i \in Ids, NEW row \in Rows \cup {Gone}, Freeze(i, row),
           OneLockPerMatch, \A l \in locked : l.id # i
    PROVE  /\ drafts' \in [Ids -> Drafts]
           /\ locked' \in SUBSET [id : Ids, day : Nat, saved : Nat, lock : Nat]
           /\ OneLockPerMatch'
           /\ drafts' \in {drafts, [drafts EXCEPT ![i] = NoDraft]}
<1> DEFINE record == [id |-> i, day |-> drafts[i].day, saved |-> drafts[i].saved,
                      lock |-> EffectiveLock(drafts[i], row)]
<1>1. drafts[i] \in Drafts /\ NoDraft \in Drafts
  BY DEF TypeOK, Drafts, NoDraft
<1>2. record \in [id : Ids, day : Nat, saved : Nat, lock : Nat]
  BY <1>1, EffectiveLockBounds DEF Drafts
<1>3. locked' \in {locked, locked \cup {record}}
  BY DEF Freeze
<1>4. drafts' \in {drafts, [drafts EXCEPT ![i] = NoDraft]}
  BY DEF Freeze
<1>5. OneLockPerMatch'
  <2>1. record.id = i
    OBVIOUS
  <2> QED BY <1>3, <2>1 DEF OneLockPerMatch
<1> QED BY <1>1, <1>2, <1>3, <1>4, <1>5 DEF TypeOK

-------------------------------------------------------------------------------
(* Picks. *)

\* Nothing is stored yet.
LEMMA DayInit == Init => DayInv
<1> SUFFICES ASSUME Init PROVE DayInv
  OBVIOUS
<1> USE DEF Init, InitFixtures, InitPicks, InitForecasts
<1>1. TypeOK
  <2>1. gen \in Generations
    BY FixturesAssumption DEF Generations, Rows
  <2>2. drafts \in [Ids -> Drafts]
    BY DEF Drafts, NoDraft
  <2>3. feed \in [Sources -> Reports]
    BY DEF Reports, Nothing
  <2> QED BY <2>1, <2>2, <2>3 DEF TypeOK
<1> QED BY <1>1 DEF DayInv, Decided, Ungraded, Idle, OneLockPerMatch, OneRootPerId,
                    OneGradePerRoot

\* An attempt to save keeps the invariant: what it freezes was not locked, and what
\* it takes to the models it has decided.
LEMMA AttemptKeeps ==
    ASSUME DayInv, NEW c \in Calls, Attempt(c), UNCHANGED <<clock, gen, forecastVars>>,
           calls' \in SUBSET Calls
    PROVE  DayInv'
<1> DEFINE row == RowOf(c.id, gen)
<1> DEFINE d == drafts[c.id]
<1> DEFINE lock == IF d = NoDraft THEN row.kickoff ELSE EffectiveLock(d, row)
<1> USE DEF DayInv
<1>1. /\ c.id \in Ids /\ c.now \in Nat /\ d \in Drafts
      /\ row \in Rows \cup {Gone} /\ row.kickoff \in Nat
  BY RowOfType, RowTypes DEF Calls, TypeOK
<1>2. lock \in Nat /\ (row # Gone => lock <= row.kickoff)
  BY <1>1, EffectiveLockBounds
<1>3. OneRootPerId' /\ OneGradePerRoot'
  BY DEF OneRootPerId, OneGradePerRoot, forecastVars
<1>4. CASE busy' = Idle
  <2>1. \/ UNCHANGED <<drafts, locked>>
        \/ Freeze(c.id, row) /\ FindLocked(c.id, row) = {}
    BY <1>4 DEF Attempt, Idle
  <2>2. /\ drafts' \in [Ids -> Drafts]
        /\ locked' \in SUBSET [id : Ids, day : Nat, saved : Nat, lock : Nat]
        /\ OneLockPerMatch'
    <3>1. CASE UNCHANGED <<drafts, locked>>
      BY <3>1 DEF TypeOK, OneLockPerMatch
    <3>2. CASE Freeze(c.id, row) /\ FindLocked(c.id, row) = {}
      <4>1. \A l \in locked : l.id # c.id
        BY <3>2, NotFound
      <4> QED BY <1>1, <3>2, <4>1, FreezeAdds
    <3> QED BY <2>1, <3>1, <3>2
  <2>3. Decided' /\ Ungraded'
    BY <1>4 DEF Decided, Ungraded, Idle
  <2>4. TypeOK'
    BY <1>4, <2>2 DEF TypeOK, forecastVars
  <2> QED BY <1>3, <2>2, <2>3, <2>4
<1>5. CASE busy' # Idle
  <2> DEFINE draft == [day |-> IF d = NoDraft THEN Day(row.kickoff) ELSE d.day,
                       saved |-> c.now, lock |-> lock]
  <2>1. /\ row # Gone /\ ~row.complete /\ FindLocked(c.id, row) = {} /\ c.now < lock
        /\ busy' = [op |-> "save", call |-> c, seen |-> gen, draft |-> draft]
        /\ UNCHANGED <<drafts, locked>>
    BY <1>5 DEF Attempt
  <2>2. draft \in Drafts
    BY <1>1, <1>2, DayType DEF Drafts
  <2>3. TypeOK'
    <3>1. busy' \in Saving
      BY <2>1, <2>2 DEF Saving, TypeOK
    <3> QED BY <2>1, <3>1 DEF TypeOK, forecastVars
  <2>4. Decided'
    <3>1. \A l \in locked : l.id # c.id
      BY <2>1, NotFound
    <3>2. row = gen.row
      BY <1>1, <2>1, RowOfType DEF TypeOK
    <3>3. /\ busy'.call = c /\ busy'.seen = gen /\ busy'.draft = draft
          /\ draft.saved = c.now /\ draft.lock = lock
      BY <2>1
    <3> QED BY <1>2, <2>1, <3>1, <3>2, <3>3 DEF Decided, RowOf
  <2>5. Ungraded' /\ OneLockPerMatch'
    BY <2>1 DEF Ungraded, OneLockPerMatch
  <2> QED BY <1>3, <2>3, <2>4, <2>5
<1> QED BY <1>4, <1>5

\* An operation that holds no lock beyond its step, and writes no draft: the
\* records of one id stay one.
LEMMA LookKeeps ==
    ASSUME DayInv, NEW i \in Ids, Free, UNCHANGED <<clock, gen, busy, forecastVars>>,
           calls' \in SUBSET Calls,
           \/ UNCHANGED <<drafts, locked>>
           \/ drafts' = [drafts EXCEPT ![i] = NoDraft] /\ UNCHANGED locked
           \/ /\ \A l \in locked : l.id # i
              /\ \E row \in Rows \cup {Gone} : Freeze(i, row)
    PROVE  DayInv'
<1> USE DEF DayInv
<1>1. /\ drafts' \in [Ids -> Drafts]
      /\ locked' \in SUBSET [id : Ids, day : Nat, saved : Nat, lock : Nat]
      /\ OneLockPerMatch'
  <2>1. CASE UNCHANGED <<drafts, locked>>
    BY <2>1 DEF TypeOK, OneLockPerMatch
  <2>2. CASE drafts' = [drafts EXCEPT ![i] = NoDraft] /\ UNCHANGED locked
    <3>1. NoDraft \in Drafts
      BY DEF NoDraft, Drafts
    <3> QED BY <2>2, <3>1 DEF TypeOK, OneLockPerMatch
  <2>3. CASE /\ \A l \in locked : l.id # i
             /\ \E row \in Rows \cup {Gone} : Freeze(i, row)
    BY <2>3, FreezeAdds
  <2> QED BY <2>1, <2>2, <2>3
<1>2. TypeOK'
  BY <1>1 DEF TypeOK, forecastVars
<1>3. Decided' /\ Ungraded'
  BY DEF Free, Idle, Decided, Ungraded
<1>4. OneRootPerId' /\ OneGradePerRoot'
  BY DEF OneRootPerId, OneGradePerRoot, forecastVars
<1> QED BY <1>1, <1>2, <1>3, <1>4

\* Every request about picks keeps the invariant.
LEMMA PicksKeep ==
    ASSUME DayInv, PicksNext, UNCHANGED forecastVars
    PROVE  DayInv'
<1> USE DEF DayInv
<1>1. CASE Arrives
  <2>1. calls' \in SUBSET Calls
    BY <1>1 DEF Arrives, Calls, TypeOK
  <2> QED BY <1>1, <2>1 DEF Arrives, TypeOK, Decided, Ungraded, Successors, OneLockPerMatch,
               OneRootPerId, OneGradePerRoot, forecastVars
<1>2. CASE Get
  <2> PICK c \in calls :
         LET d == drafts[c.id]
             row == CurrentRow(c.id, d.day)
             found == FindLocked(c.id, RowOf(c.id, gen))
         IN  /\ calls' = calls \ {c}
             /\ \/ drafts' = [drafts EXCEPT ![c.id] = NoDraft] /\ UNCHANGED locked
                \/ found = {} /\ Freeze(c.id, row)
                \/ UNCHANGED <<drafts, locked>>
    BY <1>2 DEF Get
  <2>1. c.id \in Ids /\ CurrentRow(c.id, drafts[c.id].day) \in Rows \cup {Gone}
    BY DEF TypeOK, Calls, CurrentRow, Generations
  <2>2. calls' \in SUBSET Calls
    BY DEF TypeOK
  <2> QED BY <1>2, <2>1, <2>2, NotFound, LookKeeps DEF Get
<1>3. CASE Delete
  <2> PICK c \in calls :
         LET d == drafts[c.id]
             row == IF d = NoDraft THEN Gone ELSE CurrentRow(c.id, d.day)
         IN  /\ calls' = calls \ {c}
             /\ \/ UNCHANGED <<drafts, locked>>
                \/ FindLocked(c.id, row) = {} /\ Freeze(c.id, row)
                \/ drafts' = [drafts EXCEPT ![c.id] = NoDraft] /\ UNCHANGED locked
    BY <1>3 DEF Delete
  <2>1. /\ c.id \in Ids
        /\ (IF drafts[c.id] = NoDraft THEN Gone ELSE CurrentRow(c.id, drafts[c.id].day))
               \in Rows \cup {Gone}
    BY DEF TypeOK, Calls, CurrentRow, Generations
  <2>2. calls' \in SUBSET Calls
    BY DEF TypeOK
  <2> QED BY <1>3, <2>1, <2>2, NotFound, LookKeeps DEF Delete
<1>4. CASE SaveBegins
  <2> PICK c \in calls : calls' = calls \ {c} /\ Attempt(c)
    BY <1>4 DEF SaveBegins
  <2>1. c \in Calls /\ calls' \in SUBSET Calls
    BY DEF TypeOK
  <2> QED BY <1>4, <2>1, AttemptKeeps DEF SaveBegins
<1>5. CASE SaveCommits
  <2>1. busy \in Saving
    BY <1>5 DEF SaveCommits, TypeOK, Idle, Sealing, Settling
  <2>2. drafts' \in [Ids -> Drafts]
    BY <1>5, <2>1 DEF SaveCommits, TypeOK, Saving, Calls
  <2> QED BY <1>5, <2>2 DEF SaveCommits, TypeOK, Decided, Ungraded, Idle, OneLockPerMatch,
               OneRootPerId, OneGradePerRoot, forecastVars
<1>6. CASE SaveRetries
  <2>1. busy.call \in Calls
    BY <1>6 DEF SaveRetries, TypeOK, Idle, Saving, Sealing, Settling
  <2> QED BY <1>6, <2>1, AttemptKeeps DEF SaveRetries, TypeOK
<1>7. CASE SaveGivesUp
  BY <1>7 DEF SaveGivesUp, TypeOK, Decided, Ungraded, Idle, OneLockPerMatch,
              OneRootPerId, OneGradePerRoot, forecastVars
<1> QED BY <1>1, <1>2, <1>3, <1>4, <1>5, <1>6, <1>7 DEF PicksNext

-------------------------------------------------------------------------------
(* Forecasts. *)

\* A settlement asks a source: only what it read of the sources changes.
LEMMA FetchKeeps ==
    ASSUME DayInv, NEW s \in Sources, FetchOk(s) \/ FetchFails(s), UNCHANGED pickVars
    PROVE  DayInv'
<1> USE DEF DayInv
<1>1. busy \in Settling
  BY DEF FetchOk, FetchFails, Asks, TypeOK, Idle, Saving, Sealing
<1>2. busy' \in Settling /\ busy'.todo = busy.todo
  <2>1. busy.asked \cup {s} \in SUBSET Sources
    BY <1>1 DEF Settling
  <2>2. [busy.read EXCEPT ![s] = feed[s]] \in [Sources -> Reports]
    BY <1>1 DEF Settling, TypeOK
  <2>3. CASE FetchOk(s)
    <3>1. busy' = [busy EXCEPT !.asked = busy.asked \cup {s},
                               !.read = [busy.read EXCEPT ![s] = feed[s]]]
      BY <1>1, <2>3 DEF FetchOk, Settling
    <3> QED BY <1>1, <2>1, <2>2, <3>1 DEF Settling
  <2>4. CASE FetchFails(s)
    BY <1>1, <2>1, <2>4 DEF FetchFails, Settling
  <2> QED BY <2>3, <2>4
<1>3. UNCHANGED <<clock, gen, roots, scored, feed, drafts, locked, calls>>
  BY DEF FetchOk, FetchFails, pickVars
<1>4. busy.op = "settle" /\ busy'.op = "settle"
  BY <1>1, <1>2 DEF Settling
<1> QED BY <1>2, <1>3, <1>4 DEF TypeOK, Decided, Ungraded, Successors, OneLockPerMatch,
             OneRootPerId, OneGradePerRoot

\* Seals and settlements keep the invariant.
LEMMA ForecastsKeep ==
    ASSUME DayInv, ForecastsNext, UNCHANGED pickVars
    PROVE  DayInv'
<1> USE DEF DayInv
<1>1. CASE SealStarts
  <2>1. busy' \in Sealing
    <3>1. PICK i \in Ids : /\ RowOf(i, gen) # Gone
                           /\ busy' = [op |-> "seal", id |-> i, now |-> clock,
                                       day |-> Day(RowOf(i, gen).kickoff)]
      BY <1>1 DEF SealStarts
    <3>2. RowOf(i, gen).kickoff \in Nat
      BY RowOfType, RowTypes DEF TypeOK
    <3> QED BY <3>1, <3>2, DayType DEF Sealing, TypeOK
  <2> QED BY <1>1, <2>1 DEF SealStarts, TypeOK, Sealing, Decided, Ungraded, OneLockPerMatch,
               OneRootPerId, OneGradePerRoot, pickVars
<1>2. CASE SealBuilds
  <2>1. busy \in Sealing
    BY <1>2 DEF SealBuilds, TypeOK, Idle, Saving, Settling
  <2>2. \/ UNCHANGED roots
        \/ /\ Existing(busy.id) = {} /\ RowOf(busy.id, gen) # Gone
           /\ \E abstained \in BOOLEAN :
                 roots' = roots \cup {[id |-> busy.id, kick |-> RowOf(busy.id, gen).kickoff,
                                       at |-> gen.at, asOf |-> busy.now,
                                       abstained |-> abstained]}
    BY <1>2 DEF SealBuilds
  <2>3. roots' \in SUBSET Seals /\ OneRootPerId'
    <3>1. CASE UNCHANGED roots
      BY <3>1 DEF TypeOK, OneRootPerId
    <3>2. ASSUME Existing(busy.id) = {}, RowOf(busy.id, gen) # Gone, NEW abstained \in BOOLEAN,
                 roots' = roots \cup {[id |-> busy.id, kick |-> RowOf(busy.id, gen).kickoff,
                                       at |-> gen.at, asOf |-> busy.now,
                                       abstained |-> abstained]}
          PROVE  roots' \in SUBSET Seals /\ OneRootPerId'
      <4> DEFINE new == [id |-> busy.id, kick |-> RowOf(busy.id, gen).kickoff,
                         at |-> gen.at, asOf |-> busy.now, abstained |-> abstained]
      <4>1. new \in Seals
        BY <2>1, RowOfType, RowTypes DEF Sealing, Seals, TypeOK, Generations
      <4>2. new.id = busy.id /\ \A r \in roots : r.id # busy.id
        BY <3>2 DEF Existing
      <4>3. roots' = roots \cup {new}
        BY <3>2
      <4> HIDE DEF new
      <4> QED BY <4>1, <4>2, <4>3 DEF TypeOK, OneRootPerId
    <3> QED BY <2>2, <3>1, <3>2
  <2> QED BY <1>2, <2>3 DEF SealBuilds, TypeOK, Decided, Ungraded, Idle, OneLockPerMatch,
               OneGradePerRoot, pickVars
<1>3. CASE SourcePublishes
  <2>1. PICK s \in Sources, d \in {Day(k) : k \in Kickoffs}, x \in Results :
            feed' = [feed EXCEPT ![s] = [day |-> d, result |-> x, at |-> clock]]
    BY <1>3 DEF SourcePublishes
  <2>2. d \in Nat
    BY FixturesAssumption, DayType
  <2>3. feed' \in [Sources -> Reports]
    BY <2>1, <2>2 DEF TypeOK, Reports
  <2> QED BY <1>3, <2>3 DEF SourcePublishes, TypeOK, Decided, Ungraded, Successors,
               OneLockPerMatch, OneRootPerId, OneGradePerRoot, pickVars
<1>4. CASE SettleStarts
  <2>1. busy' \in Settling /\ busy'.todo = Eligible(clock)
    <3>1. Eligible(clock) \in SUBSET Seals
      BY DEF Eligible, Pending, TypeOK
    <3>2. [s \in Sources |-> NotRead] \in [Sources -> Reports]
      BY DEF NotRead, Reports
    <3> QED BY <1>4, <3>1, <3>2 DEF SettleStarts, Settling
  <2>2. \A r \in busy'.todo : Successors(r) = {}
    BY <2>1 DEF Eligible, Pending
  <2> QED BY <1>4, <2>1, <2>2 DEF SettleStarts, TypeOK, Settling, Decided, Ungraded,
               Successors, OneLockPerMatch, OneRootPerId, OneGradePerRoot, pickVars
<1>5. CASE Grade
  <2>1. busy \in Settling
    BY <1>5 DEF Grade, TypeOK, Idle, Saving, Sealing
  <2>2. PICK r \in busy.todo :
           /\ busy' = [busy EXCEPT !.todo = @ \ {r}]
           /\ \/ UNCHANGED scored
              \/ \E o \in Observed(r) :
                    scored' = scored \cup {[root |-> r, result |-> o.result, at |-> o.at]}
    BY <1>5 DEF Grade
  <2>3. busy' \in Settling /\ busy'.todo = busy.todo \ {r}
    BY <2>1, <2>2 DEF Settling
  <2>4. CASE UNCHANGED scored
    BY <1>5, <2>1, <2>3, <2>4 DEF Grade, TypeOK, Settling, Decided, Ungraded, Successors,
       OneLockPerMatch, OneRootPerId, OneGradePerRoot, pickVars
  <2>5. ASSUME NEW o \in Observed(r),
               scored' = scored \cup {[root |-> r, result |-> o.result, at |-> o.at]}
        PROVE  DayInv'
    <3> DEFINE grade == [root |-> r, result |-> o.result, at |-> o.at]
    <3>1. grade \in Grades /\ grade.root = r
      BY <2>1 DEF Observed, Settling, Reports, Grades
    <3>2. \A s \in scored : s.root # r
      BY <2>1 DEF Ungraded, Successors, Settling
    <3>3. scored' = scored \cup {grade}
      BY <2>5
    <3> HIDE DEF grade
    <3>4. OneGradePerRoot'
      BY <3>1, <3>2, <3>3 DEF OneGradePerRoot
    <3>5. Ungraded'
      BY <2>1, <2>3, <3>1, <3>3 DEF Ungraded, Successors, Settling
    <3>6. TypeOK'
      BY <1>5, <2>3, <3>1, <3>3 DEF Grade, TypeOK, pickVars
    <3> QED BY <1>5, <2>3, <3>4, <3>5, <3>6 DEF Grade, Settling, Decided, OneLockPerMatch,
                 OneRootPerId, pickVars
  <2> QED BY <2>2, <2>4, <2>5
<1>6. CASE SettleEnds
  BY <1>6 DEF SettleEnds, TypeOK, Decided, Ungraded, Idle, OneLockPerMatch, OneRootPerId,
              OneGradePerRoot, pickVars
<1>7. CASE \E s \in Sources : FetchOk(s) \/ FetchFails(s)
  BY <1>7, FetchKeeps
<1> QED BY <1>1, <1>2, <1>3, <1>4, <1>5, <1>6, <1>7 DEF ForecastsNext, Settles

-------------------------------------------------------------------------------
(* Both, with time, refreshes and deaths. *)

\* Every step keeps the invariant.
LEMMA DayStep == DayInv /\ [Next]_vars => DayInv'
<1> SUFFICES ASSUME DayInv, [Next]_vars PROVE DayInv'
  OBVIOUS
<1> USE DEF DayInv
<1>1. CASE (Tick \/ Publish) /\ UNCHANGED <<pickVars, forecastVars>>
  <2>1. clock' \in Nat /\ gen' \in Generations /\ UNCHANGED busy
    BY <1>1 DEF Tick, Publish, TypeOK, Generations
  <2> QED BY <1>1, <2>1 DEF TypeOK, Decided, Ungraded, Successors, OneLockPerMatch,
               OneRootPerId, OneGradePerRoot, pickVars, forecastVars
<1>2. CASE PicksNext /\ UNCHANGED forecastVars
  BY <1>2, PicksKeep
<1>3. CASE ForecastsNext /\ UNCHANGED pickVars
  BY <1>3, ForecastsKeep
<1>4. CASE Dies
  BY <1>4 DEF Dies, TypeOK, Decided, Ungraded, Idle, OneLockPerMatch, OneRootPerId,
              OneGradePerRoot
<1>5. CASE UNCHANGED vars
  BY <1>5 DEF vars, TypeOK, Decided, Ungraded, Successors, OneLockPerMatch, OneRootPerId,
              OneGradePerRoot
<1> QED BY <1>1, <1>2, <1>3, <1>4, <1>5 DEF Next

LEMMA DayInvariant == Spec => []DayInv
<1> QED BY DayInit, DayStep, PTL DEF Spec

\* A set of which all members are equal has one at most.
LEMMA AtMostOne ==
    ASSUME NEW S, \A x, y \in S : x = y
    PROVE  Cardinality(S) <= 1
<1>1. CASE S = {}
  BY <1>1, FS_EmptySet
<1>2. CASE S # {}
  <2>1. PICK x \in S : TRUE
    BY <1>2
  <2>2. S = {x}
    BY <2>1
  <2> QED BY <2>2, FS_Singleton
<1> QED BY <1>1, <1>2

(***************************************************************************)
(* One record for one thing: a match id is locked once, a match has one    *)
(* root and a root one successor (picks.py, get_pick and _find_locked;     *)
(* seal.py, _existing_seal; settlement.py, the pending filter).            *)
(***************************************************************************)
THEOREM LedgerNeverSplits == Spec => []NothingSplits
<1>1. DayInv => NothingSplits
  <2> SUFFICES ASSUME DayInv PROVE NothingSplits
    OBVIOUS
  <2>1. ASSUME NEW r \in roots PROVE Cardinality(Successors(r)) <= 1
    BY AtMostOne DEF DayInv, OneGradePerRoot, Successors
  <2> QED BY <2>1 DEF DayInv, OneRootPerId, NothingSplits, OneHistory
<1> QED BY <1>1, DayInvariant, PTL

(***************************************************************************)
(* A save writes only for a fixture that, as published at that moment, has *)
(* no result and kicks off after the request, and whose pick is not locked *)
(* (picks.py, save_pick under apply_if_snapshot_current).                  *)
(***************************************************************************)
THEOREM PicksAreInTime == Spec => NoPickAfterKickoff
<1> DEFINE InTime ==
        \A i \in Ids :
            drafts'[i] \notin {drafts[i], NoDraft}
             => /\ RowOf(i, gen) # Gone
                /\ ~gen.row.complete
                /\ drafts'[i].saved < drafts'[i].lock
                /\ drafts'[i].lock <= gen.row.kickoff
                /\ \A l \in locked : l.id # i
<1>1. DayInv /\ [Next]_vars => InTime \/ UNCHANGED <<drafts, locked, gen>>
  <2> SUFFICES ASSUME DayInv, Next, NEW i \in Ids, drafts'[i] \notin {drafts[i], NoDraft}
               PROVE  /\ RowOf(i, gen) # Gone
                      /\ ~gen.row.complete
                      /\ drafts'[i].saved < drafts'[i].lock
                      /\ drafts'[i].lock <= gen.row.kickoff
                      /\ \A l \in locked : l.id # i
    BY DEF vars
  <2>1. ASSUME NEW j, NEW row, Freeze(j, row) PROVE FALSE
    BY <2>1 DEF Freeze, DayInv, TypeOK
  <2>2. SaveCommits
    BY <2>1 DEF Next, pickVars, PicksNext, Dies, Arrives, Get, Delete, SaveBegins, SaveRetries,
       SaveGivesUp, Attempt, DayInv, TypeOK
  <2>3. busy.call.id = i /\ drafts'[i] = busy.draft /\ gen = busy.seen
    BY <2>2 DEF SaveCommits, DayInv, TypeOK
  <2> QED BY <2>2, <2>3 DEF SaveCommits, DayInv, Decided
<1> QED BY <1>1, DayInvariant, PTL DEF Spec, NoPickAfterKickoff
===============================================================================
