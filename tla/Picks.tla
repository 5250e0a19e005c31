------------------------------- MODULE Picks -------------------------------
(***************************************************************************)
(* The user's predictions (server/golavo_server/picks.py).                 *)
(*                                                                         *)
(* A prediction is a draft, kept under its match id, until the kickoff; the *)
(* next operation that looks at it freezes it: the locked record is written *)
(* under its content's hash, and the draft removed.  No timer does it.     *)
(* The kickoff that counts is the earlier of the one the draft remembers   *)
(* and the one the active generation shows.                                *)
(*                                                                         *)
(* A request reads the clock when it arrives and then waits for the lock.  *)
(* Saving fits the models between its checks and its write, and a          *)
(* generation may be published meanwhile; the write is refused if it was,  *)
(* and the checks are made again with the time of the request.             *)
(*                                                                         *)
(* A prediction is known by the time of its request; its goals, its        *)
(* rivals, the files' hashes and the audit log, which nothing reads, are   *)
(* left out.  list_picks and picks_summary are get_pick for every id.      *)
(***************************************************************************)
EXTENDS Fixtures, FiniteSets

VARIABLES drafts,  \* drafts/<id>.json
          locked,  \* pk_<hash>.json
          calls    \* the requests that wait for the lock

pickVars == <<drafts, locked, calls>>

-----------------------------------------------------------------------------

NoDraft == [day |-> 0, saved |-> 0, lock |-> 0]

Smaller(a, b) == IF a < b THEN a ELSE b

InitPicks ==
    /\ drafts = [i \in Ids |-> NoDraft]
    /\ locked = {}
    /\ calls = {}

\* The row a saved prediction is about: by its id, or by its date and teams.
CurrentRow(i, day) ==
    IF gen.row.id = i \/ (gen.row # Gone /\ Day(gen.row.kickoff) = day) THEN gen.row ELSE Gone

\* Mutant: an id that the index does not have is looked up by date only.
FindLockedByDate(i, row) ==
    {l \in locked : row # Gone /\ l.day = Day(row.kickoff)}

\* The locked records an operation on an id finds, given the row it looks at.
FindLocked(i, row) ==
    {l \in locked : l.id = i \/ (row # Gone /\ l.day = Day(row.kickoff))}

EffectiveLock(d, row) ==
    IF row = Gone THEN d.lock ELSE Smaller(d.lock, row.kickoff)

\* The draft of an id is frozen.  A file that cannot be written leaves the draft
\* where it is, and the answer shows a locked pick all the same; a process that
\* dies, or a draft that cannot be removed, leaves both files.
Freeze(i, row) ==
    LET d == drafts[i]
        record == [id |-> i, day |-> d.day, saved |-> d.saved, lock |-> EffectiveLock(d, row)]
    IN \/ /\ locked' = locked \cup {record}
          /\ drafts' = [drafts EXCEPT ![i] = NoDraft]
          /\ UNCHANGED left
       \/ /\ locked' = locked \cup {record}
          /\ Spend("fault")
          /\ UNCHANGED drafts
       \/ Spend("fault") /\ UNCHANGED <<drafts, locked>>

-----------------------------------------------------------------------------

\* A request arrives: the route reads the clock, then waits for a thread and the
\* lock.
Arrives ==
    /\ Spend("pick")
    /\ \E op \in {"get", "save", "delete"}, i \in Ids :
          calls' = calls \cup {[op |-> op, id |-> i, now |-> clock]}
    /\ UNCHANGED <<clock, gen, busy, drafts, locked>>

\* Reading a pick: a locked one wins over a draft that was left behind, and a
\* draft whose time has come is frozen.
Get ==
    /\ Free
    /\ \E c \in calls :
          LET d == drafts[c.id]
              row == CurrentRow(c.id, d.day)
              found == FindLocked(c.id, RowOf(c.id, gen))
          IN /\ c.op = "get"
             /\ calls' = calls \ {c}
             /\ \/ /\ found # {}
                   /\ drafts' = [drafts EXCEPT ![c.id] = NoDraft]
                   /\ UNCHANGED <<locked, left>>
                \/ /\ found = {}
                   /\ d # NoDraft
                   /\ c.now >= EffectiveLock(d, row)
                   /\ Freeze(c.id, row)
                \/ /\ found = {}
                   /\ d # NoDraft => c.now < EffectiveLock(d, row)
                   /\ UNCHANGED <<drafts, locked, left>>
    /\ UNCHANGED <<clock, gen, busy>>

\* One attempt to save: refused; too late, which freezes the draft; or on to the
\* models, with the generation it was decided on.
Attempt(c) ==
    LET row == RowOf(c.id, gen)
        d == drafts[c.id]
        lock == IF d = NoDraft THEN row.kickoff ELSE EffectiveLock(d, row)
    IN \/ /\ row = Gone \/ row.complete \/ FindLocked(c.id, row) # {}
          /\ busy' = Idle
          /\ UNCHANGED <<drafts, locked, left>>
       \/ /\ row # Gone /\ ~row.complete /\ FindLocked(c.id, row) = {}
          /\ c.now >= lock
          /\ busy' = Idle
          /\ IF d = NoDraft THEN UNCHANGED <<drafts, locked, left>> ELSE Freeze(c.id, row)
       \/ /\ row # Gone /\ ~row.complete /\ FindLocked(c.id, row) = {}
          /\ c.now < lock
          /\ busy' = [op |-> "save", call |-> c, seen |-> gen,
                      draft |-> [day |-> IF d = NoDraft THEN Day(row.kickoff) ELSE d.day,
                                 saved |-> c.now, lock |-> lock]]
          /\ UNCHANGED <<drafts, locked, left>>

SaveBegins ==
    /\ Free
    /\ \E c \in calls :
          /\ c.op = "save"
          /\ calls' = calls \ {c}
          /\ Attempt(c)
    /\ UNCHANGED <<clock, gen>>

\* Mutant: the draft is written whatever became of the generation.
SaveAlwaysCommits ==
    /\ busy.op = "save"
    /\ drafts' = [drafts EXCEPT ![busy.call.id] = busy.draft]
    /\ busy' = Idle
    /\ UNCHANGED <<clock, gen, left, locked, calls>>

\* The draft is written, under the lock that publishes generations.
SaveCommits ==
    /\ busy.op = "save"
    /\ gen = busy.seen
    /\ drafts' = [drafts EXCEPT ![busy.call.id] = busy.draft]
    /\ busy' = Idle
    /\ UNCHANGED <<clock, gen, left, locked, calls>>

\* The generation changed: the same request tries again.
SaveRetries ==
    /\ busy.op = "save"
    /\ gen # busy.seen
    /\ Attempt(busy.call)
    /\ UNCHANGED <<clock, gen, calls>>

\* The models are not available, or the generation changed a third time.
SaveGivesUp ==
    /\ busy.op = "save"
    /\ busy' = Idle
    /\ UNCHANGED <<clock, gen, left, drafts, locked, calls>>

\* Deleting a pick; one whose time has come is frozen instead.
Delete ==
    /\ Free
    /\ \E c \in calls :
          LET d == drafts[c.id]
              row == IF d = NoDraft THEN Gone ELSE CurrentRow(c.id, d.day)
          IN /\ c.op = "delete"
             /\ calls' = calls \ {c}
             /\ \/ /\ FindLocked(c.id, row) # {} \/ d = NoDraft
                   /\ UNCHANGED <<drafts, locked, left>>
                \/ /\ FindLocked(c.id, row) = {} /\ d # NoDraft
                   /\ c.now >= EffectiveLock(d, row)
                   /\ Freeze(c.id, row)
                \/ /\ FindLocked(c.id, row) = {} /\ d # NoDraft
                   /\ c.now < EffectiveLock(d, row)
                   /\ drafts' = [drafts EXCEPT ![c.id] = NoDraft]
                   /\ UNCHANGED <<locked, left>>
    /\ UNCHANGED <<clock, gen, busy>>

PicksNext == \/ Arrives \/ Get \/ Delete
             \/ SaveBegins \/ SaveCommits \/ SaveRetries \/ SaveGivesUp

-----------------------------------------------------------------------------
(* Properties *)

\* A prediction is accepted only for a fixture which, as published at the moment
\* of the write, has no result and kicks off after the request, and whose pick
\* was not locked; and it will lock no later than that kickoff (save_pick, the
\* attempt and the write under apply_if_snapshot_current).
NoPickAfterKickoff ==
    [][\A i \in Ids :
          drafts'[i] \notin {drafts[i], NoDraft}
             => /\ RowOf(i, gen) # Gone
                /\ ~gen.row.complete
                /\ drafts'[i].saved < drafts'[i].lock
                /\ drafts'[i].lock <= gen.row.kickoff
                /\ \A l \in locked : l.id # i]_<<drafts, locked, gen>>

\* A match id has one locked pick, whatever was left behind by a crash or a
\* failed write and however the fixture was moved (get_pick's repair, the
\* precedence of the id in _find_locked).
OneLockPerMatch == \A l, m \in locked : l.id = m.id => l = m

\* Not an invariant.  A fixture that changed its id may be locked, and counted
\* in the season, under both: the draft under the old id is not found by the
\* operations on the new one, nor the record frozen from it if the date moved.
OneLockPerFixture == Cardinality(locked) <= 1

\* Not an invariant.  The fixture is brought forward behind a prediction that was
\* made before, and the locked record claims a time before it was made.
LockedAfterSaving == \A l \in locked : l.saved < l.lock

\* Not an invariant.  A request that waited for the lock writes after the kickoff
\* with the time it arrived at.
NoLateWrite ==
    [][\A i \in Ids : drafts'[i] \notin {drafts[i], NoDraft}
                          => clock < drafts'[i].lock]_<<drafts, clock>>
=============================================================================
