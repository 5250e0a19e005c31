-------------------------------- MODULE Follows --------------------------------
(***************************************************************************)
(* Followed matches (follows.py): the SQLite store of follows and their    *)
(* events, the reconciliation of the store with the active match index by  *)
(* the refresh worker (refresh_jobs.py) and by the window (main.py,        *)
(* follow-context.tsx), the delivery of notifications, and the report of a *)
(* settlement.                                                             *)
(*                                                                         *)
(* A generation is an index: a row or nothing for each match id.  The      *)
(* pointer to the active generation moves before the index that requests   *)
(* read; the reference and the generation named in an event come from the  *)
(* pointer.  All matches come from one source.  The venue of a row, which  *)
(* is compared like the kickoff, the read marks, the times and the         *)
(* identities table, which only the export reads, are left out.            *)
(***************************************************************************)
EXTENDS Naturals, Sequences, FiniteSets

CONSTANTS
    Matches,      \* match ids
    NoMatch,
    First,        \* the match of the bundled index
    FirstKickoff, \* its kickoff there
    Key,          \* the stable upstream key of each match, or NoKey
    NoKey,
    Teams,        \* the two teams of each match
    Kickoffs,
    Results,      \* final scores
    MaxFollows,   \* bound: follows ever created
    MaxEvents     \* bound: activations, rollbacks, checks, acts of the user and
                  \* restarts, together

ASSUME FollowAssumption ==
    /\ First \in Matches /\ NoMatch \notin Matches /\ FirstKickoff \in Kickoffs
    /\ MaxFollows \in Nat \ {0}

VARIABLES
    gens,      \* the generations built so far, each an index
    pointer,   \* the generation the pointer names
    frame,     \* the generation of the index in memory
    epoch,     \* how often the index was repointed
    health,    \* health of the source in the refresh state
    follow,    \* the followed_matches rows, numbered in order of creation
    events,    \* the follow_events rows: identity -> notification status
    opted,     \* notifications_opt_in
    seal,      \* the one forecast artifact of the ledger
    report,    \* a settlement that has not been told to the follow store
    worker,    \* the refresh worker
    rolling,   \* a rollback has moved the pointer, not yet the index
    window,    \* the window: a reconciliation, then a delivery
    sent,      \* history: how often each event was submitted to the operating system
    moved,     \* history: what moved the pointer last
    stuck,     \* history: the last reconciliation raised
    left       \* how many of MaxEvents are left

data == <<gens, pointer, frame, epoch>>
store == <<follow, events, opted>>
followVars == <<data, health, store, seal, report, worker, rolling, window,
          sent, moved, stuck, left>>

Gone == [kickoff |-> 0, result |-> "gone"]
Rows == [kickoff : Kickoffs, result : Results \cup {"none"}]
Complete(row) == row.result # "none"

Ids == 1 .. MaxFollows
NoFollow == [state |-> "none", match |-> NoMatch, snap |-> Gone, data |-> "current", resolved |-> TRUE]
ActiveFollows == {f \in Ids : follow[f].state = "active"}

\* What a request knows of the active generation before it takes the store.
Seen == [epoch |-> epoch, frame |-> frame, ref |-> pointer, health |-> health]
Spend == left > 0 /\ left' = left - 1
NoWork == [at |-> "idle"]

\* The window hears that a generation may have changed.  While it reconciles or
\* delivers, it does not listen.
Told == IF window.at = "idle" THEN [at |-> "reconciling"] ELSE window

-----------------------------------------------------------------------------
(* Events *)

Silent == {"followed", "refollowed", "unfollowed"}

\* The identity of an event.  The time is not part of it, and neither is the
\* generation when the source has a reference.
Event(f, type, ref, before, after) ==
    [follow |-> f, type |-> type, ref |-> ref, before |-> before, after |-> after]

\* INSERT OR IGNORE: an event that is there keeps its notification status.
Insert(new) ==
    events' = [e \in DOMAIN events \cup new |->
                  IF e \in DOMAIN events THEN events[e]
                  ELSE IF opted /\ e.type \notin Silent THEN "pending" ELSE "not_eligible"]

-----------------------------------------------------------------------------
(* Reconciliation *)

\* The row a follow is compared with: its own match id, or the only one with
\* the same stable key.
Target(f, index) ==
    LET own == follow[f].match
        same == {m \in Matches : index[m] # Gone /\ Key[own] # NoKey /\ Key[m] = Key[own]}
    IN IF index[own] # Gone THEN own
       ELSE IF Cardinality(same) = 1 THEN CHOOSE m \in same : TRUE
       ELSE NoMatch

DataState(row, h) ==
    IF h = "conflict" THEN "source_conflict"
    ELSE IF h = "offline" THEN "source_unavailable"
    ELSE IF Complete(row) THEN "completed" ELSE "current"

Unhealthy == {"source_conflict", "source_unavailable"}

\* Whether the index shows the sealed forecast at a row: by the match id, or by
\* the date and the teams.
SealedAt(m, row) ==
    seal.status = "sealed" /\ (seal.match = m \/ (Teams[seal.match] = Teams[m] /\ seal.kickoff = row.kickoff))

\* Mutant: a repointed follow is not compared further.
ChangesUnlessRepointed(f, seen) ==
    LET m == Target(f, gens[seen.frame])
        old == follow[f]
        row == gens[seen.frame][m]
    IN IF m = NoMatch
       THEN {Event(f, "identity_unresolved", seen.ref, [match |-> old.match], [match |-> NoMatch])}
       ELSE IF m # old.match
       THEN {Event(f, "match_repointed", seen.ref, [match |-> old.match], [match |-> m])}
       ELSE {Event(f, "kickoff_changed", seen.ref, [kickoff |-> old.snap.kickoff],
                   [kickoff |-> row.kickoff])}
            \cup {Event(f, "score_published", seen.ref, [result |-> old.snap.result],
                        [result |-> row.result])}

\* The events of one follow when it is compared with the index of a request.
Changes(f, seen) ==
    LET index == gens[seen.frame]
        m == Target(f, index)
        old == follow[f]
        row == index[m]
        state == DataState(row, seen.health)
        E(type, before, after) == {Event(f, type, seen.ref, before, after)}
    IN IF m = NoMatch
       THEN E("identity_unresolved", [match |-> old.match], [match |-> NoMatch])
       ELSE (IF m # old.match
             THEN E("match_repointed", [match |-> old.match], [match |-> m]) ELSE {})
            \cup
            (IF row.kickoff # old.snap.kickoff
             THEN E("kickoff_changed", [kickoff |-> old.snap.kickoff], [kickoff |-> row.kickoff]) ELSE {})
            \cup
            (IF row.result # old.snap.result /\ Complete(row)
             THEN E("score_published", [result |-> old.snap.result], [result |-> row.result]) ELSE {})
            \cup
            (IF state \in Unhealthy \/ old.data \in Unhealthy
             THEN E(IF state \in Unhealthy THEN state ELSE "source_recovered",
                    [data |-> old.data], [data |-> state]) ELSE {})
            \cup
            (IF /\ state = "completed"
                /\ SealedAt(m, row)
                /\ \A e \in DOMAIN events :
                      ~(e.follow = f /\ e.type = "settlement_available" /\ e.after = [result |-> row.result])
             THEN E("settlement_available", [result |-> "none"], [result |-> row.result]) ELSE {})

\* Mutant: an unresolved follow is not compared again.
ComparedUnlessUnresolved(f, seen) ==
    IF follow[f].resolved /\ Target(f, gens[seen.frame]) # NoMatch
    THEN [state |-> "active", match |-> Target(f, gens[seen.frame]),
          snap |-> gens[seen.frame][Target(f, gens[seen.frame])],
          data |-> DataState(gens[seen.frame][Target(f, gens[seen.frame])], seen.health),
          resolved |-> TRUE]
    ELSE [follow[f] EXCEPT !.resolved = FALSE, !.data = "stale"]

\* The row of a follow after it was compared.
Compared(f, seen) ==
    LET index == gens[seen.frame]
        m == Target(f, index)
    IN IF m = NoMatch
       THEN [follow[f] EXCEPT !.resolved = FALSE, !.data = "stale"]
       ELSE [state |-> "active", match |-> m, snap |-> index[m],
             data |-> DataState(index[m], seen.health), resolved |-> TRUE]

\* Two active follows of one match violate the unique index of the table.
Clash(seen) ==
    \E f, g \in ActiveFollows :
        /\ f # g
        /\ Target(f, gens[seen.frame]) = Target(g, gens[seen.frame])
        /\ Target(f, gens[seen.frame]) # NoMatch

\* apply_if_snapshot_current: the transaction commits only if the index was not
\* repointed since the request read it.
Current(seen) == seen.epoch = epoch

\* reconcile, one transaction over all active follows.
Reconcile(seen) ==
    /\ follow' = [f \in Ids |-> IF f \in ActiveFollows THEN Compared(f, seen) ELSE follow[f]]
    /\ Insert(UNION {Changes(f, seen) : f \in ActiveFollows})
    /\ UNCHANGED opted
    /\ stuck' = FALSE

-----------------------------------------------------------------------------
(* The refresh worker *)

\* A job activates a generation: a new one, or one built again after a rollback.
Successors ==
    LET index == gens[pointer]
        listed == {m \in Matches : index[m] # Gone}
    IN {[index EXCEPT ![m].kickoff = t] : m \in listed, t \in Kickoffs}
       \cup {[index EXCEPT ![m].result = r] : m \in listed, r \in Results}
       \cup {[index EXCEPT ![m] = Gone] : m \in listed}
       \cup {[index EXCEPT ![m] = Gone, ![n] = index[m]] : m \in listed, n \in Matches \ listed}

WorkerActivates ==
    /\ worker.at = "idle"
    /\ Spend
    /\ \/ \E index \in Successors \ {gens[pointer]} :
             /\ gens' = Append(gens, index)
             /\ pointer' = Len(gens) + 1
       \/ /\ pointer < Len(gens)
          /\ pointer' = pointer + 1
          /\ UNCHANGED gens
    /\ health' = "current"
    /\ worker' = [at |-> "repointing", ref |-> pointer']
    /\ moved' = "activation"
    /\ UNCHANGED <<frame, epoch, store, seal, report, rolling, window, sent, stuck>>

\* repoint_to_refreshed: the index follows the pointer as it is now.
Repoint == frame' = pointer /\ epoch' = epoch + 1

WorkerRepoints ==
    /\ worker.at = "repointing"
    /\ Repoint
    /\ worker' = [at |-> "reconciling", ref |-> worker.ref, activated |-> TRUE]
    /\ UNCHANGED <<gens, pointer, health, store, seal, report, rolling, window, sent, moved, stuck, left>>

\* A job that activates nothing: the source is offline, conflicts about one
\* match (record_conflicts), is fine again, or has a newer revision that a
\* check only reports (record_source_revisions).
Conflicts(m) ==
    {Event(f, "source_conflict", pointer + 1, follow[f].snap, [match |-> m]) :
        f \in {g \in ActiveFollows : follow[g].match = m}}

WorkerChecks ==
    /\ worker.at = "idle"
    /\ Spend
    /\ \/ /\ health' \in {"offline", "current"}
          /\ UNCHANGED <<follow, events>>
       \/ /\ health' = "current"
          /\ Insert({Event(f, "source_revision_available", pointer + 1,
                           [ref |-> pointer], [ref |-> pointer + 1]) : f \in ActiveFollows})
          /\ UNCHANGED follow
       \/ \E m \in Matches :
             /\ health' = "conflict"
             /\ Insert(Conflicts(m))
             /\ follow' = [f \in Ids |-> IF f \in ActiveFollows /\ follow[f].match = m
                                         THEN [follow[f] EXCEPT !.data = "source_conflict"]
                                         ELSE follow[f]]
    /\ worker' = [at |-> "reconciling", ref |-> pointer, activated |-> FALSE]
    /\ UNCHANGED <<data, opted, seal, report, rolling, window, sent, moved, stuck>>

\* The job names the reference of its own refresh state, whatever a rollback has
\* done to the pointer meanwhile.
WorkerSeen == [Seen EXCEPT !.ref = worker.ref]

\* _reconcile_follows; then the job ends and the window is told if it activated
\* something, unless the unique index raised: that error is none of those that
\* _reconcile_follows and the job expect.  Only the worker changes the health, and
\* a repointing between its read and its commit makes it read again, so the two
\* are one step.
WorkerReconciles ==
    /\ worker.at = "reconciling"
    /\ IF Clash(WorkerSeen)
       THEN /\ worker' = [at |-> "dead"]
            /\ stuck' = TRUE
            /\ UNCHANGED <<store, window>>
       ELSE /\ Reconcile(WorkerSeen)
            /\ worker' = NoWork
            /\ window' = IF worker.activated THEN Told ELSE window
    /\ UNCHANGED <<data, health, seal, report, rolling, sent, moved, left>>

-----------------------------------------------------------------------------
(* POST /data/rollback: the pointer, then the index; nothing is reconciled *)

RollbackPoints ==
    /\ ~rolling
    /\ pointer > 1
    /\ Spend
    /\ pointer' = pointer - 1
    /\ rolling' = TRUE
    /\ moved' = "rollback"
    /\ UNCHANGED <<gens, frame, epoch, health, store, seal, report, worker, window,
                   sent, stuck>>

\* The window hears of it; while it reconciles it does not listen.
RollbackRepoints ==
    /\ rolling
    /\ Repoint
    /\ rolling' = FALSE
    /\ window' = Told
    /\ UNCHANGED <<gens, pointer, health, store, seal, report, worker,
                   sent, moved, stuck, left>>

-----------------------------------------------------------------------------
(* The window: reconcile, deliver, reload *)

WindowReads ==
    /\ window.at = "reconciling"
    /\ window' = [at |-> "comparing", seen |-> Seen]
    /\ UNCHANGED <<data, health, store, seal, report, worker, rolling, sent, moved, stuck, left>>

WindowCommits ==
    /\ window.at = "comparing"
    /\ \/ /\ Clash(window.seen)
          /\ window' = NoWork
          /\ stuck' = TRUE
          /\ UNCHANGED store
       \/ /\ ~Clash(window.seen)
          /\ Current(window.seen)
          /\ Reconcile(window.seen)
          /\ window' = [at |-> "claiming"]
       \/ /\ ~Clash(window.seen)
          /\ ~Current(window.seen)
          /\ window' = [at |-> "reconciling"]
          /\ UNCHANGED <<store, stuck>>
    /\ UNCHANGED <<data, health, seal, report, worker, rolling, sent, moved, left>>

Pending == {e \in DOMAIN events : events[e] = "pending"}
Marked(batch, note) == [e \in DOMAIN events |-> IF e \in batch THEN note ELSE events[e]]

\* claim_notifications.  The reload that ends the chain withdraws the opt-in when
\* the permission is gone, which is a SetOptIn(FALSE).
Claim ==
    /\ window.at = "claiming"
    /\ IF opted /\ Pending # {}
       THEN /\ events' = Marked(Pending, "claimed")
            /\ window' = [at |-> "telling", batch |-> Pending]
       ELSE /\ window' = NoWork
            /\ UNCHANGED events
    /\ UNCHANGED <<data, health, follow, opted, seal, report, worker, rolling,
                   sent, moved, stuck, left>>

\* One more submission of each event of the batch.
Submitted(batch) ==
    [e \in DOMAIN sent \cup batch |->
        (IF e \in DOMAIN sent THEN sent[e] ELSE 0) + (IF e \in batch THEN 1 ELSE 0)]

\* One notification for the batch, or none when the window has the focus or the
\* permission is gone; then update_notification for each event, with a final
\* status ("done").  An event whose history was removed meanwhile is not found,
\* which ends the chain.
Tell ==
    /\ window.at = "telling"
    /\ \/ sent' = Submitted(window.batch)
       \/ UNCHANGED sent
    /\ \E denied \in {FALSE, sent' = sent} :
          window' = [at |-> "recording", batch |-> window.batch, denied |-> denied]
    /\ UNCHANGED <<data, health, store, seal, report, worker, rolling, moved, stuck, left>>

Record ==
    /\ window.at = "recording"
    /\ events' = Marked(window.batch, "done")
    /\ opted' = (opted /\ ~(window.denied /\ window.batch \subseteq DOMAIN events))
    /\ window' = NoWork
    /\ UNCHANGED <<data, health, follow, seal, report, worker, rolling, sent, moved, stuck, left>>

-----------------------------------------------------------------------------
(* The user *)

\* The follows of a match id, of any state.
FollowsOf(m) == {f \in Ids : follow[f].match = m /\ follow[f].state \in {"active", "unfollowed"}}
Unused == {f \in Ids : follow[f].state = "none"}

\* follow_match takes the newest follow of the match id up again, or makes one.  A
\* match that is followed already is answered with its follow; the unique index
\* refuses a second active follow of a match.  Read and commit are one step, for
\* the same reason.
FollowMatch(m) ==
    LET row == gens[frame][m]
        of == FollowsOf(m)
        type == IF of = {} THEN "followed" ELSE "refollowed"
    IN /\ Spend
       /\ row # Gone
       /\ \A a \in ActiveFollows : follow[a].match # m
       /\ \E f \in IF of = {} THEN Unused ELSE of :
             /\ IF of = {} THEN \A u \in Unused : f <= u ELSE \A g \in of : g <= f
             /\ follow' = [follow EXCEPT ![f] =
                   [state |-> "active", match |-> m, snap |-> row,
                    data |-> IF Complete(row) THEN "completed" ELSE "current", resolved |-> TRUE]]
             /\ Insert({Event(f, type, pointer, Gone, row)})
       /\ UNCHANGED <<data, health, opted, seal, report, worker, rolling, window,
                      sent, moved, stuck>>

Unfollow(f) ==
    /\ Spend
    /\ follow[f].state = "active"
    /\ follow' = [follow EXCEPT ![f].state = "unfollowed"]
    /\ Insert({Event(f, "unfollowed", 0, follow[f].snap, Gone)})
    /\ UNCHANGED <<data, health, opted, seal, report, worker, rolling, window,
                   sent, moved, stuck>>

\* update_settings, after the system asked for the permission
SetOptIn(on) ==
    /\ Spend
    /\ opted # on
    /\ opted' = on
    /\ UNCHANGED <<data, health, follow, events, seal, report, worker, rolling, window,
                   sent, moved, stuck>>

\* remove_history: the database is deleted, the opt-in with it.
RemoveHistory ==
    /\ Spend
    /\ \E f \in Ids : follow[f].state # "none"
    /\ follow' = [f \in Ids |-> IF follow[f].state = "none" THEN NoFollow
                                ELSE [NoFollow EXCEPT !.state = "removed"]]
    /\ events' = [e \in {} |-> "pending"]
    /\ opted' = FALSE
    /\ UNCHANGED <<data, health, seal, report, worker, rolling, window, sent, moved, stuck>>

-----------------------------------------------------------------------------
(* The ledger: a forecast is sealed and settled; the follow store hears of   *)
(* the settlement in a second step                                           *)

Seal(m) ==
    /\ Spend
    /\ seal.status = "none"
    /\ gens[frame][m] \in Rows
    /\ ~Complete(gens[frame][m])
    /\ seal' = [status |-> "sealed", match |-> m, kickoff |-> gens[frame][m].kickoff]
    /\ UNCHANGED <<data, health, store, report, worker, rolling, window, sent, moved, stuck>>

Settle ==
    /\ Spend
    /\ seal.status = "sealed"
    /\ seal' = [seal EXCEPT !.status = "scored"]
    /\ report' = seal.match
    /\ UNCHANGED <<data, health, store, worker, rolling, window, sent, moved, stuck>>

\* record_settlement_report goes by the names of the teams.
Report ==
    /\ report # NoMatch
    /\ Insert({Event(f, "settlement_recorded", 0, Gone, [match |-> report]) :
                  f \in {g \in ActiveFollows : Teams[follow[g].match] = Teams[report]}})
    /\ report' = NoMatch
    /\ UNCHANGED <<data, health, follow, opted, seal, worker, rolling, window,
                   sent, moved, stuck, left>>

\* Mutant: what was claimed and not recorded as told is offered again.
RestartRequeues ==
    /\ Spend
    /\ frame' = pointer
    /\ worker' = NoWork
    /\ rolling' = FALSE
    /\ report' = NoMatch
    /\ window' = [at |-> "reconciling"]
    /\ events' = [e \in DOMAIN events |-> IF events[e] = "claimed" THEN "pending" ELSE events[e]]
    /\ UNCHANGED <<gens, pointer, epoch, health, follow, opted, seal, sent, moved, stuck>>

\* The application is quit or dies, and starts again: the index follows the
\* pointer and the window reconciles.
Restart ==
    /\ Spend
    /\ frame' = pointer
    /\ worker' = NoWork
    /\ rolling' = FALSE
    /\ report' = NoMatch
    /\ window' = [at |-> "reconciling"]
    /\ UNCHANGED <<gens, pointer, epoch, health, store, seal, sent, moved, stuck>>

-----------------------------------------------------------------------------
Worker == WorkerRepoints \/ WorkerReconciles
Window == WindowReads \/ WindowCommits \/ Claim \/ Tell \/ Record
User == \/ \E m \in Matches : FollowMatch(m) \/ Seal(m)
        \/ \E f \in Ids : Unfollow(f)
        \/ \E on \in BOOLEAN : SetOptIn(on)
        \/ RemoveHistory \/ Settle

FollowInit ==
    /\ gens = <<[m \in Matches |->
                  IF m = First THEN [kickoff |-> FirstKickoff, result |-> "none"] ELSE Gone]>>
    /\ pointer = 1
    /\ frame = 1
    /\ epoch = 0
    /\ health = "current"
    /\ follow = [f \in Ids |-> IF f = 1
                   THEN [NoFollow EXCEPT !.state = "active", !.match = First, !.snap = gens[1][First]]
                   ELSE NoFollow]
    /\ events = [e \in {Event(1, "followed", 1, Gone, gens[1][First])} |-> "not_eligible"]
    /\ opted = TRUE
    /\ seal = [status |-> "none", match |-> NoMatch, kickoff |-> 0]
    /\ report = NoMatch
    /\ worker = NoWork
    /\ rolling = FALSE
    /\ window = [at |-> "reconciling"]
    /\ sent = [e \in {} |-> 0]
    /\ moved = "activation"
    /\ stuck = FALSE
    /\ left = MaxEvents

FollowNext == \/ WorkerActivates \/ WorkerChecks \/ Worker
        \/ RollbackPoints \/ RollbackRepoints
        \/ Window \/ User \/ Report \/ Restart

FollowSpec == FollowInit /\ [][FollowNext]_followVars

\* Code that runs goes on; jobs, requests and restarts need not come.
Fairness == WF_followVars(Worker) /\ WF_followVars(Window) /\ WF_followVars(RollbackRepoints)
FollowFairSpec == FollowSpec /\ Fairness

-----------------------------------------------------------------------------
(* Properties *)

\* What a follow shows can be told from its history: it is what was followed or
\* what some event of this follow says it became.
HistoryExplains ==
    \A f \in ActiveFollows :
        LET mine == {e \in DOMAIN events : e.follow = f}
            told(type) == {e.after : e \in {x \in mine : x.type = type}}
            base == {e.after : e \in {x \in mine : x.type \in {"followed", "refollowed"}}}
        IN /\ follow[f].snap.kickoff \in {a.kickoff : a \in told("kickoff_changed") \cup base}
           /\ Complete(follow[f].snap) =>
                follow[f].snap.result \in {a.result : a \in told("score_published") \cup base}

\* The store never takes over a row of an index that was replaced meanwhile
\* (reconcile reads, then compares and swaps), and tells what it takes over.
FollowsAreTrue ==
    [][/\ HistoryExplains'
       /\ \A f \in Ids :
              /\ follow'[f].state = "active"
              /\ follow'[f].snap # follow[f].snap
              => follow'[f].snap = gens[frame][follow'[f].match]]_followVars

\* A change is submitted to the operating system once, however often the index
\* goes back and forth and whatever was claimed, but not yet recorded as told,
\* when the application died.
SentOnce == \A e \in DOMAIN sent : sent[e] = 1

UpToDate(f) ==
    IF Target(f, gens[pointer]) = NoMatch THEN ~follow[f].resolved
    ELSE follow[f].resolved /\ follow[f].match = Target(f, gens[pointer])
         /\ follow[f].snap = gens[pointer][follow[f].match]

\* Every follow ends up compared with the generation that a job activated last,
\* unless the unique index stopped the last reconciliation.
FollowsCatchUp ==
    <>[](stuck \/ moved = "rollback" \/ \A f \in ActiveFollows : UpToDate(f))

-----------------------------------------------------------------------------
(* Not properties *)

\* Not one: a rollback that ends while the window still delivers is not heard.
RollbacksCatchUp == <>[](stuck \/ \A f \in ActiveFollows : UpToDate(f))

\* Not one: a user follows the new id of a match before the worker has repointed
\* the old follow to it.
ReconcileNeverRaises == ~stuck

\* Not one: between the move of the pointer and the move of the index a change
\* is recorded with the reference of a generation that does not contain it.
ProvenanceIsTrue ==
    \A e \in DOMAIN events : e.type = "kickoff_changed" =>
        \E m \in Matches : gens[e.ref][m].kickoff = e.after.kickoff

\* Not one: the report of a settlement goes by the names of the teams.
SettlementIsOfTheMatch ==
    \A e \in DOMAIN events : e.type = "settlement_recorded" =>
        follow[e.follow].match = e.after.match
=============================================================================
