-------------------------- MODULE SourceObservations --------------------------
(***************************************************************************)
(* What a refresh job learns from its sources and what it does with it:    *)
(* the per-source records of state.json (refresh_jobs.py, _source_success, *)
(* _source_failure, the conflict handler) and the references a generation  *)
(* is built from.                                                          *)
(*                                                                         *)
(* A source's references are the commits its branch has had, numbered in   *)
(* order; 0 is "none".  One job runs at a time (RefreshJobs models how).   *)
(* active_ref is not kept: _sync_state_to_generation derives it from the   *)
(* manifest, and observed_ref takes precedence wherever it is read.        *)
(* Generations are intact here, and health labels and the growing delays   *)
(* of the back-off are left out.                                           *)
(***************************************************************************)
EXTENDS Naturals

CONSTANTS
    Sources,     \* the approved sources
    Absent,      \* football.json, when its tree has no file of the season
    Rewriting,   \* sources that publish rows conflicting with observed
    BadRefs,     \* evidence or with a sealed fixture, and in which references
    MaxRef,      \* bound: references a source publishes
    MaxTrouble   \* bound: failing fetches and builds, cancels, rollbacks, crashes

ASSUME SourcesAssumption == Absent \subseteq Sources
ASSUME BadAssumption == Rewriting \subseteq Sources \ Absent /\ BadRefs \subseteq 1..MaxRef
ASSUME BoundsAssumption == MaxRef \in Nat \ {0} /\ MaxTrouble \in Nat

VARIABLES
    head,        \* the reference each source's branch is at
    seen,        \* observed_ref
    held,        \* quarantined_ref
    limited,     \* whether the recorded error is "rate_limited"
    due,         \* whether next_check_after_utc has passed, or is not set
    active,      \* the references of the active generation
    previous,    \* the references of the previous one
    pc,          \* where the worker is
    job,         \* the parameters of the job
    todo,        \* sources the current loop has yet to reach
    obs,         \* observations: the reference each source was observed at
    fresh,       \* the sources whose observation says changed
    cancelled,   \* RefreshCoordinator._cancel.is_set()
    trouble      \* things that went wrong so far

recordVars == <<seen, held, limited, due>>
storeVars  == <<active, previous>>
jobVars    == <<job, todo, obs, fresh>>
vars == <<head, recordVars, storeVars, pc, jobVars, cancelled, trouble>>

Bad    == Rewriting \X BadRefs
Refs   == 0..MaxRef
NoRefs == [s \in Sources |-> 0]
NoJob  == [mode |-> "none", scope |-> "none", manual |-> FALSE]

Init ==
    /\ head = [s \in Sources |-> 1]
    /\ seen = NoRefs
    /\ held = NoRefs
    /\ limited = [s \in Sources |-> FALSE]
    /\ due = [s \in Sources |-> TRUE]
    /\ active = NoRefs
    /\ previous = NoRefs
    /\ pc = "idle"
    /\ job = NoJob
    /\ todo = {}
    /\ obs = NoRefs
    /\ fresh = {}
    /\ cancelled = FALSE
    /\ trouble = 0

Trouble == trouble < MaxTrouble /\ trouble' = trouble + 1

\* Mutant of EndJob: what changed is remembered into the next job.
EndJobKeeping ==
    /\ pc' = "idle"
    /\ job' = NoJob
    /\ todo' = {}
    /\ obs' = NoRefs
    /\ fresh' = fresh
    /\ cancelled' = FALSE

EndJob ==
    /\ pc' = "idle"
    /\ job' = NoJob
    /\ todo' = {}
    /\ obs' = NoRefs
    /\ fresh' = {}
    /\ cancelled' = FALSE

(***************************************************************************)
(* The world: branches move, time passes.                                  *)
(***************************************************************************)
Publish(s) ==
    /\ head[s] < MaxRef
    /\ head' = [head EXCEPT ![s] = @ + 1]
    /\ UNCHANGED <<recordVars, storeVars, pc, jobVars, cancelled, trouble>>

Elapse(s) ==
    /\ ~due[s]
    /\ due' = [due EXCEPT ![s] = TRUE]
    /\ UNCHANGED <<head, seen, held, limited, storeVars, pc, jobVars, cancelled, trouble>>

(***************************************************************************)
(* Checking the selected sources.                                          *)
(***************************************************************************)
\* A check may select any sources, and so may a followed refresh (those of
\* the followed matches); a refresh of scope "all" takes every source.
Begin(mode, scope, selected, manual) ==
    /\ pc = "idle"
    /\ selected # {}
    /\ mode = "refresh" /\ scope = "all" => selected = Sources
    /\ pc' = "checking"
    /\ job' = [mode |-> mode, scope |-> scope, manual |-> manual]
    /\ todo' = selected
    /\ UNCHANGED <<head, recordVars, storeVars, obs, fresh, cancelled, trouble>>

Due(s) == due[s] \/ (job.manual /\ ~limited[s])

\* _source_success: the observation replaces the record, the error is
\* cleared, and a quarantine of another reference is lifted.
Succeed(s) ==
    /\ seen' = [seen EXCEPT ![s] = head[s]]
    /\ held' = IF held[s] # head[s] THEN [held EXCEPT ![s] = 0] ELSE held
    /\ limited' = [limited EXCEPT ![s] = FALSE]
    /\ due' = [due EXCEPT ![s] = FALSE]

\* check_source answers.  After a cancel only a 304 does, since the body of
\* any other response is not read any more.
Observe(s) ==
    /\ cancelled => head[s] = seen[s]
    /\ Succeed(s)
    /\ obs' = [obs EXCEPT ![s] = head[s]]
    /\ fresh' = IF head[s] # seen[s] THEN fresh \cup {s} ELSE fresh
    /\ todo' = todo \ {s}

\* check_source raises, and _source_failure backs the source off.  A cancel
\* is one more such error.
Fail(s, rate) ==
    /\ IF cancelled THEN ~rate /\ head[s] # seen[s] /\ UNCHANGED trouble ELSE Trouble
    /\ limited' = [limited EXCEPT ![s] = rate]
    /\ due' = [due EXCEPT ![s] = FALSE]
    /\ UNCHANGED <<seen, held>>

SkipCheck(s) ==
    /\ pc = "checking"
    /\ s \in todo
    /\ ~Due(s)
    /\ obs' = [obs EXCEPT ![s] = seen[s]]
    /\ todo' = todo \ {s}
    /\ UNCHANGED <<head, recordVars, storeVars, pc, job, fresh, cancelled, trouble>>

CheckSource(s) ==
    /\ pc = "checking"
    /\ s \in todo
    /\ Due(s)
    /\ Observe(s)
    /\ UNCHANGED <<head, storeVars, pc, job, cancelled, trouble>>

CheckFails(s, rate) ==
    /\ pc = "checking"
    /\ s \in todo
    /\ Due(s)
    /\ Fail(s, rate)
    /\ todo' = todo \ {s}
    /\ UNCHANGED <<head, storeVars, pc, job, obs, fresh, cancelled>>

\* The event is set.  (That the request may then hang is RefreshJobs' matter.)
Cancel ==
    /\ pc # "idle"
    /\ ~cancelled
    /\ cancelled' = TRUE
    /\ Trouble
    /\ UNCHANGED <<head, recordVars, storeVars, pc, jobVars>>

(***************************************************************************)
(* From observations to a generation.                                      *)
(***************************************************************************)
\* Mutant of Differs: what this job saw change, not what the generation lacks.
DiffersFromSeen(s) == s \in fresh

\* The observation of s differs from the active generation's reference; an
\* absent football.json is no reason to build.
Differs(s) == obs[s] # 0 /\ s \notin Absent /\ active[s] # obs[s]

Changed == active = NoRefs \/ \E s \in Sources : Differs(s)

\* Mutant of Missing: a generation is built from what was selected.
MissingNothing == {}

Missing == {s \in Sources : obs[s] = 0}

\* A cancelled job ends after its loop, a check too, and a followed refresh
\* none of whose sources moved.
Stop ==
    /\ pc = "checking"
    /\ todo = {}
    /\ cancelled \/ job.mode = "check" \/ (job.scope = "followed" /\ ~Changed)
    /\ EndJob
    /\ UNCHANGED <<head, recordVars, storeVars, trouble>>

\* Any other refresh completes its observations, whether due or not.
Complete ==
    /\ pc = "checking"
    /\ todo = {}
    /\ ~cancelled
    /\ job.mode = "refresh"
    /\ job.scope = "followed" => Changed
    /\ pc' = "completing"
    /\ todo' = Missing
    /\ UNCHANGED <<head, recordVars, storeVars, job, obs, fresh, cancelled, trouble>>

CheckDependency(s) ==
    /\ pc = "completing"
    /\ s \in todo
    /\ Observe(s)
    /\ UNCHANGED <<head, storeVars, pc, job, cancelled, trouble>>

DependencyFails(s, rate) ==
    /\ pc = "completing"
    /\ s \in todo
    /\ Fail(s, rate)
    /\ EndJob
    /\ UNCHANGED <<head, storeVars>>

\* Mutant of Blocked: a quarantined reference is built again.
NeverBlocked == FALSE

Blocked == \E s \in Sources : obs[s] # 0 /\ held[s] = obs[s]

\* A quarantined reference, an unchanged generation, or a cancel noticed while
\* downloading.
StopUnbuilt ==
    /\ pc = "completing"
    /\ todo = {}
    /\ Blocked \/ ~Changed \/ cancelled
    /\ EndJob
    /\ UNCHANGED <<head, recordVars, storeVars, trouble>>

Build ==
    /\ pc = "completing"
    /\ todo = {}
    /\ ~Blocked
    /\ Changed
    /\ ~cancelled
    /\ pc' = "building"
    /\ UNCHANGED <<head, recordVars, storeVars, jobVars, cancelled, trouble>>

BuildRaises ==
    /\ pc = "building"
    /\ IF cancelled THEN UNCHANGED trouble ELSE Trouble
    /\ EndJob
    /\ UNCHANGED <<head, recordVars, storeVars>>

Conflicting == {s \in Sources : <<s, obs[s]>> \in Bad}

\* RefreshConflict: every reference this job saw for the first time is
\* quarantined, and no other.
Conflict ==
    /\ pc = "building"
    /\ Conflicting # {}
    /\ held' = [s \in Sources |-> IF s \in fresh THEN obs[s] ELSE held[s]]
    /\ limited' = [s \in Sources |-> s \notin fresh /\ limited[s]]
    /\ EndJob
    /\ UNCHANGED <<head, seen, due, storeVars, trouble>>

\* A cancel that comes after the last look at the event is too late.
Activate ==
    /\ pc = "building"
    /\ Conflicting = {}
    /\ active' = obs
    /\ previous' = IF active # NoRefs THEN active ELSE previous
    /\ EndJob
    /\ UNCHANGED <<head, recordVars, trouble>>

Rollback ==
    /\ pc = "idle"
    /\ previous # NoRefs
    /\ Trouble
    /\ active' = previous
    /\ previous' = active
    /\ UNCHANGED <<head, recordVars, pc, jobVars, cancelled>>

\* The process dies; state.json was saved after every check.
Crash ==
    /\ pc # "idle"
    /\ Trouble
    /\ EndJob
    /\ UNCHANGED <<head, recordVars, storeVars>>

BeginAny ==
    \E mode \in {"check", "refresh"}, scope \in {"all", "followed"},
       selected \in SUBSET Sources, manual \in BOOLEAN :
           Begin(mode, scope, selected, manual)

WorkerStep ==
    \/ \E s \in Sources : SkipCheck(s) \/ CheckSource(s) \/ CheckDependency(s)
    \/ \E s \in Sources, rate \in BOOLEAN : CheckFails(s, rate) \/ DependencyFails(s, rate)
    \/ Stop \/ Complete \/ StopUnbuilt \/ Build
    \/ BuildRaises \/ Conflict \/ Activate

Next ==
    \/ \E s \in Sources : Publish(s) \/ Elapse(s)
    \/ BeginAny
    \/ WorkerStep
    \/ Cancel \/ Rollback \/ Crash

Spec == Init /\ [][Next]_vars

\* The worker runs, time passes, and a full refresh is asked for again and
\* again, by the user or by the periodic policy of the interface.
Fairness ==
    /\ WF_vars(WorkerStep)
    /\ \A s \in Sources : WF_vars(Elapse(s))
    /\ SF_vars(Begin("refresh", "all", Sources, TRUE))

FairSpec == Spec /\ Fairness

(***************************************************************************)
(* Properties.                                                             *)
(***************************************************************************)
\* Every variable holds a value of its kind (the source records of
\* refresh_jobs.py and the references of a manifest), and what a job observed
\* as changed belongs to that job.
TypeOK ==
    /\ head \in [Sources -> 1..MaxRef]
    /\ seen \in [Sources -> Refs]
    /\ held \in [Sources -> Refs]
    /\ limited \in [Sources -> BOOLEAN]
    /\ due \in [Sources -> BOOLEAN]
    /\ active \in [Sources -> Refs]
    /\ previous \in [Sources -> Refs]
    /\ pc \in {"idle", "checking", "completing", "building"}
    /\ job \in [mode : {"check", "refresh", "none"}, scope : {"all", "followed", "none"},
                manual : BOOLEAN]
    /\ todo \in SUBSET Sources
    /\ obs \in [Sources -> Refs]
    /\ fresh \in SUBSET Sources
    /\ cancelled \in BOOLEAN
    /\ trouble \in 0..MaxTrouble
    /\ fresh \subseteq {s \in Sources : obs[s] # 0}
    /\ pc = "idle" <=> job = NoJob

\* "A generation always carries evidence for the complete approved set"
\* (refresh_jobs.py): whatever was selected, skipped, failed or rolled back,
\* the active generation names an observed reference of every source.
GenerationComplete ==
    active # NoRefs => \A s \in Sources : active[s] \in 1..seen[s]

\* A quarantined reference is never part of the generation served nor of the
\* one a rollback returns to, and it is the one last observed, so the
\* source's next publication lifts it.
QuarantineKeptOut ==
    \A s \in Sources : held[s] # 0 =>
        held[s] \notin {active[s], previous[s]} /\ held[s] = seen[s]

UpToDate == \A s \in Sources \ Absent : active[s] = head[s]

\* No generation with the sources' present references can be built, or one
\* of them is quarantined.
Stuck == \E s \in Sources : <<s, head[s]>> \in Bad \/ held[s] = head[s]

\* A change upstream is never lost: whichever jobs observed it first, were
\* refused, cancelled, rolled back or interrupted, repeated refreshes
\* activate it, unless a conflict or a quarantine stands in the way.
ChangesArrive == []<>(Stuck \/ UpToDate)

\* "A source report that conflicts with a sealed fixture is recorded as a
\* quarantined observation" (ADR-0007): after a conflict the reference that
\* conflicts is the quarantined one.
ConflictIsQuarantined ==
    [][Conflict => \A s \in Conflicting : held'[s] = obs[s]]_vars
=============================================================================
