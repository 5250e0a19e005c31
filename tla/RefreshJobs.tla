----------------------------- MODULE RefreshJobs -----------------------------
(***************************************************************************)
(* The approved-source refresh of the sidecar: refresh_jobs.py's single    *)
(* worker thread and the HTTP handlers that start, cancel and poll a job   *)
(* or roll the active generation back, over the files refresh_state.py and *)
(* refresh_receipts.py keep.                                               *)
(*                                                                         *)
(* Two locks matter.  stateLock is refresh_state._LOCK, held by the worker *)
(* for a whole job (refresh_job_lock), by a rollback while it moves the    *)
(* pointer (activation_lock) and by every save_state for one write.        *)
(* jobLock is the coordinator's own lock, taken by start, cancel, get and  *)
(* each _update_job.  load_state takes no lock at all, so a handler that   *)
(* loads, waits for stateLock and saves writes back what it once read.     *)
(*                                                                         *)
(* What a job finds at its sources is a choice here; SourceObservations    *)
(* models it.  Both locks are reentrant in one process, and the sidecar is *)
(* one process, so the flock beneath them adds nothing.                    *)
(***************************************************************************)
EXTENDS Naturals, FiniteSets

CONSTANTS
    Gens,             \* generation identifiers a build can produce
    NoGen,            \* no generation: the bundled index
    Clients,          \* handler threads, each serving one request at a time
    Worker,           \* the refresh worker thread
    Nobody,           \* the owner of a free lock
    Ops,              \* the requests clients make
    Modes,            \* the modes a job is started in
    Fragile,          \* generations whose bytes may be damaged on disk
    ReceiptsMayFail,  \* whether appending a receipt can fail
    FollowsMayFail,   \* whether the follow database can fail the worker
    Overlap,          \* whether a request may begin while another is served,
                      \* and a rollback while a job is alive
    MaxJobs,          \* bound: jobs ever started
    MaxChanges,       \* bound: no rollback begins after that many attempted changes
    MaxCrashes,       \* bound: times the process dies
    MaxFaults         \* bound: writes of state.json or the pointer that fail

ASSUME NoGenAssumption == NoGen \notin Gens
ASSUME ThreadsAssumption == Worker \notin Clients /\ Nobody \notin Clients \cup {Worker}
ASSUME ChoicesAssumption ==
    /\ Ops \subseteq {"start", "cancel", "rollback"}
    /\ Modes \subseteq {"check", "refresh"}
    /\ Fragile \subseteq Gens
    /\ ReceiptsMayFail \in BOOLEAN
    /\ FollowsMayFail \in BOOLEAN
    /\ Overlap \in BOOLEAN
ASSUME BoundsAssumption ==
    /\ MaxJobs \in Nat /\ MaxChanges \in Nat
    /\ MaxCrashes \in Nat /\ MaxFaults \in Nat

VARIABLES
    (* files under the refresh directory *)
    pointer,    \* active.json
    installed,  \* directories under generations/
    intact,     \* those of them verify_generation accepts
    saved,      \* state.json: the persisted job and receipt marker
    receipts,   \* the receipt history
    (* memory of the process *)
    job,        \* RefreshCoordinator._job
    cancel,     \* RefreshCoordinator._cancel.is_set()
    index,      \* the generation matches.INDEX_PATH lies in
    stateLock,  \* owner of refresh_state._LOCK
    jobLock,    \* owner of RefreshCoordinator._lock
    pc,         \* where each thread is
    snap,       \* the state.json each client last loaded
    mark,       \* the receipt marker each thread wrote
    cand,       \* the generation the worker builds, or a client resolved
    (* bookkeeping *)
    clock,      \* time: every attempt to move the pointer reads its own
    jobsMade,   \* jobs ever started
    crashes,    \* times the process died
    faults,     \* writes that failed
    changedBy,  \* history: jobs that moved the pointer
    uncaught    \* history: an exception no handler takes ended the worker

diskVars == <<pointer, installed, intact, saved, receipts>>
memVars  == <<job, cancel, index, stateLock, jobLock, pc, snap, mark, cand>>
bookVars == <<clock, jobsMade, crashes, faults, changedBy, uncaught>>
vars == <<diskVars, memVars, bookVars>>

Threads == Clients \cup {Worker}

(***************************************************************************)
(* Records.                                                                *)
(***************************************************************************)
NoJob == [id |-> 0, mode |-> "none", state |-> "none", stage |-> "none",
          activated |-> FALSE]

Queued(id, mode) == [id |-> id, mode |-> mode, state |-> "queued",
                     stage |-> "queued", activated |-> FALSE]

Live(j) == j.state \in {"queued", "running"}

NoMarker == [op |-> "none", target |-> NoGen, stamp |-> 0, job |-> 0, error |-> FALSE]

Matches(m, r) == m.op = r.op /\ m.target = r.target /\ m.stamp = r.stamp

MarkerTargetsActive ==
    saved.marker # NoMarker /\ saved.marker.target = pointer.active

\* What application_receipt_gap answers.
GapReported ==
    MarkerTargetsActive /\ ~ \E r \in receipts : Matches(saved.marker, r)

\* What active_generation resolves to: the active generation, the previous
\* one if the active one fails verification, else the bundle.
Served ==
    CASE pointer.active \in intact -> pointer.active
      [] pointer.active \notin intact /\ pointer.previous \in intact -> pointer.previous
      [] OTHER -> NoGen

Init ==
    /\ pointer = [active |-> NoGen, previous |-> NoGen, stamp |-> 0]
    /\ installed = {}
    /\ intact = {}
    /\ saved = [job |-> NoJob, marker |-> NoMarker]
    /\ receipts = {}
    /\ job = NoJob
    /\ cancel = FALSE
    /\ index = NoGen
    /\ stateLock = Nobody
    /\ jobLock = Nobody
    /\ pc = [t \in Threads |-> IF t = Worker THEN "off" ELSE "idle"]
    /\ snap = [t \in Threads |-> [job |-> NoJob, marker |-> NoMarker]]
    /\ mark = [t \in Threads |-> NoMarker]
    /\ cand = [t \in Threads |-> NoGen]
    /\ clock = 0
    /\ jobsMade = 0
    /\ crashes = 0
    /\ faults = 0
    /\ changedBy = {}
    /\ uncaught = FALSE

Goto(t, label) == pc' = [pc EXCEPT ![t] = label]
At(t, label) == pc[t] = label

\* A write of state.json or of the pointer raises instead (a full disk).
WriteFails ==
    /\ faults < MaxFaults
    /\ faults' = faults + 1
    /\ UNCHANGED <<clock, jobsMade, crashes, changedBy, uncaught>>

(***************************************************************************)
(* start and cancel: both write the job under jobLock, then _persist_job   *)
(* loads state.json and saves it when stateLock is free.                   *)
(***************************************************************************)
MayBegin(c, op) ==
    /\ op \in Ops
    /\ At(c, "idle")
    /\ Overlap \/ \A d \in Clients : At(d, "idle")

Start(c, mode) ==
    /\ MayBegin(c, "start")
    /\ jobLock = Nobody
    /\ At(Worker, "off")
    /\ jobsMade < MaxJobs
    /\ jobsMade' = jobsMade + 1
    /\ job' = Queued(jobsMade', mode)
    /\ cancel' = FALSE
    /\ jobLock' = c
    /\ snap' = [snap EXCEPT ![c] = saved]
    /\ Goto(c, "startSave")
    /\ UNCHANGED <<diskVars, index, stateLock, mark, cand, clock, crashes, faults,
                   changedBy, uncaught>>

StartSave(c) ==
    /\ At(c, "startSave")
    /\ stateLock = Nobody
    /\ saved' = [snap[c] EXCEPT !.job = job]
    /\ jobLock' = Nobody
    /\ pc' = [pc EXCEPT ![c] = "idle", ![Worker] = "spawned"]
    /\ UNCHANGED <<pointer, installed, intact, receipts, job, cancel, index, stateLock,
                   snap, mark, cand, bookVars>>

\* The job stays queued in memory, and no thread was started for it.
StartSaveFails(c) ==
    /\ At(c, "startSave")
    /\ WriteFails
    /\ jobLock' = Nobody
    /\ Goto(c, "idle")
    /\ UNCHANGED <<diskVars, job, cancel, index, stateLock, snap, mark, cand>>

Cancel(c) ==
    /\ MayBegin(c, "cancel")
    /\ jobLock = Nobody
    /\ Live(job)
    /\ cancel' = TRUE
    /\ jobLock' = c
    /\ snap' = [snap EXCEPT ![c] = saved]
    /\ Goto(c, "cancelSave")
    /\ UNCHANGED <<diskVars, job, index, stateLock, mark, cand, bookVars>>

CancelSave(c) ==
    /\ At(c, "cancelSave")
    /\ stateLock = Nobody
    /\ saved' = [snap[c] EXCEPT !.job = job]
    /\ jobLock' = Nobody
    /\ Goto(c, "idle")
    /\ UNCHANGED <<pointer, installed, intact, receipts, job, cancel, index, stateLock,
                   snap, mark, cand, bookVars>>

CancelSaveFails(c) ==
    /\ At(c, "cancelSave")
    /\ WriteFails
    /\ jobLock' = Nobody
    /\ Goto(c, "idle")
    /\ UNCHANGED <<diskVars, job, cancel, index, stateLock, snap, mark, cand>>

(***************************************************************************)
(* The worker, up to activation.                                           *)
(***************************************************************************)
\* _update_job: under jobLock, change the job and persist it.  The worker
\* owns stateLock, so nothing can save between its load and its save.
UpdateJob(new) ==
    /\ jobLock = Nobody
    /\ job' = new
    /\ saved' = [saved EXCEPT !.job = new]

EnterStage(from, to) ==
    /\ At(Worker, from)
    /\ UpdateJob([job EXCEPT !.state = "running", !.stage = to])
    /\ Goto(Worker, to)
    /\ UNCHANGED <<pointer, installed, intact, receipts, cancel, index, stateLock, jobLock,
                   snap, mark, cand, bookVars>>

\* refresh_job_lock
WorkerLock ==
    /\ At(Worker, "spawned")
    /\ stateLock = Nobody
    /\ stateLock' = Worker
    /\ Goto(Worker, "starting")
    /\ UNCHANGED <<diskVars, job, cancel, index, jobLock, snap, mark, cand, bookVars>>

WorkerChecking == EnterStage("starting", "checking")

\* End the job with a result: no generation was built, or one was activated.
Finish(from, activated) ==
    /\ At(Worker, from)
    /\ UpdateJob([job EXCEPT !.state = "done", !.stage = "done", !.activated = activated])
    /\ Goto(Worker, "exit")
    /\ UNCHANGED <<pointer, installed, intact, receipts, cancel, index, stateLock, jobLock,
                   snap, mark, cand, bookVars>>

\* A check ends here; so does a refresh whose references are all active
\* already, or one of whose references is quarantined.
WorkerReport == ~cancel /\ Finish("checking", FALSE)

\* Mutant of WorkerDecide: an unchanged generation is rebuilt.
WorkerRebuilds(g) ==
    /\ At(Worker, "checking")
    /\ ~cancel
    /\ job.mode = "refresh"
    /\ cand' = [cand EXCEPT ![Worker] = g]
    /\ Goto(Worker, "changed")
    /\ UNCHANGED <<diskVars, job, cancel, index, stateLock, jobLock, snap, mark, bookVars>>

\* Some reference differs from the generation served, so the identity of
\* what will be built differs from it too.
WorkerDecide(g) ==
    /\ At(Worker, "checking")
    /\ ~cancel
    /\ job.mode = "refresh"
    /\ g # Served
    /\ cand' = [cand EXCEPT ![Worker] = g]
    /\ Goto(Worker, "changed")
    /\ UNCHANGED <<diskVars, job, cancel, index, stateLock, jobLock, snap, mark, bookVars>>

WorkerDownloading == EnterStage("changed", "downloading")
WorkerValidating  == ~cancel /\ EnterStage("downloading", "validating")
WorkerBuilding    == EnterStage("validating", "building")
WorkerActivating  == ~cancel /\ EnterStage("building", "activating")

\* install_generation: a destination that exists is verified and kept, else
\* the staged directory is renamed onto it.
WorkerInstall ==
    LET g == cand[Worker] IN
    /\ At(Worker, "activating")
    /\ IF g \in installed THEN g \in intact /\ UNCHANGED <<installed, intact>>
       ELSE installed' = installed \cup {g} /\ intact' = intact \cup {g}
    /\ clock' = clock + 1
    /\ mark' = [mark EXCEPT ![Worker] = [op |-> "refresh_activation", target |-> g,
                                         stamp |-> clock', job |-> job.id, error |-> FALSE]]
    /\ Goto(Worker, "mark")
    /\ UNCHANGED <<pointer, saved, receipts, job, cancel, index, stateLock, jobLock,
                   snap, cand, jobsMade, crashes, faults, changedBy, uncaught>>

(***************************************************************************)
(* Moving the pointer, by the worker or by a rollback; the thread owns     *)
(* stateLock throughout (activation_lock).                                 *)
(***************************************************************************)
\* Mutant of MarkPending: the pointer is swapped without a marker on disk.
MarkNothing(t) ==
    /\ At(t, "mark")
    /\ Goto(t, "swap")
    /\ UNCHANGED <<diskVars, job, cancel, index, stateLock, jobLock, snap, mark, cand, bookVars>>

MarkPending(t) ==
    /\ At(t, "mark")
    /\ saved' = [saved EXCEPT !.marker = mark[t]]
    /\ Goto(t, "swap")
    /\ UNCHANGED <<pointer, installed, intact, receipts, job, cancel, index, stateLock,
                   jobLock, snap, mark, cand, bookVars>>

\* Mutant of Repointed: a previous generation, once there is one, is kept.
RepointedKeeping(target, stamp) ==
    [active   |-> target,
     previous |-> IF pointer.previous # NoGen THEN pointer.previous ELSE pointer.active,
     stamp    |-> stamp]

Repointed(target, stamp) ==
    [active   |-> target,
     previous |-> IF pointer.active \notin {NoGen, target} THEN pointer.active
                  ELSE pointer.previous,
     stamp    |-> stamp]

Swap(t) ==
    LET m == mark[t] IN
    /\ At(t, "swap")
    /\ m.target \in intact
    /\ pointer' = Repointed(m.target, m.stamp)
    /\ changedBy' = IF t = Worker THEN changedBy \cup {m.job} ELSE changedBy
    /\ Goto(t, "receipt")
    /\ UNCHANGED <<installed, intact, saved, receipts, job, cancel, index, stateLock, jobLock,
                   snap, mark, cand, clock, jobsMade, crashes, faults, uncaught>>

\* What _finish_receipt_marker leaves in state.json for thread t.
Finished(t, failed) ==
    IF ~Matches(saved.marker, mark[t]) THEN saved
    ELSE IF failed THEN [saved EXCEPT !.marker.error = TRUE]
    ELSE [saved EXCEPT !.marker = NoMarker]

\* An exception inside the lock: the worker's handler records the failure
\* while it still owns the lock, a rollback's leaves the request.
Raise(t) ==
    IF t = Worker THEN Goto(t, "failing") /\ UNCHANGED stateLock
    ELSE Goto(t, "idle") /\ stateLock' = Nobody

\* The target fails verification: the marker is withdrawn and the error
\* raised.
SwapRefused(t) ==
    /\ At(t, "swap")
    /\ mark[t].target \notin intact
    /\ saved' = Finished(t, FALSE)
    /\ Raise(t)
    /\ UNCHANGED <<pointer, installed, intact, receipts, job, cancel, index, jobLock,
                   snap, mark, cand, bookVars>>

\* The pointer cannot be written; the marker is withdrawn if that can be.
SwapFails(t) ==
    /\ At(t, "swap")
    /\ WriteFails
    /\ saved' \in {saved, Finished(t, FALSE)}
    /\ Raise(t)
    /\ UNCHANGED <<pointer, installed, intact, receipts, job, cancel, index, jobLock,
                   snap, mark, cand>>

\* Append the receipt.  An I/O error leaves it out, or surfaces after the
\* rename made it durable.
AppendReceipt(t, lands, fails) ==
    LET m == mark[t] IN
    /\ At(t, "receipt")
    /\ t = Worker \/ m.target \in intact
    /\ fails => ReceiptsMayFail
    /\ ~lands => fails
    /\ receipts' = IF lands THEN receipts \cup {[op |-> m.op, target |-> m.target,
                                                 stamp |-> m.stamp]}
                   ELSE receipts
    /\ mark' = [mark EXCEPT ![t].error = fails]
    /\ Goto(t, "settle")
    /\ UNCHANGED <<pointer, installed, intact, saved, job, cancel, index, stateLock, jobLock,
                   snap, cand, bookVars>>

SettleMarker(t) ==
    /\ At(t, "settle")
    /\ saved' = Finished(t, mark[t].error)
    /\ IF t = Worker THEN Goto(t, "repoint") /\ UNCHANGED stateLock
       ELSE Goto(t, "reload") /\ stateLock' = Nobody
    /\ UNCHANGED <<pointer, installed, intact, receipts, job, cancel, index, jobLock,
                   snap, mark, cand, bookVars>>

\* state.json cannot be written when the marker is set or settled.
MarkerWriteFails(t) ==
    /\ pc[t] \in {"mark", "settle"}
    /\ WriteFails
    /\ Raise(t)
    /\ UNCHANGED <<diskVars, job, cancel, index, jobLock, snap, mark, cand>>

(***************************************************************************)
(* The worker after activation, and every way a job ends.                  *)
(***************************************************************************)
\* matches.repoint_to_refreshed: the pointer cannot move meanwhile.
WorkerRepoint ==
    /\ At(Worker, "repoint")
    /\ index' = Served
    /\ Goto(Worker, "sync")
    /\ UNCHANGED <<diskVars, job, cancel, stateLock, jobLock, snap, mark, cand, bookVars>>

\* Mutant of WorkerActivated: the result of the unchanged branch is reported.
WorkerReportsUnchanged == Finish("sync", FALSE)

\* The source stamps are saved, follows reconciled and the job reported.
WorkerActivated == Finish("sync", TRUE)

\* Any step that touches the network, the disk or the candidate's rows may
\* raise what _run_locked handles: a source error, a full disk.
WorkerRaises ==
    /\ pc[Worker] \in {"starting", "checking", "downloading", "validating", "building",
                       "activating", "sync"}
    /\ Goto(Worker, "failing")
    /\ UNCHANGED <<diskVars, job, cancel, index, stateLock, jobLock, snap, mark, cand, bookVars>>

\* The candidate conflicts with observed evidence: its handler quarantines
\* it, and tells the follows of it before it records the failure.
WorkerConflicts ==
    /\ pc[Worker] \in {"validating", "building"}
    /\ Goto(Worker, "conflict")
    /\ UNCHANGED <<diskVars, job, cancel, index, stateLock, jobLock, snap, mark, cand, bookVars>>

WorkerQuarantines ==
    /\ At(Worker, "conflict")
    /\ Goto(Worker, "failing")
    /\ UNCHANGED <<diskVars, job, cancel, index, stateLock, jobLock, snap, mark, cand, bookVars>>

\* The follow database raises what neither _run_locked nor _run takes, a
\* FollowError of record_source_revisions or record_conflicts or a sqlite
\* error through _reconcile_follows: the lock is released on the way out,
\* the thread dies, and the job stays running.
WorkerDies ==
    /\ FollowsMayFail
    /\ pc[Worker] \in {"checking", "conflict", "sync"}
    /\ At(Worker, "checking") => ~cancel
    /\ uncaught' = TRUE
    /\ Goto(Worker, "exit")
    /\ UNCHANGED <<diskVars, job, cancel, index, stateLock, jobLock, snap, mark, cand,
                   clock, jobsMade, crashes, faults, changedBy>>

\* Mutant of WorkerFailed: the exception ends the thread, not the job.
WorkerFailsSilently ==
    /\ At(Worker, "failing")
    /\ Goto(Worker, "exit")
    /\ UNCHANGED <<diskVars, job, cancel, index, stateLock, jobLock, snap, mark, cand, bookVars>>

Failed(j) == [j EXCEPT !.state = "failed", !.stage = "done"]

WorkerFailed ==
    /\ At(Worker, "failing")
    /\ UpdateJob(Failed(job))
    /\ Goto(Worker, "exit")
    /\ UNCHANGED <<pointer, installed, intact, receipts, cancel, index, stateLock, jobLock,
                   snap, mark, cand, bookVars>>

\* The failure or the conflict cannot be saved, before or after a failure is
\* noted in memory: the error leaves the job lock, and _run's last handler fails the job again.
WorkerFailureUnsaved ==
    /\ pc[Worker] \in {"conflict", "failing"}
    /\ WriteFails
    /\ job' = job \/ (At(Worker, "failing") /\ jobLock = Nobody /\ job' = Failed(job))
    /\ stateLock' = Nobody
    /\ Goto(Worker, "refailing")
    /\ UNCHANGED <<diskVars, cancel, index, jobLock, snap, mark, cand>>

\* There it holds no stateLock, so its load and its save come apart like a
\* client's.  (_fail's own save of last_error is one more such pair.)
WorkerRefails ==
    /\ At(Worker, "refailing")
    /\ jobLock = Nobody
    /\ job' = Failed(job)
    /\ jobLock' = Worker
    /\ snap' = [snap EXCEPT ![Worker] = saved]
    /\ Goto(Worker, "refailSave")
    /\ UNCHANGED <<diskVars, cancel, index, stateLock, mark, cand, bookVars>>

WorkerRefailSave ==
    /\ At(Worker, "refailSave")
    /\ stateLock = Nobody
    /\ saved' = [snap[Worker] EXCEPT !.job = job]
    /\ jobLock' = Nobody
    /\ Goto(Worker, "off")
    /\ UNCHANGED <<pointer, installed, intact, receipts, job, cancel, index, stateLock,
                   snap, mark, cand, bookVars>>

\* That fails too: the thread dies and the job stays as it is in memory.
WorkerFailureLost ==
    /\ pc[Worker] \in {"refailing", "refailSave"}
    /\ WriteFails
    /\ jobLock' = IF jobLock = Worker THEN Nobody ELSE jobLock
    /\ Goto(Worker, "off")
    /\ UNCHANGED <<diskVars, job, cancel, index, stateLock, snap, mark, cand>>

\* The worker looks at the event after the checks, between downloads and
\* after the build.
WorkerCancelled ==
    /\ pc[Worker] \in {"checking", "downloading", "building"}
    /\ cancel
    /\ UpdateJob([job EXCEPT !.state = "cancelled", !.stage = "done"])
    /\ Goto(Worker, "exit")
    /\ UNCHANGED <<pointer, installed, intact, receipts, cancel, index, stateLock, jobLock,
                   snap, mark, cand, bookVars>>

WorkerExit ==
    /\ At(Worker, "exit")
    /\ stateLock' = Nobody
    /\ Goto(Worker, "off")
    /\ UNCHANGED <<diskVars, job, cancel, index, jobLock, snap, mark, cand, bookVars>>

(***************************************************************************)
(* rollback: the pointer under the lock, the rest outside it.              *)
(***************************************************************************)
\* Mutant of RollbackEnter: a rollback without a previous generation.
RollbackBlindly(c) ==
    /\ MayBegin(c, "rollback")
    /\ Overlap \/ At(Worker, "off")
    /\ stateLock = Nobody
    /\ clock < MaxChanges
    /\ clock' = clock + 1
    /\ stateLock' = c
    /\ mark' = [mark EXCEPT ![c] = [op |-> "rollback", target |-> pointer.previous,
                                    stamp |-> clock', job |-> 0, error |-> FALSE]]
    /\ Goto(c, "mark")
    /\ UNCHANGED <<diskVars, job, cancel, index, jobLock, snap, cand, jobsMade, crashes,
                   faults, changedBy, uncaught>>

RollbackEnter(c) ==
    /\ MayBegin(c, "rollback")
    /\ Overlap \/ At(Worker, "off")
    /\ stateLock = Nobody
    /\ clock < MaxChanges
    /\ pointer.previous # NoGen
    /\ clock' = clock + 1
    /\ stateLock' = c
    /\ mark' = [mark EXCEPT ![c] = [op |-> "rollback", target |-> pointer.previous,
                                    stamp |-> clock', job |-> 0, error |-> FALSE]]
    /\ Goto(c, "mark")
    /\ UNCHANGED <<diskVars, job, cancel, index, jobLock, snap, cand, jobsMade, crashes,
                   faults, changedBy, uncaught>>

\* The second verification of the target fails after the pointer moved: the
\* error leaves the handler, and the marker stays.
RollbackReverifyFails(c) ==
    /\ At(c, "receipt")
    /\ mark[c].target \notin intact
    /\ Raise(c)
    /\ UNCHANGED <<diskVars, job, cancel, index, jobLock, snap, mark, cand, bookVars>>

RollbackReload(c) ==
    /\ At(c, "reload")
    /\ snap' = [snap EXCEPT ![c] = saved]
    /\ Goto(c, "resave")
    /\ UNCHANGED <<diskVars, job, cancel, index, stateLock, jobLock, mark, cand, bookVars>>

RollbackResave(c) ==
    /\ At(c, "resave")
    /\ stateLock = Nobody
    /\ saved' = snap[c]
    /\ Goto(c, "resolve")
    /\ UNCHANGED <<pointer, installed, intact, receipts, job, cancel, index, stateLock, jobLock,
                   snap, mark, cand, bookVars>>

RollbackResaveFails(c) ==
    /\ At(c, "resave")
    /\ WriteFails
    /\ Goto(c, "idle")
    /\ UNCHANGED <<diskVars, job, cancel, index, stateLock, jobLock, snap, mark, cand>>

\* Mutant of RollbackResolve: the index stays where it is.
RollbackStays(c) ==
    /\ At(c, "resolve")
    /\ cand' = [cand EXCEPT ![c] = index]
    /\ Goto(c, "repoint")
    /\ UNCHANGED <<diskVars, job, cancel, index, stateLock, jobLock, snap, mark, bookVars>>

\* repoint_to_refreshed resolves the pointer, then sets the paths.
RollbackResolve(c) ==
    /\ At(c, "resolve")
    /\ cand' = [cand EXCEPT ![c] = Served]
    /\ Goto(c, "repoint")
    /\ UNCHANGED <<diskVars, job, cancel, index, stateLock, jobLock, snap, mark, bookVars>>

RollbackRepoint(c) ==
    /\ At(c, "repoint")
    /\ index' = cand[c]
    /\ Goto(c, "idle")
    /\ UNCHANGED <<diskVars, job, cancel, stateLock, jobLock, snap, mark, cand, bookVars>>

(***************************************************************************)
(* The environment: bytes rot, and the app is closed or killed at any      *)
(* point.  The threads are daemons, so nothing of the process survives.    *)
(***************************************************************************)
Damage(g) ==
    /\ g \in Fragile \cap intact
    /\ intact' = intact \ {g}
    /\ UNCHANGED <<pointer, installed, saved, receipts, memVars, bookVars>>

Crash ==
    /\ crashes < MaxCrashes
    /\ crashes' = crashes + 1
    /\ job' = NoJob
    /\ cancel' = FALSE
    /\ index' = Served
    /\ stateLock' = Nobody
    /\ jobLock' = Nobody
    /\ pc' = [t \in Threads |-> IF t = Worker THEN "off" ELSE "idle"]
    /\ snap' = [t \in Threads |-> [job |-> NoJob, marker |-> NoMarker]]
    /\ mark' = [t \in Threads |-> NoMarker]
    /\ cand' = [t \in Threads |-> NoGen]
    /\ UNCHANGED <<diskVars, clock, jobsMade, faults, changedBy, uncaught>>

(***************************************************************************)
(* The system.                                                             *)
(***************************************************************************)
MovePointer(t) ==
    \/ MarkPending(t) \/ MarkerWriteFails(t)
    \/ Swap(t) \/ SwapRefused(t) \/ SwapFails(t)
    \/ \E lands, fails \in BOOLEAN : AppendReceipt(t, lands, fails)
    \/ SettleMarker(t)

WorkerStep ==
    \/ WorkerLock \/ WorkerChecking \/ WorkerReport
    \/ \E g \in Gens : WorkerDecide(g)
    \/ WorkerDownloading \/ WorkerValidating \/ WorkerBuilding \/ WorkerActivating
    \/ WorkerInstall
    \/ MovePointer(Worker)
    \/ WorkerRepoint \/ WorkerActivated
    \/ WorkerRaises \/ WorkerConflicts \/ WorkerQuarantines \/ WorkerDies
    \/ WorkerFailed
    \/ WorkerFailureUnsaved \/ WorkerRefails \/ WorkerRefailSave \/ WorkerFailureLost
    \/ WorkerCancelled \/ WorkerExit

Request(c) ==
    \/ \E mode \in Modes : Start(c, mode)
    \/ Cancel(c)
    \/ RollbackEnter(c)

Serve(c) ==
    \/ StartSave(c) \/ StartSaveFails(c)
    \/ CancelSave(c) \/ CancelSaveFails(c)
    \/ MovePointer(c)
    \/ RollbackReverifyFails(c)
    \/ RollbackReload(c) \/ RollbackResave(c) \/ RollbackResaveFails(c)
    \/ RollbackResolve(c) \/ RollbackRepoint(c)

Next ==
    \/ WorkerStep
    \/ \E c \in Clients : Request(c) \/ Serve(c)
    \/ \E g \in Gens : Damage(g)
    \/ Crash

Spec == Init /\ [][Next]_vars

\* A thread that can run does: the operating system schedules every thread,
\* and every network read of the worker is cut off after a fixed time.  No
\* fairness makes a write fail.
FairSpec ==
    /\ Spec
    /\ WF_vars(WorkerStep /\ UNCHANGED faults)
    /\ \A c \in Clients : WF_vars(Serve(c) /\ UNCHANGED faults)
(***************************************************************************)
(* Properties.                                                             *)
(***************************************************************************)
Stages == {"queued", "checking", "downloading", "validating", "building",
           "activating", "done"}

JobRecords == [id : 1..MaxJobs, mode : Modes,
               state : {"queued", "running", "done", "failed", "cancelled"},
               stage : Stages, activated : BOOLEAN]
Jobs == JobRecords \cup {NoJob}

Marks == [op : {"refresh_activation", "rollback"}, target : Gens, stamp : Nat,
          job : 0..MaxJobs, error : BOOLEAN]
Markers == Marks \cup {NoMarker}
Receipts == [op : {"refresh_activation", "rollback"}, target : Gens, stamp : Nat]
StateFiles == [job : Jobs, marker : Markers]
Pointers == [active : Gens \cup {NoGen}, previous : Gens \cup {NoGen}, stamp : Nat]

MoverLabels  == {"mark", "swap", "receipt", "settle"}
WorkerLabels == {"off", "spawned", "starting", "changed", "repoint", "sync", "conflict", "failing",
                 "refailing", "refailSave", "exit"}
                \cup MoverLabels \cup (Stages \ {"queued", "done"})
ClientLabels == {"idle", "startSave", "cancelSave", "reload", "resave", "resolve", "repoint"}
                \cup MoverLabels

\* Every variable holds a value of its kind (refresh_jobs.py's job record and
\* marker, refresh_state.py's pointer and state).
TypeOK ==
    /\ pointer \in Pointers
    /\ installed \in SUBSET Gens
    /\ intact \in SUBSET installed
    /\ saved \in StateFiles
    /\ receipts \in SUBSET Receipts
    /\ job \in Jobs
    /\ cancel \in BOOLEAN
    /\ index \in Gens \cup {NoGen}
    /\ stateLock \in Threads \cup {Nobody}
    /\ jobLock \in Threads \cup {Nobody}
    /\ pc \in [Threads -> WorkerLabels \cup ClientLabels]
    /\ pc[Worker] \in WorkerLabels
    /\ \A c \in Clients : pc[c] \in ClientLabels
    /\ snap \in [Threads -> StateFiles]
    /\ mark \in [Threads -> Markers]
    /\ cand \in [Threads -> Gens \cup {NoGen}]
    /\ clock \in Nat
    /\ jobsMade \in 0..MaxJobs
    /\ crashes \in 0..MaxCrashes
    /\ faults \in 0..MaxFaults
    /\ changedBy \in SUBSET (1..MaxJobs)
    /\ uncaught \in BOOLEAN

\* The rollback boundary (ADR-0004): whatever activations, rollbacks, repeated
\* builds, crashes and damage came before, the pointer names only generations
\* that are installed, and never the same one as active and as previous, so a
\* rollback always leads to another generation.
RollbackBoundary ==
    /\ pointer.active # NoGen => pointer.active \in installed
    /\ pointer.previous # NoGen => pointer.previous \in installed \ {pointer.active}

\* How application_receipt_gap accounts for the latest pointer change: every
\* change carries its own occurred_at_utc, and so does its receipt.
Account ==
    CASE pointer.stamp = 0 -> "no_change"
      [] pointer.stamp # 0 /\ (\E r \in receipts : r.stamp = pointer.stamp) -> "receipted"
      [] pointer.stamp # 0 /\ (\A r \in receipts : r.stamp # pointer.stamp) /\ GapReported -> "gap"
      [] OTHER -> "forgotten"

Store == INSTANCE GenerationStore WITH
    active <- pointer.active, previous <- pointer.previous,
    intent <- saved.marker.target, intact <- intact, account <- Account

\* The coordinator, its locks, its files and its crashes implement the
\* generation store: the pointer moves in one step and only to a verified
\* generation, and from the moment it moves the change is receipted or
\* reported as a gap, whatever fails or dies, until the next change is tried.
ImplementsStore == Store!Spec

\* A gap is reported only for a change that happened: the marker, written
\* before the swap, never accuses a swap that did not take place.
GapIsTrue == GapReported => saved.marker.stamp = pointer.stamp

\* What get answers for a job of an earlier process that state.json still
\* shows as running.
Interrupted == Live(saved.job) /\ saved.job.id # job.id
SaysUnchanged ==
    Interrupted /\ saved.job.stage # "activating" /\ ~MarkerTargetsActive

\* An interrupted job reported with "active data was unchanged" moved no
\* pointer, wherever the process died.
HonestInterruption == SaysUnchanged => saved.job.id \notin changedBy

\* What the owner is told after a restart is true: of the change the pointer
\* shows, and of the job that was interrupted.
HonestReports == GapIsTrue /\ HonestInterruption

\* The outcome a job reports is what it did: a finished job says "activated"
\* exactly if it moved the pointer, and a cancelled job never moved it.
HonestOutcome ==
    /\ job.state = "done" => (job.activated <=> job.id \in changedBy)
    /\ job.state = "cancelled" => job.id \notin changedBy
    /\ job.state \in {"queued", "running"} /\ job.stage # "activating"
          => job.id \notin changedBy

Quiet == pc[Worker] = "off" /\ \A c \in Clients : At(c, "idle")

\* When nothing runs, the index the app reads lies in the generation the
\* pointer resolves to (or in one damaged since it was opened).
IndexFollowsPointer == Quiet => index \in {Served} \cup (installed \ intact)

\* Every job that was started ends, or dies with the process: again and again
\* none is live, unless a write of the job record or of the pointer failed
\* (start then leaves the job queued without a thread; a second failure kills
\* the worker) or the follow database killed the worker.
JobsEnd == []<>(~Live(job) \/ faults > 0 \/ uncaught)

\* Every request a client has begun is answered, failing writes or not: again
\* and again the client waits for nothing.
RequestsReturn == \A c \in Clients : []<>At(c, "idle")

\* Requests and the worker take the coordinator's lock and the state lock in
\* different orders, and each of their writes may fail: nothing waits for ever
\* but a cancel, and what waits for that cancel (_run, start, rollback).
NothingHangs ==
    (\A c \in Clients : []<>~At(c, "cancelSave")) => JobsEnd /\ RequestsReturn

\* A cancel request is answered (server/tests/test_refresh_api.py expects
\* the job back with cancel_requested set).
CancelReturns == \A c \in Clients : At(c, "cancelSave") ~> At(c, "idle")

\* A refresh that reached its follows after activation reports an outcome,
\* whatever the follow database does (_reconcile_follows calls itself best
\* effort: "the job reports the isolated error").
FollowFaultIsReported == At(Worker, "sync") ~> ~Live(job)
=============================================================================
