------------------------------ MODULE Overlay ------------------------------
(***************************************************************************)
(* The optional OpenLigaDB overlay                                         *)
(* (server/golavo_server/openligadb_jobs.py, openligadb_state.py).         *)
(*                                                                         *)
(* A store of its own beside the core data: consent, generations, a        *)
(* pointer to the active and the previous one, and a document with the     *)
(* state of the last refresh.  One job at a time captures the source and   *)
(* activates what changed; a rollback swaps the pair at any time; settings *)
(* change and everything is deleted when no job is seen to run.            *)
(*                                                                         *)
(* Settings and starts run on the event loop and never overlap; a cancel,  *)
(* a rollback and a deletion run on threads of their own.  The coordinator *)
(* knows its job and its thread in memory only.  Two workers exist when a  *)
(* deletion made it forget the first.                                      *)
(*                                                                         *)
(* Two locks matter.  openligadb_state._LOCK is one lock for all its users:*)
(* a worker owns it for its whole job (job_lock), a rollback or a deletion *)
(* while it changes the files (lifecycle_lock), and each save of settings  *)
(* or document for its write.  The coordinator's own _lock is taken by     *)
(* start and cancel around such a save, and by each _update of the worker. *)
(*                                                                         *)
(* A generation is a name never used before (its hash covers the time of   *)
(* the capture) and a content.  What the document says of health, receipts *)
(* and the next check is left out: it is shown, and only decides when an   *)
(* automatic refresh is due, which may be at any time here.                *)
(***************************************************************************)
EXTENDS Naturals

CONSTANTS Gens,      \* names of generations
          NoGen,     \* no name
          Contents,  \* what the source may publish for the selected competitions
          MaxEvents  \* how many requests and faults may happen, refreshes aside

ASSUME OverlayAssumption == NoGen \notin Gens /\ MaxEvents \in Nat

VARIABLES source,    \* what the source publishes
          settings,  \* settings.json: "none", "off" or "on" (with consent)
          pointer,   \* active.json
          disk,      \* generations/<name>
          saved,     \* the job in state.json: "none", "open" or "ended"
          job,       \* the coordinator's _job
          cancel,    \* its _cancel: no event, one that is clear, one that is set
          thread,    \* its _thread, 0 for none
          worker,    \* the threads that run _run
          rollback,  \* a rollback request
          delete,    \* a deletion request
          held,      \* who keeps the coordinator's _lock: "free", "start", "cancel"
          moved,     \* whether the last job activated a generation
          left       \* how many more requests and faults

memory == <<job, cancel, thread, worker, rollback, delete, held>>
vars == <<source, settings, pointer, disk, saved, moved, left, memory>>

-----------------------------------------------------------------------------

Workers == {1, 2}
Stopped == [at |-> "stopped"]
NoPointer == [active |-> NoGen, previous |-> NoGen]
Absent == [state |-> "absent"]
Intact(g) == g # NoGen /\ disk[g].state = "intact"

\* Whether the coordinator's thread is alive.
Running == thread # 0 /\ worker[thread] # Stopped

\* Whether nobody owns _LOCK: no worker is inside its job and no deletion is
\* between the files and the trees.
Inside(w) == worker[w].at \notin {"stopped", "waiting"}
LockFree == delete # "trees" /\ \A w \in Workers : ~Inside(w)

Spend == left > 0 /\ left' = left - 1

Init ==
    /\ source \in Contents
    /\ settings = "none"
    /\ pointer = NoPointer
    /\ disk = [g \in Gens |-> Absent]
    /\ saved = "none"
    /\ job = "none" /\ cancel = "none" /\ thread = 0
    /\ worker = [w \in Workers |-> Stopped]
    /\ rollback = "idle" /\ delete = "idle" /\ held = "free"
    /\ moved = FALSE
    /\ left = MaxEvents

\* The generation that is served: the active one, or the previous one when the
\* active one does not verify.
Active == IF Intact(pointer.active) THEN pointer.active
          ELSE IF Intact(pointer.previous) THEN pointer.previous
          ELSE NoGen

\* Its content.
Shown == IF Active = NoGen THEN "nothing" ELSE disk[Active].content

-----------------------------------------------------------------------------
(* Requests on the event loop *)

\* Settings change only while no job runs; turning the overlay on needs consent,
\* given once.
Configure ==
    /\ Spend
    /\ held = "free" /\ LockFree
    /\ ~Running
    /\ settings' \in {"off", "on"}
    /\ UNCHANGED <<source, pointer, disk, saved, moved, memory>>

\* A refresh is asked for; a job that is open on a living thread is joined.
StartBegins ==
    /\ settings = "on"
    /\ held = "free"
    /\ ~(Running /\ job = "open")
    /\ job' = "open"
    /\ cancel' = "clear"
    /\ moved' = FALSE
    /\ held' = "start"
    /\ UNCHANGED <<source, settings, pointer, disk, saved, left, thread, worker, rollback, delete>>

\* Its document is saved, under both locks, and the thread started.
StartSaves ==
    /\ held = "start"
    /\ LockFree
    /\ \E w \in Workers :
          /\ worker[w] = Stopped
          /\ worker' = [worker EXCEPT ![w] = [at |-> "waiting"]]
          /\ thread' = w
    /\ saved' = "open"
    /\ held' = "free"
    /\ UNCHANGED <<source, settings, pointer, disk, moved, left, job, cancel, rollback, delete>>

-----------------------------------------------------------------------------
(* The job *)

At(w, at) == worker[w].at = at
Steps(w, next) == worker' = [worker EXCEPT ![w] = next]

\* _update: what it says of the job reaches memory and document, under both locks,
\* unless a deletion made the job be forgotten.
Updates(state) ==
    /\ held = "free"
    /\ job' = IF job = "none" THEN "none" ELSE state
    /\ saved' = IF job = "none" THEN saved ELSE state

\* _LOCK is taken and the document loaded.  A job that was forgotten ends the thread.
JobBegins(w) ==
    /\ At(w, "waiting")
    /\ LockFree
    /\ Steps(w, IF job = "none" THEN Stopped ELSE [at |-> "started", doc |-> saved])
    /\ UNCHANGED <<source, settings, pointer, disk, saved, moved, left, job, cancel, thread,
                   rollback, delete, held>>

\* A job that is not due yet is done; others go on.  The document saved before the
\* update is the one just loaded.
JobStarts(w) ==
    /\ At(w, "started")
    /\ \/ Updates("ended") /\ Steps(w, Stopped)
       \/ Updates("open") /\ Steps(w, [at |-> "capturing", doc |-> worker[w].doc])
    /\ UNCHANGED <<source, settings, pointer, disk, moved, left, cancel, thread, rollback, delete,
                   held>>

\* Any step of a job fails, or the source answers with a conflict: the error is
\* recorded in the copy of the document loaded at the beginning, if that can be
\* saved, and what is active is not touched.
JobFails(w) ==
    /\ Inside(w) /\ ~At(w, "ending")
    /\ saved' \in {saved, worker[w].doc}
    /\ Steps(w, [at |-> "ending", doc |-> worker[w].doc])
    /\ UNCHANGED <<source, settings, pointer, disk, moved, left, job, cancel, thread, rollback,
                   delete, held>>

\* The last update of a job that failed or was cancelled; it may not be saved.
JobEnds(w) ==
    /\ At(w, "ending")
    /\ Updates("ended") \/ (held = "free" /\ job # "none" /\ job' = "ended" /\ UNCHANGED saved)
    /\ Steps(w, Stopped)
    /\ UNCHANGED <<source, settings, pointer, disk, moved, left, cancel, thread, rollback, delete,
                   held>>

\* The event is looked at twice, after the capture and after the build; a thread
\* whose event was forgotten dies of it.
Cancelled(w) ==
    \/ /\ cancel = "none"
       /\ Steps(w, Stopped)
       /\ UNCHANGED <<job, saved>>
    \/ /\ cancel = "set"
       /\ Steps(w, [at |-> "ending", doc |-> worker[w].doc])
       /\ saved' = worker[w].doc
       /\ UNCHANGED job

\* Mutant: the capture is compared with the generation the pointer names.
UnchangedFromPointer(content) ==
    LET g == pointer.active IN g # NoGen /\ disk[g] # Absent /\ disk[g].content = content

\* The capture has the content of the generation that is served.
Unchanged(content) == Shown = content

\* The source is captured.
JobCaptures(w) ==
    /\ At(w, "capturing")
    /\ \/ Cancelled(w)
       \/ /\ cancel = "clear"
          /\ Steps(w, [at |-> "captured", doc |-> worker[w].doc, content |-> source])
          /\ UNCHANGED <<job, saved>>
    /\ UNCHANGED <<source, settings, pointer, disk, moved, left, cancel, thread, rollback, delete,
                   held>>

\* What is new goes on to be built; of what is not, success is recorded.
JobCompares(w) ==
    /\ At(w, "captured")
    /\ Updates("open")
    /\ Steps(w, IF Unchanged(worker[w].content)
                THEN [at |-> "activated", doc |-> worker[w].doc]
                ELSE [at |-> "building", doc |-> worker[w].doc, content |-> worker[w].content])
    /\ UNCHANGED <<source, settings, pointer, disk, moved, left, cancel, thread, rollback, delete,
                   held>>

\* The generation is built in staging and renamed to its name.  The name of one
\* that the pointer does not name, left behind by a failure, may be taken for a
\* new one: nothing will look at it again.
JobInstalls(w) ==
    /\ At(w, "building")
    /\ \/ Cancelled(w) /\ UNCHANGED disk
       \/ /\ cancel = "clear"
          /\ Updates("open")
          /\ \E g \in Gens \ {pointer.active, pointer.previous} :
                /\ disk' = [disk EXCEPT ![g] = [state |-> "intact", content |-> worker[w].content]]
                /\ Steps(w, [at |-> "installed", doc |-> worker[w].doc, gen |-> g])
    /\ UNCHANGED <<source, settings, pointer, moved, left, cancel, thread, rollback, delete, held>>

\* Mutant: only the active generation is kept.
KeptActive(p) == {p.active}

\* What the removal of old generations spares.
Kept(p) == {p.active, p.previous}

\* Verified again (the worker owns _LOCK already), the generation becomes active and the active one
\* previous.  Others are removed; an error, or a crash, leaves them.
JobActivates(w) ==
    LET g == worker[w].gen
        next == [active |-> g, previous |-> pointer.active]
    IN /\ At(w, "installed")
       /\ Intact(g)
       /\ pointer' = next
       /\ disk' \in {disk, [h \in Gens |-> IF h \in Kept(next) THEN disk[h] ELSE Absent]}
       /\ moved' = TRUE
       /\ Steps(w, [at |-> "activated", doc |-> worker[w].doc])
       /\ UNCHANGED <<source, settings, saved, left, job, cancel, thread, rollback, delete, held>>

\* Success is recorded in the copy of the document loaded at the beginning.
JobRecords(w) ==
    /\ At(w, "activated")
    /\ saved' = worker[w].doc
    /\ Steps(w, [at |-> "recorded", doc |-> worker[w].doc])
    /\ UNCHANGED <<source, settings, pointer, disk, moved, left, job, cancel, thread, rollback,
                   delete, held>>

JobFinishes(w) ==
    /\ At(w, "recorded")
    /\ Updates("ended")
    /\ Steps(w, Stopped)
    /\ UNCHANGED <<source, settings, pointer, disk, moved, left, cancel, thread, rollback, delete,
                   held>>

Job(w) == \/ JobBegins(w) \/ JobStarts(w) \/ JobCaptures(w) \/ JobCompares(w)
          \/ JobInstalls(w) \/ JobActivates(w) \/ JobRecords(w) \/ JobFinishes(w)
          \/ JobFails(w) \/ JobEnds(w)

-----------------------------------------------------------------------------
(* Requests on threads of their own *)

\* A cancel keeps the coordinator's lock while it waits for _LOCK to save the
\* document; a worker inside its job keeps that one until its next update, which
\* waits for the coordinator's.
CancelBegins ==
    /\ Spend
    /\ held = "free"
    /\ job = "open"
    /\ cancel' = "set"
    /\ held' = "cancel"
    /\ UNCHANGED <<source, settings, pointer, disk, saved, moved, job, thread, worker, rollback,
                   delete>>

CancelSaves ==
    /\ held = "cancel"
    /\ LockFree
    /\ saved' = "open"
    /\ held' = "free"
    /\ UNCHANGED <<source, settings, pointer, disk, moved, left, job, cancel, thread, worker,
                   rollback, delete>>

\* The document of a start or a cancel cannot be saved: no thread is started.
RequestFails ==
    /\ Spend
    /\ held # "free"
    /\ LockFree
    /\ held' = "free"
    /\ UNCHANGED <<source, settings, pointer, disk, saved, moved, job, cancel, thread, worker,
                   rollback, delete>>

\* A rollback swaps the pair, and then loads and saves the document.
RollbackMoves ==
    /\ Spend
    /\ rollback = "idle"
    /\ LockFree
    /\ Intact(pointer.previous)
    /\ pointer' = [active |-> pointer.previous, previous |-> pointer.active]
    /\ rollback' = "moved"
    /\ UNCHANGED <<source, settings, disk, saved, moved, job, cancel, thread, worker, delete, held>>

RollbackLoads ==
    /\ rollback = "moved"
    /\ rollback' = saved
    /\ UNCHANGED <<source, settings, pointer, disk, saved, moved, left, job, cancel, thread, worker,
                   delete, held>>

RollbackSaves ==
    /\ rollback \in {"none", "open", "ended"}
    /\ LockFree
    /\ saved' = rollback
    /\ rollback' = "idle"
    /\ UNCHANGED <<source, settings, pointer, disk, moved, left, job, cancel, thread, worker,
                   delete, held>>

\* A deletion: asked for while no job runs; then, under the lock, the files and
\* the trees; then the coordinator forgets.
DeleteChecks ==
    /\ Spend
    /\ delete = "idle"
    /\ held = "free"
    /\ ~Running
    /\ delete' = "checked"
    /\ UNCHANGED <<source, settings, pointer, disk, saved, moved, job, cancel, thread, worker,
                   rollback, held>>

DeleteFiles ==
    /\ delete = "checked"
    /\ LockFree
    /\ settings' = "none"
    /\ saved' = "none"
    /\ pointer' = NoPointer
    /\ delete' = "trees"
    /\ UNCHANGED <<source, disk, moved, left, job, cancel, thread, worker, rollback, held>>

DeleteTrees ==
    /\ delete = "trees"
    /\ disk' = [g \in Gens |-> Absent]
    /\ delete' = "forget"
    /\ UNCHANGED <<source, settings, pointer, saved, moved, left, job, cancel, thread, worker,
                   rollback, held>>

DeleteForgets ==
    /\ delete = "forget"
    /\ held = "free"
    /\ job' = "none" /\ cancel' = "none" /\ thread' = 0
    /\ delete' = "idle"
    /\ UNCHANGED <<source, settings, pointer, disk, saved, moved, left, worker, rollback, held>>

-----------------------------------------------------------------------------
(* The world *)

SourceChanges ==
    /\ Spend
    /\ source' \in Contents \ {source}
    /\ UNCHANGED <<settings, pointer, disk, saved, moved, memory>>

\* The bytes of a generation rot.
Damage ==
    /\ Spend
    /\ \E g \in Gens : Intact(g) /\ disk' = [disk EXCEPT ![g].state = "damaged"]
    /\ UNCHANGED <<source, settings, pointer, saved, moved, memory>>

\* The process ends, at any moment, and is started again.
Restarts ==
    /\ Spend
    /\ job' = "none" /\ cancel' = "none" /\ thread' = 0
    /\ worker' = [w \in Workers |-> Stopped]
    /\ rollback' = "idle" /\ delete' = "idle" /\ held' = "free"
    /\ UNCHANGED <<source, settings, pointer, disk, saved, moved>>

Next ==
    \/ Configure \/ StartBegins \/ StartSaves \/ CancelBegins \/ CancelSaves \/ RequestFails
    \/ \E w \in Workers : Job(w)
    \/ RollbackMoves \/ RollbackLoads \/ RollbackSaves
    \/ DeleteChecks \/ DeleteFiles \/ DeleteTrees \/ DeleteForgets
    \/ SourceChanges \/ Damage \/ Restarts

Spec == Init /\ [][Next]_vars

\* Refreshes are asked for again and again while the overlay is on, threads that
\* run go on, and now and then a job that is due meets no failure.
Fairness ==
    /\ WF_vars(StartBegins) /\ WF_vars(StartSaves) /\ WF_vars(CancelSaves)
    /\ WF_vars(RollbackLoads \/ RollbackSaves)
    /\ WF_vars(DeleteFiles \/ DeleteTrees \/ DeleteForgets)
    /\ WF_vars(\E w \in Workers : Job(w))
    /\ SF_vars(\E w \in Workers : JobBegins(w) /\ worker'[w] # Stopped)
    /\ SF_vars(\E w \in Workers : JobStarts(w) /\ worker'[w] # Stopped)
    /\ SF_vars(\E w \in Workers : JobCaptures(w))
    /\ SF_vars(\E w \in Workers : JobCompares(w))
    /\ SF_vars(\E w \in Workers : JobInstalls(w))
    /\ SF_vars(\E w \in Workers : JobActivates(w))

FairSpec == Spec /\ Fairness

-----------------------------------------------------------------------------
(* Properties *)

\* The generations the pointer names are on disk, the one a rollback needs
\* included, whatever a job, a rollback and a deletion do at once and wherever the
\* process dies (_prune_generations, the verification under lifecycle_lock in
\* activate_generation, the order of delete_overlay_data).
PointerBacked ==
    \A g \in {pointer.active, pointer.previous} \ {NoGen} : disk[g] # Absent

\* While the overlay is on, what is served becomes what the source publishes,
\* also after a rollback, a crash, a damaged generation or a deletion that raced a
\* job (the comparison with active_generation in _run_locked, start's test of the
\* thread), unless a request keeps the coordinator's lock for ever.
OverlayCatchesUp ==
    []<>(held = "free") => []<>(settings = "on" => Shown = source)

\* Not a property of the code: a cancel asked for while the worker is inside its
\* job is never answered (docs/adr/0005 permits cancellation during every wait).
OverlayCancelReturns ==
    held = "cancel" ~> held = "free"

\* Not an invariant.  A job that started between the check of a deletion and the
\* removal of the settings activates a generation after the deletion.
DataNeedsConsent ==
    settings = "none" /\ delete = "idle" => pointer = NoPointer

\* Not an invariant.  A job whose document still says it is open is reported as
\* interrupted, with active overlay data unchanged; it may have activated.
InterruptedUnchanged ==
    job = "none" /\ saved = "open" => ~moved
=============================================================================
