----------------------------- MODULE ResearchRuns -----------------------------
(***************************************************************************)
(* The runs of a match research: the job store (jobs.py), the SQLite store *)
(* of runs, captures and candidates (research/store.py), the worker        *)
(* (research/orchestrator.py) and the handlers that create, list, cancel,  *)
(* queue and purge (main.py).                                              *)
(*                                                                         *)
(* All runs are of one match and select the same documents.  The states    *)
(* fetching, captured and extracting are "working"; the terminal states    *)
(* other than cancelled are "finished".  A document has one digest, yields *)
(* at most one candidate.  The proposal that a queued candidate becomes is *)
(* in the module Corrections.                                              *)
(* A worker's update_run reads the row and writes it in two steps; the one *)
(* of a handler is a single step, since all it could overwrite meanwhile   *)
(* is another terminal state.  A change of the match index shows as a      *)
(* refusal at the commits it guards.  settings.json is left out.           *)
(***************************************************************************)
EXTENDS Naturals

CONSTANTS
    Runs,        \* the runs ever created
    Docs,        \* the documents a run selects
    MaxFaults    \* bound: crashes of the sidecar, calls that raise and purges, together

ASSUME FaultsAssumption == MaxFaults \in Nat

VARIABLES
    row,         \* control.sqlite3: the state of each run
    captures,    \* research.sqlite3: capture rows <<run, document>>
    blobs,       \* digests with a file under captures/
    candidates,  \* research.sqlite3: the state of each candidate row
    job,         \* the job store: public state and active worker
    wk,          \* the worker of each run: where it is
    update,      \* the update_run each worker is in
    post,        \* POST /research/runs: where the handler is
    queue,       \* POST /research/candidates/<id>/queue: what it has verified
    purging,     \* DELETE /research/history: its check has passed, its rmtree goes on
    lost,        \* history: digests whose file was taken from under a capture row, by
                 \* a prune whose count was out of date or by a purge, and is not back
    faults       \* how many there were

stored == <<row, captures, blobs, candidates>>
handlers == <<post, queue, purging>>
vars == <<stored, job, wk, update, handlers, lost, faults>>

Active == {"planned", "working"}
Terminal == {"finished", "cancelled"}
RowStates == {"none"} \cup Active \cup Terminal
Pairs == Runs \X Docs

NoUpdate == [to |-> "none", seen |-> "none"]
NoJob == [state |-> "none", active |-> FALSE]
NoWorker == [at |-> "none", todo |-> {}]
NoPost == [at |-> "idle"]

Fault == faults < MaxFaults /\ faults' = faults + 1

\* update_run has read the row; what it writes depends on what it saw.
Update(r, to) == [to |-> to, seen |-> row[r]]

Init ==
    /\ row = [r \in Runs |-> "none"]
    /\ captures = {}
    /\ blobs = {}
    /\ candidates = [p \in Pairs |-> "none"]
    /\ job = [r \in Runs |-> NoJob]
    /\ wk = [r \in Runs |-> NoWorker]
    /\ update = [r \in Runs |-> NoUpdate]
    /\ post = NoPost
    /\ queue = <<>>
    /\ purging = FALSE
    /\ lost = {}
    /\ faults = 0

-------------------------------------------------------------------------------
(* The job store. *)

JobStart(r) == job' = [job EXCEPT ![r] = [state |-> "running", active |-> TRUE]]

\* A cancelled job stays cancelled; its worker is no longer active.  A job
\* that is not active may be pruned: every reader takes it as an absent one.
JobEnd(r) ==
    job' = [job EXCEPT ![r] =
        IF @.state = "cancelled" THEN [@ EXCEPT !.active = FALSE]
        ELSE IF @.state = "running" THEN [state |-> "ended", active |-> FALSE]
        ELSE @]

JobCancel(r) ==
    /\ job[r].state = "running"
    /\ job' = [job EXCEPT ![r].state = "cancelled"]

Cancelled(r) == job[r].state = "cancelled"

\* The ids of active workers, a cancelled one that unwinds included.
RunningIds == {r \in Runs : job[r].active}

-------------------------------------------------------------------------------
(* update_run: the row is read outside the transaction that writes it. *)

\* A terminal state stays what it is.
Sticky(u) == u.seen \in Terminal /\ u.to # u.seen
Raised(r, u) == u.seen = "none" \/ row[r] = "none"
Returned(u) == IF Sticky(u) THEN u.seen ELSE u.to

WriteRow(r, u) ==
    IF Raised(r, u) \/ Sticky(u)
    THEN UNCHANGED row
    ELSE row' = [row EXCEPT ![r] = u.to]

-------------------------------------------------------------------------------
(* The worker: execute_run and the background task around it.  While its    *)
(* update is under way wk[r].at is where it goes on.                        *)

AtWork(r, at) == wk[r].at = at /\ update[r] = NoUpdate

Goes(r, at, todo) == wk' = [wk EXCEPT ![r] = [at |-> at, todo |-> todo]]

Updates(r, to) == update' = [update EXCEPT ![r] = Update(r, to)]

BackgroundTask(r) ==
    /\ AtWork(r, "task")
    /\ Goes(r, "fetch", Docs)
    /\ Updates(r, "working")
    /\ UNCHANGED <<stored, job, handlers, lost, faults>>

\* What the update returns decides where the worker goes on: an exception is
\* reported once more as a failure, a cancelled run stops after a capture.
WorkerWrites(r) ==
    LET u == update[r] IN
    /\ u # NoUpdate
    /\ WriteRow(r, u)
    /\ update' = [update EXCEPT ![r] = NoUpdate]
    /\ Goes(r, IF wk[r].at = "fail" THEN "fail"
               ELSE IF Raised(r, u) THEN "raise"
               ELSE IF wk[r].at = "captured" /\ Returned(u) = "cancelled"
                    THEN "close"
               ELSE wk[r].at, wk[r].todo)
    /\ UNCHANGED <<captures, blobs, candidates, job, handlers, lost, faults>>

\* The documents are fetched in an order the user chose.
Next1(r, d) == d = CHOOSE e \in wk[r].todo : TRUE

Fetch(r) ==
    /\ AtWork(r, "fetch")
    /\ wk[r].todo # {}
    /\ ~Cancelled(r)
    /\ \/ Goes(r, "blob", wk[r].todo)
       \/ \E d \in wk[r].todo : Next1(r, d) /\ Goes(r, "fetch", wk[r].todo \ {d})
    /\ UNCHANGED <<stored, job, update, handlers, lost, faults>>

\* add_capture: the file, unless the digest has one, and then the row.
WriteBlob(r) ==
    /\ AtWork(r, "blob")
    /\ ~Cancelled(r)
    /\ \E d \in wk[r].todo : /\ Next1(r, d)
                             /\ blobs' = blobs \cup {d}
                             /\ lost' = lost \ {d}
    /\ Goes(r, "row", wk[r].todo)
    /\ UNCHANGED <<row, captures, candidates, job, update, handlers, faults>>

\* A row that comes between a prune's count of the rows of its digest and the
\* unlink is not seen by the prune (raced is history).
InsertCapture(r) ==
    /\ AtWork(r, "row")
    /\ \E d \in wk[r].todo :
        /\ Next1(r, d)
        /\ captures' = captures \cup {<<r, d>>}
        /\ post' = IF post.at = "remove" /\ post.digest = d
                   THEN [post EXCEPT !.raced = TRUE] ELSE post
    /\ Goes(r, "captured", wk[r].todo)
    /\ Updates(r, "working")
    /\ UNCHANGED <<row, blobs, candidates, job, queue, purging, lost, faults>>

Captured(r) ==
    /\ AtWork(r, "captured")
    /\ ~Cancelled(r)
    /\ Goes(r, "extract", wk[r].todo)
    /\ Updates(r, "working")
    /\ UNCHANGED <<stored, job, handlers, lost, faults>>

Extract(r) ==
    /\ AtWork(r, "extract")
    /\ \E d \in wk[r].todo :
        /\ Next1(r, d)
        /\ \/ UNCHANGED candidates
           \/ /\ ~Cancelled(r)
              /\ candidates[<<r, d>>] = "none"
              /\ candidates' = [candidates EXCEPT ![<<r, d>>] = "found"]
        /\ Goes(r, "fetch", wk[r].todo \ {d})
    /\ Updates(r, "working")
    /\ UNCHANGED <<row, captures, blobs, job, handlers, lost, faults>>

\* The last update of a run, seen cancelled or through with its documents.
Close(r) ==
    /\ \/ /\ AtWork(r, "close")
          /\ Updates(r, "cancelled")
       \/ /\ \E at \in {"fetch", "blob", "captured", "extract"} : AtWork(r, at)
          /\ Cancelled(r)
          /\ Updates(r, "cancelled")
       \/ /\ AtWork(r, "fetch")
          /\ wk[r].todo = {}
          /\ ~Cancelled(r)
          /\ Updates(r, "finished")
    /\ Goes(r, "finish", {})
    /\ UNCHANGED <<stored, job, handlers, lost, faults>>

\* A call of the store raises, an update included: the task reports it once, and
\* ends the job even if that report raises.
WorkerRaises(r) ==
    /\ \/ wk[r].at \in {"fetch", "blob", "row", "captured", "extract", "close"}
       \/ wk[r].at \in {"finish", "fail"} /\ update[r] # NoUpdate
    /\ update' = [update EXCEPT ![r] = NoUpdate]
    /\ Goes(r, IF wk[r].at = "fail" THEN "fail" ELSE "raise", {})
    /\ Fault
    /\ UNCHANGED <<stored, job, handlers, lost>>

Fail(r) ==
    /\ AtWork(r, "raise")
    /\ Goes(r, "fail", {})
    /\ Updates(r, "finished")
    /\ UNCHANGED <<stored, job, handlers, lost, faults>>

WorkerReturns(r) ==
    /\ AtWork(r, "finish") \/ AtWork(r, "fail")
    /\ JobEnd(r)
    /\ Goes(r, "done", {})
    /\ UNCHANGED <<stored, update, handlers, lost, faults>>

-------------------------------------------------------------------------------
(* POST /research/runs: prune what has expired, then create the run. *)

\* A run is protected from the prune by a candidate that is queued.
Protected == {r \in Runs : \E d \in Docs : candidates[<<r, d>>] = "queued"}

\* The retention is days: any run but one at work may have expired by now.
PostPrunes ==
    /\ post = NoPost
    /\ \E expired \in SUBSET {r \in Runs : row[r] # "none" /\ wk[r].at \in {"none", "done"}} :
        LET gone == expired \ Protected IN
        post' = IF gone = {} THEN [at |-> "create"]
                ELSE [at |-> "delete", gone |-> gone]
    /\ UNCHANGED <<stored, job, wk, update, queue, purging, lost, faults>>

\* One transaction deletes the candidates and captures of the expired runs.
PostDeletes ==
    /\ post.at = "delete"
    /\ LET dead == {p \in captures : p[1] \in post.gone} IN
        /\ captures' = captures \ dead
        /\ candidates' = [p \in Pairs |->
                IF p[1] \in post.gone THEN "none" ELSE candidates[p]]
        /\ post' = [at |-> "unlink", gone |-> post.gone,
                    digests |-> {p[2] : p \in dead}]
    /\ UNCHANGED <<row, blobs, job, wk, update, queue,
                   purging, lost, faults>>

\* Mutant: the rows left are not counted.
PostCountsNone ==
    /\ post.at = "unlink"
    /\ post' = IF post.digests = {} THEN [at |-> "forget", gone |-> post.gone]
               ELSE [at |-> "remove", gone |-> post.gone, digests |-> post.digests,
                     digest |-> CHOOSE d \in post.digests : TRUE, raced |-> FALSE]
    /\ UNCHANGED <<stored, job, wk, update, queue, purging, lost, faults>>

\* One digest after the other: the rows left are counted, in no transaction, and
PostCounts ==
    /\ post.at = "unlink"
    /\ \/ /\ post.digests = {}
          /\ post' = [at |-> "forget", gone |-> post.gone]
       \/ \E d \in post.digests :
             post' = IF \E p \in captures : p[2] = d
                     THEN [post EXCEPT !.digests = @ \ {d}]
                     ELSE [at |-> "remove", gone |-> post.gone, digests |-> post.digests,
                           digest |-> d, raced |-> FALSE]
    /\ UNCHANGED <<stored, job, wk, update, queue, purging, lost, faults>>

\* the file of one that had none is unlinked.
PostUnlinks ==
    /\ post.at = "remove"
    /\ blobs' = blobs \ {post.digest}
    /\ lost' = IF post.raced THEN lost \cup {post.digest} ELSE lost
    /\ post' = [at |-> "unlink", gone |-> post.gone, digests |-> post.digests \ {post.digest}]
    /\ UNCHANGED <<row, captures, candidates, job, wk,
                   update, queue, purging, faults>>

\* A call of the prune raises, and the request with it.
PostRaises ==
    /\ post.at \in {"delete", "unlink", "remove", "forget"}
    /\ post' = NoPost
    /\ Fault
    /\ UNCHANGED <<stored, job, wk, update, queue, purging, lost>>

PostForgets ==
    /\ post.at = "forget"
    /\ row' = [r \in Runs |-> IF r \in post.gone THEN "none" ELSE row[r]]
    /\ post' = [at |-> "create"]
    /\ UNCHANGED <<captures, blobs, candidates, job, wk, update,
                   queue, purging, lost, faults>>

\* create_run: one transaction looks for an active run and inserts the row, under
\* an id no run ever had (which one does not matter).  It is refused for an active
\* run and for a change of the match index.
Fresh == {r \in Runs : row[r] = "none" /\ wk[r] = NoWorker}

CreateRun(r) ==
    /\ r \in Fresh /\ r = CHOOSE s \in Fresh : TRUE
    /\ \A s \in Runs : row[s] \notin Active
    /\ row' = [row EXCEPT ![r] = "planned"]

PostCreates ==
    /\ post.at = "create"
    /\ \/ \E r \in Runs : CreateRun(r) /\ post' = [at |-> "start", run |-> r]
       \/ post' = NoPost /\ UNCHANGED row
    /\ UNCHANGED <<captures, blobs, candidates, job, wk,
                   update, queue, purging, lost, faults>>

\* The job is registered after the row was committed.
PostStarts ==
    /\ post.at = "start"
    /\ JobStart(post.run)
    /\ Goes(post.run, "task", {})
    /\ post' = NoPost
    /\ UNCHANGED <<stored, update, queue, purging, lost, faults>>

-------------------------------------------------------------------------------
(* The other handlers. *)

\* Mutant of Interrupted: a job the process never had is waited for.
InterruptedHere(r) == job[r].state \notin {"running", "none"}

Interrupted(r) == job[r].state # "running"

\* GET: an active run whose job is absent or does not run was interrupted.
PollRecovers(r) ==
    /\ row[r] \in Active
    /\ Interrupted(r)
    /\ WriteRow(r, Update(r, "cancelled"))
    /\ UNCHANGED <<captures, blobs, candidates, job, wk, update, handlers, lost, faults>>

Cancel(r) ==
    /\ row[r] # "none"
    /\ JobCancel(r)
    /\ WriteRow(r, Update(r, "cancelled"))
    /\ UNCHANGED <<captures, blobs, candidates, wk, update, handlers, lost, faults>>

\* The candidate is verified against its capture row and file; one that was
\* queued is answered with its proposal.
QueueLoads(p) ==
    /\ queue = <<>>
    /\ candidates[p] = "found"
    /\ p \in captures
    /\ p[2] \in blobs
    /\ queue' = p
    /\ UNCHANGED <<stored, job, wk, update, post, purging, lost, faults>>

\* With the proposal made, mark_queued finds the candidate again, or fails; a
\* change of the index stops the handler before it.
QueueMarks ==
    /\ queue # <<>>
    /\ \/ candidates' = [candidates EXCEPT ![queue] =
                            IF @ = "none" THEN @ ELSE "queued"]
       \/ UNCHANGED candidates
    /\ queue' = <<>>
    /\ UNCHANGED <<row, captures, blobs, job, wk, update, post,
                   purging, lost, faults>>

PurgeChecks ==
    /\ ~purging
    /\ RunningIds = {}
    /\ purging' = TRUE
    /\ Fault
    /\ UNCHANGED <<stored, job, wk, update, post, queue, lost>>

\* rmtree: what is under the root goes file by file, in the order the directory
\* has it.  Nothing holds the requests and the workers off meanwhile.
PurgeRuns ==
    /\ purging
    /\ row' = [r \in Runs |-> "none"]
    /\ UNCHANGED <<captures, blobs, candidates, job, wk, update, handlers, lost, faults>>

PurgeStore ==
    /\ purging
    /\ captures' = {}
    /\ candidates' = [p \in Pairs |-> "none"]
    /\ UNCHANGED <<row, blobs, job, wk, update, handlers, lost, faults>>

PurgeFile ==
    /\ purging
    /\ \E d \in blobs : blobs' = blobs \ {d} /\ lost' = lost \cup {d}
    /\ UNCHANGED <<row, captures, candidates, job, wk, update, handlers, faults>>

\* All is gone, or something could not be removed: a file that was written since
\* its directory was listed, or one that is in use.
PurgeEnds ==
    /\ purging
    /\ purging' = FALSE
    /\ UNCHANGED <<stored, job, wk, update, post, queue, lost, faults>>

PurgeSteps == PurgeRuns \/ PurgeStore \/ PurgeFile \/ PurgeEnds

-------------------------------------------------------------------------------
(* Crashes, and the whole. *)

Crash ==
    /\ Fault
    /\ job' = [r \in Runs |-> NoJob]
    /\ wk' = [r \in Runs |-> IF row[r] = "none" /\ wk[r] = NoWorker
                             THEN NoWorker ELSE [at |-> "done", todo |-> {}]]
    /\ update' = [r \in Runs |-> NoUpdate]
    /\ post' = NoPost
    /\ queue' = <<>>
    /\ purging' = FALSE
    /\ UNCHANGED <<stored, lost>>

Worker(r) ==
    \/ BackgroundTask(r) \/ WorkerWrites(r) \/ Fetch(r)
    \/ WriteBlob(r) \/ InsertCapture(r) \/ Captured(r) \/ Extract(r)
    \/ Close(r) \/ WorkerRaises(r) \/ Fail(r) \/ WorkerReturns(r)

Post ==
    \/ PostPrunes \/ PostDeletes \/ PostCounts \/ PostUnlinks \/ PostForgets
    \/ PostRaises \/ PostCreates \/ PostStarts

Next ==
    \/ \E r \in Runs : \/ Worker(r) \/ PollRecovers(r) \/ Cancel(r)
    \/ Post
    \/ \E p \in Pairs : QueueLoads(p)
    \/ QueueMarks
    \/ PurgeChecks \/ PurgeSteps
    \/ Crash

Spec == Init /\ [][Next]_vars

\* Threads make progress, and the list of the match's runs is asked for again
\* while a run is active: the panel of the match asks when it is opened.
Fairness ==
    /\ WF_vars(\E r \in Runs : Worker(r)) /\ WF_vars(\E r \in Runs : PollRecovers(r))
    /\ WF_vars(PostStarts)

FairSpec == Spec /\ Fairness

-------------------------------------------------------------------------------
(* Properties. *)

\* Types: the run table (store.py, runs), the job table (jobs.py), and where
\* each handler and worker is.
TypeOK ==
    /\ row \in [Runs -> RowStates]
    /\ captures \subseteq Pairs
    /\ blobs \subseteq Docs
    /\ candidates \in [Pairs -> {"none", "found", "queued"}]
    /\ job \in [Runs -> [state : {"none", "running", "cancelled", "ended"},
                       active : BOOLEAN]]
    /\ wk \in [Runs -> [at : {"none", "task", "fetch", "blob", "row", "captured",
                              "extract", "close", "finish", "raise", "fail",
                              "done"}, todo : SUBSET Docs]]
    /\ update \in [Runs -> [to : RowStates, seen : RowStates]]
    /\ post \in {NoPost, [at |-> "create"]}
            \cup [at : {"delete", "forget"}, gone : SUBSET Runs]
            \cup [at : {"unlink"}, gone : SUBSET Runs, digests : SUBSET Docs]
            \cup [at : {"remove"}, gone : SUBSET Runs, digests : SUBSET Docs,
                  digest : Docs, raced : BOOLEAN]
            \cup [at : {"start"}, run : Runs]
    /\ queue \in {<<>>} \cup Pairs
    /\ purging \in BOOLEAN
    /\ lost \subseteq Docs
    /\ faults \in 0..MaxFaults

\* What a queued candidate rests on: its capture row and the captured file.
WithEvidence(p) == p \in captures /\ p[2] \in blobs

\* A queued candidate still has its capture row, and its file unless that went in
\* one of the two ways nothing guards: prune deletes by run and by digest while
\* workers of other runs share the digests and skip a file that is there
\* (store.prune, _atomic_capture).
QueuedBacked ==
    \A p \in Pairs : candidates[p] = "queued" =>
        p \in captures /\ (p[2] \in blobs \/ p[2] \in lost)

\* A purge passes its check only when no worker is between the registration of
\* its job and its return: neither one that a cancellation unwinds, nor one
\* whose run is terminal, nor one whose job might have been pruned
\* (jobs.running_ids, purge_match_research).
PurgeWaitsForWorkers ==
    ~purging /\ purging' => \A r \in Runs : wk[r].at \in {"none", "done"}

\* What the user queued keeps its evidence but for an unlink on a count that is
\* out of date and for a purge, and a purge begins only when no worker is at work
\* (prune, purge_match_research).
HistoryIsSafe == [][QueuedBacked' /\ PurgeWaitsForWorkers]_vars

\* In the end no run is active: not one whose worker died with the sidecar,
\* whose terminal state a late update overwrote, or whose row was deleted
\* under the worker (list_match_research_runs, update_run).
RunsSettle == <>[](\A r \in Runs : row[r] \notin Active)

\* Not an invariant: a list between the commit of the row and the registration
\* of the job takes the fresh run for interrupted, and the next POST starts a
\* second worker beside the first (main.py create, store.create_run).
OneWorker ==
    \A r, s \in Runs :
        r # s /\ job[r].state = "running" => job[s].state # "running"

\* Not an action property, though the docstring of store.prune says it: prune
\* reads which runs are protected before it deletes, and counts before it
\* unlinks; a candidate queued in between goes with its run, or loses its file.
ReceiptsRetained ==
    [][\A p \in Pairs : candidates[p] = "queued" /\ WithEvidence(p) /\ ~purging
                            => candidates'[p] = "queued" /\ WithEvidence(p)']_vars
===============================================================================
