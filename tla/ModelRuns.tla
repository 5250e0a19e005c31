------------------------------- MODULE ModelRuns -------------------------------
(***************************************************************************)
(* The long calls of the sidecar that a client starts, polls and cancels:  *)
(* the read of a match by a language model (ai_gateway.py), the replay of  *)
(* a tournament (retrospective.py) and the download of a local model, each *)
(* in its lane of one job store (jobs.py, main.py).                        *)
(*                                                                         *)
(* A bundle stands for its hash.  A reply of the model is the set of the   *)
(* parts in it that pass the content guards (module Narration); prompts,   *)
(* depth and candidate facts are left out, and so is the second cache key  *)
(* they would give.  The index a replay reads is in the module MatchIndex. *)
(* Clients keep to the prefix of the lane they use, as the interface does. *)
(***************************************************************************)
EXTENDS Naturals

CONSTANTS
    Clients,     \* request threads
    ReadIds, ReplayIds, DownloadIds,   \* the job ids of the lanes cl, rt, dl
    ForecastBundles, MatchBundles,     \* evidence bundles
    WishSets,    \* what a request may allow beyond the grounded part
    Nobody,      \* no client, no job id
    MaxAsks      \* bound: requests ever made

ASSUME AsksAssumption == MaxAsks \in Nat

\* The prefixes keep the ids of the downloads apart from the other lanes'.
ASSUME LanesAssumption ==
    /\ (ReadIds \cup ReplayIds) \cap DownloadIds = {}
    /\ Nobody \notin ReadIds \cup ReplayIds \cup DownloadIds

VARIABLES
    jobs,       \* the job store: state, active worker (and who that is)
    run,        \* what each request thread, or its background task, does
    narrations, \* NarrationCache
    modelLock,  \* _LOCAL_MODEL_LOCK
    pullLock,   \* _OLLAMA_PULL_LOCK
    asked       \* requests made so far

runVars == <<jobs, run, narrations, modelLock, pullLock, asked>>

Bundles == ForecastBundles \cup MatchBundles
Ids == ReadIds \cup ReplayIds \cup DownloadIds
Parts == {"grounded", "background", "research"}
Providers == {"off", "local", "cloud"}
MaxAttempts == 2

Keys == Bundles \X (Providers \ {"off"}) \X WishSets

NoAnswer == [status |-> "none"]
Plain(status) == [status |-> status]
\* A narration as the cache keeps it: sources are the pages it may quote.
Read(bundle, parts, sources) ==
    [status |-> "ok", bundle |-> bundle, parts |-> parts, sources |-> sources]

NoTracked == [state |-> "none", active |-> FALSE, owner |-> Nobody]
NoRun == [at |-> "idle"]

RunInit ==
    /\ jobs = [id \in Ids |-> NoTracked]
    /\ run = [c \in Clients |-> NoRun]
    /\ narrations = [k \in Keys |-> NoAnswer]
    /\ modelLock = Nobody
    /\ pullLock = Nobody
    /\ asked = 0

-------------------------------------------------------------------------------
(* The job store. *)

\* A cancelled job keeps its id until its worker has returned.
Free(id) == ~jobs[id].active

Opened(c) == [state |-> "running", active |-> TRUE, owner |-> c]

\* _terminate: cancelled stays the public state.
Ended(job, state) ==
    IF job.state \in {"running", "cancelled"}
    THEN [state |-> IF job.state = "cancelled" THEN "cancelled" ELSE state,
          active |-> FALSE, owner |-> Nobody]
    ELSE job

End(c, state) ==
    IF run[c].id = Nobody THEN UNCHANGED jobs
    ELSE jobs' = [jobs EXCEPT ![run[c].id] = Ended(@, state)]

RunCancelled(c) == run[c].id # Nobody /\ jobs[run[c].id].state = "cancelled"

\* The doors of the lanes; what is no longer running stays what it is.
CancelRun(id) ==
    /\ jobs[id].state = "running"
    /\ jobs' = [jobs EXCEPT ![id].state = "cancelled"]
    /\ UNCHANGED <<run, narrations, modelLock, pullLock, asked>>

\* A start or a poll drops what is too old, or the oldest beyond the cap.
Prune(id) ==
    /\ jobs[id].state # "none"
    /\ ~jobs[id].active
    /\ jobs' = [jobs EXCEPT ![id] = NoTracked]
    /\ UNCHANGED <<run, narrations, modelLock, pullLock, asked>>

-------------------------------------------------------------------------------
(* The requests. *)

\* A request whose id is still worked on is refused with 409.
Ask(c, id, work) ==
    /\ run[c] = NoRun
    /\ asked < MaxAsks
    /\ asked' = asked + 1
    /\ id # Nobody => Free(id)
    /\ jobs' = IF id = Nobody THEN jobs ELSE [jobs EXCEPT ![id] = Opened(c)]
    /\ run' = [run EXCEPT ![c] = work]
    /\ UNCHANGED <<narrations, modelLock, pullLock>>

\* resolve_provider; off is the default.
Requests ==
    {q \in [provider : Providers, wishes : WishSets, refresh : BOOLEAN] :
        q.provider = "off" => q.wishes = {} /\ ~q.refresh}

Asked(id, b, q) ==
    [at |-> "asked", id |-> id, bundle |-> b, provider |-> q.provider,
     wishes |-> q.wishes, refresh |-> q.refresh, sources |-> FALSE,
     tries |-> 0, answer |-> NoAnswer]

\* The evidence is bundled before the job opens.
AskForecastRead(c) ==
    \E id \in ReadIds \cup {Nobody}, b \in ForecastBundles, q \in Requests :
        Ask(c, id, Asked(id, b, q))

AskMatchRead(c) ==
    \E id \in ReadIds \cup {Nobody}, b \in MatchBundles, q \in Requests :
        Ask(c, id, Asked(id, b, q))

AskReplay(c) ==
    \E id \in ReplayIds \cup {Nobody} :
        Ask(c, id, [at |-> "replaying", id |-> id, answer |-> NoAnswer])

\* Ollama was found reachable before the job opens.
AskDownload(c) ==
    \E id \in DownloadIds :
        Ask(c, id, [at |-> "preparing", id |-> id, answer |-> NoAnswer])

RunGoes(c, at) == run' = [run EXCEPT ![c].at = at, ![c].refresh = FALSE]

\* What is no longer needed of a request is dropped.
Leaves(c, at, status) ==
    run' = [run EXCEPT ![c] = [at |-> at, id |-> @.id, answer |-> Plain(status)]]

Answers(c, status) == Leaves(c, "answering", status)

Raises(c) == Leaves(c, "raising", "none")

Tells(c, read) ==
    run' = [run EXCEPT ![c] = [at |-> "answering", id |-> @.id, bundle |-> @.bundle,
                               wishes |-> @.wishes, answer |-> read]]

\* finish: the job takes the answer, the thread is free.
Answer(c) ==
    /\ run[c].at = "answering"
    /\ End(c, "done")
    /\ run' = [run EXCEPT ![c] = NoRun]
    /\ UNCHANGED <<narrations, modelLock, pullLock, asked>>

\* fail.  The task of a download fails its job once more, outside the lane,
\* unless it was cancelled.
Raise(c) ==
    /\ run[c].at \in {"raising", "raising again"}
    /\ End(c, "failed")
    /\ run' = [run EXCEPT ![c] =
           IF @.id \in DownloadIds /\ @.at = "raising" /\ ~RunCancelled(c)
           THEN [@ EXCEPT !.at = "raising again"]
           ELSE NoRun]
    /\ UNCHANGED <<narrations, modelLock, pullLock, asked>>

-------------------------------------------------------------------------------
(* generate_narration. *)

\* Mutant: one entry whatever the read was allowed to say.
KeyOfBundle(c) == <<run[c].bundle, run[c].provider, {}>>

Key(c) == <<run[c].bundle, run[c].provider, run[c].wishes>>

\* The cache is read before anything is probed; a local server without a
\* usable model ends the read.
Look(c) ==
    /\ run[c].at = "asked"
    /\ \/ run[c].provider = "off" /\ Answers(c, "disabled")
       \/ /\ run[c].provider # "off"
          /\ ~run[c].refresh
          /\ narrations[Key(c)] # NoAnswer
          /\ Tells(c, narrations[Key(c)])
       \/ /\ run[c].provider # "off"
          /\ run[c].refresh \/ narrations[Key(c)] = NoAnswer
          /\ \/ RunGoes(c, "researching")
             \/ run[c].provider = "local" /\ Answers(c, "unavailable")
    /\ UNCHANGED <<jobs, narrations, modelLock, pullLock, asked>>

\* The web is asked about a match, when the user allowed it; a failure leaves
\* no page.
ResearchPages(c) ==
    /\ run[c].at = "researching"
    /\ \E found \in BOOLEAN :
        /\ found => /\ run[c].bundle \in MatchBundles
                    /\ "research" \in run[c].wishes
                    /\ ~RunCancelled(c)
        /\ run' = [run EXCEPT ![c].at = "trying", ![c].sources = found]
    /\ UNCHANGED <<jobs, narrations, modelLock, pullLock, asked>>

\* The head of the loop over attempts; without a key there is no transport.
Try(c) ==
    /\ run[c].at = "trying"
    /\ \/ RunCancelled(c) /\ Answers(c, "local_only")
       \/ ~RunCancelled(c) /\ RunGoes(c, IF run[c].provider = "local" THEN "waiting"
                                   ELSE "calling")
       \/ /\ ~RunCancelled(c) /\ run[c].tries = 0 /\ run[c].provider = "cloud"
          /\ Answers(c, "unavailable")
    /\ UNCHANGED <<jobs, narrations, modelLock, pullLock, asked>>

\* Calls of the local model queue; between two waits of a second the
\* cancellation is looked at, so the lock may be won just after it.
TakeModel(c) ==
    /\ run[c].at = "waiting"
    /\ modelLock = Nobody
    /\ modelLock' = c
    /\ RunGoes(c, "calling")
    /\ UNCHANGED <<jobs, narrations, pullLock, asked>>

StopWaiting(c) ==
    /\ run[c].at = "waiting"
    /\ RunCancelled(c)
    /\ Answers(c, "local_only")
    /\ UNCHANGED <<jobs, narrations, modelLock, pullLock, asked>>

\* Mutant: a refused call leaves the local model locked.
KeepsModel(c) == modelLock' = IF run[c].tries = 0 THEN modelLock ELSE Nobody

ReleasesModel(c) == modelLock' = IF modelLock = c THEN Nobody ELSE modelLock

\* A refused call, a reply that is no JSON and one the review rejects cost an
\* attempt; so does nothing else.
NextAttempt(c) ==
    IF run[c].tries + 1 < MaxAttempts
    THEN run' = [run EXCEPT ![c].at = "trying", ![c].tries = @ + 1]
    ELSE Answers(c, "local_only")

\* A call that times out ends the read; anything the loop does not expect
\* ends the job.
CallFails(c) ==
    /\ run[c].at = "calling"
    /\ ReleasesModel(c)
    /\ \/ NextAttempt(c)
       \/ Answers(c, "local_only")
       \/ Raises(c)
    /\ UNCHANGED <<jobs, narrations, pullLock, asked>>

\* What the review leaves of a reply: the grounded part, and of the parts the
\* user allowed those it can stand behind.
Kept(c, reply) ==
    {part \in reply : \/ part = "grounded"
                      \/ part = "background" /\ part \in run[c].wishes
                      \/ part = "research" /\ run[c].sources}

Accepted(reply) == "grounded" \in reply

\* The reviewed narration is cached, a refreshed one too.
ReviewReply(c) ==
    /\ run[c].at = "calling"
    /\ ReleasesModel(c)
    /\ \E reply \in SUBSET Parts :
        IF Accepted(reply)
        THEN LET read == Read(run[c].bundle, Kept(c, reply), run[c].sources) IN
             /\ narrations' = [narrations EXCEPT ![Key(c)] = read]
             /\ Tells(c, read)
        ELSE /\ NextAttempt(c)
             /\ UNCHANGED narrations
    /\ UNCHANGED <<jobs, pullLock, asked>>

-------------------------------------------------------------------------------
(* The other lanes. *)

\* A replay looks at its cancellation between two matches; a pack or an index
\* it cannot use still makes an answer.
Replay(c) ==
    /\ run[c].at = "replaying"
    /\ \/ ~RunCancelled(c) /\ Answers(c, "replayed")
       \/ Raises(c)
    /\ UNCHANGED <<jobs, narrations, modelLock, pullLock, asked>>

\* One pull at a time: a second one is an error, not a wait.
Pull(c) ==
    /\ run[c].at = "preparing"
    /\ \/ /\ Answers(c, "installed")     \* installed before
          /\ UNCHANGED pullLock
       \/ /\ pullLock = Nobody
          /\ pullLock' = c
          /\ run' = [run EXCEPT ![c].at = "pulling"]
       \/ /\ pullLock # Nobody
          /\ Raises(c)
          /\ UNCHANGED pullLock
    /\ UNCHANGED <<jobs, narrations, modelLock, asked>>

\* A pull that was cancelled meanwhile is not an answer, even a complete one.
Pulled(c) ==
    /\ run[c].at = "pulling"
    /\ pullLock' = Nobody
    /\ \/ ~RunCancelled(c) /\ Answers(c, "installed")
       \/ Raises(c)
    /\ UNCHANGED <<jobs, narrations, modelLock, asked>>

-------------------------------------------------------------------------------
RunStep(c) ==
    \/ Answer(c) \/ Raise(c)
    \/ Look(c) \/ ResearchPages(c) \/ Try(c)
    \/ TakeModel(c) \/ StopWaiting(c) \/ CallFails(c) \/ ReviewReply(c)
    \/ Replay(c) \/ Pull(c) \/ Pulled(c)

RunNext ==
    \/ \E c \in Clients :
        \/ AskForecastRead(c) \/ AskMatchRead(c) \/ AskReplay(c) \/ AskDownload(c)
        \/ RunStep(c)
    \/ \E id \in Ids : CancelRun(id) \/ Prune(id)

\* Every call of a provider has a timeout and every thread goes on.
RunFairness == \A c \in Clients : WF_runVars(RunStep(c))

RunSpec == RunInit /\ [][RunNext]_runVars /\ RunFairness

-------------------------------------------------------------------------------
(* Properties. *)

Working(c) == run[c] # NoRun

\* An answer is about the bundle that was asked about, says nothing in a part
\* the request did not allow, and quotes pages only along with them: whether
\* it was made for this request or kept from another (NarrationCache.key).
AnswersFit ==
    \A c \in Clients :
        (Working(c) /\ run[c].answer.status = "ok") =>
            LET a == run[c].answer IN
            /\ a.bundle = run[c].bundle
            /\ a.parts \ {"grounded"} \subseteq run[c].wishes
            /\ "research" \in a.parts => a.sources

\* A tracked job belongs to the worker it was opened with: it is active as
\* long as that one works, and no other can end it (JobStore.start: "active
\* ownership, not public state, is the conflict boundary").  The lane of the
\* downloads is no part of this: its task fails its job twice.
JobsAreOwned ==
    \A id \in ReadIds \cup ReplayIds :
        /\ \A c \in Clients : Working(c) /\ run[c].id = id
                => jobs[id].active /\ jobs[id].owner = c
        /\ jobs[id].active
                => Working(jobs[id].owner) /\ run[jobs[id].owner].id = id

\* A reader is never shown what it did not ask for, by a narration kept from
\* another request or by a job that another worker ended.
ReadsAreOwn == AnswersFit /\ JobsAreOwned

\* Every request gets its answer: neither a cancelled read in the queue for
\* the local model nor a failed call keeps a thread, or the model, for good.
RunsReturn == \A c \in Clients : []<>~Working(c)
===============================================================================
