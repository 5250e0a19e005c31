# Golavo: a TLA+ verification project

Golavo is a desktop application for football forecasts. A Tauri shell (Rust,
`src/desktop`) starts a local Python sidecar (`src/server`), which serves the
user interface (`src/ui`) over HTTP on the loopback interface and uses an engine
of pure computations (`src/core`). Nothing of the user's leaves the machine, so
everything the program promises rests on files in one data directory, on a
handful of threads and locks of the sidecar, and on what the shell does to that
directory around an application update.

The specifications here model that part: how data generations are activated and
rolled back, what the user's own records (picks, sealed forecasts, follows,
corrections, research) become while generations change under them, how these files
are restored and backed up, what a process death or a failing file operation leaves
behind, and which requests wait for which. Beside it they model what the program
claims: that a number was learned from the past alone, that a simulated season is
one that could be, that a sentence of a language model is backed, that what a
provider is asked and shown for is what the user agreed to.

| Module | Role |
|---|---|
| `GenerationStore` | abstract specification: one active generation, one rollback boundary, an account of each change |
| `RefreshJobs` | the refresh coordinator: handler threads, worker, two locks, pointer, `state.json`, receipts; implements `GenerationStore` |
| `RefreshJobsProofs` | theorems about `RefreshJobs` |
| `SourceObservations` | what a job records per source, quarantine, what a generation is built from |
| `SourceObservationsProofs` | theorems about `SourceObservations` and `Candidates` |
| `Candidates` | the rows of a candidate generation and the gate that lets it pass |
| `MCSources` | `SourceObservations` and `Candidates` in one run, side by side |
| `LedgerStore` | abstract specification: single writes, export, all-or-nothing restore |
| `ArchiveRestore` | the personal archive with its journal, and the checkpoint chain; implements `LedgerStore` |
| `ArchiveRestoreProofs` | theorems about `ArchiveRestore` and `Follows` |
| `Updater` | the desktop updater's backup, marker, receipt, recovery and repair |
| `UpdaterProofs` | theorems about `Updater` and `MatchIndex` |
| `ResearchRuns` | research runs: job store, worker, SQLite rows, captured files, prune and purge |
| `ModelRuns` | reads by a language model, replays and downloads: job lanes, cache, locks, retries, cancels |
| `RunsProofs` | theorems about `ModelRuns` and `ResearchRuns` |
| `MCRuns` | `ResearchRuns` and `ModelRuns` in one run, side by side |
| `Corrections` | correction proposals: evidence, validation, acceptance, exports |
| `Narration` | one reply of a language model: extraction, repairs, review |
| `Hindsight` | what a number may know: training rows, seals and grades, analysis, tournament replay |
| `Season` | the table, the certificate of a season, a simulated run, displayed shares, the bracket |
| `Notebook` | the facts about a fixture, their guardrails, the evidence bundles of the two routes |
| `Provider` | the optional provider connector: consent, key, cancels, paged lookups, feeds |
| `MCClaims` | the previous six in one run, side by side |
| `ClaimsProofs` | theorems about `Hindsight`, `Corrections`, `Narration`, `Notebook`, `Provider` and `Season` |
| `Follows` | followed matches: reconciliation by worker and window, notifications, settlements |
| `Fixtures` | one fixture as generations show it, the clock, the lock of the user's ledger |
| `Picks` | predictions: drafts, freezing, locked records |
| `Forecasts` | sealed forecasts and their settlement from two public sources |
| `MatchDay`, `MCMatchDay` | `Picks` and `Forecasts` composed over `Fixtures` |
| `MatchDayProofs` | theorems about `MatchDay` |
| `Overlay` | the optional OpenLigaDB overlay: consent, job, pointer, rollback, deletion |
| `OverlayProofs` | theorem about `Overlay` |
| `MatchIndex` | the cached index, its snapshots, the memo and the disk cache of a reader |
| `MCGenerations` | `RefreshJobs` and `MatchIndex` in one run, side by side |
| `MCStores` | `ArchiveRestore` and `Follows` in one run, side by side |

A `.cfg` instantiates a module for TLC; `PROJECT.json` lists the runs, the line of
the source each definition translates, the hazards and the findings. To repeat a
run or the proofs:

    tlc -workers 2 -config Stores.cfg MCStores
    tlapm ArchiveRestoreProofs.tla

Contents: 1 inventory, 2 modules, 3 runs, 4 fairness, 5 theorems, 6 what is only
model-checked and what does not hold, 7 findings, 8 not modelled, 9 plan.

## 1. Inventory

For each component: its state, its operations, whom it interacts with, what is
hard about it, and what makes it correct.

### Sidecar: approved-source refresh (`refresh_jobs.py`, `refresh_state.py`, `refresh_receipts.py`, `refresh_sources.py`, `refresh.py`)

*State.* On disk: generation directories with a manifest, the pointer
`active.json` (active, previous, time of activation), `state.json` (the last job,
per-source observations, a pending marker, settings), a receipt log. In memory:
the coordinator's job and cancel flag, the index path that is served, two locks:
`refresh_state._LOCK` (also a file lock) for everything durable, the
coordinator's own lock for the job.
*Operations.* start (deduplicated), get, cancel, rollback, schedule and
configure; the worker checks sources, downloads, builds a candidate, has it
judged by the safety gate, installs it, writes the marker, swaps the pointer,
appends a receipt, settles the marker, repoints the index.
*Hard.* The worker holds the durable lock for the whole job and takes the job
lock inside it, handlers take them in the other order; `load_state` takes no
lock, so what is saved later may be old; death or a full disk between any two
writes; a receipt that cannot be appended; an exception of the follow database that
no handler takes; changed sources that were seen by a check and are no longer new when
they are refreshed.
*Correct when* the pointer only names complete generations and moves only
after its intention was written down; a change without a receipt is reported as
such; what a job, or the report of an interrupted job, says about the data is
true; every job and request ends; a quarantined reference is never served; a
change that nothing stands in the way of is eventually activated.

### Sidecar: match index cache (`matches.py`)

*State.* Loaded index, its fingerprint and epoch, the repointed path; per reader a
memo, for the analysis also files.
*Operations.* resolve, load, repoint, `run_on_stable_generation`,
`apply_if_snapshot_current`, `SnapshotReader.read`.
*Hard.* A reader that started on one generation and ends on the next; two
threads that repoint with differently old pointers; the reset of a memo, which takes
no lock; two writers of one cache file. *Correct when* what is written
from a snapshot was current when it was written, and an idle server serves the
active generation.

### Sidecar: job store and lanes (`jobs.py`)

*State.* Bounded table of in-memory jobs, the set of active workers; per-lane queue.
*Operations.* start, update, finish, fail, cancel, get, prune, lane submission.
*Hard.* A late result after a cancel; a cancelled worker that still unwinds.
*Correct when* a cancelled job stays cancelled and a worker counts as active until
it has returned.

### Sidecar: OpenLigaDB overlay (`openligadb_jobs.py`, `openligadb_state.py`, `openligadb_overlay.py`, `openligadb_source.py`)

*State.* Consent settings, generations, the pointer to the active and the previous
one, `state.json` with the last job; in memory the job, its cancel event, its thread.
*Operations.* configure, start, get, cancel, run, activate, rollback, prune,
delete all. *Hard.* Requests on the event loop and on threads of their own; the
coordinator may forget a worker that lives; two locks that a request and the worker take in
opposite orders; pruning of the rollback boundary; a document loaded early and saved late. *Correct when* the pointer names
generations that are there, and what is served becomes what the source publishes.

### Sidecar: personal archive and ledger checkpoints (`personal_archive.py`, `ledger_checkpoints.py`, `runtime.py`)

*State.* The owner's files; a restore transaction directory with its journal
(phase, entries, what existed), staged files and copies; the archive saved before
a restore; the checkpoint records, each naming its predecessor, and the head.
*Operations.* export, preview (a token that binds archive and local content),
restore, recovery before every request (`main.py:143-151`), creation, status and
verification of the chain. All under `runtime.USER_STATE_LOCK`.
*Hard.* Death or failure between any two file operations of a restore, of its
recovery and of the removal of its directory; threads of earlier requests that do
not recover; a preview that is stale when its restore comes; a chain created in
two writes. *Correct when* a restore happens as a whole or not at all, replaces
only what was shown, can be taken back, and is never left unfinished for ever.

### Sidecar: picks (`picks.py`)

*State.* A draft per match id; locked records named by their hash; an audit log.
*Operations.* get, list, save, delete; each freezes a draft whose time has come.
*Hard.* No timer: the freeze happens when somebody looks. Saving fits models between
its checks and its write, so a generation may be published in between; the time of a
request is read before it waits; a crash between the record and the removal of the
draft; fixtures that move or change their id. *Correct when* a prediction is
accepted only before the kickoff of the fixture as published, and locked once.

### Sidecar: seals and settlement (`seal.py`, `settlement.py`, core `artifacts.py`, `calibration.py`)

*State.* An append-only ledger of artifacts: roots (sealed or abstained) and their
scored successors. *Operations.* seal, settle. *Hard.* A seal reads the index and the
pack at different moments; a settlement downloads from two sources, each of which may
fail, disagree or be late; retries and crashes. *Correct when* the history of a seal
never splits and a seal whose result is out is eventually scored.

### Sidecar: follows (`follows.py`, `follow-context.tsx`)

*State.* SQLite: follows, each with the row it was last compared with, events with
their notification status, the opt-in. *Operations.* follow, unfollow, reconcile,
record revisions, conflicts and settlements, claim and record notifications, remove
the history. *Hard.* Worker and window reconcile concurrently while the index moves;
match ids change; an event arises again when the index goes back and forth; delivery
ends in the operating system, which tells nothing. *Correct when* every change a
follow takes over has its event, nothing is submitted twice, and follows catch up.

### Sidecar: corrections (`correction_store.py`, `_policy`, `_validation`, `_exports`)

*State.* SQLite: proposals with a state and a chain of events, evidence, exports;
files of both. *Operations.* create, attach, revise, validate, accept, revoke,
withdraw, export, mark submitted, redact, purge. *Hard.* Long legal sequences; rows that are read before a
transaction and not looked at again in it; exports that are answered again; unlinking after
the commit. *Correct when* what is shown passed validation, and competing
proposals do not both pass.

### Sidecar: research (`research/`)

*State.* SQLite rows of runs, captures and candidates; captured files by digest; a
job per run. *Operations.* create (which prunes), run, cancel, list (which recovers
interrupted runs), queue a candidate, purge. *Hard.* The worker writes rows while a
cancel, a prune or a purge changes them; runs share files; a file is unlinked on a count
that may be out of date; a purge that goes on while new work begins. *Correct when* queued
candidates keep what they quote, a purge begins only when no worker is at work, and runs end.

### Sidecar: reads by a language model (`ai_gateway.py`, `main.py`, core `ai/`, `evidence.py`)

*State.* A cache of narrations, one lock for the local model, one for downloads, a
job per request that asked for one. *Operations.* The narrative of a seal and of a
match: bundle the evidence, ask the model up to twice, review the reply, cache it;
replay of a tournament; download of a model; cancel, poll.
*Hard.* A job id that is cancelled and asked for again while its worker goes on; a
cancel that comes while a request queues for the local model; a cached read of another
request; replies in shapes nobody asked for; a number that is correct in another source.
*Correct when* a sentence that is shown is backed, a read is the answer to what was
asked, the model is shown only what it may quote, and every request returns.

### Sidecar: provider connector (`sportmonks.py`)

*State.* Settings with the accepted terms, a key in the keychain or the environment,
the requests under way. *Operations.* configure, save and delete the key, look up the
signals of a match or the transfers of a team. *Hard.* A change of the settings between
two requests of a lookup; a list that grows while its pages are read; a fixture that
resembles another. *Correct when* a cancelled lookup is never answered, and what is
answered is whole and of the right fixture.

### Sidecar: HTTP surface, registries (`main.py`, `sidecar.py`, `context_registry.py`)

Routing, token checks, health; bundled registries that are only read. The routes that
change state, or build evidence, appear as the requests of their modules.

### Desktop: updater and supervision (`updater.rs`, `fallback_update.rs`, `lib.rs`, `health.rs`)

*State.* The installed version; personal stores (the ledger and the
corrections); copies set aside and half-moved copies beside them; the armed
backup of the update under way, the shelf of retired ones; the pending marker
with the version it expects; the retirement receipt.
*Operations.* check, staged download, install (back up, mark, install), launch
with recovery of an interrupted restore, finalization after a healthy answer,
repair after an unhealthy one, restart, quit.
*Hard.* Death between any two renames; a compensation that fails as well; an old
marker, receipt or aside copy met by a later update; an install that changes
nothing; manual installs; the user removing the corrections. *Correct when* a
pending update always has its own backup, the engine never runs over a store a
restore has moved away, no content is lost, nothing is restored over newer
writes, and an update settles.

### Engine (`src/core/golavo_core`)

Ratings, models, evaluation: statistics. Training views and artifacts decide what a
number may know; standings, season and tournament outlook enumerate or simulate;
`facts/` and `evidence.py` turn the past of two teams into sentences with sources. All
is computed from arguments, without state. *Hard.* Kickoffs that are known to the day
alone; results that are in the table but not yet in the simulation; tie-breakers that
exist twice; rounding that has to add up. *Correct when* nothing is learned from
the future, each simulated season could happen, and what is displayed adds up.

### User interface (`src/ui`)

React components; their polls and buttons are the clients of the sidecar.

### Interactions

- UI to sidecar: HTTP requests, each in a thread of its own; jobs are polled.
- Shell to sidecar: process start, `/health`, readiness (stores readable, chain
  verifies), termination.
- Middleware to archive: recovery before every API request.
- Refresh worker to index cache (repoint), to follows (reconcile after activation,
  conflicts, revisions); settlement to follows (report).
- Picks and the window's reconciliation write under an unchanged snapshot of the
  index (`apply_if_snapshot_current`).
- Personal stores share `USER_STATE_LOCK`, held for a whole operation, model fits and
  downloads included.
- Research to corrections: a queued candidate becomes a proposal.
- Seal and match routes to the notebook, from there to the evidence bundle and the model.
- Refresh worker to the tournament replay: the pack moves before the index does.
- Shell to files of the sidecar: backup and restore, only while it is not running.

## 2. Modules

### `RefreshJobs` over `GenerationStore`

Threads are the worker and `Clients`, the handler threads. `pc[t]` names the next
piece of code of a thread that runs between two points where another thread can
act: the acquisition of a lock, a write, a read without a lock. `snap[t]` is what
the thread loaded from `state.json` and will save, `mark[t]` the marker it built,
`cand` the candidate the worker holds.

| Model | Code |
|---|---|
| `pointer`, `installed`, `intact` | `active.json`, the generation directories, those whose bytes match |
| `saved` | `state.json`: the job and the pending marker |
| `job`, `cancel` | `RefreshCoordinator._job`, `_cancel` |
| `stateLock`, `jobLock` | `refresh_state._LOCK`, `RefreshCoordinator._lock` |
| `index` | the path `matches.repoint_to_refreshed` set |
| `Start`, `StartSave`, `Cancel`, `CancelSave` | the handlers, split where they wait for the state lock |
| `WorkerLock` ... `WorkerExit` | `_run` and `_execute`, one action per saved stage or durable step |
| `WorkerRaises`, `WorkerConflicts`, `WorkerQuarantines` | what `_run_locked` handles: a failure that is recorded |
| `WorkerDies`, `uncaught` | what it does not: an error of the follow database, which ends the thread |
| `MarkPending`, `Swap`, `AppendReceipt`, `SettleMarker` | the write-ahead protocol shared by activation and rollback |
| `RollbackEnter` ... `RollbackRepoint` | `rollback` |
| `Damage`, `Crash` | bytes changed behind the program's back; the process dies, memory is lost |

`GenerationStore` is what the documentation promises (ADR-0004): the pair active and
previous changes in one step, only to an intended, intact generation, and a change
without a receipt is reported until the next change is intended. `Store` in
`RefreshJobs` maps the pointer, the marker and the receipt log to it;
`ImplementsStore` says that every behaviour maps.

`MCGenerations` runs either `RefreshJobs` or `MatchIndex`. The two meet in the index path
that a job or a rollback sets (`index` there, `named` here); what a job does before is of
no concern to a reader.

Assumed: two pointer changes have different time stamps (the code's stamps have a
resolution of one second); one sidecar process; `state.json` is not deleted.

### `SourceObservations`

`RefreshJobs` treats what a job finds as a choice; this module treats the locks
and the durable steps as atomic and models the finding. Per source: `seen`,
`held`, `limited`, `due` are `observed_ref`, `quarantined_ref`, a recorded rate
limit and whether the next check is due. A job has a mode (check or refresh), a
scope and a flag manual; it visits the sources (`CheckSource`, `CheckFails`,
`SkipCheck`), decides (`Stop`, `CheckDependency`), builds (`Build`) and either
conflicts (`Conflict`) or activates (`Activate`). References of a source only
grow, so a branch that is forced back to an earlier commit is outside the model.

### `Candidates`, `MCSources`

What the other two take as a choice: the documents (`Martj42`, `WorldCup`, `Domestic`,
any that a parser accepts), the packs made of them (`Pack`, `SeasonPack`), the candidate
(`Rekeyed`, `Retained`, `International`, `Fresh`, `Carried`) and the gate (`Safe`). A row is
its id, its date with its teams, its venue, its score and its exact kickoff. The index and
the seals change by refreshes that pass, by a rollback and by seals. Documents that
cannot become a pack, collide or conflict change nothing, so such a refresh is no step.
`MCSources` runs one of the two modules per behaviour: they share no state, since a
reference stands for all that is read at it.

### `ArchiveRestore` over `LedgerStore`

`op` says which step the holder of `USER_STATE_LOCK` is at and for which call.
`tx` is the transaction directory: journal phase, entries, what existed before,
staged files, copies. `View` is the ledger as its owner sees it: the ledger, or
what a recovery will make of it while the journal says "applying".

| Model | Code |
|---|---|
| `Recover`, `UndoFile`, `UndoDone`, `ClearFile`, `Cleared` | `recover_interrupted_restore` and the removal of the directory |
| `RestoreCheck`, `SaveBefore`, `MakeRoot`, `StageFile`, `Prepare`, `BeginApply`, `ApplyFile`, `Commit` | `restore`, one action per rename or marker |
| `Export`, `Preview`, `Token` | the archive and the token that binds it to the local content |
| `TakeLock`, `ThreadWrite`, `ThreadRead`, `WriteRecord`, `WriteHead` | the other writers; the two writes of a checkpoint |
| `Admit` | the middleware that recovers before it lets a request pass |
| `Fault`, `Crash` | any file operation fails; the process dies |

`LedgerStore` has three kinds of step: one file written in a writer's turn, an
export, and a restore of all files of the archive at once.

### `Updater`

One variable per kind of file (`live`, `aside`, `orphans`, `armed`, `shelf`,
`pending`, `receipt`) and a program counter of the shell. Each rename, each marker
write and each removal is an action; `Crash` may come between any two, and each
has a failing variant with the compensation the code runs. The content of a store
is the number of the write that made it, and an attempt, its release and its
marker share a number, so "this backup belongs to that marker" and "this content
is older than that" are comparisons of numbers. It is a module of its own: the
shell touches the stores only while the engine is stopped, so it and the
sidecar's modules share no step.

### `ResearchRuns`

A run is a row, a job and a worker (`wk`, the next piece of code; `update`, the
`update_run` it is in, split into its read and its write). `PostPrunes` ...
`PostStarts` are the POST handler. Its prune chooses the runs that have expired (any that
are not at work: the retention is days, the time limits of a run are minutes), deletes
their rows (`PostDeletes`), and then for one digest after the other counts the rows that
are left (`PostCounts`) and unlinks the file (`PostUnlinks`), in two steps, since no
transaction joins them: a worker may insert a row between (`raced`). `PollRecovers` is the
list that recovers interrupted runs. A purge checks that no worker is at work
(`PurgeChecks`) and then removes the two stores and the files one by one, in any order and
perhaps not all (`PurgeRuns`, `PurgeStore`, `PurgeFile`, `PurgeEnds`), while requests and new
workers go on. Any call of the store may raise, in a worker (`WorkerRaises`) or in a request
(`PostRaises`). `lost` is the digests whose file went in one of the two ways nothing
guards. The active states of a worker are one state, documents have one digest each, and
`settings.json` is left out.

### `Corrections`

`row` is the proposals table with the head of the event chain as a number, `evidence`
and `exports` the other tables, `files` and `blobs` what is on disk, `op` what each
request has read. An acceptance, revocation, withdrawal and submission are one action
(`CommitMove`) with the state each leads to (`Moved`). `passed` records what last
passed validation.

Every operation is two steps. Its first reads the row, the evidence and whatever else it
decides by (`BeginMove`, `BeginRevise`, `BeginValidate`, `BeginRedact`, `ExportReads`); its
second is the transaction, which goes by that row and does not look again
(`correction_store.py:495-508`, `714-733`, `777-787`, `914-931`). Another operation may commit
in between. `torn` is history: the proposals that a transaction wrote although they had
moved since it read them (`Tears`), until one that decides their state from anew.

### `ModelRuns`, `MCRuns`

`jobs` is the job store: per id the public state, whether a worker is active, and (for
the properties) which thread opened it. `run[c]` is where a request thread or the task
of a download is.

| Model | Code |
|---|---|
| `Ask`, `AskForecastRead`, `AskMatchRead`, `AskReplay`, `AskDownload` | the doors of the lanes; an id whose worker is active is refused with 409 |
| `Look`, `ResearchPages`, `Try`, `TakeModel`, `StopWaiting`, `CallFails`, `ReviewReply` | `generate_narration` from the cache to the reviewed reply |
| `Replay`, `Pull`, `Pulled` | the other lanes |
| `Answer`, `Raise`, `Ended` | `finish`, `fail`, `_terminate` |
| `CancelRun`, `Prune` | the cancel doors; what is too old or too many |

A bundle stands for its hash; a reply is the set of its parts that pass the guards, whose
detail is `Narration`. `MCRuns` runs either `ResearchRuns` or `ModelRuns`: they use lanes
of their own of one store, and share no job.

### `Narration`

One reply goes through `Extracted`, `Normalized` (`normalize_narration_shape`) and
`Review` in one step. A sentence is the tokens it says, those that are part of a name,
the sources it mentions and cites, its references, and the marks of what must not be
said. `ReadSentence` tries every sentence; `ReadLanes` combinations with facts and
notes; `ReadShape` shapes of the JSON. `Backed` says independently of the pipeline when
a sentence may be shown.

### `Hindsight`

A pack is a commit of the results, an index is built of one, and between the two there
is a time (`Activates`, `Repoints`). `TrainingView` is `leak_safe_training_view`;
`Seals`, `Scores`, `Voids` with the two writes of an artifact are
`build_forecast_artifact`, `score_forecast`, `void_forecast` and `write_artifact`;
`Analyses`, `ReadsNotebook` are reads of the index; `RetroStarts`, `RetroKeys`,
`RetroComputes` the tournament replay with its memo and its two layers. The clock counts
hours of a short day, since the code compares kickoffs, midnights and days.

### `Season`

Pure algorithms: each question (`AsksOutlook`, `AsksPulse`, `AsksShares`,
`AsksBracket`) is one step from a season chosen by `SeasonInit`, which includes lists that
lack a fixture, have one twice or one of a team against itself, and a result from after
the cutoff. `Standings` is `standings.py`; `Order` and `FinalOrders` are the tie-breakers
that `season_outlook.py` has of its own, and a property compares the two.

### `Notebook`

The 29 templates as operators over the games before a fixture (`Proposed`), the
guardrails (`Built`), the fold into numbers (`NoteNumbers`), the engine's numbers, the two
bundles (`MatchBundle`, `SealBundle`) with their validation (`Closed`, `Quotable`) and the two routes
(`NarratesMatch`, `NarratesSeal`). A text is the tokens it says; a rate is a pair.
An engine's fact says the displays of its numbers, and mentions names and fixed terms that
may have digits of their own ("1X2", "T-24h", "Schalke 04"). `FoundBy` is what the guard finds in
it once it has taken out the fixed terms and the names of the match, as `whitelist.py` does
before it looks for numbers; the names it takes out have a letter (`whitelist.py:141-145`).
Numbers that are written as words, and the feature values of a model, are left out.
`SealWrites` is the notebook that is computed along with a seal and kept beside it.

### `Provider`

`lookup[l]` is one request; each step of it is a read of the settings, of the key, a
request or an answer (`LookupBegins` ... `LookupHears`). `Cancels` marks what is under
way, as `cancel_pending_requests` does. `configure` is split where another thread can
act: its read, its cancel, its save. `catalog` is what the provider lists, by pages. The
fixtures that fit are kept with the place they were read at (`found`), so one that moves to
the next page while the list grows counts twice, as in `candidates`; `first` is the list as
it was when its first page was asked for, which only the properties look at.

### `MCClaims`

One of the six per behaviour. They share no state: the results a season or a notebook is
computed from are its initial state or its games, a reply quotes a bundle that is given.

### `Follows`

`gens` is the sequence of generations, `pointer` the active one, `frame` the one of
the index in memory with `epoch` its identity. The worker and the window each compare
(`Changes`, `Compared`) and commit. The window's read and its commit are two steps
guarded by `Current`; the worker's are one, since what could come between makes it
read again. The worker's reference is that of the generation its job ended on
(`WorkerSeen`), and the window is told only of a job that activated; `Told` is the guard of
`follow-context.tsx:164` that drops an event while a reconciliation runs. `sent` counts how
often an event was submitted. An event's identity is what its hash covers
(`Event`); `Insert` is `INSERT OR IGNORE`. `Clash` is the unique index on active
follows, whose error ends the worker. `MCStores` gives a fixture two ids with one
stable key, the case in which a follow is repointed, and runs either `Follows` or
`ArchiveRestore`. The follow store is one of the files a restore replaces, like a draft there;
that a restore brings back an older follow store is not modelled in `Follows`.

### `Fixtures`, `Picks`, `Forecasts`, `MatchDay`

`Fixtures` has what both read: the row of one fixture in the active generation
(which a publication may change in any way: moved, finished, gone, another id), the
clock, and `busy`, the holder of `USER_STATE_LOCK`. `Picks` has the requests that
wait with the time they arrived at, `Get`, `Delete`, and a save in two steps
(`SaveBegins`, then `SaveCommits`, `SaveRetries` or `SaveGivesUp`); `Freeze` has the
three outcomes of its two file operations. `Forecasts` has a seal in two steps (index,
then pack) and a settlement with a step per download and per seal. `MatchDay`
composes them: they share the lock, the generation and the clock, and a crash
(`Dies`) ends whatever runs and forgets who waits. Times are numbers, two of which
fall on one date, because files and results are found by the date.

### `Overlay`

`settings`, `pointer`, `disk` and `saved` are the files, `job`, `cancel` and `thread`
the coordinator's fields, `worker` the threads that run, of which there may be two when
a deletion made the coordinator forget the first. Two locks decide who waits. `_LOCK` of
`openligadb_state.py` is one lock for all its users: a worker owns it for its whole job, a
deletion for the files and the trees, a rollback and each save for a moment (`LockFree`). The
coordinator's own (`held`) is kept by a start and a cancel while they wait for `_LOCK` to save,
so each is split in two (`StartBegins`, `StartSaves`; `CancelBegins`, `CancelSaves`), and it is
taken by every `_update` of the worker (`Updates`). The document a job loads at its beginning
and saves at its end is `doc`.

### `MatchIndex`

`named` is the history of `INDEX_PATH`, its length the epoch; `frame` and `fp` the
cached frame and fingerprint, `memo` and `order` a `SnapshotReader`, `disk` and `tmp`
the files of the analysis and their temporary siblings. Each of `rd` is one read:
snapshot, lookup, computation, files, publication under the lock, or another attempt.
`mover` is a repoint, split where a reader can see it. A generation stands for its
path, its content and its fingerprint.

## 3. Runs

| Run (cfg) | Question |
|---|---|
| `refresh_safety` (`RefreshSafety`, `MCGenerations`) | Does the coordinator implement the store and tell the truth about gaps, interruptions and the index? Does every cached and every answered value belong to the generation it is said to be of? |
| `refresh_concurrent` (`RefreshConcurrent`) | Does every job end and say what it did, every request return and the rollback boundary hold when starts and rollbacks overlap, writes fail, the follow database raises and the process dies? |
| `refresh_cancel_hangs` (`RefreshCancelHangs`) | violation: does a cancel return? |
| `refresh_worker_dies` (`RefreshWorkerDies`) | violation: is an error of the follow database reported? |
| `observations` (`Observations`) | Are generations complete, quarantined references kept out, changes eventually active? Do results and sealed fixtures survive any upstream, and does harmless news pass? |
| `updates` (`Updates`) | Is an update always backed, complete, never stale, without loss, and does it settle? |
| `stores` (`Stores`, `MCStores`) | Is a restore atomic, informed, reversible, and always cleared? Are changes of a followed match explained and current, told once, and does every follow catch up? |
| `research` (`Runs`, `MCRuns`) | Do queued candidates stay backed, purges wait for workers, reads belong to who asked, and do runs and requests end? |
| `claims` (`Claims`) | Is what is shown validated, backed, learned from the past alone, possible, quotable and agreed to? |
| `match_day` (`MatchDay`) | Are picks made in time and locked once, seals unsplit and settled? |
| `overlay` (`Overlay`) | Is the pointer backed, and does the overlay follow its source? |
| `overlay_cancel_hangs` (`OverlayCancelHangs`) | violation: does a cancel of the overlay's job return? |

What the properties say:

- `ImplementsStore`: refinement of `GenerationStore`. `HonestReports`: a reported gap is
  the gap of the change the pointer shows (`GapIsTrue`), and a job reported as
  interrupted "with active data unchanged" did not move the pointer (`HonestInterruption`).
  `HonestOutcome`: a finished job says activated exactly if it moved the pointer.
  `IndexFollowsPointer`: an idle server serves the active generation.
  `RollbackBoundary`: active and previous are installed and differ.
  `NothingHangs`: unless a cancel waits for ever (finding in section 7), every job ends, or a
  write failed, or the follow database killed the worker (`JobsEnd`; the last is a finding too),
  and every request returns (`RequestsReturn`). `CancelReturns` and `FollowFaultIsReported` are
  what the two findings refute.
- `GenerationComplete`, `QuarantineKeptOut`, `ChangesArrive`. `EvidenceIsKept`: a refresh
  takes no result, and no fixture that is sealed, out of the index, nor changes one.
  `HarmlessPasses`: a candidate that contradicts neither is not refused, though venues
  are spelled anew or rows disappear upstream.
- `StoreSpec`: refinement of `LedgerStore`. `ServedWhole`: running threads never
  see a ledger in the middle of a restore. `CanRollBack`: while files are replaced
  each replaced file has its copy. `ReplaceIsInformed`: a restore replaces what its
  preview showed. `EscapeHatch`: before the ledger changes, an archive of what it
  held has been written. `RestoreSettles`: a transaction directory does not stay.
- `UpdateIsSafe`: a pending update has its own backup (`RecoveryBacked`), the engine never
  runs over a store that is missing (`EngineNeverRunsOverGap`), and the newest content of a
  store is somewhere (`NothingLost`). `NoStaleRestore`: a store goes back only by the
  recovery of an update under way, from that update's backup. `RepairIsComplete`: the
  marker of a repair goes only when every store is restored. `UpdateSettles`.
- `HistoryIsSafe`: a queued candidate has its capture row, and its file unless that was unlinked
  on a count that a later row had overtaken, or by a purge (`QueuedBacked`, with `lost`); and a
  purge passes its check only when no worker is between the registration of its job and its
  return (`PurgeWaitsForWorkers`). That what was purged stays away is not claimed: a worker that
  begins while the purge goes on writes anew.
- `ReadsAreOwn`: an answer, cached or not, is about the bundle that was asked about and
  says nothing in a part that was not allowed (`AnswersFit`); a job is ended by the worker
  it was opened with and no other (`JobsAreOwned`).
- `WorkEnds`: in the end no research is active (`RunsSettle`) and every request has its
  answer (`RunsReturn`).
- `CorrectionsHold`: what is visible is the value and the evidence that passed validation,
  and proposals past validation agree (`AnnotationStands`, which is
  `AnnotationIsValidated` and `OneWinner`), though every transaction goes by a row that was read
  before it, with one exception: a proposal that a transaction wrote after it had moved
  (`torn`), until its next revision, import, redaction or validation. An export that is answered
  again shows the proposal as it is, torn or not (`ReuseIsCurrent`).
- `ReadIsBacked`: a read has the backed sentences of the reply, all of them and no other,
  each beside the numbers it says.
- `HindsightIsHonest`: nothing published was learned from a result of its own future
  (`NothingFromTheFuture`: seals, grades, audit lines, analyses, notebooks, replays), and two
  layers are called one snapshot only when they are (`VerifiedIsOneSnapshot`).
- `OutlookIsPossible`: a simulated run keeps what was played and forced and ends in the order
  of the standings engine (`RunsArePossible`); no table counts a result from after the cutoff
  (`TableIsOfTheCutoff`); pulse, list and certificate agree (`ViewsAgree`); shares add up and
  are off by less than a unit (`SharesAddUp`); a bracket gives each place away once
  (`BracketAddsUp`).
- `EvidenceIsClosed`: a bundle passes its own validation and each digit the guard finds in a fact,
  with fixed terms and the names of the match taken out, is the display of one of its numbers
  (`BundleIsQuotable`); no more coincidences are told than the cap; and the notes do not
  contradict each other (`NotesAgree`).
- `LookupIsHonest`: a cancelled lookup is not answered (`CancelledStaysSilent`); the fixture it is answered for is the
  only one that fits (`FixtureIsTheOnlyOne`), a bookmaker that is shown has one price per
  outcome (`OddsAreWhole`), transfers are complete unless called partial
  (`TransfersAreComplete`), though the lists grow between two pages.
- `FollowsAreTrue`: the kickoff and the result a follow shows are those of its
  beginning or of one of its events, and no row of a replaced index is taken
  over. `SentOnce`: no event is submitted twice, neither in two batches nor in one that is
  submitted again. `FollowsCatchUp`: follows end up
  compared with what a job activated last.
- `NoPickAfterKickoff`: a save writes only for a fixture that, as published at that
  moment, has no result and kicks off after the request. `NothingSplits`: a match id
  has one locked record (`OneLockPerMatch`) and one root, a root one successor (`OneHistory`).
  `SealsSettle`: a seal whose result is out gets scored, though a source be unreadable.
- `PointerBacked`: what the overlay's pointer names is on disk.
  `OverlayCatchesUp`: again and again what is served is what the source publishes, unless a
  request keeps the coordinator's lock for ever; `OverlayCancelReturns` is what the finding about
  that request refutes.
- `ReadIsHonest`: a read answers with work on the generation that is active when it
  answers, and gives up only after the generation changed in each of its attempts; the
  frame, the fingerprint, the memo and the files hold work of the generation their key
  names (`CachesFollowIndex`).

Bounds, and why they are enough:

- *Refresh.* Three generations are the least for which a third activation drops the
  first one from the boundary; two are enough where that does not matter. Three jobs
  (two in `refresh_concurrent`) and three changes allow activation, rollback and
  activation again, and a job after an interrupted one. One crash, in both runs:
  recovery rewrites everything from the files, so a second crash starts from a state a
  first one already reaches. One client for safety, since safety under overlap is the
  subject of `refresh_concurrent` (two failing writes: the failure and the failure to
  report it) and of the theorems; two clients where waiting matters, which lets one
  thread hold each lock while a third waits. One fragile generation: damage to the
  target of a rollback.
- *Observations.* Three references of which the middle one conflicts: before, in
  and after the quarantine. Two sources show a culprit and a harmless one that
  changes with it, and an absent source. One trouble of any kind at any time.
- *Candidates.* One international fixture, which upstream lists under none, one or both of
  two venues; two scores and two kickoffs, since both are compared for equality only; a
  club fixture of the season and one of an earlier season; two seals.
- *Archives* (half of `stores`). Two drafts (one replaced, one not yet), two checkpoints (a first one
  and one with a predecessor), two writes, two crashes (one in the restore, one in
  its recovery), one failing operation.
- *Updates.* Two stores (the loop stops between them; one of them can be removed),
  two attempts (leftovers of the first met by the second), two writes per store (an
  older and a newer content), one crash, one fault.

- *Research.* Two runs that share a document: one can be expired while the other
  captures the same digest, or inserts its row between the prune's count and its unlink. One
  crash, one call that raises or one purge. The space is finite without other bounds, since
  a run is created once.
- *Requests.* Two clients, one id per lane and two requests: an id that is cancelled and
  asked for again, a read that meets the other's cache entry, one that queues behind the
  other for the model, two downloads. The user allows nothing or everything beyond the
  grounded part, which is all a cache key has to tell apart.
- *Corrections.* Two proposals, values and requests are the least for a conflict and
  an overlap; one evidence text, which can be imported, redacted and imported again
  into another proposal; seven events: create, attach, validate, accept, and three more, which
  a stale transaction, a decision on top of it and a way out of it need;
  one purge, crash or change of the index.
- *Narration.* Four tokens of which one is the beginning of another and two are one
  value written differently, numbers of one or two sources, and every sentence over them;
  samples are combined.
- *Hindsight.* Five games: on one day an earlier, a middle and a later one, the later
  known by its date alone, and a game in each of two leagues; two packs, one of which the
  index may not follow; two artifacts, which is a seal with its grade or its void.
- *Season.* Three teams are the least that can be level in a group of which duels decide;
  one point is deducted; three scores; one team is relegated, so both boundaries of a
  play-off exist. Shares in tenths of seven runs leave remainders of every size.
- *Notebook.* Three days before the kickoff with at most one game each, of five kinds.
  Minimal samples, spans and staleness are scaled down to these, so that each guard both
  passes and refuses. Three fixtures: international with a scored seal, league, and a league
  side with digits in its name; the horizon and the name of the market have digits too.
- *Provider.* Two rows a page and two pages: a list ends on the first, on the second or
  beyond. One change of any kind during a lookup. One lookup at a time, since lookups meet
  only through cancels.
- *Follows* (half of `stores`). Two ids of one fixture, two follows, two kickoffs and one result; three
  acts in any order, while comparing, repointing and delivering are not bounded: that
  is enough for an activation, a rollback and a restart, or for a rename, an unfollow
  and an activation. The initial follow spares two acts, and the initial kickoff is
  fixed (`FirstKickoff`): kickoffs are only compared for equality.
- *Match day.* Two ids, two kickoffs on different dates, two results, four times.
  `Budgets` is a choice of how often each kind of event happens: three picks with a
  publication and a fault; two seals, a result, a publication and a fault; a seal and
  two results with a publication; one of each. The mixed one lets a pick wait
  behind a settlement.
- *Overlay.* Three generations (active, previous, the next one), two contents, three
  requests or faults: the consent and any two of a new publication, a cancel, a rollback, a
  deletion, another setting, damage, a failing write and a restart; refreshes are not bounded.
  The theorem has no bound.
- *Match index* (half of `refresh_safety`). Two interchangeable readers of one key, two attempts and two moves: a read that is
  overtaken in each attempt, beside one that publishes what it began before. A memo and
  a directory of one entry make every publication evict. One of three generations has
  another schema and resolves to the bundled index.

Deadlock checking is off (`CHECK_DEADLOCK FALSE`) wherever jobs, changes,
publications and requests are bounded and a finished system stops; in `stores` it is on, and only
the follow store may come to rest (`Rests`). `refresh_concurrent` relies on its
liveness properties to find threads that wait for each other, which also finds it
when only some of them do.

## 4. Fairness

- `RefreshJobs!FairSpec`: weak fairness of the worker and of each handler thread
  that serves a request. The operating system schedules threads, and every network
  read has a time limit. No fairness for requests, crashes or failing writes.
- `SourceObservations!FairSpec`: weak fairness of the worker and of the passing of
  time; strong fairness of beginning a full manual refresh. The last is the user (or
  the scheduler) who asks again: without it nothing obliges anyone to look.
- `ArchiveRestore!FairSpec`: weak fairness of the holder of the lock; strong fairness
  of admitting a request, since the lock is not withheld for ever from a thread that
  waits for it and the interface keeps polling.
- `ResearchRuns!FairSpec`: weak fairness of the workers and of the registration of a
  job; weak fairness of the list of runs, which the panel of a match asks for
  whenever it is opened. A run nobody ever looks at again stays active.
- `MCStores!MCFairness`: that of `ArchiveRestore` and of `Follows`, each for its half.
- `ModelRuns!RunFairness`: weak fairness of each request thread. Every call of a provider has
  a timeout (the waiting for the local model ends with the call that holds it), and a
  web search a budget. No fairness of cancels. With `ResearchRuns!Fairness` it makes up
  `MCSpec` of `MCRuns`.
- `Follows!FollowFairSpec`: weak fairness of the worker, of the window's chain and of the
  second half of a rollback: code that runs goes on. Nothing else must happen; the
  window starts with a reconciliation because the application does.
- `MatchDay!FairSpec`: weak fairness of the steps of an operation that runs; strong
  fairness of beginning a settlement, the user who presses "Check results now" again
  and is not for ever outrun for the lock, and of the success of the first source's
  download: now and then it can be read. The second source may fail for ever.
- `Overlay!FairSpec`: weak fairness of a start while the overlay is on (the interface
  asks at launch and periodically), of what a start, a cancel, a rollback and a deletion still
  have to do, and of the workers; strong fairness of the steps of a job, which says that now and
  then one is due, gets `_LOCK` and meets no failure.
- `Updater!FairSpec`: weak fairness of the shell's steps. Waiting for the engine is
  bounded by time limits in `health.rs`; a user whose application does not work
  opens it again. `AnsweringSpec` adds strong fairness of a healthy answer: the
  hypothesis of the comment it tests, "still working".

## 5. Theorems

Proved with TLAPS, for all values of the constants that satisfy the named
assumptions of the modules (`NoGenAssumption`, `ThreadsAssumption`, `ChoicesAssumption`,
`SourcesAssumption`, `BadAssumption`, `BoundsAssumption`, `LanesAssumption`, `FilesAssumption`,
`OverlayAssumption`, `HindsightAssumption`, `StoresAssumption`, `NoBackupAssumption`, `FaultsAssumption`,
`CandidatesAssumption`, `NarrationAssumption`, `IndexAssumption`, `FollowAssumption`,
`SeasonAssumption`, `NotebookAssumption`, `ProviderAssumption`). `NoBackupAssumption` says that
an absent backup is no backup, `StoresAssumption` that the ledger is a store and not one a request
removes. `LanesAssumption` says that the ids of reads and replays are not
those of downloads, which have another prefix in the code, and that no client is `Nobody`.
`IndexAssumption` says that the bundle is a generation with the current schema, that the limits are
positive, and that no generation has the name of an answer or of a damaged file.
`FollowAssumption` says that the bundled match is a match, and that a follow fits in the bound.
`SeasonAssumption` says that each fixture has a kickoff, that a score is a pair of numbers and never
the absence of one, that deductions are whole points, and that the league relegates some teams but not
all. `NotebookAssumption` says that goals are counted and that a run of wins has the floor and the
staleness of an unbeaten run, or stricter ones (`registry.py:61-63`): otherwise a run of wins would be
told without the longer run around it. It also says that a seal has one of the three horizons of
`docs/contracts/forecast_artifact.schema.json:69`, which the guard knows, and an outcome that leads.
`ProviderAssumption` says what the code relies on of the provider and cannot see for itself: that
a list names a fixture or a transfer once and that transfers come in the order that is asked for
(`order=desc`), the latest first, also behind the last page that is read.
`CandidatesAssumption` says that a fixture key is of one kind, `NarrationAssumption` that the
numbers of a bundle have one name each and sources of the bundle, as `validate_evidence_bundle`
and the builders see to. `HindsightAssumption` says that the games of the calendar are finitely many and have a day
and a kickoff. Five theorems have a hypothesis beside them, which are values of their runs;
section 6 says what is false otherwise. `MaxFaults <= 1` in `LedgerIsServedWhole`
and `UpdatesAreSafe`: one operation may fail, at any point. `Serial` in the last three of `RefreshJobsProofs`
stands for `Overlap = FALSE` (no request begins while another is served, and no rollback while
a job lives; a cancel does), `MaxFaults = 0` (no write of `state.json` or of the pointer
fails) and `FollowsMayFail = FALSE` (the follow database raises nothing that ends the worker). Crashes, damage, sources and steps that raise, lost receipts and the number of
clients are free in all of them.

| Module | Theorem | Statement |
|---|---|---|
| `RefreshJobsProofs` | `TypeCorrect` | `Spec => []TypeOK` |
| | `BoundaryHolds` | `Spec => []RollbackBoundary` |
| | `OutcomeIsHonest` | `Spec => []HonestOutcome` |
| | `ReportsAreHonest` | `Serial => (Spec => []HonestReports)` |
| | `IndexFollows` | `Serial => (Spec => []IndexFollowsPointer)` |
| | `StoreIsImplemented` | `Serial => (Spec => ImplementsStore)` (refinement of `GenerationStore`) |
| `SourceObservationsProofs` | `QuarantineHolds` | `Spec => []QuarantineKeptOut` |
| | `GenerationsAreComplete` | `Spec => []GenerationComplete` |
| | `ResultsStay` | `CandSpec => EvidenceIsKept` |
| | `HarmlessIsNotRefused` | `CandSpec => []HarmlessPasses` |
| `ArchiveRestoreProofs` | `ArchiveTypeCorrect` | `Spec => []TypeOK` |
| | `RollBackStaysPossible` | `Spec => []CanRollBack` |
| | `RestoreIsAtomic` | `Spec => StoreSpec` (refinement of `LedgerStore`) |
| | `RestoresAreInformed` | `Spec => ReplaceIsInformed` |
| | `LedgerIsServedWhole` | `MaxFaults <= 1 => (Spec => []ServedWhole)` |
| | `HatchStaysOpen` | `Spec => EscapeHatch` |
| | `FollowsStayTrue` | `FollowSpec => FollowsAreTrue` |
| | `EventsAreSentOnce` | `FollowSpec => []SentOnce` |
| `UpdaterProofs` | `BackupIsFound` | `Spec => [](RecoveryBacked /\ NothingLost)` |
| | `UpdatesAreSafe` | `MaxFaults <= 1 => (Spec => []UpdateIsSafe)` |
| | `RestoresAreCurrent` | `Spec => NoStaleRestore` |
| | `RepairsAreComplete` | `Spec => RepairIsComplete` |
| | `ReadsAreHonest` | `IndexSpec => ReadIsHonest` |
| `MatchDayProofs` | `LedgerNeverSplits` | `Spec => []NothingSplits` |
| | `PicksAreInTime` | `Spec => NoPickAfterKickoff` |
| `OverlayProofs` | `GenerationsStay` | `Spec => []PointerBacked` |
| `RunsProofs` | `ReadsStayOwn` | `RunSpec => []ReadsAreOwn` |
| | `HistoryStaysSafe` | `Spec => HistoryIsSafe` (`Spec` of `ResearchRuns`) |
| `ClaimsProofs` | `NothingLeaks` | `HindSpec => []HindsightIsHonest` |
| | `CorrectionsStand` | `Spec => []CorrectionsHold` |
| | `ReadsAreBacked` | `NarrSpec => []ReadIsBacked` |
| | `EvidenceStaysClosed` | `NotebookSpec => []EvidenceIsClosed` |
| | `CutOffStaysSilent` | `ProviderSpec => []CancelledStaysSilent` (the first part of `LookupIsHonest`) |
| | `LookupsAreHonest` | `ProviderSpec => []LookupIsHonest` |
| | `SeasonsArePossible` | `SeasonSpec => []OutlookIsPossible` |

*Refresh.* `TypeOK` is not inductive: an update of a job needs a job, and settling a
marker needs the marker that was written. `TypeInv` adds `MoversMarked` (a thread
inside the write-ahead protocol has built a marker), `CandidateNamed` and
`JobPresent`. `BoundaryInv` adds
only that there is no previous without an active generation; its step rests on two
lemmas: `Swap` alone moves the pointer (`OnlySwapMoves`), and generations are never
removed (`GenerationsStay`). `OutcomeInv` relates the worker's
place to the history of who moved the pointer: `WorkerTells` (before the swap the
job has moved nothing, after it it has and will say so), `StartExcludes` (no start
replaces the job of a live worker) and `JobsNumbered` (job numbers are not reused).

*Reports, index and store.* A request that loads `state.json`, waits and saves could bring
back an old marker or an old job. `FileFits` says why it does not: what it loaded is still
there, or it is a cancel, which waits for a worker that waits for it. `MarkerFits` ties the
marker to the pointer: one that names the active generation is that of the change which
made it active, since nobody sets out to activate what is active (a build of an active
generation is possible only when that is damaged, and then its installation refuses). Both
rest on `Alone` and give `HonestReports`. `IndexFits` says that the index is `Right`, where the
pointer resolves to or in a generation damaged since, until a swap, and from its
repoint on; it also knows the index at a swap, after which a rollback may stop because
its target was damaged. For the refinement, `StampsFit` says that the time of an attempt is
nobody else's: no receipt has it before the change, and the account is "gap" between swap
and receipt. Each step is then one of the change of the pointer (`MovesAreStore`: intend,
change, receive, withdraw or a stutter) or beside it (`AsideIsStore`: install, damage or a
stutter).

*Observations.* `ObsInv`: references seen, active and previous are ordered; a
reference is observed as new only once; one that is new, or quarantined, is newer
than everything a generation holds; a generation holds all sources or none. Then
`QuarantineKeptOut` is a comparison of numbers.

*Candidates.* The gate compares ids, and the properties are about fixtures. `CandInv` says that
an id names one fixture in both indexes and in every seal: that of its own date and teams,
and for an international match of its venue (`RowsFit`). It survives a merge because a row is rekeyed
only where it is alone under its date and teams on both sides (`RekeyedFits`) and a retained row
shares its id with no new one. The same facts show that what is harmless passes: rekeying
gives a renamed fixture its old id and venue, so the gate finds the result and the seal.

*Archive.* `RestoreInv` says for each step of `op` what the directory and the ledger
hold (`Clean`, `Staging`, `Prepared`, `Applying`, `Undoing`, `Clearing`). From it,
`ViewStays` shows that every step of a restore or of its recovery leaves `View` as it
is, except the commit; `CommitIsRestore` that the commit changes it to the overlay of
the archive; `WriterWrites` that a thread's step changes one file in its turn.
`Informed` says that from the comparison of the token to the commit the preview
describes the archive and `View`. For `ServedWhole`, `Checked` says that the files of a restore
were rehearsed, so its replacement can only fail by a failing operation, and `Guarded` that a
transaction is left half applied, in a process that serves, only where its one
failure is already spent. For `EscapeHatch`, `WrittenOnce` says that a checkpoint has one content in
the ledger and in every archive, so an export that leaves out the checkpoints the head does
not reach still contains what an archive can replace; `Kept` follows the saved archive from
the export to the commit.

*Updater.* `Placed` says for each `pc` what the code there relies on: whose the backup is, that a
receipt goes with the marker, that the engine runs only in certain places. With it
`RecoveryBacked` is inductive. `Restored` follows a restore from store to store.
`NothingGone` is stronger than `NothingLost`: the newest content is in its place or beside it, so
the backups are never the only copy; it holds because a store is moved aside whole and a copy
only takes an empty place. `GapsKnown` says that a missing store is one whose restore was
cut short, that its marker and backup are there, and that the shell is where it fills the gap, or
has died. It is the one part that needs `MaxFaults <= 1`: a rename that fails and a move
back that fails leave a gap to a shell that goes on.

*Match day.* That a ledger does not split depends on what a thread still means to write.
`DayInv` says of every write under way what the lock it holds guarantees: the match id a
freeze carries has no locked record (`Decided`), the grade a settlement carries has a root
without a successor (`Ungraded`). Then a write adds the first record of its kind
(`OneRootPerId`, `OneGradePerRoot`). Pick and seal share the fixtures, the clock and the
lock, so one invariant covers both ledgers and the actions of each leave the other's
half alone. `NoPickAfterKickoff` needs no more than the types: the step that writes
compares again under `apply_if_snapshot_current`. What is compared is the time of the request;
that the write itself comes before the kickoff is no theorem (`NoLateWrite`, section 6). The
theorems are about one fixture, under any number of ids, and without void successors, which no
code path of the sidecar writes.

*Overlay.* `PointerBacked` fails inductively at a deletion, which removes trees the pointer
named a moment before. `NothingNamed` says that between its two steps the pointer is
empty and no worker is inside its job: the deletion owns `_LOCK` then. The worker's records are
typed by where it is; with that, a job that activates has its own tree on disk, and one
that prunes removes only what the new pair does not name.

*Reads.* An answer shown may be somebody else's, kept in the cache: `CacheFits` holds the
cache to what its keys say. A job id is looked up long after the check, so the lanes'
table has to agree with the workers in both directions (`Held`: who works on a tracked
id owns its active job; `Loose`: a job that is not active has no worker). An answer on its
way (`Telling`) already fits its request, pages only where research was wished for. The theorem
compares the bundle and the parts; which provider answered is a part of the cache key and of
nothing else. It speaks of one life of the process: cache and jobs are memory.

*Research.* `QueuedBacked` fails inductively where a handler marks a candidate it verified
earlier: `QueueHolds` says that what it verified holds as long as the candidate is there,
whoever removed rows or files meanwhile. `RacesAreSeen` says that a prune about to unlink a file
either counted right or was overtaken (`raced`), so that a file that goes from under a row is in
`lost`. Captures and files disappear only with or after their
candidates, but a candidate could come back: `FoundOnce` says that a document is found once in a
run, since its worker has it no longer to do. That a purge meets no worker is
`WorkersKnown`: who is at work has an active job.

*Hindsight.* What will be in the ledger is carried by the write under way, and what will be
answered by the memo of the replay (`LedgerInv`, `ReplayInv`). A seal is older than its game
only because every row of a pack is older than the pack (`PackIsPast`). A verified replay
compares stamps, not rows: `Stamped` and `Same` say that an index with the stamp of
the active pack has its rows, also one a replay took some time ago. The lemmas about `Day`
and `Before` (`RecordedEarlier`, `ProxiesCount`) are about division by the length of a
day and about cardinalities, for any such length.

*Corrections.* A verdict is committed later than it was reached, an acceptance goes by a row
that was read earlier, an export is recorded later than it was made. `Sees` says that a validation
whose proposal has not moved has seen its content; `Standing` are the proposals that passed
and are not torn, and those a validation under way will make so, torn or not, since its transaction starts over;
`OneStands` lets them agree. A transaction by a row that moved puts its proposal into `torn`, where
nothing is claimed of it, and one by the row that is there claims no more than the row did.
`ExportsFit` holds the exports in the making to the same as those of the table: one with the head of
its proposal shows it, torn or not. All transactions that start a proposal over share a lemma
(`StartsOver`), as do all that append an event (`EditKeeps`) and all that touch
no proposal (`StillKeeps`).

*Narration.* `ReadIsBacked` speaks of the reply as it was written, the review of the repaired
one. They meet in the references the repair chooses (`RefsFit`): each shares a source with what
the repaired sentence cites, so the review keeps them all (`FinalFits`), although it looks for a
display anywhere inside a token; and a number is displayed by one of them exactly when it is
backed (`TokensBacked`). The last step is about lanes and secrets (`ReviewIsBacked`). That a text is
searched for objects (`Extracted`) is a hypothesis of the property: what it finds in a text is
only model-checked.

*Notebook.* Whether a bundle can be quoted does not depend on what the templates count. A
candidate is a record that cites the pack (`ProposedAreNotes`); the guardrails let only what they
read through, under the source the notebook is kept with (`BuiltFits`), which is the snapshot's for
a notebook kept beside a seal. A number is found by its name, and the engine's names, facts and
sources are none of a note's (`EngineFits`, `BundleQuotes`). What an engine's fact mentions beside its
numbers is a fixed term or a name of the match, which the guard takes out of the text.
That notes agree is about counts. A pandas mask is a set of places of a table, in the model too
(`Mask`, `Where`), so every template counts a set of one and the same history: a run is the
longest interval at the end inside a mask (`LongestFits`), a run of wins lies within the unbeaten run
(`LongerRun`, `WinsAreUnbeaten`), the games of two runs are the shorter of the two and what both
masks share are draws (`DrawsAreShared`), and the last games of a rate hold the clean sheets of the run
(`LatestCounts`, `CleanRunsAgree`). Half-time masks share nothing (`HalfTimesTell`), and the goals in
form are goals of the table (`ScorersTell`). Every candidate is of the one template and the one team its id
says (`ProposedNotes`), so two notes that must agree were computed from the same games
(`ProposedAgree`). The guardrails drop notes and change no number (`TellingAgrees`), and no floor drops the unbeaten run
that a told run of wins needs (`ProposedAgree`, `BuiltKeeps`).
For the cap, the CHOOSE of `MostSpecific` has to be defined: of a finite set there are k
members of least weight (`LightestExist`), and weights are numbers (`OddWeighs`). The invariant
(`NotebookInv`) holds the kept sidecar to what a told notebook is held to, since it is told later.

*Provider.* `LookupsFit` says that a lookup that is on its way knows whether it was cancelled and that an
answered one was not. A cancellation marks all that is under way (`CancelsFit`), and every arrival
that goes on is of a lookup that was not cancelled (`HearsFit`). `LookupsHold` adds what the other
parts need. New rows only move rows down (`ListsGrow`), so a row that was listed when the first page
was asked for was read, or is further down than the pages that were read (`SearchHolds`,
`DeskHolds`). After the last page nothing is further down (`NothingAhead`): the fixtures that fitted
then were all seen, and where one was seen there was one (`SearchEnds`). A desk also stops at a row
that is before the window; nothing below that row is in the window (`ClosedAtLast`, `BelowPage`,
`DeskEnds`). Three live prices of a bookmaker for three outcomes are one for each (`OddsOneEach`).

*Season.* `SeasonInv` adds `LeagueRows`: the rows are finitely many, pair teams of the league, have one
row of each id and are as many as the pairs, or one less, also in a list that lacks a fixture or
pairs one wrong (`DefectsAreLeague`). A list that passes the certificate then has each pair once at each
one's ground (`CompleteIsLeague`). A fixture that is forced had no result (`ForcedWereOpen`) and is
not drawn again (`ForcedArePlayed`, `RunKeeps`), and what the table may see is what was known
by the cutoff and what is forced (`VisibleIsKnown`). The pulse cuts the rows into sets that share
nothing (`DisjointCardinality`, `PulseAgrees`). The simulator adds its draws to the table of the
cutoff, the standings engine counts all results: the two are equal since counts of disjoint sets of
results add up (`CountsAdd`, `GoalsAdd`, `TotalIsRow`); with every duel played, both compare the same keys
(`AllDuelsPlayed`, `OrderIsStandings`), and a play-off moves none but level teams (`PlayoffsAreLevel`).
The shares add up because the remainders are as many units' worth as are missing, so each missing
unit finds a remainder that is not nothing (`SharesFit`); a bracket of four is four terms a place
(`BracketIsOne`). Sums over sets are defined by CHOOSE; the lemmas about them (`SumsExist` to `SumOfFour`)
argue from a least counterexample, as the order of finite sets by inclusion is well-founded.

*Match index.* `ReadIsHonest` is about a step; what makes it true is what a read holds before it
(`Fits`): its snapshot is of the generation of its epoch, it is the cached pair if that epoch is the
current one, its work is of its snapshot, and it met another generation in each attempt but the last.
Hence an unchanged pair under the lock means an unchanged epoch (`CurrentSnapshot`), which the memo
and the disk cache cannot spoil: `MemoFits` and `FilesFit` tie their contents to their keys, also that
of a temporary file two writers share. The steps between `_entries[key] = value` and the trimming
run while nobody repoints, since they hold the lock, and only `reset` runs beside them
(`FitsAfterSwap`, `PublishTrimKeeps`).

*Follows.* `Explained` is what `HistoryExplains` needs of each follow: events are only added, and a
comparison records a change of kickoff or result with the row that has it (`ComparedFits`). That
the row is of the index that is read now is a matter of epochs: what the window read is of that index or
its epoch has passed (`SeenFits`), and a restart, which repoints without an epoch, forgets it.
`SentFits` makes `SentOnce` inductive: an event that was claimed or submitted is in the store and not
pending, or its follow was removed for good, so that nothing inserts it again (`SentAfterInsert`); and
a batch that is about to be submitted has nothing in it that was submitted before.
The model takes the newest follow of a match by a condition instead of by `CHOOSE`, which spares the
induction that a finite set of numbers has a greatest one.

## 6. Model-checked only, and what does not hold

Only model-checked: all liveness properties (the prover knows neither fairness nor
ENABLED), and what `Extracted` finds in a text. Every safety invariant of the runs is stated by a theorem.
The type invariant of `Corrections` is a definition to be proved about.
The theorems of the library that take an operator as a parameter are beyond the prover, so no proof is
an induction as such; sums over teams and the choice of the least notes were reached by a least
counterexample over finite sets. No module has a RECURSIVE operator.

Some statements hold only within the bounds of their run, and the models show why:

- With failing writes, cancels and failing receipts together `ImplementsStore` is
  false: a cancel that waits for the lock saves an old marker (hazard at
  `refresh_jobs.py:307`). Hence `MaxFaults = 0` in `refresh_safety`.
- With `FollowsMayFail = TRUE`, `HonestReports` and `ImplementsStore` are false too: a job that
  activated and whose worker then died leaves a state nobody wrote to the end. Hence `FALSE` in
  `refresh_safety`; `refresh_concurrent` has `TRUE`, where `HonestOutcome` holds.
- `JobsEnd` fails when both the result and the failure of a job cannot be saved, or when the
  follow database kills the worker (finding).
- `IndexFollowsPointer` fails when a rollback resolved the pointer before a job
  activated and repoints after it. Hence `Overlap = FALSE` in `refresh_safety`.
- A start that arrives while a finished worker unwinds is answered with the finished
  job; `Start` models it as no step.
- A missing receipt is forgotten when the next change is intended: there is one marker.
- `ServedWhole` fails with two failing operations: the replacement and its roll back.
- `EngineNeverRunsOverGap` fails with two: a rename and its compensation, followed
  by a restart, which runs no recovery.
- `UpdateSettles` names two states no launch leaves (`Wedged`).

Other statements somebody could expect, or that a comment makes, are not properties of
the code. Where a module defines them, a run of that module with them as its
property shows a counterexample within a few steps:

- *Refresh with overlap.* `HonestInterruption`: a rollback that overlaps a job saves an
  old job state, and a restart reports a job that activated as interrupted with
  "active data was unchanged" (`refresh_jobs.py:288-289`, `958-960`).
- *`SourceObservations!ConflictIsQuarantined`*: a check observes a reference first, then
  the refresh that conflicts quarantines nothing (`refresh_jobs.py:765`), although
  ADR-0007 lines 64-65 speak of a quarantined observation.
- *`Candidates!PlayedIsHarmless`*: a sealed fixture that `worldcup.json` reports as played
  before martj42 lists it is in no pack (`missing_fixtures` takes scheduled ones only), so
  the candidate removes it and is refused, and its sources are quarantined.
  *`SealsResolve`*: a rollback returns to an index without a fixture sealed since.
- *`Updater!PurgeIsFinal`*: a copy of the corrections set aside by a repair is taken, after
  the user removed them, for the remains of an interrupted restore (`updater.rs:909`).
  *`Updater!RelaunchWorks`*, under `AnsweringSpec`: the marker of a failed install stops the
  old version, which the comment at `updater.rs:1587-1588` calls working.
- *`ArchiveRestore!ChainSurvives`*: a death between the first checkpoint's record and the
  head leaves a chain that is refused for ever (`ledger_checkpoints.py:283`).
- *`ResearchRuns!OneWorker`*: a list between the commit of a run and the registration of its
  job takes it for interrupted, and the next POST starts a second worker, which the
  comment at `research/store.py:183-188` rules out. *`ReceiptsRetained`*: a candidate queued
  while `prune` is between its look and its deletion is deleted, and a file that a new row
  names is unlinked when the row comes between the count and the unlink
  (`research/store.py:529` promises to retain them; `HistoryIsSafe` states the exception).
- *Corrections.* *`NeverTorn`*: an acceptance, a withdrawal, a validation or an export goes by a row
  that has moved, which gives its state to another value or to a withdrawn proposal; what
  `CorrectionsHold` says of all other proposals may be false of these.
  *`KeptIsStored`*: an import that finds its text stored may commit
  between the count of a redaction and its unlink. *`ExportIsCurrent`*: a slow export records a
  proposal as exported that was revised and validated meanwhile. *`RedactedIsGone`*: a crash after
  the commit of a redaction leaves text and exports, and nothing unlinks them later. A proposal that
  never had evidence cannot be validated: the store refuses the state "draft" that the
  validation answers (`Verdict`, guarded in `BeginValidate`).
- *Job lanes.* The task of a download fails its job twice (`main.py:1000-1008`), so a job that
  was started again in between is failed by the old task: `JobsAreOwned` is about the other
  two lanes. The doors accept ids with the prefix of another lane, against the docstring of
  `Lane`; the interface does not use that. A read whose research failed is cached
  under the key of one with research.
- *`Narration!ReadIsBacked`* is about numbers a sentence says; a chip "45" appears beside a
  sentence with "45%" too, and one beside a number that is only part of a name, where
  `ai_gateway.py:1068` speaks of standing alone.
- *`Hindsight!NotebookIsBlind`*: the notebook on demand of an international with an exact
  kickoff counts goals of the match itself and of its whole day, since events are compared by
  bare dates, against `matches.py:13` and `1232-1234`. Dates without a kickoff count as days
  in UTC, and only the tournament replay discloses how many same-day rows it
  cannot order, though `snapshot.py:471-474` lets every caller do so.
- *Season.* A fixture without a result that begins at the cutoff itself is simulated, cannot
  be forced, is not listed as remaining, and counts as a gap in the pulse (`ViewsAgree`
  states the exception). The docstring of `standings.py` says the simulation reuses its
  engine; it has an order of its own, and `RunsArePossible` shows that they agree.
- *Notebook.* A team with digits in its name ("Schalke 04") makes the whole notebook
  unavailable (`facts/guardrails.py:35-49`); only opponents' names are protected. A seal's
  narrative has only the seal's sources and does not catch a failing validation, so a
  notebook beside it that cites another source would be answered with 500; seals compute
  theirs without the World Cup records (`seal.py:285-306`), so none does.
  Numbers of the council in a match bundle cite the notebook's first source, which for a
  notebook kept with a seal is the seal's snapshot, not the pack of the index as
  `main.py:3408` says. History is scoped by source, not by league. The fact of an abstained seal says "one side", which
  the guard takes for a number (`whitelist.py:103-106`): the model does not spell numbers.
- *`Provider!OffMeansOff`*: a lookup that reads the settings after a change has cancelled and
  before it has saved goes on with the connector off (`sportmonks.py:320-330`). Two changes at
  once overwrite each other; a deletion that is refused has cancelled all the same.
- *`Follows!RollbacksCatchUp`*: a rollback reconciles nothing and the window does not hear
  of it while it delivers. *`ReconcileNeverRaises`*: following the new id of a renamed
  match before the old follow is repointed makes the unique index raise in every
  reconciliation; the worker's thread dies of it, which is one of the errors behind the finding of
  `refresh_worker_dies`. *`ProvenanceIsTrue`*: between the move
  of the pointer and of the index an event names the wrong generation.
  *`SettlementIsOfTheMatch`*: a report goes by the names of the teams.
- *`Picks!OneLockPerFixture`, `Forecasts!OneRootPerFixture`*: a fixture that changes its id
  and its date may be locked, a fixture that changes its id sealed, under both.
  *`Picks!LockedAfterSaving`*: a kickoff brought forward gives a lock before the time the pick was made.
  *`NoLateWrite`*: a request that waited for the lock saves after the kickoff.
  *`Forecasts!GradedByAll`*: one readable source is enough to grade, and a grade is final.
- *`MatchIndex`*: `SnapshotReader.reset` runs after the lock was released
  (`matches.py:209-215`). A publication between its two clears leaves an entry that
  no eviction finds, so the memo may exceed its limit; one after them pops from an empty
  list and the request fails (`PublishTrim`). Two writers of a file share its
  temporary sibling, so a rename may take a torn file; it does not parse and is ignored.
- *`Overlay!DataNeedsConsent`*: a job that starts between the check of a deletion and its
  removal activates data afterwards. Once a cancel waits for the worker and the worker for the
  cancel (finding), a later start, deletion or change of settings waits as well: only a restart
  helps, and `OverlayCatchesUp` exempts it. *`InterruptedUnchanged`*: a crash after an activation
  is reported with "active overlay data was unchanged" (`openligadb_jobs.py:118-121`).

## 7. Findings

Three runs expect a violation; `PROJECT.json` quotes what expects otherwise.

- *Cancel of a running refresh* (`refresh_cancel_hangs`). Handler and worker take the coordinator's
  lock and the state lock in opposite orders, so the request and the job wait for each other
  for ever.
- *Cancel of a running overlay job* (`overlay_cancel_hangs`). The same order in
  `openligadb_jobs.py`: the worker owns `_LOCK` for its whole job and needs the coordinator's
  lock for each update, a cancel the other way round.
- *Error of the follow database* (`refresh_worker_dies`). `_reconcile_follows` takes four kinds of
  exception and sqlite's is none of them; nor do `_run_locked` and `_run` take it, or a
  `FollowError` of the two other calls into the follow store. The thread dies, the job that
  activated stays running until the next start.

The disagreements listed at the end of
section 6 were found the same way and are kept there with the definition that
shows each.

## 8. Not modelled

Within the modelled components: teams renamed by `former_names.csv`, repeat fixtures of one
day, tournaments, half-time scores and field provenance of candidate rows; HTTP, health labels and back-off delays; the file lock between
processes; zip parsing, validation, sizes and symbolic links of archives; archives
of other installations; the order in which files are visited (any order is
allowed); the updater's download engine, the unsigned fallback updater, markers
that cannot be parsed, a hung engine's orphaned child, two supervisors.

In the modules of the user's records: the typed checks of corrections, URL and text
sanitizing, several sources and targets at once; read marks, venues, export and times
of follows, the count of the three attempts of a reconciliation; goals, rivals, hashes
and audit logs of picks and seals (nothing reads the logs back), the model families
other than the sealed one, and the keys of results beyond their date: a bad row or a
conflicting duplicate is a failing download. Captures, extraction, ranking and the AI
step of a research run are a choice of how it goes on; the step from a queued
candidate to a proposal is `QueueMarks` on one side and `Create` on the other. In the
overlay: database, capture, health labels, receipts and the time of the next check,
which two threads may overwrite for each other without consequence for the data.

In the modules of claims: the numbers themselves (ratings, fits, log losses), whose
every draw is a choice; the wording of facts and prompts, lengths and
counts in a reply, depth and candidate facts as a second cache key; sidecar notebooks of an
older schema; the transports, the discovery of local models and their hardware checks;
which error a provider lookup ends with, deletions at the provider, and that eight
bookmakers are shown at most.

Components without a module: `context_registry.py` and the other bundled registries (read
only); the engine's statistics (floating point, tested numerically); scoring of picks,
proof and identity (small pure functions with exact tests); reading routes that only format;
the fallback updater; the other contexts and the components of the user interface.

## 9. Plan

Proofs first, since the models now cover the stateful components. Proved since the plan was
made: `OneHistory` and `OneLockPerMatch` together (`LedgerNeverSplits`), `PointerBacked`,
`JobsAreOwned` with the answers (`ReadsStayOwn`), `NothingFromTheFuture` with the replay
(`NothingLeaks`), `AnnotationStands` with the exports (`CorrectionsStand`), what is reported after a restart, the
index that is read and the refinement of `GenerationStore` (`ReportsAreHonest`,
`IndexFollows`, `StoreIsImplemented`), the served ledger and the
archive written before a restore (`LedgerIsServedWhole`, `HatchStaysOpen`), the update protection
(`BackupIsFound`, `UpdatesAreSafe`, `RestoresAreCurrent`, `RepairsAreComplete`), the
research history (`HistoryStaysSafe`), the gate of a candidate (`ResultsStay`,
`HarmlessIsNotRefused`), the review of a reply (`ReadsAreBacked`), the reads of the match
index (`ReadsAreHonest`), the follows (`FollowsStayTrue`, `EventsAreSentOnce`), the bundles
(`EvidenceStaysClosed`), the lookups (`CutOffStaysSilent`, `LookupsAreHonest`) and the views of a season
(`SeasonsArePossible`). No invariant is only model-checked any more.

Models next: the updater's download engine, joined to
`Updater` by its install guard; the artifacts a checkpoint lists, in `ArchiveRestore`;
a research candidate that becomes a proposal, composed of `ResearchRuns` and
`Corrections`.
