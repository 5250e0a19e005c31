---------------------------- MODULE ArchiveRestore ----------------------------
(***************************************************************************)
(* Export, preview and restore of the forecast-ledger archive and the      *)
(* recovery of an interrupted restore (personal_archive.py), with the      *)
(* checkpoint chain (ledger_checkpoints.py) and the other writers of the   *)
(* ledger, which share runtime.USER_STATE_LOCK.                            *)
(*                                                                         *)
(* The content of a draft is the number of the write that made it; the     *)
(* head holds the number of a checkpoint and the file of a checkpoint one  *)
(* more than the number of its predecessor; 0 is an absent file.  Content  *)
(* that fails validation, unsafe paths, the size limits and archives of    *)
(* other installations are left out.  A rename and the fsync of its        *)
(* directory either both happen or fail together.                          *)
(***************************************************************************)
EXTENDS Naturals

CONSTANTS
    Drafts,          \* the files the application's threads write
    HeadFile,        \* checkpoints/head.json
    MaxCheckpoints,  \* bound: checkpoints made
    MaxWrites,       \* bound: files written by threads
    MaxCrashes,      \* bound: crashes of the sidecar
    MaxFaults        \* bound: file operations that fail

Checkpoints == 1..MaxCheckpoints
Files == Drafts \cup {HeadFile} \cup Checkpoints

ASSUME BoundsAssumption ==
    /\ MaxCheckpoints \in Nat
    /\ MaxWrites \in Nat
    /\ MaxCrashes \in Nat
    /\ MaxFaults \in Nat
ASSUME FilesAssumption ==
    /\ Drafts \cap Nat = {}
    /\ HeadFile \notin Drafts \cup Nat

VARIABLES
    ledger,    \* the files of the ledger
    tx,        \* the directory of the restore transaction
    archive,   \* the archive the user keeps
    preview,   \* the last preview: what its token is a hash of
    saved,     \* the pre-restore archive written last
    op,        \* what the holder of USER_STATE_LOCK does, and what for
    todo,      \* files the current loop has yet to reach
    admitted,  \* some call of this process passed the middleware: threads run
    made,      \* checkpoints made
    writes,
    crashes,
    faults

vars == <<ledger, tx, archive, preview, saved, op, todo, admitted, made,
          writes, crashes, faults>>

Nothing == [f \in Files |-> 0]
Named(a) == {f \in Files : a[f] # 0}
Overlay(a, l) == [f \in Files |-> IF a[f] # 0 THEN a[f] ELSE l[f]]

-------------------------------------------------------------------------------
(* The checkpoint chain. *)

\* The checkpoints reached from one by the predecessor links, 0 standing for
\* a link to a file that is absent.
Reached(l) ==
    LET reached[k \in 0..MaxCheckpoints] ==
            IF k = 0 THEN {}
            ELSE IF l[k] = 0 THEN {0}
            ELSE {k} \cup reached[l[k] - 1]
    IN reached[l[HeadFile]]

\* ledger_checkpoints.status returns: without a head there are no records,
\* and from a head the chain leads through records that are all there.
Verifies(l) ==
    IF l[HeadFile] = 0
    THEN \A k \in Checkpoints : l[k] = 0
    ELSE 0 \notin Reached(l)

\* An export: of the checkpoints, those the head leads to.
Exported(l) ==
    [f \in Files |-> IF f \in Checkpoints \ Reached(l) THEN 0 ELSE l[f]]

-------------------------------------------------------------------------------
(* The transaction directory.  phase is the journal's, "none" without a    *)
(* journal; entries are the journal's files; copies are the files under    *)
(* backup/.                                                                *)

NoTx == [there |-> FALSE, phase |-> "none", entries |-> {}, existed |-> {},
         copies |-> Nothing]

Phases == {"none", "prepared", "applying", "committed", "rolled_back"}

\* The ledger as it is once a pending restore is rolled back.
RolledBack(l) ==
    [f \in Files |->
        IF f \notin tx.entries THEN l[f]
        ELSE IF f \in tx.existed THEN tx.copies[f] ELSE 0]

\* The ledger the owner has: a restore counts from its "committed" on.
View == IF tx.phase = "applying" THEN RolledBack(ledger) ELSE ledger

Idle == [at |-> "free", for |-> "free"]
At(step) == op' = [op EXCEPT !.at = step]
Done == op' = Idle

-------------------------------------------------------------------------------
Init ==
    /\ ledger = Nothing
    /\ tx = NoTx
    /\ archive = Nothing
    /\ preview = [of |-> Nothing, local |-> Nothing]
    /\ saved = Nothing
    /\ op = Idle
    /\ todo = {}
    /\ admitted = FALSE
    /\ made = 0
    /\ writes = 0
    /\ crashes = 0
    /\ faults = 0

bounds == <<writes, crashes, faults>>

\* A call takes the lock and recovers first: the middleware for every request,
\* and export, preview and restore once more on their own.
Call(x) ==
    /\ op = Idle
    /\ op' = [at |-> "recover", for |-> x]
    /\ UNCHANGED <<ledger, tx, archive, preview, saved, todo, admitted, made, bounds>>

\* Fault: a directory whose journal is gone is taken for no restore at all.
RecoverJournalled ==
    /\ op.at = "recover"
    /\ IF tx.phase = "none" THEN At(op.for) /\ UNCHANGED todo
       ELSE IF tx.phase = "applying" THEN At("undo") /\ todo' = tx.entries
       ELSE At("clear") /\ UNCHANGED todo
    /\ UNCHANGED <<ledger, tx, archive, preview, saved, admitted, made, bounds>>

\* _recover_unlocked: nothing to do, a directory to remove, or files to undo.
Recover ==
    /\ op.at = "recover"
    /\ IF ~tx.there THEN At(op.for) /\ UNCHANGED todo
       ELSE IF tx.phase = "applying" THEN At("undo") /\ todo' = tx.entries
       ELSE At("clear") /\ UNCHANGED todo
    /\ UNCHANGED <<ledger, tx, archive, preview, saved, admitted, made, bounds>>

\* A missing copy ends the call with an error and leaves the directory.
UndoFile(f) ==
    /\ op.at = "undo"
    /\ f \in todo
    /\ IF f \in tx.existed /\ tx.copies[f] = 0
       THEN Done /\ todo' = {} /\ UNCHANGED ledger
       ELSE /\ ledger' = [ledger EXCEPT ![f] = IF f \in tx.existed THEN tx.copies[f] ELSE 0]
            /\ todo' = todo \ {f}
            /\ UNCHANGED op
    /\ UNCHANGED <<tx, archive, preview, saved, admitted, made, bounds>>

\* Fault: the directory is removed without "rolled_back" being written first.
UndoneUnmarked ==
    /\ op.at = "undo"
    /\ todo = {}
    /\ At("clear")
    /\ UNCHANGED <<ledger, tx, archive, preview, saved, todo, admitted, made, bounds>>

UndoDone ==
    /\ op.at = "undo"
    /\ todo = {}
    /\ tx' = [tx EXCEPT !.phase = "rolled_back"]
    /\ At("clear")
    /\ UNCHANGED <<ledger, archive, preview, saved, todo, admitted, made, bounds>>

\* _remove_recovery: rmtree takes the files one by one, in any order, and the
\* directory last.
ClearFile ==
    /\ op.at = "clear"
    /\ \/ tx.phase # "none" /\ tx' = [tx EXCEPT !.phase = "none", !.entries = {}, !.existed = {}]
       \/ \E f \in Named(tx.copies) : tx' = [tx EXCEPT !.copies[f] = 0]
    /\ UNCHANGED <<ledger, archive, preview, saved, op, todo, admitted, made, bounds>>

Cleared ==
    /\ op.at = "clear"
    /\ tx = [NoTx EXCEPT !.there = TRUE]
    /\ tx' = NoTx
    /\ At(op.for)
    /\ UNCHANGED <<ledger, archive, preview, saved, todo, admitted, made, bounds>>

-------------------------------------------------------------------------------
(* The calls, once recovery is done. *)

\* The middleware lets the request through to a handler.
Admit ==
    /\ op.at = "admit"
    /\ Done
    /\ admitted' = TRUE
    /\ UNCHANGED <<ledger, tx, archive, preview, saved, todo, made, bounds>>

\* export_archive raises when the checkpoint chain does not verify.
Export ==
    /\ op.at = "export"
    /\ Done
    /\ archive' = IF Verifies(ledger) THEN Exported(ledger) ELSE archive
    /\ UNCHANGED <<ledger, tx, preview, saved, todo, admitted, made, bounds>>

\* Fault: the token covers the archive alone.
TokenOfArchive == [of |-> archive, local |-> Nothing]

\* _restore_preview_token: the archive's content and the local content of the
\* files it names.
Token == [of    |-> archive,
          local |-> [f \in Files |-> IF f \in Named(archive) THEN ledger[f] ELSE 0]]

Preview ==
    /\ op.at = "preview"
    /\ Done
    /\ preview' = Token
    /\ UNCHANGED <<ledger, tx, archive, saved, todo, admitted, made, bounds>>

\* restore_archive, the checks: the rehearsed chain verifies and the token is
\* that of the preview (whose conflicts the user confirmed).
MayRestore ==
    /\ Named(archive) # {}
    /\ Verifies(Overlay(archive, ledger))
    /\ preview = Token

RestoreCheck ==
    /\ op.at = "restore"
    /\ IF MayRestore THEN At("save") ELSE Done
    /\ UNCHANGED <<ledger, tx, archive, preview, saved, todo, admitted, made, bounds>>

\* Fault: a pre-restore backup already there is kept.
SaveBeforeOnce ==
    /\ op.at = "save"
    /\ saved' = IF saved # Nothing THEN saved
                ELSE IF Verifies(ledger) THEN Exported(ledger) ELSE ledger
    /\ At("mkdir")
    /\ UNCHANGED <<ledger, tx, archive, preview, todo, admitted, made, bounds>>

\* The pre-restore backup: an export, or the raw files when that raises.
SaveBefore ==
    /\ op.at = "save"
    /\ saved' = IF Verifies(ledger) THEN Exported(ledger) ELSE ledger
    /\ At("mkdir")
    /\ UNCHANGED <<ledger, tx, archive, preview, todo, admitted, made, bounds>>

\* Fault: the directory is left to be made with the first staged file.
MakeRootLater ==
    /\ op.at = "mkdir"
    /\ todo' = Named(archive)
    /\ At("stage")
    /\ UNCHANGED <<ledger, tx, archive, preview, saved, admitted, made, bounds>>

\* mkdir(exist_ok=False).
MakeRoot ==
    /\ op.at = "mkdir"
    /\ IF tx.there THEN Done /\ UNCHANGED <<tx, todo>>
       ELSE /\ tx' = [tx EXCEPT !.there = TRUE]
            /\ todo' = Named(archive)
            /\ At("stage")
    /\ UNCHANGED <<ledger, archive, preview, saved, admitted, made, bounds>>

\* Stages the file and copies the local one to backup/ if there is one.
StageFile(f) ==
    /\ op.at = "stage"
    /\ f \in todo
    /\ tx' = [tx EXCEPT !.copies[f] = ledger[f]]
    /\ todo' = todo \ {f}
    /\ UNCHANGED <<ledger, archive, preview, saved, op, admitted, made, bounds>>

Prepare ==
    /\ op.at = "stage"
    /\ todo = {}
    /\ tx' = [tx EXCEPT !.phase = "prepared", !.entries = Named(archive),
                        !.existed = Named(archive) \cap Named(ledger)]
    /\ At("begin")
    /\ UNCHANGED <<ledger, archive, preview, saved, todo, admitted, made, bounds>>

\* Fault: files are replaced under the journal that says "prepared".
BeginUnmarked ==
    /\ op.at = "begin"
    /\ todo' = Named(archive)
    /\ At("apply")
    /\ UNCHANGED <<ledger, tx, archive, preview, saved, admitted, made, bounds>>

BeginApply ==
    /\ op.at = "begin"
    /\ tx' = [tx EXCEPT !.phase = "applying"]
    /\ todo' = Named(archive)
    /\ At("apply")
    /\ UNCHANGED <<ledger, archive, preview, saved, admitted, made, bounds>>

ApplyFile(f) ==
    /\ op.at = "apply"
    /\ f \in todo
    /\ ledger' = [ledger EXCEPT ![f] = archive[f]]
    /\ todo' = todo \ {f}
    /\ UNCHANGED <<tx, archive, preview, saved, op, admitted, made, bounds>>

\* The chain of the live ledger is verified before the journal says
\* "committed"; a chain that fails is rolled back.
Commit ==
    /\ op.at = "apply"
    /\ todo = {}
    /\ IF Verifies(ledger)
       THEN tx' = [tx EXCEPT !.phase = "committed"] /\ op' = [at |-> "clear", for |-> "free"]
       ELSE UNCHANGED tx /\ op' = [at |-> "recover", for |-> "free"]
    /\ UNCHANGED <<ledger, archive, preview, saved, todo, admitted, made, bounds>>

-------------------------------------------------------------------------------
(* Threads past the middleware: handlers that waited for the lock and the  *)
(* worker of a refresh job, which reconciles follows.  They do not recover.*)

TakeLock ==
    /\ admitted
    /\ op = Idle
    /\ At("thread")
    /\ UNCHANGED <<ledger, tx, archive, preview, saved, todo, admitted, made, bounds>>

\* A draft is written or deleted.
ThreadWrite(f) ==
    /\ op.at = "thread"
    /\ writes < MaxWrites
    /\ writes' = writes + 1
    /\ \E c \in {0, writes + 1} : ledger' = [ledger EXCEPT ![f] = c]
    /\ Done
    /\ UNCHANGED <<tx, archive, preview, saved, todo, admitted, made, crashes, faults>>

ThreadRead ==
    /\ op.at = "thread"
    /\ Done
    /\ UNCHANGED <<ledger, tx, archive, preview, saved, todo, admitted, made, bounds>>

\* ledger_checkpoints.create: the record first, if the chain verifies ...
WriteRecord ==
    /\ op.at = "thread"
    /\ made < MaxCheckpoints
    /\ Verifies(ledger)
    /\ made' = made + 1
    /\ ledger' = [ledger EXCEPT ![made + 1] = ledger[HeadFile] + 1]
    /\ At("link")
    /\ UNCHANGED <<tx, archive, preview, saved, todo, admitted, bounds>>

\* ... then the head.
WriteHead ==
    /\ op.at = "link"
    /\ ledger' = [ledger EXCEPT ![HeadFile] = made]
    /\ Done
    /\ UNCHANGED <<tx, archive, preview, saved, todo, admitted, made, bounds>>

-------------------------------------------------------------------------------
(* Failures. *)

\* Fault: no error is caught while files are applied.
FaultUncaught ==
    /\ faults < MaxFaults
    /\ faults' = faults + 1
    /\ op.at \in {"undo", "clear", "save", "mkdir", "stage", "begin", "apply", "link"}
    /\ Done
    /\ ledger' = IF op.at = "link" THEN [ledger EXCEPT ![made] = 0] ELSE ledger
    /\ todo' = {}
    /\ UNCHANGED <<tx, archive, preview, saved, admitted, made, writes, crashes>>

\* A file operation fails.  While files are applied the restore recovers and
\* raises; a checkpoint whose head cannot be written takes its record back; an
\* error anywhere else ends the call where it is.
Fault ==
    /\ faults < MaxFaults
    /\ faults' = faults + 1
    /\ op.at \in {"undo", "clear", "save", "mkdir", "stage", "begin", "apply", "link"}
    /\ op' = IF op.at = "apply" THEN [at |-> "recover", for |-> "free"] ELSE Idle
    /\ ledger' = IF op.at = "link" THEN [ledger EXCEPT ![made] = 0] ELSE ledger
    /\ todo' = {}
    /\ UNCHANGED <<tx, archive, preview, saved, admitted, made, writes, crashes>>

Crash ==
    /\ crashes < MaxCrashes
    /\ crashes' = crashes + 1
    /\ op' = Idle
    /\ todo' = {}
    /\ admitted' = FALSE
    /\ UNCHANGED <<ledger, tx, archive, preview, saved, made, writes, faults>>

Calls == {"admit", "export", "preview", "restore"}

Recovery ==
    \/ Recover
    \/ \E f \in Files : UndoFile(f)
    \/ UndoDone
    \/ ClearFile
    \/ Cleared

Restoring ==
    \/ RestoreCheck
    \/ SaveBefore
    \/ MakeRoot
    \/ \E f \in Files : StageFile(f)
    \/ Prepare
    \/ BeginApply
    \/ \E f \in Files : ApplyFile(f)
    \/ Commit

Thread ==
    \/ \E f \in Drafts : ThreadWrite(f)
    \/ ThreadRead
    \/ WriteRecord
    \/ WriteHead

\* The holder of the lock proceeds.
Holder == Recovery \/ Restoring \/ Thread \/ Admit \/ Export \/ Preview

Next ==
    \/ \E x \in Calls : Call(x)
    \/ TakeLock
    \/ Holder
    \/ Fault
    \/ Crash

Spec == Init /\ [][Next]_vars

\* A thread that holds the lock runs on and releases it, and a request of the
\* application is not kept from the lock for ever.
FairSpec == Spec /\ WF_vars(Holder) /\ SF_vars(Call("admit"))

-------------------------------------------------------------------------------
(* Properties. *)

Steps == {"free", "recover", "undo", "clear", "save", "mkdir", "stage", "begin",
          "apply", "thread", "link"} \cup Calls

Ledgers == [Files -> Nat]

DiskTyped == ledger \in Ledgers /\ archive \in Ledgers /\ saved \in Ledgers

TxTyped ==
    /\ tx \in [there : BOOLEAN, phase : Phases, entries : SUBSET Files,
               existed : SUBSET Files, copies : Ledgers]
    /\ tx.there \/ tx = NoTx

CallTyped ==
    /\ preview \in [of : Ledgers, local : Ledgers]
    /\ op \in [at : Steps, for : Calls \cup {"free"}]
    /\ todo \subseteq Files
    /\ admitted \in BOOLEAN

Counted ==
    /\ made \in 0..MaxCheckpoints
    /\ writes \in 0..MaxWrites
    /\ crashes \in 0..MaxCrashes
    /\ faults \in 0..MaxFaults

\* Every variable is what its declaration says, and there is no journal or copy
\* without the directory of the transaction.
TypeOK == DiskTyped /\ TxTyped /\ CallTyped /\ Counted

\* Whoever reads or writes the ledger under the lock, other than the restore
\* and the recovery, has the ledger the owner has and never a half-restored
\* one (runtime.py: the shared lock keeps a restore from racing a follow, a
\* pick or a settlement; recover_pending: before serving ledger state).
ServedWhole ==
    op.at \in Calls \cup {"thread", "link"} => ledger = View

\* A restore that has begun to replace files can be rolled back: every file
\* it replaces is still there or has its copy, whatever part of the directory
\* a removal, a failure or a crash has left.
CanRollBack ==
    tx.phase = "applying" => tx.existed \subseteq Named(tx.copies)

\* The ledger the owner has changes by the threads' writes and by whole restores
\* of the archive: crashes and failures included, a restore happens at its
\* "committed" or not at all.
Turn == IF op.at \in {"thread", "link"} THEN "writer" ELSE "keeper"
Store == INSTANCE LedgerStore WITH ledger <- View, turn <- Turn
StoreSpec == Store!Spec

Commits == tx.phase = "applying" /\ tx'.phase = "committed"

\* A restore replaces nothing the user has not seen in a preview of that very
\* archive: what it changes is as the preview showed it (the token is compared
\* under the lock that the restore is made under).
ReplaceIsInformed ==
    [][Commits => \A f \in Files :
          View'[f] # View[f] => preview.of = archive /\ preview.local[f] = View[f]]_vars

\* What a restore replaces is in the pre-restore archive it leaves behind.
EscapeHatch ==
    [][Commits => \A f \in Named(View) :
                    View'[f] # View[f] => saved[f] = View[f]]_vars

\* An interrupted restore does not stay: while requests come, its directory
\* goes away and the ledger is served again.
RestoreSettles == []<>(~tx.there /\ op.at = "free")

\* A crash leaves the checkpoint chain verifiable: the chain is refused only
\* as evidence of changed bytes (ledger_checkpoints.create).
ChainSurvives == op.at = "free" => Verifies(View)

===============================================================================
