------------------------------- MODULE Updater -------------------------------
(***************************************************************************)
(* The desktop shell's update protection: updater.rs (backup, markers,     *)
(* retirement, recovery, repair) and lib.rs (launch, supervision, restart),*)
(* over the user's stores beneath the application data directory.          *)
(*                                                                         *)
(* Every rename, marker write and marker removal is a step, the process    *)
(* may die between any two, and any of them may fail.  Stores are numbered *)
(* in the order the code handles them (1 is the ledger); the content of a  *)
(* store is the number of the write that made it, 0 if the directory is    *)
(* absent.  An install attempt, the release it offers and its marker's     *)
(* at_epoch share one number, so pending, a backup and a receipt belong    *)
(* together when their numbers are equal.                                  *)
(*                                                                         *)
(* Left out: the download engine; a marker that cannot be parsed; a stop   *)
(* that leaves the frozen child of a hung sidecar alive (Windows); and two *)
(* supervisors at once, which the interface's time limits keep apart.      *)
(***************************************************************************)
EXTENDS Naturals

CONSTANTS
    NStores,     \* ledger, corrections, research
    Purgeable,   \* the stores a request can remove as a whole (corrections)
    NoBackup,    \* no directory at the armed path
    MaxUpdates,  \* bound: install attempts
    MaxWrites,   \* bound: writes to one store
    MaxCrashes,  \* bound: times the shell dies outside a rest state
    MaxFaults    \* bound: operations on files, and installs, that fail

Stores == 1..NStores
Ledger == 1

ASSUME StoresAssumption == NStores \in Nat \ {0} /\ Purgeable \subseteq Stores \ {Ledger}
ASSUME BoundsAssumption ==
    MaxUpdates \in Nat /\ MaxWrites \in Nat /\ MaxCrashes \in Nat /\ MaxFaults \in Nat
ASSUME NoBackupAssumption == NoBackup \notin [at : Nat, data : [Stores -> Nat]]

VARIABLES
    (* disk *)
    app,       \* the version installed
    live,      \* the content of each store
    aside,     \* the contents under <store>.pre-restore-*
    orphans,   \* the stores with a <store>.restoring-* left behind
    armed,     \* the backup at backups/pre-update
    shelf,     \* backups under retired, unarmed and preserved names
    pending,   \* pending-update.json, 0 if there is none
    receipt,   \* pending-backup-retirement.json, 0 if there is none
    (* processes *)
    pc,        \* where the shell is
    running,   \* the version of the running shell
    sidecar,   \* whether the engine runs
    turn,      \* the store the current loop has reached
    moved,     \* what the restore of this store moved aside
    (* bookkeeping *)
    attempts, crashes, faults,
    made,      \* writes to each store so far
    last,      \* history: the newest content of each store, 0 if removed
    settled    \* history: updates that were verified or repaired

diskVars  == <<app, live, aside, orphans, armed, shelf, pending, receipt>>
stores    == <<live, aside, orphans>>
backups   == <<armed, shelf, receipt>>
procVars  == <<pc, running, sidecar, turn, moved>>
bookVars  == <<attempts, crashes, faults, made, last, settled>>
vars      == <<diskVars, procVars, bookVars>>

Init ==
    /\ app = 0
    /\ live = [s \in Stores |-> 0]
    /\ aside = [s \in Stores |-> {}]
    /\ orphans = {}
    /\ armed = NoBackup
    /\ shelf = {}
    /\ pending = 0
    /\ receipt = 0
    /\ pc = "off"
    /\ running = 0
    /\ sidecar = FALSE
    /\ turn = 1
    /\ moved = 0
    /\ attempts = 0
    /\ crashes = 0
    /\ faults = 0
    /\ made = [s \in Stores |-> 0]
    /\ last = [s \in Stores |-> 0]
    /\ settled = {}

Goto(label) == pc' = label
Fault == faults < MaxFaults /\ faults' = faults + 1
NoFault == UNCHANGED <<attempts, crashes, faults, made, last, settled>>
FaultOnly == Fault /\ UNCHANGED <<attempts, crashes, made, last, settled>>

OnShelf(n) == \E b \in shelf : b.at = n

\* Moving the armed directory to a name of its own, and back.
Shelve ==
    /\ armed' = NoBackup
    /\ shelf' = shelf \cup {armed}
Rearm(n) ==
    /\ armed' = CHOOSE b \in shelf : b.at = n
    /\ shelf' = {b \in shelf : b.at # n}

(***************************************************************************)
(* The sidecar and the user.                                               *)
(***************************************************************************)
Write(s) ==
    /\ sidecar
    /\ made[s] < MaxWrites
    /\ made' = [made EXCEPT ![s] = @ + 1]
    /\ live' = [live EXCEPT ![s] = made'[s]]
    /\ last' = [last EXCEPT ![s] = made'[s]]
    /\ UNCHANGED <<app, aside, orphans, backups, pending, procVars, attempts, crashes,
                   faults, settled>>

\* correction_store.purge; the interface opens as soon as /health answers.
Purge(s) ==
    /\ sidecar
    /\ pc # "waiting"
    /\ s \in Purgeable
    /\ live[s] # 0
    /\ live' = [live EXCEPT ![s] = 0]
    /\ last' = [last EXCEPT ![s] = 0]
    /\ UNCHANGED <<app, aside, orphans, backups, pending, procVars, attempts, crashes,
                   faults, made, settled>>

\* Any release can be downloaded and installed by hand while Golavo is closed.
ManualInstall(v) ==
    /\ pc = "off"
    /\ v \in 0..attempts
    /\ app' = v
    /\ UNCHANGED <<stores, backups, pending, procVars, bookVars>>

(***************************************************************************)
(* Launch: recover_interrupted_restore, then the engine.                   *)
(***************************************************************************)
Launch ==
    /\ pc = "off"
    /\ running' = app
    /\ Goto("recover")
    /\ UNCHANGED <<diskVars, sidecar, turn, moved, bookVars>>

\* reconcile_backup_retirement, called on launch, before finalizing and before
\* repairing.  What the receipt names must exist under exactly one name.
ReceiptUsable ==
    /\ pending # 0 => receipt = pending
    /\ (armed # NoBackup) # OnShelf(receipt)

\* Where the exact generation belongs: armed as long as the marker stands.
ReceiptAgrees == IF pending # 0 THEN armed # NoBackup ELSE OnShelf(receipt)

Reconciling == pc \in {"recover", "finalize", "repair"} /\ receipt # 0

\* Mutant of ReconcileMove: a retired generation is not armed again.
ReconcileMoveRetireOnly ==
    /\ Reconciling
    /\ ReceiptUsable
    /\ ~ReceiptAgrees
    /\ pending = 0
    /\ Shelve
    /\ UNCHANGED <<app, stores, pending, receipt, procVars>>
    /\ NoFault

ReconcileMove ==
    /\ Reconciling
    /\ ReceiptUsable
    /\ ~ReceiptAgrees
    /\ IF pending # 0 THEN Rearm(receipt) ELSE Shelve
    /\ UNCHANGED <<app, stores, pending, receipt, procVars>>
    /\ NoFault

ReconcileClear ==
    /\ Reconciling
    /\ ReceiptUsable
    /\ ReceiptAgrees
    /\ receipt' = 0
    /\ UNCHANGED <<app, stores, armed, shelf, pending, procVars>>
    /\ NoFault

\* On launch an error ends setup and with it the process; later it ends in the
\* failure screen, with the engine stopped.
GiveUp ==
    /\ Goto(IF pc \in {"recover", "stores"} THEN "off" ELSE "failed")
    /\ sidecar' = FALSE
    /\ UNCHANGED <<running, turn, moved>>

ReconcileFails ==
    /\ Reconciling
    /\ IF ReceiptUsable THEN FaultOnly ELSE NoFault
    /\ GiveUp
    /\ UNCHANGED diskVars

\* No marker: whatever lies at the armed path is put away, if that succeeds.
RecoverUnarmed ==
    /\ pc = "recover"
    /\ receipt = 0
    /\ pending = 0
    /\ \/ armed = NoBackup /\ NoFault /\ UNCHANGED <<armed, shelf>>
       \/ armed # NoBackup /\ NoFault /\ Shelve
       \/ armed # NoBackup /\ FaultOnly /\ UNCHANGED <<armed, shelf>>
    /\ Goto("spawn")
    /\ UNCHANGED <<app, stores, pending, receipt, running, sidecar, turn, moved>>

RecoverPending ==
    /\ pc = "recover"
    /\ receipt = 0
    /\ pending # 0
    /\ Goto(IF armed # NoBackup THEN "stores" ELSE "off")
    /\ turn' = 1
    /\ UNCHANGED <<diskVars, running, sidecar, moved, bookVars>>

\* Mutant of NextStore: one store too many.
NextStoreLate(after) ==
    /\ turn' = turn + 1
    /\ Goto(IF turn > NStores THEN after ELSE pc)
    /\ UNCHANGED <<running, sidecar, moved>>

\* The stores are handled in order, and then the shell goes on.
NextStore(after) ==
    /\ turn' = turn + 1
    /\ Goto(IF turn = NStores THEN after ELSE pc)
    /\ UNCHANGED <<running, sidecar, moved>>

\* recover_component: a missing store is rebuilt from the backup, or else an
\* aside copy takes its place (the one whose name sorts last: the process
\* number comes first in it, so not always the newest).
RecoverStore ==
    /\ pc = "stores"
    /\ IF live[turn] # 0 THEN UNCHANGED <<live, aside>>
       ELSE IF armed.data[turn] # 0
         THEN /\ live' = [live EXCEPT ![turn] = armed.data[turn]]
              /\ UNCHANGED aside
       ELSE IF aside[turn] # {}
         THEN \E n \in aside[turn] :
                /\ live' = [live EXCEPT ![turn] = n]
                /\ aside' = [aside EXCEPT ![turn] = @ \ {n}]
       ELSE turn \notin orphans /\ UNCHANGED <<live, aside>>
    /\ NextStore("spawn")
    /\ UNCHANGED <<app, orphans, backups, pending>>
    /\ NoFault

\* A copy or a rename fails, or only a partial staging copy is left.
RecoverStoreFails ==
    /\ pc = "stores"
    /\ live[turn] = 0
    /\ \/ armed.data[turn] # 0 /\ FaultOnly /\ orphans' \in {orphans, orphans \cup {turn}}
       \/ armed.data[turn] = 0 /\ aside[turn] # {} /\ FaultOnly /\ UNCHANGED orphans
       \/ armed.data[turn] = 0 /\ aside[turn] = {} /\ turn \in orphans
            /\ NoFault /\ UNCHANGED orphans
    /\ GiveUp
    /\ UNCHANGED <<app, live, aside, backups, pending>>

\* create_dir_all(ledger), then spawn_sidecar.
Spawn ==
    /\ pc = "spawn"
    /\ IF live[Ledger] = 0
       THEN /\ made' = [made EXCEPT ![Ledger] = @ + 1]
            /\ live' = [live EXCEPT ![Ledger] = made'[Ledger]]
            /\ last' = [last EXCEPT ![Ledger] = made'[Ledger]]
       ELSE UNCHANGED <<made, live, last>>
    /\ sidecar' = TRUE
    /\ Goto("waiting")
    /\ UNCHANGED <<app, aside, orphans, backups, pending, running, turn, moved, attempts, crashes,
                   faults, settled>>

(***************************************************************************)
(* supervise_launch                                                        *)
(***************************************************************************)
\* /health answers.  With a marker, a version other than the one expected
\* stops the engine, and the right one has its protected stores probed.
Healthy ==
    /\ pc = "waiting"
    /\ IF pending \in {0, running}
       THEN /\ Goto(IF pending = 0 THEN "ready" ELSE "readiness")
            /\ UNCHANGED sidecar
       ELSE Goto("failed") /\ sidecar' = FALSE
    /\ UNCHANGED <<diskVars, running, turn, moved, bookVars>>

\* The engine exits or does not answer in time; so it does when it is asked
\* for readiness.  Only a slow launch without a marker is left running.
Unhealthy ==
    /\ pc \in {"waiting", "readiness"}
    /\ Goto(IF pending = 0 THEN "failed" ELSE "repair")
    /\ sidecar' = FALSE
    /\ UNCHANGED <<diskVars, running, turn, moved, bookVars>>

SlowLaunch ==
    /\ pc = "waiting"
    /\ pending = 0
    /\ Goto("failed")
    /\ UNCHANGED <<diskVars, running, sidecar, turn, moved, bookVars>>

StoresReadable ==
    /\ pc = "readiness"
    /\ Goto("finalize")
    /\ UNCHANGED <<diskVars, running, sidecar, turn, moved, bookVars>>

\* restart_sidecar: no recovery, no directory made.
Restart ==
    /\ pc = "failed"
    /\ sidecar' = TRUE
    /\ Goto("waiting")
    /\ UNCHANGED <<diskVars, running, turn, moved, bookVars>>

(***************************************************************************)
(* finalize_update_if_pending                                              *)
(***************************************************************************)
Finalizing == pc = "finalize" /\ receipt = 0 /\ armed # NoBackup

\* Mutant of WriteReceipt: the backup is retired without a receipt.
WriteNoReceipt ==
    /\ Finalizing
    /\ Goto("retire")
    /\ UNCHANGED <<diskVars, running, sidecar, turn, moved>>
    /\ NoFault

WriteReceipt ==
    /\ Finalizing
    /\ receipt' = pending
    /\ Goto("retire")
    /\ UNCHANGED <<app, stores, armed, shelf, pending, running, sidecar, turn, moved>>
    /\ NoFault

\* just-updated.json or the receipt cannot be written; the receipt may stand.
FinalizeFails ==
    /\ pc = "finalize"
    /\ receipt = 0
    /\ IF armed = NoBackup THEN NoFault /\ UNCHANGED receipt
       ELSE FaultOnly /\ receipt' \in {0, pending}
    /\ GiveUp
    /\ UNCHANGED <<app, stores, armed, shelf, pending>>

Retire ==
    /\ pc = "retire"
    /\ Shelve
    /\ Goto("clear")
    /\ UNCHANGED <<app, stores, pending, receipt, running, sidecar, turn, moved>>
    /\ NoFault

\* The compensation for a failure: the generation is armed again and the
\* receipt removed, or the removal fails, or the generation stays retired.
Compensate(b) ==
    \/ armed' = b /\ shelf' = shelf \ {b} /\ receipt' \in {0, receipt}
    \/ armed' = NoBackup /\ shelf' = shelf \cup {b} /\ UNCHANGED receipt

RetireFails ==
    /\ pc = "retire"
    /\ Compensate(armed)
    /\ FaultOnly
    /\ GiveUp
    /\ UNCHANGED <<app, stores, pending>>

ClearMarker ==
    /\ pc = "clear"
    /\ pending' = 0
    /\ settled' = settled \cup {pending}
    /\ Goto("done")
    /\ UNCHANGED <<app, stores, backups, running, sidecar, turn, moved, attempts, crashes, faults,
                   made, last>>

\* The removal fails, or it only cannot be made durable.
ClearMarkerFails ==
    /\ pc = "clear"
    /\ pending' \in {0, pending}
    /\ \E b \in shelf : b.at = pending /\ Compensate(b)
    /\ FaultOnly
    /\ GiveUp
    /\ UNCHANGED <<app, stores>>

\* A receipt that cannot be removed is left for the next launch.
DropReceipt ==
    /\ pc = "done"
    /\ \/ receipt' = 0 /\ NoFault
       \/ UNCHANGED receipt /\ FaultOnly
    /\ Goto("ready")
    /\ UNCHANGED <<app, stores, armed, shelf, pending, running, sidecar, turn, moved>>

(***************************************************************************)
(* repair_failed_launch                                                    *)
(***************************************************************************)
RepairBegin ==
    /\ pc = "repair"
    /\ receipt = 0
    /\ Goto(IF armed # NoBackup THEN "restore" ELSE "failed")
    /\ turn' = 1
    /\ UNCHANGED <<diskVars, running, sidecar, moved, bookVars>>

\* restore_component: nothing to restore; or a verified copy is staged and
\* the live store moved aside, and then the copy takes its name.
RestoreNothing ==
    /\ pc = "restore"
    /\ armed.data[turn] = 0
    /\ NextStore("restored")
    /\ UNCHANGED <<diskVars, bookVars>>

MoveAside ==
    /\ pc = "restore"
    /\ armed.data[turn] # 0
    /\ live' = [live EXCEPT ![turn] = 0]
    /\ aside' = [aside EXCEPT ![turn] = @ \cup ({live[turn]} \ {0})]
    /\ moved' = live[turn]
    /\ Goto("swap")
    /\ UNCHANGED <<app, orphans, backups, pending, running, sidecar, turn>>
    /\ NoFault

RestoreStore ==
    /\ pc = "swap"
    /\ live' = [live EXCEPT ![turn] = armed.data[turn]]
    /\ moved' = 0
    /\ turn' = turn + 1
    /\ Goto(IF turn = NStores THEN "restored" ELSE "restore")
    /\ UNCHANGED <<app, aside, orphans, backups, pending, running, sidecar>>
    /\ NoFault

\* Mutant of StageFails: a store that cannot be staged is passed over.
StageFailsOn ==
    /\ pc = "restore"
    /\ armed.data[turn] # 0
    /\ FaultOnly
    /\ orphans' \in {orphans, orphans \cup {turn}}
    /\ NextStore("restored")
    /\ UNCHANGED <<app, live, aside, backups, pending>>

\* Copying or moving aside fails before anything has changed.
StageFails ==
    /\ pc = "restore"
    /\ armed.data[turn] # 0
    /\ FaultOnly
    /\ orphans' \in {orphans, orphans \cup {turn}}
    /\ GiveUp
    /\ UNCHANGED <<app, live, aside, backups, pending>>

\* The copy cannot take its name.  The store is moved back, which may be
\* another thing that fails.
SwapFails(movedBack) ==
    /\ pc = "swap"
    /\ faults' = faults + (IF movedBack THEN 1 ELSE 2)
    /\ faults' <= MaxFaults
    /\ movedBack \/ moved # 0
    /\ live' = IF movedBack THEN [live EXCEPT ![turn] = moved] ELSE live
    /\ aside' = IF movedBack THEN [aside EXCEPT ![turn] = @ \ {moved}] ELSE aside
    /\ orphans' = orphans \cup {turn}
    /\ moved' = 0
    /\ Goto("failed")
    /\ UNCHANGED <<app, backups, pending, running, sidecar, turn, attempts, crashes, made,
                   last, settled>>

\* Mutant of RepairClear: the marker is left standing.
RepairClearNot ==
    /\ pc = "restored"
    /\ settled' = settled \cup {pending}
    /\ Goto("failed")
    /\ UNCHANGED <<diskVars, running, sidecar, turn, moved, attempts, crashes, faults, made, last>>

\* Only a complete restore consumes the marker.
RepairClear ==
    /\ pc = "restored"
    /\ pending' = 0
    /\ settled' = settled \cup {pending}
    /\ Goto("failed")
    /\ UNCHANGED <<app, stores, backups, running, sidecar, turn, moved, attempts, crashes, faults,
                   made, last>>

RepairClearFails ==
    /\ pc = "restored"
    /\ pending' \in {0, pending}
    /\ FaultOnly
    /\ Goto("failed")
    /\ UNCHANGED <<app, stores, backups, running, sidecar, turn, moved>>

(***************************************************************************)
(* updater_install_and_restart                                             *)
(***************************************************************************)
\* Refused while a marker stands.  The engine is stopped first.
InstallBegin ==
    /\ pc \in {"ready", "failed", "degraded"}
    /\ pending = 0
    /\ attempts < MaxUpdates
    /\ attempts' = attempts + 1
    /\ sidecar' = FALSE
    /\ Goto("backup")
    /\ UNCHANGED <<diskVars, running, turn, moved, crashes, faults, made, last, settled>>

\* backup_user_state: what lies at the armed path is put away first.
Preserve ==
    /\ pc = "backup"
    /\ armed # NoBackup
    /\ Shelve
    /\ UNCHANGED <<app, stores, pending, receipt, procVars>>
    /\ NoFault

\* On an error the armed path is removed, whatever lies there.
PreserveFails ==
    /\ pc = "backup"
    /\ armed # NoBackup
    /\ armed' \in {NoBackup, armed}
    /\ FaultOnly
    /\ Goto("degraded")
    /\ UNCHANGED <<app, stores, shelf, pending, receipt, running, sidecar, turn, moved>>

MakeBackup ==
    /\ pc = "backup"
    /\ armed = NoBackup
    /\ armed' = [at |-> attempts, data |-> [s \in Stores |-> 0]]
    /\ turn' = 1
    /\ Goto("copy")
    /\ UNCHANGED <<app, stores, shelf, pending, receipt, running, sidecar, moved>>
    /\ NoFault

\* Copy a store and verify the copy; nothing writes meanwhile.
CopyStore ==
    /\ pc = "copy"
    /\ armed' = [armed EXCEPT !.data[turn] = live[turn]]
    /\ NextStore("mark")
    /\ UNCHANGED <<app, stores, shelf, pending, receipt>>
    /\ NoFault

CopyFails ==
    /\ pc = "copy"
    /\ armed' \in {NoBackup, armed}
    /\ FaultOnly
    /\ Goto("degraded")
    /\ UNCHANGED <<app, stores, shelf, pending, receipt, running, sidecar, turn, moved>>

\* write_pending; on an error the marker may stand all the same.
WriteMarker ==
    /\ pc = "mark"
    /\ pending' = attempts
    /\ Goto("install")
    /\ UNCHANGED <<app, stores, backups, running, sidecar, turn, moved>>
    /\ NoFault

WriteMarkerFails ==
    /\ pc = "mark"
    /\ pending' \in {0, attempts}
    /\ FaultOnly
    /\ Goto("degraded")
    /\ UNCHANGED <<app, stores, backups, running, sidecar, turn, moved>>

Install ==
    /\ pc = "install"
    /\ app' = attempts
    /\ Goto("off")
    /\ UNCHANGED <<stores, backups, pending, running, sidecar, turn, moved>>
    /\ NoFault

\* The installer may report an error after touching application files.
InstallFails ==
    /\ pc = "install"
    /\ app' \in {app, attempts}
    /\ FaultOnly
    /\ Goto("degraded")
    /\ UNCHANGED <<stores, backups, pending, running, sidecar, turn, moved>>

(***************************************************************************)
(* The end of the process: closed or relaunched by the user, or killed.    *)
(* The engine watches its parent.                                          *)
(***************************************************************************)
Quit ==
    /\ pc \in {"ready", "failed", "degraded"}
    /\ sidecar' = FALSE
    /\ Goto("off")
    /\ UNCHANGED <<diskVars, running, turn, moved, bookVars>>

Crash ==
    /\ pc \notin {"off", "ready", "failed", "degraded"}
    /\ crashes < MaxCrashes
    /\ crashes' = crashes + 1
    /\ CASE pc = "swap" -> orphans' = orphans \cup {turn}
         [] pc = "restore" \/ (pc = "stores" /\ live[turn] = 0) ->
              orphans' \in {orphans} \cup (IF armed.data[turn] # 0 THEN {orphans \cup {turn}}
                                           ELSE {})
         [] OTHER -> UNCHANGED orphans
    /\ sidecar' = FALSE
    /\ moved' = 0
    /\ Goto("off")
    /\ UNCHANGED <<app, live, aside, backups, pending, running, turn, attempts, faults, made,
                   last, settled>>

ShellStep ==
    \/ Launch
    \/ ReconcileMove \/ ReconcileClear
    \/ RecoverUnarmed \/ RecoverPending \/ RecoverStore \/ Spawn
    \/ Healthy \/ Unhealthy \/ SlowLaunch \/ StoresReadable \/ Restart
    \/ WriteReceipt \/ Retire \/ ClearMarker \/ DropReceipt
    \/ RepairBegin \/ RestoreNothing \/ MoveAside \/ RestoreStore \/ RepairClear
    \/ Preserve \/ MakeBackup \/ CopyStore \/ WriteMarker \/ Install
    \/ Quit

Failure ==
    \/ ReconcileFails \/ RecoverStoreFails \/ FinalizeFails \/ RetireFails
    \/ ClearMarkerFails \/ StageFails
    \/ \E movedBack \in BOOLEAN : SwapFails(movedBack)
    \/ RepairClearFails \/ PreserveFails \/ CopyFails \/ WriteMarkerFails \/ InstallFails

Next ==
    \/ \E s \in Stores : Write(s) \/ Purge(s)
    \/ \E v \in 0..MaxUpdates : ManualInstall(v)
    \/ InstallBegin
    \/ ShellStep
    \/ Failure
    \/ Crash

Spec == Init /\ [][Next]_vars

\* The shell does what it is about to, waiting for the engine is bounded in
\* time, and a user whose Golavo does not work retries or opens it again.
FairSpec == Spec /\ WF_vars(ShellStep)

(***************************************************************************)
(* Properties.                                                             *)
(***************************************************************************)
Backups == [at : 1..MaxUpdates, data : [Stores -> Nat]]

Labels == {"off", "recover", "stores", "spawn", "waiting", "readiness", "finalize", "retire",
           "clear", "done", "ready", "failed", "repair", "restore", "swap", "restored",
           "backup", "copy", "mark", "install", "degraded"}

\* Every variable holds a value of its kind, the loops stay within the stores
\* and what they read is there (updater.rs, PendingUpdate and its siblings).
TypeOK ==
    /\ app \in 0..attempts
    /\ running \in 0..attempts
    /\ live \in [Stores -> Nat]
    /\ aside \in [Stores -> SUBSET Nat]
    /\ orphans \subseteq Stores
    /\ armed \in Backups \cup {NoBackup}
    /\ shelf \subseteq Backups
    /\ pending \in 0..attempts
    /\ receipt \in 0..attempts
    /\ pc \in Labels
    /\ sidecar \in BOOLEAN
    /\ turn \in 1..NStores + 1
    /\ moved \in Nat
    /\ attempts \in 0..MaxUpdates
    /\ crashes \in 0..MaxCrashes
    /\ faults \in 0..MaxFaults
    /\ made \in [Stores -> Nat]
    /\ last \in [Stores -> Nat]
    /\ settled \subseteq 1..attempts
    /\ pc \in {"stores", "restore", "swap", "copy"} => armed # NoBackup /\ turn <= NStores

\* "Keep the verified backup and marker armed until a running version plus
\* protected-store readiness prove what actually landed": as long as the
\* marker stands, this update's own backup is at the armed path or where the
\* receipt says, whatever was interrupted or failed.
RecoveryBacked ==
    pending # 0 =>
        \/ armed # NoBackup /\ armed.at = pending
        \/ armed = NoBackup /\ receipt = pending /\ OnShelf(pending)

\* "We never fabricate an empty ledger over a real one" (lib.rs): the engine
\* is never started, and the ledger's directory never created, while a store
\* that exists, and that nobody removed, is missing from its place.
EngineNeverRunsOverGap ==
    (sidecar \/ pc = "spawn") => \A s \in Stores : live[s] = 0 => last[s] = 0

\* The newest content of a store is always somewhere: in place, moved aside
\* by a restore, or in a backup.
NothingLost ==
    \A s \in Stores : last[s] # 0 =>
        \/ last[s] \in {live[s]} \cup aside[s]
        \/ armed # NoBackup /\ armed.data[s] = last[s]
        \/ \E b \in shelf : b.data[s] = last[s]

\* The three together: whatever dies or fails around an update, its backup can
\* be found, the engine starts over no gap, and nothing is lost.
UpdateIsSafe == RecoveryBacked /\ EngineNeverRunsOverGap /\ NothingLost

\* A store goes back to an older content only by the recovery of an update
\* that is neither verified nor repaired yet, and from that update's own
\* backup: "armed only between install and the first healthy launch", so an
\* unrelated failure later never overwrites newer data with an old snapshot.
NoStaleRestore ==
    [][\A s \in Stores :
         (live'[s] # live[s] /\ last[s] # 0 /\ live'[s] # last'[s]) =>
            pending # 0 /\ pending \notin settled /\ armed.at = pending]_vars

\* The marker is consumed by a repair only when every store that was backed
\* up is again exactly as it was backed up.
RepairIsComplete ==
    [][(pc = "restored" /\ pending' = 0) =>
         \A s \in Stores : armed.data[s] # 0 => live[s] = armed.data[s]]_vars

\* States no launch leaves: the receipt of an earlier update whose removal
\* was deferred meets a newer marker, or a store the user removed left a
\* partial copy, no backup and nothing moved aside.
Wedged ==
    \/ receipt # 0 /\ pending # 0 /\ receipt # pending
    \/ /\ pending # 0 /\ armed # NoBackup
       /\ \E s \in orphans : live[s] = 0 /\ armed.data[s] = 0 /\ aside[s] = {}

\* An update whose version is installed is verified or repaired in the end,
\* whatever was interrupted, unless the state is one of those.
UpdateSettles == []<>(pending = 0 \/ app # pending \/ Wedged)

\* "This removes every local proposal" (DataRemovalActions.tsx): a removed
\* store comes back only by being written anew, or from the backup of a
\* pending update that was made before the removal.
PurgeIsFinal ==
    [][\A s \in Stores :
         (live[s] = 0 /\ last[s] = 0 /\ live'[s] # 0) =>
            last'[s] # 0 \/ armed.data[s] # 0]_vars

\* "Restart the (still old, still working) app cleanly" (updater_relaunch):
\* after a failed install that changed no file the engine is ready again,
\* if it answers whenever it is started.
AnsweringSpec == FairSpec /\ SF_vars(Healthy)
RelaunchWorks == (pc = "degraded" /\ app = running) ~> (pc = "ready" \/ app # running)
=============================================================================
