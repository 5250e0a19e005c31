---------------------------- MODULE UpdaterProofs ----------------------------
(***************************************************************************)
(* Proofs about Updater: an update that is pending can be undone, nothing  *)
(* a user wrote is lost, the engine starts over no gap, and a repair that  *)
(* consumes the marker is a complete one.  And about MatchIndex: a read    *)
(* answers on the index that is active when it answers, and the caches     *)
(* hold nothing else.                                                      *)
(***************************************************************************)
EXTENDS Updater, MatchIndex, TLAPS

\* What each place in the code may rely on: where the backup is, whose it is,
\* and whether the engine runs.
Placed ==
    /\ pc \in {"backup", "copy", "mark"} => pending = 0 /\ attempts \in (1..MaxUpdates) \ settled
    /\ pc \in {"copy", "mark"} => armed # NoBackup /\ armed.at = attempts
    /\ pc \in {"readiness", "finalize", "repair"} => pending # 0
    /\ pc = "done" => pending = 0
    /\ pc = "retire" => pending # 0 /\ receipt = pending /\ armed # NoBackup
    /\ pc = "clear" => pending # 0 /\ receipt = pending /\ armed = NoBackup
    /\ pc \in {"stores", "restore", "swap", "restored"} =>
          pending # 0 /\ receipt = 0 /\ armed # NoBackup
    /\ sidecar => pc \in {"waiting", "readiness", "finalize", "retire", "clear", "done",
                          "ready", "failed"}
    /\ pending # 0 => pending \notin settled

\* How far a restore has come.
Restored ==
    /\ pc = "swap" => live[turn] = 0 /\ armed.data[turn] # 0
    /\ pc \in {"restore", "swap", "restored"} =>
          \A s \in Stores : s < turn /\ armed.data[s] # 0 => live[s] = armed.data[s]
    /\ pc = "restored" => turn = NStores + 1

\* The newest content of a store is in its place or beside it: the backups
\* are not needed for that.
NothingGone == \A s \in Stores : last[s] # 0 => last[s] \in {live[s]} \cup aside[s]

\* A store that is missing from its place is one whose restore was cut short,
\* and the next launch rebuilds it before the engine starts.
GapsKnown ==
    /\ \A s \in Stores : live[s] = 0 /\ last[s] # 0 =>
          /\ pending # 0 /\ receipt = 0 /\ armed # NoBackup /\ armed.data[s] # 0
          /\ \/ pc \in {"off", "recover"}
             \/ pc = "stores" /\ s >= turn
             \/ pc = "swap" /\ s = turn
    /\ pc = "swap" /\ last[turn] # 0 => moved # 0

UpdInv == TypeOK /\ RecoveryBacked /\ Placed /\ Restored /\ NothingGone

-----------------------------------------------------------------------------
\* A backup is no absent backup, and copying one store into it (CopyStore)
\* makes a backup of the same update.
LEMMA BackupsAreBackups ==
  \A b \in Backups :
     /\ b # NoBackup /\ b.at \in 1..MaxUpdates /\ b.data \in [Stores -> Nat]
     /\ \A s \in Stores, c \in Nat :
           /\ [b EXCEPT !.data[s] = c] \in Backups
           /\ [b EXCEPT !.data[s] = c].at = b.at
<1>1. TAKE b \in Backups
<1>2. b.at \in 1..MaxUpdates /\ b.data \in [Stores -> Nat]
  BY DEF Backups
<1>3. b \in [at : Nat, data : [Stores -> Nat]]
  BY BoundsAssumption DEF Backups
<1>4. b # NoBackup
  BY <1>3, NoBackupAssumption
<1>5. ASSUME NEW s \in Stores, NEW c \in Nat
      PROVE  /\ [b EXCEPT !.data[s] = c] \in Backups
             /\ [b EXCEPT !.data[s] = c].at = b.at
  BY <1>5, <1>2 DEF Backups
<1> QED BY <1>2, <1>4, <1>5

\* Putting the armed directory away, or arming a retired generation again
\* (rename under backups/), keeps the kinds, and what was armed is on the shelf.
LEMMA ShelveKeeps ==
  ASSUME TypeOK, armed # NoBackup, Shelve
  PROVE  /\ armed' = NoBackup /\ shelf' \subseteq Backups
         /\ armed \in shelf'
BY DEF TypeOK, Shelve

LEMMA RearmKeeps ==
  ASSUME TypeOK, NEW n \in Nat, OnShelf(n), Rearm(n)
  PROVE  /\ armed' \in Backups /\ armed'.at = n /\ armed' # NoBackup
         /\ shelf' \subseteq Backups
<1>1. PICK b \in shelf : b.at = n
  BY DEF OnShelf
<1>2. armed' \in shelf /\ armed'.at = n
  BY <1>1 DEF Rearm
<1> QED BY <1>2, BackupsAreBackups DEF TypeOK, Rearm

\* Which way reconcile_backup_retirement moves the generation, if it does.
LEMMA MovesWhere ==
  ASSUME ReconcileMove
  PROVE  \/ pending # 0 /\ armed = NoBackup /\ OnShelf(receipt) /\ receipt = pending
            /\ Rearm(receipt)
         \/ pending = 0 /\ armed # NoBackup /\ Shelve
<1>1. armed # NoBackup <=> ~OnShelf(receipt)
  BY DEF ReconcileMove, ReceiptUsable, OnShelf
<1>2. CASE pending # 0
  BY <1>1, <1>2 DEF ReconcileMove, ReceiptUsable, ReceiptAgrees
<1>3. CASE pending = 0
  BY <1>1, <1>3 DEF ReconcileMove, ReceiptAgrees
<1> QED BY <1>2, <1>3

-----------------------------------------------------------------------------
\* The kinds of the variables, in three parts.
Counted ==
    /\ app \in 0..attempts /\ running \in 0..attempts
    /\ pending \in 0..attempts /\ receipt \in 0..attempts
    /\ settled \subseteq 1..attempts
    /\ attempts \in 0..MaxUpdates /\ crashes \in 0..MaxCrashes /\ faults \in 0..MaxFaults

Stored ==
    /\ live \in [Stores -> Nat] /\ aside \in [Stores -> SUBSET Nat]
    /\ made \in [Stores -> Nat] /\ last \in [Stores -> Nat]
    /\ orphans \subseteq Stores /\ moved \in Nat
    /\ armed \in Backups \cup {NoBackup} /\ shelf \subseteq Backups

Located ==
    /\ pc \in Labels /\ sidecar \in BOOLEAN
    /\ turn \in 1..NStores + 1
    /\ pc \in {"stores", "restore", "swap", "copy"} => armed # NoBackup /\ turn <= NStores

\* They are the type invariant.
LEMMA TypeOKParts == TypeOK <=> Counted /\ Stored /\ Located
BY DEF TypeOK, Counted, Stored, Located

\* The numbers of updates stay within the attempts made (updater.rs, markers).
LEMMA CountedStep ==
  ASSUME Counted, Placed, [Next]_vars
  PROVE  Counted'
<1> USE DEF Goto, GiveUp, NextStore, NoFault, Fault, FaultOnly, diskVars, stores, backups,
        procVars, bookVars
<1> DEFINE Spent == faults' = faults \/ (faults < MaxFaults /\ faults' = faults + 1)
<1> DEFINE Still == UNCHANGED <<attempts, crashes, settled>>
<1>1. ASSUME Spent PROVE Counted => faults' \in 0..MaxFaults
  BY <1>1, BoundsAssumption DEF Counted
<1>2. ASSUME Spent, Still, UNCHANGED <<app, running>>,
             pending' \in {0, pending, attempts}, receipt' \in {0, receipt, pending}
      PROVE  Counted'
  <2>1. faults' \in 0..MaxFaults
    BY <1>1, <1>2
  <2>2. 0 \in 0..attempts /\ attempts \in 0..attempts
    BY BoundsAssumption DEF Counted
  <2> QED BY <1>2, <2>1, <2>2 DEF Counted
<1>3. CASE \/ \E s \in Stores : Write(s) \/ Purge(s)
           \/ Healthy \/ Unhealthy \/ SlowLaunch \/ StoresReadable \/ Restart
           \/ RepairBegin \/ Quit \/ UNCHANGED vars
  BY <1>2, <1>3 DEF Write, Purge, Healthy, Unhealthy, SlowLaunch, StoresReadable, Restart,
                    RepairBegin, Quit, vars
<1>4. CASE ReconcileMove \/ ReconcileClear \/ ReconcileFails
  BY <1>2, <1>4 DEF ReconcileMove, ReconcileClear, ReconcileFails
<1>5. CASE RecoverUnarmed \/ RecoverPending \/ RecoverStore \/ RecoverStoreFails \/ Spawn
  BY <1>2, <1>5 DEF RecoverUnarmed, RecoverPending, RecoverStore, RecoverStoreFails, Spawn
<1>6. CASE WriteReceipt \/ FinalizeFails \/ Retire \/ DropReceipt
  BY <1>2, <1>6 DEF WriteReceipt, FinalizeFails, Retire, DropReceipt
<1>7. CASE RetireFails \/ ClearMarkerFails
  BY <1>2, <1>7 DEF RetireFails, ClearMarkerFails, Compensate
<1>8. CASE \/ RestoreNothing \/ MoveAside \/ RestoreStore \/ StageFails \/ RepairClearFails
  BY <1>2, <1>8 DEF RestoreNothing, MoveAside, RestoreStore, StageFails, RepairClearFails
<1>9. CASE Preserve \/ PreserveFails \/ MakeBackup \/ CopyStore \/ CopyFails
  BY <1>2, <1>9 DEF Preserve, PreserveFails, MakeBackup, CopyStore, CopyFails
<1>10. CASE WriteMarker \/ WriteMarkerFails
  BY <1>2, <1>10 DEF WriteMarker, WriteMarkerFails
<1>11. ASSUME NEW v \in 0..MaxUpdates, ManualInstall(v) PROVE Counted'
  BY <1>11 DEF ManualInstall, Counted
<1>12. CASE Launch
  BY <1>12 DEF Launch, Counted
<1>13. CASE InstallBegin
  <2>1. attempts' \in 0..MaxUpdates /\ 0..attempts \subseteq 0..attempts'
        /\ 1..attempts \subseteq 1..attempts'
    BY <1>13, BoundsAssumption DEF InstallBegin, Counted
  <2>2. UNCHANGED <<app, running, pending, receipt, settled, crashes, faults>>
    BY <1>13 DEF InstallBegin
  <2> QED BY <2>1, <2>2 DEF Counted
<1>14. CASE Install \/ InstallFails
  <2>1. Spent /\ Still /\ UNCHANGED <<running, pending, receipt>> /\ app' \in {app, attempts}
    BY <1>14 DEF Install, InstallFails
  <2>2. faults' \in 0..MaxFaults
    BY <1>1, <2>1
  <2>3. attempts \in 0..attempts
    BY BoundsAssumption DEF Counted
  <2> QED BY <2>1, <2>2, <2>3 DEF Counted
<1>15. CASE ClearMarker \/ RepairClear
  <2>1. pending # 0 /\ pending' = 0 /\ settled' = settled \cup {pending}
        /\ UNCHANGED <<app, running, receipt, attempts, crashes, faults>>
    BY <1>15 DEF ClearMarker, RepairClear, Placed
  <2>2. pending \in 1..attempts /\ 0 \in 0..attempts
    BY <2>1, BoundsAssumption DEF Counted
  <2> QED BY <2>1, <2>2 DEF Counted
<1>16. ASSUME NEW movedBack \in BOOLEAN, SwapFails(movedBack) PROVE Counted'
  <2>1. Still /\ UNCHANGED <<app, running, pending, receipt>>
    BY <1>16 DEF SwapFails
  <2>2. faults' \in 0..MaxFaults
    BY <1>16, BoundsAssumption DEF SwapFails, Counted
  <2> QED BY <2>1, <2>2 DEF Counted
<1>17. CASE Crash
  <2>1. UNCHANGED <<app, running, pending, receipt, settled, attempts, faults>>
    BY <1>17 DEF Crash
  <2>2. crashes' \in 0..MaxCrashes
    BY <1>17, BoundsAssumption DEF Crash, Counted
  <2> QED BY <2>1, <2>2 DEF Counted
<1> QED
  BY <1>3, <1>4, <1>5, <1>6, <1>7, <1>8, <1>9, <1>10, <1>11, <1>12, <1>13, <1>14, <1>15,
     <1>16, <1>17
  DEF Next, ShellStep, Failure

\* What is armed and on the shelf stays a backup, whoever renames, makes,
\* fills or drops one.
LEMMA BackupsStep ==
  ASSUME Counted, Stored, Located, Placed, [Next]_vars
  PROVE  armed' \in Backups \cup {NoBackup} /\ shelf' \subseteq Backups
<1> DEFINE Fits == armed' \in Backups \cup {NoBackup} /\ shelf' \subseteq Backups
<1>0. TypeOK
  BY TypeOKParts
<1>1. CASE UNCHANGED <<armed, shelf>>
  BY <1>1 DEF Stored
<1>2. ASSUME armed # NoBackup, Shelve PROVE Fits
  BY <1>0, <1>2, ShelveKeeps
<1>3. CASE ReconcileMove
  <2>1. receipt \in Nat
    BY BoundsAssumption DEF Counted
  <2> QED BY <1>0, <1>2, <1>3, <2>1, MovesWhere, RearmKeeps
<1>4. CASE RecoverUnarmed \/ Retire \/ Preserve
  BY <1>4, <1>1, <1>2 DEF RecoverUnarmed, Retire, Preserve, Placed
<1>5. CASE RetireFails \/ ClearMarkerFails
  <2>1. PICK b \in Backups : Compensate(b)
    BY <1>5 DEF RetireFails, ClearMarkerFails, Stored, Placed
  <2> QED BY <2>1 DEF Compensate, Stored
<1>6. CASE MakeBackup
  BY <1>6 DEF MakeBackup, Placed, Backups, Stored, backups
<1>7. CASE CopyStore
  <2>1. armed \in Backups /\ turn \in Stores /\ live[turn] \in Nat
    BY <1>7, StoresAssumption DEF CopyStore, Stored, Located, Stores
  <2> QED BY <1>7, <2>1, BackupsAreBackups DEF CopyStore, Stored
<1>8. CASE PreserveFails \/ CopyFails
  BY <1>8 DEF PreserveFails, CopyFails, Stored
<1>9. CASE \/ \E s \in Stores : Write(s) \/ Purge(s)
           \/ \E v \in 0..MaxUpdates : ManualInstall(v)
           \/ InstallBegin \/ Launch \/ ReconcileClear \/ RecoverPending \/ RecoverStore
           \/ Spawn \/ Healthy \/ Unhealthy \/ SlowLaunch \/ StoresReadable \/ Restart
  <2>1. UNCHANGED <<armed, shelf>>
    BY <1>9 DEF Write, Purge, ManualInstall, InstallBegin, Launch, ReconcileClear,
                RecoverPending, RecoverStore, Spawn, Healthy, Unhealthy, SlowLaunch,
                StoresReadable, Restart, diskVars, backups
  <2> QED BY <2>1, <1>1
<1>10. CASE \/ WriteReceipt \/ ClearMarker \/ DropReceipt \/ RepairBegin \/ RestoreNothing
            \/ MoveAside \/ RestoreStore \/ RepairClear \/ WriteMarker \/ Install \/ Quit
            \/ ReconcileFails \/ RecoverStoreFails \/ FinalizeFails \/ StageFails
            \/ \E movedBack \in BOOLEAN : SwapFails(movedBack)
            \/ RepairClearFails \/ WriteMarkerFails \/ InstallFails \/ Crash
            \/ UNCHANGED vars
  <2>1. UNCHANGED <<armed, shelf>>
    BY <1>10 DEF WriteReceipt, ClearMarker, DropReceipt, RepairBegin, RestoreNothing, MoveAside,
                 RestoreStore, RepairClear, WriteMarker, Install, Quit, ReconcileFails,
                 RecoverStoreFails, FinalizeFails, StageFails, SwapFails, RepairClearFails,
                 WriteMarkerFails, InstallFails, Crash, vars, diskVars, backups
  <2> QED BY <2>1, <1>1
<1> QED
  BY <1>3, <1>4, <1>5, <1>6, <1>7, <1>8, <1>9, <1>10 DEF Next, ShellStep, Failure

\* The contents of the stores are numbers of writes.
LEMMA StoredStep ==
  ASSUME Counted, Stored, Located, Placed, [Next]_vars
  PROVE  Stored'
<1> DEFINE Same == UNCHANGED <<live, aside, made, last, orphans, moved>>
<1> USE DEF Goto, GiveUp, NextStore, NoFault, Fault, FaultOnly,
            diskVars, stores, procVars, bookVars
<1>1. armed' \in Backups \cup {NoBackup} /\ shelf' \subseteq Backups
  BY BackupsStep
<1>2. CASE Same
  BY <1>1, <1>2 DEF Stored
<1>3. ASSUME NEW s \in Stores, Write(s) \/ Purge(s) PROVE Stored'
  BY <1>1, <1>3 DEF Write, Purge, Stored
<1>4. pc \in {"stores", "restore", "swap", "copy"} =>
         turn \in Stores /\ live[turn] \in Nat /\ armed \in Backups /\ armed.data[turn] \in Nat
  BY StoresAssumption, BackupsAreBackups DEF Located, Stored, Stores
<1>5. CASE RecoverStore
  <2>1. live' \in [Stores -> Nat] /\ aside' \in [Stores -> SUBSET Nat]
    BY <1>4, <1>5 DEF RecoverStore, Stored
  <2> QED BY <1>1, <1>5, <2>1 DEF RecoverStore, Stored
<1>6. CASE Spawn
  <2>1. Ledger \in Stores /\ made[Ledger] + 1 \in Nat
    BY StoresAssumption DEF Stored, Stores, Ledger
  <2>2. /\ made' \in [Stores -> Nat] /\ UNCHANGED <<aside, orphans, moved>>
        /\ made'[Ledger] \in Nat
    BY <1>6, <2>1 DEF Spawn, Stored
  <2>3. live' \in [Stores -> Nat] /\ last' \in [Stores -> Nat]
    BY <1>6, <2>1, <2>2 DEF Spawn, Stored
  <2> QED BY <1>1, <2>2, <2>3 DEF Stored
<1>7. CASE MoveAside \/ RestoreStore
  BY <1>1, <1>4, <1>7 DEF MoveAside, RestoreStore, Stored
<1>8. ASSUME NEW movedBack \in BOOLEAN, SwapFails(movedBack) PROVE Stored'
  <2>1. live' \in [Stores -> Nat] /\ aside' \in [Stores -> SUBSET Nat]
    BY <1>4, <1>8 DEF SwapFails, Stored
  <2> QED BY <1>1, <1>4, <1>8, <2>1 DEF SwapFails, Stored
<1>9. CASE RecoverStoreFails \/ StageFails
  BY <1>1, <1>4, <1>9 DEF RecoverStoreFails, StageFails, Stored
<1>10. CASE Crash
  BY <1>1, <1>4, <1>10 DEF Crash, Stored
<1>11. CASE \/ \E v \in 0..MaxUpdates : ManualInstall(v)
            \/ InstallBegin \/ Launch \/ ReconcileMove \/ ReconcileClear \/ RecoverUnarmed
            \/ RecoverPending \/ Healthy \/ Unhealthy \/ SlowLaunch \/ StoresReadable \/ Restart
            \/ WriteReceipt \/ Retire \/ ClearMarker \/ DropReceipt \/ RepairBegin
            \/ RestoreNothing \/ RepairClear
  <2>1. Same
    BY <1>11 DEF ManualInstall, InstallBegin, Launch, ReconcileMove, ReconcileClear,
                 RecoverUnarmed, RecoverPending, Healthy, Unhealthy, SlowLaunch, StoresReadable,
                 Restart, WriteReceipt, Retire, ClearMarker, DropReceipt, RepairBegin,
                 RestoreNothing, RepairClear
  <2> QED BY <2>1, <1>2
<1>12. CASE \/ Preserve \/ MakeBackup \/ CopyStore \/ WriteMarker \/ Install \/ Quit
            \/ ReconcileFails \/ FinalizeFails \/ RetireFails \/ ClearMarkerFails
            \/ RepairClearFails \/ PreserveFails \/ CopyFails \/ WriteMarkerFails
            \/ InstallFails \/ UNCHANGED vars
  <2>1. Same
    BY <1>12 DEF Preserve, MakeBackup, CopyStore, WriteMarker, Install, Quit, ReconcileFails,
                 FinalizeFails, RetireFails, ClearMarkerFails, RepairClearFails, PreserveFails,
                 CopyFails, WriteMarkerFails, InstallFails, vars
  <2> QED BY <2>1, <1>2
<1> QED
  BY <1>3, <1>5, <1>6, <1>7, <1>8, <1>9, <1>10, <1>11, <1>12 DEF Next, ShellStep, Failure

\* The shell is always somewhere in its code, and its loops stay within the
\* stores.
LEMMA LocatedStep ==
  ASSUME Counted, Stored, Located, Placed, [Next]_vars
  PROVE  Located'
<1> USE StoresAssumption DEF Goto, GiveUp, NextStore, NoFault, Fault, FaultOnly, Labels,
        diskVars, stores, backups, procVars, bookVars
<1>1. CASE UNCHANGED <<pc, sidecar, turn, armed>>
  BY <1>1 DEF Located
<1>2. ASSUME pc' \notin {"stores", "restore", "swap", "copy"}, pc' \in Labels,
             sidecar' \in BOOLEAN, turn' = turn
      PROVE  Located'
  BY <1>2 DEF Located
<1>3. CASE \/ \E s \in Stores : Write(s) \/ Purge(s)
           \/ \E v \in 0..MaxUpdates : ManualInstall(v)
           \/ ReconcileClear \/ UNCHANGED vars
  BY <1>1, <1>3 DEF Write, Purge, ManualInstall, ReconcileClear, vars
<1>4. CASE ReconcileMove
  BY <1>2, <1>4 DEF ReconcileMove, Reconciling, Located
<1>5. CASE \/ InstallBegin \/ Launch \/ RecoverUnarmed \/ Spawn \/ Healthy \/ Unhealthy
           \/ SlowLaunch \/ StoresReadable \/ Restart \/ WriteReceipt \/ Retire \/ ClearMarker
           \/ DropReceipt \/ RepairClear \/ WriteMarker \/ Install \/ Quit
  BY <1>2, <1>5 DEF InstallBegin, Launch, RecoverUnarmed, Spawn, Healthy, Unhealthy, SlowLaunch,
                    StoresReadable, Restart, WriteReceipt, Retire, ClearMarker, DropReceipt,
                    RepairClear, WriteMarker, Install, Quit, Located
<1>6. CASE \/ ReconcileFails \/ RecoverStoreFails \/ FinalizeFails \/ RetireFails
           \/ ClearMarkerFails \/ StageFails
           \/ RepairClearFails \/ PreserveFails \/ CopyFails \/ WriteMarkerFails \/ InstallFails
  BY <1>2, <1>6 DEF ReconcileFails, RecoverStoreFails, FinalizeFails, RetireFails,
                    ClearMarkerFails, StageFails, RepairClearFails, PreserveFails,
                    CopyFails, WriteMarkerFails, InstallFails, Located
<1>7. CASE Crash \/ \E movedBack \in BOOLEAN : SwapFails(movedBack)
  BY <1>2, <1>7 DEF Crash, SwapFails, Located
<1>8. CASE RecoverPending \/ RepairBegin
  BY <1>8 DEF RecoverPending, RepairBegin, Located
<1>9. CASE RecoverStore \/ RestoreNothing \/ RestoreStore
  BY <1>9 DEF RecoverStore, RestoreNothing, RestoreStore, Located
<1>10. CASE MoveAside
  BY <1>10 DEF MoveAside, Located
<1>11. CASE Preserve
  BY <1>2, <1>11 DEF Preserve, Located
<1>12. CASE MakeBackup
  <2>1. armed' \in Backups
    BY <1>12 DEF MakeBackup, Placed, Backups
  <2>2. armed' # NoBackup
    BY <2>1, BackupsAreBackups
  <2> QED BY <1>12, <2>2 DEF MakeBackup, Located
<1>13. CASE CopyStore
  <2>1. armed \in Backups /\ turn \in Stores /\ live[turn] \in Nat
    BY <1>13 DEF CopyStore, Stored, Located, Stores
  <2>2. armed' # NoBackup
    BY <1>13, <2>1, BackupsAreBackups DEF CopyStore
  <2> QED BY <1>13, <2>1, <2>2 DEF CopyStore, Located
<1> QED
  BY <1>3, <1>4, <1>5, <1>6, <1>7, <1>8, <1>9, <1>10, <1>11, <1>12, <1>13
  DEF Next, ShellStep, Failure

\* Every step keeps the kinds of the variables.
LEMMA TypeStep ==
  ASSUME UpdInv, [Next]_vars
  PROVE  TypeOK'
<1>1. Counted /\ Stored /\ Located /\ Placed
  BY TypeOKParts DEF UpdInv
<1>2. Counted' /\ Stored' /\ Located'
  BY <1>1, CountedStep, StoredStep, LocatedStep
<1> QED BY <1>2 DEF TypeOK, Counted, Stored, Located

-----------------------------------------------------------------------------
\* The backup of a pending update stays where it can be found: each rename,
\* marker write and removal leaves it at one of the two places.
LEMMA BackedStep ==
  ASSUME UpdInv, [Next]_vars
  PROVE  RecoveryBacked'
<1> USE DEF UpdInv, diskVars, stores, procVars
<1>1. ASSUME pending' = 0 \/ UNCHANGED <<pending, armed, shelf, receipt>>
      PROVE  RecoveryBacked'
  BY <1>1 DEF RecoveryBacked, OnShelf
<1>2. CASE ReconcileMove
  <2>1. CASE pending = 0
    BY <1>1, <1>2, <2>1 DEF ReconcileMove
  <2>2. CASE pending # 0
    <3>1. OnShelf(receipt) /\ receipt = pending /\ Rearm(receipt) /\ receipt \in Nat
      BY <1>2, <2>2, MovesWhere, BoundsAssumption DEF TypeOK
    <3>2. armed' # NoBackup /\ armed'.at = pending
      BY <3>1, RearmKeeps
    <3> QED BY <1>2, <3>2 DEF ReconcileMove, RecoveryBacked
  <2> QED BY <2>1, <2>2
<1>3. CASE ReconcileClear
  <2>1. pending # 0 => armed # NoBackup /\ armed.at = pending
    BY <1>3 DEF ReconcileClear, ReceiptAgrees, RecoveryBacked
  <2> QED BY <1>3, <2>1 DEF ReconcileClear, RecoveryBacked
<1>4. CASE RecoverUnarmed \/ Preserve \/ PreserveFails \/ MakeBackup \/ CopyStore \/ CopyFails
  BY <1>1, <1>4 DEF RecoverUnarmed, Preserve, PreserveFails, MakeBackup, CopyStore, CopyFails,
                    Placed
<1>5. CASE WriteMarker \/ WriteMarkerFails
  BY <1>5 DEF WriteMarker, WriteMarkerFails, Placed, RecoveryBacked, backups
<1>6. CASE WriteReceipt \/ FinalizeFails
  <2>1. /\ UNCHANGED <<pending, armed, shelf>>
        /\ armed # NoBackup \/ UNCHANGED receipt
    BY <1>6 DEF WriteReceipt, FinalizeFails, Finalizing
  <2> QED BY <2>1 DEF RecoveryBacked, OnShelf
<1>7. CASE Retire
  <2>1. armed \in shelf' /\ armed' = NoBackup
    BY <1>7, ShelveKeeps DEF Retire, Placed
  <2>2. armed.at = pending /\ receipt = pending /\ UNCHANGED <<pending, receipt>>
    BY <1>7 DEF Retire, Placed, RecoveryBacked
  <2> QED BY <2>1, <2>2 DEF RecoveryBacked, OnShelf
<1>8. CASE RetireFails \/ ClearMarkerFails
  <2>1. pending # 0 /\ receipt = pending /\ pending' \in {0, pending}
    BY <1>8 DEF RetireFails, ClearMarkerFails, Placed
  <2>2. PICK b \in Backups : b.at = pending /\ Compensate(b)
    BY <1>8 DEF RetireFails, ClearMarkerFails, Placed, RecoveryBacked, TypeOK
  <2>3. CASE armed' = b
    BY <2>1, <2>2, <2>3, BackupsAreBackups DEF RecoveryBacked
  <2>4. CASE armed' = NoBackup /\ shelf' = shelf \cup {b} /\ UNCHANGED receipt
    BY <2>1, <2>2, <2>4 DEF RecoveryBacked, OnShelf
  <2> QED BY <2>2, <2>3, <2>4 DEF Compensate
<1>9. CASE ClearMarker \/ DropReceipt \/ RepairClear
  BY <1>1, <1>9 DEF ClearMarker, DropReceipt, RepairClear, Placed
<1>10. CASE RepairClearFails
  BY <1>1, <1>10 DEF RepairClearFails, backups
<1>11. CASE \/ \E s \in Stores : Write(s) \/ Purge(s)
            \/ \E v \in 0..MaxUpdates : ManualInstall(v)
            \/ InstallBegin \/ Launch \/ RecoverPending \/ RecoverStore
            \/ Spawn \/ Healthy \/ Unhealthy \/ SlowLaunch \/ StoresReadable \/ Restart
  BY <1>1, <1>11 DEF Write, Purge, ManualInstall, InstallBegin, Launch, RecoverPending,
                     RecoverStore, Spawn, Healthy, Unhealthy, SlowLaunch,
                     StoresReadable, Restart, backups
<1>12. CASE \/ RepairBegin \/ RestoreNothing \/ MoveAside \/ RestoreStore \/ Install \/ Quit
            \/ ReconcileFails \/ RecoverStoreFails \/ StageFails
            \/ \E movedBack \in BOOLEAN : SwapFails(movedBack)
            \/ InstallFails \/ Crash \/ UNCHANGED vars
  BY <1>1, <1>12 DEF RepairBegin, RestoreNothing, MoveAside, RestoreStore, Install, Quit,
                     ReconcileFails, RecoverStoreFails, StageFails, SwapFails, InstallFails,
                     Crash, vars, backups
<1> QED
  BY <1>2, <1>3, <1>4, <1>5, <1>6, <1>7, <1>8, <1>9, <1>10, <1>11, <1>12
  DEF Next, ShellStep, Failure

\* Every step goes to a place that may rely on what the step leaves.
LEMMA PlacedStep ==
  ASSUME UpdInv, [Next]_vars
  PROVE  Placed'
<1> USE DEF UpdInv, Goto, GiveUp, NextStore, NoFault, Fault, FaultOnly,
            diskVars, stores, backups, procVars, bookVars
<1>1. ASSUME UNCHANGED <<pc, pending, receipt, armed, attempts, settled, sidecar>>
      PROVE  Placed'
  BY <1>1 DEF Placed
<1>2. CASE \/ \E s \in Stores : Write(s) \/ Purge(s)
           \/ \E v \in 0..MaxUpdates : ManualInstall(v)
           \/ UNCHANGED vars
  BY <1>1, <1>2 DEF Write, Purge, ManualInstall, vars
\* Rests and ends: nothing is relied on but that the marker is unsettled.
<1>3. ASSUME pc' \in {"off", "recover", "spawn", "failed", "degraded", "install"},
             ~sidecar' \/ pc' = "failed",
             pending' = 0 \/ UNCHANGED <<pending, settled>>
      PROVE  Placed'
  BY <1>3 DEF Placed
<1>4. CASE Launch \/ Quit \/ Crash \/ ReconcileFails \/ RecoverStoreFails \/ FinalizeFails
  BY <1>3, <1>4 DEF Launch, Quit, Crash, ReconcileFails, RecoverStoreFails, FinalizeFails, Placed
<1>5. CASE RetireFails \/ ClearMarkerFails \/ StageFails \/ RepairClearFails \/ RepairClear
  BY <1>3, <1>5 DEF RetireFails, ClearMarkerFails, StageFails, RepairClearFails, RepairClear
<1>6. CASE \/ \E movedBack \in BOOLEAN : SwapFails(movedBack)
           \/ PreserveFails \/ CopyFails \/ Install \/ InstallFails \/ RecoverUnarmed
  BY <1>3, <1>6 DEF SwapFails, PreserveFails, CopyFails, Install, InstallFails, RecoverUnarmed,
                    Placed
<1>7. CASE WriteMarker \/ WriteMarkerFails
  BY <1>7 DEF WriteMarker, WriteMarkerFails, Placed
<1>8. CASE ReconcileMove \/ ReconcileClear
  BY <1>8 DEF ReconcileMove, ReconcileClear, Reconciling, Placed
<1>9. CASE RecoverPending \/ RecoverStore
  BY <1>9 DEF RecoverPending, RecoverStore, Placed
<1>10. CASE Spawn \/ Healthy \/ Unhealthy \/ SlowLaunch \/ StoresReadable \/ Restart
  BY <1>10 DEF Spawn, Healthy, Unhealthy, SlowLaunch, StoresReadable, Restart, Placed
<1>11. CASE WriteReceipt \/ DropReceipt
  BY <1>11 DEF WriteReceipt, Finalizing, DropReceipt, Placed
<1>12. CASE Retire \/ ClearMarker
  BY <1>12 DEF Retire, Shelve, ClearMarker, Placed
<1>13. CASE RepairBegin \/ RestoreNothing \/ MoveAside \/ RestoreStore
  BY <1>13 DEF RepairBegin, RestoreNothing, MoveAside, RestoreStore, Placed
<1>14. CASE InstallBegin
  BY <1>14, BoundsAssumption DEF InstallBegin, Placed, TypeOK
<1>15. CASE Preserve
  BY <1>15 DEF Preserve, Placed
<1>16. CASE MakeBackup
  <2>1. armed' \in Backups /\ armed'.at = attempts
    BY <1>16, StoresAssumption DEF MakeBackup, Placed, Backups
  <2>2. armed' # NoBackup
    BY <2>1, BackupsAreBackups
  <2> QED BY <1>16, <2>1, <2>2 DEF MakeBackup, Placed
<1>17. CASE CopyStore
  <2>1. armed \in Backups /\ turn \in Stores /\ live[turn] \in Nat
    BY <1>17, StoresAssumption DEF CopyStore, TypeOK, Stores
  <2>2. armed' # NoBackup /\ armed'.at = armed.at
    BY <1>17, <2>1, BackupsAreBackups DEF CopyStore
  <2> QED BY <1>17, <2>2 DEF CopyStore, Placed
<1> QED
  BY <1>2, <1>4, <1>5, <1>6, <1>7, <1>8, <1>9, <1>10, <1>11, <1>12, <1>13, <1>14, <1>15,
     <1>16, <1>17
  DEF Next, ShellStep, Failure

\* A restore leaves each store behind it as it was backed up
\* (repair_failed_launch, restore_component).
LEMMA RestoredStep ==
  ASSUME UpdInv, [Next]_vars
  PROVE  Restored'
<1> USE DEF UpdInv, Goto, GiveUp, NextStore, diskVars, stores, backups, procVars
<1>1. ASSUME pc' \notin {"restore", "swap", "restored"} PROVE Restored'
  BY <1>1 DEF Restored
<1>2. CASE \/ \E s \in Stores : Write(s) \/ Purge(s)
           \/ \E v \in 0..MaxUpdates : ManualInstall(v)
           \/ ReconcileMove \/ ReconcileClear \/ Preserve
  BY <1>1, <1>2 DEF Write, Purge, ManualInstall, ReconcileMove, ReconcileClear, Reconciling,
                    Preserve, Placed
<1>3. CASE UNCHANGED vars
  BY <1>3 DEF vars, Restored
<1>4. CASE RepairBegin
  <2>1. turn' = 1 /\ pc' \in {"restore", "failed"}
    BY <1>4 DEF RepairBegin
  <2>2. \A s \in Stores : ~(s < turn')
    BY <2>1 DEF Stores
  <2> QED BY <2>1, <2>2 DEF Restored
<1>5. turn \in Nat /\ NStores \in Nat /\ (pc \in {"restore", "swap"} => turn \in Stores)
  BY StoresAssumption DEF TypeOK, Stores
<1>6. ASSUME NEW s \in Stores, s < turn + 1, s # turn PROVE s < turn
  BY <1>5, <1>6 DEF Stores
<1>7. CASE RestoreNothing
  <2>1. /\ UNCHANGED <<live, armed>> /\ turn' = turn + 1 /\ armed.data[turn] = 0
        /\ pc = "restore" /\ pc' \in {"restore", "restored"}
        /\ pc' = "restored" => turn = NStores
    BY <1>7 DEF RestoreNothing
  <2> QED BY <2>1, <1>5, <1>6 DEF Restored
<1>8. CASE MoveAside
  <2>1. /\ UNCHANGED <<armed, turn>> /\ live' = [live EXCEPT ![turn] = 0]
        /\ armed.data[turn] # 0 /\ pc = "restore" /\ pc' = "swap"
    BY <1>8 DEF MoveAside
  <2>2. live'[turn] = 0 /\ \A s \in Stores : s < turn => live'[s] = live[s]
    BY <2>1, <1>5 DEF TypeOK, Stores
  <2> QED BY <2>1, <2>2 DEF Restored
<1>9. CASE RestoreStore
  <2>1. /\ UNCHANGED armed /\ live' = [live EXCEPT ![turn] = armed.data[turn]]
        /\ turn' = turn + 1 /\ pc = "swap" /\ pc' \in {"restore", "restored"}
        /\ pc' = "restored" => turn = NStores
    BY <1>9 DEF RestoreStore
  <2>2. live'[turn] = armed.data[turn] /\ \A s \in Stores : s # turn => live'[s] = live[s]
    BY <2>1, <1>5 DEF TypeOK
  <2> QED BY <2>1, <2>2, <1>5, <1>6 DEF Restored
<1>10. CASE \/ InstallBegin \/ Launch \/ RecoverUnarmed \/ RecoverPending \/ RecoverStore
            \/ Spawn \/ Healthy \/ Unhealthy \/ SlowLaunch \/ StoresReadable \/ Restart
            \/ WriteReceipt \/ Retire \/ ClearMarker \/ DropReceipt \/ RepairClear
  BY <1>1, <1>10 DEF InstallBegin, Launch, RecoverUnarmed, RecoverPending, RecoverStore,
                     Spawn, Healthy, Unhealthy, SlowLaunch, StoresReadable, Restart,
                     WriteReceipt, Retire, ClearMarker, DropReceipt, RepairClear
<1>11. CASE \/ MakeBackup \/ CopyStore \/ WriteMarker \/ Install \/ Quit
            \/ ReconcileFails \/ RecoverStoreFails \/ FinalizeFails \/ RetireFails
            \/ ClearMarkerFails \/ StageFails
            \/ \E movedBack \in BOOLEAN : SwapFails(movedBack)
            \/ RepairClearFails \/ PreserveFails \/ CopyFails \/ WriteMarkerFails
            \/ InstallFails \/ Crash
  BY <1>1, <1>11 DEF MakeBackup, CopyStore, WriteMarker, Install, Quit, ReconcileFails,
                     RecoverStoreFails, FinalizeFails, RetireFails, ClearMarkerFails, StageFails,
                     SwapFails, RepairClearFails, PreserveFails, CopyFails, WriteMarkerFails,
                     InstallFails, Crash
<1> QED
  BY <1>2, <1>3, <1>4, <1>7, <1>8, <1>9, <1>10, <1>11 DEF Next, ShellStep, Failure

\* The steps that touch neither the stores nor what lies beside them.
LEMMA StoresStay ==
  ASSUME \/ \E v \in 0..MaxUpdates : ManualInstall(v)
         \/ InstallBegin \/ Launch \/ ReconcileMove \/ ReconcileClear \/ RecoverUnarmed
         \/ RecoverPending \/ Healthy \/ Unhealthy \/ SlowLaunch \/ StoresReadable \/ Restart
         \/ WriteReceipt \/ Retire \/ ClearMarker \/ DropReceipt \/ RepairBegin
         \/ RestoreNothing \/ RepairClear \/ Preserve \/ MakeBackup \/ CopyStore
         \/ WriteMarker \/ Install \/ Quit
         \/ ReconcileFails \/ RecoverStoreFails \/ FinalizeFails \/ RetireFails
         \/ ClearMarkerFails \/ StageFails
         \/ RepairClearFails \/ PreserveFails \/ CopyFails \/ WriteMarkerFails
         \/ InstallFails \/ Crash \/ UNCHANGED vars
  PROVE  UNCHANGED <<live, aside, last>>
BY DEF ManualInstall, InstallBegin, Launch, ReconcileMove, ReconcileClear, RecoverUnarmed,
       RecoverPending, Healthy, Unhealthy, SlowLaunch, StoresReadable, Restart, WriteReceipt,
       Retire, ClearMarker, DropReceipt, RepairBegin, RestoreNothing, RepairClear, Preserve,
       MakeBackup, CopyStore, WriteMarker, Install, Quit, ReconcileFails, RecoverStoreFails,
       FinalizeFails, RetireFails, ClearMarkerFails, StageFails, RepairClearFails, PreserveFails,
       CopyFails, WriteMarkerFails, InstallFails, Crash, vars, diskVars, stores, bookVars,
       NoFault, FaultOnly

\* What a user wrote last is never overwritten and never removed but by the
\* user: a store is moved aside whole, and only into an empty place.
LEMMA GoneStep ==
  ASSUME UpdInv, [Next]_vars
  PROVE  NothingGone'
<1> USE DEF UpdInv
<1>1. CASE UNCHANGED <<live, aside, last>>
  BY <1>1 DEF NothingGone
<1>2. /\ live \in [Stores -> Nat] /\ aside \in [Stores -> SUBSET Nat]
      /\ last \in [Stores -> Nat] /\ made \in [Stores -> Nat]
      /\ pc \in {"stores", "restore", "swap"} => turn \in Stores
  BY StoresAssumption DEF TypeOK, Stores
<1>3. ASSUME NEW s \in Stores, Write(s) PROVE NothingGone'
  <2>1. live'[s] = last'[s] /\ aside' = aside
        /\ \A t \in Stores : t # s => live'[t] = live[t] /\ last'[t] = last[t]
    BY <1>2, <1>3 DEF Write
  <2> QED BY <2>1 DEF NothingGone
<1>4. ASSUME NEW s \in Stores, Purge(s) PROVE NothingGone'
  <2>1. last'[s] = 0 /\ aside' = aside
        /\ \A t \in Stores : t # s => live'[t] = live[t] /\ last'[t] = last[t]
    BY <1>2, <1>4 DEF Purge
  <2> QED BY <2>1 DEF NothingGone
<1>5. CASE RecoverStore
  <2>1. CASE live[turn] # 0
    BY <1>1, <1>5, <2>1 DEF RecoverStore, NoFault
  <2>2. CASE live[turn] = 0
    <3>1. turn \in Stores /\ last' = last
      BY <1>2, <1>5 DEF RecoverStore, NoFault
    <3>2. \A t \in Stores : t # turn => live'[t] = live[t] /\ aside'[t] = aside[t]
      BY <1>2, <1>5, <2>2, <3>1 DEF RecoverStore
    <3>3. aside[turn] \subseteq {live'[turn]} \cup aside'[turn]
      BY <1>2, <1>5, <2>2, <3>1 DEF RecoverStore
    <3> QED BY <2>2, <3>1, <3>2, <3>3 DEF NothingGone
  <2> QED BY <2>1, <2>2
<1>6. CASE Spawn
  <2>1. CASE live[Ledger] # 0
    BY <1>1, <1>6, <2>1 DEF Spawn
  <2>2. CASE live[Ledger] = 0
    <3>1. Ledger \in Stores
      BY StoresAssumption DEF Stores, Ledger
    <3>2. live'[Ledger] = last'[Ledger] /\ aside' = aside
          /\ \A t \in Stores : t # Ledger => live'[t] = live[t] /\ last'[t] = last[t]
      BY <1>2, <1>6, <2>2, <3>1 DEF Spawn
    <3> QED BY <3>2 DEF NothingGone
  <2> QED BY <2>1, <2>2
<1>7. CASE MoveAside
  <2>1. turn \in Stores /\ last' = last
    BY <1>2, <1>7 DEF MoveAside, NoFault
  <2>2. /\ aside'[turn] = aside[turn] \cup ({live[turn]} \ {0})
        /\ \A t \in Stores : t # turn => live'[t] = live[t] /\ aside'[t] = aside[t]
    BY <1>2, <1>7, <2>1 DEF MoveAside
  <2> QED BY <2>1, <2>2 DEF NothingGone
<1>8. CASE RestoreStore
  <2>1. turn \in Stores /\ last' = last /\ aside' = aside /\ live[turn] = 0
    BY <1>2, <1>8 DEF RestoreStore, NoFault, Restored
  <2>2. \A t \in Stores : t # turn => live'[t] = live[t]
    BY <1>2, <1>8, <2>1 DEF RestoreStore
  <2> QED BY <2>1, <2>2 DEF NothingGone
<1>9. ASSUME NEW movedBack \in BOOLEAN, SwapFails(movedBack) PROVE NothingGone'
  <2>1. turn \in Stores /\ last' = last /\ live[turn] = 0
    BY <1>2, <1>9 DEF SwapFails, Restored
  <2>2. CASE movedBack
    <3>1. /\ live'[turn] = moved /\ aside'[turn] = aside[turn] \ {moved}
          /\ \A t \in Stores : t # turn => live'[t] = live[t] /\ aside'[t] = aside[t]
      BY <1>2, <1>9, <2>1, <2>2 DEF SwapFails
    <3> QED BY <2>1, <3>1 DEF NothingGone
  <2>3. CASE ~movedBack
    BY <1>1, <1>9, <2>1, <2>3 DEF SwapFails
  <2> QED BY <2>2, <2>3
<1> QED
  BY <1>1, <1>3, <1>4, <1>5, <1>6, <1>7, <1>8, <1>9, StoresStay DEF Next, ShellStep, Failure

-----------------------------------------------------------------------------
\* A first launch, with nothing on disk, is in order.
LEMMA UpdInitially == Init => UpdInv
<1> SUFFICES ASSUME Init PROVE UpdInv
  OBVIOUS
<1>1. Counted
  BY BoundsAssumption DEF Init, Counted
<1>2. Stored
  BY DEF Init, Stored
<1>3. Located
  <2>1. pc = "off" /\ sidecar = FALSE /\ turn = 1
    BY DEF Init
  <2>2. 1 \in 1..NStores + 1
    BY StoresAssumption
  <2> QED BY <2>1, <2>2 DEF Located, Labels
<1> QED
  BY <1>1, <1>2, <1>3, TypeOKParts
  DEF Init, UpdInv, RecoveryBacked, Placed, Restored, NothingGone

\* The five parts together are inductive, for any number of failures.
LEMMA UpdateInvariant == Spec => []UpdInv
<1>1. UpdInv /\ [Next]_vars => UpdInv'
  BY TypeStep, BackedStep, PlacedStep, RestoredStep, GoneStep DEF UpdInv
<1> QED BY <1>1, UpdInitially, PTL DEF Spec

\* Whatever dies or fails around an update, and however often: a pending
\* update has its own backup, and what the user wrote last is in its place or
\* beside it.
THEOREM BackupIsFound == Spec => [](RecoveryBacked /\ NothingLost)
<1>1. UpdInv => RecoveryBacked /\ NothingLost
  BY DEF UpdInv, NothingGone, NothingLost
<1> QED BY <1>1, UpdateInvariant, PTL

-----------------------------------------------------------------------------
\* A gap is made by moving a store aside and filled by the copy that takes its
\* name, the move back, or the next launch.  Only a second failure in a row,
\* that of the move back, leaves it to a shell that goes on.
LEMMA GapsStep ==
  ASSUME MaxFaults <= 1, UpdInv, GapsKnown, [Next]_vars
  PROVE  GapsKnown'
<1> USE DEF UpdInv
<1> DEFINE Gap(s) == live[s] = 0 /\ last[s] # 0
<1>2. /\ live \in [Stores -> Nat] /\ last \in [Stores -> Nat] /\ made \in [Stores -> Nat]
      /\ pc \in {"stores", "restore", "swap"} => turn \in Stores
      /\ NStores \in Nat /\ turn \in Nat
  BY StoresAssumption DEF TypeOK, Stores
\* No gap now and none made.
<1>3. ASSUME \A s \in Stores : ~Gap(s)', pc' # "swap" PROVE GapsKnown'
  BY <1>3 DEF GapsKnown
<1>4. ASSUME \A s \in Stores : ~Gap(s), UNCHANGED <<live, last>>, pc' # "swap"
      PROVE  GapsKnown'
  BY <1>4 DEF GapsKnown
<1>5. ASSUME pc \notin {"off", "recover", "stores", "swap"} PROVE \A s \in Stores : ~Gap(s)
  BY <1>5 DEF GapsKnown
<1>6. ASSUME pending = 0 \/ receipt # 0 \/ armed = NoBackup PROVE \A s \in Stores : ~Gap(s)
  BY <1>6 DEF GapsKnown
<1>7. ASSUME NEW s \in Stores, Write(s) \/ Purge(s) PROVE GapsKnown'
  <2>1. \A t \in Stores : ~Gap(t)
    BY <1>5, <1>7 DEF Write, Purge, Placed
  <2>2. /\ live'[s] # 0 \/ last'[s] = 0
        /\ \A t \in Stores : t # s => live'[t] = live[t] /\ last'[t] = last[t]
    BY <1>2, <1>7 DEF Write, Purge
  <2>3. pc' # "swap"
    BY <1>7 DEF Write, Purge, Placed, procVars
  <2> QED BY <1>3, <2>1, <2>2, <2>3
<1>8. CASE \/ \E v \in 0..MaxUpdates : ManualInstall(v)
           \/ Launch \/ RecoverPending
  <2>1. /\ UNCHANGED <<live, last, pending, receipt, armed>>
        /\ pc \in {"off", "recover"}
        /\ \/ pc' \in {"off", "recover"}
           \/ pc' = "stores" /\ turn' = 1
    BY <1>8 DEF ManualInstall, Launch, RecoverPending, Goto, diskVars, stores, backups, procVars,
                bookVars
  <2>2. \A s \in Stores : s >= 1
    BY DEF Stores
  <2> QED BY <2>1, <2>2 DEF GapsKnown
<1>9. CASE \/ InstallBegin \/ RecoverUnarmed \/ ReconcileMove \/ ReconcileClear \/ ReconcileFails
  <2>1. pending = 0 \/ receipt # 0
    BY <1>9 DEF InstallBegin, RecoverUnarmed, ReconcileMove, ReconcileClear, ReconcileFails,
                Reconciling
  <2>2. UNCHANGED <<live, last>>
    BY <1>9, StoresStay
  <2>3. pc' # "swap"
    BY <1>9 DEF InstallBegin, RecoverUnarmed, ReconcileMove, ReconcileClear, ReconcileFails,
                Reconciling, Goto, GiveUp, procVars
  <2> QED BY <1>4, <1>6, <2>1, <2>2, <2>3
<1>10. CASE RecoverStore
  <2>1. /\ pc = "stores" /\ turn \in Stores /\ UNCHANGED <<last, pending, receipt, armed>>
        /\ turn' = turn + 1 /\ pc' \in {"stores", "spawn"}
        /\ pc' = "spawn" => turn = NStores
    BY <1>2, <1>10 DEF RecoverStore, NextStore, Goto, NoFault, backups
  <2>2. \A t \in Stores : t # turn => live'[t] = live[t]
    BY <1>2, <1>10, <2>1 DEF RecoverStore
  <2>3. Gap(turn) => live'[turn] # 0
    BY <1>2, <1>10, <2>1 DEF RecoverStore, GapsKnown
  <2>4. live'[turn] # live[turn] => live[turn] = 0
    BY <1>2, <1>10, <2>1 DEF RecoverStore
  <2>5. ASSUME NEW s \in Stores, Gap(s)' PROVE Gap(s) /\ s # turn /\ s >= turn
    BY <1>2, <2>1, <2>2, <2>3, <2>4, <2>5 DEF GapsKnown
  <2>6. \A s \in Stores : s # turn /\ s >= turn => s >= turn + 1 /\ turn # NStores
    BY <1>2, <2>1 DEF Stores
  <2> QED BY <2>1, <2>5, <2>6 DEF GapsKnown
<1>11. CASE RecoverStoreFails \/ Crash
  <2>1. /\ UNCHANGED <<live, last, pending, receipt, armed>> /\ pc' = "off"
    BY <1>11 DEF RecoverStoreFails, Crash, GiveUp, Goto, NoFault, FaultOnly, backups
  <2> QED BY <2>1 DEF GapsKnown
<1>12. CASE Spawn
  <2>1. \A s \in Stores : ~Gap(s)
    BY <1>5, <1>12 DEF Spawn
  <2>2. pc' # "swap"
    BY <1>12 DEF Spawn, Goto
  <2>3. Ledger \in Stores
    BY StoresAssumption DEF Stores, Ledger
  <2>4. \A s \in Stores : \/ live'[s] = live[s] /\ last'[s] = last[s]
                          \/ live'[s] = last'[s]
    BY <1>2, <1>12, <2>3 DEF Spawn
  <2> QED BY <1>3, <2>1, <2>2, <2>4
<1>13. CASE MoveAside
  <2>1. /\ pc = "restore" /\ pc' = "swap" /\ turn \in Stores
        /\ UNCHANGED <<last, pending, receipt, armed, turn>>
        /\ moved' = live[turn] /\ armed.data[turn] # 0
    BY <1>2, <1>13 DEF MoveAside, Goto, NoFault, backups
  <2>2. \A s \in Stores : ~Gap(s)
    BY <1>5, <2>1
  <2>3. \A s \in Stores : s # turn => live'[s] = live[s]
    BY <1>2, <1>13, <2>1 DEF MoveAside
  <2>4. pending # 0 /\ receipt = 0 /\ armed # NoBackup
    BY <2>1 DEF Placed
  <2> QED BY <2>1, <2>2, <2>3, <2>4 DEF GapsKnown
<1>14. CASE RestoreStore
  <2>1. turn \in Stores /\ pc = "swap" /\ pc' # "swap" /\ last' = last /\ armed.data[turn] # 0
    BY <1>2, <1>14 DEF RestoreStore, Goto, NoFault, Restored
  <2>2. /\ live'[turn] = armed.data[turn]
        /\ \A s \in Stores : s # turn => live'[s] = live[s] /\ ~Gap(s)
    BY <1>2, <1>14, <2>1 DEF RestoreStore, GapsKnown
  <2> QED BY <1>3, <2>1, <2>2
<1>15. ASSUME NEW movedBack \in BOOLEAN, SwapFails(movedBack) PROVE GapsKnown'
  <2>1. movedBack
    BY <1>15, BoundsAssumption DEF SwapFails, TypeOK
  <2>2. turn \in Stores /\ pc = "swap" /\ pc' # "swap" /\ last' = last
    BY <1>2, <1>15 DEF SwapFails, Goto
  <2>3. /\ live'[turn] = moved
        /\ \A s \in Stores : s # turn => live'[s] = live[s] /\ ~Gap(s)
    BY <1>2, <1>15, <2>1, <2>2 DEF SwapFails, GapsKnown
  <2>4. last[turn] # 0 => moved # 0
    BY <2>2 DEF GapsKnown
  <2> QED BY <1>3, <2>2, <2>3, <2>4
<1>16. CASE \/ Healthy \/ Unhealthy \/ SlowLaunch \/ StoresReadable \/ Restart
            \/ WriteReceipt \/ Retire \/ ClearMarker \/ DropReceipt \/ RepairBegin
            \/ RestoreNothing \/ RepairClear \/ Preserve \/ MakeBackup \/ CopyStore
            \/ WriteMarker \/ Install \/ Quit
  <2>1. pc \notin {"off", "recover", "stores", "swap"} /\ pc' # "swap"
    BY <1>16 DEF Healthy, Unhealthy, SlowLaunch, StoresReadable, Restart, WriteReceipt, Finalizing,
                 Retire, ClearMarker, DropReceipt, RepairBegin, RestoreNothing, RepairClear,
                 Preserve, MakeBackup, CopyStore, WriteMarker, Install, Quit, Goto, NextStore,
                 procVars
  <2> QED BY <1>4, <1>5, <1>16, <2>1, StoresStay
<1>17. CASE \/ FinalizeFails \/ RetireFails \/ ClearMarkerFails \/ StageFails
            \/ RepairClearFails \/ PreserveFails \/ CopyFails \/ WriteMarkerFails \/ InstallFails
  <2>1. pc \notin {"off", "recover", "stores", "swap"} /\ pc' # "swap"
    BY <1>17 DEF FinalizeFails, RetireFails, ClearMarkerFails, StageFails, RepairClearFails,
                 PreserveFails, CopyFails, WriteMarkerFails, InstallFails, Goto, GiveUp
  <2> QED BY <1>4, <1>5, <1>17, <2>1, StoresStay
<1>18. CASE UNCHANGED vars
  BY <1>18 DEF vars, diskVars, stores, backups, procVars, bookVars, GapsKnown
<1> QED
  BY <1>7, <1>8, <1>9, <1>10, <1>11, <1>12, <1>13, <1>14, <1>15, <1>16, <1>17, <1>18
  DEF Next, ShellStep, Failure

\* With one failure at most, every gap is known.
LEMMA GapsInvariant == MaxFaults <= 1 => (Spec => []GapsKnown)
<1> SUFFICES ASSUME MaxFaults <= 1 PROVE Spec => []GapsKnown
  OBVIOUS
<1>1. Init => GapsKnown
  BY DEF Init, GapsKnown
<1>2. UpdInv /\ GapsKnown /\ [Next]_vars => GapsKnown'
  BY GapsStep
<1> QED BY <1>1, <1>2, UpdateInvariant, PTL DEF Spec

\* The engine starts over no gap either, while at most one operation fails:
\* whatever an update is doing when the shell dies, the next launch repairs
\* it before the ledger's directory is made or the engine runs.
THEOREM UpdatesAreSafe == MaxFaults <= 1 => (Spec => []UpdateIsSafe)
<1> SUFFICES ASSUME MaxFaults <= 1 PROVE Spec => []UpdateIsSafe
  OBVIOUS
<1>1. UpdInv /\ GapsKnown => UpdateIsSafe
  BY DEF UpdInv, NothingGone, NothingLost, UpdateIsSafe, EngineNeverRunsOverGap, GapsKnown,
         Placed
<1> QED BY <1>1, UpdateInvariant, GapsInvariant, PTL

\* Only the recovery of an update that is neither verified nor repaired puts
\* an older content in a store's place, and from that update's backup
\* (recover_component, restore_component).
THEOREM RestoresAreCurrent == Spec => NoStaleRestore
<1> DEFINE Back(s) == live'[s] # live[s] /\ last[s] # 0 /\ live'[s] # last'[s]
<1>1. ASSUME UpdInv, [Next]_vars, NEW s \in Stores, Back(s)
      PROVE  pending # 0 /\ pending \notin settled /\ armed.at = pending
  <2> USE <1>1 DEF UpdInv
  <2>1. pc \in {"stores", "restore", "swap"}
    <3>1. ASSUME NEW t \in Stores, Write(t) \/ Purge(t) PROVE FALSE
      <4>1. live'[t] = last'[t] /\ \A u \in Stores : u # t => live'[u] = live[u]
        BY <3>1 DEF Write, Purge, TypeOK
      <4> QED BY <4>1
    <3>2. CASE Spawn
      <4>1. Ledger \in Stores
        BY StoresAssumption DEF Stores, Ledger
      <4>2. live'[s] = live[s] \/ live'[s] = last'[s]
        BY <3>2, <4>1 DEF Spawn, TypeOK
      <4> QED BY <4>2
    <3>3. CASE \/ RecoverStore \/ MoveAside \/ RestoreStore
               \/ \E movedBack \in BOOLEAN : SwapFails(movedBack)
      BY <3>3 DEF RecoverStore, MoveAside, RestoreStore, SwapFails
    <3> QED BY <3>1, <3>2, <3>3, StoresStay DEF Next, ShellStep, Failure
  <2>2. pending # 0 /\ pending \notin settled /\ armed # NoBackup
    BY <2>1 DEF Placed
  <2> QED BY <2>2 DEF RecoveryBacked
<1>2. UpdInv /\ [Next]_vars => [\A s \in Stores : Back(s) =>
         pending # 0 /\ pending \notin settled /\ armed.at = pending]_vars
  BY <1>1
<1> QED BY <1>2, UpdateInvariant, PTL DEF Spec, NoStaleRestore

\* When a repair consumes the marker, every store that was backed up is again
\* as it was (repair_failed_launch).
THEOREM RepairsAreComplete == Spec => RepairIsComplete
<1>1. UpdInv /\ [Next]_vars =>
        [(pc = "restored" /\ pending' = 0) =>
           \A s \in Stores : armed.data[s] # 0 => live[s] = armed.data[s]]_vars
  <2> SUFFICES ASSUME UpdInv, pc = "restored", NEW s \in Stores, armed.data[s] # 0
               PROVE  live[s] = armed.data[s]
    OBVIOUS
  <2>1. turn = NStores + 1
    BY DEF UpdInv, Restored
  <2>2. s < turn
    BY <2>1, StoresAssumption DEF Stores
  <2> QED BY <2>2 DEF UpdInv, Restored
<1> QED BY <1>1, UpdateInvariant, PTL DEF Spec, RepairIsComplete

-------------------------------------------------------------------------------
(* MatchIndex: the places of a read at which it tries, and those at which it has *)
(* work on its snapshot.                                                         *)
Working == {"recheck", "store", "fill", "replace", "publish", "ordering", "trimming"}
Trying == {"snapshot", "load", "lookup"} \cup Working

Snaps == [epoch : Nat, frame : Generations \cup {None}, fp : Generations \cup {None}]
Reads ==
    [at : {"idle", "done"} \cup Trying, key : Keys \cup {None}, tries : Nat, began : Nat,
     snap : Snaps, file : {"gone", "tmp", "disk"},
     work : Generations \cup {None, "unreadable", "failed", "moved", "error"}]

IndexTypes ==
    /\ named \in Seq(Generations) /\ named # <<>>
    /\ pointed \in Generations
    /\ frame \in Generations \cup {None} /\ fp \in Generations \cup {None}
    /\ memo \subseteq [key : Keys \X Generations \X Nat, value : Generations]
    /\ disk \in [Names -> Files] /\ tmp \in [Names -> Files]
    /\ mover.at = "swap" => mover.target \in Generations
    /\ probe \in 0 .. Epoch
    /\ rd \in [Readers -> Reads]

\* What a read holds, when the index has had these names and the caches hold f
\* and p: each attempt but the last has met another generation, a snapshot is
\* of the generation of its epoch, the cached one if that is current, and work
\* is of the snapshot.
Fits(x, names, f, p) ==
    /\ x.at \in Trying =>
          /\ x.key \in Keys /\ x.tries \in 1 .. MaxAttempts /\ x.began \in 1 .. Len(names)
          /\ Len(names) - x.began >= x.tries - 1
    /\ x.at \in {"load", "lookup"} \cup Working =>
          x.snap.epoch \in 1 .. Len(names) /\ x.snap.epoch - x.began >= x.tries - 1
    /\ x.at \in {"lookup"} \cup Working =>
          /\ x.snap.frame = names[x.snap.epoch] /\ x.snap.fp = names[x.snap.epoch]
          /\ x.snap.epoch = Len(names) => x.snap.frame = f /\ x.snap.fp = p
    /\ x.at \in Working => x.work = x.snap.fp
    /\ x.at \in {"ordering", "trimming"} => x.snap.epoch = Len(names)

ReadsFit == \A r \in Readers : Fits(rd[r], named, frame, fp)

MemoFits ==
    \A m \in memo : /\ m.key[3] \in 1 .. Epoch
                    /\ m.value = m.key[2] /\ m.key[2] = named[m.key[3]]

FilesFit ==
    \A n \in Names : /\ disk[n] \in Generations => disk[n] = n[2]
                     /\ tmp[n] \in Generations => tmp[n] = n[2]

\* The frame is not cached without its fingerprint; the fingerprint may be alone.
CachesFit ==
    /\ frame \in {None, named[Epoch]} /\ fp \in {None, named[Epoch]}
    /\ frame # None => fp # None

IndexInv == IndexTypes /\ ReadsFit /\ MemoFits /\ FilesFit /\ CachesFit

-------------------------------------------------------------------------------
\* A generation more: what a read holds is of an older one.
LEMMA FitsAfterSwap ==
    ASSUME NEW names \in Seq(Generations), NEW g \in Generations, NEW x \in Reads, NEW f, NEW p,
           Fits(x, names, f, p), x.at \notin {"ordering", "trimming"}
    PROVE  Fits(x, Append(names, g), None, None)
<1>1. /\ Len(Append(names, g)) = Len(names) + 1 /\ Len(names) \in Nat
      /\ \A i \in 1 .. Len(names) : Append(names, g)[i] = names[i]
  OBVIOUS
<1> DEFINE more == Append(names, g)
<1> HIDE DEF more
<1>2. /\ Len(more) = Len(names) + 1 /\ Len(names) \in Nat
      /\ \A i \in 1 .. Len(names) : more[i] = names[i]
  BY <1>1 DEF more
<1>3. Fits(x, more, None, None)
  BY <1>2 DEF Fits, Reads, Snaps
<1> QED BY <1>3 DEF more

\* A cache that is filled leaves what a read has of it.
LEMMA FitsAfterFill ==
    ASSUME NEW names \in Seq(Generations), NEW x \in Reads, NEW f, NEW p, NEW g, NEW q,
           Fits(x, names, f, p), g = f \/ f = None, q = p \/ p = None
    PROVE  Fits(x, names, g, q)
<1>1. \A i \in 1 .. Len(names) : names[i] # None
  BY IndexAssumption
<1> QED BY <1>1 DEF Fits

\* A snapshot is current exactly when its epoch is.
LEMMA CurrentSnapshot ==
    ASSUME IndexInv, NEW r \in Readers, rd[r].at \in {"lookup"} \cup Working
    PROVE  /\ SnapshotIsCurrent(rd[r].snap) <=> rd[r].snap.epoch = Epoch
           /\ rd[r].snap.epoch \in 1 .. Epoch
           /\ rd[r].snap.fp = named[rd[r].snap.epoch] /\ rd[r].snap.frame = named[rd[r].snap.epoch]
BY DEF IndexInv, ReadsFit, Fits, SnapshotIsCurrent, Epoch

\* An answer ends a read.
LEMMA AnswerFits ==
    ASSUME IndexInv, NEW r \in Readers,
           NEW what \in Generations \cup {None, "unreadable", "failed", "moved", "error"}, Answer(r, what)
    PROVE  /\ rd' \in [Readers -> Reads]
           /\ \A names, f, p : Fits(rd'[r], names, f, p)
           /\ \A q \in Readers : q # r => rd'[q] = rd[q]
           /\ rd'[r].at = "done" /\ rd'[r].work = what
<1> DEFINE y == [Idle EXCEPT !.at = "done", !.work = what]
<1>1. rd' = [rd EXCEPT ![r] = y]
  BY DEF Answer
<1>2. Idle \in Reads
  BY DEF Idle, NoSnap, Reads, Snaps
<1>3. [Idle EXCEPT !.at = "done"] \in Reads
  BY <1>2 DEF Reads
<1>4. y \in Reads /\ y.at = "done" /\ y.work = what
  BY <1>2, <1>3 DEF Reads
<1> HIDE DEF y
<1>5. \A names, f, p : Fits(y, names, f, p)
  BY <1>4 DEF Fits, Trying, Working
<1>6. rd \in [Readers -> Reads]
  BY DEF IndexInv, IndexTypes
<1> QED BY <1>1, <1>4, <1>5, <1>6

\* The next attempt starts on another generation.
LEMMA AttemptFits ==
    ASSUME IndexInv, NEW r \in Readers, rd[r].at \in {"lookup"} \cup Working,
           ~SnapshotIsCurrent(rd[r].snap), NextAttempt(r)
    PROVE  /\ rd' \in [Readers -> Reads]
           /\ Fits(rd'[r], named, frame, fp)
           /\ \A q \in Readers : q # r => rd'[q] = rd[q]
           /\ rd'[r].at = "done" => rd'[r].work = "moved" /\ Epoch - rd[r].began >= MaxAttempts
<1>1. /\ rd[r] \in Reads /\ Epoch \in Nat /\ rd \in [Readers -> Reads]
      /\ rd[r].snap.epoch \in 1 .. Epoch /\ rd[r].snap.epoch # Epoch
      /\ rd[r].snap.epoch - rd[r].began >= rd[r].tries - 1
      /\ rd[r].key \in Keys /\ rd[r].tries \in 1 .. MaxAttempts /\ rd[r].began \in 1 .. Epoch
  BY CurrentSnapshot DEF IndexInv, IndexTypes, ReadsFit, Fits, Trying, Epoch
<1>2. Epoch - rd[r].began >= rd[r].tries
  BY <1>1, IndexAssumption
<1>3. CASE rd[r].tries = MaxAttempts
  <2>1. Answer(r, "moved")
    BY <1>3 DEF NextAttempt
  <2> QED BY <1>2, <1>3, <2>1, AnswerFits
<1>4. CASE rd[r].tries # MaxAttempts
  <2> DEFINE y == [rd[r] EXCEPT !.at = "snapshot", !.tries = rd[r].tries + 1, !.snap = NoSnap, !.work = None]
  <2>1. rd' = [rd EXCEPT ![r] = y]
    BY <1>4 DEF NextAttempt
  <2>2. /\ y.at = "snapshot" /\ y.tries = rd[r].tries + 1
        /\ y.began = rd[r].began /\ y.key = rd[r].key
    BY <1>1 DEF Reads
  <2>3. y \in Reads
    <3>1. NoSnap \in Snaps
      BY DEF NoSnap, Snaps
    <3>2. [rd[r] EXCEPT !.at = "snapshot"] \in Reads
      BY <1>1 DEF Reads, Trying
    <3>3. [rd[r] EXCEPT !.at = "snapshot", !.tries = rd[r].tries + 1] \in Reads
      <4>1. rd[r].tries + 1 \in Nat
        BY <1>1
      <4> QED BY <3>2, <4>1 DEF Reads
    <3>4. [rd[r] EXCEPT !.at = "snapshot", !.tries = rd[r].tries + 1, !.snap = NoSnap] \in Reads
      BY <1>1, <3>1, <3>3 DEF Reads
    <3> QED BY <1>1, <3>4 DEF Reads
  <2>4. y.tries \in 1 .. MaxAttempts
    BY <1>1, <1>4, <2>2, IndexAssumption
  <2> HIDE DEF y
  <2>5. Fits(y, named, frame, fp)
    BY <1>1, <1>2, <2>2, <2>4 DEF Fits, Working, Epoch
  <2>6. rd'[r] = y /\ \A q \in Readers : q # r => rd'[q] = rd[q]
    BY <1>1, <2>1
  <2> QED BY <1>1, <2>1, <2>2, <2>3, <2>5, <2>6
<1> QED BY <1>3, <1>4

\* A step of one read, which may fill the caches.
LEMMA ReadsKept ==
    ASSUME IndexInv, NEW r \in Readers, rd' \in [Readers -> Reads],
           Fits(rd'[r], named, frame', fp'), \A q \in Readers : q # r => rd'[q] = rd[q],
           UNCHANGED named, frame' = frame \/ frame = None, fp' = fp \/ fp = None
    PROVE  ReadsFit'
<1>1. ASSUME NEW q \in Readers, q # r PROVE Fits(rd'[q], named, frame', fp')
  BY <1>1, FitsAfterFill DEF IndexInv, IndexTypes, ReadsFit
<1> QED BY <1>1 DEF ReadsFit

\* A read goes on in the same attempt.
LEMMA GoFits ==
    ASSUME IndexInv, NEW r \in Readers, NEW place \in {"snapshot"} \cup Working, Go(r, place),
           rd[r].at \in Trying,
           place \in Working => rd[r].at \in Working,
           place \in {"ordering", "trimming"} => rd[r].snap.epoch = Epoch
    PROVE  /\ rd' \in [Readers -> Reads] /\ Fits(rd'[r], named, frame, fp)
           /\ \A q \in Readers : q # r => rd'[q] = rd[q]
           /\ rd'[r].at = place
<1>1. rd[r] \in Reads /\ rd \in [Readers -> Reads] /\ Fits(rd[r], named, frame, fp)
  BY DEF IndexInv, IndexTypes, ReadsFit
<1>2. rd' = [rd EXCEPT ![r] = [rd[r] EXCEPT !.at = place]]
  BY <1>1 DEF Go
<1> DEFINE y == [rd[r] EXCEPT !.at = place]
<1>3. /\ y \in Reads /\ y.at = place /\ y.key = rd[r].key /\ y.tries = rd[r].tries
      /\ y.began = rd[r].began /\ y.snap = rd[r].snap /\ y.work = rd[r].work
  BY <1>1 DEF Reads, Trying
<1> HIDE DEF y
<1>4. Fits(y, named, frame, fp)
  BY <1>1, <1>3 DEF Fits, Working, Trying, Epoch
<1> QED BY <1>1, <1>2, <1>3, <1>4 DEF y

\* Everything but the reads and what the step is about stands still.
LEMMA RestKept ==
    ASSUME IndexInv, UNCHANGED <<pointed, named, mover, probe>>
    PROVE  /\ named' \in Seq(Generations) /\ named' # <<>> /\ pointed' \in Generations
           /\ (mover.at = "swap" => mover.target \in Generations)'
           /\ probe' \in 0 .. Epoch'
           /\ UNCHANGED memo => MemoFits' /\ memo' \subseteq [key : Keys \X Generations \X Nat, value : Generations]
           /\ UNCHANGED <<disk, tmp>> =>
                 FilesFit' /\ disk' \in [Names -> Files] /\ tmp' \in [Names -> Files]
           /\ UNCHANGED <<frame, fp>> =>
                 CachesFit' /\ frame' \in Generations \cup {None} /\ fp' \in Generations \cup {None}
BY DEF IndexInv, IndexTypes, MemoFits, FilesFit, CachesFit, Epoch

\* An honest step of a read: what ReadIsHonest says of it.
Honest(r) ==
    rd'[r].at = "done" /\ rd[r].at # "done" =>
        /\ rd'[r].work \in Generations => rd'[r].work = named[Epoch]
        /\ rd'[r].work = "moved" => Epoch - rd[r].began >= MaxAttempts

\* A read begins.
LEMMA BeginKeeps ==
    ASSUME IndexInv, NEW r \in Readers, NEW k \in Keys, Begin(r, k)
    PROVE  IndexInv' /\ \A q \in Readers : Honest(q)
<1> DEFINE y == [Idle EXCEPT !.at = "snapshot", !.key = k, !.tries = 1, !.began = Epoch]
<1>1. rd' = [rd EXCEPT ![r] = y]
  BY DEF Begin
<1>2. rd \in [Readers -> Reads] /\ Epoch \in Nat \ {0} /\ named \in Seq(Generations)
  BY DEF IndexInv, IndexTypes, Epoch
<1>3. y.at = "snapshot" /\ y.key = k /\ y.tries = 1 /\ y.began = Epoch
  BY DEF Idle
<1>4. y \in Reads
  <2>1. Idle \in Reads
    BY DEF Idle, NoSnap, Reads, Snaps
  <2>2. [Idle EXCEPT !.at = "snapshot"] \in Reads
    BY <2>1 DEF Reads, Trying
  <2>3. [Idle EXCEPT !.at = "snapshot", !.key = k] \in Reads
    BY <2>2 DEF Reads
  <2>4. [Idle EXCEPT !.at = "snapshot", !.key = k, !.tries = 1] \in Reads
    BY <2>3 DEF Reads
  <2> QED BY <1>2, <2>4 DEF Reads
<1> HIDE DEF y
<1>5. Fits(y, named, frame, fp)
  BY <1>2, <1>3, IndexAssumption DEF Fits, Working, Epoch
<1>6. /\ rd' \in [Readers -> Reads] /\ rd'[r] = y
      /\ \A q \in Readers : q # r => rd'[q] = rd[q]
  BY <1>1, <1>2, <1>4
<1>7. UNCHANGED <<pointed, named, mover, probe, memo, disk, tmp, frame, fp>>
  BY DEF Begin, caches, files
<1>8. ReadsFit'
  BY <1>5, <1>6, <1>7, ReadsKept
<1>9. \A q \in Readers : Honest(q)
  BY <1>3, <1>6 DEF Honest
<1> QED BY <1>6, <1>7, <1>8, <1>9, RestKept DEF IndexInv, IndexTypes

\* A step of one read that changes nothing else.
LEMMA ReadAlone ==
    ASSUME IndexInv, NEW r \in Readers, rd' \in [Readers -> Reads],
           Fits(rd'[r], named, frame, fp), \A q \in Readers : q # r => rd'[q] = rd[q],
           Honest(r), UNCHANGED <<pointed, named, mover, probe, memo, disk, tmp, frame, fp>>
    PROVE  IndexInv' /\ \A q \in Readers : Honest(q)
<1>1. ReadsFit'
  BY ReadsKept
<1>2. \A q \in Readers : Honest(q)
  BY DEF Honest
<1> QED BY <1>1, <1>2, RestKept DEF IndexInv, IndexTypes

\* index_snapshot: what a read takes of the caches, or loads.
LEMMA SnapshotKeeps ==
    ASSUME IndexInv, NEW r \in Readers, TakeSnapshot(r)
    PROVE  IndexInv' /\ \A q \in Readers : Honest(q)
<1> DEFINE x == rd[r]
           full == [x EXCEPT !.at = "lookup", !.snap = [epoch |-> Epoch, frame |-> frame, fp |-> fp]]
           bare == [x EXCEPT !.at = "load", !.snap = [NoSnap EXCEPT !.epoch = Epoch]]
<1>1. /\ x \in Reads /\ rd \in [Readers -> Reads] /\ Fits(x, named, frame, fp) /\ x.at = "snapshot"
      /\ Epoch \in Nat \ {0} /\ CachesFit /\ frame \in Generations \cup {None} /\ fp \in Generations \cup {None}
  BY DEF IndexInv, IndexTypes, ReadsFit, TakeSnapshot, ReaderAt, Epoch
<1>2. rd' = [rd EXCEPT ![r] = IF frame # None /\ fp # None THEN full ELSE bare]
  BY DEF TakeSnapshot
<1>3. UNCHANGED <<pointed, named, mover, probe, memo, disk, tmp, frame, fp>>
  BY DEF TakeSnapshot, caches, files
<1>4. CASE frame # None /\ fp # None
  <2>1. /\ full.at = "lookup" /\ full.key = x.key /\ full.tries = x.tries /\ full.began = x.began
        /\ full.snap.epoch = Epoch /\ full.snap.frame = frame /\ full.snap.fp = fp
    BY <1>1 DEF Reads
  <2>2. full \in Reads
    <3>1. [x EXCEPT !.at = "lookup"] \in Reads
      BY <1>1 DEF Reads, Trying
    <3>2. [epoch |-> Epoch, frame |-> frame, fp |-> fp] \in Snaps
      BY <1>1 DEF Snaps
    <3> QED BY <3>1, <3>2 DEF Reads
  <2> HIDE DEF full
  <2>3. Fits(full, named, frame, fp)
    BY <1>1, <1>4, <2>1 DEF Fits, Trying, Working, CachesFit, Epoch
  <2>4. rd' = [rd EXCEPT ![r] = full]
    BY <1>2, <1>4
  <2>5. /\ rd' \in [Readers -> Reads] /\ rd'[r] = full
        /\ \A q \in Readers : q # r => rd'[q] = rd[q]
    BY <1>1, <2>2, <2>4
  <2> QED BY <1>3, <2>1, <2>3, <2>5, ReadAlone DEF Honest
<1>5. CASE ~(frame # None /\ fp # None)
  <2>1. /\ bare.at = "load" /\ bare.key = x.key /\ bare.tries = x.tries /\ bare.began = x.began
        /\ bare.snap.epoch = Epoch
    BY <1>1 DEF Reads, NoSnap
  <2>2. bare \in Reads
    <3>1. [x EXCEPT !.at = "load"] \in Reads
      BY <1>1 DEF Reads, Trying
    <3>2. [NoSnap EXCEPT !.epoch = Epoch] \in Snaps
      BY <1>1 DEF Snaps, NoSnap
    <3> QED BY <3>1, <3>2 DEF Reads
  <2> HIDE DEF bare
  <2>3. Fits(bare, named, frame, fp)
    BY <1>1, <2>1 DEF Fits, Trying, Working, Epoch
  <2>4. rd' = [rd EXCEPT ![r] = bare]
    BY <1>2, <1>5
  <2>5. /\ rd' \in [Readers -> Reads] /\ rd'[r] = bare
        /\ \A q \in Readers : q # r => rd'[q] = rd[q]
    BY <1>1, <2>2, <2>4
  <2> QED BY <1>3, <2>1, <2>3, <2>5, ReadAlone DEF Honest
<1> QED BY <1>4, <1>5

LEMMA LoadFailsKeeps ==
    ASSUME IndexInv, NEW r \in Readers, LoadFails(r)
    PROVE  IndexInv' /\ \A q \in Readers : Honest(q)
<1>1. UNCHANGED <<pointed, named, mover, probe, memo, disk, tmp, frame, fp>>
  BY DEF LoadFails, caches, files
<1>2. CASE Answer(r, "unreadable")
  BY <1>1, <1>2, AnswerFits, ReadAlone, IndexAssumption DEF Honest
<1>3. CASE Go(r, "snapshot")
  <2>1. rd[r].at \in Trying /\ "snapshot" \notin Working
    BY DEF LoadFails, ReaderAt, Trying, Working
  <2>2. /\ rd' \in [Readers -> Reads] /\ Fits(rd'[r], named, frame, fp)
        /\ \A q \in Readers : q # r => rd'[q] = rd[q]
        /\ rd'[r].at = "snapshot"
    BY <1>3, <2>1, GoFits
  <2> QED BY <1>1, <2>2, ReadAlone DEF Honest
<1> QED BY <1>2, <1>3 DEF LoadFails

LEMMA PublishFrameKeeps ==
    ASSUME IndexInv, NEW r \in Readers, PublishFrame(r)
    PROVE  IndexInv' /\ \A q \in Readers : Honest(q)
<1> DEFINE x == rd[r]
           e == x.snap.epoch
           y == [x EXCEPT !.at = "lookup", !.snap = [epoch |-> e, frame |-> frame', fp |-> fp']]
<1>1. /\ x \in Reads /\ rd \in [Readers -> Reads] /\ Fits(x, named, frame, fp) /\ x.at = "load"
      /\ named \in Seq(Generations) /\ Epoch \in Nat \ {0} /\ CachesFit /\ e \in 1 .. Epoch
  BY DEF IndexInv, IndexTypes, ReadsFit, Fits, PublishFrame, ReaderAt, Epoch
<1>2. UNCHANGED <<pointed, named, mover, probe, memo, disk, tmp>>
  BY DEF PublishFrame, files
<1>3. CASE PathsAreCurrent(e)
  <2>1. /\ frame' = IF frame = None THEN named[e] ELSE frame
        /\ fp' = IF frame = None THEN named[e] ELSE fp
        /\ rd' = [rd EXCEPT ![r] = y]
    BY <1>3 DEF PublishFrame
  <2>2. e = Epoch /\ named[e] \in Generations /\ named[e] # None
    BY <1>1, <1>3, IndexAssumption DEF PathsAreCurrent, Epoch
  <2>3. frame' = named[e] /\ fp' = named[e] /\ (fp' = fp \/ fp = None)
    BY <1>1, <2>1, <2>2 DEF CachesFit
  <2>4. /\ y.at = "lookup" /\ y.key = x.key /\ y.tries = x.tries /\ y.began = x.began
        /\ y.snap.epoch = e /\ y.snap.frame = frame' /\ y.snap.fp = fp'
    BY <1>1 DEF Reads
  <2>5. y \in Reads
    <3>1. [x EXCEPT !.at = "lookup"] \in Reads
      BY <1>1 DEF Reads, Trying
    <3>2. [epoch |-> e, frame |-> frame', fp |-> fp'] \in Snaps
      BY <1>1, <2>2, <2>3 DEF Snaps
    <3> QED BY <3>1, <3>2 DEF Reads
  <2> HIDE DEF y
  <2>6. Fits(y, named, frame', fp')
    BY <1>1, <2>2, <2>3, <2>4 DEF Fits, Trying, Working, Epoch
  <2>7. /\ rd' \in [Readers -> Reads] /\ rd'[r] = y
        /\ \A q \in Readers : q # r => rd'[q] = rd[q]
    BY <1>1, <2>1, <2>5
  <2>8. ReadsFit'
    BY <1>2, <2>1, <2>3, <2>6, <2>7, ReadsKept
  <2>9. CachesFit' /\ frame' \in Generations \cup {None} /\ fp' \in Generations \cup {None}
    BY <1>2, <2>2, <2>3 DEF CachesFit, Epoch
  <2>10. \A q \in Readers : Honest(q)
    BY <2>4, <2>7 DEF Honest
  <2> QED BY <1>2, <2>7, <2>8, <2>9, <2>10, RestKept DEF IndexInv, IndexTypes
<1>4. CASE ~PathsAreCurrent(e)
  <2>1. Go(r, "snapshot") /\ UNCHANGED <<frame, fp>>
    BY <1>4 DEF PublishFrame
  <2>2. rd[r].at \in Trying /\ "snapshot" \notin Working
    BY <1>1 DEF Trying, Working
  <2>3. /\ rd' \in [Readers -> Reads] /\ Fits(rd'[r], named, frame, fp)
        /\ \A q \in Readers : q # r => rd'[q] = rd[q]
        /\ rd'[r].at = "snapshot"
    BY <2>1, <2>2, GoFits
  <2> QED BY <1>2, <2>1, <2>3, ReadAlone DEF Honest
<1> QED BY <1>3, <1>4

\* The name and the key of a read that has a snapshot are of its generation.
LEMMA NamesFit ==
    ASSUME IndexInv, NEW r \in Readers, rd[r].at \in {"lookup"} \cup Working
    PROVE  /\ rd[r].key \in Keys /\ rd[r].snap.fp \in Generations /\ rd[r].snap.frame = rd[r].snap.fp
           /\ Name(r) \in Names /\ Name(r)[2] = rd[r].snap.fp
           /\ FullKey(r) \in Keys \X Generations \X Nat
           /\ FullKey(r)[2] = rd[r].snap.fp /\ FullKey(r)[3] = rd[r].snap.epoch
<1>1. /\ rd[r].snap.epoch \in 1 .. Epoch /\ rd[r].snap.fp = named[rd[r].snap.epoch]
      /\ rd[r].snap.frame = named[rd[r].snap.epoch]
  BY CurrentSnapshot
<1>2. named \in Seq(Generations) /\ rd[r].key \in Keys /\ Epoch \in Nat
  BY DEF IndexInv, IndexTypes, ReadsFit, Fits, Trying, Epoch
<1>3. rd[r].snap.fp \in Generations /\ rd[r].snap.epoch \in Nat
  BY <1>1, <1>2 DEF Epoch
<1> QED BY <1>1, <1>2, <1>3 DEF Name, Names, FullKey

\* A read that has its snapshot comes to a place with work on it.
LEMMA WorkFits ==
    ASSUME IndexInv, NEW r \in Readers, rd[r].at \in {"lookup"} \cup Working,
           NEW place \in Working \ {"ordering", "trimming"}, NEW file \in {"gone", "tmp", "disk"},
           rd' = [rd EXCEPT ![r] = [rd[r] EXCEPT !.at = place, !.file = file, !.work = rd[r].snap.fp]]
    PROVE  /\ rd' \in [Readers -> Reads] /\ Fits(rd'[r], named, frame, fp)
           /\ \A q \in Readers : q # r => rd'[q] = rd[q]
           /\ rd'[r].at = place
<1> DEFINE x == rd[r]
           y == [x EXCEPT !.at = place, !.file = file, !.work = x.snap.fp]
<1>1. x \in Reads /\ rd \in [Readers -> Reads] /\ Fits(x, named, frame, fp) /\ x.snap.fp \in Generations
  BY NamesFit DEF IndexInv, IndexTypes, ReadsFit
<1>2. /\ y.at = place /\ y.key = x.key /\ y.tries = x.tries
      /\ y.began = x.began /\ y.snap = x.snap /\ y.work = x.snap.fp
  BY <1>1 DEF Reads
<1>3. y \in Reads
  <2>1. [x EXCEPT !.at = place] \in Reads
    BY <1>1 DEF Reads, Trying
  <2>2. [x EXCEPT !.at = place, !.file = file] \in Reads
    BY <2>1 DEF Reads
  <2> QED BY <1>1, <2>2 DEF Reads
<1> HIDE DEF y
<1>4. Fits(y, named, frame, fp)
  BY <1>1, <1>2 DEF Fits, Working, Trying
<1> QED BY <1>1, <1>2, <1>3, <1>4 DEF y

LEMMA HitKeeps ==
    ASSUME IndexInv, NEW r \in Readers, Hit(r)
    PROVE  IndexInv' /\ \A q \in Readers : Honest(q)
<1>1. PICK m \in Cached(FullKey(r)) :
          rd' = [rd EXCEPT ![r] = [rd[r] EXCEPT !.at = "recheck", !.work = m.value]]
  BY DEF Hit
<1>2. rd[r].at = "lookup" /\ rd[r] \in Reads /\ UNCHANGED <<pointed, named, mover, probe, memo, disk, tmp, frame, fp>>
  BY DEF Hit, ReaderAt, caches, files, IndexInv, IndexTypes
<1>3. m.value = rd[r].snap.fp
  BY <1>2, NamesFit DEF Cached, IndexInv, MemoFits
<1>4. [rd[r] EXCEPT !.at = "recheck", !.work = rd[r].snap.fp] =
      [rd[r] EXCEPT !.at = "recheck", !.file = rd[r].file, !.work = rd[r].snap.fp]
  BY <1>2 DEF Reads
<1>5. rd' = [rd EXCEPT ![r] = [rd[r] EXCEPT !.at = "recheck", !.file = rd[r].file, !.work = rd[r].snap.fp]]
  BY <1>1, <1>3, <1>4
<1>6. "recheck" \in Working \ {"ordering", "trimming"} /\ rd[r].file \in {"gone", "tmp", "disk"}
  BY <1>2 DEF Working, Reads
<1>7. /\ rd' \in [Readers -> Reads] /\ Fits(rd'[r], named, frame, fp)
      /\ \A q \in Readers : q # r => rd'[q] = rd[q]
      /\ rd'[r].at = "recheck"
  BY <1>2, <1>5, <1>6, WorkFits
<1> QED BY <1>2, <1>7, ReadAlone DEF Honest

\* The next attempt, when the rest stands still.
LEMMA AttemptKeeps ==
    ASSUME IndexInv, NEW r \in Readers, rd[r].at \in {"lookup"} \cup Working,
           ~SnapshotIsCurrent(rd[r].snap), NextAttempt(r),
           UNCHANGED <<pointed, named, mover, probe, memo, disk, tmp, frame, fp>>
    PROVE  IndexInv' /\ \A q \in Readers : Honest(q)
<1>1. /\ rd' \in [Readers -> Reads] /\ Fits(rd'[r], named, frame, fp)
      /\ \A q \in Readers : q # r => rd'[q] = rd[q]
      /\ rd'[r].at = "done" => rd'[r].work = "moved" /\ Epoch - rd[r].began >= MaxAttempts
  BY AttemptFits
<1> QED BY <1>1, ReadAlone, IndexAssumption DEF Honest

\* Work on the current snapshot is answered.
LEMMA WorkIsAnswered ==
    ASSUME IndexInv, NEW r \in Readers, rd[r].at \in Working, rd[r].snap.epoch = Epoch,
           Answer(r, rd[r].work), UNCHANGED named
    PROVE  /\ rd' \in [Readers -> Reads] /\ \A names, f, p : Fits(rd'[r], names, f, p)
           /\ \A q \in Readers : q # r => rd'[q] = rd[q]
           /\ Honest(r)
<1>1. rd[r].work = named[Epoch] /\ rd[r].work \in Generations
  BY CurrentSnapshot, NamesFit DEF IndexInv, ReadsFit, Fits
<1>2. /\ rd' \in [Readers -> Reads] /\ \A names, f, p : Fits(rd'[r], names, f, p)
      /\ \A q \in Readers : q # r => rd'[q] = rd[q]
      /\ rd'[r].at = "done" /\ rd'[r].work = rd[r].work
  BY <1>1, AnswerFits
<1> QED BY <1>1, <1>2, IndexAssumption DEF Honest, Epoch

LEMMA RecheckKeeps ==
    ASSUME IndexInv, NEW r \in Readers, Recheck(r)
    PROVE  IndexInv' /\ \A q \in Readers : Honest(q)
<1>1. /\ rd[r].at = "recheck" /\ rd[r].at \in Working
      /\ UNCHANGED <<pointed, named, mover, probe, memo, disk, tmp, frame, fp>>
  BY DEF Recheck, ReaderAt, Working, caches, files
<1>2. CASE SnapshotIsCurrent(rd[r].snap)
  <2>1. rd[r].snap.epoch = Epoch /\ Answer(r, rd[r].work)
    BY <1>2 DEF Recheck, SnapshotIsCurrent
  <2> QED BY <1>1, <2>1, WorkIsAnswered, ReadAlone
<1>3. CASE ~SnapshotIsCurrent(rd[r].snap)
  BY <1>1, <1>3, AttemptKeeps DEF Recheck
<1> QED BY <1>2, <1>3

LEMMA ComputeFailsKeeps ==
    ASSUME IndexInv, NEW r \in Readers, ComputeFails(r)
    PROVE  IndexInv' /\ \A q \in Readers : Honest(q)
<1>1. rd[r].at = "lookup" /\ UNCHANGED <<pointed, named, mover, probe, memo, disk, tmp, frame, fp>>
  BY DEF ComputeFails, ReaderAt, caches, files
<1>2. CASE SnapshotIsCurrent(rd[r].snap)
  <2>1. Answer(r, "failed")
    BY <1>2 DEF ComputeFails
  <2> QED BY <1>1, <2>1, AnswerFits, ReadAlone, IndexAssumption DEF Honest
<1>3. CASE ~SnapshotIsCurrent(rd[r].snap)
  BY <1>1, <1>3, AttemptKeeps DEF ComputeFails
<1> QED BY <1>2, <1>3

-------------------------------------------------------------------------------
\* A step of one read that changes the cache files.
LEMMA FilesKeep ==
    ASSUME IndexInv, NEW r \in Readers, rd' \in [Readers -> Reads],
           Fits(rd'[r], named, frame, fp), \A q \in Readers : q # r => rd'[q] = rd[q],
           rd'[r].at # "done", FilesFit', disk' \in [Names -> Files], tmp' \in [Names -> Files],
           UNCHANGED <<pointed, named, mover, probe, memo, frame, fp>>
    PROVE  IndexInv' /\ \A q \in Readers : Honest(q)
<1>1. ReadsFit'
  BY ReadsKept
<1>2. \A q \in Readers : Honest(q)
  BY DEF Honest
<1> QED BY <1>1, <1>2, RestKept DEF IndexInv, IndexTypes

LEMMA ComputeKeeps ==
    ASSUME IndexInv, NEW r \in Readers, Compute(r)
    PROVE  IndexInv' /\ \A q \in Readers : Honest(q)
<1>1. /\ rd[r].at = "lookup" /\ rd[r] \in Reads
      /\ UNCHANGED <<pointed, named, mover, probe, memo, tmp, frame, fp>>
      /\ disk \in [Names -> Files] /\ tmp \in [Names -> Files] /\ FilesFit
      /\ disk' = IF disk[Name(r)] = "altered" THEN [disk EXCEPT ![Name(r)] = None] ELSE disk
  BY DEF Compute, ReaderAt, caches, files, IndexInv, IndexTypes
<1>2. /\ Name(r) \in Names /\ Name(r)[2] = rd[r].snap.fp /\ rd[r].snap.frame = rd[r].snap.fp
      /\ rd[r].file \in {"gone", "tmp", "disk"}
  BY <1>1, NamesFit DEF Reads
<1>3. disk' \in [Names -> Files]
  BY <1>1, <1>2 DEF Files
<1>4. tmp' \in [Names -> Files] /\ FilesFit'
  BY <1>1, <1>2, IndexAssumption DEF FilesFit
<1>5. \E place \in {"publish", "store"} :
          rd' = [rd EXCEPT ![r] = [rd[r] EXCEPT !.at = place, !.work = rd[r].snap.fp]]
  <2>1. CASE disk[Name(r)] \in Generations
    <3>1. rd' = [rd EXCEPT ![r] = [rd[r] EXCEPT !.at = "publish", !.work = disk[Name(r)]]]
      BY <2>1 DEF Compute
    <3>2. disk[Name(r)] = rd[r].snap.fp
      BY <1>1, <1>2, <2>1 DEF FilesFit
    <3> QED BY <3>1, <3>2
  <2>2. CASE disk[Name(r)] \notin Generations
    <3>1. rd' = [rd EXCEPT ![r] = [rd[r] EXCEPT !.at = "store", !.work = rd[r].snap.frame]]
      BY <2>2 DEF Compute
    <3> QED BY <1>2, <3>1
  <2> QED BY <2>1, <2>2
<1>6. PICK place \in {"publish", "store"} :
          rd' = [rd EXCEPT ![r] = [rd[r] EXCEPT !.at = place, !.work = rd[r].snap.fp]]
  BY <1>5
<1>7. [rd[r] EXCEPT !.at = place, !.work = rd[r].snap.fp] =
      [rd[r] EXCEPT !.at = place, !.file = rd[r].file, !.work = rd[r].snap.fp]
  BY <1>1 DEF Reads
<1>8. rd' = [rd EXCEPT ![r] = [rd[r] EXCEPT !.at = place, !.file = rd[r].file, !.work = rd[r].snap.fp]]
  BY <1>6, <1>7
<1>9. place \in Working \ {"ordering", "trimming"}
  BY DEF Working
<1>10. /\ rd' \in [Readers -> Reads] /\ Fits(rd'[r], named, frame, fp)
       /\ \A q \in Readers : q # r => rd'[q] = rd[q]
       /\ rd'[r].at = place
  BY <1>1, <1>2, <1>8, <1>9, WorkFits
<1> QED BY <1>1, <1>3, <1>4, <1>10, FilesKeep

LEMMA DiskSkipKeeps ==
    ASSUME IndexInv, NEW r \in Readers, DiskSkip(r)
    PROVE  IndexInv' /\ \A q \in Readers : Honest(q)
<1>1. /\ rd[r].at \in Working /\ Go(r, "publish") /\ "publish" \in Working
      /\ UNCHANGED <<pointed, named, mover, probe, memo, disk, tmp, frame, fp>>
  BY DEF DiskSkip, Working, caches, files
<1>2. /\ rd' \in [Readers -> Reads] /\ Fits(rd'[r], named, frame, fp)
      /\ \A q \in Readers : q # r => rd'[q] = rd[q]
      /\ rd'[r].at = "publish"
  BY <1>1, GoFits DEF Trying
<1> QED BY <1>1, <1>2, ReadAlone DEF Honest

LEMMA DiskOpenKeeps ==
    ASSUME IndexInv, NEW r \in Readers, DiskOpen(r)
    PROVE  IndexInv' /\ \A q \in Readers : Honest(q)
<1>1. /\ rd[r].at = "store" /\ rd[r].at \in Working /\ rd[r] \in Reads
      /\ UNCHANGED <<pointed, named, mover, probe, memo, disk, frame, fp>>
      /\ tmp' = [tmp EXCEPT ![Name(r)] = "torn"]
      /\ rd' = [rd EXCEPT ![r] = [rd[r] EXCEPT !.at = "fill", !.file = "tmp"]]
      /\ disk \in [Names -> Files] /\ tmp \in [Names -> Files] /\ FilesFit
  BY DEF DiskOpen, ReaderAt, Working, caches, files, IndexInv, IndexTypes
<1>2. disk' \in [Names -> Files] /\ tmp' \in [Names -> Files] /\ FilesFit'
  BY <1>1, IndexAssumption DEF Files, FilesFit
<1>3. rd[r].work = rd[r].snap.fp
  BY <1>1 DEF IndexInv, ReadsFit, Fits
<1>4. [rd[r] EXCEPT !.at = "fill", !.file = "tmp"] =
      [rd[r] EXCEPT !.at = "fill", !.file = "tmp", !.work = rd[r].snap.fp]
  BY <1>1, <1>3 DEF Reads
<1>5. rd' = [rd EXCEPT ![r] = [rd[r] EXCEPT !.at = "fill", !.file = "tmp", !.work = rd[r].snap.fp]]
  BY <1>1, <1>4
<1>6. "fill" \in Working \ {"ordering", "trimming"}
  BY DEF Working
<1>7. /\ rd' \in [Readers -> Reads] /\ Fits(rd'[r], named, frame, fp)
      /\ \A q \in Readers : q # r => rd'[q] = rd[q]
      /\ rd'[r].at = "fill"
  BY <1>1, <1>5, <1>6, WorkFits
<1> QED BY <1>1, <1>2, <1>7, FilesKeep

LEMMA DiskFillKeeps ==
    ASSUME IndexInv, NEW r \in Readers, DiskFill(r)
    PROVE  IndexInv' /\ \A q \in Readers : Honest(q)
<1>1. /\ rd[r].at = "fill" /\ rd[r].at \in Working /\ Go(r, "replace")
      /\ UNCHANGED <<pointed, named, mover, probe, memo, frame, fp>>
      /\ tmp' = IF rd[r].file = "tmp" THEN [tmp EXCEPT ![Name(r)] = rd[r].work] ELSE tmp
      /\ disk' = IF rd[r].file = "disk" THEN [disk EXCEPT ![Name(r)] = rd[r].work] ELSE disk
      /\ disk \in [Names -> Files] /\ tmp \in [Names -> Files] /\ FilesFit
  BY DEF DiskFill, ReaderAt, Working, caches, files, IndexInv, IndexTypes
<1>2. rd[r].work = rd[r].snap.fp
  BY <1>1 DEF IndexInv, ReadsFit, Fits
<1>3. Name(r) \in Names /\ Name(r)[2] = rd[r].work /\ rd[r].work \in Generations
  BY <1>1, <1>2, NamesFit
<1>4. disk' \in [Names -> Files] /\ tmp' \in [Names -> Files]
  BY <1>1, <1>3 DEF Files
<1>5. FilesFit'
  BY <1>1, <1>3, <1>4 DEF FilesFit
<1>6. "replace" \in Working
  BY DEF Working
<1>7. /\ rd' \in [Readers -> Reads] /\ Fits(rd'[r], named, frame, fp)
      /\ \A q \in Readers : q # r => rd'[q] = rd[q]
      /\ rd'[r].at = "replace"
  BY <1>1, <1>6, GoFits DEF Trying
<1> QED BY <1>1, <1>4, <1>5, <1>7, FilesKeep

LEMMA DiskReplaceKeeps ==
    ASSUME IndexInv, NEW r \in Readers, DiskReplace(r)
    PROVE  IndexInv' /\ \A q \in Readers : Honest(q)
<1>1. /\ rd[r].at = "replace" /\ rd[r].at \in Working
      /\ UNCHANGED <<pointed, named, mover, probe, memo, frame, fp>>
      /\ tmp' = [tmp EXCEPT ![Name(r)] = None]
      /\ disk \in [Names -> Files] /\ tmp \in [Names -> Files] /\ FilesFit
      /\ rd \in [Readers -> Reads] /\ ReadsFit
  BY DEF DiskReplace, ReaderAt, Working, caches, files, IndexInv, IndexTypes
<1>2. PICK stale \in SUBSET Names :
          disk' = [n \in Names |-> CASE n = Name(r) -> tmp[n]
                                     [] n \in stale -> None
                                     [] OTHER -> disk[n]]
  BY DEF DiskReplace
<1>3. /\ disk' \in [Names -> Files] /\ tmp' \in [Names -> Files]
      /\ \A n \in Names : /\ disk'[n] \in {tmp[n], None, disk[n]}
                          /\ tmp'[n] \in {tmp[n], None}
  BY <1>1, <1>2 DEF Files
<1>4. FilesFit'
  BY <1>1, <1>3, IndexAssumption DEF FilesFit
<1>5. \A q \in Readers : /\ rd'[q] \in Reads
                         /\ rd'[q].at = rd[q].at \/ (q = r /\ rd'[q].at = "publish")
                         /\ rd'[q].key = rd[q].key /\ rd'[q].tries = rd[q].tries
                         /\ rd'[q].began = rd[q].began /\ rd'[q].snap = rd[q].snap
                         /\ rd'[q].work = rd[q].work
  <2> SUFFICES ASSUME NEW q \in Readers
               PROVE  /\ rd'[q] \in Reads
                      /\ rd'[q].at = rd[q].at \/ (q = r /\ rd'[q].at = "publish")
                      /\ rd'[q].key = rd[q].key /\ rd'[q].tries = rd[q].tries
                      /\ rd'[q].began = rd[q].began /\ rd'[q].snap = rd[q].snap
                      /\ rd'[q].work = rd[q].work
    OBVIOUS
  <2> DEFINE x == rd[q]
  <2>1. x \in Reads
    BY <1>1
  <2>2. \/ q = r /\ rd'[q] = [x EXCEPT !.at = "publish", !.file = "gone"]
        \/ rd'[q] = [x EXCEPT !.file = Renamed(x.file)]
        \/ rd'[q] = x
    BY DEF DiskReplace, ReaderAt
  <2>3. CASE q = r /\ rd'[q] = [x EXCEPT !.at = "publish", !.file = "gone"]
    <3>1. [x EXCEPT !.at = "publish"] \in Reads
      BY <2>1 DEF Reads, Trying, Working
    <3>2. [x EXCEPT !.at = "publish", !.file = "gone"] \in Reads
      BY <3>1 DEF Reads
    <3>3. [x EXCEPT !.at = "publish", !.file = "gone"].at = "publish"
      BY <2>1 DEF Reads
    <3> QED BY <2>1, <2>3, <3>2, <3>3 DEF Reads
  <2>4. CASE rd'[q] = [x EXCEPT !.file = Renamed(x.file)]
    <3>1. Renamed(x.file) \in {"gone", "tmp", "disk"}
      BY <2>1 DEF Renamed, Reads
    <3> QED BY <2>1, <2>4, <3>1 DEF Reads
  <2> QED BY <2>1, <2>2, <2>3, <2>4
<1>6. rd' \in [Readers -> Reads]
  <2> DEFINE After(q) == CASE q = r -> [rd[q] EXCEPT !.at = "publish", !.file = "gone"]
                           [] ReaderAt(q, "fill") /\ Name(q) = Name(r)
                                -> [rd[q] EXCEPT !.file = Renamed(rd[q].file)]
                           [] OTHER -> rd[q]
  <2>1. rd' = [q \in Readers |-> After(q)]
    BY DEF DiskReplace
  <2> HIDE DEF After
  <2>2. \A q \in Readers : rd'[q] = After(q)
    BY <2>1
  <2> QED BY <1>5, <2>1, <2>2
<1>7. ReadsFit'
  <2> SUFFICES ASSUME NEW q \in Readers PROVE Fits(rd'[q], named, frame, fp)
    BY <1>1 DEF ReadsFit
  <2>1. Fits(rd[q], named, frame, fp)
    BY <1>1 DEF ReadsFit
  <2>2. CASE rd'[q].at = rd[q].at
    BY <1>5, <2>1, <2>2 DEF Fits
  <2>3. CASE q = r /\ rd'[q].at = "publish"
    BY <1>1, <1>5, <2>1, <2>3 DEF Fits, Trying, Working
  <2> QED BY <1>5, <2>2, <2>3
<1>8. \A q \in Readers : Honest(q)
  BY <1>5 DEF Honest
<1> QED BY <1>1, <1>3, <1>4, <1>6, <1>7, <1>8, RestKept DEF IndexInv, IndexTypes

-------------------------------------------------------------------------------
\* A step of one read that changes the memo.
LEMMA MemoKeeps ==
    ASSUME IndexInv, NEW r \in Readers, rd' \in [Readers -> Reads],
           Fits(rd'[r], named, frame, fp), \A q \in Readers : q # r => rd'[q] = rd[q],
           Honest(r), MemoFits', memo' \subseteq [key : Keys \X Generations \X Nat, value : Generations],
           UNCHANGED <<pointed, named, mover, probe, disk, tmp, frame, fp>>
    PROVE  IndexInv' /\ \A q \in Readers : Honest(q)
<1>1. ReadsFit'
  BY ReadsKept
<1>2. \A q \in Readers : Honest(q)
  BY DEF Honest
<1> QED BY <1>1, <1>2, RestKept DEF IndexInv, IndexTypes

LEMMA PublishKeeps ==
    ASSUME IndexInv, NEW r \in Readers, Publish(r)
    PROVE  IndexInv' /\ \A q \in Readers : Honest(q)
<1>1. /\ rd[r].at = "publish" /\ rd[r].at \in Working
      /\ UNCHANGED <<pointed, named, mover, probe, disk, tmp, frame, fp>>
  BY DEF Publish, ReaderAt, Working, caches, files
<1>2. CASE SnapshotIsCurrent(rd[r].snap)
  <2>1. /\ Go(r, "ordering")
        /\ memo' = {m \in memo : m.key # FullKey(r)}
                        \cup {[key |-> FullKey(r), value |-> rd[r].work]}
    BY <1>2 DEF Publish
  <2>2. rd[r].snap.epoch = Epoch /\ "ordering" \in Working
    BY <1>2 DEF SnapshotIsCurrent, Working
  <2>3. /\ rd' \in [Readers -> Reads] /\ Fits(rd'[r], named, frame, fp)
        /\ \A q \in Readers : q # r => rd'[q] = rd[q]
        /\ rd'[r].at = "ordering"
    BY <1>1, <2>1, <2>2, GoFits DEF Trying
  <2> DEFINE k == FullKey(r)
             v == rd[r].work
  <2>4. k \in Keys \X Generations \X Nat /\ v \in Generations /\ v = k[2] /\ k[2] = named[k[3]] /\ k[3] \in 1 .. Epoch
    BY <1>1, CurrentSnapshot, NamesFit DEF IndexInv, ReadsFit, Fits
  <2> HIDE DEF k, v
  <2>5. memo' \subseteq memo \cup {[key |-> k, value |-> v]}
    BY <2>1 DEF k, v
  <2>6. [key |-> k, value |-> v] \in [key : Keys \X Generations \X Nat, value : Generations]
    BY <2>4
  <2>7. memo' \subseteq [key : Keys \X Generations \X Nat, value : Generations]
    BY <2>5, <2>6 DEF IndexInv, IndexTypes
  <2>8. MemoFits'
    <3> SUFFICES ASSUME NEW m \in memo'
                 PROVE  m.key[3] \in 1 .. Epoch /\ m.value = m.key[2] /\ m.key[2] = named[m.key[3]]
      BY <1>1 DEF MemoFits, Epoch
    <3>1. CASE m \in memo
      BY <3>1 DEF IndexInv, MemoFits
    <3>2. CASE m = [key |-> k, value |-> v]
      BY <2>4, <3>2
    <3> QED BY <2>5, <3>1, <3>2
  <2> QED BY <1>1, <2>3, <2>7, <2>8, MemoKeeps DEF Honest
<1>3. CASE ~SnapshotIsCurrent(rd[r].snap)
  BY <1>1, <1>3, AttemptKeeps DEF Publish
<1> QED BY <1>2, <1>3

LEMMA PublishOrderKeeps ==
    ASSUME IndexInv, NEW r \in Readers, PublishOrder(r)
    PROVE  IndexInv' /\ \A q \in Readers : Honest(q)
<1>1. /\ rd[r].at = "ordering" /\ rd[r].at \in Working /\ "trimming" \in Working
      /\ UNCHANGED <<pointed, named, mover, probe, memo, disk, tmp, frame, fp>>
  BY DEF PublishOrder, ReaderAt, Working, caches, files
<1>2. rd[r].snap.epoch = Epoch
  BY <1>1 DEF IndexInv, ReadsFit, Fits, Epoch
<1>3. CASE Go(r, "trimming")
  <2>1. /\ rd' \in [Readers -> Reads] /\ Fits(rd'[r], named, frame, fp)
        /\ \A q \in Readers : q # r => rd'[q] = rd[q]
        /\ rd'[r].at = "trimming"
    BY <1>1, <1>2, <1>3, GoFits DEF Trying
  <2> QED BY <1>1, <2>1, ReadAlone DEF Honest
<1>4. CASE Answer(r, rd[r].work)
  BY <1>1, <1>2, <1>4, WorkIsAnswered, ReadAlone
<1> QED BY <1>3, <1>4 DEF PublishOrder

\* What is trimmed leaves the memo; the read that trims answers its work, or an error.
LEMMA PublishTrimKeeps ==
    ASSUME IndexInv, NEW r \in Readers, PublishTrim(r)
    PROVE  IndexInv' /\ \A q \in Readers : Honest(q)
<1>1. /\ rd[r].at = "trimming" /\ rd[r].at \in Working
      /\ UNCHANGED <<pointed, named, mover, probe, disk, tmp, frame, fp>>
      /\ rd \in [Readers -> Reads] /\ Fits(rd[r], named, frame, fp)
  BY DEF PublishTrim, ReaderAt, Working, caches, files, IndexInv, IndexTypes, ReadsFit
<1>2. rd[r].snap.epoch = Epoch
  BY <1>1 DEF Fits, Epoch
<1>3. memo' \subseteq memo
  BY DEF PublishTrim
<1>4. MemoFits' /\ memo' \subseteq [key : Keys \X Generations \X Nat, value : Generations]
  BY <1>1, <1>3 DEF IndexInv, IndexTypes, MemoFits, Epoch
<1>5. CASE Answer(r, "error")
  <2>1. /\ rd' \in [Readers -> Reads] /\ Fits(rd'[r], named, frame, fp)
        /\ \A q \in Readers : q # r => rd'[q] = rd[q]
        /\ rd'[r].at = "done" /\ rd'[r].work = "error"
    BY <1>5, AnswerFits
  <2> QED BY <1>1, <1>4, <2>1, MemoKeeps, IndexAssumption DEF Honest
<1>6. CASE Answer(r, rd[r].work)
  BY <1>1, <1>2, <1>4, <1>6, WorkIsAnswered, MemoKeeps
<1>7. CASE UNCHANGED rd
  BY <1>1, <1>4, <1>7, MemoKeeps DEF Honest
<1> QED BY <1>5, <1>6, <1>7 DEF PublishTrim

-------------------------------------------------------------------------------
(* The steps that are of no read. *)

\* The index moves; a read that holds the lock would be in the way.
LEMMA SwapKeeps ==
    ASSUME IndexInv, SwapPath
    PROVE  IndexInv' /\ UNCHANGED rd
<1> DEFINE g == mover.target
<1>1. /\ g \in Generations /\ named \in Seq(Generations) /\ named # <<>> /\ Epoch \in Nat \ {0}
      /\ named' = Append(named, g) /\ frame' = None /\ fp' = None
      /\ mover' = [at |-> "entries", target |-> None]
      /\ UNCHANGED <<pointed, memo, disk, tmp, probe, rd>>
      /\ rd \in [Readers -> Reads] /\ ReadsFit
  BY DEF SwapPath, InvalidateCache, files, IndexInv, IndexTypes, Epoch
<1>2. /\ named' \in Seq(Generations) /\ named' # <<>> /\ Epoch' = Epoch + 1
      /\ \A i \in 1 .. Epoch : named'[i] = named[i]
  BY <1>1 DEF Epoch
<1>3. \A q \in Readers : rd[q].at \notin {"ordering", "trimming"}
  BY DEF SwapPath, LockFree
<1>4. ReadsFit'
  <2> SUFFICES ASSUME NEW q \in Readers PROVE Fits(rd[q], named', None, None)
    BY <1>1 DEF ReadsFit
  <2> QED BY <1>1, <1>3, FitsAfterSwap DEF ReadsFit
<1>5. MemoFits'
  <2> SUFFICES ASSUME NEW m \in memo
               PROVE  m.key[3] \in 1 .. Epoch' /\ m.value = m.key[2] /\ m.key[2] = named'[m.key[3]]
    BY <1>1 DEF MemoFits
  <2>1. m.key[3] \in 1 .. Epoch /\ m.value = m.key[2] /\ m.key[2] = named[m.key[3]]
    BY DEF IndexInv, MemoFits
  <2>2. m.key[3] \in 1 .. Epoch'
    BY <1>1, <1>2, <2>1
  <2> QED BY <1>2, <2>1, <2>2
<1>6. FilesFit' /\ CachesFit'
  BY <1>1 DEF IndexInv, FilesFit, CachesFit
<1>7. IndexTypes'
  <2>1. probe' \in 0 .. Epoch'
    BY <1>1, <1>2 DEF IndexInv, IndexTypes
  <2> QED BY <1>1, <1>2, <2>1 DEF IndexInv, IndexTypes
<1> QED BY <1>1, <1>4, <1>5, <1>6, <1>7 DEF IndexInv

\* What leaves the index, the caches and the files alone, the memo at most emptied.
LEMMA MoverKeeps ==
    ASSUME IndexInv, memo' = memo \/ memo' = {}, pointed' \in Generations, probe' \in 0 .. Epoch,
           mover'.at = "swap" => mover'.target \in Generations,
           UNCHANGED <<named, frame, fp, disk, tmp, rd>>
    PROVE  IndexInv'
<1>1. IndexTypes'
  BY DEF IndexInv, IndexTypes, Epoch
<1>2. ReadsFit' /\ MemoFits' /\ FilesFit' /\ CachesFit'
  BY DEF IndexInv, ReadsFit, MemoFits, FilesFit, CachesFit, Epoch
<1> QED BY <1>1, <1>2 DEF IndexInv

\* index_fingerprint publishes what it read of the index that is named now.
LEMMA ProbePublishKeeps ==
    ASSUME IndexInv, ProbePublish
    PROVE  IndexInv' /\ UNCHANGED rd
<1>1. /\ UNCHANGED <<pointed, named, frame, memo, disk, tmp, mover, rd>> /\ probe # 0 /\ probe' = 0
      /\ fp' = IF PathsAreCurrent(probe) /\ fp = None THEN named[probe] ELSE fp
      /\ named \in Seq(Generations) /\ Epoch \in Nat \ {0} /\ CachesFit /\ fp \in Generations \cup {None}
  BY DEF ProbePublish, files, IndexInv, IndexTypes, Epoch
<1>2. \/ fp' = fp
      \/ fp = None /\ fp' = named[Epoch] /\ fp' \in Generations
  BY <1>1 DEF PathsAreCurrent, Epoch
<1>3. ReadsFit'
  <2> SUFFICES ASSUME NEW q \in Readers PROVE Fits(rd[q], named, frame, fp')
    BY <1>1 DEF ReadsFit
  <2>1. rd[q] \in Reads /\ Fits(rd[q], named, frame, fp)
    BY DEF IndexInv, IndexTypes, ReadsFit
  <2> QED BY <1>1, <1>2, <2>1, FitsAfterFill
<1>4. CachesFit'
  BY <1>1, <1>2, IndexAssumption DEF CachesFit, Epoch
<1>5. MemoFits' /\ FilesFit'
  BY <1>1 DEF IndexInv, MemoFits, FilesFit, Epoch
<1>6. IndexTypes'
  <2>1. probe' \in 0 .. Epoch' /\ fp' \in Generations \cup {None}
    BY <1>1, <1>2 DEF Epoch
  <2> QED BY <1>1, <2>1 DEF IndexInv, IndexTypes
<1> QED BY <1>1, <1>3, <1>4, <1>5, <1>6 DEF IndexInv

-------------------------------------------------------------------------------
LEMMA IndexStart == IndexInit => IndexInv
<1> SUFFICES ASSUME IndexInit PROVE IndexInv
  OBVIOUS
<1>1. /\ named = <<Bundle>> /\ Bundle \in Generations /\ None \notin Generations
      /\ Epoch = 1 /\ frame = None /\ fp = None /\ memo = {} /\ probe = 0
      /\ tmp = [n \in Names |-> None] /\ rd = [r \in Readers |-> Idle] /\ pointed = Bundle
  BY IndexAssumption DEF IndexInit, Epoch
<1>2. PICK k \in Keys, f \in {None, "torn", "altered", Bundle} :
          disk = [[n \in Names |-> None] EXCEPT ![<<k, Bundle>>] = f]
  BY DEF IndexInit
<1>3. FilesFit /\ disk \in [Names -> Files] /\ tmp \in [Names -> Files]
  <2>1. \A n \in Names : disk[n] = IF n = <<k, Bundle>> THEN f ELSE None
    BY <1>2 DEF Names
  <2>2. disk \in [Names -> Files] /\ tmp \in [Names -> Files]
    BY <1>1, <1>2 DEF Files
  <2> QED BY <1>1, <2>1, <2>2, IndexAssumption DEF FilesFit
<1>4. Idle \in Reads /\ Idle.at = "idle"
  BY DEF Idle, NoSnap, Reads, Snaps
<1>5. ReadsFit
  BY <1>1, <1>4 DEF ReadsFit, Fits, Trying, Working
<1>6. IndexTypes
  <2>1. mover.at = "swap" => mover.target \in Generations
    BY DEF IndexInit
  <2>2. rd \in [Readers -> Reads]
    BY <1>1, <1>4
  <2> QED BY <1>1, <1>3, <2>1, <2>2 DEF IndexTypes
<1> QED BY <1>1, <1>3, <1>5, <1>6 DEF IndexInv, MemoFits, CachesFit

\* Every step keeps what the caches and the reads hold of the index, and is honest.
LEMMA IndexStep ==
    ASSUME IndexInv, [IndexNext]_indexVars
    PROVE  IndexInv' /\ \A r \in Readers : Honest(r)
<1>1. IndexInv' /\ UNCHANGED rd => \A r \in Readers : Honest(r)
  BY DEF Honest
<1>2. ASSUME NEW g \in Generations, Activate(g) PROVE IndexInv' /\ UNCHANGED rd
  BY <1>2, MoverKeeps DEF Activate, caches, files, IndexInv, IndexTypes
<1>3. CASE Resolve
  <2>1. Resolved(pointed) \in Generations
    BY IndexAssumption DEF Resolved, IndexInv, IndexTypes
  <2> QED BY <1>3, <2>1, <1>1, MoverKeeps DEF Resolve, caches, files, IndexInv, IndexTypes
<1>4. CASE SwapPath
  BY <1>1, <1>4, SwapKeeps
<1>5. CASE ResetEntries
  BY <1>1, <1>5, MoverKeeps DEF ResetEntries, caches, files, IndexInv, IndexTypes
<1>6. CASE ResetOrder
  BY <1>1, <1>6, MoverKeeps DEF ResetOrder, caches, files, IndexInv, IndexTypes
<1>7. CASE ProbeStart
  <2>1. Epoch \in 0 .. Epoch
    BY DEF IndexInv, IndexTypes, Epoch
  <2> QED BY <1>1, <1>7, <2>1, MoverKeeps DEF ProbeStart, caches, files, IndexInv, IndexTypes
<1>8. CASE ProbePublish
  BY <1>1, <1>8, ProbePublishKeeps
<1>9. ASSUME NEW r \in Readers, NEW k \in Keys, Begin(r, k)
      PROVE  IndexInv' /\ \A q \in Readers : Honest(q)
  BY <1>9, BeginKeeps
<1>10. ASSUME NEW r \in Readers, ReadStep(r)
       PROVE  IndexInv' /\ \A q \in Readers : Honest(q)
  BY <1>10, SnapshotKeeps, LoadFailsKeeps, PublishFrameKeeps, HitKeeps, RecheckKeeps, ComputeKeeps,
     ComputeFailsKeeps, DiskSkipKeeps, DiskOpenKeeps, DiskFillKeeps, DiskReplaceKeeps,
     PublishKeeps, PublishOrderKeeps, PublishTrimKeeps DEF ReadStep
<1>11. CASE UNCHANGED indexVars
  BY <1>1, <1>11, MoverKeeps DEF indexVars, caches, files, IndexInv, IndexTypes
<1> QED BY <1>1, <1>2, <1>3, <1>4, <1>5, <1>6, <1>7, <1>8, <1>9, <1>10, <1>11 DEF IndexNext, Repoint

\* A read is answered with work on the generation that is active when it is
\* answered, whether it was computed, memoized or found on the disk, and gives up
\* only after the generation changed in each of its attempts; what the caches
\* hold was read from the index that is named (SnapshotReader.read,
\* index_snapshot, index_fingerprint, repoint_to_refreshed).
THEOREM ReadsAreHonest == IndexSpec => ReadIsHonest
<1>1. IndexInit => IndexInv
  BY IndexStart
<1>2. IndexInv /\ [IndexNext]_indexVars => IndexInv'
  BY IndexStep
<1>3. ASSUME IndexInv, IndexInv', [IndexNext]_indexVars
      PROVE  [/\ CachesFollowIndex'
              /\ \A r \in Readers : ReaderAt(r, "done")' /\ ~ReaderAt(r, "done") =>
                    /\ rd'[r].work \in Generations => rd'[r].work = Last(named)
                    /\ rd'[r].work = "moved" => Epoch - rd[r].began >= MaxAttempts]_indexVars
  <2>1. CachesFollowIndex'
    BY <1>3 DEF CachesFollowIndex, IndexInv, CachesFit, MemoFits, FilesFit, Epoch, Last
  <2>2. \A r \in Readers : Honest(r)
    BY <1>3, IndexStep
  <2> QED BY <2>1, <2>2 DEF Honest, ReaderAt, Epoch, Last
<1> QED BY <1>1, <1>2, <1>3, PTL DEF IndexSpec, ReadIsHonest
===============================================================================
