------------------------- MODULE ArchiveRestoreProofs -------------------------
(***************************************************************************)
(* A restore is whole or nothing, can always be rolled back and replaces   *)
(* what its preview showed: for any files, any number of crashes and any   *)
(* number of failing file operations.  And about the follow store of       *)
(* Follows: what a follow shows is true and explained, and told once.      *)
(***************************************************************************)
EXTENDS ArchiveRestore, Follows, FiniteSetTheorems, TLAPS

(***************************************************************************)
(* What the transaction directory and the ledger hold at each step of the  *)
(* restore and of the recovery.                                            *)
(***************************************************************************)
Clean == op.at \in Calls \cup {"save", "mkdir"} => tx = NoTx

Staging ==
    op.at = "stage" =>
        /\ tx.there
        /\ tx.phase = "none"
        /\ todo \subseteq Named(archive)
        /\ \A f \in Named(archive) \ todo : tx.copies[f] = ledger[f]

Prepared ==
    op.at = "begin" =>
        /\ tx.there
        /\ tx.phase = "prepared"
        /\ tx.entries = Named(archive)
        /\ tx.existed = Named(archive) \cap Named(ledger)
        /\ \A f \in tx.entries : tx.copies[f] = ledger[f]

Applying ==
    op.at = "apply" =>
        /\ tx.there
        /\ tx.phase = "applying"
        /\ tx.entries = Named(archive)
        /\ todo \subseteq tx.entries
        /\ \A f \in tx.entries \ todo : ledger[f] = archive[f]

Undoing ==
    op.at = "undo" =>
        /\ tx.there
        /\ tx.phase = "applying"
        /\ todo \subseteq tx.entries
        /\ \A f \in tx.entries \ todo : ledger[f] = RolledBack(ledger)[f]

Clearing == op.at = "clear" => tx.there /\ tx.phase # "applying"

Progress == Clean /\ Staging /\ Prepared /\ Applying /\ Undoing /\ Clearing

RestoreInv == TypeOK /\ Progress /\ CanRollBack

\* What a restore under way was previewed from is still so.
Informed ==
    op.at \in {"save", "mkdir", "stage", "begin", "apply"} =>
        /\ preview.of = archive
        /\ \A f \in Named(archive) : preview.local[f] = View[f]

\* The ledger, a restored one and an export are maps from the files to numbers.
LEMMA LedgersAreMaps ==
    /\ Nothing \in Ledgers
    /\ NoTx \in [there : BOOLEAN, phase : Phases, entries : SUBSET Files,
                 existed : SUBSET Files, copies : Ledgers]
    /\ \A l \in Ledgers : Exported(l) \in Ledgers
BY DEF Nothing, NoTx, Ledgers, Exported, Phases

\* There is no transaction yet.
LEMMA RestoreInit == Init => RestoreInv
<1> SUFFICES ASSUME Init PROVE RestoreInv
  OBVIOUS
<1>1. TypeOK
  <2>1. DiskTyped /\ TxTyped
    BY LedgersAreMaps DEF Init, DiskTyped, TxTyped
  <2>2. op \in [at : Steps, for : Calls \cup {"free"}]
    BY DEF Init, Idle, Steps, Calls
  <2>3. CallTyped
    BY <2>2, LedgersAreMaps DEF Init, CallTyped
  <2>4. Counted
    BY BoundsAssumption DEF Init, Counted
  <2> QED BY <2>1, <2>3, <2>4 DEF TypeOK
<1>2. Progress /\ CanRollBack
  BY DEF Init, Progress, Clean, Staging, Prepared, Applying, Undoing, Clearing,
         CanRollBack, Idle, Calls, NoTx
<1> QED BY <1>1, <1>2 DEF RestoreInv

\* Whoever does not hold the lock, and a thread that does, is at no step that
\* the invariant speaks of.
Elsewhere == {"free", "thread", "link", "recover"}

LEMMA ElsewhereProgress == op'.at \in Elsewhere => Progress'
BY DEF Elsewhere, Progress, Clean, Staging, Prepared, Applying, Undoing, Clearing, Calls

\* The calls, the checks and the preparation: what they do not touch stays.
LEMMA CallsKeep ==
    ASSUME RestoreInv,
           \/ \E x \in Calls : Call(x)
           \/ TakeLock \/ Admit \/ Export \/ Preview \/ RestoreCheck \/ SaveBefore
    PROVE  RestoreInv'
<1> USE DEF RestoreInv, TypeOK, DiskTyped, TxTyped, CallTyped, Counted, Progress, Clean, Staging, Prepared, Applying, Undoing,
            Clearing, CanRollBack, bounds, At, Done, Idle, Steps, Calls
<1>1. ASSUME NEW x \in Calls, Call(x) PROVE RestoreInv'
  BY <1>1 DEF Call
<1>2. CASE TakeLock
  BY <1>2 DEF TakeLock
<1>3. CASE Admit
  BY <1>3 DEF Admit
<1>4. CASE Export
  BY <1>4, LedgersAreMaps DEF Export
<1>5. CASE Preview
  <2>1. Token \in [of : Ledgers, local : Ledgers]
    BY DEF Token, Ledgers
  <2> QED BY <1>5, <2>1 DEF Preview
<1>6. CASE RestoreCheck
  BY <1>6 DEF RestoreCheck
<1>7. CASE SaveBefore
  BY <1>7, LedgersAreMaps DEF SaveBefore
<1> QED BY <1>1, <1>2, <1>3, <1>4, <1>5, <1>6, <1>7

\* The transaction is prepared, applied and committed.
LEMMA RestoringKeeps ==
    ASSUME RestoreInv,
           \/ MakeRoot
           \/ \E f \in Files : StageFile(f)
           \/ Prepare
           \/ BeginApply
           \/ \E f \in Files : ApplyFile(f)
           \/ Commit
    PROVE  RestoreInv'
<1> USE DEF RestoreInv, TypeOK, DiskTyped, TxTyped, CallTyped, Counted, Progress, Clean, Staging, Prepared, Applying, Undoing,
            Clearing, CanRollBack, bounds, At, Done, Idle, Steps, Calls, Phases, Named, Ledgers
<1>1. CASE MakeRoot
  <2>1. tx = NoTx /\ ~tx.there
    BY <1>1 DEF MakeRoot, NoTx
  <2>2. /\ tx' = [tx EXCEPT !.there = TRUE]
        /\ todo' = Named(archive)
        /\ op' = [op EXCEPT !.at = "stage"]
        /\ UNCHANGED <<ledger, archive, preview, saved, admitted, made, bounds>>
    BY <1>1, <2>1 DEF MakeRoot
  <2>3. TypeOK'
    BY <2>1, <2>2
  <2>4. op'.at = "stage" /\ tx'.there /\ tx'.phase = "none"
    BY <2>1, <2>2 DEF NoTx
  <2> QED BY <2>2, <2>3, <2>4
<1>2. ASSUME NEW f \in Files, StageFile(f) PROVE RestoreInv'
  BY <1>2 DEF StageFile
<1>3. CASE Prepare
  BY <1>3 DEF Prepare
<1>4. CASE BeginApply
  BY <1>4 DEF BeginApply
<1>5. ASSUME NEW f \in Files, ApplyFile(f) PROVE RestoreInv'
  BY <1>5 DEF ApplyFile
<1>6. CASE Commit
  BY <1>6 DEF Commit
<1> QED BY <1>1, <1>2, <1>3, <1>4, <1>5, <1>6

\* The recovery undoes and removes.
LEMMA RecoveryKeeps == ASSUME RestoreInv, Recovery PROVE RestoreInv'
<1> USE DEF RestoreInv, TypeOK, DiskTyped, TxTyped, CallTyped, Counted, Progress, Clean, Staging, Prepared, Applying, Undoing,
            Clearing, CanRollBack, bounds, At, Done, Idle, Steps, Calls, Phases, Named, Ledgers
<1>1. CASE Recover
  BY <1>1 DEF Recover
<1>2. ASSUME NEW f \in Files, UndoFile(f) PROVE RestoreInv'
  <2>1. /\ op.at = "undo" /\ f \in todo
        /\ UNCHANGED <<tx, archive, preview, saved, admitted, made, writes, crashes, faults>>
    BY <1>2 DEF UndoFile
  <2>2. CASE f \in tx.existed /\ tx.copies[f] = 0
    <3>1. op' = Idle /\ todo' = {} /\ ledger' = ledger
      BY <1>2, <2>2 DEF UndoFile
    <3> QED BY <2>1, <3>1
  <2>3. CASE ~(f \in tx.existed /\ tx.copies[f] = 0)
    <3>1. /\ ledger' = [ledger EXCEPT ![f] = IF f \in tx.existed THEN tx.copies[f] ELSE 0]
          /\ todo' = todo \ {f}
          /\ op' = op
      BY <1>2, <2>3 DEF UndoFile
    <3>2. TypeOK' /\ CanRollBack'
      BY <2>1, <3>1
    <3>3. \A g \in tx.entries \ todo' : ledger'[g] = RolledBack(ledger)'[g]
      BY <2>1, <3>1 DEF RolledBack
    <3> QED BY <2>1, <3>1, <3>2, <3>3
  <2> QED BY <2>2, <2>3
<1>3. CASE UndoDone
  BY <1>3 DEF UndoDone
<1>4. CASE ClearFile
  <2>1. /\ op.at = "clear" /\ op' = op
        /\ UNCHANGED <<ledger, archive, preview, saved, todo, admitted, made,
                       writes, crashes, faults>>
    BY <1>4 DEF ClearFile
  <2>2. CASE tx' = [tx EXCEPT !.phase = "none", !.entries = {}, !.existed = {}]
    BY <2>1, <2>2
  <2>3. ASSUME NEW f \in Files, tx' = [tx EXCEPT !.copies[f] = 0] PROVE RestoreInv'
    BY <2>1, <2>3
  <2> QED BY <1>4, <2>2, <2>3 DEF ClearFile
<1>5. CASE Cleared
  BY <1>5, LedgersAreMaps DEF Cleared, NoTx
<1> QED BY <1>1, <1>2, <1>3, <1>4, <1>5 DEF Recovery

\* Threads write the ledger between the calls, never its transaction.
LEMMA ThreadsKeep == ASSUME RestoreInv, Thread PROVE RestoreInv'
<1>1. op'.at \in Elsewhere /\ op' \in [at : Steps, for : Calls \cup {"free"}]
  BY DEF Thread, ThreadWrite, ThreadRead, WriteRecord, WriteHead, Elsewhere,
         At, Done, Idle, Steps, Calls, RestoreInv, TypeOK, CallTyped
<1>2. UNCHANGED <<tx, archive, preview, saved, todo, admitted>>
  BY DEF Thread, ThreadWrite, ThreadRead, WriteRecord, WriteHead
<1>3. TxTyped' /\ CanRollBack'
  BY <1>2 DEF RestoreInv, TypeOK, TxTyped, CanRollBack
<1>4. CallTyped'
  BY <1>1, <1>2 DEF RestoreInv, TypeOK, CallTyped
<1>5. /\ made' = made \/ (made' = made + 1 /\ made < MaxCheckpoints)
      /\ writes' = writes \/ (writes' = writes + 1 /\ writes < MaxWrites)
      /\ UNCHANGED <<crashes, faults>>
  BY DEF bounds, Thread, ThreadWrite, ThreadRead, WriteRecord, WriteHead
<1>8. Counted'
  BY <1>5, BoundsAssumption DEF RestoreInv, TypeOK, Counted
<1>6. ledger' \in Ledgers
  <2> USE DEF RestoreInv, TypeOK, DiskTyped, Ledgers
  <2>1. ASSUME NEW f \in Drafts, ThreadWrite(f) PROVE ledger' \in Ledgers
    <3>1. PICK c \in {0, writes + 1} : ledger' = [ledger EXCEPT ![f] = c]
      BY <2>1 DEF ThreadWrite
    <3>2. c \in Nat
      BY <3>1, BoundsAssumption DEF Counted
    <3> QED BY <3>1, <3>2
  <2>2. CASE ThreadRead
    BY <2>2 DEF ThreadRead
  <2>3. CASE WriteRecord
    <3>1. ledger[HeadFile] + 1 \in Nat
      BY DEF Files
    <3> QED BY <2>3, <3>1 DEF WriteRecord
  <2>4. CASE WriteHead
    <3>1. made \in Nat
      BY BoundsAssumption DEF Counted
    <3> QED BY <2>4, <3>1 DEF WriteHead
  <2> QED BY <2>1, <2>2, <2>3, <2>4 DEF Thread
<1>7. DiskTyped'
  BY <1>2, <1>6 DEF RestoreInv, TypeOK, DiskTyped
<1> QED BY <1>1, <1>3, <1>4, <1>7, <1>8, ElsewhereProgress DEF RestoreInv, TypeOK

\* A failure and a crash leave the transaction as it is.
LEMMA FailuresKeep == ASSUME RestoreInv, Fault \/ Crash PROVE RestoreInv'
<1> USE DEF RestoreInv, TypeOK
<1>1. op'.at \in Elsewhere /\ op' \in [at : Steps, for : Calls \cup {"free"}]
  BY DEF Fault, Crash, Idle, Elsewhere, Steps, Calls
<1>2. UNCHANGED <<tx, archive, preview, saved>> /\ todo' = {} /\ admitted' \in BOOLEAN
  BY DEF Fault, Crash, CallTyped
<1>3. TxTyped' /\ CanRollBack'
  BY <1>2 DEF TxTyped, CanRollBack
<1>4. CallTyped'
  BY <1>1, <1>2 DEF CallTyped
<1>5. Counted'
  BY BoundsAssumption DEF Fault, Crash, Counted
<1>6. DiskTyped'
  BY <1>2 DEF Fault, Crash, DiskTyped, Ledgers
<1> QED BY <1>1, <1>3, <1>4, <1>5, <1>6, ElsewhereProgress

\* Every step keeps the invariant.
LEMMA RestoreStep == RestoreInv /\ [Next]_vars => RestoreInv'
<1> SUFFICES ASSUME RestoreInv, [Next]_vars PROVE RestoreInv'
  OBVIOUS
<1>1. CASE UNCHANGED vars
  BY <1>1 DEF vars, RolledBack, RestoreInv, TypeOK, DiskTyped, TxTyped, CallTyped, Counted,
              CanRollBack, Progress, Clean, Staging, Prepared, Applying, Undoing, Clearing
<1> QED BY <1>1, CallsKeep, RestoringKeeps, RecoveryKeeps, ThreadsKeep, FailuresKeep
        DEF Next, Holder, Restoring

\* Variables are typed, and no journal is there without its directory.
THEOREM ArchiveTypeCorrect == Spec => []TypeOK
<1>1. RestoreInv => TypeOK
  BY DEF RestoreInv
<1> QED BY <1>1, RestoreInit, RestoreStep, PTL DEF Spec

\* A restore that has begun to replace files can be rolled back.
THEOREM RollBackStaysPossible == Spec => []CanRollBack
<1>1. RestoreInv => CanRollBack
  BY DEF RestoreInv
<1> QED BY <1>1, RestoreInit, RestoreStep, PTL DEF Spec

(***************************************************************************)
(* The owner's view of the ledger, step by step.                           *)
(***************************************************************************)
\* The view is a ledger.
LEMMA ViewIsMap == TypeOK => View \in Ledgers
BY DEF TypeOK, DiskTyped, TxTyped, View, RolledBack, Ledgers

\* What the ledger would be rolled back to is not touched while a restore
\* applies its files and while it is undone.
LEMMA UndoneViewStays ==
    ASSUME RestoreInv, tx.phase = "applying", tx' = tx,
           NEW f \in tx.entries, NEW c, ledger' = [ledger EXCEPT ![f] = c]
    PROVE  View' = View
BY DEF RestoreInv, TypeOK, DiskTyped, View, RolledBack, Ledgers

\* The steps of a restore and of the recovery leave the owner's view alone,
\* but for the commit.
LEMMA ViewStays ==
    ASSUME RestoreInv, ~Commits,
           \/ Recovery
           \/ RestoreCheck \/ SaveBefore \/ MakeRoot
           \/ \E f \in Files : StageFile(f)
           \/ Prepare \/ BeginApply
           \/ \E f \in Files : ApplyFile(f)
           \/ Commit
    PROVE  View' = View
<1> USE DEF RestoreInv, Progress
<1>1. ASSUME Recover \/ RestoreCheck \/ SaveBefore PROVE View' = View
  BY <1>1 DEF Recover, RestoreCheck, SaveBefore, View, RolledBack
<1>2. ASSUME NEW f \in Files, UndoFile(f) PROVE View' = View
  <2>1. tx.phase = "applying" /\ f \in tx.entries /\ tx' = tx
    BY <1>2 DEF UndoFile, Undoing
  <2>2. CASE ledger' = ledger
    BY <2>1, <2>2 DEF View, RolledBack
  <2>3. CASE ledger' # ledger
    BY <1>2, <2>1, <2>3, UndoneViewStays DEF UndoFile
  <2> QED BY <2>2, <2>3
<1>3. CASE UndoDone
  <2>1. /\ tx.phase = "applying" /\ todo = {}
        /\ tx'.phase = "rolled_back" /\ ledger' = ledger
        /\ \A f \in tx.entries : ledger[f] = RolledBack(ledger)[f]
    BY <1>3 DEF UndoDone, Undoing, TypeOK, TxTyped
  <2>2. \A f \in Files : RolledBack(ledger)[f] = ledger[f]
    BY <2>1 DEF RolledBack
  <2>3. RolledBack(ledger) = ledger
    BY <2>2 DEF RolledBack, TypeOK, DiskTyped, Ledgers
  <2> QED BY <2>1, <2>3 DEF View
<1>4. ASSUME ClearFile \/ Cleared PROVE View' = View
  <2>1. tx.phase # "applying" /\ ledger' = ledger
    BY <1>4 DEF ClearFile, Cleared, Clearing
  <2>2. tx'.phase # "applying"
    BY <1>4, <2>1 DEF ClearFile, Cleared, NoTx, TypeOK, TxTyped
  <2> QED BY <2>1, <2>2 DEF View
<1>5. CASE MakeRoot
  BY <1>5 DEF MakeRoot, View, Clean, Calls, NoTx
<1>6. ASSUME NEW f \in Files, StageFile(f) PROVE View' = View
  BY <1>6 DEF StageFile, View, Staging, TypeOK, TxTyped
<1>7. CASE Prepare
  BY <1>7 DEF Prepare, View, Staging, TypeOK, TxTyped
<1>8. CASE BeginApply
  <2>1. /\ tx.phase = "prepared" /\ ledger' = ledger
        /\ tx' = [tx EXCEPT !.phase = "applying"]
        /\ tx.existed = tx.entries \cap Named(ledger)
        /\ \A f \in tx.entries : tx.copies[f] = ledger[f]
    BY <1>8 DEF BeginApply, Prepared
  <2>2. /\ tx'.phase = "applying" /\ tx'.entries = tx.entries
        /\ tx'.existed = tx.existed /\ tx'.copies = tx.copies
    BY <2>1 DEF TypeOK, TxTyped
  <2>3. View' = [f \in Files |-> ledger[f]]
    BY <2>1, <2>2 DEF View, RolledBack, Named
  <2> QED BY <2>1, <2>3 DEF View, TypeOK, DiskTyped, Ledgers
<1>9. ASSUME NEW f \in Files, ApplyFile(f) PROVE View' = View
  BY <1>9, UndoneViewStays DEF ApplyFile, Applying
<1>10. CASE Commit
  <2>1. tx' = tx /\ ledger' = ledger
    BY <1>10 DEF Commit, Commits, Applying, TypeOK, TxTyped
  <2> QED BY <2>1 DEF View, RolledBack
<1> QED BY <1>1, <1>2, <1>3, <1>4, <1>5, <1>6, <1>7, <1>8, <1>9, <1>10 DEF Recovery

\* The commit is where the archive is put over the owner's ledger.
LEMMA CommitIsRestore ==
    ASSUME RestoreInv, [Next]_vars, Commits
    PROVE  /\ Commit
           /\ View' = Overlay(archive, View)
           /\ archive' = archive
<1> USE DEF RestoreInv, Progress
<1>1. tx' # tx /\ tx'.phase = "committed" /\ tx.phase = "applying"
  BY DEF Commits
<1>2. Commit
  BY <1>1 DEF Next, Holder, Recovery, Restoring, Thread, Call, TakeLock, Recover, UndoFile,
              UndoDone, ClearFile, Cleared, RestoreCheck, SaveBefore, MakeRoot, StageFile,
              Prepare, BeginApply, ApplyFile, ThreadWrite, ThreadRead, WriteRecord, WriteHead,
              Admit, Export, Preview, Fault, Crash, vars, NoTx, TypeOK, TxTyped
<1>3. /\ tx.entries = Named(archive)
      /\ \A f \in Named(archive) : ledger[f] = archive[f]
      /\ ledger' = ledger /\ archive' = archive
  BY <1>2 DEF Commit, Applying
<1>4. \A f \in Files : ledger[f] = Overlay(archive, RolledBack(ledger))[f]
  BY <1>3 DEF Overlay, RolledBack, Named
<1>5. ledger = Overlay(archive, RolledBack(ledger))
  BY <1>4 DEF Overlay, TypeOK, DiskTyped, Ledgers
<1> QED BY <1>1, <1>2, <1>3, <1>5 DEF View

\* Calls, crashes and failures that do not write the ledger change no view.
LEMMA ViewUnwritten == UNCHANGED <<ledger, tx>> => View' = View
BY DEF View, RolledBack

\* A write to one file changes the owner's view in that file or not at all.
LEMMA ViewWritten ==
    ASSUME RestoreInv, tx' = tx, NEW f \in Files, NEW c \in Nat,
           ledger' = [ledger EXCEPT ![f] = c]
    PROVE  View' = [View EXCEPT ![f] = View'[f]]
<1>1. View \in Ledgers
  BY ViewIsMap DEF RestoreInv
<1>2. /\ View' = [g \in Files |-> View'[g]]
      /\ \A g \in Files : g # f => View'[g] = View[g]
  BY DEF RestoreInv, TypeOK, DiskTyped, TxTyped, View, RolledBack, Ledgers
<1> QED BY <1>1, <1>2 DEF Ledgers

\* What a step of a thread, or a failing one, does to one file.
LEMMA WriterWrites ==
    ASSUME RestoreInv, Thread \/ Fault, ledger' # ledger
    PROVE  /\ Turn = "writer"
           /\ UNCHANGED <<tx, archive>>
           /\ \E f \in Files : \E c \in Nat : ledger' = [ledger EXCEPT ![f] = c]
<1> USE BoundsAssumption DEF RestoreInv, TypeOK, DiskTyped, Counted, Turn
<1>1. ASSUME NEW f \in Drafts, ThreadWrite(f)
      PROVE  \E g \in Files : \E c \in Nat : ledger' = [ledger EXCEPT ![g] = c]
  <2>1. PICK c \in {0, writes + 1} : ledger' = [ledger EXCEPT ![f] = c]
    BY <1>1 DEF ThreadWrite
  <2>2. c \in Nat
    <3>1. writes \in Nat
      OBVIOUS
    <3> QED BY <3>1
  <2>3. f \in Files
    BY DEF Files
  <2> QED BY <2>1, <2>2, <2>3
<1>2. ASSUME WriteRecord
      PROVE  \E g \in Files : \E c \in Nat : ledger' = [ledger EXCEPT ![g] = c]
  <2>1. made + 1 \in Files /\ HeadFile \in Files
    BY <1>2 DEF WriteRecord, Files, Checkpoints
  <2>2. ledger[HeadFile] + 1 \in Nat
    BY <2>1 DEF Ledgers
  <2> QED BY <1>2, <2>1, <2>2 DEF WriteRecord
<1>3. ASSUME WriteHead
      PROVE  \E g \in Files : \E c \in Nat : ledger' = [ledger EXCEPT ![g] = c]
  <2>1. HeadFile \in Files /\ made \in Nat
    BY DEF Files
  <2>2. ledger' = [ledger EXCEPT ![HeadFile] = made]
    BY <1>3 DEF WriteHead
  <2> QED BY <2>1, <2>2
<1>4. ASSUME Fault
      PROVE  /\ op.at = "link"
             /\ \E g \in Files : \E c \in Nat : ledger' = [ledger EXCEPT ![g] = c]
  <2>1. op.at = "link" /\ ledger' = [ledger EXCEPT ![made] = 0]
    BY <1>4 DEF Fault
  <2>2. CASE made \in Files
    BY <2>1, <2>2
  <2>3. CASE made \notin Files
    <3>1. ledger' = ledger
      BY <2>1, <2>3 DEF Ledgers
    <3> QED BY <3>1
  <2> QED BY <2>1, <2>2, <2>3
<1>5. Turn = "writer" /\ UNCHANGED <<tx, archive>>
  BY <1>4 DEF Thread, ThreadWrite, ThreadRead, WriteRecord, WriteHead, Fault
<1> QED BY <1>1, <1>2, <1>3, <1>4, <1>5 DEF Thread, ThreadRead

\* The initial ledger is empty, and it is the keeper's turn.
LEMMA StoreInit == Init => Store!Init
BY DEF Init, Store!Init, View, Turn, Idle, NoTx, Nothing, Store!Nothing

\* Every step is a step of the store or none.
LEMMA StoreStep == RestoreInv /\ [Next]_vars => [Store!Next]_(Store!storeVars)
<1> SUFFICES ASSUME RestoreInv, [Next]_vars PROVE [Store!Next]_(Store!storeVars)
  OBVIOUS
<1> USE DEF RestoreInv, Store!Next
<1>1. Turn' \in Store!Turns
  BY DEF Turn, Store!Turns
<1>2. CASE Commits
  <2>1. Commit /\ View' = Store!Overlay(archive, View) /\ archive' = archive
    BY <1>2, CommitIsRestore DEF Overlay, Store!Overlay
  <2>2. Turn = "keeper"
    BY <2>1 DEF Commit, Turn
  <2> QED BY <1>1, <2>1, <2>2 DEF Store!Restore
<1>3. CASE (Thread \/ Fault) /\ ledger' # ledger
  <2>1. PICK f \in Files : \E c \in Nat : ledger' = [ledger EXCEPT ![f] = c]
    BY <1>3, WriterWrites
  <2>2. Turn = "writer" /\ UNCHANGED <<tx, archive>>
    BY <1>3, WriterWrites
  <2>3. View' = [View EXCEPT ![f] = View'[f]]
    BY <2>1, <2>2, ViewWritten
  <2> QED BY <1>1, <2>2, <2>3 DEF Store!Write
<1>4. CASE Export
  <2>1. tx = NoTx /\ View = ledger /\ Turn = "keeper"
    BY <1>4 DEF Export, Progress, Clean, Calls, View, NoTx, Turn
  <2>2. UNCHANGED <<ledger, tx>>
    BY <1>4 DEF Export
  <2>3. View' = View
    BY <2>2, ViewUnwritten
  <2>4. CASE Verifies(ledger)
    <3>1. archive' = Exported(ledger)
      BY <1>4, <2>4 DEF Export
    <3> QED BY <1>1, <2>1, <2>3, <3>1 DEF Store!Export, Exported
  <2>5. CASE ~Verifies(ledger)
    BY <1>1, <1>4, <2>3, <2>5 DEF Export, Store!Pass
  <2> QED BY <2>4, <2>5
<1>5. CASE ~Commits /\ archive' = archive /\ View' = View
  BY <1>1, <1>5 DEF Store!Pass
<1>6. ASSUME UNCHANGED <<ledger, tx, archive>>
      PROVE  archive' = archive /\ View' = View /\ ~Commits
  BY <1>6, ViewUnwritten DEF Commits
<1>7. ASSUME \/ \E x \in Calls : Call(x)
             \/ TakeLock \/ Admit \/ Preview \/ Crash \/ UNCHANGED vars
             \/ (Thread \/ Fault) /\ ledger' = ledger
      PROVE  UNCHANGED <<ledger, tx, archive>>
  BY <1>7 DEF Call, TakeLock, Admit, Preview, Crash, vars, Thread, ThreadWrite, ThreadRead,
              WriteRecord, WriteHead, Fault
<1>8. ASSUME ~Commits, Recovery \/ Restoring PROVE archive' = archive /\ View' = View
  <2>1. archive' = archive
    BY <1>8 DEF Recovery, Restoring, Recover, UndoFile, UndoDone, ClearFile, Cleared,
                RestoreCheck, SaveBefore, MakeRoot, StageFile, Prepare, BeginApply, ApplyFile,
                Commit
  <2> QED BY <1>8, <2>1, ViewStays DEF Restoring
<1> QED BY <1>2, <1>3, <1>4, <1>5, <1>6, <1>7, <1>8 DEF Next, Holder

\* Whatever crashes and fails, a restore of the archive happens to the owner's
\* ledger as one step or not at all.
THEOREM RestoreIsAtomic == Spec => StoreSpec
<1> QED BY RestoreInit, RestoreStep, StoreInit, StoreStep, PTL DEF Spec, StoreSpec, Store!Spec

(***************************************************************************)
(* The preview.                                                            *)
(***************************************************************************)
\* While a restore is under way neither its archive nor the owner's view moves.
LEMMA InformedStep == RestoreInv /\ Informed /\ [Next]_vars => Informed'
<1> SUFFICES ASSUME RestoreInv, Informed, [Next]_vars,
                    op'.at \in {"save", "mkdir", "stage", "begin", "apply"}
             PROVE  /\ preview'.of = archive'
                    /\ \A f \in Named(archive') : preview'.local[f] = View'[f]
  BY DEF Informed
<1>1. CASE RestoreCheck
  <2>1. preview = Token /\ UNCHANGED <<ledger, tx, archive, preview>>
    BY <1>1 DEF RestoreCheck, MayRestore, Done, Idle
  <2>2. View = ledger
    BY <1>1 DEF RestoreCheck, RestoreInv, Progress, Clean, Calls, View, NoTx
  <2>3. View' = View
    BY <2>1, ViewUnwritten
  <2> QED BY <2>1, <2>2, <2>3 DEF Token, Named
<1>2. CASE \/ SaveBefore \/ MakeRoot
           \/ \E f \in Files : StageFile(f)
           \/ Prepare \/ BeginApply
           \/ \E f \in Files : ApplyFile(f)
  <2>1. op.at \in {"save", "mkdir", "stage", "begin", "apply"} /\ UNCHANGED <<archive, preview>>
    BY <1>2 DEF SaveBefore, MakeRoot, StageFile, Prepare, BeginApply, ApplyFile
  <2>2. ~Commits
    <3>1. \/ tx' = tx
          \/ tx' = [tx EXCEPT !.there = TRUE]
          \/ \E f \in Files : tx' = [tx EXCEPT !.copies[f] = ledger[f]]
          \/ tx' = [tx EXCEPT !.phase = "prepared", !.entries = Named(archive),
                              !.existed = Named(archive) \cap Named(ledger)]
          \/ tx' = [tx EXCEPT !.phase = "applying"]
      BY <1>2 DEF SaveBefore, MakeRoot, StageFile, Prepare, BeginApply, ApplyFile
    <3>2. tx'.phase = tx.phase \/ tx'.phase \in {"prepared", "applying"}
      BY <3>1 DEF RestoreInv, TypeOK, TxTyped
    <3> QED BY <3>2 DEF Commits
  <2>3. View' = View
    BY <1>2, <2>2, ViewStays
  <2> QED BY <2>1, <2>3 DEF Informed
<1>3. CASE \/ \E x \in Calls : Call(x)
           \/ TakeLock \/ Recovery \/ Thread \/ Admit \/ Export \/ Preview \/ Commit
           \/ Fault \/ Crash
  <2>1. op'.at \notin {"save", "mkdir", "stage", "begin", "apply"}
    BY <1>3 DEF Call, TakeLock, Recovery, Recover, UndoFile, UndoDone, ClearFile, Cleared,
                Thread, ThreadWrite, ThreadRead, WriteRecord, WriteHead, Admit, Export, Preview,
                Commit, Fault, Crash, At, Done, Idle, RestoreInv, TypeOK, CallTyped, Calls
  <2> QED BY <2>1
<1>4. CASE UNCHANGED vars
  <2>1. UNCHANGED <<ledger, tx, archive, preview, op>>
    BY <1>4 DEF vars
  <2> QED BY <2>1, ViewUnwritten DEF Informed
<1> QED BY <1>1, <1>2, <1>3, <1>4 DEF Next, Holder, Restoring

\* A restore changes nothing that is not as the preview of that archive
\* showed it.
THEOREM RestoresAreInformed == Spec => ReplaceIsInformed
<1>1. Init => Informed
  BY DEF Init, Informed, Idle
<1>2. ASSUME RestoreInv, Informed, [Next]_vars
      PROVE  [Commits => \A f \in Files :
                 View'[f] # View[f] => preview.of = archive /\ preview.local[f] = View[f]]_vars
  <2> SUFFICES ASSUME Commits, NEW f \in Files, View'[f] # View[f]
               PROVE  preview.of = archive /\ preview.local[f] = View[f]
    OBVIOUS
  <2>1. Commit /\ View' = Overlay(archive, View)
    BY <1>2, CommitIsRestore
  <2>2. f \in Named(archive)
    BY <2>1 DEF Overlay, Named
  <2> QED BY <1>2, <2>1, <2>2 DEF Informed, Commit
<1> QED BY <1>1, <1>2, RestoreInit, RestoreStep, InformedStep, PTL DEF Spec, ReplaceIsInformed

(***************************************************************************)
(* Who is served while a restore is half done.  A restore that was checked *)
(* verifies when all its files are there (Checked), so only a failing      *)
(* operation sends it back, and a second one is needed to let its          *)
(* recovery leave the lock.  A crash leaves it too, but closes the         *)
(* door of the middleware until a recovery has been through (Guarded).     *)
(***************************************************************************)
Checked ==
    op.at \in {"save", "mkdir", "stage", "begin", "apply"} => Verifies(Overlay(archive, View))

Guarded ==
    /\ op.at \in {"thread", "link"} => admitted
    /\ tx.phase = "applying" /\ admitted =>
           op.at = "apply" \/ (op.at \in {"recover", "undo"} /\ faults = 1)

\* A restore with all its files is the overlay that was rehearsed.
LEMMA AppliedIsOverlay ==
    ASSUME RestoreInv, op.at = "apply", todo = {}
    PROVE  ledger = Overlay(archive, View)
<1>1. /\ tx.phase = "applying" /\ tx.entries = Named(archive)
      /\ \A f \in Named(archive) : ledger[f] = archive[f]
  BY DEF RestoreInv, Progress, Applying
<1>2. View = RolledBack(ledger)
  BY <1>1 DEF View
<1>3. \A f \in Files : ledger[f] = Overlay(archive, RolledBack(ledger))[f]
  BY <1>1 DEF Overlay, RolledBack, Named
<1>4. ledger = Overlay(archive, RolledBack(ledger))
  BY <1>3 DEF Overlay, RestoreInv, TypeOK, DiskTyped, Ledgers
<1> QED BY <1>2, <1>4

\* While a restore is under way neither its archive nor the owner's view moves.
LEMMA CheckedStep == RestoreInv /\ Checked /\ [Next]_vars => Checked'
<1> SUFFICES ASSUME RestoreInv, Checked, [Next]_vars,
                    op'.at \in {"save", "mkdir", "stage", "begin", "apply"}
             PROVE  Verifies(Overlay(archive', View'))
  BY DEF Checked
<1>1. CASE RestoreCheck
  <2>1. Verifies(Overlay(archive, ledger)) /\ UNCHANGED <<ledger, tx, archive>>
    BY <1>1 DEF RestoreCheck, MayRestore, Done, Idle
  <2>2. View = ledger
    BY <1>1 DEF RestoreCheck, RestoreInv, Progress, Clean, Calls, View, NoTx
  <2>3. View' = View
    BY <2>1, ViewUnwritten
  <2> QED BY <2>1, <2>2, <2>3
<1>2. CASE \/ SaveBefore \/ MakeRoot
           \/ \E f \in Files : StageFile(f)
           \/ Prepare \/ BeginApply
           \/ \E f \in Files : ApplyFile(f)
  <2>1. op.at \in {"save", "mkdir", "stage", "begin", "apply"} /\ UNCHANGED archive
    BY <1>2 DEF SaveBefore, MakeRoot, StageFile, Prepare, BeginApply, ApplyFile
  <2>2. ~Commits
    BY <1>2, CommitIsRestore DEF Commit, SaveBefore, MakeRoot, StageFile, Prepare, BeginApply,
                                 ApplyFile
  <2>3. View' = View
    BY <1>2, <2>2, ViewStays
  <2> QED BY <2>1, <2>3 DEF Checked
<1>3. CASE \/ \E x \in Calls : Call(x)
           \/ TakeLock \/ Recovery \/ Thread \/ Admit \/ Export \/ Preview \/ Commit
           \/ Fault \/ Crash
  <2>1. op'.at \notin {"save", "mkdir", "stage", "begin", "apply"}
    BY <1>3 DEF Call, TakeLock, Recovery, Recover, UndoFile, UndoDone, ClearFile, Cleared,
                Thread, ThreadWrite, ThreadRead, WriteRecord, WriteHead, Admit, Export, Preview,
                Commit, Fault, Crash, At, Done, Idle, RestoreInv, TypeOK, CallTyped, Calls
  <2> QED BY <2>1
<1>4. CASE UNCHANGED vars
  <2>1. UNCHANGED <<ledger, tx, archive, op>>
    BY <1>4 DEF vars
  <2> QED BY <2>1, ViewUnwritten DEF Checked
<1> QED BY <1>1, <1>2, <1>3, <1>4 DEF Next, Holder, Restoring

\* With one failing operation at most, nobody gets past a restore that is half done.
LEMMA GuardedStep ==
    ASSUME MaxFaults <= 1, RestoreInv, Checked, Guarded, [Next]_vars
    PROVE  Guarded'
<1> USE BoundsAssumption DEF Guarded, At, Done, Idle, Calls
<1>1. op \in [at : Steps, for : Calls \cup {"free"}] /\ faults \in Nat
  BY DEF RestoreInv, TypeOK, CallTyped, Counted
<1>2. ASSUME NEW x \in Calls, Call(x) PROVE Guarded'
  BY <1>1, <1>2 DEF Call
<1>3. CASE TakeLock
  BY <1>1, <1>3 DEF TakeLock
<1>4. CASE Admit \/ Export \/ Preview
  <2>1. tx.phase = "none" /\ tx' = tx /\ op' = Idle
    BY <1>4 DEF Admit, Export, Preview, RestoreInv, Progress, Clean, NoTx
  <2> QED BY <2>1
<1>5. CASE Recover
  <2>1. tx' = tx /\ admitted' = admitted /\ faults' = faults /\ op.at = "recover"
    BY <1>5 DEF Recover, bounds
  <2>2. CASE tx.phase = "applying"
    <3>1. tx.there
      BY <2>2 DEF RestoreInv, TypeOK, TxTyped, NoTx
    <3>2. op'.at = "undo"
      BY <1>1, <1>5, <2>2, <3>1 DEF Recover
    <3> QED BY <2>1, <3>2
  <2>3. CASE tx.phase # "applying"
    <3>1. op'.at \in Calls \cup {"free", "clear"}
      BY <1>1, <1>5, <2>3 DEF Recover
    <3> QED BY <2>1, <2>3, <3>1
  <2> QED BY <2>2, <2>3
<1>6. ASSUME NEW f \in Files, UndoFile(f) PROVE Guarded'
  <2>1. tx.phase = "applying" /\ tx' = tx
    BY <1>6 DEF UndoFile, RestoreInv, Progress, Undoing
  <2>2. ~(f \in tx.existed /\ tx.copies[f] = 0)
    BY <2>1 DEF RestoreInv, CanRollBack, Named
  <2>3. op' = op /\ admitted' = admitted /\ faults' = faults
    BY <1>6, <2>2 DEF UndoFile, bounds
  <2> QED BY <2>1, <2>3
<1>7. CASE UndoDone \/ ClearFile \/ Cleared
  <2>1. tx'.phase # "applying"
    <3>1. tx \in [there : BOOLEAN, phase : Phases, entries : SUBSET Files,
                  existed : SUBSET Files, copies : Ledgers]
      BY DEF RestoreInv, TypeOK, TxTyped
    <3>2. CASE UndoDone
      BY <3>1, <3>2 DEF UndoDone
    <3>3. CASE ClearFile
      BY <3>1, <3>3 DEF ClearFile, RestoreInv, Progress, Clearing
    <3>4. CASE Cleared
      BY <3>4 DEF Cleared, NoTx
    <3> QED BY <1>7, <3>2, <3>3, <3>4
  <2>2. op'.at \in Calls \cup {"free", "clear"}
    BY <1>1, <1>7 DEF UndoDone, ClearFile, Cleared
  <2> QED BY <2>1, <2>2
<1>8. CASE RestoreCheck \/ SaveBefore \/ MakeRoot
  <2>1. tx.phase = "none"
    BY <1>8 DEF RestoreCheck, SaveBefore, MakeRoot, RestoreInv, Progress, Clean, NoTx
  <2>2. tx'.phase = "none" /\ op'.at \notin {"thread", "link"}
    <3>1. tx' = tx \/ tx' = [tx EXCEPT !.there = TRUE]
      BY <1>8 DEF RestoreCheck, SaveBefore, MakeRoot
    <3>2. op'.at \notin {"thread", "link"}
      BY <1>1, <1>8 DEF RestoreCheck, SaveBefore, MakeRoot
    <3> QED BY <2>1, <3>1, <3>2 DEF RestoreInv, TypeOK, TxTyped
  <2> QED BY <2>2
<1>9. CASE (\E f \in Files : StageFile(f)) \/ Prepare
  <2>1. tx.phase = "none" /\ tx.there
    BY <1>9 DEF StageFile, Prepare, RestoreInv, Progress, Staging
  <2>2. tx'.phase \in {"none", "prepared"} /\ op'.at \notin {"thread", "link"}
    BY <1>1, <1>9, <2>1 DEF StageFile, Prepare, RestoreInv, TypeOK, TxTyped
  <2> QED BY <2>2
<1>10. CASE BeginApply \/ (\E f \in Files : ApplyFile(f))
  <2>1. op'.at = "apply"
    BY <1>1, <1>10 DEF BeginApply, ApplyFile
  <2> QED BY <2>1
<1>11. CASE Commit
  <2>1. op.at = "apply" /\ todo = {}
    BY <1>11 DEF Commit
  <2>2. Verifies(ledger)
    BY <2>1, AppliedIsOverlay DEF Checked
  <2>3. tx'.phase = "committed" /\ op'.at = "clear"
    BY <1>11, <2>2 DEF Commit, RestoreInv, TypeOK, TxTyped
  <2> QED BY <2>3
<1>12. CASE Thread
  <2>1. op.at \in {"thread", "link"} /\ tx' = tx /\ admitted' = admitted
    BY <1>12 DEF Thread, ThreadWrite, ThreadRead, WriteRecord, WriteHead
  <2>2. admitted /\ tx.phase # "applying"
    BY <2>1
  <2> QED BY <2>1, <2>2
<1>13. CASE Fault
  <2>1. /\ faults = 0 /\ faults' = 1 /\ tx' = tx /\ admitted' = admitted
        /\ op'.at \in {"free", "recover"}
        /\ op.at = "apply" => op'.at = "recover"
        /\ op.at \in {"undo", "clear", "save", "mkdir", "stage", "begin", "apply", "link"}
    BY <1>1, <1>13 DEF Fault
  <2> QED BY <2>1
<1>14. CASE Crash
  BY <1>14 DEF Crash
<1>15. CASE UNCHANGED vars
  BY <1>15 DEF vars
<1> QED BY <1>2, <1>3, <1>4, <1>5, <1>6, <1>7, <1>8, <1>9, <1>10, <1>11, <1>12, <1>13, <1>14,
           <1>15 DEF Next, Holder, Recovery, Restoring

\* Whoever reads or writes the ledger under the lock has the one the owner has, wherever
\* the process dies and whichever one file operation fails, of the restore or of its
\* recovery (runtime.py, recover_pending before serving ledger state).
THEOREM LedgerIsServedWhole == MaxFaults <= 1 => (Spec => []ServedWhole)
<1> SUFFICES ASSUME MaxFaults <= 1 PROVE Spec => []ServedWhole
  OBVIOUS
<1>1. Init => Checked /\ Guarded
  BY DEF Init, Checked, Guarded, Idle, NoTx
<1>2. RestoreInv /\ Guarded => ServedWhole
  BY DEF RestoreInv, Progress, Clean, Guarded, ServedWhole, View, NoTx
<1>3. RestoreInv /\ Checked /\ Guarded /\ [Next]_vars => Guarded'
  BY GuardedStep
<1> QED BY <1>1, <1>2, <1>3, RestoreInit, RestoreStep, CheckedStep, PTL DEF Spec

(***************************************************************************)
(* The archive made before a restore.  An export leaves out the            *)
(* checkpoints the head does not lead to, so that it holds what a restore  *)
(* replaces rests on the chain: a checkpoint has one content, in the       *)
(* ledger and in every archive of it.                                      *)
(***************************************************************************)
WrittenOnce ==
    \A k \in Checkpoints :
        /\ archive[k] # 0 \/ View[k] # 0 => k <= made
        /\ archive[k] # 0 /\ View[k] # 0 => archive[k] = View[k]

Kept ==
    op.at \in {"mkdir", "stage", "begin", "apply"} =>
        \A f \in Named(View) : archive[f] \in {0, View[f]} \/ saved[f] = View[f]

\* A restored checkpoint, and a step that leaves both sides alone, keep this.
LEMMA WrittenStep == RestoreInv /\ WrittenOnce /\ [Next]_vars => WrittenOnce'
<1> SUFFICES ASSUME RestoreInv, WrittenOnce, [Next]_vars PROVE WrittenOnce'
  OBVIOUS
<1> USE FilesAssumption, BoundsAssumption
<1>1. /\ made \in Nat /\ View \in Ledgers /\ ledger \in Ledgers /\ archive \in Ledgers
  BY ViewIsMap DEF RestoreInv, TypeOK, DiskTyped, Counted
<1>2. Checkpoints \subseteq Files
  BY DEF Files
<1>3. CASE Commits
  <2>1. Commit /\ View' = Overlay(archive, View) /\ archive' = archive
    BY <1>3, CommitIsRestore
  <2>2. made' = made
    BY <2>1 DEF Commit
  <2> QED BY <1>2, <2>1, <2>2 DEF WrittenOnce, Overlay
<1>4. CASE ~Commits /\ (\/ Recovery \/ RestoreCheck \/ SaveBefore \/ MakeRoot
                        \/ \E f \in Files : StageFile(f)
                        \/ Prepare \/ BeginApply
                        \/ \E f \in Files : ApplyFile(f)
                        \/ Commit)
  <2>1. View' = View
    BY <1>4, ViewStays
  <2>2. archive' = archive /\ made' = made
    BY <1>4 DEF Recovery, Recover, UndoFile, UndoDone, ClearFile, Cleared, RestoreCheck,
       SaveBefore, MakeRoot, StageFile, Prepare, BeginApply, ApplyFile, Commit
  <2> QED BY <2>1, <2>2 DEF WrittenOnce
<1>5. CASE \/ \E x \in Calls : Call(x)
           \/ TakeLock \/ Admit \/ Preview \/ Crash \/ ThreadRead \/ UNCHANGED vars
  <2>1. UNCHANGED <<ledger, tx, archive, made>>
    BY <1>5 DEF Call, TakeLock, Admit, Preview, Crash, ThreadRead, vars
  <2> QED BY <2>1, ViewUnwritten DEF WrittenOnce
<1>6. CASE Export
  <2>1. /\ UNCHANGED <<ledger, tx, made>> /\ op.at = "export"
        /\ archive' = Exported(ledger) \/ archive' = archive
    BY <1>6 DEF Export
  <2>2. View = ledger /\ View' = View
    BY <2>1, ViewUnwritten DEF RestoreInv, Progress, Clean, Calls, View, NoTx
  <2>3. \A k \in Checkpoints : Exported(ledger)[k] \in {0, ledger[k]}
    BY <1>2 DEF Exported
  <2> QED BY <2>1, <2>2, <2>3 DEF WrittenOnce
<1>7. ASSUME NEW f \in Drafts, ThreadWrite(f) PROVE WrittenOnce'
  <2>1. PICK c \in {0, writes + 1} : ledger' = [ledger EXCEPT ![f] = c]
    BY <1>7 DEF ThreadWrite
  <2>2. UNCHANGED <<tx, archive, made>> /\ f \in Files /\ c \in Nat
    BY <1>7 DEF ThreadWrite, Files, RestoreInv, TypeOK, Counted
  <2>3. View' = [View EXCEPT ![f] = View'[f]]
    BY <2>1, <2>2, ViewWritten
  <2>4. \A k \in Checkpoints : View'[k] = View[k]
    BY <1>1, <1>2, <2>3 DEF Checkpoints, Ledgers
  <2> QED BY <2>2, <2>4 DEF WrittenOnce
<1>8. CASE WriteHead
  <2>1. ledger' = [ledger EXCEPT ![HeadFile] = made] /\ UNCHANGED <<tx, archive, made>>
    BY <1>8 DEF WriteHead
  <2>2. View' = [View EXCEPT ![HeadFile] = View'[HeadFile]]
    BY <1>1, <2>1, ViewWritten DEF Files
  <2>3. \A k \in Checkpoints : View'[k] = View[k]
    BY <1>1, <1>2, <2>2 DEF Checkpoints, Ledgers
  <2> QED BY <2>1, <2>3 DEF WrittenOnce
<1>9. CASE WriteRecord
  <2>1. /\ ledger' = [ledger EXCEPT ![made + 1] = ledger[HeadFile] + 1]
        /\ made' = made + 1 /\ made < MaxCheckpoints /\ UNCHANGED <<tx, archive>>
    BY <1>9 DEF WriteRecord
  <2>2. made + 1 \in Checkpoints /\ ledger[HeadFile] + 1 \in Nat
    BY <1>1, <2>1 DEF Checkpoints, Files, Ledgers
  <2>3. View' = [View EXCEPT ![made + 1] = View'[made + 1]]
    BY <1>2, <2>1, <2>2, ViewWritten
  <2>4. \A k \in Checkpoints : k # made + 1 => View'[k] = View[k]
    BY <1>1, <1>2, <2>3 DEF Ledgers
  <2>5. archive[made + 1] = 0
    BY <1>1, <2>2 DEF WrittenOnce
  <2>6. \A k \in Checkpoints : k \in Nat /\ (k <= made => k <= made + 1)
    BY <1>1 DEF Checkpoints
  <2> QED BY <1>1, <2>1, <2>4, <2>5, <2>6 DEF WrittenOnce
<1>10. CASE Fault
  <2>1. UNCHANGED <<tx, archive, made>>
        /\ (ledger' = ledger \/ ledger' = [ledger EXCEPT ![made] = 0])
    BY <1>10 DEF Fault
  <2>2. \A k \in Checkpoints : View'[k] \in {0, View[k]}
    <3>1. \A k \in Files : ledger'[k] \in {0, ledger[k]}
      BY <1>1, <2>1 DEF Ledgers
    <3> QED BY <1>2, <2>1, <3>1 DEF View, RolledBack
  <2> QED BY <2>1, <2>2 DEF WrittenOnce
<1> QED BY <1>3, <1>4, <1>5, <1>6, <1>7, <1>8, <1>9, <1>10
        DEF Next, Holder, Restoring, Thread

\* What the archive made before holds, the restore cannot change before it commits.
LEMMA KeptStep == RestoreInv /\ WrittenOnce /\ Kept /\ [Next]_vars => Kept'
<1> SUFFICES ASSUME RestoreInv, WrittenOnce, Kept, [Next]_vars,
                    op'.at \in {"mkdir", "stage", "begin", "apply"}
             PROVE  \A f \in Named(View') :
                        archive'[f] \in {0, View'[f]} \/ saved'[f] = View'[f]
  BY DEF Kept
<1>1. CASE SaveBefore
  <2>1. /\ op.at = "save" /\ UNCHANGED <<ledger, tx, archive>>
        /\ saved' = Exported(ledger) \/ saved' = ledger
    BY <1>1 DEF SaveBefore
  <2>2. View = ledger /\ View' = View
    BY <2>1, ViewUnwritten DEF RestoreInv, Progress, Clean, View, NoTx
  <2>3. \A f \in Files : f \in Checkpoints \/ Exported(ledger)[f] = ledger[f]
    BY DEF Exported
  <2>4. \A f \in Checkpoints : View[f] # 0 => archive[f] \in {0, View[f]}
    BY DEF WrittenOnce
  <2> QED BY <2>1, <2>2, <2>3, <2>4 DEF Named
<1>2. CASE \/ MakeRoot \/ \E f \in Files : StageFile(f)
           \/ Prepare \/ BeginApply
           \/ \E f \in Files : ApplyFile(f)
  <2>1. op.at \in {"mkdir", "stage", "begin", "apply"} /\ UNCHANGED <<archive, saved>>
    BY <1>2 DEF MakeRoot, StageFile, Prepare, BeginApply, ApplyFile
  <2>2. ~Commits
    BY <1>2, CommitIsRestore DEF Commit, MakeRoot, StageFile, Prepare, BeginApply, ApplyFile
  <2>3. View' = View
    BY <1>2, <2>2, ViewStays
  <2> QED BY <2>1, <2>3 DEF Kept
<1>3. CASE \/ \E x \in Calls : Call(x)
           \/ TakeLock \/ Recovery \/ Thread \/ Admit \/ Export \/ Preview \/ Commit
           \/ RestoreCheck \/ Fault \/ Crash
  <2>1. op'.at \notin {"mkdir", "stage", "begin", "apply"}
    BY <1>3 DEF Call, TakeLock, Recovery, Recover, UndoFile, UndoDone, ClearFile, Cleared,
                Thread, ThreadWrite, ThreadRead, WriteRecord, WriteHead, Admit, Export, Preview,
                Commit, RestoreCheck, Fault, Crash, At, Done, Idle, RestoreInv, TypeOK,
                CallTyped, Calls
  <2> QED BY <2>1
<1>4. CASE UNCHANGED vars
  <2>1. UNCHANGED <<ledger, tx, archive, saved, op>>
    BY <1>4 DEF vars
  <2> QED BY <2>1, ViewUnwritten DEF Kept
<1> QED BY <1>1, <1>2, <1>3, <1>4 DEF Next, Holder, Restoring

\* Before the ledger changes, an archive of what the restore replaces in it has been
\* written, whichever files an export leaves out (personal_archive.py, the pre-restore
\* backup).
THEOREM HatchStaysOpen == Spec => EscapeHatch
<1>1. Init => WrittenOnce /\ Kept
  BY DEF Init, WrittenOnce, Kept, Idle, View, NoTx, Nothing, Files
<1>2. ASSUME RestoreInv, Kept, [Next]_vars
      PROVE  [Commits => \A f \in Named(View) :
                 View'[f] # View[f] => saved[f] = View[f]]_vars
  <2> SUFFICES ASSUME Commits, NEW f \in Named(View), View'[f] # View[f]
               PROVE  saved[f] = View[f]
    OBVIOUS
  <2>1. Commit /\ View' = Overlay(archive, View)
    BY <1>2, CommitIsRestore
  <2>2. f \in Files /\ archive[f] \notin {0, View[f]}
    BY <2>1 DEF Overlay, Named
  <2> QED BY <1>2, <2>1, <2>2 DEF Kept, Commit
<1> QED BY <1>1, <1>2, RestoreInit, RestoreStep, WrittenStep, KeptStep, PTL
        DEF Spec, EscapeHatch

-------------------------------------------------------------------------------
(* Follows *)

\* States of a follow that is in the store.
Live == {"active", "unfollowed"}
Indexes == [Matches -> Rows \cup {Gone}]
FollowRows ==
    [state : Live \cup {"none", "removed"}, match : Matches \cup {NoMatch},
     snap : Rows \cup {Gone},
     data : Unhealthy \cup {"current", "completed", "stale"}, resolved : BOOLEAN]

FollowTypes ==
    /\ gens \in Seq(Indexes) /\ pointer \in 1 .. Len(gens) /\ frame \in 1 .. Len(gens)
    /\ epoch \in Nat
    /\ follow \in [Ids -> FollowRows]
    /\ \A f \in Ids : follow[f].state \in Live => follow[f].match \in Matches

\* What the window read is of the index that is read, unless that was repointed.
SeenFits ==
    window.at = "comparing" =>
        /\ window.seen.frame \in 1 .. Len(gens)
        /\ window.seen.epoch \in Nat /\ window.seen.epoch <= epoch
        /\ Current(window.seen) => window.seen.frame = frame

\* Some event of a follow says that this is what it shows.
Explains(f, snap, recorded) ==
    /\ \E e \in recorded : /\ e.follow = f /\ e.type \in {"kickoff_changed", "followed", "refollowed"}
                           /\ e.after.kickoff = snap.kickoff
    /\ Complete(snap) =>
          \E e \in recorded : /\ e.follow = f /\ e.type \in {"score_published", "followed", "refollowed"}
                              /\ e.after.result = snap.result
Explained == \A f \in ActiveFollows : Explains(f, follow[f].snap, DOMAIN events)

\* The events a window has claimed.
Batch == IF window.at \in {"telling", "recording"} THEN window.batch ELSE {}

\* An event that was claimed or sent is pending never again: it stays in the
\* store, or its follow is gone for good.
SentFits ==
    /\ \A e \in DOMAIN events : e.follow \in Ids /\ follow[e.follow].state \in Live
    /\ \A e \in Batch \cup DOMAIN sent :
          /\ e.follow \in Ids
          /\ IF e \in DOMAIN events THEN events[e] # "pending" ELSE follow[e.follow].state = "removed"
    /\ window.at = "telling" => Batch \cap DOMAIN sent = {}
    /\ \A e \in DOMAIN sent : sent[e] = 1

FollowInv == FollowTypes /\ SeenFits /\ Explained /\ SentFits

-------------------------------------------------------------------------------
\* What an insertion adds, and what it leaves.
LEMMA InsertAdds ==
    ASSUME NEW new, Insert(new)
    PROVE  /\ DOMAIN events' = DOMAIN events \cup new
           /\ \A e \in DOMAIN events : events'[e] = events[e]
BY DEF Insert

\* More events explain no less.
LEMMA StillExplained ==
    ASSUME NEW f, NEW snap, NEW some, NEW more, some \subseteq more, Explains(f, snap, some)
    PROVE  Explains(f, snap, more)
BY DEF Explains

\* Events of follows that are there are added; nobody comes back from a removal.
LEMMA SentAfterInsert ==
    ASSUME FollowInv, NEW new, Insert(new), follow' \in [Ids -> FollowRows],
           \A e \in new : /\ e.follow \in Ids /\ follow[e.follow].state # "removed"
                          /\ follow'[e.follow].state \in Live,
           \A f \in Ids : /\ follow[f].state \in Live => follow'[f].state \in Live
                          /\ follow[f].state = "removed" => follow'[f].state = "removed",
           Batch' \subseteq Batch, sent' = sent,
           window'.at = "telling" => window' = window
    PROVE  SentFits'
<1>1. /\ DOMAIN events' = DOMAIN events \cup new
      /\ \A e \in DOMAIN events : events'[e] = events[e]
  BY InsertAdds
<1>2. \A e \in DOMAIN events' : e.follow \in Ids /\ follow'[e.follow].state \in Live
  BY <1>1 DEF FollowInv, SentFits
<1>3. ASSUME NEW e \in Batch' \cup DOMAIN sent'
      PROVE  /\ e.follow \in Ids
             /\ IF e \in DOMAIN events' THEN events'[e] # "pending"
                ELSE follow'[e.follow].state = "removed"
  <2>1. /\ e.follow \in Ids
        /\ IF e \in DOMAIN events THEN events[e] # "pending" ELSE follow[e.follow].state = "removed"
    BY <1>3 DEF FollowInv, SentFits
  <2>2. CASE e \in DOMAIN events
    BY <1>1, <2>1, <2>2
  <2>3. CASE e \notin DOMAIN events
    BY <1>1, <2>1, <2>3
  <2> QED BY <2>2, <2>3
<1>4. /\ window'.at = "telling" => Batch' \cap DOMAIN sent' = {}
      /\ \A e \in DOMAIN sent' : sent'[e] = 1
  BY DEF FollowInv, SentFits
<1> QED BY <1>2, <1>3, <1>4 DEF SentFits

\* The row a follow is compared with is in the index.
LEMMA TargetIsListed ==
    ASSUME FollowTypes, NEW f \in Ids, NEW index \in Indexes, follow[f].match \in Matches,
           Target(f, index) # NoMatch
    PROVE  Target(f, index) \in Matches /\ index[Target(f, index)] # Gone
<1> DEFINE own == follow[f].match
           same == {m \in Matches : index[m] # Gone /\ Key[own] # NoKey /\ Key[m] = Key[own]}
<1>1. CASE index[own] # Gone
  BY <1>1 DEF Target
<1>2. CASE index[own] = Gone
  <2>1. Cardinality(same) = 1 /\ Target(f, index) = CHOOSE m \in same : TRUE
    BY <1>2 DEF Target
  <2>2. same # {}
    BY <2>1, FS_EmptySet
  <2>3. Target(f, index) \in same
    BY <2>1, <2>2
  <2> QED BY <2>3
<1> QED BY <1>1, <1>2

LEMMA IdsCount == Ids \subseteq Nat /\ 1 \in Ids
BY FollowAssumption DEF Ids

\* What the comparison of one follow leaves in its row, and which events tell it.
LEMMA ComparedFits ==
    ASSUME FollowTypes, NEW f \in Ids, follow[f].state = "active", NEW seen,
           seen.frame \in 1 .. Len(gens), NEW recorded,
           Explains(f, follow[f].snap, recorded)
    PROVE  /\ Compared(f, seen) \in FollowRows /\ Compared(f, seen).state = "active"
           /\ Compared(f, seen).match \in Matches
           /\ \/ Compared(f, seen).snap = follow[f].snap
              \/ Compared(f, seen).snap = gens[seen.frame][Compared(f, seen).match]
           /\ Explains(f, Compared(f, seen).snap, recorded \cup Changes(f, seen))
<1> DEFINE index == gens[seen.frame]
           m == Target(f, index)
           old == follow[f]
           row == index[m]
           new == Changes(f, seen)
<1>1. index \in Indexes /\ old \in FollowRows /\ old.match \in Matches
  BY DEF FollowTypes, Live
<1>2. CASE m = NoMatch
  <2> DEFINE y == [old EXCEPT !.resolved = FALSE, !.data = "stale"]
  <2>1. Compared(f, seen) = y
    BY <1>2 DEF Compared
  <2>2. [old EXCEPT !.resolved = FALSE] \in FollowRows
    BY <1>1 DEF FollowRows
  <2>3. y \in FollowRows /\ y.state = "active" /\ y.match = old.match /\ y.snap = old.snap
    BY <1>1, <2>2 DEF FollowRows
  <2> HIDE DEF y
  <2>4. Explains(f, y.snap, recorded \cup new)
    BY <2>3, StillExplained
  <2> QED BY <1>1, <2>1, <2>3, <2>4
<1>3. CASE m # NoMatch
  <2> DEFINE y == [state |-> "active", match |-> m, snap |-> row,
                   data |-> DataState(row, seen.health), resolved |-> TRUE]
  <2>1. Compared(f, seen) = y
    BY <1>3 DEF Compared
  <2>2. m \in Matches
    BY <1>1, <1>3, TargetIsListed
  <2>3. row \in Rows \cup {Gone}
    BY <1>1, <2>2 DEF Indexes
  <2>4. DataState(row, seen.health) \in Unhealthy \cup {"current", "completed", "stale"}
    BY DEF DataState, Unhealthy
  <2>5. /\ y.state = "active" /\ y.match = m /\ y.snap = row
        /\ y \in FollowRows
    BY <2>2, <2>3, <2>4 DEF FollowRows, Live
  <2>6. row.kickoff # old.snap.kickoff =>
           Event(f, "kickoff_changed", seen.ref, [kickoff |-> old.snap.kickoff], [kickoff |-> row.kickoff]) \in new
    BY <1>3 DEF Changes
  <2>7. row.result # old.snap.result /\ Complete(row) =>
           Event(f, "score_published", seen.ref, [result |-> old.snap.result], [result |-> row.result]) \in new
    BY <1>3 DEF Changes
  <2> HIDE DEF y, new, m, row
  <2>8. \E e \in recorded \cup new :
           /\ e.follow = f /\ e.type \in {"kickoff_changed", "followed", "refollowed"}
           /\ e.after.kickoff = row.kickoff
    <3>1. CASE row.kickoff = old.snap.kickoff
      BY <3>1 DEF Explains
    <3>2. CASE row.kickoff # old.snap.kickoff
      <4> DEFINE e == Event(f, "kickoff_changed", seen.ref, [kickoff |-> old.snap.kickoff],
                            [kickoff |-> row.kickoff])
      <4>1. e \in new /\ e.follow = f /\ e.type = "kickoff_changed" /\ e.after.kickoff = row.kickoff
        BY <2>6, <3>2 DEF Event
      <4> QED BY <4>1
    <3> QED BY <3>1, <3>2
  <2>9. Complete(row) =>
           \E e \in recorded \cup new :
              /\ e.follow = f /\ e.type \in {"score_published", "followed", "refollowed"}
              /\ e.after.result = row.result
    <3> HAVE Complete(row)
    <3>1. CASE row.result = old.snap.result
      BY <3>1 DEF Explains, Complete
    <3>2. CASE row.result # old.snap.result
      <4> DEFINE e == Event(f, "score_published", seen.ref, [result |-> old.snap.result],
                            [result |-> row.result])
      <4>1. e \in new /\ e.follow = f /\ e.type = "score_published" /\ e.after.result = row.result
        BY <2>7, <3>2 DEF Event
      <4> QED BY <4>1
    <3> QED BY <3>1, <3>2
  <2>10. Explains(f, row, recorded \cup new)
    BY <2>8, <2>9 DEF Explains
  <2>11. y.snap = index[y.match]
    BY <2>5 DEF row
  <2> QED BY <2>1, <2>2, <2>5, <2>10, <2>11 DEF new
<1> QED BY <1>2, <1>3

\* Every event of a comparison is of the follow that was compared.
LEMMA ChangesAreOwn ==
    ASSUME NEW f, NEW seen, NEW e \in Changes(f, seen)
    PROVE  e.follow = f
BY DEF Changes, Event

\* reconcile: the follows that are active stay so and are explained; what they
\* take over is of the index that was read.
LEMMA ReconcileKeeps ==
    ASSUME FollowInv, NEW seen, seen.frame \in 1 .. Len(gens), Reconcile(seen),
           Batch' \subseteq Batch, sent' = sent, window'.at = "telling" => window' = window
    PROVE  /\ follow' \in [Ids -> FollowRows]
           /\ \A f \in Ids : follow'[f].state \in Live => follow'[f].match \in Matches
           /\ Explained' /\ SentFits'
           /\ \A f \in Ids : follow'[f].snap # follow[f].snap =>
                                 follow'[f].snap = gens[seen.frame][follow'[f].match]
<1> DEFINE new == UNION {Changes(f, seen) : f \in ActiveFollows}
<1>1. /\ follow \in [Ids -> FollowRows] /\ FollowTypes /\ Explained
      /\ follow' = [f \in Ids |-> IF f \in ActiveFollows THEN Compared(f, seen) ELSE follow[f]]
      /\ Insert(new)
  BY DEF FollowInv, FollowTypes, Reconcile
<1>2. \A e : e \in new <=> \E f \in ActiveFollows : e \in Changes(f, seen)
  OBVIOUS
<1> HIDE DEF new
<1>3. ASSUME NEW f \in ActiveFollows
      PROVE  /\ f \in Ids /\ Compared(f, seen) \in FollowRows /\ Compared(f, seen).state = "active"
             /\ Compared(f, seen).match \in Matches
             /\ \/ Compared(f, seen).snap = follow[f].snap
                \/ Compared(f, seen).snap = gens[seen.frame][Compared(f, seen).match]
             /\ Explains(f, Compared(f, seen).snap, DOMAIN events \cup Changes(f, seen))
  <2>1. f \in Ids /\ follow[f].state = "active" /\ Explains(f, follow[f].snap, DOMAIN events)
    BY <1>1 DEF ActiveFollows, Explained
  <2> QED BY <1>1, <2>1, ComparedFits
<1>4. /\ follow' \in [Ids -> FollowRows]
      /\ \A f \in Ids : follow'[f] = IF f \in ActiveFollows THEN Compared(f, seen) ELSE follow[f]
  BY <1>1, <1>3
<1>5. \A f \in Ids : follow'[f].state = follow[f].state
  BY <1>3, <1>4 DEF ActiveFollows
<1>6. \A f \in Ids : follow'[f].state \in Live => follow'[f].match \in Matches
  BY <1>1, <1>3, <1>4 DEF FollowTypes
<1>7. DOMAIN events' = DOMAIN events \cup new
  BY <1>1, InsertAdds
<1>8. Explained'
  <2> SUFFICES ASSUME NEW f \in Ids, follow'[f].state = "active"
               PROVE  Explains(f, follow'[f].snap, DOMAIN events')
    BY DEF Explained, ActiveFollows
  <2>1. f \in ActiveFollows /\ follow'[f] = Compared(f, seen)
    BY <1>4, <1>5 DEF ActiveFollows
  <2>2. DOMAIN events \cup Changes(f, seen) \subseteq DOMAIN events'
    BY <1>2, <1>7, <2>1
  <2> QED BY <1>3, <2>1, <2>2, StillExplained
<1>9. \A e \in new : /\ e.follow \in Ids /\ follow[e.follow].state = "active"
  BY <1>2, ChangesAreOwn DEF ActiveFollows
<1>10. SentFits'
  BY <1>1, <1>4, <1>5, <1>9, SentAfterInsert DEF Live
<1>11. \A f \in Ids : follow'[f].snap # follow[f].snap =>
                          follow'[f].snap = gens[seen.frame][follow'[f].match]
  BY <1>3, <1>4
<1> QED BY <1>4, <1>6, <1>8, <1>10, <1>11

-------------------------------------------------------------------------------
\* A follow takes over the row of the index that is read now.
Took(f) ==
    follow'[f].state = "active" /\ follow'[f].snap # follow[f].snap =>
        follow'[f].snap = gens[frame][follow'[f].match]

\* A step that leaves the store alone: the index, the workers, the window.
LEMMA QuietKeeps ==
    ASSUME FollowInv, UNCHANGED <<follow, events, sent>>,
           gens' \in Seq(Indexes), pointer' \in 1 .. Len(gens'), frame' \in 1 .. Len(gens'),
           epoch' \in Nat, SeenFits', Batch' \subseteq Batch,
           window'.at = "telling" => window' = window
    PROVE  FollowInv' /\ \A f \in Ids : Took(f)
<1>1. FollowTypes' /\ Explained'
  BY DEF FollowInv, FollowTypes, Explained, ActiveFollows
<1>2. SentFits'
  BY DEF FollowInv, SentFits
<1> QED BY <1>1, <1>2 DEF FollowInv, Took

\* A step of the store that records events of follows that are there.
LEMMA RecordingKeeps ==
    ASSUME FollowInv, NEW new, Insert(new), follow' \in [Ids -> FollowRows],
           \A e \in new : /\ e.follow \in Ids /\ follow[e.follow].state # "removed"
                          /\ follow'[e.follow].state \in Live,
           \A f \in Ids : /\ follow[f].state \in Live => follow'[f].state \in Live
                          /\ follow[f].state = "removed" => follow'[f].state = "removed"
                          /\ follow'[f].state \in Live => follow'[f].match \in Matches
                          /\ follow'[f].state = "active" =>
                                Explains(f, follow'[f].snap, DOMAIN events \cup new),
           UNCHANGED <<gens, pointer, frame, epoch, window, sent>>
    PROVE  FollowInv'
<1>1. FollowTypes' /\ SeenFits'
  BY DEF FollowInv, FollowTypes, SeenFits, Current
<1>2. Explained'
  BY InsertAdds DEF Explained, ActiveFollows
<1>3. SentFits'
  <2>1. Batch' = Batch
    BY DEF Batch
  <2> QED BY <2>1, SentAfterInsert
<1> QED BY <1>1, <1>2, <1>3 DEF FollowInv

\* Events about active follows, whose rows show what they showed.
LEMMA ReportingKeeps ==
    ASSUME FollowInv, NEW new, Insert(new), \A e \in new : e.follow \in ActiveFollows,
           follow' \in [Ids -> FollowRows],
           \A f \in Ids : /\ follow'[f].state = follow[f].state /\ follow'[f].match = follow[f].match
                          /\ follow'[f].snap = follow[f].snap,
           UNCHANGED <<gens, pointer, frame, epoch, window, sent>>
    PROVE  FollowInv' /\ \A f \in Ids : Took(f)
<1>1. \A e \in new : /\ e.follow \in Ids /\ follow[e.follow].state # "removed"
                     /\ follow'[e.follow].state \in Live
  BY DEF ActiveFollows, Live
<1>2. ASSUME NEW f \in Ids, follow'[f].state = "active"
      PROVE  Explains(f, follow'[f].snap, DOMAIN events \cup new)
  <2>1. Explains(f, follow[f].snap, DOMAIN events)
    BY <1>2 DEF FollowInv, Explained, ActiveFollows
  <2> QED BY <2>1, StillExplained
<1>3. \A f \in Ids : follow'[f].state \in Live => follow'[f].match \in Matches
  BY DEF FollowInv, FollowTypes
<1>4. FollowInv'
  BY <1>1, <1>2, <1>3, RecordingKeeps
<1> QED BY <1>4 DEF Took

-------------------------------------------------------------------------------
(* The worker and the rollback *)

LEMMA SuccessorsAreIndexes ==
    ASSUME FollowTypes
    PROVE  Successors \subseteq Indexes
<1> DEFINE index == gens[pointer]
           listed == {m \in Matches : index[m] # Gone}
<1>1. index \in Indexes /\ \A m \in listed : index[m] \in Rows
  BY DEF FollowTypes, Indexes
<1>2. ASSUME NEW m \in listed, NEW t \in Kickoffs
      PROVE  [index EXCEPT ![m].kickoff = t] \in Indexes
  <2>1. [index[m] EXCEPT !.kickoff = t] \in Rows
    BY <1>1 DEF Rows
  <2>2. [index EXCEPT ![m].kickoff = t] = [index EXCEPT ![m] = [index[m] EXCEPT !.kickoff = t]]
    BY <1>1 DEF Indexes
  <2> QED BY <1>1, <2>1, <2>2 DEF Indexes
<1>3. ASSUME NEW m \in listed, NEW r \in Results
      PROVE  [index EXCEPT ![m].result = r] \in Indexes
  <2>1. [index[m] EXCEPT !.result = r] \in Rows
    BY <1>1 DEF Rows
  <2>2. [index EXCEPT ![m].result = r] = [index EXCEPT ![m] = [index[m] EXCEPT !.result = r]]
    BY <1>1 DEF Indexes
  <2> QED BY <1>1, <2>1, <2>2 DEF Indexes
<1>4. ASSUME NEW m \in listed PROVE [index EXCEPT ![m] = Gone] \in Indexes
  BY <1>1 DEF Indexes
<1>5. ASSUME NEW m \in listed, NEW n \in Matches \ listed
      PROVE  [index EXCEPT ![m] = Gone, ![n] = index[m]] \in Indexes
  BY <1>1 DEF Indexes
<1> HIDE DEF index, listed
<1> QED BY <1>2, <1>3, <1>4, <1>5 DEF Successors, index, listed

LEMMA ActivationKeeps ==
    ASSUME FollowInv, WorkerActivates
    PROVE  FollowInv' /\ \A f \in Ids : Took(f)
<1>1. /\ UNCHANGED <<follow, events, sent, frame, epoch, window>>
      /\ gens \in Seq(Indexes) /\ pointer \in 1 .. Len(gens) /\ frame \in 1 .. Len(gens) /\ epoch \in Nat
  BY DEF WorkerActivates, store, FollowInv, FollowTypes
<1>2. /\ gens' \in Seq(Indexes) /\ pointer' \in 1 .. Len(gens') /\ Len(gens) <= Len(gens')
      /\ Len(gens') \in Nat
  <2>1. CASE \E index \in Successors : gens' = Append(gens, index) /\ pointer' = Len(gens) + 1
    BY <1>1, <2>1, SuccessorsAreIndexes DEF FollowInv
  <2>2. CASE pointer < Len(gens) /\ pointer' = pointer + 1 /\ UNCHANGED gens
    BY <1>1, <2>2
  <2> QED BY <2>1, <2>2 DEF WorkerActivates
<1>3. SeenFits'
  BY <1>1, <1>2 DEF FollowInv, SeenFits, Current
<1>4. Batch' = Batch
  BY <1>1 DEF Batch
<1> QED BY <1>1, <1>2, <1>3, <1>4, QuietKeeps

\* The index follows the pointer: what a window has read is stale then.
LEMMA RepointKeeps ==
    ASSUME FollowInv, Repoint, UNCHANGED <<follow, events, sent, gens, pointer>>,
           window' = window \/ (window'.at \notin {"comparing", "telling", "recording"})
    PROVE  FollowInv' /\ \A f \in Ids : Took(f)
<1>1. /\ gens \in Seq(Indexes) /\ pointer \in 1 .. Len(gens) /\ frame' = pointer
      /\ epoch \in Nat /\ epoch' = epoch + 1
  BY DEF FollowInv, FollowTypes, Repoint
<1>2. SeenFits'
  BY <1>1 DEF FollowInv, SeenFits, Current
<1>3. Batch' \subseteq Batch
  BY DEF Batch
<1> QED BY <1>1, <1>2, <1>3, QuietKeeps

LEMMA RepointsKeep ==
    ASSUME FollowInv, WorkerRepoints \/ RollbackRepoints
    PROVE  FollowInv' /\ \A f \in Ids : Took(f)
<1>1. UNCHANGED <<follow, events, sent, gens, pointer>> /\ Repoint
  BY DEF WorkerRepoints, RollbackRepoints, store
<1>2. window' = window \/ (window'.at \notin {"comparing", "telling", "recording"})
  BY DEF WorkerRepoints, RollbackRepoints, Told
<1> QED BY <1>1, <1>2, RepointKeeps

\* The store and the index stand still, and so does what the window holds.
LEMMA StillKeeps ==
    ASSUME FollowInv, UNCHANGED <<follow, events, sent, gens, frame, epoch>>,
           pointer' \in 1 .. Len(gens),
           window' = window \/ (window'.at \notin {"comparing", "telling", "recording"})
    PROVE  FollowInv' /\ \A f \in Ids : Took(f)
<1>1. gens \in Seq(Indexes) /\ frame \in 1 .. Len(gens) /\ epoch \in Nat
  BY DEF FollowInv, FollowTypes
<1>2. SeenFits'
  BY DEF FollowInv, SeenFits, Current
<1>3. Batch' \subseteq Batch
  BY DEF Batch
<1> QED BY <1>1, <1>2, <1>3, QuietKeeps

LEMMA ChecksKeep ==
    ASSUME FollowInv, WorkerChecks
    PROVE  FollowInv' /\ \A f \in Ids : Took(f)
<1>1. /\ UNCHANGED <<gens, pointer, frame, epoch, window, sent>>
      /\ follow \in [Ids -> FollowRows] /\ pointer \in 1 .. Len(gens)
  BY DEF WorkerChecks, data, FollowInv, FollowTypes
<1>2. CASE UNCHANGED <<follow, events>>
  BY <1>1, <1>2, StillKeeps
<1>3. CASE /\ Insert({Event(f, "source_revision_available", pointer + 1,
                           [ref |-> pointer], [ref |-> pointer + 1]) : f \in ActiveFollows})
           /\ UNCHANGED follow
  <2> DEFINE new == {Event(f, "source_revision_available", pointer + 1,
                           [ref |-> pointer], [ref |-> pointer + 1]) : f \in ActiveFollows}
  <2>1. Insert(new)
    BY <1>3
  <2>2. \A e \in new : e.follow \in ActiveFollows
    BY DEF Event
  <2> HIDE DEF new
  <2> QED BY <1>1, <1>3, <2>1, <2>2, ReportingKeeps
<1>4. ASSUME NEW m \in Matches, Insert(Conflicts(m)),
             follow' = [f \in Ids |-> IF f \in ActiveFollows /\ follow[f].match = m
                                      THEN [follow[f] EXCEPT !.data = "source_conflict"]
                                      ELSE follow[f]]
      PROVE  FollowInv' /\ \A f \in Ids : Took(f)
  <2>1. \A e \in Conflicts(m) : e.follow \in ActiveFollows
    BY DEF Conflicts, Event
  <2>2. \A f \in Ids : [follow[f] EXCEPT !.data = "source_conflict"] \in FollowRows
    BY <1>1 DEF FollowRows, Unhealthy
  <2>3. follow' \in [Ids -> FollowRows]
    BY <1>1, <1>4, <2>2
  <2>4. \A f \in Ids : /\ follow'[f].state = follow[f].state /\ follow'[f].match = follow[f].match
                       /\ follow'[f].snap = follow[f].snap
    BY <1>1, <1>4 DEF FollowRows
  <2> QED BY <1>1, <1>4, <2>1, <2>3, <2>4, ReportingKeeps
<1> QED BY <1>2, <1>3, <1>4 DEF WorkerChecks

\* reconcile of what was read of the index that is read now.
LEMMA ReconciledFits ==
    ASSUME FollowInv, NEW seen, seen.frame = frame, Reconcile(seen),
           UNCHANGED <<gens, pointer, frame, epoch, sent>>,
           window' = window \/ (window'.at \notin {"comparing", "telling", "recording"})
    PROVE  FollowInv' /\ \A f \in Ids : Took(f)
<1>1. frame \in 1 .. Len(gens) /\ Batch' \subseteq Batch
  BY DEF FollowInv, FollowTypes, Batch
<1>2. /\ follow' \in [Ids -> FollowRows]
      /\ \A f \in Ids : follow'[f].state \in Live => follow'[f].match \in Matches
      /\ Explained' /\ SentFits'
      /\ \A f \in Ids : follow'[f].snap # follow[f].snap =>
                            follow'[f].snap = gens[frame][follow'[f].match]
  BY <1>1, ReconcileKeeps
<1>3. FollowTypes' /\ SeenFits'
  BY <1>2 DEF FollowInv, FollowTypes, SeenFits, Current
<1> QED BY <1>2, <1>3 DEF FollowInv, Took

LEMMA WorkerReconcilesKeeps ==
    ASSUME FollowInv, WorkerReconciles
    PROVE  FollowInv' /\ \A f \in Ids : Took(f)
<1>1. UNCHANGED <<gens, pointer, frame, epoch, sent>> /\ pointer \in 1 .. Len(gens)
  BY DEF WorkerReconciles, data, FollowInv, FollowTypes
<1>2. CASE Clash(WorkerSeen)
  BY <1>1, <1>2, StillKeeps DEF WorkerReconciles, store
<1>3. CASE ~Clash(WorkerSeen)
  <2>1. Reconcile(WorkerSeen) /\ window' = IF worker.activated THEN Told ELSE window
    BY <1>3 DEF WorkerReconciles
  <2>2. window' = window \/ (window'.at \notin {"comparing", "telling", "recording"})
    BY <2>1 DEF Told
  <2>3. WorkerSeen.frame = frame
    BY DEF WorkerSeen, Seen
  <2> QED BY <1>1, <2>1, <2>2, <2>3, ReconciledFits
<1> QED BY <1>2, <1>3

-------------------------------------------------------------------------------
(* The window *)

LEMMA WindowReadsKeeps ==
    ASSUME FollowInv, WindowReads
    PROVE  FollowInv' /\ \A f \in Ids : Took(f)
<1>1. /\ UNCHANGED <<gens, pointer, frame, epoch, follow, events, sent>>
      /\ window' = [at |-> "comparing", seen |-> Seen]
      /\ gens \in Seq(Indexes) /\ pointer \in 1 .. Len(gens) /\ frame \in 1 .. Len(gens) /\ epoch \in Nat
  BY DEF WindowReads, data, store, FollowInv, FollowTypes
<1>2. SeenFits' /\ Batch' \subseteq Batch
  BY <1>1 DEF SeenFits, Seen, Batch
<1> QED BY <1>1, <1>2, QuietKeeps

LEMMA WindowCommitsKeeps ==
    ASSUME FollowInv, WindowCommits
    PROVE  FollowInv' /\ \A f \in Ids : Took(f)
<1>1. /\ UNCHANGED <<gens, pointer, frame, epoch, sent>> /\ window.at = "comparing"
      /\ pointer \in 1 .. Len(gens)
  BY DEF WindowCommits, data, FollowInv, FollowTypes
<1>2. CASE UNCHANGED store /\ window' \in {NoWork, [at |-> "reconciling"]}
  BY <1>1, <1>2, StillKeeps DEF store, NoWork
<1>3. CASE Current(window.seen) /\ Reconcile(window.seen) /\ window' = [at |-> "claiming"]
  <2>1. window.seen.frame = frame
    BY <1>1, <1>3 DEF FollowInv, SeenFits
  <2> QED BY <1>1, <1>3, <2>1, ReconciledFits
<1> QED BY <1>2, <1>3 DEF WindowCommits

\* What a status change of events leaves.
LEMMA MarkedFits ==
    ASSUME NEW batch, NEW note
    PROVE  /\ DOMAIN Marked(batch, note) = DOMAIN events
           /\ \A e \in DOMAIN events : Marked(batch, note)[e] = IF e \in batch THEN note ELSE events[e]
BY DEF Marked

LEMMA ClaimKeeps ==
    ASSUME FollowInv, Claim
    PROVE  FollowInv' /\ \A f \in Ids : Took(f)
<1>1. UNCHANGED <<gens, pointer, frame, epoch, follow, sent>> /\ pointer \in 1 .. Len(gens)
  BY DEF Claim, data, FollowInv, FollowTypes
<1>2. CASE opted /\ Pending # {}
  <2>1. events' = Marked(Pending, "claimed") /\ window' = [at |-> "telling", batch |-> Pending]
    BY <1>2 DEF Claim
  <2>2. /\ DOMAIN events' = DOMAIN events
        /\ \A e \in DOMAIN events : events'[e] = IF e \in Pending THEN "claimed" ELSE events[e]
    BY <2>1, MarkedFits
  <2>3. Batch' = Pending
    BY <2>1 DEF Batch
  <2>4. Pending \cap DOMAIN sent = {}
    BY DEF Pending, FollowInv, SentFits
  <2>5. ASSUME NEW e \in Batch' \cup DOMAIN sent'
        PROVE  /\ e.follow \in Ids
               /\ IF e \in DOMAIN events' THEN events'[e] # "pending"
                  ELSE follow'[e.follow].state = "removed"
    BY <1>1, <2>2, <2>3, <2>5 DEF Pending, FollowInv, SentFits
  <2>6. SentFits'
    BY <1>1, <2>2, <2>3, <2>4, <2>5 DEF FollowInv, SentFits
  <2>7. FollowTypes' /\ SeenFits' /\ Explained'
    BY <1>1, <2>1, <2>2 DEF FollowInv, FollowTypes, SeenFits, Explained, ActiveFollows
  <2> QED BY <1>1, <2>6, <2>7 DEF FollowInv, Took
<1>3. CASE ~(opted /\ Pending # {})
  BY <1>1, <1>3, StillKeeps DEF Claim, NoWork
<1> QED BY <1>2, <1>3

LEMMA TellKeeps ==
    ASSUME FollowInv, Tell
    PROVE  FollowInv' /\ \A f \in Ids : Took(f)
<1>1. /\ UNCHANGED <<gens, pointer, frame, epoch, follow, events>>
      /\ window.at = "telling" /\ (sent' = Submitted(window.batch) \/ sent' = sent)
      /\ window'.at = "recording" /\ window'.batch = window.batch
  BY DEF Tell, data, store
<1>2. /\ Batch = window.batch /\ Batch' = window.batch
      /\ Batch \cap DOMAIN sent = {} /\ \A e \in DOMAIN sent : sent[e] = 1
  BY <1>1 DEF Batch, FollowInv, SentFits
<1>3. SentFits'
  <2>1. CASE sent' = Submitted(window.batch)
    <3>1. DOMAIN sent' = DOMAIN sent \cup Batch
      BY <1>2, <2>1 DEF Submitted
    <3>2. ASSUME NEW e \in DOMAIN sent' PROVE sent'[e] = 1
      <4>1. sent'[e] = (IF e \in DOMAIN sent THEN sent[e] ELSE 0)
                         + (IF e \in window.batch THEN 1 ELSE 0)
        BY <1>2, <2>1, <3>1, <3>2 DEF Submitted
      <4> QED BY <1>2, <3>1, <3>2, <4>1
    <3> QED BY <1>1, <1>2, <3>1, <3>2 DEF FollowInv, SentFits
  <2>2. CASE sent' = sent
    BY <1>1, <1>2, <2>2 DEF FollowInv, SentFits
  <2> QED BY <1>1, <2>1, <2>2
<1>4. FollowTypes' /\ SeenFits' /\ Explained'
  BY <1>1 DEF FollowInv, FollowTypes, SeenFits, Explained, ActiveFollows
<1> QED BY <1>1, <1>3, <1>4 DEF FollowInv, Took

LEMMA RecordKeeps ==
    ASSUME FollowInv, Record
    PROVE  FollowInv' /\ \A f \in Ids : Took(f)
<1>1. /\ UNCHANGED <<gens, pointer, frame, epoch, follow, sent>>
      /\ events' = Marked(window.batch, "done") /\ window' = NoWork
  BY DEF Record, data
<1>2. /\ DOMAIN events' = DOMAIN events
      /\ \A e \in DOMAIN events : events'[e] = IF e \in window.batch THEN "done" ELSE events[e]
  BY <1>1, MarkedFits
<1>3. Batch' = {} /\ window'.at = "idle"
  BY <1>1 DEF Batch, NoWork
<1>4. SentFits'
  BY <1>1, <1>2, <1>3 DEF FollowInv, SentFits
<1>5. FollowTypes' /\ SeenFits' /\ Explained'
  BY <1>1, <1>2, <1>3 DEF FollowInv, FollowTypes, SeenFits, Explained, ActiveFollows
<1> QED BY <1>1, <1>4, <1>5 DEF FollowInv, Took

-------------------------------------------------------------------------------
(* The user, the ledger and restarts *)

LEMMA FollowMatchKeeps ==
    ASSUME FollowInv, NEW m \in Matches, FollowMatch(m)
    PROVE  FollowInv' /\ \A f \in Ids : Took(f)
<1> DEFINE row == gens[frame][m]
           y == [state |-> "active", match |-> m, snap |-> row,
                 data |-> IF Complete(row) THEN "completed" ELSE "current", resolved |-> TRUE]
           type == IF FollowsOf(m) = {} THEN "followed" ELSE "refollowed"
<1>1. /\ UNCHANGED <<gens, pointer, frame, epoch, window, sent>>
      /\ follow \in [Ids -> FollowRows] /\ gens \in Seq(Indexes) /\ frame \in 1 .. Len(gens)
  BY DEF FollowMatch, data, FollowInv, FollowTypes
<1>2. PICK f \in Unused \cup FollowsOf(m) :
          /\ follow' = [follow EXCEPT ![f] = y]
          /\ Insert({Event(f, type, pointer, Gone, row)})
  BY DEF FollowMatch
<1>3. f \in Ids /\ follow[f].state \in Live \cup {"none"}
  BY DEF Unused, FollowsOf, Live
<1>4. row \in Rows \cup {Gone}
  BY <1>1 DEF Indexes
<1>5. y \in FollowRows /\ y.state = "active" /\ y.match = m /\ y.snap = row
  BY <1>4 DEF FollowRows, Live
<1> DEFINE e == Event(f, type, pointer, Gone, row)
<1>6. e.follow = f /\ e.type \in {"followed", "refollowed"} /\ e.after = row
  BY DEF Event
<1> HIDE DEF y, e, row
<1>7. /\ follow' \in [Ids -> FollowRows] /\ follow'[f] = y
      /\ \A g \in Ids : g # f => follow'[g] = follow[g]
  BY <1>1, <1>2, <1>3, <1>5
<1>8. Insert({e})
  BY <1>2 DEF e, row
<1>9. Explains(f, row, DOMAIN events \cup {e})
  BY <1>6 DEF Explains
<1>10. ASSUME NEW g \in Ids
       PROVE  /\ follow[g].state \in Live => follow'[g].state \in Live
              /\ follow[g].state = "removed" => follow'[g].state = "removed"
              /\ follow'[g].state \in Live => follow'[g].match \in Matches
              /\ follow'[g].state = "active" =>
                    Explains(g, follow'[g].snap, DOMAIN events \cup {e})
  <2>1. CASE g = f
    BY <1>3, <1>5, <1>7, <1>9, <2>1 DEF Live
  <2>2. CASE g # f
    <3>1. follow[g].state = "active" => Explains(g, follow[g].snap, DOMAIN events)
      BY DEF FollowInv, Explained, ActiveFollows
    <3> QED BY <1>7, <2>2, <3>1, StillExplained DEF FollowInv, FollowTypes
  <2> QED BY <2>1, <2>2
<1>11. \A x \in {e} : /\ x.follow \in Ids /\ follow[x.follow].state # "removed"
                      /\ follow'[x.follow].state \in Live
  BY <1>3, <1>5, <1>6, <1>7 DEF Live
<1>12. FollowInv'
  BY <1>1, <1>7, <1>8, <1>10, <1>11, RecordingKeeps
<1>13. \A g \in Ids : Took(g)
  BY <1>5, <1>7 DEF Took, row
<1> QED BY <1>12, <1>13

LEMMA UnfollowKeeps ==
    ASSUME FollowInv, NEW f \in Ids, Unfollow(f)
    PROVE  FollowInv' /\ \A g \in Ids : Took(g)
<1> DEFINE e == Event(f, "unfollowed", 0, follow[f].snap, Gone)
           y == [follow[f] EXCEPT !.state = "unfollowed"]
<1>1. /\ UNCHANGED <<gens, pointer, frame, epoch, window, sent>>
      /\ follow \in [Ids -> FollowRows] /\ follow[f].state = "active"
      /\ follow' = [follow EXCEPT ![f] = y] /\ Insert({e})
  BY DEF Unfollow, data, FollowInv, FollowTypes
<1>2. y \in FollowRows /\ y.state = "unfollowed" /\ y.match = follow[f].match /\ y.snap = follow[f].snap
  BY <1>1 DEF FollowRows, Live
<1>3. e.follow = f
  BY DEF Event
<1> HIDE DEF y, e
<1>4. /\ follow' \in [Ids -> FollowRows] /\ follow'[f] = y
      /\ \A g \in Ids : g # f => follow'[g] = follow[g]
  BY <1>1, <1>2
<1>5. ASSUME NEW g \in Ids
      PROVE  /\ follow[g].state \in Live => follow'[g].state \in Live
             /\ follow[g].state = "removed" => follow'[g].state = "removed"
             /\ follow'[g].state \in Live => follow'[g].match \in Matches
             /\ follow'[g].state = "active" =>
                   Explains(g, follow'[g].snap, DOMAIN events \cup {e})
  <2>1. CASE g = f
    BY <1>1, <1>2, <1>4, <2>1 DEF Live, FollowInv, FollowTypes
  <2>2. CASE g # f
    <3>1. follow[g].state = "active" => Explains(g, follow[g].snap, DOMAIN events)
      BY DEF FollowInv, Explained, ActiveFollows
    <3> QED BY <1>4, <2>2, <3>1, StillExplained DEF FollowInv, FollowTypes
  <2> QED BY <2>1, <2>2
<1>6. \A x \in {e} : /\ x.follow \in Ids /\ follow[x.follow].state # "removed"
                     /\ follow'[x.follow].state \in Live
  BY <1>1, <1>2, <1>3, <1>4 DEF Live
<1>7. FollowInv'
  BY <1>1, <1>4, <1>5, <1>6, RecordingKeeps
<1>8. \A g \in Ids : Took(g)
  BY <1>2, <1>4 DEF Took
<1> QED BY <1>7, <1>8

LEMMA RemoveHistoryKeeps ==
    ASSUME FollowInv, RemoveHistory
    PROVE  FollowInv' /\ \A f \in Ids : Took(f)
<1>1. /\ UNCHANGED <<gens, pointer, frame, epoch, window, sent>>
      /\ follow' = [f \in Ids |-> IF follow[f].state = "none" THEN NoFollow
                                  ELSE [NoFollow EXCEPT !.state = "removed"]]
      /\ events' = [e \in {} |-> "pending"]
  BY DEF RemoveHistory, data
<1>2. DOMAIN events' = {}
  BY <1>1
<1>3. /\ NoFollow \in FollowRows /\ NoFollow.state = "none"
      /\ [NoFollow EXCEPT !.state = "removed"] \in FollowRows
      /\ [NoFollow EXCEPT !.state = "removed"].state = "removed"
  BY DEF NoFollow, FollowRows, Gone
<1>4. /\ follow' \in [Ids -> FollowRows]
      /\ \A f \in Ids : follow'[f].state = IF follow[f].state = "none" THEN "none" ELSE "removed"
  BY <1>1, <1>3
<1>5. SentFits'
  <2>1. Batch' = Batch
    BY <1>1 DEF Batch
  <2> QED BY <1>1, <1>2, <1>4, <2>1 DEF FollowInv, SentFits, Live
<1>6. FollowTypes' /\ SeenFits' /\ Explained'
  BY <1>1, <1>4 DEF FollowInv, FollowTypes, SeenFits, Current, Explained, ActiveFollows, Live
<1>7. \A f \in Ids : Took(f)
  BY <1>4 DEF Took
<1> QED BY <1>5, <1>6, <1>7 DEF FollowInv

LEMMA ReportKeeps ==
    ASSUME FollowInv, Report
    PROVE  FollowInv' /\ \A f \in Ids : Took(f)
<1> DEFINE told == {g \in ActiveFollows : Teams[follow[g].match] = Teams[report]}
           new == {Event(f, "settlement_recorded", 0, Gone, [match |-> report]) : f \in told}
<1>1. /\ Insert(new) /\ UNCHANGED <<gens, pointer, frame, epoch, window, sent, follow>>
      /\ follow \in [Ids -> FollowRows]
  BY DEF Report, data, FollowInv, FollowTypes
<1>2. \A e \in new : e.follow \in ActiveFollows
  BY DEF Event
<1> HIDE DEF new
<1> QED BY <1>1, <1>2, ReportingKeeps

LEMMA RestartKeeps ==
    ASSUME FollowInv, Restart
    PROVE  FollowInv' /\ \A f \in Ids : Took(f)
<1>1. /\ UNCHANGED <<gens, pointer, epoch, follow, events, sent>> /\ frame' = pointer
      /\ window' = [at |-> "reconciling"]
      /\ gens \in Seq(Indexes) /\ pointer \in 1 .. Len(gens) /\ epoch \in Nat
  BY DEF Restart, store, FollowInv, FollowTypes
<1>2. SeenFits' /\ Batch' \subseteq Batch
  BY <1>1 DEF SeenFits, Batch
<1> QED BY <1>1, <1>2, QuietKeeps

-------------------------------------------------------------------------------
LEMMA FollowStart == FollowInit => FollowInv
<1> SUFFICES ASSUME FollowInit PROVE FollowInv
  OBVIOUS
<1> DEFINE index == [m \in Matches |->
                       IF m = First THEN [kickoff |-> FirstKickoff, result |-> "none"] ELSE Gone]
           row == [kickoff |-> FirstKickoff, result |-> "none"]
           y == [NoFollow EXCEPT !.state = "active", !.match = First, !.snap = gens[1][First]]
           e == Event(1, "followed", 1, Gone, gens[1][First])
<1>1. /\ gens = <<index>> /\ pointer = 1 /\ frame = 1 /\ epoch = 0 /\ DOMAIN sent = {}
      /\ window = [at |-> "reconciling"]
      /\ follow = [f \in Ids |-> IF f = 1 THEN y ELSE NoFollow]
      /\ events = [x \in {e} |-> "not_eligible"]
  BY DEF FollowInit
<1>2. index \in Indexes /\ index[First] = row /\ row \in Rows
  BY FollowAssumption DEF Indexes, Rows
<1> HIDE DEF index
<1>3. gens \in Seq(Indexes) /\ Len(gens) = 1 /\ gens[1][First] = row
  <2>1. gens = <<index>> /\ index \in Indexes /\ index[First] = row
    BY <1>1, <1>2
  <2>2. gens[1] = index
    BY <2>1
  <2> QED BY <2>1, <2>2
<1>4. /\ y \in FollowRows /\ y.state = "active" /\ y.match = First /\ y.snap = row
      /\ NoFollow \in FollowRows /\ NoFollow.state = "none"
  <2>1. NoFollow \in FollowRows /\ NoFollow.state = "none"
    BY DEF NoFollow, FollowRows, Gone
  <2>2. [NoFollow EXCEPT !.state = "active", !.match = First] \in FollowRows
    BY <2>1, FollowAssumption DEF FollowRows, Live
  <2> QED BY <1>2, <1>3, <2>1, <2>2, FollowAssumption DEF FollowRows, Live
<1>5. e.follow = 1 /\ e.type = "followed" /\ e.after = row
  BY <1>3 DEF Event
<1> HIDE DEF y, e, row
<1>6. FollowTypes
  BY <1>1, <1>3, <1>4, FollowAssumption DEF FollowTypes, Live
<1>7. Explained
  <2>1. Explains(1, row, DOMAIN events)
    BY <1>1, <1>5 DEF Explains
  <2> QED BY <1>1, <1>4, <2>1 DEF Explained, ActiveFollows
<1>8. SentFits /\ SeenFits
  BY <1>1, <1>4, <1>5, IdsCount DEF SentFits, SeenFits, Batch, Live
<1> QED BY <1>6, <1>7, <1>8 DEF FollowInv

LEMMA FollowStep ==
    ASSUME FollowInv, [FollowNext]_followVars
    PROVE  FollowInv' /\ \A f \in Ids : Took(f)
<1>1. CASE WorkerActivates
  BY <1>1, ActivationKeeps
<1>2. CASE WorkerChecks
  BY <1>2, ChecksKeep
<1>3. CASE WorkerRepoints \/ RollbackRepoints
  BY <1>3, RepointsKeep
<1>4. CASE WorkerReconciles
  BY <1>4, WorkerReconcilesKeeps
<1>5. CASE RollbackPoints
  <2>1. pointer' \in 1 .. Len(gens)
    BY <1>5 DEF RollbackPoints, FollowInv, FollowTypes
  <2> QED BY <1>5, <2>1, StillKeeps DEF RollbackPoints, store
<1>6. CASE Window
  BY <1>6, WindowReadsKeeps, WindowCommitsKeeps, ClaimKeeps, TellKeeps, RecordKeeps DEF Window
<1>7. ASSUME NEW m \in Matches, FollowMatch(m) PROVE FollowInv' /\ \A f \in Ids : Took(f)
  BY <1>7, FollowMatchKeeps
<1>8. ASSUME NEW f \in Ids, Unfollow(f) PROVE FollowInv' /\ \A g \in Ids : Took(g)
  BY <1>8, UnfollowKeeps
<1>9. CASE \/ \E m \in Matches : Seal(m)
           \/ Settle
           \/ \E on \in BOOLEAN : SetOptIn(on)
           \/ UNCHANGED followVars
  <2>1. UNCHANGED <<gens, pointer, frame, epoch, follow, events, window, sent>>
    BY <1>9 DEF Seal, Settle, SetOptIn, followVars, data, store
  <2> QED BY <2>1, StillKeeps DEF FollowInv, FollowTypes
<1>10. CASE RemoveHistory
  BY <1>10, RemoveHistoryKeeps
<1>11. CASE Report
  BY <1>11, ReportKeeps
<1>12. CASE Restart
  BY <1>12, RestartKeeps
<1> QED BY <1>1, <1>2, <1>3, <1>4, <1>5, <1>6, <1>7, <1>8, <1>9, <1>10, <1>11, <1>12
        DEF FollowNext, Worker, User

\* HistoryExplains is what Explained says of each follow.
LEMMA ExplainedByHistory == Explained => HistoryExplains
<1> SUFFICES ASSUME Explained, NEW f \in ActiveFollows
             PROVE  LET mine == {e \in DOMAIN events : e.follow = f}
                        told(type) == {e.after : e \in {x \in mine : x.type = type}}
                        base == {e.after : e \in {x \in mine : x.type \in {"followed", "refollowed"}}}
                    IN /\ follow[f].snap.kickoff \in {a.kickoff : a \in told("kickoff_changed") \cup base}
                       /\ Complete(follow[f].snap) =>
                            follow[f].snap.result \in {a.result : a \in told("score_published") \cup base}
  BY DEF HistoryExplains
<1> QED BY DEF Explained, Explains

\* A follow takes over only the row of the index that is read when it is
\* committed, however the index moved since the comparison began, and its events
\* tell all it took over (reconcile, follow_match, apply_if_snapshot_current).
THEOREM FollowsStayTrue == FollowSpec => FollowsAreTrue
<1>1. FollowInit => FollowInv
  BY FollowStart
<1>2. FollowInv /\ [FollowNext]_followVars => FollowInv'
  BY FollowStep
<1>3. ASSUME FollowInv, FollowInv', [FollowNext]_followVars
      PROVE  [/\ HistoryExplains'
              /\ \A f \in Ids :
                    /\ follow'[f].state = "active"
                    /\ follow'[f].snap # follow[f].snap
                    => follow'[f].snap = gens[frame][follow'[f].match]]_followVars
  <2>1. HistoryExplains'
    <3>1. Explained'
      BY <1>3 DEF FollowInv
    <3>2. Explained' => HistoryExplains'
      BY ExplainedByHistory, PTL
    <3> QED BY <3>1, <3>2
  <2>2. \A f \in Ids : Took(f)
    BY <1>3, FollowStep
  <2> QED BY <2>1, <2>2 DEF Took
<1> QED BY <1>1, <1>2, <1>3, PTL DEF FollowSpec, FollowsAreTrue

\* No event is submitted to the operating system a second time, alone or in the
\* same batch, however often the index goes back and forth, the application dies
\* between the claim and its record or the history is removed (_insert_event,
\* claim_notifications, update_notification).
THEOREM EventsAreSentOnce == FollowSpec => []SentOnce
<1>1. FollowInit => FollowInv
  BY FollowStart
<1>2. FollowInv /\ [FollowNext]_followVars => FollowInv'
  BY FollowStep
<1>3. FollowInv => SentOnce
  BY DEF FollowInv, SentFits, SentOnce
<1> QED BY <1>1, <1>2, <1>3, PTL DEF FollowSpec
=============================================================================
