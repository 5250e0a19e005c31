--------------------------- MODULE RefreshJobsProofs ---------------------------
(***************************************************************************)
(* What holds of the refresh for every number of generations, clients,     *)
(* jobs and crashes: the type, the rollback boundary and what a job        *)
(* reports in every case, the rest where requests do not overlap and       *)
(* neither a write nor the follow database fails (Serial).                 *)
(***************************************************************************)
EXTENDS RefreshJobs, TLAPS

(***************************************************************************)
(* Type correctness.  TypeOK is not inductive: an update of a job or of a  *)
(* marker keeps its type only if there is one, so the labels say when.     *)
(***************************************************************************)
BuildLabels == {"changed", "downloading", "validating", "building", "activating"}

MoversMarked    ==
    /\ \A t \in Threads : pc[t] \in MoverLabels => mark[t] \in Marks
    /\ pc[Worker] \in MoverLabels => mark[Worker].job = job.id
CandidateNamed  == pc[Worker] \in BuildLabels => cand[Worker] \in Gens
JobPresent      ==
    /\ pc[Worker] # "off" => job \in JobRecords
    /\ \A c \in Clients : pc[c] = "startSave" => job \in JobRecords

TypeInv == TypeOK /\ MoversMarked /\ CandidateNamed /\ JobPresent

\* Marking a job failed keeps it a job record.
LEMMA FailedType == ASSUME NEW j \in JobRecords PROVE Failed(j) \in JobRecords
<1>1. [j EXCEPT !.state = "failed"] \in JobRecords
  BY DEF JobRecords
<1>2. ASSUME NEW k \in JobRecords PROVE [k EXCEPT !.stage = "done"] \in JobRecords
  BY DEF JobRecords, Stages
<1> QED BY <1>1, <1>2 DEF Failed

\* active_generation resolves to a generation or to the bundle.
LEMMA ServedType == ASSUME TypeOK PROVE Served \in Gens \cup {NoGen}
BY DEF TypeOK, Served, Pointers

\* Initially everything is empty.
LEMMA TypeInit == Init => TypeInv
<1> SUFFICES ASSUME Init PROVE TypeInv
  OBVIOUS
<1> USE NoGenAssumption, ThreadsAssumption, ChoicesAssumption, BoundsAssumption
<1>1. TypeOK
  <2>1. pointer \in Pointers /\ installed \in SUBSET Gens /\ intact \in SUBSET installed
    BY DEF Init, Pointers
  <2>2. saved \in StateFiles /\ receipts \in SUBSET Receipts /\ job \in Jobs
    BY DEF Init, StateFiles, Jobs, Markers
  <2>3. cancel \in BOOLEAN /\ index \in Gens \cup {NoGen}
    BY DEF Init
  <2>4. stateLock \in Threads \cup {Nobody} /\ jobLock \in Threads \cup {Nobody}
    BY DEF Init
  <2>5. /\ pc \in [Threads -> WorkerLabels \cup ClientLabels]
        /\ pc[Worker] \in WorkerLabels
        /\ \A c \in Clients : pc[c] \in ClientLabels
    BY DEF Init, Threads, WorkerLabels, ClientLabels
  <2>6. /\ snap \in [Threads -> StateFiles]
        /\ mark \in [Threads -> Markers]
        /\ cand \in [Threads -> Gens \cup {NoGen}]
    BY DEF Init, StateFiles, Jobs, Markers
  <2>7. clock \in Nat /\ jobsMade \in 0..MaxJobs /\ crashes \in 0..MaxCrashes
        /\ faults \in 0..MaxFaults /\ changedBy \in SUBSET (1..MaxJobs)
    BY DEF Init
  <2>8. uncaught \in BOOLEAN
    BY DEF Init
  <2> QED BY <2>1, <2>2, <2>3, <2>4, <2>5, <2>6, <2>7, <2>8 DEF TypeOK
<1>2. MoversMarked /\ CandidateNamed /\ JobPresent
  BY DEF Init, MoversMarked, CandidateNamed, JobPresent, MoverLabels, BuildLabels, Threads
<1> QED BY <1>1, <1>2 DEF TypeInv

\* Every handler and every step of the worker keeps the types.
LEMMA TypeStep == TypeInv /\ [Next]_vars => TypeInv'
<1> SUFFICES ASSUME TypeInv, [Next]_vars PROVE TypeInv'
  OBVIOUS
<1> USE NoGenAssumption, ThreadsAssumption, ChoicesAssumption, BoundsAssumption, ServedType
<1> USE DEF TypeInv, TypeOK, MoversMarked, CandidateNamed, JobPresent, Goto, At, Threads,
            diskVars, bookVars, memVars, MoverLabels, BuildLabels, WorkerLabels, ClientLabels,
            Stages, Jobs, JobRecords, Markers, Marks, Receipts, StateFiles, Pointers
<1>1. CASE WorkerLock
  BY <1>1 DEF WorkerLock
<1>2. CASE WorkerChecking
  BY <1>2 DEF WorkerChecking, EnterStage, UpdateJob
<1>3. CASE WorkerReport
  BY <1>3 DEF WorkerReport, Finish, UpdateJob
<1>4. ASSUME NEW g \in Gens, WorkerDecide(g) PROVE TypeInv'
  BY <1>4 DEF WorkerDecide
<1>5. CASE WorkerDownloading
  BY <1>5 DEF WorkerDownloading, EnterStage, UpdateJob
<1>6. CASE WorkerValidating
  BY <1>6 DEF WorkerValidating, EnterStage, UpdateJob
<1>7. CASE WorkerBuilding
  BY <1>7 DEF WorkerBuilding, EnterStage, UpdateJob
<1>8. CASE WorkerActivating
  BY <1>8 DEF WorkerActivating, EnterStage, UpdateJob
<1>9. CASE WorkerInstall
  BY <1>9 DEF WorkerInstall
<1>10. CASE WorkerRepoint
  BY <1>10 DEF WorkerRepoint
<1>11. CASE WorkerActivated
  BY <1>11 DEF WorkerActivated, Finish, UpdateJob
<1>12. CASE WorkerRaises \/ WorkerConflicts \/ WorkerQuarantines \/ WorkerDies
  <2>1. CASE WorkerRaises
    BY <2>1 DEF WorkerRaises
  <2>2. CASE WorkerConflicts
    BY <2>2 DEF WorkerConflicts
  <2>3. CASE WorkerQuarantines
    BY <2>3 DEF WorkerQuarantines
  <2>4. CASE WorkerDies
    BY <2>4 DEF WorkerDies
  <2> QED BY <1>12, <2>1, <2>2, <2>3, <2>4
<1>13. CASE WorkerFailed
  BY <1>13 DEF WorkerFailed, UpdateJob, Failed
<1>14. CASE WorkerCancelled
  BY <1>14 DEF WorkerCancelled, UpdateJob
<1>15. CASE WorkerExit
  BY <1>15 DEF WorkerExit
<1>16. ASSUME NEW t \in Threads, MarkPending(t) PROVE TypeInv'
  BY <1>16 DEF MarkPending
<1>17. ASSUME NEW t \in Threads, Swap(t) PROVE TypeInv'
  <2> USE <1>17 DEF Swap
  <2>1. mark[t].target \in Gens /\ mark[t].stamp \in Nat
    OBVIOUS
  <2>2. pointer' \in Pointers
    BY <2>1 DEF Repointed
  <2>3. changedBy' \in SUBSET (1..MaxJobs)
    <3>1. CASE t = Worker
      <4>1. job \in JobRecords /\ mark[t].job = job.id
        BY <3>1
      <4>2. mark[t].job \in 1..MaxJobs
        BY <4>1
      <4>4. changedBy \in SUBSET (1..MaxJobs)
        OBVIOUS
      <4>3. changedBy' = changedBy \cup {mark[t].job}
        BY <3>1
      <4> HIDE DEF TypeInv, Swap, TypeOK
      <4> QED BY <4>2, <4>3, <4>4
    <3>2. CASE t # Worker
      BY <3>2
    <3> QED BY <3>1, <3>2
  <2>4. pc' \in [Threads -> WorkerLabels \cup ClientLabels] /\ pc'[Worker] \in WorkerLabels
        /\ \A d \in Clients : pc'[d] \in ClientLabels
    OBVIOUS
  <2>5. TypeOK'
    <3> HIDE DEF Pointers, StateFiles, Receipts, Jobs, Markers, WorkerLabels, ClientLabels
    <3> QED BY <2>2, <2>3, <2>4
  <2>6. MoversMarked' /\ CandidateNamed' /\ JobPresent'
    OBVIOUS
  <2> QED BY <2>5, <2>6
<1>18. ASSUME NEW t \in Threads, SwapRefused(t) PROVE TypeInv'
  BY <1>18 DEF SwapRefused, Raise, Finished, Matches
<1>19. ASSUME NEW t \in Threads, NEW lands \in BOOLEAN, NEW fails \in BOOLEAN, AppendReceipt(t, lands, fails) PROVE TypeInv'
  BY <1>19 DEF AppendReceipt
<1>20. ASSUME NEW t \in Threads, SettleMarker(t) PROVE TypeInv'
  <2> USE <1>20 DEF SettleMarker
  <2>1. saved' \in StateFiles
    <3>1. CASE ~Matches(saved.marker, mark[t])
      BY <3>1 DEF Finished
    <3>2. CASE Matches(saved.marker, mark[t])
      <4>1. saved.marker \in Marks
        BY <3>2, NoGenAssumption DEF Matches, NoMarker
      <4>2. [saved EXCEPT !.marker.error = TRUE] \in StateFiles
        BY <4>1
      <4> QED BY <3>2, <4>2 DEF Finished
    <3> QED BY <3>1, <3>2
  <2>2. TypeOK'
    BY <2>1
  <2>3. MoversMarked' /\ CandidateNamed' /\ JobPresent'
    OBVIOUS
  <2> QED BY <2>2, <2>3
<1>21. ASSUME NEW t \in Threads, MarkerWriteFails(t) PROVE TypeInv'
  BY <1>21 DEF MarkerWriteFails, WriteFails, Raise
<1>22. ASSUME NEW c \in Clients, NEW mode \in Modes, Start(c, mode) PROVE TypeInv'
  <2> USE <1>22 DEF Start, MayBegin, Queued
  <2>1. jobsMade' \in 1..MaxJobs
    BY DEF Start
  <2>2. job' \in JobRecords
    BY <2>1
  <2>3. pc' \in [Threads -> WorkerLabels \cup ClientLabels] /\ pc'[Worker] = "off"
        /\ \A d \in Clients : pc'[d] \in ClientLabels
    OBVIOUS
  <2>4. snap' \in [Threads -> StateFiles]
    OBVIOUS
  <2>5. TypeOK'
    <3> HIDE DEF Pointers, StateFiles, Receipts, JobRecords, Markers, WorkerLabels, ClientLabels
    <3>1. pointer' \in Pointers /\ installed' \in SUBSET Gens /\ intact' \in SUBSET installed'
      OBVIOUS
    <3>2. saved' \in StateFiles /\ receipts' \in SUBSET Receipts /\ job' \in Jobs
      BY <2>2
    <3>3. cancel' \in BOOLEAN /\ index' \in Gens \cup {NoGen}
      OBVIOUS
    <3>4. stateLock' \in Threads \cup {Nobody} /\ jobLock' \in Threads \cup {Nobody}
      OBVIOUS
    <3>5. mark' \in [Threads -> Markers] /\ cand' \in [Threads -> Gens \cup {NoGen}]
      OBVIOUS
    <3>6. clock' \in Nat /\ jobsMade' \in 0..MaxJobs /\ crashes' \in 0..MaxCrashes
          /\ faults' \in 0..MaxFaults /\ changedBy' \in SUBSET (1..MaxJobs)
          /\ uncaught' \in BOOLEAN
      BY <2>1
    <3> QED BY <2>3, <2>4, <3>1, <3>2, <3>3, <3>4, <3>5, <3>6 DEF TypeOK, WorkerLabels
  <2>6. MoversMarked' /\ CandidateNamed' /\ JobPresent'
    BY <2>2, <2>3
  <2> QED BY <2>5, <2>6
<1>23. ASSUME NEW c \in Clients, Cancel(c) PROVE TypeInv'
  BY <1>23 DEF Cancel, MayBegin
<1>24. ASSUME NEW c \in Clients, RollbackEnter(c) PROVE TypeInv'
  BY <1>24 DEF RollbackEnter, MayBegin
<1>25. ASSUME NEW c \in Clients, StartSave(c) PROVE TypeInv'
  <2> USE <1>25 DEF StartSave
  <2>1. saved' \in StateFiles
    OBVIOUS
  <2>2. pc' \in [Threads -> WorkerLabels \cup ClientLabels] /\ pc'[Worker] = "spawned"
        /\ \A d \in Clients : pc'[d] \in ClientLabels
    OBVIOUS
  <2>3. TypeOK'
    <3> HIDE DEF Pointers, StateFiles, Receipts, Jobs, Markers, ClientLabels
    <3> QED BY <2>1, <2>2
  <2>4. MoversMarked' /\ CandidateNamed' /\ JobPresent'
    BY <2>2
  <2> QED BY <2>3, <2>4
<1>26. ASSUME NEW c \in Clients, CancelSave(c) PROVE TypeInv'
  BY <1>26 DEF CancelSave
<1>27. ASSUME NEW c \in Clients, RollbackReverifyFails(c) PROVE TypeInv'
  BY <1>27 DEF RollbackReverifyFails, Raise
<1>28. ASSUME NEW c \in Clients, RollbackReload(c) PROVE TypeInv'
  BY <1>28 DEF RollbackReload
<1>29. ASSUME NEW c \in Clients, RollbackResave(c) PROVE TypeInv'
  BY <1>29 DEF RollbackResave
<1>30. ASSUME NEW c \in Clients, RollbackResaveFails(c) PROVE TypeInv'
  BY <1>30 DEF RollbackResaveFails, WriteFails
<1>31. ASSUME NEW c \in Clients, RollbackResolve(c) PROVE TypeInv'
  BY <1>31 DEF RollbackResolve
<1>32. ASSUME NEW c \in Clients, RollbackRepoint(c) PROVE TypeInv'
  BY <1>32 DEF RollbackRepoint
<1>33. ASSUME NEW g \in Gens, Damage(g) PROVE TypeInv'
  BY <1>33 DEF Damage
<1>34. CASE Crash
  <2> USE <1>34 DEF Crash
  <2>1. saved \in StateFiles /\ NoJob \in Jobs /\ NoMarker \in Markers
    OBVIOUS
  <2>2. pc' \in [Threads -> WorkerLabels \cup ClientLabels] /\ pc'[Worker] = "off"
        /\ \A d \in Clients : pc'[d] = "idle"
    OBVIOUS
  <2>3. /\ snap' \in [Threads -> StateFiles]
        /\ mark' \in [Threads -> Markers]
        /\ cand' \in [Threads -> Gens \cup {NoGen}]
    BY <2>1
  <2>7. index' \in Gens \cup {NoGen}
    BY ServedType
  <2>4. crashes' \in 0..MaxCrashes
    OBVIOUS
  <2>5. TypeOK'
    <3> HIDE DEF Pointers, StateFiles, Receipts, Jobs, Markers, WorkerLabels
    <3>1. pointer' \in Pointers /\ installed' \in SUBSET Gens /\ intact' \in SUBSET installed'
      OBVIOUS
    <3>2. saved' \in StateFiles /\ receipts' \in SUBSET Receipts /\ job' \in Jobs
      BY <2>1
    <3>3. cancel' \in BOOLEAN
      OBVIOUS
    <3>4. stateLock' \in Threads \cup {Nobody} /\ jobLock' \in Threads \cup {Nobody}
      OBVIOUS
    <3>6. clock' \in Nat /\ jobsMade' \in 0..MaxJobs
          /\ faults' \in 0..MaxFaults /\ changedBy' \in SUBSET (1..MaxJobs)
          /\ uncaught' \in BOOLEAN
      OBVIOUS
    <3> QED BY <2>2, <2>3, <2>4, <2>7, <3>1, <3>2, <3>3, <3>4, <3>6 DEF TypeOK, ClientLabels, WorkerLabels
  <2>6. MoversMarked' /\ CandidateNamed' /\ JobPresent'
    BY <2>2
  <2> QED BY <2>5, <2>6
<1>41. CASE WorkerFailureUnsaved
  <2> USE <1>41 DEF WorkerFailureUnsaved, WriteFails
  <2>1. job' \in JobRecords
    <3>1. job \in JobRecords
      OBVIOUS
    <3>2. Failed(job) \in JobRecords
      BY <3>1, FailedType
    <3> QED BY <3>1, <3>2
  <2>2. pc' \in [Threads -> WorkerLabels \cup ClientLabels] /\ pc'[Worker] = "refailing"
        /\ \A d \in Clients : pc'[d] = pc[d]
    OBVIOUS
  <2>3. TypeOK'
    <3> HIDE DEF Pointers, StateFiles, Receipts, JobRecords, Markers, WorkerLabels, ClientLabels
    <3>1. saved' \in StateFiles /\ job' \in Jobs
      BY <2>1
    <3>2. pc'[Worker] \in WorkerLabels
      BY <2>2 DEF WorkerLabels
    <3> QED BY <2>1, <2>2, <3>1, <3>2
  <2>4. MoversMarked' /\ CandidateNamed' /\ JobPresent'
    BY <2>1, <2>2
  <2> QED BY <2>3, <2>4
<1>42. CASE WorkerRefails
  <2> USE <1>42 DEF WorkerRefails
  <2>1. job' \in JobRecords
    <3>1. job \in JobRecords
      OBVIOUS
    <3> QED BY <3>1, FailedType
  <2>2. pc' \in [Threads -> WorkerLabels \cup ClientLabels] /\ pc'[Worker] = "refailSave"
        /\ \A d \in Clients : pc'[d] = pc[d]
    OBVIOUS
  <2>3. TypeOK'
    <3> HIDE DEF Pointers, StateFiles, Receipts, JobRecords, Markers, WorkerLabels, ClientLabels
    <3>1. saved' \in StateFiles /\ job' \in Jobs
      BY <2>1
    <3>2. pc'[Worker] \in WorkerLabels
      BY <2>2 DEF WorkerLabels
    <3> QED BY <2>1, <2>2, <3>1, <3>2
  <2>4. MoversMarked' /\ CandidateNamed' /\ JobPresent'
    BY <2>1, <2>2
  <2> QED BY <2>3, <2>4
<1>47. CASE WorkerRefailSave
  BY <1>47 DEF WorkerRefailSave
<1>43. CASE WorkerFailureLost
  BY <1>43 DEF WorkerFailureLost, WriteFails
<1>44. ASSUME NEW t \in Threads, SwapFails(t) PROVE TypeInv'
  <2> USE <1>44 DEF SwapFails, WriteFails, Raise
  <2>1. saved' \in StateFiles
    <3>1. Finished(t, FALSE) \in StateFiles
      BY DEF Finished
    <3> QED BY <3>1
  <2>2. pc' \in [Threads -> WorkerLabels \cup ClientLabels] /\ pc'[Worker] \in WorkerLabels
        /\ \A d \in Clients : pc'[d] \in ClientLabels
    OBVIOUS
  <2>3. TypeOK'
    <3> HIDE DEF Pointers, StateFiles, Receipts, Jobs, Markers, WorkerLabels, ClientLabels
    <3> QED BY <2>1, <2>2
  <2>4. MoversMarked' /\ CandidateNamed' /\ JobPresent'
    OBVIOUS
  <2> QED BY <2>3, <2>4
<1>45. ASSUME NEW c \in Clients, StartSaveFails(c) PROVE TypeInv'
  BY <1>45 DEF StartSaveFails, WriteFails
<1>46. ASSUME NEW c \in Clients, CancelSaveFails(c) PROVE TypeInv'
  BY <1>46 DEF CancelSaveFails, WriteFails
<1>35. CASE UNCHANGED vars
  BY <1>35 DEF vars
<1>36. ASSUME NEW t \in Threads, MovePointer(t) PROVE TypeInv'
  BY <1>36, <1>16, <1>17, <1>18, <1>19, <1>20, <1>21, <1>44 DEF MovePointer
<1>37. CASE WorkerStep
  BY <1>37, <1>1, <1>2, <1>3, <1>4, <1>5, <1>6, <1>7, <1>8, <1>9, <1>10, <1>11, <1>12, <1>13, <1>14, <1>15, <1>41, <1>42, <1>43, <1>47, <1>36 DEF WorkerStep
<1>38. ASSUME NEW c \in Clients, Request(c) \/ Serve(c) PROVE TypeInv'
  BY <1>38, <1>22, <1>23, <1>24, <1>25, <1>26, <1>27, <1>28, <1>29, <1>30, <1>31, <1>32, <1>45, <1>46, <1>36 DEF Request, Serve
<1> QED BY <1>33, <1>34, <1>35, <1>37, <1>38 DEF Next

\* Every variable of the refresh holds a value of its kind, whatever the
\* number of generations, clients and jobs, and whichever writes fail.
THEOREM TypeCorrect == Spec => []TypeOK
<1>1. Init => TypeInv
  BY TypeInit
<1>2. TypeInv /\ [Next]_vars => TypeInv'
  BY TypeStep
<1>3. TypeInv => TypeOK
  BY DEF TypeInv
<1> QED BY <1>1, <1>2, <1>3, PTL DEF Spec

(***************************************************************************)
(* The rollback boundary.                                                  *)
(***************************************************************************)
\* Only a swap moves the pointer or adds to the history.
LEMMA OnlySwapMoves ==
    ASSUME [Next]_vars
    PROVE  \/ UNCHANGED <<pointer, changedBy>>
           \/ \E t \in Threads : Swap(t)
<1> USE DEF diskVars, memVars, bookVars, Goto
<1>1. ASSUME NEW t \in Threads, MovePointer(t)
      PROVE  UNCHANGED <<pointer, changedBy>> \/ Swap(t)
  BY <1>1 DEF MovePointer, MarkPending, SwapRefused, SwapFails, AppendReceipt,
              SettleMarker, MarkerWriteFails, Raise, WriteFails
<1>2. CASE WorkerStep
  BY <1>1, <1>2 DEF WorkerStep, WorkerLock, WorkerChecking, WorkerReport, WorkerDecide,
     WorkerDownloading, WorkerValidating, WorkerBuilding, WorkerActivating, WorkerInstall,
     WorkerRepoint, WorkerActivated, WorkerRaises, WorkerConflicts, WorkerQuarantines,
     WorkerDies, WorkerFailed, WorkerFailureUnsaved,
     WorkerRefails, WorkerRefailSave, WorkerFailureLost, Failed, WorkerCancelled, WorkerExit, EnterStage, Finish,
     WriteFails, Threads
<1>3. ASSUME NEW c \in Clients, Request(c)
      PROVE  UNCHANGED <<pointer, changedBy>>
  BY <1>3 DEF Request, Start, Cancel, RollbackEnter
<1>4. ASSUME NEW c \in Clients, Serve(c)
      PROVE  UNCHANGED <<pointer, changedBy>> \/ Swap(c)
  BY <1>1, <1>4 DEF Serve, StartSave, CancelSave, RollbackReverifyFails, RollbackReload,
     RollbackResave, RollbackResaveFails, RollbackResolve, RollbackRepoint,
     StartSaveFails, CancelSaveFails, WriteFails, Threads
<1>5. CASE (\E g \in Gens : Damage(g)) \/ Crash \/ UNCHANGED vars
  BY <1>5 DEF Damage, Crash, vars
<1> QED BY <1>2, <1>3, <1>4, <1>5 DEF Next, Threads

\* No step removes a generation.
LEMMA GenerationsStay == ASSUME [Next]_vars PROVE installed \subseteq installed'
<1> USE DEF diskVars, memVars, bookVars, Goto
<1>1. ASSUME NEW t \in Threads, MovePointer(t) PROVE UNCHANGED installed
  BY <1>1 DEF MovePointer, MarkPending, Swap, SwapRefused, SwapFails, AppendReceipt,
              SettleMarker, MarkerWriteFails, Raise, WriteFails
<1>2. CASE WorkerStep
  BY <1>1, <1>2 DEF WorkerStep, WorkerLock, WorkerChecking, WorkerReport, WorkerDecide,
     WorkerDownloading, WorkerValidating, WorkerBuilding, WorkerActivating, WorkerInstall,
     WorkerRepoint, WorkerActivated, WorkerRaises, WorkerConflicts, WorkerQuarantines,
     WorkerDies, WorkerFailed, WorkerFailureUnsaved,
     WorkerRefails, WorkerRefailSave, WorkerFailureLost, Failed, WorkerCancelled, WorkerExit, EnterStage, Finish,
     WriteFails, Threads
<1>3. ASSUME NEW c \in Clients, Request(c) PROVE UNCHANGED installed
  BY <1>3 DEF Request, Start, Cancel, RollbackEnter
<1>4. ASSUME NEW c \in Clients, Serve(c) PROVE UNCHANGED installed
  BY <1>1, <1>4 DEF Serve, StartSave, CancelSave, RollbackReverifyFails, RollbackReload,
     RollbackResave, RollbackResaveFails, RollbackResolve, RollbackRepoint,
     StartSaveFails, CancelSaveFails, WriteFails, Threads
<1>5. CASE (\E g \in Gens : Damage(g)) \/ Crash \/ UNCHANGED vars
  BY <1>5 DEF Damage, Crash, vars
<1> QED BY <1>2, <1>3, <1>4, <1>5 DEF Next, Threads

\* The boundary is inductive once it is known that a previous generation is
\* remembered only behind an active one.
BoundaryInv ==
    /\ RollbackBoundary
    /\ pointer.active = NoGen => pointer.previous = NoGen

\* A swap names an installed generation and remembers the one it replaces.
LEMMA BoundaryStep == TypeInv /\ BoundaryInv /\ [Next]_vars => BoundaryInv'
<1> SUFFICES ASSUME TypeInv, BoundaryInv, [Next]_vars PROVE BoundaryInv'
  OBVIOUS
<1>1. installed \subseteq installed'
  BY GenerationsStay
<1>2. ASSUME NEW t \in Threads, Swap(t) PROVE BoundaryInv'
  <2> DEFINE target == mark[t].target
  <2>1. target \in Gens /\ target \in installed
    BY <1>2 DEF Swap, At, TypeInv, TypeOK, MoversMarked, MoverLabels, Marks
  <2>2. pointer'.active = target /\ target # NoGen
    BY <1>2, <2>1, NoGenAssumption DEF Swap, Repointed
  <2>3. CASE pointer.active \notin {NoGen, target}
    <3>1. pointer'.previous = pointer.active
      BY <1>2, <2>3 DEF Swap, Repointed
    <3> QED BY <1>1, <2>1, <2>2, <2>3, <3>1 DEF BoundaryInv, RollbackBoundary
  <2>4. CASE pointer.active \in {NoGen, target}
    <3>1. pointer'.previous = pointer.previous
      BY <1>2, <2>4 DEF Swap, Repointed
    <3> QED BY <1>1, <2>1, <2>2, <2>4, <3>1 DEF BoundaryInv, RollbackBoundary
  <2> QED BY <2>3, <2>4
<1>3. CASE UNCHANGED pointer
  BY <1>1, <1>3 DEF BoundaryInv, RollbackBoundary
<1> QED BY <1>2, <1>3, OnlySwapMoves

\* ADR-0004's rollback boundary holds in every reachable state: the pointer
\* names installed generations only, and a rollback leads somewhere else.
THEOREM BoundaryHolds == Spec => []RollbackBoundary
<1>1. Init => TypeInv /\ BoundaryInv
  BY TypeInit DEF Init, BoundaryInv, RollbackBoundary
<1>2. TypeInv /\ BoundaryInv /\ [Next]_vars => (TypeInv /\ BoundaryInv)'
  BY TypeStep, BoundaryStep
<1>3. BoundaryInv => RollbackBoundary
  BY DEF BoundaryInv
<1> QED BY <1>1, <1>2, <1>3, PTL DEF Spec

(***************************************************************************)
(* What a job reports is what it did.                                      *)
(***************************************************************************)
\* Where the worker is tells whether its job has moved the pointer, and what
\* the job's record says meanwhile.
Unmoved(state, stages) ==
    job.state = state /\ job.stage \in stages /\ job.id \notin changedBy

WorkerTells ==
    /\ pc[Worker] \in {"spawned", "starting"} => Unmoved("queued", {"queued"})
    /\ pc[Worker] \in {"checking", "changed", "downloading", "validating", "building"}
          => Unmoved("running", Stages \ {"activating"})
    /\ pc[Worker] \in {"activating", "mark", "swap"} => Unmoved("running", {"activating"})
    /\ pc[Worker] \in {"receipt", "settle", "repoint", "sync"}
          => job.state = "running" /\ job.stage = "activating" /\ job.id \in changedBy
    /\ pc[Worker] \in {"conflict", "failing"} => Live(job)
    /\ pc[Worker] = "conflict" => job.id \notin changedBy /\ job.stage # "activating"

\* A start holds the coordinator's lock until its worker is spawned, so no
\* second start can come between.
StartExcludes ==
    /\ pc[Worker] = "refailSave" => jobLock = Worker
    /\ \A c \in Clients :
          /\ pc[c] \in {"startSave", "cancelSave"} => jobLock = c
          /\ pc[c] = "startSave" => pc[Worker] = "off" /\ Unmoved("queued", {"queued"})

JobsNumbered == changedBy \subseteq 1..jobsMade /\ job.id \in 0..jobsMade

OutcomeInv == WorkerTells /\ StartExcludes /\ JobsNumbered /\ HonestOutcome

\* Initially no job has run.
LEMMA OutcomeInit == Init => OutcomeInv
BY NoGenAssumption, ThreadsAssumption, BoundsAssumption
   DEF Init, OutcomeInv, WorkerTells, StartExcludes, JobsNumbered, HonestOutcome, Unmoved,
       NoJob, Threads

\* Each step of the worker keeps its job's record in line with the history.
LEMMA OutcomeStep == TypeInv /\ OutcomeInv /\ [Next]_vars => OutcomeInv'
<1> SUFFICES ASSUME TypeInv, OutcomeInv, [Next]_vars PROVE OutcomeInv'
  OBVIOUS
<1> USE NoGenAssumption, ThreadsAssumption, BoundsAssumption
<1> USE DEF OutcomeInv, WorkerTells, StartExcludes, JobsNumbered, HonestOutcome, Unmoved, Live,
            TypeInv, TypeOK, MoversMarked, JobPresent, Goto, At, Threads, diskVars, bookVars,
            memVars, MoverLabels, WorkerLabels, ClientLabels, Stages, Jobs, JobRecords, NoJob
<1>1. CASE WorkerLock
  BY <1>1 DEF WorkerLock
<1>2. CASE WorkerChecking
  BY <1>2 DEF WorkerChecking, EnterStage, UpdateJob
<1>3. CASE WorkerReport
  BY <1>3 DEF WorkerReport, Finish, UpdateJob
<1>4. ASSUME NEW g \in Gens, WorkerDecide(g) PROVE OutcomeInv'
  BY <1>4 DEF WorkerDecide
<1>5. CASE WorkerDownloading
  BY <1>5 DEF WorkerDownloading, EnterStage, UpdateJob
<1>6. CASE WorkerValidating
  BY <1>6 DEF WorkerValidating, EnterStage, UpdateJob
<1>7. CASE WorkerBuilding
  BY <1>7 DEF WorkerBuilding, EnterStage, UpdateJob
<1>8. CASE WorkerActivating
  BY <1>8 DEF WorkerActivating, EnterStage, UpdateJob
<1>9. CASE WorkerInstall
  BY <1>9 DEF WorkerInstall
<1>10. CASE WorkerRepoint
  BY <1>10 DEF WorkerRepoint
<1>11. CASE WorkerActivated
  BY <1>11 DEF WorkerActivated, Finish, UpdateJob
<1>12. CASE WorkerRaises \/ WorkerConflicts \/ WorkerQuarantines \/ WorkerDies
  <2>1. CASE WorkerRaises
    BY <2>1 DEF WorkerRaises
  <2>2. CASE WorkerConflicts
    BY <2>2 DEF WorkerConflicts
  <2>3. CASE WorkerQuarantines
    BY <2>3 DEF WorkerQuarantines
  <2>4. CASE WorkerDies
    BY <2>4 DEF WorkerDies
  <2> QED BY <1>12, <2>1, <2>2, <2>3, <2>4
<1>13. CASE WorkerFailed
  BY <1>13 DEF WorkerFailed, UpdateJob, Failed
<1>14. CASE WorkerCancelled
  BY <1>14 DEF WorkerCancelled, UpdateJob
<1>15. CASE WorkerExit
  BY <1>15 DEF WorkerExit
<1>16. ASSUME NEW t \in Threads, MarkPending(t) PROVE OutcomeInv'
  BY <1>16 DEF MarkPending
<1>17. ASSUME NEW t \in Threads, Swap(t) PROVE OutcomeInv'
  <2>1. CASE t = Worker
    <3>1. job \in JobRecords /\ mark[t].job = job.id
      BY <1>17, <2>1 DEF Swap
    <3>2. changedBy' = changedBy \cup {job.id} /\ UNCHANGED <<job, jobsMade, jobLock>>
      BY <1>17, <2>1, <3>1 DEF Swap
    <3>3. JobsNumbered'
      <4>1. jobsMade \in Nat /\ job.id \in 0..jobsMade /\ job.id \in 1..MaxJobs
        BY <3>1
      <4>2. job.id \in 1..jobsMade
        BY <4>1, BoundsAssumption
      <4>3. changedBy' \subseteq 1..jobsMade'
        <5> HIDE DEF TypeInv, TypeOK
        <5> QED BY <3>2, <4>2
      <4> QED BY <3>2, <4>1, <4>3
    <3>4. pc[Worker] = "swap" /\ pc'[Worker] = "receipt"
          /\ \A c \in Clients : pc'[c] = pc[c]
      BY <1>17, <2>1 DEF Swap
    <3>5. WorkerTells' /\ StartExcludes' /\ HonestOutcome'
      BY <3>2, <3>4
    <3> QED BY <3>3, <3>5
  <2>2. CASE t # Worker
    BY <1>17, <2>2 DEF Swap
  <2> QED BY <2>1, <2>2
<1>18. ASSUME NEW t \in Threads, SwapRefused(t) PROVE OutcomeInv'
  BY <1>18 DEF SwapRefused, Raise, Finished, Matches
<1>19. ASSUME NEW t \in Threads, NEW lands \in BOOLEAN, NEW fails \in BOOLEAN, AppendReceipt(t, lands, fails) PROVE OutcomeInv'
  BY <1>19 DEF AppendReceipt
<1>20. ASSUME NEW t \in Threads, SettleMarker(t) PROVE OutcomeInv'
  BY <1>20 DEF SettleMarker, Finished, Matches
<1>21. ASSUME NEW t \in Threads, MarkerWriteFails(t) PROVE OutcomeInv'
  BY <1>21 DEF MarkerWriteFails, WriteFails, Raise
<1>22. ASSUME NEW c \in Clients, NEW mode \in Modes, Start(c, mode) PROVE OutcomeInv'
  BY <1>22 DEF Start, MayBegin, Queued
<1>23. ASSUME NEW c \in Clients, Cancel(c) PROVE OutcomeInv'
  BY <1>23 DEF Cancel, MayBegin
<1>24. ASSUME NEW c \in Clients, RollbackEnter(c) PROVE OutcomeInv'
  BY <1>24 DEF RollbackEnter, MayBegin
<1>25. ASSUME NEW c \in Clients, StartSave(c) PROVE OutcomeInv'
  BY <1>25 DEF StartSave
<1>26. ASSUME NEW c \in Clients, CancelSave(c) PROVE OutcomeInv'
  BY <1>26 DEF CancelSave
<1>27. ASSUME NEW c \in Clients, RollbackReverifyFails(c) PROVE OutcomeInv'
  BY <1>27 DEF RollbackReverifyFails, Raise
<1>28. ASSUME NEW c \in Clients, RollbackReload(c) PROVE OutcomeInv'
  BY <1>28 DEF RollbackReload
<1>29. ASSUME NEW c \in Clients, RollbackResave(c) PROVE OutcomeInv'
  BY <1>29 DEF RollbackResave
<1>30. ASSUME NEW c \in Clients, RollbackResaveFails(c) PROVE OutcomeInv'
  BY <1>30 DEF RollbackResaveFails, WriteFails
<1>31. ASSUME NEW c \in Clients, RollbackResolve(c) PROVE OutcomeInv'
  BY <1>31 DEF RollbackResolve
<1>32. ASSUME NEW c \in Clients, RollbackRepoint(c) PROVE OutcomeInv'
  BY <1>32 DEF RollbackRepoint
<1>33. ASSUME NEW g \in Gens, Damage(g) PROVE OutcomeInv'
  BY <1>33 DEF Damage
<1>34. CASE Crash
  BY <1>34 DEF Crash
<1>41. CASE WorkerFailureUnsaved
  BY <1>41 DEF WorkerFailureUnsaved, WriteFails, Failed
<1>42. CASE WorkerRefails
  BY <1>42 DEF WorkerRefails, Failed
<1>47. CASE WorkerRefailSave
  BY <1>47 DEF WorkerRefailSave
<1>43. CASE WorkerFailureLost
  BY <1>43 DEF WorkerFailureLost, WriteFails
<1>44. ASSUME NEW t \in Threads, SwapFails(t) PROVE OutcomeInv'
  BY <1>44 DEF SwapFails, WriteFails, Raise, Finished, Matches
<1>45. ASSUME NEW c \in Clients, StartSaveFails(c) PROVE OutcomeInv'
  BY <1>45 DEF StartSaveFails, WriteFails
<1>46. ASSUME NEW c \in Clients, CancelSaveFails(c) PROVE OutcomeInv'
  BY <1>46 DEF CancelSaveFails, WriteFails
<1>35. CASE UNCHANGED vars
  BY <1>35 DEF vars
<1>36. ASSUME NEW t \in Threads, MovePointer(t) PROVE OutcomeInv'
  BY <1>36, <1>16, <1>17, <1>18, <1>19, <1>20, <1>21, <1>44 DEF MovePointer
<1>37. CASE WorkerStep
  BY <1>37, <1>1, <1>2, <1>3, <1>4, <1>5, <1>6, <1>7, <1>8, <1>9, <1>10, <1>11, <1>12, <1>13, <1>14, <1>15, <1>41, <1>42, <1>43, <1>47, <1>36 DEF WorkerStep
<1>38. ASSUME NEW c \in Clients, Request(c) \/ Serve(c) PROVE OutcomeInv'
  BY <1>38, <1>22, <1>23, <1>24, <1>25, <1>26, <1>27, <1>28, <1>29, <1>30, <1>31, <1>32, <1>45, <1>46, <1>36 DEF Request, Serve
<1> QED BY <1>33, <1>34, <1>35, <1>37, <1>38 DEF Next

\* A job reports what it did: "activated" exactly if it moved the pointer, and
\* a cancelled job, or one not yet activating, moved nothing.
THEOREM OutcomeIsHonest == Spec => []HonestOutcome
<1>1. Init => TypeInv /\ OutcomeInv
  BY TypeInit, OutcomeInit
<1>2. TypeInv /\ OutcomeInv /\ [Next]_vars => (TypeInv /\ OutcomeInv)'
  BY TypeStep, OutcomeStep
<1>3. OutcomeInv => HonestOutcome
  BY DEF OutcomeInv
<1> QED BY <1>1, <1>2, <1>3, PTL DEF Spec

(***************************************************************************)
(* What the owner is told after a restart, and which index is read, when   *)
(* requests do not overlap, no write of state.json or the pointer fails    *)
(* and no worker dies of the follow database: one that dies frees the      *)
(* state lock for a cancel that still holds an old copy of state.json.     *)
(* (With each of the three the reports are false: see the README.)         *)
(***************************************************************************)
Serial == Overlap = FALSE /\ MaxFaults = 0 /\ FollowsMayFail = FALSE

\* One request at a time, and no rollback beside a job.
Alone ==
    /\ \A c, d \in Clients : c # d => pc[c] = "idle" \/ pc[d] = "idle"
    /\ pc[Worker] # "off" => \A c \in Clients : pc[c] \in {"idle", "cancelSave"}
    /\ pc[Worker] \notin {"refailing", "refailSave"}
    /\ pc[Worker] \notin {"off", "spawned"} => stateLock = Worker

\* No write fails.
LEMMA NoWriteFails == ASSUME TypeOK, MaxFaults = 0 PROVE ~WriteFails
BY DEF TypeOK, WriteFails

LEMMA AloneStep == ASSUME Serial, TypeInv, Alone, [Next]_vars PROVE Alone'
<1> USE ThreadsAssumption DEF Alone, Goto, At, Threads
<1>1. ~WriteFails /\ ~Overlap
  BY NoWriteFails DEF Serial, TypeInv
<1>2. /\ pc \in [Threads -> WorkerLabels \cup ClientLabels]
      /\ \A c \in Clients : pc[c] \in ClientLabels
  BY DEF TypeInv, TypeOK
<1>3. ASSUME NEW t \in Threads, MovePointer(t) PROVE Alone'
  <2>1. pc[t] \in MoverLabels
    BY <1>1, <1>3 DEF MovePointer, MarkPending, Swap, SwapRefused, SwapFails, AppendReceipt,
                      SettleMarker, MarkerWriteFails, MoverLabels
  <2>2. CASE t = Worker
    <3>1. stateLock' = stateLock /\ \E l \in MoverLabels \cup {"failing", "repoint"} :
              pc' = [pc EXCEPT ![Worker] = l]
      BY <1>1, <1>3, <2>2 DEF MovePointer, MarkPending, Swap, SwapRefused, SwapFails,
              AppendReceipt, SettleMarker, MarkerWriteFails, Raise, MoverLabels
    <3> QED BY <1>2, <2>1, <2>2, <3>1 DEF MoverLabels
  <2>3. CASE t # Worker
    <3>1. \E l \in ClientLabels : pc' = [pc EXCEPT ![t] = l]
      BY <1>1, <1>3, <2>3 DEF MovePointer, MarkPending, Swap, SwapRefused, SwapFails,
              AppendReceipt, SettleMarker, MarkerWriteFails, Raise, MoverLabels, ClientLabels
    <3>2. pc[Worker] = "off"
      BY <2>1, <2>3 DEF MoverLabels
    <3> QED BY <1>2, <2>1, <2>3, <3>1, <3>2 DEF MoverLabels
  <2> QED BY <2>2, <2>3
<1>4. CASE \/ WorkerChecking \/ WorkerReport
           \/ \E g \in Gens : WorkerDecide(g)
           \/ WorkerDownloading \/ WorkerValidating \/ WorkerBuilding \/ WorkerActivating
           \/ WorkerInstall \/ WorkerRepoint \/ WorkerActivated
           \/ WorkerRaises \/ WorkerConflicts \/ WorkerQuarantines \/ WorkerDies
           \/ WorkerFailed \/ WorkerCancelled
  <2>1. /\ pc[Worker] \notin {"off", "spawned"} /\ stateLock' = stateLock
        /\ \E l \in WorkerLabels \ {"off", "spawned", "refailing", "refailSave"} :
               pc' = [pc EXCEPT ![Worker] = l]
    BY <1>4 DEF WorkerChecking, WorkerReport, WorkerDecide, WorkerDownloading, WorkerValidating,
        WorkerBuilding, WorkerActivating, WorkerInstall, WorkerRepoint, WorkerActivated,
        WorkerRaises, WorkerConflicts, WorkerQuarantines, WorkerDies,
        WorkerFailed, WorkerCancelled, EnterStage, Finish, WorkerLabels,
        MoverLabels, Stages
  <2> QED BY <1>2, <2>1
<1>5. CASE WorkerLock
  BY <1>2, <1>5 DEF WorkerLock
<1>6. CASE WorkerExit
  BY <1>2, <1>6 DEF WorkerExit
<1>7. CASE WorkerFailureUnsaved \/ WorkerRefails \/ WorkerRefailSave \/ WorkerFailureLost
  BY <1>1, <1>7 DEF WorkerFailureUnsaved, WorkerRefails, WorkerRefailSave, WorkerFailureLost
<1>8. CASE WorkerStep
  BY <1>3, <1>4, <1>5, <1>6, <1>7, <1>8 DEF WorkerStep
<1>9. ASSUME NEW c \in Clients, Request(c) PROVE Alone'
  <2>1. \A d \in Clients : pc[d] = "idle"
    BY <1>1, <1>9 DEF Request, Start, Cancel, RollbackEnter, MayBegin
  <2>2. /\ stateLock' = stateLock \/ pc[Worker] = "off"
        /\ \E l \in ClientLabels : /\ pc' = [pc EXCEPT ![c] = l]
                                   /\ l # "cancelSave" => pc[Worker] = "off"
    BY <1>1, <1>9 DEF Request, Start, Cancel, RollbackEnter, ClientLabels, MoverLabels
  <2> QED BY <1>2, <2>1, <2>2
<1>10. ASSUME NEW c \in Clients, StartSave(c) PROVE Alone'
  BY <1>2, <1>10 DEF StartSave
<1>11. ASSUME NEW c \in Clients,
              \/ CancelSave(c) \/ StartSaveFails(c) \/ CancelSaveFails(c)
              \/ RollbackReverifyFails(c) \/ RollbackReload(c) \/ RollbackResave(c)
              \/ RollbackResaveFails(c) \/ RollbackResolve(c) \/ RollbackRepoint(c)
       PROVE  Alone'
  <2>1. /\ pc[c] # "idle" /\ (stateLock' = stateLock \/ pc[Worker] = "off")
        /\ \E l \in ClientLabels : /\ pc' = [pc EXCEPT ![c] = l]
                                   /\ l # "idle" => pc[Worker] = "off"
    BY <1>1, <1>11 DEF CancelSave, StartSaveFails, CancelSaveFails, RollbackReverifyFails, Raise,
       RollbackReload, RollbackResave, RollbackResaveFails, RollbackResolve, RollbackRepoint,
       ClientLabels
  <2> QED BY <1>2, <2>1
<1>12. ASSUME NEW c \in Clients, Serve(c) PROVE Alone'
  BY <1>3, <1>10, <1>11, <1>12 DEF Serve
<1>13. CASE (\E g \in Gens : Damage(g)) \/ UNCHANGED vars
  <2>1. pc' = pc /\ stateLock' = stateLock
    BY <1>13 DEF Damage, vars, memVars
  <2> QED BY <2>1
<1>14. CASE Crash
  BY <1>14 DEF Crash
<1> QED BY <1>8, <1>9, <1>12, <1>13, <1>14 DEF Next

(***************************************************************************)
(* What is in state.json.  A request that loads, waits and saves brings    *)
(* back nothing old: what it loaded is still what is there, or it waits    *)
(* for a worker that waits for it.                                         *)
(***************************************************************************)
FileFits ==
    /\ pc[Worker] # "off" => saved.job = job
    /\ \A c \in Clients : pc[c] \in {"startSave", "resave"} => snap[c] = saved
    /\ \A c \in Clients :
          pc[c] = "cancelSave" => snap[c] = saved \/ pc[Worker] \notin {"off", "spawned", "exit"}
    /\ Live(saved.job) /\ saved.job.stage # "activating" => saved.job.id \notin changedBy

\* The marker is that of the last attempt, and names what it does before it is done.
MarkerFits ==
    /\ MarkerTargetsActive => saved.marker.stamp = pointer.stamp
    /\ \A t \in Threads : pc[t] \in {"mark", "swap"} => mark[t].target # pointer.active
    /\ \A t \in Threads : pc[t] = "swap" => saved.marker = mark[t]
    /\ pc[Worker] \in BuildLabels /\ cand[Worker] = pointer.active
          => pointer.active \in installed \ intact

SerialInv == TypeInv /\ BoundaryInv /\ OutcomeInv /\ Alone /\ FileFits /\ MarkerFits

\* Updating a job writes it to both, and nothing else of state.json.
LEMMA UpdateWrites ==
    ASSUME TypeInv, NEW new, UpdateJob(new)
    PROVE  /\ job' = new /\ saved'.job = new /\ saved'.marker = saved.marker
           /\ jobLock = Nobody
BY DEF UpdateJob, TypeInv, TypeOK, StateFiles

\* The worker's steps that update its job, from a label it is at.
LEMMA WorkerUpdates ==
    ASSUME SerialInv,
           NEW new, UpdateJob(new), new.id = job.id,
           Live(new) /\ new.stage # "activating" => new.id \notin changedBy,
           NEW l \in WorkerLabels \ {"swap", "mark"}, pc' = [pc EXCEPT ![Worker] = l],
           pc[Worker] \notin {"off", "spawned"},
           l \in BuildLabels => pc[Worker] \in BuildLabels,
           UNCHANGED <<pointer, installed, intact, snap, mark, cand, changedBy>>
    PROVE  FileFits' /\ MarkerFits'
<1> USE ThreadsAssumption DEF SerialInv, Threads
<1>1. /\ job' = new /\ saved'.job = new /\ saved'.marker = saved.marker /\ jobLock = Nobody
  BY UpdateWrites
<1>2. \A c \in Clients : pc'[c] = pc[c] /\ pc[c] = "idle"
  <2>1. \A c \in Clients : pc[c] # "cancelSave"
    BY <1>1 DEF OutcomeInv, StartExcludes
  <2> QED BY <2>1 DEF Alone, TypeInv, TypeOK
<1>3. pc'[Worker] = l
  BY DEF TypeInv, TypeOK
<1>4. FileFits'
  BY <1>1, <1>2, <1>3 DEF FileFits, Live
<1>5. MarkerFits'
  BY <1>1, <1>2, <1>3 DEF MarkerFits, MarkerTargetsActive
<1> QED BY <1>4, <1>5

\* The worker's steps that leave job and files alone.
LEMMA WorkerPasses ==
    ASSUME SerialInv,
           NEW l \in WorkerLabels \ {"off", "spawned", "exit", "swap"},
           pc' = [pc EXCEPT ![Worker] = l], pc[Worker] # "off",
           l = "mark" => mark'[Worker].target # pointer.active,
           l \in BuildLabels /\ cand'[Worker] = pointer.active => pointer.active \in installed' \ intact',
           UNCHANGED <<pointer, saved, job, snap, changedBy>>
    PROVE  FileFits' /\ MarkerFits'
<1> USE ThreadsAssumption DEF SerialInv, Threads
<1>1. \A c \in Clients : pc'[c] = pc[c] /\ pc[c] \in {"idle", "cancelSave"}
  BY DEF Alone, TypeInv, TypeOK
<1>2. pc'[Worker] = l
  BY DEF TypeInv, TypeOK
<1>3. FileFits'
  BY <1>1, <1>2 DEF FileFits, Live
<1>4. MarkerFits'
  BY <1>1, <1>2 DEF MarkerFits, MarkerTargetsActive
<1> QED BY <1>3, <1>4

\* A client's steps that leave job, marker and pointer alone while no job runs, and a
\* step back to idle at any time.
LEMMA ClientPasses ==
    ASSUME SerialInv, NEW c \in Clients,
           NEW l \in ClientLabels \ {"swap"}, pc' = [pc EXCEPT ![c] = l],
           l # "idle" => pc[Worker] = "off",
           l \in {"startSave", "resave", "cancelSave"} => snap'[c] = saved,
           l = "mark" => mark'[c].target # pointer.active,
           \A d \in Clients : d # c => snap'[d] = snap[d],
           \A t \in Threads : t # c => mark'[t] = mark[t],
           pc[Worker] # "off" => job' = job,
           UNCHANGED <<pointer, installed, intact, saved, changedBy>>,
           cand'[Worker] = cand[Worker]
    PROVE  FileFits' /\ MarkerFits'
<1> USE ThreadsAssumption DEF SerialInv, Threads
<1>1. /\ pc'[c] = l /\ pc'[Worker] = pc[Worker]
      /\ \A d \in Clients : d # c => pc'[d] = pc[d]
  BY DEF TypeInv, TypeOK
<1>2. FileFits'
  BY <1>1 DEF FileFits, Live
<1>3. MarkerFits'
  BY <1>1 DEF MarkerFits, MarkerTargetsActive
<1> QED BY <1>2, <1>3

\* While a thread moves the pointer, the others rest; or the worker moves it and a
\* client waits with a cancel.
LEMMA MoverAlone ==
    ASSUME SerialInv, NEW t \in Threads, pc[t] \in MoverLabels
    PROVE  \A u \in Threads : u # t =>
               \/ u = Worker /\ pc[u] = "off"
               \/ u \in Clients /\ pc[u] = "idle"
               \/ u \in Clients /\ pc[u] = "cancelSave" /\ t = Worker
BY ThreadsAssumption DEF SerialInv, Alone, Threads, MoverLabels

\* A step of whoever moves the pointer.
LEMMA MoversKeep ==
    ASSUME SerialInv, NEW t \in Threads, pc[t] \in MoverLabels,
           NEW l \in {"swap", "receipt", "settle", "failing", "repoint", "idle", "reload"},
           pc' = [pc EXCEPT ![t] = l],
           l \in {"failing"} => t = Worker, l \in {"idle", "reload"} => t # Worker,
           saved'.job = saved.job,
           MarkerTargetsActive' => saved'.marker.stamp = pointer'.stamp,
           l = "swap" => saved'.marker = mark'[t] /\ mark'[t].target # pointer'.active,
           Live(job) /\ job.stage # "activating" /\ t = Worker => job.id \notin changedBy',
           t # Worker => changedBy' = changedBy,
           UNCHANGED <<job, snap>>
    PROVE  FileFits' /\ MarkerFits'
<1> USE ThreadsAssumption DEF Threads
<1>1. /\ pc'[t] = l
      /\ \A u \in Threads : u # t =>
             /\ pc'[u] = pc[u]
             /\ \/ u = Worker /\ pc[u] = "off"
                \/ u \in Clients /\ pc[u] = "idle"
                \/ u \in Clients /\ pc[u] = "cancelSave" /\ t = Worker
  BY MoverAlone DEF SerialInv, TypeInv, TypeOK
<1>2. pc'[Worker] # "off" => t = Worker /\ pc[Worker] # "off" /\ pc'[Worker] = l
  BY <1>1 DEF MoverLabels
<1>3. FileFits'
  BY <1>1, <1>2 DEF SerialInv, FileFits, Live
<1>4. MarkerFits'
  BY <1>1, <1>2 DEF SerialInv, MarkerFits, BuildLabels
<1> QED BY <1>3, <1>4

LEMMA MovesKeep ==
    ASSUME SerialInv, MaxFaults = 0, NEW t \in Threads, MovePointer(t)
    PROVE  FileFits' /\ MarkerFits'
<1> USE DEF At, Goto
<1>0. /\ ~WriteFails /\ saved \in StateFiles /\ pointer \in Pointers
      /\ t # Worker => t \in Clients
  BY NoWriteFails DEF SerialInv, TypeInv, TypeOK, Threads
<1>1. pc[t] \in MoverLabels
  BY <1>0 DEF MovePointer, MarkPending, Swap, SwapRefused, SwapFails, AppendReceipt,
              SettleMarker, MarkerWriteFails, MoverLabels
<1>2. mark \in [Threads -> Markers] /\ mark[t] \in Marks /\ mark[t] # NoMarker
  BY <1>1, NoGenAssumption DEF SerialInv, TypeInv, TypeOK, MoversMarked, Marks, NoMarker
<1>3. /\ Live(job) /\ job.stage # "activating" => job.id \notin changedBy
      /\ MarkerTargetsActive => saved.marker.stamp = pointer.stamp
  BY DEF SerialInv, OutcomeInv, HonestOutcome, Live, MarkerFits
<1>4. CASE MarkPending(t)
  <2>1. /\ pc' = [pc EXCEPT ![t] = "swap"] /\ saved'.job = saved.job /\ saved'.marker = mark[t]
        /\ UNCHANGED <<pointer, mark, job, snap, changedBy>>
    BY <1>0, <1>4 DEF MarkPending, bookVars, StateFiles
  <2>2. mark[t].target # pointer.active
    BY <1>4 DEF SerialInv, MarkerFits, MarkPending
  <2> QED BY <1>1, <1>3, <2>1, <2>2, MoversKeep DEF MarkerTargetsActive
<1>5. CASE Swap(t)
  <2>1. /\ pc[t] = "swap" /\ pc' = [pc EXCEPT ![t] = "receipt"]
        /\ pointer'.stamp = mark[t].stamp
        /\ changedBy' = IF t = Worker THEN changedBy \cup {mark[t].job} ELSE changedBy
        /\ UNCHANGED <<saved, mark, job, snap>>
    BY <1>5 DEF Swap, Repointed
  <2>2. saved.marker = mark[t]
    BY <2>1 DEF SerialInv, MarkerFits
  <2>3. t = Worker => job.stage = "activating"
    BY <2>1 DEF SerialInv, OutcomeInv, WorkerTells, Unmoved
  <2> QED BY <1>1, <2>1, <2>2, <2>3, MoversKeep
<1>6. CASE SwapRefused(t)
  <2>1. /\ \E l \in {"failing", "idle"} : /\ pc' = [pc EXCEPT ![t] = l]
                                          /\ l = "failing" <=> t = Worker
        /\ saved' = Finished(t, FALSE)
        /\ UNCHANGED <<pointer, mark, job, snap, changedBy>>
    BY <1>6 DEF SwapRefused, Raise, bookVars
  <2>2. saved'.job = saved.job /\ (saved'.marker = saved.marker \/ saved'.marker = NoMarker)
    BY <1>0, <2>1 DEF Finished, StateFiles
  <2>3. MarkerTargetsActive' => saved'.marker.stamp = pointer'.stamp
    BY <1>3, <2>1, <2>2 DEF MarkerTargetsActive
  <2> QED BY <1>1, <1>3, <2>1, <2>2, <2>3, MoversKeep
<1>7. ASSUME NEW lands \in BOOLEAN, NEW fails \in BOOLEAN, AppendReceipt(t, lands, fails)
      PROVE  FileFits' /\ MarkerFits'
  <2>1. /\ pc' = [pc EXCEPT ![t] = "settle"]
        /\ UNCHANGED <<pointer, saved, job, snap, changedBy>>
    BY <1>7 DEF AppendReceipt, bookVars
  <2> QED BY <1>1, <1>3, <2>1, MoversKeep DEF MarkerTargetsActive
<1>8. CASE SettleMarker(t)
  <2>1. /\ \E l \in {"repoint", "reload"} : /\ pc' = [pc EXCEPT ![t] = l]
                                            /\ l = "repoint" <=> t = Worker
        /\ saved' = Finished(t, mark[t].error)
        /\ UNCHANGED <<pointer, mark, job, snap, changedBy>>
    BY <1>8 DEF SettleMarker, bookVars
  <2>2. /\ saved'.job = saved.job
        /\ \/ saved'.marker = NoMarker
           \/ saved'.marker = saved.marker
           \/ saved.marker # NoMarker /\ saved'.marker = [saved.marker EXCEPT !.error = TRUE]
    <3>1. Matches(saved.marker, mark[t]) => saved.marker # NoMarker
      BY <1>2, NoGenAssumption DEF Matches, Marks, NoMarker
    <3> QED BY <1>0, <2>1, <3>1 DEF Finished, StateFiles
  <2>3. MarkerTargetsActive' => saved'.marker.stamp = pointer'.stamp
    <3>1. saved.marker \in Markers
      BY <1>0 DEF StateFiles
    <3> QED BY <1>3, <2>1, <2>2, <3>1 DEF MarkerTargetsActive, Markers, Marks
  <2> QED BY <1>1, <1>3, <2>1, <2>2, <2>3, MoversKeep
<1> QED BY <1>0, <1>4, <1>5, <1>6, <1>7, <1>8 DEF MovePointer, SwapFails, MarkerWriteFails

\* What each step does to state.json and to the marker.
LEMMA FileStep ==
    ASSUME Serial, SerialInv, [Next]_vars
    PROVE  FileFits' /\ MarkerFits'
<1> USE DEF At, Goto
<1>1. ~WriteFails /\ ~Overlap /\ MaxFaults = 0 /\ ~FollowsMayFail
  BY NoWriteFails DEF Serial, SerialInv, TypeInv
<1>2. /\ Live(job) /\ job.stage # "activating" => job.id \notin changedBy
      /\ job.id \in changedBy => ~(Live(job) /\ job.stage # "activating")
  BY DEF SerialInv, OutcomeInv, HonestOutcome, Live
<1>5. ASSUME NEW from, NEW to \in {"checking", "downloading", "validating", "building", "activating"},
             EnterStage(from, to), from \notin {"off", "spawned"},
             to \in BuildLabels => from \in BuildLabels,
             job.id \notin changedBy
      PROVE  FileFits' /\ MarkerFits'
  <2> DEFINE new == [job EXCEPT !.state = "running", !.stage = to]
  <2>1. job \in JobRecords
    BY <1>5 DEF EnterStage, SerialInv, TypeInv, JobPresent
  <2>2. new.id = job.id
    BY <2>1 DEF JobRecords
  <2>3. /\ UpdateJob(new) /\ pc' = [pc EXCEPT ![Worker] = to] /\ pc[Worker] = from
        /\ UNCHANGED <<pointer, installed, intact, snap, mark, cand, changedBy>>
    BY <1>5 DEF EnterStage, bookVars
  <2>4. to \in WorkerLabels \ {"swap", "mark"}
    BY DEF WorkerLabels, Stages
  <2> HIDE DEF new
  <2> QED BY <1>5, <2>2, <2>3, <2>4, WorkerUpdates
<1>6. CASE WorkerChecking \/ WorkerDownloading \/ WorkerValidating \/ WorkerBuilding \/ WorkerActivating
  <2>1. job.id \notin changedBy
    BY <1>6 DEF WorkerChecking, WorkerDownloading, WorkerValidating, WorkerBuilding,
       WorkerActivating, EnterStage, SerialInv, OutcomeInv, WorkerTells, Unmoved
  <2> QED BY <1>5, <1>6, <2>1 DEF WorkerChecking, WorkerDownloading, WorkerValidating,
       WorkerBuilding, WorkerActivating, BuildLabels
<1>7. CASE WorkerReport \/ WorkerActivated \/ WorkerFailed \/ WorkerCancelled
  <2>1. job \in JobRecords
    BY <1>7 DEF WorkerReport, WorkerActivated, WorkerFailed, WorkerCancelled, Finish,
       SerialInv, TypeInv, JobPresent
  <2>2. PICK new : /\ UpdateJob(new) /\ new.id = job.id
                   /\ new.state \in {"done", "failed", "cancelled"}
    <3>1. \A state \in {"done", "failed", "cancelled"}, activated \in BOOLEAN :
              /\ [job EXCEPT !.state = state, !.stage = "done", !.activated = activated].id = job.id
              /\ [job EXCEPT !.state = state, !.stage = "done", !.activated = activated].state = state
              /\ [job EXCEPT !.state = state, !.stage = "done"].id = job.id
              /\ [job EXCEPT !.state = state, !.stage = "done"].state = state
      BY <2>1 DEF JobRecords
    <3>2. CASE WorkerReport \/ WorkerActivated
      BY <3>1, <3>2 DEF WorkerReport, WorkerActivated, Finish
    <3>3. CASE WorkerFailed
      BY <3>1, <3>3 DEF WorkerFailed, Failed
    <3>4. CASE WorkerCancelled
      BY <3>1, <3>4 DEF WorkerCancelled
    <3> QED BY <1>7, <3>2, <3>3, <3>4
  <2>3. /\ pc' = [pc EXCEPT ![Worker] = "exit"] /\ pc[Worker] \notin {"off", "spawned"}
        /\ UNCHANGED <<pointer, installed, intact, snap, mark, cand, changedBy>>
    BY <1>7 DEF WorkerReport, WorkerActivated, WorkerFailed, WorkerCancelled, Finish, bookVars
  <2>4. "exit" \in WorkerLabels \ {"swap", "mark"} /\ "exit" \notin BuildLabels
    BY DEF WorkerLabels, BuildLabels
  <2>5. ~Live(new)
    BY <2>2 DEF Live
  <2> QED BY <2>2, <2>3, <2>4, <2>5, WorkerUpdates
<1>8. CASE WorkerLock \/ WorkerRaises \/ WorkerConflicts \/ WorkerQuarantines \/ WorkerRepoint
  <2>1. /\ \E l \in {"starting", "conflict", "failing", "sync"} : pc' = [pc EXCEPT ![Worker] = l]
        /\ pc[Worker] # "off"
        /\ UNCHANGED <<pointer, saved, job, snap, changedBy>>
    BY <1>8 DEF WorkerLock, WorkerRaises, WorkerConflicts, WorkerQuarantines, WorkerRepoint,
                diskVars, bookVars
  <2>2. {"starting", "conflict", "failing", "sync"} \subseteq WorkerLabels
    BY DEF WorkerLabels
  <2> QED BY <2>1, <2>2, WorkerPasses DEF BuildLabels
<1>9. ASSUME NEW g \in Gens, WorkerDecide(g) PROVE FileFits' /\ MarkerFits'
  <2>1. /\ pc' = [pc EXCEPT ![Worker] = "changed"] /\ pc[Worker] # "off"
        /\ cand'[Worker] = g /\ g # Served
        /\ UNCHANGED <<pointer, installed, intact, saved, job, snap, changedBy>>
    BY <1>9 DEF WorkerDecide, diskVars, bookVars, SerialInv, TypeInv, TypeOK, Threads
  <2>2. g = pointer.active => g \in installed \ intact
    BY <2>1, NoGenAssumption DEF Served, SerialInv, BoundaryInv, RollbackBoundary
  <2>3. "changed" \in WorkerLabels
    BY DEF WorkerLabels
  <2> QED BY <2>1, <2>2, <2>3, WorkerPasses
<1>10. CASE WorkerInstall
  <2>1. /\ pc' = [pc EXCEPT ![Worker] = "mark"] /\ pc[Worker] = "activating"
        /\ cand[Worker] \in installed => cand[Worker] \in intact
        /\ mark'[Worker].target = cand[Worker]
        /\ UNCHANGED <<pointer, saved, job, snap, changedBy>>
    BY <1>10 DEF WorkerInstall, SerialInv, TypeInv, TypeOK, Threads
  <2>2. cand[Worker] # pointer.active
    BY <2>1 DEF SerialInv, MarkerFits, BuildLabels
  <2>3. "mark" \in WorkerLabels
    BY DEF WorkerLabels, MoverLabels
  <2> QED BY <2>1, <2>2, <2>3, WorkerPasses DEF BuildLabels
<1>11. CASE WorkerExit
  <2>1. /\ pc[Worker] = "exit" /\ pc' = [pc EXCEPT ![Worker] = "off"]
        /\ UNCHANGED <<pointer, installed, intact, saved, job, snap, mark, cand, changedBy>>
    BY <1>11 DEF WorkerExit, diskVars, bookVars
  <2>2. /\ pc'[Worker] = "off"
        /\ \A t \in Threads : t # Worker => pc'[t] = pc[t]
    BY <2>1 DEF SerialInv, TypeInv, TypeOK, Threads
  <2>3. FileFits'
    BY <2>1, <2>2, ThreadsAssumption DEF SerialInv, FileFits, Live, Threads
  <2>4. MarkerFits'
    BY <2>1, <2>2 DEF SerialInv, MarkerFits, MarkerTargetsActive, BuildLabels
  <2> QED BY <2>3, <2>4
<1>12. CASE WorkerStep
  <2>1. CASE MovePointer(Worker)
    BY <1>1, <2>1, MovesKeep DEF Threads
  <2> QED BY <1>1, <1>6, <1>7, <1>8, <1>9, <1>10, <1>11, <1>12, <2>1
          DEF WorkerStep, WorkerFailureUnsaved, WorkerRefails, WorkerRefailSave,
              WorkerFailureLost, WorkerDies, SerialInv, Alone
<1>13. ASSUME NEW c \in Clients, Request(c) PROVE FileFits' /\ MarkerFits'
  <2>1. snap \in [Threads -> StateFiles] /\ mark \in [Threads -> Markers] /\ c \in Threads
        /\ c # Worker
    BY ThreadsAssumption DEF SerialInv, TypeInv, TypeOK, Threads
  <2>2. CASE \E mode \in Modes : Start(c, mode)
    <3>1. /\ pc' = [pc EXCEPT ![c] = "startSave"] /\ pc[Worker] = "off"
          /\ snap' = [snap EXCEPT ![c] = saved]
          /\ UNCHANGED <<pointer, installed, intact, saved, mark, cand, changedBy>>
      BY <2>2 DEF Start, diskVars
    <3>2. /\ snap'[c] = saved /\ cand'[Worker] = cand[Worker]
          /\ \A d \in Clients : d # c => snap'[d] = snap[d]
          /\ \A t \in Threads : t # c => mark'[t] = mark[t]
      BY <2>1, <3>1
    <3>3. "startSave" \in ClientLabels \ {"swap"}
      BY DEF ClientLabels
    <3> QED BY <3>1, <3>2, <3>3, ClientPasses
  <2>3. CASE Cancel(c)
    <3>1. /\ pc' = [pc EXCEPT ![c] = "cancelSave"]
          /\ snap' = [snap EXCEPT ![c] = saved]
          /\ UNCHANGED <<pointer, installed, intact, saved, job, mark, cand, changedBy>>
      BY <2>3 DEF Cancel, diskVars, bookVars
    <3>2. \A d \in Clients : pc[d] = "idle"
      BY <1>1, <2>3 DEF Cancel, MayBegin
    <3>3. /\ pc'[c] = "cancelSave" /\ snap'[c] = saved
          /\ \A t \in Threads : t # c => pc'[t] = pc[t]
      BY <2>1, <3>1 DEF SerialInv, TypeInv, TypeOK
    <3>4. FileFits'
      BY <2>1, <3>1, <3>2, <3>3 DEF SerialInv, FileFits, Live, Threads
    <3>5. MarkerFits'
      BY <2>1, <3>1, <3>3 DEF SerialInv, MarkerFits, MarkerTargetsActive, Threads
    <3> QED BY <3>4, <3>5
  <2>4. CASE RollbackEnter(c)
    <3>1. /\ pc' = [pc EXCEPT ![c] = "mark"] /\ pc[Worker] = "off"
          /\ mark'[c].target = pointer.previous
          /\ pointer.previous # NoGen
          /\ \A t \in Threads : t # c => mark'[t] = mark[t]
          /\ UNCHANGED <<pointer, installed, intact, saved, job, snap, cand, changedBy>>
      BY <1>1, <2>1, <2>4 DEF RollbackEnter, diskVars
    <3>2. pointer.previous # pointer.active
      BY <3>1 DEF SerialInv, BoundaryInv, RollbackBoundary
    <3> QED BY <2>1, <3>1, <3>2, ClientPasses DEF ClientLabels, MoverLabels
  <2> QED BY <1>13, <2>2, <2>3, <2>4 DEF Request
<1>14. ASSUME NEW c \in Clients, StartSave(c) PROVE FileFits' /\ MarkerFits'
  <2>1. /\ saved' = [snap[c] EXCEPT !.job = job] /\ pc[c] = "startSave"
        /\ pc' = [pc EXCEPT ![c] = "idle", ![Worker] = "spawned"]
        /\ UNCHANGED <<pointer, installed, intact, job, snap, mark, cand, changedBy>>
    BY <1>14 DEF StartSave, bookVars
  <2>2. snap[c] = saved /\ saved \in StateFiles
    BY <2>1 DEF SerialInv, FileFits, TypeInv, TypeOK
  <2>3. saved'.job = job /\ saved'.marker = saved.marker
    BY <2>1, <2>2 DEF StateFiles
  <2>4. /\ pc'[Worker] = "spawned" /\ pc'[c] = "idle"
        /\ \A d \in Clients : d # c => pc'[d] = pc[d] /\ pc[d] = "idle"
    BY <2>1, ThreadsAssumption DEF SerialInv, Alone, TypeInv, TypeOK, Threads
  <2>5. FileFits'
    <3>1. \A d \in Clients : pc'[d] = "idle"
      BY <2>4
    <3>2. saved'.job = job' /\ job' = job /\ changedBy' = changedBy
      BY <2>1, <2>3
    <3>3. Live(saved'.job) /\ saved'.job.stage # "activating" => saved'.job.id \notin changedBy'
      BY <1>2, <3>2
    <3> QED BY <3>1, <3>2, <3>3 DEF FileFits
  <2>6. MarkerFits'
    BY <2>1, <2>3, <2>4 DEF SerialInv, MarkerFits, MarkerTargetsActive, BuildLabels, Threads
  <2> QED BY <2>5, <2>6
<1>15. ASSUME NEW c \in Clients, CancelSave(c) PROVE FileFits' /\ MarkerFits'
  <2>1. /\ saved' = [snap[c] EXCEPT !.job = job] /\ pc[c] = "cancelSave" /\ stateLock = Nobody
        /\ pc' = [pc EXCEPT ![c] = "idle"]
        /\ UNCHANGED <<pointer, installed, intact, job, snap, mark, cand, changedBy>>
    BY <1>15 DEF CancelSave, bookVars
  <2>2. pc[Worker] \in {"off", "spawned"}
    BY <2>1, ThreadsAssumption DEF SerialInv, Alone
  <2>3. snap[c] = saved /\ saved \in StateFiles
    BY <2>1, <2>2 DEF SerialInv, FileFits, TypeInv, TypeOK
  <2>4. saved'.job = job /\ saved'.marker = saved.marker
    BY <2>1, <2>3 DEF StateFiles
  <2>5. /\ pc'[Worker] = pc[Worker] /\ pc'[c] = "idle"
        /\ \A d \in Clients : d # c => pc'[d] = pc[d] /\ pc[d] = "idle"
    BY <2>1, ThreadsAssumption DEF SerialInv, Alone, TypeInv, TypeOK, Threads
  <2>6. FileFits'
    BY <1>2, <2>1, <2>4, <2>5 DEF FileFits, Live
  <2>7. MarkerFits'
    BY <2>1, <2>2, <2>4, <2>5 DEF SerialInv, MarkerFits, MarkerTargetsActive, BuildLabels, Threads
  <2> QED BY <2>6, <2>7
<1>16. ASSUME NEW c \in Clients,
              \/ RollbackReverifyFails(c) \/ RollbackReload(c) \/ RollbackResave(c)
              \/ RollbackResolve(c) \/ RollbackRepoint(c)
       PROVE  FileFits' /\ MarkerFits'
  <2>1. /\ pc[c] \notin {"idle", "cancelSave"} /\ c \in Threads /\ c # Worker
        /\ snap \in [Threads -> StateFiles] /\ cand \in [Threads -> Gens \cup {NoGen}]
    BY <1>16, ThreadsAssumption DEF RollbackReverifyFails, RollbackReload, RollbackResave,
       RollbackResolve, RollbackRepoint, SerialInv, TypeInv, TypeOK, Threads
  <2>2. pc[Worker] = "off"
    BY <2>1 DEF SerialInv, Alone
  <2>3. saved' = saved
    BY <1>16 DEF RollbackReverifyFails, RollbackReload, RollbackResave, RollbackResolve,
       RollbackRepoint, diskVars, SerialInv, FileFits
  <2>4. /\ \E l \in {"idle", "resave", "resolve", "repoint"} :
               /\ pc' = [pc EXCEPT ![c] = l]
               /\ l = "resave" => snap'[c] = saved
        /\ \A d \in Clients : d # c => snap'[d] = snap[d]
        /\ cand'[Worker] = cand[Worker]
        /\ UNCHANGED <<pointer, installed, intact, job, mark, changedBy>>
    BY <1>16, <2>1 DEF RollbackReverifyFails, RollbackReload, RollbackResave, RollbackResolve,
       RollbackRepoint, Raise, diskVars, bookVars, Threads
  <2> QED BY <2>2, <2>3, <2>4, ClientPasses DEF ClientLabels
<1>17. ASSUME NEW c \in Clients, Serve(c) PROVE FileFits' /\ MarkerFits'
  BY <1>1, <1>14, <1>15, <1>16, <1>17, MovesKeep
     DEF Serve, StartSaveFails, CancelSaveFails, RollbackResaveFails, Threads
<1>18. CASE \E g \in Gens : Damage(g)
  <2>1. /\ intact' \subseteq intact
        /\ UNCHANGED <<pointer, installed, saved, job, pc, snap, mark, cand, changedBy>>
    BY <1>18 DEF Damage, memVars, bookVars
  <2> QED BY <2>1 DEF SerialInv, FileFits, MarkerFits, MarkerTargetsActive, Live
<1>19. CASE Crash
  <2>1. /\ \A t \in Threads : pc'[t] \in {"off", "idle"}
        /\ pc'[Worker] = "off"
        /\ UNCHANGED <<pointer, saved, changedBy>>
    BY <1>19 DEF Crash, diskVars, Threads
  <2>2. FileFits'
    BY <2>1, <1>19 DEF SerialInv, FileFits, Live, Threads
  <2>3. MarkerFits'
    BY <2>1 DEF SerialInv, MarkerFits, MarkerTargetsActive, BuildLabels
  <2> QED BY <2>2, <2>3
<1>20. CASE UNCHANGED vars
  <2>1. UNCHANGED <<pointer, installed, intact, saved, job, pc, snap, mark, cand, changedBy>>
    BY <1>20 DEF vars, diskVars, memVars, bookVars
  <2> QED BY <2>1 DEF SerialInv, FileFits, MarkerFits, MarkerTargetsActive, Live
<1> QED BY <1>12, <1>13, <1>17, <1>18, <1>19, <1>20 DEF Next

(***************************************************************************)
(* Which generation is read.  Until a change of the pointer is followed by *)
(* its repoint, the index lies where the pointer resolves to, or in a      *)
(* generation damaged since.                                               *)
(***************************************************************************)
Right == {Served} \cup (installed \ intact)

Settled ==
    /\ pc[Worker] \notin {"receipt", "settle", "repoint"}
    /\ \A c \in Clients :
          pc[c] \notin {"receipt", "settle", "reload", "resave", "resolve", "repoint"}

\* A rollback may stop after its swap if its target was damaged meanwhile, so where the
\* index lies is known there too.
IndexFits ==
    /\ Settled => index \in Right
    /\ \A c \in Clients : pc[c] \in {"mark", "swap"} => mark[c].target = pointer.previous
    /\ \A c \in Clients : pc[c] = "receipt" =>
          /\ mark[c].target = pointer.active
          /\ index \in {pointer.active, pointer.previous} \cup (installed \ intact)
    /\ \A c \in Clients : pc[c] = "repoint" => cand[c] \in Right

\* Bytes only rot: a generation that is installed does not become intact again.
LEMMA DamageStays == ASSUME [Next]_vars PROVE intact' \cap installed \subseteq intact
<1> USE DEF diskVars, memVars, bookVars, Goto
<1>1. ASSUME NEW t \in Threads, MovePointer(t) PROVE UNCHANGED intact
  BY <1>1 DEF MovePointer, MarkPending, Swap, SwapRefused, SwapFails, AppendReceipt,
              SettleMarker, MarkerWriteFails, Raise, WriteFails
<1>2. CASE WorkerInstall
  BY <1>2 DEF WorkerInstall
<1>3. CASE WorkerStep
  BY <1>1, <1>2, <1>3 DEF WorkerStep, WorkerLock, WorkerChecking, WorkerReport, WorkerDecide,
     WorkerDownloading, WorkerValidating, WorkerBuilding, WorkerActivating,
     WorkerRepoint, WorkerActivated, WorkerRaises, WorkerConflicts, WorkerQuarantines,
     WorkerDies, WorkerFailed, WorkerFailureUnsaved,
     WorkerRefails, WorkerRefailSave, WorkerFailureLost, WorkerCancelled, WorkerExit,
     EnterStage, Finish, WriteFails, Threads
<1>4. ASSUME NEW c \in Clients, Request(c) PROVE UNCHANGED intact
  BY <1>4 DEF Request, Start, Cancel, RollbackEnter
<1>5. ASSUME NEW c \in Clients, Serve(c) PROVE UNCHANGED intact
  BY <1>1, <1>5 DEF Serve, StartSave, CancelSave, RollbackReverifyFails, RollbackReload,
     RollbackResave, RollbackResaveFails, RollbackResolve, RollbackRepoint,
     StartSaveFails, CancelSaveFails, WriteFails, Threads
<1>6. CASE (\E g \in Gens : Damage(g)) \/ Crash \/ UNCHANGED vars
  BY <1>6 DEF Damage, Crash, vars
<1> QED BY <1>3, <1>4, <1>5, <1>6 DEF Next

\* While the pointer stays, what was right to read stays right.
LEMMA RightStays ==
    ASSUME TypeInv, BoundaryInv, TypeInv', [Next]_vars, pointer' = pointer
    PROVE  Right \subseteq Right' /\ installed \ intact \subseteq installed' \ intact'
<1>1. installed \subseteq installed' /\ intact' \cap installed \subseteq intact
  BY GenerationsStay, DamageStays
<1>2. intact \subseteq installed /\ intact' \subseteq installed' /\ NoGen \notin installed'
  BY NoGenAssumption DEF TypeInv, TypeOK
<1>3. /\ pointer.active \in installed \/ pointer.active = NoGen
      /\ pointer.previous \in installed \/ pointer.previous = NoGen
  BY DEF BoundaryInv, RollbackBoundary
<1>4. installed \ intact \subseteq installed' \ intact'
  BY <1>1
<1>5. Served \in Right'
  <2>1. CASE pointer.active \in intact
    BY <1>1, <1>2, <2>1 DEF Served, Right
  <2>2. CASE pointer.active \notin intact /\ pointer.previous \in intact
    BY <1>1, <1>2, <1>3, <2>2 DEF Served, Right
  <2>3. CASE pointer.active \notin intact /\ pointer.previous \notin intact
    BY <1>1, <1>2, <1>3, <2>3 DEF Served, Right
  <2> QED BY <2>1, <2>2, <2>3
<1> QED BY <1>4, <1>5 DEF Right

\* A step that neither moves the pointer nor ends a rollback.
LEMMA FollowPasses ==
    ASSUME TypeInv, BoundaryInv, TypeInv', IndexFits, [Next]_vars,
           pointer' = pointer, index' = index, Settled' => Settled,
           \A c \in Clients : pc'[c] \in {"receipt", "repoint"} =>
               pc[c] = pc'[c] /\ mark'[c] = mark[c] /\ cand'[c] = cand[c],
           \A c \in Clients : pc'[c] \in {"mark", "swap"} =>
               pc[c] \in {"mark", "swap"} /\ mark'[c] = mark[c]
    PROVE  IndexFits'
<1>1. Right \subseteq Right' /\ installed \ intact \subseteq installed' \ intact'
  BY RightStays
<1> QED BY <1>1 DEF IndexFits

\* Each step of the worker and of a rollback keeps the index where it belongs.
LEMMA FollowStep ==
    ASSUME Serial, SerialInv, IndexFits, TypeInv', [Next]_vars
    PROVE  IndexFits'
<1> USE ThreadsAssumption DEF At, Goto, Threads
<1>1. /\ ~WriteFails /\ ~Overlap /\ MaxFaults = 0
      /\ pc \in [Threads -> WorkerLabels \cup ClientLabels]
      /\ TypeInv /\ BoundaryInv /\ Alone /\ MarkerFits
  BY NoWriteFails DEF Serial, SerialInv, TypeInv, TypeOK
<1>2. CASE \/ WorkerLock \/ WorkerChecking \/ WorkerReport
           \/ \E g \in Gens : WorkerDecide(g)
           \/ WorkerDownloading \/ WorkerValidating \/ WorkerBuilding \/ WorkerActivating
           \/ WorkerInstall \/ WorkerActivated
           \/ WorkerRaises \/ WorkerConflicts \/ WorkerQuarantines \/ WorkerDies
           \/ WorkerFailed \/ WorkerCancelled \/ WorkerExit
  <2>1. /\ pointer' = pointer /\ index' = index
        /\ pc[Worker] \notin {"off", "receipt", "settle", "repoint"}
        /\ \E l \in WorkerLabels : pc' = [pc EXCEPT ![Worker] = l]
    BY <1>2 DEF WorkerLock, WorkerChecking, WorkerReport, WorkerDecide, WorkerDownloading,
        WorkerValidating, WorkerBuilding, WorkerActivating, WorkerInstall, WorkerActivated,
        WorkerRaises, WorkerConflicts, WorkerQuarantines, WorkerDies,
        WorkerFailed, WorkerCancelled, WorkerExit, EnterStage, Finish,
        WorkerLabels, MoverLabels, Stages, diskVars
  <2>2. \A c \in Clients : pc'[c] = pc[c] /\ pc[c] \in {"idle", "cancelSave"}
    BY <1>1, <2>1 DEF Alone
  <2> QED BY <1>1, <2>1, <2>2, FollowPasses DEF Settled
<1>3. CASE WorkerRepoint
  <2>1. /\ index' = Served /\ Served' = Served /\ pc[Worker] = "repoint"
        /\ pc' = [pc EXCEPT ![Worker] = "sync"]
    BY <1>3 DEF WorkerRepoint, diskVars, Served
  <2>2. \A c \in Clients : pc'[c] \in {"idle", "cancelSave"}
    BY <1>1, <2>1 DEF Alone
  <2> QED BY <2>1, <2>2 DEF IndexFits, Right
<1>4. ASSUME NEW t \in Threads, MovePointer(t) PROVE IndexFits'
  <2>1. pc[t] \in MoverLabels
    BY <1>1, <1>4 DEF MovePointer, MarkPending, Swap, SwapRefused, SwapFails, AppendReceipt,
                      SettleMarker, MarkerWriteFails, MoverLabels
  <2>2. \A c \in Clients : c # t => pc[c] \in {"idle", "cancelSave"}
    BY <1>1, <2>1, MoverAlone DEF SerialInv
  <2>3. CASE MarkPending(t) \/ SwapRefused(t)
    <3>1. /\ pointer' = pointer /\ index' = index /\ mark' = mark
          /\ pc[t] \in {"mark", "swap"}
          /\ \E l \in {"swap", "failing", "idle"} : pc' = [pc EXCEPT ![t] = l]
      BY <2>3 DEF MarkPending, SwapRefused, Raise
    <3>2. Settled
      BY <1>1, <2>1, <2>2, <3>1, MoverAlone DEF Settled, SerialInv
    <3> QED BY <1>1, <2>2, <3>1, <3>2, FollowPasses
  <2>4. CASE SettleMarker(t) \/ \E lands, fails \in BOOLEAN : AppendReceipt(t, lands, fails)
    <3>1. /\ pointer' = pointer /\ index' = index
          /\ \E l \in {"settle", "repoint", "reload"} :
                pc' = [pc EXCEPT ![t] = l] /\ (l # "settle" => (l = "repoint" <=> t = Worker))
      BY <2>4 DEF SettleMarker, AppendReceipt
    <3>2. ~Settled'
      BY <1>1, <3>1 DEF Settled
    <3>3. \A c \in Clients : pc'[c] \notin {"mark", "swap", "receipt", "repoint"}
      BY <1>1, <2>2, <3>1
    <3> QED BY <1>1, <3>1, <3>2, <3>3, FollowPasses
  <2>5. CASE Swap(t)
    <3>1. /\ index' = index /\ UNCHANGED <<installed, intact, mark>>
          /\ mark[t].target \in intact /\ pc[t] = "swap"
          /\ pc' = [pc EXCEPT ![t] = "receipt"]
          /\ pointer'.active = mark[t].target
          /\ pointer'.previous = IF pointer.active \notin {NoGen, mark[t].target}
                                 THEN pointer.active ELSE pointer.previous
      BY <2>5 DEF Swap, Repointed
    <3>2. ~Settled' /\ \A c \in Clients : c # t => pc'[c] \in {"idle", "cancelSave"}
      BY <1>1, <2>2, <3>1 DEF Settled
    <3>3. CASE t = Worker
      BY <3>2, <3>3 DEF IndexFits
    <3>4. CASE t # Worker
      <4>1. Settled
        BY <1>1, <2>1, <2>2, <3>1, <3>4, MoverAlone DEF Settled, SerialInv
      <4>2. /\ mark[t].target = pointer.previous /\ mark[t].target # pointer.active
            /\ mark[t].target # NoGen
        BY <1>1, <2>1, <3>1, <3>4, NoGenAssumption
           DEF IndexFits, MarkerFits, TypeInv, TypeOK
      <4>3. index \in {pointer.active, pointer.previous} \cup (installed \ intact)
        BY <3>1, <4>1, <4>2 DEF IndexFits, Right, Served
      <4>4. pointer'.previous = pointer.active
        BY <1>1, <3>1, <4>2 DEF BoundaryInv
      <4>5. /\ pc'[t] = "receipt" /\ mark'[t].target = pointer'.active
            /\ index' \in {pointer'.active, pointer'.previous} \cup (installed' \ intact')
        BY <1>1, <3>1, <4>2, <4>3, <4>4
      <4>6. \A c \in Clients : pc'[c] \in {"mark", "swap", "receipt", "repoint"} =>
                               c = t /\ pc'[c] = "receipt"
        BY <3>2, <4>5
      <4> QED BY <3>2, <4>5, <4>6 DEF IndexFits
    <3> QED BY <3>3, <3>4
  <2> QED BY <1>1, <1>4, <2>3, <2>4, <2>5 DEF MovePointer, SwapFails, MarkerWriteFails
<1>5. ASSUME NEW c \in Clients, Request(c) PROVE IndexFits'
  <2>1. /\ pointer' = pointer /\ index' = index /\ UNCHANGED cand
        /\ \E l \in {"startSave", "cancelSave", "mark"} :
              /\ pc' = [pc EXCEPT ![c] = l]
              /\ l = "mark" => mark' = [mark EXCEPT ![c] = mark'[c]]
                               /\ mark'[c].target = pointer.previous
              /\ l # "mark" => mark' = mark
    BY <1>1, <1>5 DEF Request, Start, Cancel, RollbackEnter, diskVars, TypeInv, TypeOK
  <2>2. \A d \in Clients : pc[d] = "idle"
    BY <1>1, <1>5 DEF Request, Start, Cancel, RollbackEnter, MayBegin
  <2>3. /\ \A d \in Clients : d # c => pc'[d] = "idle"
        /\ pc'[c] \in {"startSave", "cancelSave", "mark"}
        /\ pc'[c] = "mark" => mark'[c].target = pointer'.previous
        /\ pc'[Worker] = pc[Worker]
    BY <1>1, <2>1, <2>2
  <2>4. Settled' => index \in Right
    BY <2>2, <2>3 DEF Settled, IndexFits
  <2>5. Right \subseteq Right'
    BY <1>1, <2>1, RightStays
  <2> QED BY <2>1, <2>3, <2>4, <2>5 DEF IndexFits
<1>6. ASSUME NEW c \in Clients, StartSave(c) \/ CancelSave(c) PROVE IndexFits'
  <2>1. /\ UNCHANGED <<pointer, index, mark, cand>> /\ pc[c] \in {"startSave", "cancelSave"}
        /\ \/ pc' = [pc EXCEPT ![c] = "idle"]
           \/ pc' = [pc EXCEPT ![c] = "idle", ![Worker] = "spawned"] /\ pc[c] = "startSave"
    BY <1>6 DEF StartSave, CancelSave
  <2>2. /\ \A d \in Clients : pc[d] \in {"idle", "startSave", "cancelSave"}
        /\ pc[c] = "startSave" => pc[Worker] = "off"
    BY <1>1, <2>1 DEF Alone
  <2>3. /\ \A d \in Clients : pc'[d] \in {"idle", "startSave", "cancelSave"}
        /\ pc'[Worker] = pc[Worker] \/ pc[Worker] = "off"
    BY <1>1, <2>1, <2>2
  <2> QED BY <1>1, <2>1, <2>2, <2>3, FollowPasses DEF Settled
<1>7. ASSUME NEW c \in Clients,
             \/ RollbackReverifyFails(c) \/ RollbackReload(c) \/ RollbackResave(c)
             \/ RollbackResolve(c) \/ RollbackRepoint(c)
      PROVE  IndexFits'
  <2>1. pc[c] \notin {"idle", "cancelSave"}
    BY <1>7 DEF RollbackReverifyFails, RollbackReload, RollbackResave, RollbackResolve,
                RollbackRepoint
  <2>2. \A d \in Clients : d # c => pc[d] = "idle"
    BY <1>1, <2>1 DEF Alone
  <2>3. pointer' = pointer /\ installed' = installed /\ intact' = intact /\ Right' = Right
    BY <1>7 DEF RollbackReverifyFails, RollbackReload, RollbackResave, RollbackResolve,
                RollbackRepoint, diskVars, Right, Served
  <2>4. CASE RollbackReverifyFails(c)
    <3>1. /\ pc[c] = "receipt" /\ mark[c].target \notin intact /\ index' = index
          /\ pc' = [pc EXCEPT ![c] = "idle"]
      BY <2>4 DEF RollbackReverifyFails, Raise
    <3>2. pointer.active \notin intact
          /\ index \in {pointer.active, pointer.previous} \cup (installed \ intact)
      BY <3>1 DEF IndexFits
    <3>3. index \in Right
      BY <1>1, <3>2 DEF Right, Served, BoundaryInv, RollbackBoundary
    <3>4. \A d \in Clients : pc'[d] = "idle"
      BY <1>1, <2>2, <3>1
    <3> QED BY <2>3, <3>1, <3>3, <3>4 DEF IndexFits
  <2>5. CASE RollbackReload(c) \/ RollbackResave(c)
    <3>1. /\ index' = index
          /\ pc' = [pc EXCEPT ![c] = "resave"] \/ pc' = [pc EXCEPT ![c] = "resolve"]
      BY <2>5 DEF RollbackReload, RollbackResave
    <3>2. ~Settled' /\ \A d \in Clients : pc'[d] \in {"idle", "resave", "resolve"}
      BY <1>1, <2>2, <3>1 DEF Settled
    <3> QED BY <3>2 DEF IndexFits
  <2>6. CASE RollbackResolve(c)
    <3>1. /\ cand' = [cand EXCEPT ![c] = Served] /\ cand \in [Threads -> Gens \cup {NoGen}]
          /\ pc' = [pc EXCEPT ![c] = "repoint"]
      BY <2>6 DEF RollbackResolve, SerialInv, TypeInv, TypeOK
    <3>2. /\ ~Settled' /\ cand'[c] \in Right'
          /\ \A d \in Clients : pc'[d] = "idle" \/ (d = c /\ pc'[d] = "repoint")
      BY <1>1, <2>2, <2>3, <3>1 DEF Settled, Right
    <3> QED BY <3>2 DEF IndexFits
  <2>7. CASE RollbackRepoint(c)
    <3>1. /\ index' = cand[c] /\ pc[c] = "repoint" /\ pc' = [pc EXCEPT ![c] = "idle"]
      BY <2>7 DEF RollbackRepoint
    <3>2. \A d \in Clients : pc'[d] = "idle"
      BY <1>1, <2>2, <3>1
    <3> QED BY <2>3, <3>1, <3>2 DEF IndexFits
  <2> QED BY <1>7, <2>4, <2>5, <2>6, <2>7
<1>8. CASE WorkerStep
  BY <1>1, <1>2, <1>3, <1>4, <1>8
     DEF WorkerStep, WorkerFailureUnsaved, WorkerRefails, WorkerRefailSave,
         WorkerFailureLost, Alone
<1>9. ASSUME NEW c \in Clients, Serve(c) PROVE IndexFits'
  BY <1>1, <1>4, <1>6, <1>7, <1>9
     DEF Serve, StartSaveFails, CancelSaveFails, RollbackResaveFails
<1>10. CASE (\E g \in Gens : Damage(g)) \/ UNCHANGED vars
  <2>1. UNCHANGED <<pointer, index, pc, mark, cand>>
    BY <1>10 DEF Damage, vars, diskVars, memVars
  <2> QED BY <1>1, <2>1, FollowPasses DEF Settled
<1>11. CASE Crash
  <2>1. /\ index' = Served /\ Served' = Served
        /\ \A c \in Clients : pc'[c] = "idle"
    BY <1>11 DEF Crash, diskVars, Served
  <2> QED BY <2>1 DEF IndexFits, Right
<1> QED BY <1>5, <1>8, <1>9, <1>10, <1>11 DEF Next

(***************************************************************************)
(* The theorems.                                                           *)
(***************************************************************************)
SerialStart == BoundaryInv /\ Alone /\ FileFits /\ MarkerFits /\ IndexFits

\* Initially nothing runs and nothing was done.
LEMMA SerialInit == Init => SerialStart
<1> SUFFICES ASSUME Init PROVE SerialStart
  OBVIOUS
<1>1. \A t \in Threads : pc[t] = IF t = Worker THEN "off" ELSE "idle"
  BY DEF Init
<1>2. pc[Worker] = "off" /\ \A c \in Clients : pc[c] = "idle"
  BY <1>1, ThreadsAssumption DEF Threads
<1>3. Served = NoGen /\ index = NoGen /\ saved.job = NoJob /\ saved.marker = NoMarker
  BY DEF Init, Served
<1>4. Alone /\ FileFits
  BY <1>2, <1>3 DEF Alone, FileFits, Live, NoJob
<1>5. MarkerFits /\ IndexFits
  BY <1>1, <1>2, <1>3 DEF MarkerFits, MarkerTargetsActive, BuildLabels, IndexFits, Right
<1>6. BoundaryInv
  BY DEF Init, BoundaryInv, RollbackBoundary
<1> QED BY <1>4, <1>5, <1>6 DEF SerialStart

\* All of it is preserved together.
LEMMA SerialStep ==
    Serial /\ SerialInv /\ IndexFits /\ [Next]_vars => (SerialInv /\ IndexFits)'
<1> SUFFICES ASSUME Serial, SerialInv, IndexFits, [Next]_vars PROVE (SerialInv /\ IndexFits)'
  OBVIOUS
<1>1. TypeInv' /\ BoundaryInv' /\ OutcomeInv'
  BY TypeStep, BoundaryStep, OutcomeStep DEF SerialInv
<1>2. Alone'
  BY AloneStep DEF SerialInv
<1>3. FileFits' /\ MarkerFits'
  BY FileStep
<1>4. IndexFits'
  BY <1>1, FollowStep
<1> QED BY <1>1, <1>2, <1>3, <1>4 DEF SerialInv

\* Without overlapping requests and failing writes, what the owner is told after a
\* restart is true: a receipt is reported missing only for the change the pointer
\* shows, and a job reported as interrupted without effect moved no pointer.
THEOREM ReportsAreHonest == Serial => (Spec => []HonestReports)
<1> SUFFICES ASSUME Serial PROVE Spec => []HonestReports
  OBVIOUS
<1>1. Init => SerialInv /\ IndexFits
  BY TypeInit, OutcomeInit, SerialInit DEF SerialInv, SerialStart
<1>2. SerialInv /\ IndexFits /\ [Next]_vars => (SerialInv /\ IndexFits)'
  BY SerialStep
<1>3. SerialInv => HonestReports
  BY DEF SerialInv, MarkerFits, FileFits, HonestReports, GapIsTrue, GapReported,
         HonestInterruption, SaysUnchanged, Interrupted
<1> QED BY <1>1, <1>2, <1>3, PTL DEF Spec

\* Without them, when nothing runs the app reads the generation the pointer resolves
\* to, or one damaged since it was opened, wherever a job or a rollback stopped.
THEOREM IndexFollows == Serial => (Spec => []IndexFollowsPointer)
<1> SUFFICES ASSUME Serial PROVE Spec => []IndexFollowsPointer
  OBVIOUS
<1>1. Init => SerialInv /\ IndexFits
  BY TypeInit, OutcomeInit, SerialInit DEF SerialInv, SerialStart
<1>2. SerialInv /\ IndexFits /\ [Next]_vars => (SerialInv /\ IndexFits)'
  BY SerialStep
<1>3. IndexFits => IndexFollowsPointer
  BY DEF IndexFits, IndexFollowsPointer, Quiet, Settled, Right, At
<1> QED BY <1>1, <1>2, <1>3, PTL DEF Spec

(***************************************************************************)
(* The refinement of GenerationStore.  A receipt is told by the time of    *)
(* the attempt it is for, so no two attempts have the same.                *)
(***************************************************************************)
StampsFit ==
    /\ pointer.stamp <= clock
    /\ \A r \in receipts : r.stamp <= clock
    /\ \A t \in Threads : pc[t] \in {"mark", "swap"} =>
          /\ mark[t].stamp \in 1..clock
          /\ \A r \in receipts : r.stamp # mark[t].stamp
    /\ \A t \in Threads : pc[t] \in {"receipt", "settle"} =>
          pointer.stamp # 0 /\ mark[t].stamp = pointer.stamp
    /\ \A t \in Threads : pc[t] = "receipt" => Account = "gap"
    /\ \A t \in Threads : pc[t] = "settle" => mark[t].error \/ Account = "receipted"

\* A step that is none of the change of a pointer: the files it is accounted with stay,
\* and who begins a change takes the next time.
Aside ==
    /\ UNCHANGED <<pointer, receipts>>
    /\ saved'.marker = saved.marker
    /\ clock' \in {clock, clock + 1}
    /\ \A t \in Threads : pc'[t] \in MoverLabels =>
          \/ pc'[t] = pc[t] /\ mark'[t] = mark[t]
          \/ /\ pc'[t] = "mark" /\ clock' = clock + 1 /\ mark'[t].stamp = clock'
             /\ \A u \in Threads : u # t => pc'[u] \notin MoverLabels
    /\ \/ intact' = intact
       \/ \E g \in Gens : intact' = intact \cup {g}
       \/ \E g \in Gens : g \in intact /\ intact' = intact \ {g}

\* A step of the change of a pointer.
Moves(t) ==
    \/ MarkPending(t) \/ Swap(t) \/ SwapRefused(t) \/ SettleMarker(t)
    \/ \E lands, fails \in BOOLEAN : AppendReceipt(t, lands, fails)

\* Every step is of one kind or of the other.
LEMMA MovesOrAside ==
    ASSUME Serial, SerialInv, [Next]_vars
    PROVE  Aside \/ \E t \in Threads : Moves(t)
<1> USE ThreadsAssumption DEF At, Goto, Threads
<1>1. /\ ~WriteFails /\ ~Overlap
      /\ pc \in [Threads -> WorkerLabels \cup ClientLabels]
      /\ mark \in [Threads -> Markers] /\ clock \in Nat
      /\ TypeInv /\ Alone /\ FileFits
  BY NoWriteFails DEF Serial, SerialInv, TypeInv, TypeOK
<1>2. ASSUME NEW t \in Threads, MovePointer(t) PROVE Moves(t)
  BY <1>1, <1>2 DEF MovePointer, Moves, SwapFails, MarkerWriteFails
<1>3. CASE \/ WorkerChecking \/ WorkerReport \/ WorkerDownloading \/ WorkerValidating
           \/ WorkerBuilding \/ WorkerActivating \/ WorkerActivated \/ WorkerFailed
           \/ WorkerCancelled
  <2>1. PICK new : UpdateJob(new)
    BY <1>3 DEF WorkerChecking, WorkerReport, WorkerDownloading, WorkerValidating,
        WorkerBuilding, WorkerActivating, WorkerActivated, WorkerFailed, WorkerCancelled,
        EnterStage, Finish
  <2>2. saved'.marker = saved.marker
    BY <1>1, <2>1, UpdateWrites
  <2>3. /\ UNCHANGED <<pointer, receipts, intact, mark, clock>>
        /\ \E l \in {"checking", "downloading", "validating", "building", "activating",
                     "exit"} : pc' = [pc EXCEPT ![Worker] = l]
    BY <1>3 DEF WorkerChecking, WorkerReport, WorkerDownloading, WorkerValidating,
        WorkerBuilding, WorkerActivating, WorkerActivated, WorkerFailed, WorkerCancelled,
        EnterStage, Finish, bookVars
  <2> QED BY <1>1, <2>2, <2>3 DEF Aside, MoverLabels
<1>4. CASE WorkerLock \/ WorkerRepoint \/ WorkerRaises \/ WorkerConflicts
           \/ WorkerQuarantines \/ WorkerDies \/ WorkerExit \/ \E g \in Gens : WorkerDecide(g)
  <2>1. /\ UNCHANGED <<pointer, receipts, saved, intact, mark, clock>>
        /\ \E l \in {"starting", "changed", "sync", "conflict", "failing", "exit", "off"} :
               pc' = [pc EXCEPT ![Worker] = l]
    BY <1>4 DEF WorkerLock, WorkerRepoint, WorkerRaises, WorkerConflicts, WorkerQuarantines,
                WorkerDies, WorkerExit, WorkerDecide,
                diskVars, bookVars
  <2> QED BY <1>1, <2>1 DEF Aside, MoverLabels
<1>5. CASE WorkerInstall
  <2>1. /\ UNCHANGED <<pointer, receipts, saved>> /\ clock' = clock + 1
        /\ intact' = intact \/ intact' = intact \cup {cand[Worker]}
        /\ pc' = [pc EXCEPT ![Worker] = "mark"] /\ pc[Worker] = "activating"
        /\ mark'[Worker].stamp = clock'
    BY <1>1, <1>5 DEF WorkerInstall
  <2>2. cand[Worker] \in Gens
    BY <1>1, <2>1 DEF TypeInv, CandidateNamed, BuildLabels
  <2>3. \A c \in Clients : pc'[c] \in {"idle", "cancelSave"}
    BY <1>1, <2>1 DEF Alone
  <2>4. pc'[Worker] = "mark"
    BY <1>1, <2>1
  <2> QED BY <2>1, <2>2, <2>3, <2>4 DEF Aside, MoverLabels
<1>6. CASE WorkerStep
  BY <1>1, <1>2, <1>3, <1>4, <1>5, <1>6
     DEF WorkerStep, WorkerFailureUnsaved, WorkerRefails, WorkerRefailSave,
         WorkerFailureLost, Alone
<1>7. ASSUME NEW c \in Clients, RollbackEnter(c) PROVE Aside
  <2>1. /\ UNCHANGED <<pointer, receipts, saved, intact>> /\ clock' = clock + 1
        /\ pc' = [pc EXCEPT ![c] = "mark"] /\ pc[Worker] = "off"
        /\ mark'[c].stamp = clock'
    BY <1>1, <1>7 DEF RollbackEnter, diskVars
  <2>2. \A u \in Threads : u # c => pc'[u] \in {"idle", "off"}
    BY <1>1, <1>7, <2>1 DEF RollbackEnter, MayBegin
  <2>3. pc'[c] = "mark"
    BY <1>1, <2>1
  <2> QED BY <2>1, <2>2, <2>3 DEF Aside, MoverLabels
<1>8. ASSUME NEW c \in Clients, Cancel(c) \/ \E mode \in Modes : Start(c, mode) PROVE Aside
  <2>1. /\ UNCHANGED <<pointer, receipts, saved, intact, mark, clock>>
        /\ \E l \in {"startSave", "cancelSave"} : pc' = [pc EXCEPT ![c] = l]
    BY <1>8 DEF Cancel, Start, diskVars, bookVars
  <2> QED BY <1>1, <2>1 DEF Aside, MoverLabels
<1>9. ASSUME NEW c \in Clients, StartSave(c) \/ CancelSave(c) PROVE Aside
  <2>1. /\ saved' = [snap[c] EXCEPT !.job = job] /\ pc[c] \in {"startSave", "cancelSave"}
        /\ UNCHANGED <<pointer, receipts, intact, mark, clock>>
        /\ \/ pc' = [pc EXCEPT ![c] = "idle", ![Worker] = "spawned"]
           \/ pc' = [pc EXCEPT ![c] = "idle"]
        /\ stateLock = Nobody
    BY <1>9 DEF StartSave, CancelSave, bookVars
  <2>2. snap[c] = saved /\ saved \in StateFiles
    BY <1>1, <2>1 DEF Alone, FileFits, TypeInv, TypeOK
  <2>3. saved'.marker = saved.marker
    BY <2>1, <2>2 DEF StateFiles
  <2> QED BY <1>1, <2>1, <2>3 DEF Aside, MoverLabels
<1>10. ASSUME NEW c \in Clients,
              \/ RollbackReverifyFails(c) \/ RollbackReload(c) \/ RollbackResave(c)
              \/ RollbackResolve(c) \/ RollbackRepoint(c)
       PROVE  Aside
  <2>1. /\ UNCHANGED <<pointer, receipts, saved, intact, mark, clock>>
        /\ \E l \in {"idle", "resave", "resolve", "repoint"} : pc' = [pc EXCEPT ![c] = l]
    BY <1>1, <1>10 DEF RollbackReverifyFails, RollbackReload, RollbackResave,
       RollbackResolve, RollbackRepoint, Raise, diskVars, bookVars, FileFits
  <2> QED BY <1>1, <2>1 DEF Aside, MoverLabels
<1>11. ASSUME NEW c \in Clients, Request(c) \/ Serve(c) PROVE Aside \/ Moves(c)
  BY <1>1, <1>2, <1>7, <1>8, <1>9, <1>10, <1>11
     DEF Request, Serve, StartSaveFails, CancelSaveFails, RollbackResaveFails
<1>12. ASSUME NEW g \in Gens, Damage(g) PROVE Aside
  BY <1>1, <1>12 DEF Damage, Aside, memVars, bookVars
<1>13. CASE Crash
  <2>1. /\ UNCHANGED <<pointer, receipts, saved, intact, clock>>
        /\ \A t \in Threads : pc'[t] \in {"off", "idle"}
    BY <1>13 DEF Crash, diskVars
  <2> QED BY <1>1, <2>1 DEF Aside, MoverLabels
<1>14. CASE UNCHANGED vars
  BY <1>1, <1>14 DEF vars, diskVars, memVars, bookVars, Aside
<1> QED BY <1>6, <1>11, <1>12, <1>13, <1>14 DEF Next

\* How a change is accounted for depends on the pointer, the marker and the receipts only.
LEMMA AccountStays ==
    ASSUME UNCHANGED <<pointer, receipts>>, saved'.marker = saved.marker
    PROVE  Account' = Account
BY DEF Account, GapReported, MarkerTargetsActive, Matches

\* Of those, the marker matters only while there is no receipt.
LEMMA AccountKept ==
    ASSUME UNCHANGED <<pointer, receipts>>, Account # "gap",
           MarkerTargetsActive' => MarkerTargetsActive /\ saved'.marker = saved.marker
    PROVE  Account' = Account
BY DEF Account, GapReported, MarkerTargetsActive, Matches

\* Steps beside a change are steps of the store that leave pointer and account alone.
LEMMA AsideIsStore ==
    ASSUME SerialInv, StampsFit, Aside
    PROVE  StampsFit' /\ (Store!Next \/ UNCHANGED Store!storeVars)
<1>1. Account' = Account
  BY AccountStays DEF Aside
<1>2. clock \in Nat /\ receipts \subseteq Receipts /\ pointer.stamp \in Nat
  BY DEF SerialInv, TypeInv, TypeOK, Pointers
<1>3. clock' \in Nat /\ clock <= clock' /\ \A r \in receipts : r.stamp \in Nat
  BY <1>2 DEF Aside, Receipts
<1>4. StampsFit'
  <2>1. pointer'.stamp <= clock' /\ \A r \in receipts' : r.stamp <= clock'
    BY <1>2, <1>3 DEF Aside, StampsFit
  <2>2. ASSUME NEW t \in Threads, pc'[t] \in {"mark", "swap"}
        PROVE  mark'[t].stamp \in 1..clock' /\ \A r \in receipts' : r.stamp # mark'[t].stamp
    <3>1. CASE pc'[t] = pc[t] /\ mark'[t] = mark[t]
      BY <1>2, <1>3, <2>2, <3>1 DEF Aside, StampsFit
    <3>2. CASE clock' = clock + 1 /\ mark'[t].stamp = clock'
      BY <1>2, <1>3, <3>2 DEF Aside, StampsFit
    <3> QED BY <2>2, <3>1, <3>2 DEF Aside, MoverLabels
  <2>3. ASSUME NEW t \in Threads, pc'[t] \in {"receipt", "settle"}
        PROVE  pc'[t] = pc[t] /\ mark'[t] = mark[t] /\ pointer' = pointer
    BY <2>3 DEF Aside, MoverLabels
  <2> QED BY <1>1, <2>1, <2>2, <2>3 DEF StampsFit
<1>5. Store!Next \/ UNCHANGED Store!storeVars
  BY <1>1 DEF Aside, Store!Next, Store!Install, Store!Damage, Store!storeVars
<1> QED BY <1>4, <1>5

\* The steps of a change are the store's: intend, change, receive, withdraw.
LEMMA MovesAreStore ==
    ASSUME SerialInv, StampsFit, NEW t \in Threads, Moves(t)
    PROVE  StampsFit' /\ (Store!Next \/ UNCHANGED Store!storeVars)
<1> USE DEF At, Goto
<1>1. pc[t] \in MoverLabels
  BY DEF Moves, MarkPending, Swap, SwapRefused, SettleMarker, AppendReceipt, MoverLabels
<1>2. /\ mark \in [Threads -> Markers] /\ mark[t] \in Marks
      /\ mark[t].target \in Gens /\ mark[t].stamp \in Nat
      /\ saved \in StateFiles /\ saved.marker \in Markers
      /\ clock \in Nat /\ receipts \subseteq Receipts
      /\ pc \in [Threads -> WorkerLabels \cup ClientLabels]
  BY <1>1 DEF SerialInv, TypeInv, TypeOK, MoversMarked, Marks, StateFiles
<1>3. \A u \in Threads : u # t => pc[u] \notin {"mark", "swap", "receipt", "settle"}
  BY <1>1, MoverAlone
<1>4. mark[t] # NoMarker
  BY <1>2, NoGenAssumption DEF NoMarker
<1>5. CASE MarkPending(t)
  <2>1. /\ pc[t] = "mark" /\ pc' = [pc EXCEPT ![t] = "swap"]
        /\ saved'.marker = mark[t]
        /\ UNCHANGED <<pointer, receipts, intact, mark, clock>>
    BY <1>2, <1>5 DEF MarkPending, bookVars, StateFiles
  <2>2. mark[t].target # pointer.active /\ ~MarkerTargetsActive'
    BY <2>1 DEF SerialInv, MarkerFits, MarkerTargetsActive
  <2>3. Account' = IF Account = "gap" THEN "forgotten" ELSE Account
    BY <2>1, <2>2 DEF Account, GapReported
  <2>4. Store!Intend(mark[t].target)
    BY <2>1, <2>2, <2>3 DEF Store!Intend
  <2>5. StampsFit'
    BY <1>2, <1>3, <2>1 DEF StampsFit
  <2> QED BY <1>2, <2>4, <2>5 DEF Store!Next
<1>6. CASE Swap(t)
  <2>1. /\ pc[t] = "swap" /\ pc' = [pc EXCEPT ![t] = "receipt"]
        /\ mark[t].target \in intact
        /\ pointer'.active = mark[t].target /\ pointer'.stamp = mark[t].stamp
        /\ pointer'.previous = IF pointer.active \notin {NoGen, mark[t].target}
                               THEN pointer.active ELSE pointer.previous
        /\ UNCHANGED <<saved, receipts, intact, mark, clock>>
    BY <1>6 DEF Swap, Repointed
  <2>2. saved.marker = mark[t] /\ mark[t].target # pointer.active
    BY <2>1 DEF SerialInv, MarkerFits
  <2>3. pointer'.previous = pointer.active
    BY <2>1, <2>2 DEF SerialInv, BoundaryInv
  <2>4. mark[t].stamp \in 1..clock /\ \A r \in receipts : r.stamp # mark[t].stamp
    BY <2>1 DEF StampsFit
  <2>5. pointer'.stamp # 0 /\ pointer'.stamp <= clock
    BY <1>2, <2>1, <2>4
  <2>6. GapReported'
    BY <1>4, <2>1, <2>2, <2>4 DEF GapReported, MarkerTargetsActive, Matches
  <2>7. Account' = "gap"
    BY <2>1, <2>4, <2>5, <2>6 DEF Account
  <2>8. Store!Change(mark[t].target)
    BY <2>1, <2>2, <2>3, <2>7 DEF Store!Change
  <2>9. StampsFit'
    BY <1>2, <1>3, <2>1, <2>5, <2>7 DEF StampsFit
  <2> QED BY <1>2, <2>8, <2>9 DEF Store!Next
<1>7. CASE SwapRefused(t)
  <2>1. /\ pc[t] = "swap" /\ saved' = Finished(t, FALSE)
        /\ pc' = [pc EXCEPT ![t] = "failing"] \/ pc' = [pc EXCEPT ![t] = "idle"]
        /\ UNCHANGED <<pointer, receipts, intact, mark, clock>>
    BY <1>7 DEF SwapRefused, Raise, bookVars
  <2>2. saved.marker = mark[t] /\ mark[t].target # pointer.active
    BY <2>1 DEF SerialInv, MarkerFits
  <2>3. saved'.marker = NoMarker
    BY <1>2, <2>1, <2>2 DEF Finished, Matches, StateFiles
  <2>4. ~MarkerTargetsActive /\ ~MarkerTargetsActive'
    BY <2>2, <2>3 DEF MarkerTargetsActive
  <2>5. Account # "gap"
    BY <2>4 DEF Account, GapReported
  <2>6. Account' = Account
    BY <2>1, <2>4, <2>5, AccountKept
  <2>7. Store!Withdraw
    <3>1. saved'.marker.target = NoGen
      BY <2>3 DEF NoMarker
    <3>2. UNCHANGED <<pointer, intact>>
      BY <2>1
    <3> QED BY <2>5, <2>6, <3>1, <3>2 DEF Store!Withdraw
  <2>8. StampsFit'
    BY <1>2, <1>3, <2>1 DEF StampsFit
  <2> QED BY <2>7, <2>8 DEF Store!Next
<1>8. ASSUME NEW lands \in BOOLEAN, NEW fails \in BOOLEAN, AppendReceipt(t, lands, fails)
      PROVE  StampsFit' /\ (Store!Next \/ UNCHANGED Store!storeVars)
  <2>1. /\ pc[t] = "receipt" /\ pc' = [pc EXCEPT ![t] = "settle"]
        /\ ~lands => fails
        /\ mark' = [mark EXCEPT ![t].error = fails]
        /\ UNCHANGED <<pointer, saved, intact, clock>>
    BY <1>8 DEF AppendReceipt, bookVars
  <2>2. /\ mark'[t].stamp = mark[t].stamp /\ mark'[t].error = fails
        /\ \A u \in Threads : u # t => mark'[u] = mark[u]
    BY <1>2, <2>1 DEF Marks
  <2>3. /\ Account = "gap" /\ pointer.stamp # 0 /\ mark[t].stamp = pointer.stamp
        /\ pointer.stamp <= clock
    BY <2>1 DEF StampsFit
  <2>4. pc'[t] = "settle" /\ \A u \in Threads : u # t => pc'[u] = pc[u]
    BY <1>2, <2>1
  <2>5. CASE lands
    <3>1. receipts' = receipts \cup {[op |-> mark[t].op, target |-> mark[t].target,
                                      stamp |-> mark[t].stamp]}
      BY <1>8, <2>5 DEF AppendReceipt
    <3>2. Account' = "receipted"
      <4>1. \E r \in receipts' : r.stamp = mark[t].stamp
        <5> DEFINE rec == [op |-> mark[t].op, target |-> mark[t].target,
                           stamp |-> mark[t].stamp]
        <5>1. rec.stamp = mark[t].stamp /\ rec \in receipts'
          BY <3>1
        <5> HIDE DEF rec
        <5> QED BY <5>1
      <4>2. pointer' = pointer
        BY <2>1
      <4>3. pointer'.stamp # 0 /\ \E r \in receipts' : r.stamp = pointer'.stamp
        BY <2>3, <4>1, <4>2
      <4> QED BY <4>3 DEF Account
    <3>3. Store!Receive
      BY <2>1, <2>3, <3>2 DEF Store!Receive
    <3>4. \A r \in receipts' : r.stamp <= clock
      BY <2>3, <3>1 DEF StampsFit
    <3>5. StampsFit'
      BY <1>3, <2>1, <2>2, <2>3, <2>4, <3>2, <3>4 DEF StampsFit
    <3> QED BY <3>3, <3>5 DEF Store!Next
  <2>6. CASE ~lands
    <3>1. receipts' = receipts /\ fails
      BY <1>8, <2>6 DEF AppendReceipt
    <3>2. Account' = Account
      BY <2>1, <3>1, AccountStays
    <3>3. StampsFit'
      BY <1>3, <2>1, <2>2, <2>3, <2>4, <3>1 DEF StampsFit
    <3> QED BY <2>1, <3>2, <3>3 DEF Store!storeVars
  <2> QED BY <2>5, <2>6
<1>9. CASE SettleMarker(t)
  <2>1. /\ pc[t] = "settle" /\ saved' = Finished(t, mark[t].error)
        /\ pc' = [pc EXCEPT ![t] = "repoint"] \/ pc' = [pc EXCEPT ![t] = "reload"]
        /\ UNCHANGED <<pointer, receipts, intact, mark, clock>>
    BY <1>9 DEF SettleMarker, bookVars
  <2>2. StampsFit'
    BY <1>2, <1>3, <2>1 DEF StampsFit
  <2>3. CASE ~Matches(saved.marker, mark[t])
    <3>1. saved' = saved
      BY <2>1, <2>3 DEF Finished
    <3> QED BY <2>1, <2>2, <3>1, AccountStays DEF Store!storeVars
  <2>4. CASE Matches(saved.marker, mark[t]) /\ mark[t].error
    <3>1. saved.marker \in Marks
      BY <1>2, <2>4, NoGenAssumption DEF Matches, Markers, NoMarker
    <3>2. saved'.marker = [saved.marker EXCEPT !.error = TRUE]
      BY <1>2, <2>1, <2>4 DEF Finished, StateFiles
    <3>3. /\ saved'.marker.op = saved.marker.op /\ saved'.marker.target = saved.marker.target
          /\ saved'.marker.stamp = saved.marker.stamp
          /\ saved'.marker # NoMarker /\ saved.marker # NoMarker
      BY <3>1, <3>2, NoGenAssumption DEF Marks, NoMarker
    <3>4. Account' = Account
      BY <2>1, <3>3 DEF Account, GapReported, MarkerTargetsActive, Matches
    <3> QED BY <2>1, <2>2, <3>3, <3>4 DEF Store!storeVars
  <2>5. CASE Matches(saved.marker, mark[t]) /\ ~mark[t].error
    <3>1. saved'.marker = NoMarker
      BY <1>2, <2>1, <2>5 DEF Finished, StateFiles
    <3>2. Account = "receipted"
      BY <2>1, <2>5 DEF StampsFit
    <3>3. Account' = Account
      BY <2>1, <3>1, <3>2, AccountKept DEF MarkerTargetsActive
    <3>4. Store!Withdraw
      BY <2>1, <3>1, <3>2, <3>3 DEF Store!Withdraw, NoMarker
    <3> QED BY <2>2, <3>4 DEF Store!Next
  <2> QED BY <2>3, <2>4, <2>5
<1> QED BY <1>5, <1>6, <1>7, <1>8, <1>9 DEF Moves

\* The coordinator, its locks, its files and its crashes implement the generation store:
\* where requests do not overlap and no write fails, the pointer moves in one step and
\* only to a verified generation, and from then on the change is receipted or reported
\* as a gap, until the next change is tried.
THEOREM StoreIsImplemented == Serial => (Spec => ImplementsStore)
<1> SUFFICES ASSUME Serial PROVE Spec => ImplementsStore
  OBVIOUS
<1>1. Init => SerialInv /\ IndexFits /\ StampsFit /\ Store!Init
  <2>1. Init => SerialInv /\ IndexFits
    BY TypeInit, OutcomeInit, SerialInit DEF SerialInv, SerialStart
  <2>2. ASSUME Init PROVE Account = "no_change"
    BY <2>2 DEF Init, Account
  <2>3. ASSUME Init PROVE StampsFit
    <3>1. \A t \in Threads : pc[t] \in {"off", "idle"}
      BY <2>3 DEF Init
    <3>2. receipts = {} /\ pointer.stamp = 0 /\ clock = 0
      BY <2>3 DEF Init
    <3> QED BY <3>1, <3>2 DEF StampsFit
  <2>4. ASSUME Init PROVE Store!Init
    <3>1. saved.marker.target = NoGen /\ pointer.active = NoGen /\ pointer.previous = NoGen
          /\ intact = {}
      BY <2>4 DEF Init, NoMarker
    <3> QED BY <2>2, <2>4, <3>1 DEF Store!Init
  <2> QED BY <2>1, <2>3, <2>4
<1>2. SerialInv /\ IndexFits /\ StampsFit /\ [Next]_vars
      => (SerialInv /\ IndexFits /\ StampsFit)' /\ [Store!Next]_(Store!storeVars)
  BY SerialStep, MovesOrAside, AsideIsStore, MovesAreStore
<1> QED BY <1>1, <1>2, PTL DEF Spec, ImplementsStore, Store!Spec
=============================================================================
