---------------------------- MODULE OverlayProofs ----------------------------
(***************************************************************************)
(* The pointer of the overlay names generations that are on disk, for every*)
(* number of generations, contents and requests.                           *)
(*                                                                         *)
(* PointerBacked is not inductive.  The activation takes its generation    *)
(* from what the worker carries, so the worker's records are typed; and the*)
(* trees are removed in a step of their own, after the pointer: as long as *)
(* a deletion stands between the two it owns _LOCK, so the pointer must be *)
(* empty and no worker inside its job.                                     *)
(***************************************************************************)
EXTENDS Overlay, TLAPS

Documents == {"none", "open", "ended"}
Names == Gens \cup {NoGen}

\* What a thread of the coordinator may be doing, with what it carries along.
Steady == [at : {"stopped", "waiting"}]
Capturing == [at : {"started", "capturing", "activated", "recorded", "ending"}, doc : Documents]
Building == [at : {"captured", "building"}, doc : Documents, content : Contents]
Installing == [at : {"installed"}, doc : Documents, gen : Gens]
WorkerStates == Steady \cup Capturing \cup Building \cup Installing

Stored == [state : {"intact", "damaged"}, content : Contents]

TypeOK ==
    /\ source \in Contents
    /\ settings \in {"none", "off", "on"}
    /\ pointer \in [active : Names, previous : Names]
    /\ disk \in [Gens -> Stored \cup {Absent}]
    /\ saved \in Documents
    /\ job \in Documents
    /\ cancel \in {"none", "clear", "set"}
    /\ thread \in Workers \cup {0}
    /\ worker \in [Workers -> WorkerStates]
    /\ rollback \in Documents \cup {"idle", "moved"}
    /\ delete \in {"idle", "checked", "trees", "forget"}
    /\ held \in {"free", "start", "cancel"}
    /\ moved \in BOOLEAN
    /\ left \in Nat

\* While a deletion removes the trees nothing is pointed at, and nothing is about to be.
NothingNamed ==
    delete = "trees" => pointer = NoPointer /\ \A w \in Workers : ~Inside(w)

OverlayInv == TypeOK /\ NothingNamed /\ PointerBacked

-------------------------------------------------------------------------------
(* The records of a thread, apart by what they are doing. *)

LEMMA WorkerRecords ==
    ASSUME NEW s \in WorkerStates
    PROVE  /\ s.at \in {"started", "capturing", "activated", "recorded", "ending"} => s \in Capturing
           /\ s.at \in {"captured", "building"} => s \in Building
           /\ s.at = "installed" => s \in Installing
           /\ s.at \notin {"stopped", "waiting"} => s.doc \in Documents
BY DEF WorkerStates, Steady, Capturing, Building, Installing, Stopped

LEMMA StepsType ==
    ASSUME OverlayInv, NEW w \in Workers, NEW s \in WorkerStates, Steps(w, s)
    PROVE  worker' \in [Workers -> WorkerStates]
BY DEF Steps, OverlayInv, TypeOK

\* What carries nothing but a document, and what carries nothing.
LEMMA PlainStates ==
    ASSUME NEW doc \in Documents,
           NEW at \in {"started", "capturing", "activated", "recorded", "ending"}
    PROVE  Stopped \in WorkerStates /\ [at |-> at, doc |-> doc] \in WorkerStates
BY DEF Stopped, WorkerStates, Steady, Capturing

\* An update touches the job and its document only.
LEMMA UpdatesType ==
    ASSUME OverlayInv, NEW state \in {"open", "ended"}, Updates(state)
    PROVE  job' \in Documents /\ saved' \in Documents
BY DEF Updates, OverlayInv, TypeOK, Documents

LEMMA CancelledType ==
    ASSUME OverlayInv, NEW w \in Workers, Cancelled(w), Inside(w)
    PROVE  /\ worker' \in [Workers -> WorkerStates]
           /\ job' \in Documents
           /\ saved' \in Documents
<1>1. worker[w].doc \in Documents
  BY WorkerRecords DEF OverlayInv, TypeOK, Inside
<1>2. Stopped \in WorkerStates /\ [at |-> "ending", doc |-> worker[w].doc] \in WorkerStates
  BY <1>1, PlainStates
<1> QED BY <1>1, <1>2, StepsType DEF Cancelled, OverlayInv, TypeOK

\* A job that does not touch pointer, disk and deletion keeps the invariant.
LEMMA JobAside ==
    ASSUME OverlayInv,
           worker' \in [Workers -> WorkerStates], job' \in Documents, saved' \in Documents,
           delete # "trees",
           UNCHANGED <<source, settings, pointer, disk, moved, left, cancel, thread,
                       rollback, delete, held>>
    PROVE  OverlayInv'
BY DEF OverlayInv, TypeOK, NothingNamed, PointerBacked

\* Who is inside its job owns _LOCK.
LEMMA InsideOwns ==
    ASSUME OverlayInv, NEW w \in Workers, Inside(w)
    PROVE  delete # "trees"
BY DEF OverlayInv, NothingNamed

-------------------------------------------------------------------------------
(* The job. *)

LEMMA JobBeginsKeeps ==
    ASSUME OverlayInv, NEW w \in Workers, JobBegins(w)
    PROVE  OverlayInv'
<1>1. saved \in Documents /\ job \in Documents
  BY DEF OverlayInv, TypeOK
<1>2. Stopped \in WorkerStates /\ [at |-> "started", doc |-> saved] \in WorkerStates
  BY <1>1, PlainStates
<1>3. worker' \in [Workers -> WorkerStates]
  BY <1>2, StepsType DEF JobBegins
<1> QED BY <1>1, <1>3, JobAside DEF JobBegins, LockFree

\* The steps that touch neither pointer nor disk.
LEMMA JobPlainKeeps ==
    ASSUME OverlayInv, NEW w \in Workers,
           \/ JobStarts(w) \/ JobCaptures(w) \/ JobCompares(w) \/ JobRecords(w)
           \/ JobFinishes(w) \/ JobFails(w) \/ JobEnds(w)
    PROVE  OverlayInv'
<1>1. Inside(w)
  BY DEF JobStarts, JobCaptures, JobCompares, JobRecords, JobFinishes, JobFails, JobEnds,
         At, Inside
<1>2. worker[w].doc \in Documents /\ delete # "trees" /\ source \in Contents
      /\ saved \in Documents /\ job \in Documents
  BY <1>1, WorkerRecords, InsideOwns DEF OverlayInv, TypeOK, Inside
<1>3. /\ Stopped \in WorkerStates
      /\ [at |-> "capturing", doc |-> worker[w].doc] \in WorkerStates
      /\ [at |-> "activated", doc |-> worker[w].doc] \in WorkerStates
      /\ [at |-> "recorded", doc |-> worker[w].doc] \in WorkerStates
      /\ [at |-> "ending", doc |-> worker[w].doc] \in WorkerStates
  BY <1>2, PlainStates
<1>4. CASE JobStarts(w)
  <2>1. worker' \in [Workers -> WorkerStates]
    BY <1>3, <1>4, StepsType DEF JobStarts
  <2>2. job' \in Documents /\ saved' \in Documents
    BY <1>4, UpdatesType DEF JobStarts
  <2> QED BY <1>2, <1>4, <2>1, <2>2, JobAside DEF JobStarts
<1>5. CASE JobCaptures(w)
  <2>1. CASE Cancelled(w)
    <3>1. /\ worker' \in [Workers -> WorkerStates]
          /\ job' \in Documents /\ saved' \in Documents
      BY <1>1, <2>1, CancelledType
    <3> QED BY <1>2, <1>5, <3>1, JobAside DEF JobCaptures
  <2>2. CASE Steps(w, [at |-> "captured", doc |-> worker[w].doc, content |-> source])
             /\ UNCHANGED <<job, saved>>
    <3>1. [at |-> "captured", doc |-> worker[w].doc, content |-> source] \in WorkerStates
      BY <1>2 DEF WorkerStates, Building
    <3>2. worker' \in [Workers -> WorkerStates]
      BY <2>2, <3>1, StepsType
    <3> QED BY <1>2, <1>5, <2>2, <3>2, JobAside DEF JobCaptures
  <2> QED BY <1>5, <2>1, <2>2 DEF JobCaptures
<1>6. CASE JobCompares(w)
  <2>1. worker[w] \in Building
    BY <1>6, WorkerRecords DEF JobCompares, At, OverlayInv, TypeOK
  <2>2. [at |-> "building", doc |-> worker[w].doc, content |-> worker[w].content] \in WorkerStates
    BY <1>2, <2>1 DEF Building, WorkerStates
  <2>3. worker' \in [Workers -> WorkerStates]
    BY <1>3, <1>6, <2>2, StepsType DEF JobCompares
  <2>4. job' \in Documents /\ saved' \in Documents
    BY <1>6, UpdatesType DEF JobCompares
  <2> QED BY <1>2, <1>6, <2>3, <2>4, JobAside DEF JobCompares
<1>7. CASE JobRecords(w)
  <2>1. worker' \in [Workers -> WorkerStates]
    BY <1>3, <1>7, StepsType DEF JobRecords
  <2> QED BY <1>2, <1>7, <2>1, JobAside DEF JobRecords
<1>8. CASE JobFinishes(w)
  <2>1. worker' \in [Workers -> WorkerStates]
    BY <1>3, <1>8, StepsType DEF JobFinishes
  <2>2. job' \in Documents /\ saved' \in Documents
    BY <1>8, UpdatesType DEF JobFinishes
  <2> QED BY <1>2, <1>8, <2>1, <2>2, JobAside DEF JobFinishes
<1>9. CASE JobFails(w)
  <2>1. worker' \in [Workers -> WorkerStates]
    BY <1>3, <1>9, StepsType DEF JobFails
  <2> QED BY <1>2, <1>9, <2>1, JobAside DEF JobFails
<1>10. CASE JobEnds(w)
  <2>1. worker' \in [Workers -> WorkerStates]
    BY <1>3, <1>10, StepsType DEF JobEnds
  <2>2. job' \in Documents /\ saved' \in Documents
    BY <1>2, <1>10, UpdatesType DEF JobEnds, Documents
  <2> QED BY <1>2, <1>10, <2>1, <2>2, JobAside DEF JobEnds
<1> QED BY <1>4, <1>5, <1>6, <1>7, <1>8, <1>9, <1>10

\* A new generation takes a name that the pointer does not name.
LEMMA JobInstallsKeeps ==
    ASSUME OverlayInv, NEW w \in Workers, JobInstalls(w)
    PROVE  OverlayInv'
<1>1. Inside(w) /\ worker[w] \in Building /\ delete # "trees"
  BY WorkerRecords, InsideOwns DEF JobInstalls, At, Inside, OverlayInv, TypeOK
<1>2. CASE Cancelled(w) /\ UNCHANGED disk
  <2>1. worker' \in [Workers -> WorkerStates] /\ job' \in Documents /\ saved' \in Documents
    BY <1>1, <1>2, CancelledType
  <2> QED BY <1>1, <1>2, <2>1, JobAside DEF JobInstalls
<1>3. ASSUME NEW g \in Gens \ {pointer.active, pointer.previous},
             disk' = [disk EXCEPT ![g] = [state |-> "intact", content |-> worker[w].content]],
             Steps(w, [at |-> "installed", doc |-> worker[w].doc, gen |-> g]),
             Updates("open")
      PROVE  OverlayInv'
  <2>1. [at |-> "installed", doc |-> worker[w].doc, gen |-> g] \in WorkerStates
    BY <1>1 DEF WorkerStates, Building, Installing
  <2>2. worker' \in [Workers -> WorkerStates]
    BY <1>3, <2>1, StepsType
  <2>3. disk' \in [Gens -> Stored \cup {Absent}]
    BY <1>1, <1>3 DEF OverlayInv, TypeOK, Building, Stored
  <2>4. \A h \in {pointer.active, pointer.previous} \ {NoGen} : disk'[h] = disk[h]
    BY <1>3 DEF OverlayInv, TypeOK, Names
  <2>5. job' \in Documents /\ saved' \in Documents
    BY <1>3, UpdatesType
  <2> QED BY <1>1, <1>3, <2>2, <2>3, <2>4, <2>5 DEF JobInstalls, OverlayInv, TypeOK, NothingNamed, PointerBacked
<1> QED BY <1>2, <1>3 DEF JobInstalls

\* The pointer moves to a generation verified under the lock; what is removed is
\* neither that one nor the one it leaves.
LEMMA JobActivatesKeeps ==
    ASSUME OverlayInv, NEW w \in Workers, JobActivates(w)
    PROVE  OverlayInv'
<1> DEFINE g == worker[w].gen
           next == [active |-> g, previous |-> pointer.active]
<1>1. worker[w] \in Installing
  BY WorkerRecords DEF JobActivates, At, OverlayInv, TypeOK
<1>2. g \in Gens /\ g # NoGen /\ disk[g] # Absent
  BY <1>1 DEF JobActivates, Installing, Intact, Absent
<1>3. pointer' = next /\ next \in [active : Names, previous : Names]
  BY <1>2 DEF JobActivates, OverlayInv, TypeOK, Names
<1>4. disk' \in [Gens -> Stored \cup {Absent}]
  BY DEF JobActivates, OverlayInv, TypeOK
<1>5. [at |-> "activated", doc |-> worker[w].doc] \in WorkerStates
  BY <1>1 DEF Installing, WorkerStates, Capturing
<1>6. worker' \in [Workers -> WorkerStates]
  BY <1>5, StepsType DEF JobActivates
<1>7. \A h \in {next.active, next.previous} \ {NoGen} : disk'[h] = disk[h] /\ disk[h] # Absent
  <2>1. \A h \in {next.active, next.previous} \ {NoGen} : h \in Gens /\ disk[h] # Absent
    BY <1>2 DEF OverlayInv, TypeOK, Names, PointerBacked
  <2>2. \A h \in Gens : h \in {next.active, next.previous} => disk'[h] = disk[h]
    BY DEF JobActivates, Kept
  <2> QED BY <2>1, <2>2
<1>8. PointerBacked'
  BY <1>3, <1>7 DEF PointerBacked
<1>9. delete # "trees" /\ delete' = delete
  BY InsideOwns DEF JobActivates, At, Inside
<1> HIDE DEF g, next
<1> QED BY <1>3, <1>4, <1>6, <1>8, <1>9 DEF JobActivates, OverlayInv, TypeOK, NothingNamed

-------------------------------------------------------------------------------
(* The steps of the specification. *)

LEMMA OverlayStart ==
    ASSUME Init
    PROVE  OverlayInv
BY OverlayAssumption DEF Init, OverlayInv, TypeOK, NothingNamed, PointerBacked, NoPointer, Names,
   Documents, Workers, WorkerStates, Steady, Stopped

LEMMA OverlayStep ==
    ASSUME OverlayInv, [Next]_vars
    PROVE  OverlayInv'
<1> USE DEF OverlayInv
<1>1. CASE Configure
  BY <1>1 DEF Configure, Spend, TypeOK, Inside, NothingNamed, PointerBacked, memory
<1>2. CASE StartBegins
  BY <1>2 DEF StartBegins, TypeOK, NothingNamed, PointerBacked, Documents, Inside
<1>3. CASE StartSaves
  <2>1. [at |-> "waiting"] \in WorkerStates
    BY DEF WorkerStates, Steady
  <2>2. worker' \in [Workers -> WorkerStates] /\ thread' \in Workers /\ delete # "trees"
    BY <1>3, <2>1 DEF StartSaves, TypeOK, LockFree
  <2> QED BY <1>3, <2>2 DEF StartSaves, TypeOK, NothingNamed, PointerBacked, Documents
<1>15. CASE CancelBegins \/ CancelSaves \/ RequestFails
  BY <1>15 DEF CancelBegins, CancelSaves, RequestFails, Spend, TypeOK, NothingNamed, PointerBacked,
               Documents, Inside
<1>4. CASE \E w \in Workers : Job(w)
  BY <1>4, JobBeginsKeeps, JobPlainKeeps, JobInstallsKeeps, JobActivatesKeeps DEF Job
<1>5. CASE RollbackMoves
  <2>1. pointer' \in [active : Names, previous : Names]
    BY <1>5 DEF RollbackMoves, TypeOK
  <2> QED BY <1>5, <2>1 DEF RollbackMoves, LockFree, Spend, TypeOK, NothingNamed, PointerBacked
<1>6. CASE RollbackLoads \/ RollbackSaves
  BY <1>6 DEF RollbackLoads, RollbackSaves, TypeOK, Inside, NothingNamed, PointerBacked, Documents
<1>7. CASE DeleteChecks
  BY <1>7 DEF DeleteChecks, Spend, TypeOK, Inside, NothingNamed, PointerBacked
<1>8. CASE DeleteFiles
  BY <1>8 DEF DeleteFiles, LockFree, TypeOK, Inside, NothingNamed, PointerBacked, NoPointer, Names, Documents
\* The trees go only when nothing names them.
<1>9. CASE DeleteTrees
  BY <1>9 DEF DeleteTrees, TypeOK, Inside, NothingNamed, PointerBacked, NoPointer
<1>10. CASE DeleteForgets
  BY <1>10 DEF DeleteForgets, TypeOK, Inside, NothingNamed, PointerBacked, Documents
<1>11. CASE SourceChanges
  BY <1>11 DEF SourceChanges, Spend, TypeOK, Inside, NothingNamed, PointerBacked, memory
<1>12. CASE Damage
  <2> PICK g \in Gens : Intact(g) /\ disk' = [disk EXCEPT ![g].state = "damaged"]
    BY <1>12 DEF Damage
  <2>1. disk[g] \in Stored
    BY DEF Intact, TypeOK, Absent
  <2>2. [disk[g] EXCEPT !.state = "damaged"] \in Stored
    BY <2>1 DEF Stored
  <2>3. [disk[g] EXCEPT !.state = "damaged"] # Absent
    BY <2>2 DEF Stored, Absent
  <2>4. disk' \in [Gens -> Stored \cup {Absent}]
    BY <2>2 DEF TypeOK
  <2>5. \A h \in Gens : disk'[h] = disk[h] \/ disk'[h] # Absent
    BY <2>3 DEF TypeOK
  <2>6. PointerBacked'
    BY <1>12, <2>5 DEF Damage, TypeOK, Names, PointerBacked
  <2> QED BY <1>12, <2>4, <2>6 DEF Damage, Spend, TypeOK, NothingNamed, Inside, memory
<1>13. CASE Restarts
  <2>1. worker' \in [Workers -> WorkerStates]
    BY <1>13 DEF Restarts, WorkerStates, Steady, Stopped
  <2> QED BY <1>13, <2>1 DEF Restarts, Spend, TypeOK, NothingNamed, PointerBacked, Documents
<1>14. CASE UNCHANGED vars
  BY <1>14 DEF vars, memory, TypeOK, Inside, NothingNamed, PointerBacked
<1> QED BY <1>1, <1>2, <1>3, <1>4, <1>5, <1>6, <1>7, <1>8, <1>9, <1>10, <1>11, <1>12, <1>13,
        <1>14, <1>15 DEF Next

\* What the coordinator, the requests on threads of their own, a crash and the world
\* keep between them.
LEMMA OverlayInvariant == Spec => []OverlayInv
BY OverlayStart, OverlayStep, PTL DEF Spec

\* The generations the pointer names are on disk, the one a rollback needs included:
\* a job removes only what the new pair does not name and installs only under a name
\* it does not hold, and a deletion empties the pointer before it removes a tree
\* (activate_generation, _prune_generations, delete_overlay_data).
THEOREM GenerationsStay == Spec => []PointerBacked
BY OverlayInvariant, PTL DEF OverlayInv
=============================================================================
