------------------------------ MODULE MatchIndex ------------------------------
(***************************************************************************)
(* The match index as the sidecar reads it: the cached frame and its       *)
(* generation epoch, SnapshotReader and its memo (matches.py), and the one *)
(* reader with a disk cache below its memo, the match analysis             *)
(* (analysis.py).  The other readers (ratings, scorers, outlooks,          *)
(* analytics, conditions) are the same reads with a disk cache that is     *)
(* never there, a case DiskSkip covers.                                    *)
(*                                                                         *)
(* A generation is its path, the content of its files and the fingerprint  *)
(* of that content at once: a generation is immutable.  named is the       *)
(* history of INDEX_PATH since the process started; its length is          *)
(* _GENERATION_EPOCH.  The files of the disk cache are whatever earlier    *)
(* processes left.  _meta_row_count is the loop of index_fingerprint.      *)
(* _CACHE_LOCK is held for one step, except by a publication, whose steps  *)
(* race with the reset of the memo, which takes no lock.                   *)
(***************************************************************************)
EXTENDS Integers, Sequences, FiniteSets, SequencesExt

CONSTANTS
    Generations, \* generations, the bundle among them
    Bundle,      \* the committed index, served when the pointer's is unusable
    Superseded,  \* generations whose index has another schema version
    None,
    Readers,     \* threads, each of which serves one read
    Keys,        \* what a read is about: a match id
    MaxAttempts, \* _MAX_ATTEMPTS
    MaxEntries,  \* SnapshotReader._max_entries
    DiskMax,     \* _DISK_MAX
    MaxMoves     \* bound: changes of the active generation

ASSUME IndexAssumption ==
    /\ Bundle \in Generations /\ None \notin Generations
    /\ Superseded \subseteq Generations \ {Bundle}
    /\ MaxAttempts \in Nat \ {0} /\ MaxEntries \in Nat \ {0} /\ DiskMax \in Nat \ {0}
    /\ MaxMoves \in Nat
    /\ Generations \cap {"torn", "altered", "unreadable", "failed", "moved", "error"} = {}

VARIABLES
    pointed,     \* the generation the pointer file names
    named,       \* the generations INDEX_PATH has named, one per epoch
    frame,       \* _CACHE: the generation the cached frame was read from
    fp,          \* _FINGERPRINT
    memo,        \* SnapshotReader._entries: full key -> what was computed
    order,       \* SnapshotReader._order
    disk, tmp,   \* the cache files and their temporary siblings
    mover,       \* repoint_to_refreshed: where it is
    probe,       \* index_fingerprint: the epoch it captured, or 0
    rd           \* the reads

caches == <<frame, fp>>
files == <<disk, tmp>>
indexVars == <<pointed, named, caches, memo, order, files, mover, probe, rd>>

Epoch == Len(named)
Names == Keys \X Generations
FullKeys == Keys \X Generations \X (1..MaxMoves + 1)
Files == {None, "torn", "altered"} \cup Generations

NoSnap == [epoch |-> 0, frame |-> None, fp |-> None]
Idle == [at |-> "idle", key |-> None, tries |-> 0, began |-> 0,
         snap |-> NoSnap, file |-> "gone", work |-> None]

\* The generation the pointer names, unless its index has another schema.
Resolved(g) == IF g \in Superseded THEN Bundle ELSE g

IndexInit ==
    /\ pointed = Bundle
    /\ named = <<Bundle>>
    /\ frame = None /\ fp = None
    /\ memo = {}
    /\ order = <<>>
    /\ \E k \in Keys, f \in {None, "torn", "altered", Bundle} :
          disk = [[n \in Names |-> None] EXCEPT ![<<k, Bundle>>] = f]
    /\ tmp = [n \in Names |-> None]
    /\ mover = [at |-> "idle", target |-> None]
    /\ probe = 0
    /\ rd = [r \in Readers |-> Idle]

-------------------------------------------------------------------------------
(* The lock, and what is checked under it. *)

\* The reader between the steps of its publication holds _CACHE_LOCK.
LockFree == \A r \in Readers : rd[r].at \notin {"ordering", "trimming"}

ReaderAt(r, place) == rd[r].at = place
Go(r, place) == rd' = [rd EXCEPT ![r].at = place]

PathsAreCurrent(epoch) == epoch = Epoch

SnapshotIsCurrent(s) == s.epoch = Epoch /\ s.frame = frame /\ s.fp = fp

InvalidateCache == frame' = None /\ fp' = None

Answer(r, what) ==
    rd' = [rd EXCEPT ![r] = [Idle EXCEPT !.at = "done", !.work = what]]

\* The read tries again on the next generation.
NextAttempt(r) ==
    IF rd[r].tries = MaxAttempts
    THEN Answer(r, "moved")
    ELSE rd' = [rd EXCEPT ![r] = [@ EXCEPT !.at = "snapshot", !.tries = rd[r].tries + 1,
                                           !.snap = NoSnap, !.work = None]]

-------------------------------------------------------------------------------
(* A refresh or a rollback repoints the index. *)

Activate(g) ==
    /\ mover.at = "idle"
    /\ Epoch <= MaxMoves
    /\ pointed # g
    /\ pointed' = g
    /\ mover' = [at |-> "resolve", target |-> None]
    /\ UNCHANGED <<named, caches, memo, order, files, probe, rd>>

Resolve ==
    /\ mover.at = "resolve"
    /\ mover' = [at |-> "swap", target |-> Resolved(pointed)]
    /\ UNCHANGED <<pointed, named, caches, memo, order, files, probe, rd>>

SwapPath ==
    /\ mover.at = "swap"
    /\ LockFree
    /\ named' = Append(named, mover.target)
    /\ InvalidateCache
    /\ mover' = [at |-> "entries", target |-> None]
    /\ UNCHANGED <<pointed, memo, order, files, probe, rd>>

\* SnapshotReader.reset, outside the lock: the entries, then their order.
ResetEntries ==
    /\ mover.at = "entries"
    /\ memo' = {}
    /\ mover' = [mover EXCEPT !.at = "order"]
    /\ UNCHANGED <<pointed, named, caches, order, files, probe, rd>>

ResetOrder ==
    /\ mover.at = "order"
    /\ order' = <<>>
    /\ mover' = [mover EXCEPT !.at = "idle"]
    /\ UNCHANGED <<pointed, named, caches, memo, files, probe, rd>>

Repoint == Resolve \/ SwapPath \/ ResetEntries \/ ResetOrder

-------------------------------------------------------------------------------
(* index_fingerprint: capture, read, publish or retry. *)

ProbeStart ==
    /\ LockFree
    /\ probe = 0
    /\ fp = None
    /\ probe' = Epoch
    /\ UNCHANGED <<pointed, named, caches, memo, order, files, mover, rd>>

\* A fingerprint published meanwhile stays.
ProbePublish ==
    /\ LockFree
    /\ probe # 0
    /\ probe' = 0
    /\ fp' = IF PathsAreCurrent(probe) /\ fp = None THEN named[probe] ELSE fp
    /\ UNCHANGED <<pointed, named, frame, memo, order, files, mover, rd>>

-------------------------------------------------------------------------------
(* SnapshotReader.read begins with index_snapshot. *)

Begin(r, k) ==
    /\ ReaderAt(r, "idle")
    /\ rd' = [rd EXCEPT ![r] = [Idle EXCEPT !.at = "snapshot", !.key = k, !.tries = 1,
                                            !.began = Epoch]]
    /\ UNCHANGED <<pointed, named, caches, memo, order, files, mover, probe>>

\* The cached pair, or the epoch and path to load.
TakeSnapshot(r) ==
    /\ LockFree
    /\ ReaderAt(r, "snapshot")
    /\ rd' = [rd EXCEPT ![r] =
                IF frame # None /\ fp # None
                THEN [@ EXCEPT !.at = "lookup",
                               !.snap = [epoch |-> Epoch, frame |-> frame, fp |-> fp]]
                ELSE [@ EXCEPT !.at = "load", !.snap = [NoSnap EXCEPT !.epoch = Epoch]]]
    /\ UNCHANGED <<pointed, named, caches, memo, order, files, mover, probe>>

\* The read of the file fails: only the failure of a current index is raised.
LoadFails(r) ==
    /\ LockFree
    /\ ReaderAt(r, "load")
    /\ IF PathsAreCurrent(rd[r].snap.epoch) THEN Answer(r, "unreadable") ELSE Go(r, "snapshot")
    /\ UNCHANGED <<pointed, named, caches, memo, order, files, mover, probe>>

\* The frame was read outside the lock: discarded when the index moved; the
\* frame of another loader of this epoch is kept.
PublishFrame(r) ==
    /\ LockFree
    /\ ReaderAt(r, "load")
    /\ LET e == rd[r].snap.epoch
           read == named[e]
       IN IF PathsAreCurrent(e)
          THEN /\ frame' = IF frame = None THEN read ELSE frame
               /\ fp' = IF frame = None THEN read ELSE fp
               /\ rd' = [rd EXCEPT ![r] = [@ EXCEPT !.at = "lookup",
                            !.snap = [epoch |-> e, frame |-> frame', fp |-> fp']]]
          ELSE Go(r, "snapshot") /\ UNCHANGED <<frame, fp>>
    /\ UNCHANGED <<pointed, named, memo, order, files, mover, probe>>

-------------------------------------------------------------------------------
(* The memo, and the computation. *)

FullKey(r) == <<rd[r].key, rd[r].snap.fp, rd[r].snap.epoch>>
Cached(key) == {m \in memo : m.key = key}

\* The memo is read without the lock.
Hit(r) ==
    /\ ReaderAt(r, "lookup")
    /\ \E m \in Cached(FullKey(r)) :
          rd' = [rd EXCEPT ![r] = [@ EXCEPT !.at = "recheck", !.work = m.value]]
    /\ UNCHANGED <<pointed, named, caches, memo, order, files, mover, probe>>

\* Mutant: a hit is answered as it was found.
RecheckTrusts(r) ==
    /\ LockFree
    /\ ReaderAt(r, "recheck")
    /\ Answer(r, rd[r].work)
    /\ UNCHANGED <<pointed, named, caches, memo, order, files, mover, probe>>

Recheck(r) ==
    /\ LockFree
    /\ ReaderAt(r, "recheck")
    /\ IF SnapshotIsCurrent(rd[r].snap) THEN Answer(r, rd[r].work) ELSE NextAttempt(r)
    /\ UNCHANGED <<pointed, named, caches, memo, order, files, mover, probe>>

Name(r) == <<rd[r].key, rd[r].snap.fp>>

\* _disk_read: a file that does not parse is left, one that was altered is
\* removed; then the analysis is computed from the frame of the snapshot.
Compute(r) ==
    /\ ReaderAt(r, "lookup")
    /\ Cached(FullKey(r)) = {}
    /\ disk' = IF disk[Name(r)] = "altered" THEN [disk EXCEPT ![Name(r)] = None] ELSE disk
    /\ rd' = [rd EXCEPT ![r] =
                IF disk[Name(r)] \in Generations
                THEN [@ EXCEPT !.at = "publish", !.work = disk[Name(r)]]
                ELSE [@ EXCEPT !.at = "store", !.work = rd[r].snap.frame]]
    /\ UNCHANGED <<pointed, named, caches, memo, order, tmp, mover, probe>>

\* A fit fails: on a retired generation it is tried on the next one, on the
\* current one the failure is answered and not memoized.
ComputeFails(r) ==
    /\ LockFree
    /\ ReaderAt(r, "lookup")
    /\ Cached(FullKey(r)) = {}
    /\ disk[Name(r)] \notin Generations
    /\ IF SnapshotIsCurrent(rd[r].snap) THEN Answer(r, "failed") ELSE NextAttempt(r)
    /\ UNCHANGED <<pointed, named, caches, memo, order, files, mover, probe>>

-------------------------------------------------------------------------------
(* _disk_write: the writers of one name share its temporary file. *)

\* No cache directory, or an error of a write: the answer does not depend on it.
DiskSkip(r) ==
    /\ rd[r].at \in {"store", "fill", "replace"}
    /\ Go(r, "publish")
    /\ UNCHANGED <<pointed, named, caches, memo, order, files, mover, probe>>

DiskOpen(r) ==
    /\ ReaderAt(r, "store")
    /\ tmp' = [tmp EXCEPT ![Name(r)] = "torn"]
    /\ rd' = [rd EXCEPT ![r] = [@ EXCEPT !.at = "fill", !.file = "tmp"]]
    /\ UNCHANGED <<pointed, named, caches, memo, order, disk, mover, probe>>

\* The bytes go to the open file, which another writer may have renamed.
DiskFill(r) ==
    /\ ReaderAt(r, "fill")
    /\ tmp' = IF rd[r].file = "tmp" THEN [tmp EXCEPT ![Name(r)] = rd[r].work] ELSE tmp
    /\ disk' = IF rd[r].file = "disk" THEN [disk EXCEPT ![Name(r)] = rd[r].work] ELSE disk
    /\ Go(r, "replace")
    /\ UNCHANGED <<pointed, named, caches, memo, order, mover, probe>>

\* Where the file another writer of this name holds open is after the rename.
Renamed(f) == CASE f = "tmp" -> "disk" [] f = "disk" -> "gone" [] OTHER -> f

\* The rename, then the removal of the oldest files beyond the limit.
DiskReplace(r) ==
    /\ ReaderAt(r, "replace")
    /\ tmp[Name(r)] # None
    /\ tmp' = [tmp EXCEPT ![Name(r)] = None]
    /\ LET held == {n \in Names : disk[n] # None} \cup {Name(r)}
       IN \E stale \in SUBSET (held \ {Name(r)}) :
            /\ Cardinality(held \ stale) =
                 IF Cardinality(held) > DiskMax THEN DiskMax ELSE Cardinality(held)
            /\ disk' = [n \in Names |-> CASE n = Name(r) -> tmp[n]
                                          [] n \in stale -> None
                                          [] OTHER -> disk[n]]
    /\ rd' = [q \in Readers |->
                CASE q = r -> [rd[q] EXCEPT !.at = "publish", !.file = "gone"]
                  [] ReaderAt(q, "fill") /\ Name(q) = Name(r)
                       -> [rd[q] EXCEPT !.file = Renamed(rd[q].file)]
                  [] OTHER -> rd[q]]
    /\ UNCHANGED <<pointed, named, caches, memo, order, mover, probe>>

-------------------------------------------------------------------------------
(* apply_if_snapshot_current runs _publish with the lock held. *)

Publish(r) ==
    /\ LockFree
    /\ ReaderAt(r, "publish")
    /\ IF SnapshotIsCurrent(rd[r].snap)
       THEN /\ memo' = {m \in memo : m.key # FullKey(r)}
                         \cup {[key |-> FullKey(r), value |-> rd[r].work]}
            /\ Go(r, "ordering")
       ELSE NextAttempt(r) /\ UNCHANGED memo
    /\ UNCHANGED <<pointed, named, caches, order, files, mover, probe>>

PublishOrder(r) ==
    /\ ReaderAt(r, "ordering")
    /\ order' = Append(order, FullKey(r))
    /\ IF Len(order') > MaxEntries THEN Go(r, "trimming") ELSE Answer(r, rd[r].work)
    /\ UNCHANGED <<pointed, named, caches, memo, files, mover, probe>>

\* The oldest key is popped: an IndexError when a reset emptied the list
\* after its length was compared.
PublishTrim(r) ==
    /\ ReaderAt(r, "trimming")
    /\ IF order = <<>>
       THEN Answer(r, "error") /\ UNCHANGED <<memo, order>>
       ELSE /\ memo' = {m \in memo : m.key # Head(order)}
            /\ order' = Tail(order)
            /\ IF Len(order') > MaxEntries THEN UNCHANGED rd ELSE Answer(r, rd[r].work)
    /\ UNCHANGED <<pointed, named, caches, files, mover, probe>>

-------------------------------------------------------------------------------
ReadStep(r) ==
    \/ TakeSnapshot(r) \/ LoadFails(r) \/ PublishFrame(r)
    \/ Hit(r) \/ Recheck(r) \/ Compute(r) \/ ComputeFails(r)
    \/ DiskSkip(r) \/ DiskOpen(r) \/ DiskFill(r) \/ DiskReplace(r)
    \/ Publish(r) \/ PublishOrder(r) \/ PublishTrim(r)

IndexNext ==
    \/ \E g \in Generations : Activate(g)
    \/ Repoint
    \/ ProbeStart \/ ProbePublish
    \/ \E r \in Readers : \/ \E k \in Keys : Begin(r, k)
                          \/ ReadStep(r)

IndexSpec == IndexInit /\ [][IndexNext]_indexVars

-------------------------------------------------------------------------------
(* Properties. *)

\* Whatever is cached was read from the index that is named now: no load and
\* no fingerprint begun before a repoint is published after it; and whatever
\* the memo or the disk can answer from was computed from the generation its
\* key names.
CachesFollowIndex ==
    /\ {frame, fp} \subseteq {None, Last(named)}
    /\ \A m \in memo : m.value = m.key[2] /\ m.key[2] = named[m.key[3]]
    /\ \A n \in Names : disk[n] \in Generations => disk[n] = n[2]

\* A read answers with work on the generation that is active when it answers,
\* wherever the work came from, and gives up only after the generation changed
\* in each of its attempts; and the caches follow the index.
ReadIsHonest ==
    [][/\ CachesFollowIndex'
       /\ \A r \in Readers : ReaderAt(r, "done")' /\ ~ReaderAt(r, "done") =>
              /\ rd'[r].work \in Generations => rd'[r].work = Last(named)
              /\ rd'[r].work = "moved" => Epoch - rd[r].began >= MaxAttempts]_indexVars

===============================================================================
