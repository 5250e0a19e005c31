------------------------------ MODULE RunsProofs ------------------------------
(***************************************************************************)
(* Two proofs about long calls.  First, what a reader is shown is what it  *)
(* asked for, for every number of clients, ids, bundles and requests       *)
(* (ModelRuns).  Second, what the user queued of a research stays backed,  *)
(* and a purge waits for the workers, for every number of runs and         *)
(* documents (ResearchRuns).                                               *)
(*                                                                         *)
(* Two strengthenings carry ReadsAreOwn.  An answer may come from the      *)
(* cache, so every entry must fit the key it is kept under, and a read may *)
(* hold pages only if its request allowed them: both are part of the sets  *)
(* below that the state is typed by.  And a job that is active must be     *)
(* held, by a client, in a state that _terminate ends: otherwise the       *)
(* answer of its worker would leave it active with nobody behind it.       *)
(*                                                                         *)
(* HistoryIsSafe rests on what a handler holds between its check and its   *)
(* write (QueueHolds), and that on a worker finding a candidate once       *)
(* (FoundOnce): one found again after a purge would have no capture.       *)
(***************************************************************************)
EXTENDS ResearchRuns, ModelRuns, TLAPS
RunIds == Ids \cup {Nobody}

\* A narration that fits a bundle and what a request allowed.
Fits(read, bundle, wishes) ==
    /\ read.bundle = bundle
    /\ read.parts \ {"grounded"} \subseteq wishes
    /\ "research" \in read.parts => read.sources

Narrated == [status : {"ok"}, bundle : Bundles, parts : SUBSET Parts, sources : BOOLEAN]

\* A read from its request to the last call; pages come with the wish for them.
Reading ==
    {x \in [at : {"asked", "researching", "trying", "waiting", "calling"},
            id : RunIds, bundle : Bundles, provider : Providers, wishes : WishSets,
            refresh : BOOLEAN, sources : BOOLEAN, tries : Nat, answer : {NoAnswer}] :
        /\ x.provider = "off" => x.at = "asked"
        /\ x.sources => "research" \in x.wishes}

Telling ==
    {x \in [at : {"answering"}, id : RunIds, bundle : Bundles, wishes : WishSets,
            answer : Narrated] :
        Fits(x.answer, x.bundle, x.wishes)}

Leaving ==
    [at : {"answering", "raising", "raising again"}, id : RunIds,
     answer : [status : {"none", "disabled", "unavailable", "local_only", "replayed",
                         "installed"}]]

OtherLane == [at : {"replaying", "preparing", "pulling"}, id : RunIds, answer : {NoAnswer}]

InCall == Reading \cup Telling \cup Leaving \cup OtherLane

Held == [state : {"running", "cancelled"}, active : {TRUE}, owner : Clients]
Loose == [state : {"none", "cancelled", "done", "failed"}, active : {FALSE}, owner : {Nobody}]

RunTypes ==
    /\ jobs \in [Ids -> Held \cup Loose]
    /\ run \in [Clients -> InCall \cup {NoRun}]
    /\ narrations \in [Keys -> Narrated \cup {NoAnswer}]
    /\ asked \in Nat

\* Every narration kept fits the key it is kept under.
CacheFits ==
    \A k \in Keys : narrations[k] # NoAnswer => Fits(narrations[k], k[1], k[3])

RunsInv == RunTypes /\ CacheFits /\ JobsAreOwned

-------------------------------------------------------------------------------
(* Records. *)

LEMMA NotIdle == ASSUME NEW x, x.at # "idle" PROVE x # NoRun
BY DEF NoRun

LEMMA AtWorkWorks == ASSUME NEW x \in InCall PROVE x # NoRun /\ x.id \in RunIds
<1>1. CASE x \in Reading
  BY <1>1, NotIdle DEF Reading
<1>2. CASE x \in Telling
  BY <1>2, NotIdle DEF Telling
<1>3. CASE x \in Leaving \cup OtherLane
  BY <1>3, NotIdle DEF Leaving, OtherLane
<1> QED BY <1>1, <1>2, <1>3 DEF InCall

LEMMA RunRecords ==
    ASSUME RunsInv, NEW c \in Clients
    PROVE  /\ run[c].at \in {"asked", "researching", "trying", "waiting", "calling"}
                => run[c] \in Reading
           /\ run[c].at \in {"raising", "raising again"} => run[c] \in Leaving
           /\ run[c].at = "answering" => run[c] \in Telling \cup Leaving
           /\ run[c].at \in {"replaying", "preparing", "pulling"} => run[c] \in OtherLane
           /\ run[c] # NoRun => run[c] \in InCall
           /\ run[c].at # "idle" => run[c] # NoRun
<1>1. run[c] \in InCall \cup {NoRun}
  BY DEF RunsInv, RunTypes
<1>2. run[c].at # "idle" => run[c] # NoRun
  BY NotIdle
<1>3. ASSUME NEW x \in Reading
      PROVE  x.at \in {"asked", "researching", "trying", "waiting", "calling"}
  BY DEF Reading
<1>4. ASSUME NEW x \in Telling
      PROVE  x.at = "answering"
  BY DEF Telling
<1>5. ASSUME NEW x \in Leaving \cup OtherLane
      PROVE  \/ x \in Leaving /\ x.at \in {"answering", "raising", "raising again"}
             \/ x \in OtherLane /\ x.at \in {"replaying", "preparing", "pulling"}
  BY DEF Leaving, OtherLane
<1>6. NoRun.at = "idle"
  BY DEF NoRun
<1> QED BY <1>1, <1>2, <1>3, <1>4, <1>5, <1>6 DEF InCall

\* The answers that fit are those of the records.
LEMMA FitsFollows == RunsInv => AnswersFit
<1> SUFFICES ASSUME RunsInv, NEW c \in Clients, run[c] # NoRun, run[c].answer.status = "ok"
             PROVE  Fits(run[c].answer, run[c].bundle, run[c].wishes)
  BY DEF AnswersFit, Fits, Working
<1>1. run[c] \in InCall
  BY RunRecords
<1>2. run[c] \notin Reading \cup OtherLane
  BY DEF Reading, OtherLane, NoAnswer
<1>3. run[c] \notin Leaving
  BY DEF Leaving
<1>4. run[c] \in Telling
  BY <1>1, <1>2, <1>3 DEF InCall
<1> QED BY <1>4 DEF Telling

-------------------------------------------------------------------------------
(* Jobs and their workers. *)

\* A worker that goes on keeps its job.
LEMMA GoesOn ==
    ASSUME RunsInv, NEW c \in Clients, run[c] # NoRun, NEW x \in InCall, x.id = run[c].id,
           run' = [run EXCEPT ![c] = x], UNCHANGED jobs
    PROVE  /\ run' \in [Clients -> InCall \cup {NoRun}]
           /\ JobsAreOwned'
<1>1. run' \in [Clients -> InCall \cup {NoRun}]
  BY DEF RunsInv, RunTypes
<1>2. \A d \in Clients : (run'[d] # NoRun <=> run[d] # NoRun) /\ run'[d].id = run[d].id
  BY AtWorkWorks DEF RunsInv, RunTypes
<1>3. \A id \in ReadIds \cup ReplayIds : jobs[id].active => jobs[id].owner \in Clients
  BY DEF RunsInv, RunTypes, Ids, Held, Loose
<1> QED BY <1>1, <1>2, <1>3 DEF RunsInv, JobsAreOwned, Working

\* Such a step keeps the invariant, unless it touches the cache.
LEMMA GoesOnKeeps ==
    ASSUME RunsInv, NEW c \in Clients, run[c] # NoRun, NEW x \in InCall, x.id = run[c].id,
           run' = [run EXCEPT ![c] = x], UNCHANGED <<jobs, narrations, asked>>
    PROVE  RunsInv'
BY GoesOn DEF RunsInv, RunTypes, CacheFits

\* Leaving, with or without an answer.
LEMMA LeavesKeeps ==
    ASSUME RunsInv, NEW c \in Clients, run[c] # NoRun,
           NEW at \in {"answering", "raising"},
           NEW status \in {"none", "disabled", "unavailable", "local_only", "replayed",
                           "installed"},
           Leaves(c, at, status), UNCHANGED <<jobs, narrations, asked>>
    PROVE  RunsInv'
<1> DEFINE x == [at |-> at, id |-> run[c].id, answer |-> Plain(status)]
<1>1. run[c].id \in RunIds
  BY RunRecords, AtWorkWorks
<1>2. x \in InCall /\ x.id = run[c].id
  BY <1>1 DEF InCall, Leaving, Plain
<1>3. run' = [run EXCEPT ![c] = x]
  BY DEF Leaves, RunsInv, RunTypes
<1> HIDE DEF x
<1> QED BY <1>2, <1>3, GoesOnKeeps

\* A read that goes on, its request known.
LEMMA ReadGoesKeeps ==
    ASSUME RunsInv, NEW c \in Clients, run[c] \in Reading, run[c].provider # "off",
           NEW at \in {"researching", "trying", "waiting", "calling"},
           RunGoes(c, at), UNCHANGED <<jobs, narrations, asked>>
    PROVE  RunsInv'
<1> DEFINE x == [run[c] EXCEPT !.at = at, !.refresh = FALSE]
<1>1. x \in InCall /\ x.id = run[c].id
  BY DEF Reading, InCall
<1>2. run' = [run EXCEPT ![c] = x]
  BY DEF RunGoes, RunsInv, RunTypes
<1>3. run[c] # NoRun
  BY AtWorkWorks DEF InCall
<1> HIDE DEF x
<1> QED BY <1>1, <1>2, <1>3, GoesOnKeeps

\* A narration that fits is told.
LEMMA TellsType ==
    ASSUME RunsInv, NEW c \in Clients, run[c] \in Reading, NEW read \in Narrated,
           Fits(read, run[c].bundle, run[c].wishes), Tells(c, read)
    PROVE  \E x \in InCall : x.id = run[c].id /\ run' = [run EXCEPT ![c] = x]
<1> DEFINE x == [at |-> "answering", id |-> run[c].id, bundle |-> run[c].bundle,
                 wishes |-> run[c].wishes, answer |-> read]
<1>1. x \in InCall /\ x.id = run[c].id
  BY DEF Reading, InCall, Telling
<1>2. run' = [run EXCEPT ![c] = x]
  BY DEF Tells, RunsInv, RunTypes
<1> HIDE DEF x
<1> QED BY <1>1, <1>2

-------------------------------------------------------------------------------
(* Requests and answers. *)

\* A job opens for a client that works on nothing, under an id nobody works on.
LEMMA AskKeeps ==
    ASSUME RunsInv, NEW c \in Clients, NEW id \in RunIds, NEW work \in InCall,
           work.id = id, Ask(c, id, work)
    PROVE  RunsInv'
<1> USE DEF RunsInv
<1>1. jobs' \in [Ids -> Held \cup Loose]
  <2>1. Opened(c) \in Held
    BY DEF Opened, Held
  <2> QED BY <2>1 DEF Ask, RunTypes
<1>2. run' = [run EXCEPT ![c] = work] /\ work # NoRun
  BY AtWorkWorks DEF Ask
<1>3. run' \in [Clients -> InCall \cup {NoRun}] /\ asked' \in Nat
  BY <1>2 DEF Ask, RunTypes
<1>4. JobsAreOwned'
  <2> SUFFICES ASSUME NEW i \in ReadIds \cup ReplayIds
               PROVE  /\ \A d \in Clients : run'[d] # NoRun /\ run'[d].id = i
                               => jobs'[i].active /\ jobs'[i].owner = d
                      /\ jobs'[i].active
                               => run'[jobs'[i].owner] # NoRun /\ run'[jobs'[i].owner].id = i
    BY DEF JobsAreOwned, Working
  <2>0. i \in Ids /\ i # Nobody
    BY LanesAssumption DEF Ids
  <2>1. run[c] = NoRun /\ run'[c] = work /\ \A d \in Clients \ {c} : run'[d] = run[d]
    BY <1>2 DEF Ask, RunTypes
  <2>2. CASE i = id
    <3>1. ~jobs[i].active /\ jobs'[i] = Opened(c)
      BY <2>0, <2>2 DEF Ask, Free, RunTypes
    <3>2. \A d \in Clients \ {c} : ~(run[d] # NoRun /\ run[d].id = i)
      BY <3>1 DEF JobsAreOwned, Working
    <3> QED BY <1>2, <2>1, <2>2, <3>1, <3>2 DEF Opened
  <2>3. CASE i # id
    <3>1. jobs'[i] = jobs[i]
      BY <2>0, <2>3 DEF Ask, RunTypes
    <3>2. jobs[i].active => jobs[i].owner \in Clients \ {c}
      BY <2>0, <2>1 DEF RunTypes, Held, Loose, JobsAreOwned, Working
    <3> QED BY <2>1, <2>3, <3>1, <3>2 DEF JobsAreOwned, Working
  <2> QED BY <2>2, <2>3
<1> QED BY <1>1, <1>3, <1>4 DEF Ask, RunTypes, CacheFits

\* The worker of a read or a replay ends its own job, and no other.
LEMMA EndKeeps ==
    ASSUME RunsInv, NEW c \in Clients, run[c] # NoRun, NEW state \in {"done", "failed"},
           End(c, state), NEW x \in InCall \cup {NoRun},
           run' = [run EXCEPT ![c] = x],
           x # NoRun => x.id = run[c].id /\ x.id \in DownloadIds,
           UNCHANGED <<narrations, asked>>
    PROVE  RunsInv'
<1> USE DEF RunsInv
<1>0. run[c].id \in RunIds
  BY RunRecords, AtWorkWorks
<1>1. \A held \in Held \cup Loose :
          Ended(held, state) \in Held \cup Loose /\ ~Ended(held, state).active
  BY DEF Ended, Held, Loose
<1>2. jobs' \in [Ids -> Held \cup Loose]
  <2>1. CASE run[c].id = Nobody
    BY <2>1 DEF End, RunTypes
  <2>2. CASE run[c].id # Nobody
    <3>1. run[c].id \in Ids
      BY <1>0, <2>2 DEF RunIds
    <3>2. Ended(jobs[run[c].id], state) \in Held \cup Loose
      BY <1>1, <3>1 DEF RunTypes
    <3> QED BY <2>2, <3>2 DEF End, RunTypes
  <2> QED BY <2>1, <2>2
<1>3. run' \in [Clients -> InCall \cup {NoRun}]
  BY DEF RunTypes
<1>4. JobsAreOwned'
  <2> SUFFICES ASSUME NEW i \in ReadIds \cup ReplayIds
               PROVE  /\ \A d \in Clients : run'[d] # NoRun /\ run'[d].id = i
                               => jobs'[i].active /\ jobs'[i].owner = d
                      /\ jobs'[i].active
                               => run'[jobs'[i].owner] # NoRun /\ run'[jobs'[i].owner].id = i
    BY DEF JobsAreOwned, Working
  <2>0. i \in Ids /\ i # Nobody /\ i \notin DownloadIds
    BY LanesAssumption DEF Ids
  <2>1. run'[c] = x /\ \A d \in Clients \ {c} : run'[d] = run[d]
    BY DEF RunTypes
  <2>2. x = NoRun \/ x.id # i
    BY <2>0
  <2>3. CASE i = run[c].id
    <3>1. ~jobs'[i].active
      BY <1>1, <2>0, <2>3 DEF End, RunTypes
    <3>2. \A d \in Clients \ {c} : ~(run[d] # NoRun /\ run[d].id = i)
      BY <2>3 DEF JobsAreOwned, Working
    <3> QED BY <2>1, <2>2, <3>1, <3>2
  <2>4. CASE i # run[c].id
    <3>1. jobs'[i] = jobs[i]
      BY <2>0, <2>4 DEF End, RunTypes
    <3>2. jobs[i].active => jobs[i].owner \in Clients \ {c}
      BY <2>0, <2>4 DEF RunTypes, Held, Loose, JobsAreOwned, Working
    <3> QED BY <2>1, <2>2, <3>1, <3>2 DEF JobsAreOwned, Working
  <2> QED BY <2>3, <2>4
<1> QED BY <1>2, <1>3, <1>4 DEF RunTypes, CacheFits

LEMMA AnswerKeeps ==
    ASSUME RunsInv, NEW c \in Clients, Answer(c) \/ Raise(c)
    PROVE  RunsInv'
<1>1. run[c] # NoRun
  <2>1. run[c].at \in {"answering", "raising", "raising again"}
    BY DEF Answer, Raise
  <2> QED BY <2>1, RunRecords
<1>2. CASE Answer(c)
  BY <1>1, <1>2, EndKeeps DEF Answer
<1>3. CASE Raise(c)
  <2> DEFINE x == IF run[c].id \in DownloadIds /\ run[c].at = "raising" /\ ~RunCancelled(c)
                  THEN [run[c] EXCEPT !.at = "raising again"] ELSE NoRun
  <2>1. run[c] \in Leaving
    BY <1>3, RunRecords DEF Raise
  <2>2. [run[c] EXCEPT !.at = "raising again"] \in Leaving
    BY <2>1 DEF Leaving
  <2>3. x \in InCall \cup {NoRun}
    BY <2>2 DEF InCall
  <2>4. x # NoRun => x.id = run[c].id /\ x.id \in DownloadIds
    BY <2>1 DEF Leaving
  <2>5. run' = [run EXCEPT ![c] = x]
    BY <1>3 DEF Raise, RunsInv, RunTypes
  <2> HIDE DEF x
  <2> QED BY <1>1, <1>3, <2>3, <2>4, <2>5, EndKeeps DEF Raise
<1> QED BY <1>2, <1>3

-------------------------------------------------------------------------------
(* The read of a model. *)

LEMMA LookKeeps ==
    ASSUME RunsInv, NEW c \in Clients, Look(c)
    PROVE  RunsInv'
<1>1. run[c] \in Reading /\ run[c] # NoRun
  <2>1. run[c].at = "asked"
    BY DEF Look
  <2> QED BY <2>1, RunRecords
<1>2. CASE Answers(c, "disabled") \/ Answers(c, "unavailable")
  BY <1>1, <1>2, LeavesKeeps DEF Look, Answers
<1>3. CASE run[c].provider # "off" /\ RunGoes(c, "researching")
  BY <1>1, <1>3, ReadGoesKeeps DEF Look
<1>4. CASE /\ run[c].provider # "off"
           /\ narrations[Key(c)] # NoAnswer
           /\ Tells(c, narrations[Key(c)])
  <2>1. Key(c) \in Keys /\ Key(c)[1] = run[c].bundle /\ Key(c)[3] = run[c].wishes
    BY <1>1, <1>4 DEF Key, Keys, Reading
  <2>2. narrations[Key(c)] \in Narrated
        /\ Fits(narrations[Key(c)], run[c].bundle, run[c].wishes)
    BY <1>4, <2>1 DEF RunsInv, RunTypes, CacheFits
  <2>3. PICK x \in InCall : x.id = run[c].id /\ run' = [run EXCEPT ![c] = x]
    BY <1>1, <1>4, <2>2, TellsType
  <2> QED BY <1>1, <2>3, GoesOnKeeps DEF Look
<1> QED BY <1>2, <1>3, <1>4 DEF Look

LEMMA ResearchKeeps ==
    ASSUME RunsInv, NEW c \in Clients, ResearchPages(c)
    PROVE  RunsInv'
<1> PICK found \in BOOLEAN :
        /\ found => "research" \in run[c].wishes
        /\ run' = [run EXCEPT ![c].at = "trying", ![c].sources = found]
  BY DEF ResearchPages
<1> DEFINE x == [run[c] EXCEPT !.at = "trying", !.sources = found]
<1>1. run[c] \in Reading /\ run[c] # NoRun /\ run[c].provider # "off"
  <2>1. run[c].at \in {"researching", "trying", "waiting", "calling"}
    BY DEF ResearchPages
  <2>2. run[c] \in Reading /\ run[c] # NoRun
    BY <2>1, RunRecords
  <2> QED BY <2>1, <2>2 DEF Reading
<1>2. x \in Reading /\ x.id = run[c].id
  BY <1>1 DEF Reading
<1>3. run' = [run EXCEPT ![c] = x]
  BY DEF RunsInv, RunTypes
<1> HIDE DEF x
<1> QED BY <1>1, <1>2, <1>3, GoesOnKeeps DEF ResearchPages, InCall

LEMMA TryKeeps ==
    ASSUME RunsInv, NEW c \in Clients, Try(c) \/ TakeModel(c) \/ StopWaiting(c)
    PROVE  RunsInv'
<1>1. run[c] \in Reading /\ run[c] # NoRun /\ run[c].provider # "off"
  <2>1. run[c].at \in {"researching", "trying", "waiting", "calling"}
    BY DEF Try, TakeModel, StopWaiting
  <2>2. run[c] \in Reading /\ run[c] # NoRun
    BY <2>1, RunRecords
  <2> QED BY <2>1, <2>2 DEF Reading
<1>2. CASE Answers(c, "local_only") \/ Answers(c, "unavailable")
  BY <1>1, <1>2, LeavesKeeps DEF Try, TakeModel, StopWaiting, Answers
<1>3. CASE RunGoes(c, "waiting") \/ RunGoes(c, "calling")
  BY <1>1, <1>3, ReadGoesKeeps DEF Try, TakeModel, StopWaiting
<1> QED BY <1>2, <1>3 DEF Try, TakeModel, StopWaiting

\* A call that cost an attempt.
LEMMA NextAttemptKeeps ==
    ASSUME RunsInv, NEW c \in Clients, run[c] \in Reading, run[c].provider # "off",
           NextAttempt(c), UNCHANGED <<jobs, narrations, asked>>
    PROVE  RunsInv'
<1> DEFINE x == [run[c] EXCEPT !.at = "trying", !.tries = run[c].tries + 1]
<1>1. run[c] # NoRun
  BY AtWorkWorks DEF InCall
<1>2. CASE Answers(c, "local_only")
  BY <1>1, <1>2, LeavesKeeps DEF Answers
<1>3. CASE run' = [run EXCEPT ![c].at = "trying", ![c].tries = @ + 1]
  <2>1. run[c].tries + 1 \in Nat
    BY DEF Reading
  <2>2. x \in Reading /\ x.id = run[c].id
    BY <2>1 DEF Reading
  <2>3. run' = [run EXCEPT ![c] = x]
    BY <1>3 DEF RunsInv, RunTypes
  <2> HIDE DEF x
  <2> QED BY <1>1, <2>2, <2>3, GoesOnKeeps DEF InCall
<1> QED BY <1>2, <1>3 DEF NextAttempt

LEMMA CallFailsKeeps ==
    ASSUME RunsInv, NEW c \in Clients, CallFails(c)
    PROVE  RunsInv'
<1>1. run[c] \in Reading /\ run[c] # NoRun /\ run[c].provider # "off"
  <2>1. run[c].at \in {"researching", "trying", "waiting", "calling"}
    BY DEF CallFails
  <2>2. run[c] \in Reading /\ run[c] # NoRun
    BY <2>1, RunRecords
  <2> QED BY <2>1, <2>2 DEF Reading
<1>2. CASE NextAttempt(c)
  BY <1>1, <1>2, NextAttemptKeeps DEF CallFails
<1>3. CASE Answers(c, "local_only") \/ Raises(c)
  BY <1>1, <1>3, LeavesKeeps DEF CallFails, Answers, Raises
<1> QED BY <1>2, <1>3 DEF CallFails

\* What the review keeps is what the request allowed, and is kept under a key that
\* says so.
LEMMA ReviewKeeps ==
    ASSUME RunsInv, NEW c \in Clients, ReviewReply(c)
    PROVE  RunsInv'
<1>1. run[c] \in Reading /\ run[c] # NoRun /\ run[c].provider # "off"
  <2>1. run[c].at \in {"researching", "trying", "waiting", "calling"}
    BY DEF ReviewReply
  <2>2. run[c] \in Reading /\ run[c] # NoRun
    BY <2>1, RunRecords
  <2> QED BY <2>1, <2>2 DEF Reading
<1>2. CASE NextAttempt(c) /\ UNCHANGED narrations
  BY <1>1, <1>2, NextAttemptKeeps DEF ReviewReply
<1>3. ASSUME NEW reply \in SUBSET Parts,
             narrations' = [narrations EXCEPT ![Key(c)] =
                 Read(run[c].bundle, Kept(c, reply), run[c].sources)],
             Tells(c, Read(run[c].bundle, Kept(c, reply), run[c].sources))
      PROVE  RunsInv'
  <2> DEFINE read == Read(run[c].bundle, Kept(c, reply), run[c].sources)
  <2>1. Kept(c, reply) \subseteq Parts /\ Kept(c, reply) \ {"grounded"} \subseteq run[c].wishes
    BY <1>1 DEF Kept, Reading
  <2>2. "research" \in Kept(c, reply) => run[c].sources
    BY DEF Kept
  <2>3. read \in Narrated /\ Fits(read, run[c].bundle, run[c].wishes)
    BY <1>1, <2>1, <2>2 DEF Read, Narrated, Fits, Reading
  <2>4. Key(c) \in Keys /\ Key(c)[1] = run[c].bundle /\ Key(c)[3] = run[c].wishes
    BY <1>1 DEF Key, Keys, Reading
  <2>5. narrations' = [narrations EXCEPT ![Key(c)] = read]
    BY <1>3
  <2>6. PICK x \in InCall : x.id = run[c].id /\ run' = [run EXCEPT ![c] = x]
    BY <1>1, <1>3, <2>3, TellsType
  <2> HIDE DEF read
  <2>7. narrations' \in [Keys -> Narrated \cup {NoAnswer}] /\ CacheFits'
    BY <2>3, <2>4, <2>5 DEF RunsInv, RunTypes, CacheFits
  <2>8. run' \in [Clients -> InCall \cup {NoRun}] /\ JobsAreOwned'
    BY <1>1, <2>6, GoesOn DEF ReviewReply
  <2> QED BY <2>7, <2>8 DEF ReviewReply, RunsInv, RunTypes
<1> QED BY <1>2, <1>3 DEF ReviewReply

-------------------------------------------------------------------------------
(* The other lanes. *)

LEMMA LanesKeep ==
    ASSUME RunsInv, NEW c \in Clients, Replay(c) \/ Pull(c) \/ Pulled(c)
    PROVE  RunsInv'
<1>1. run[c] \in OtherLane /\ run[c] # NoRun
  <2>1. run[c].at \in {"replaying", "preparing", "pulling"}
    BY DEF Replay, Pull, Pulled
  <2> QED BY <2>1, RunRecords
<1>2. CASE Answers(c, "replayed") \/ Answers(c, "installed") \/ Raises(c)
  BY <1>1, <1>2, LeavesKeeps DEF Replay, Pull, Pulled, Answers, Raises
<1>3. CASE run' = [run EXCEPT ![c].at = "pulling"]
  <2> DEFINE x == [run[c] EXCEPT !.at = "pulling"]
  <2>1. x \in OtherLane /\ x.id = run[c].id
    BY <1>1 DEF OtherLane
  <2>2. run' = [run EXCEPT ![c] = x]
    BY <1>3 DEF RunsInv, RunTypes
  <2> HIDE DEF x
  <2> QED BY <1>1, <2>1, <2>2, GoesOnKeeps DEF InCall, Replay, Pull, Pulled
<1> QED BY <1>2, <1>3 DEF Replay, Pull, Pulled

-------------------------------------------------------------------------------
(* The steps of the specification. *)

LEMMA RunsStart ==
    ASSUME RunInit
    PROVE  RunsInv
<1>1. NoTracked \in Loose /\ ~NoTracked.active
  BY DEF NoTracked, Loose
<1>2. RunTypes
  BY <1>1 DEF RunInit, RunTypes
<1>3. CacheFits /\ JobsAreOwned
  BY <1>1 DEF RunInit, CacheFits, JobsAreOwned, Working, Ids
<1> QED BY <1>2, <1>3 DEF RunsInv

LEMMA RunsStep ==
    ASSUME RunsInv, [RunNext]_runVars
    PROVE  RunsInv'
<1>1. ASSUME NEW c \in Clients,
             AskForecastRead(c) \/ AskMatchRead(c) \/ AskReplay(c) \/ AskDownload(c)
      PROVE  RunsInv'
  <2>1. ASSUME NEW id \in RunIds, NEW b \in Bundles, NEW q \in Requests
        PROVE  Asked(id, b, q) \in InCall /\ Asked(id, b, q).id = id
    BY DEF Asked, Requests, Reading, InCall
  <2>2. ASSUME NEW id \in RunIds, NEW at \in {"replaying", "preparing"}
        PROVE  [at |-> at, id |-> id, answer |-> NoAnswer] \in InCall
    BY DEF OtherLane, InCall
  <2>3. CASE AskForecastRead(c) \/ AskMatchRead(c)
    BY <2>1, <2>3, AskKeeps DEF AskForecastRead, AskMatchRead, RunIds, Ids, Bundles
  <2>4. CASE AskReplay(c) \/ AskDownload(c)
    BY <2>2, <2>4, AskKeeps DEF AskReplay, AskDownload, RunIds, Ids
  <2> QED BY <1>1, <2>3, <2>4
<1>2. ASSUME NEW c \in Clients, RunStep(c)
      PROVE  RunsInv'
  BY <1>2, AnswerKeeps, LookKeeps, ResearchKeeps, TryKeeps, CallFailsKeeps, ReviewKeeps, LanesKeep
     DEF RunStep
\* A cancellation changes the public state only; what it may free is not active.
<1>3. ASSUME NEW id \in Ids, CancelRun(id)
      PROVE  RunsInv'
  <2>1. jobs[id] \in Held /\ [jobs[id] EXCEPT !.state = "cancelled"] \in Held
    BY <1>3 DEF CancelRun, RunsInv, RunTypes, Held, Loose
  <2>2. jobs' = [jobs EXCEPT ![id] = [jobs[id] EXCEPT !.state = "cancelled"]]
    BY <1>3 DEF CancelRun, RunsInv, RunTypes
  <2>3. \A i \in Ids : jobs'[i].active = jobs[i].active /\ jobs'[i].owner = jobs[i].owner
    BY <2>1, <2>2 DEF RunsInv, RunTypes, Held
  <2>4. JobsAreOwned'
    BY <1>3, <2>3 DEF CancelRun, RunsInv, JobsAreOwned, Working, Ids
  <2> QED BY <1>3, <2>1, <2>2, <2>4 DEF CancelRun, RunsInv, RunTypes, CacheFits
<1>4. ASSUME NEW id \in Ids, Prune(id)
      PROVE  RunsInv'
  <2>1. NoTracked \in Loose /\ ~NoTracked.active
    BY DEF NoTracked, Loose
  <2>2. JobsAreOwned'
    BY <1>4, <2>1 DEF Prune, RunsInv, RunTypes, JobsAreOwned, Working, Ids
  <2> QED BY <1>4, <2>1, <2>2 DEF Prune, RunsInv, RunTypes, CacheFits
<1>5. CASE UNCHANGED runVars
  BY <1>5 DEF runVars, RunsInv, RunTypes, CacheFits, JobsAreOwned, Working
<1> QED BY <1>1, <1>2, <1>3, <1>4, <1>5 DEF RunNext

LEMMA RunsInvariant == RunSpec => []RunsInv
BY RunsStart, RunsStep, PTL DEF RunSpec

\* A reader is never shown a narration of another bundle, or parts it did not allow,
\* though a narration may be kept from another request (NarrationCache.key), and no
\* job is ended by a worker it was not opened with, since an id is not opened again
\* before its worker has returned (JobStore.start).
THEOREM ReadsStayOwn == RunSpec => []ReadsAreOwn
<1>1. RunsInv => ReadsAreOwn
  BY FitsFollows DEF RunsInv, ReadsAreOwn
<1> QED BY <1>1, RunsInvariant, PTL

(***************************************************************************)
(* ResearchRuns.                                                           *)
(***************************************************************************)
\* Who is between the start of its job and its return has an active job; an
\* update belongs to such a worker; a run that is about to start has none.
WorkersKnown ==
    \A r \in Runs :
        /\ wk[r].at \notin {"none", "done"} => job[r].active
        /\ update[r] # NoUpdate => wk[r].at \notin {"none", "done"}
        /\ wk[r].at = "none" => wk[r] = NoWorker
        /\ post.at = "start" /\ post.run = r => wk[r] = NoWorker

\* A document is extracted once in a run: a worker that is to come to it has
\* found nothing in it yet, and nobody queues what is not found.
FoundOnce ==
    \A p \in Pairs : candidates[p] # "none" \/ queue = p =>
        wk[p[1]].at \notin {"none", "task"} /\ p[2] \notin wk[p[1]].todo

\* What a handler has verified holds as long as its candidate is there.
QueueHolds ==
    \A p \in Pairs : queue = p /\ candidates[p] # "none" =>
        p \in captures /\ (p[2] \in blobs \/ p[2] \in lost)

\* A prune that is about to unlink a file has counted no row, or one came since.
RacesAreSeen ==
    post.at = "remove" /\ (\E p \in captures : p[2] = post.digest) => post.raced

ResearchInv ==
    TypeOK /\ WorkersKnown /\ FoundOnce /\ RacesAreSeen /\ QueueHolds /\ QueuedBacked

-------------------------------------------------------------------------------
\* A candidate is of a run and a document, and is not the empty queue.
LEMMA PairsArePairs ==
  /\ \A p \in Pairs : p[1] \in Runs /\ p[2] \in Docs /\ p = <<p[1], p[2]>> /\ p # <<>>
  /\ \A r \in Runs, d \in Docs : <<r, d>> \in Pairs /\ <<r, d>>[1] = r /\ <<r, d>>[2] = d
BY DEF Pairs

\* The row of a run is one of the states of a run, whoever writes it.
LEMMA RowStep ==
  ASSUME TypeOK, [Next]_vars
  PROVE  /\ row' \in [Runs -> RowStates]
         /\ update' \in [Runs -> [to : RowStates, seen : RowStates]]
<1> USE DEF TypeOK, stored, handlers
<1> DEFINE Ok == /\ row' \in [Runs -> RowStates]
                 /\ update' \in [Runs -> [to : RowStates, seen : RowStates]]
<1>1. CASE UNCHANGED <<row, update>>
  BY <1>1
<1>2. ASSUME NEW r \in Runs, NEW to \in RowStates, Updates(r, to), UNCHANGED row
      PROVE  Ok
  BY <1>2 DEF Updates, Update
<1>3. ASSUME NEW r \in Runs, NEW u \in [to : RowStates, seen : RowStates], WriteRow(r, u)
      PROVE  row' \in [Runs -> RowStates]
  BY <1>3 DEF WriteRow
<1>4. ASSUME NEW r \in Runs, Worker(r) PROVE Ok
  <2>1. CASE BackgroundTask(r) \/ InsertCapture(r) \/ Captured(r) \/ Extract(r)
    BY <1>2, <2>1 DEF BackgroundTask, InsertCapture, Captured, Extract, RowStates, Active
  <2>2. CASE Close(r) \/ Fail(r)
    BY <1>2, <2>2 DEF Close, Fail, RowStates, Terminal
  <2>3. CASE Fetch(r) \/ WriteBlob(r) \/ WorkerReturns(r)
    BY <1>1, <2>3 DEF Fetch, WriteBlob, WorkerReturns
  <2>4. CASE WorkerWrites(r)
    <3>1. row' \in [Runs -> RowStates]
      BY <1>3, <2>4 DEF WorkerWrites
    <3>2. NoUpdate \in [to : RowStates, seen : RowStates]
      BY DEF NoUpdate, RowStates
    <3> QED BY <2>4, <3>1, <3>2 DEF WorkerWrites
  <2>5. CASE WorkerRaises(r)
    <3>1. NoUpdate \in [to : RowStates, seen : RowStates]
      BY DEF NoUpdate, RowStates
    <3> QED BY <2>5, <3>1 DEF WorkerRaises
  <2> QED BY <1>4, <2>1, <2>2, <2>3, <2>4, <2>5 DEF Worker
<1>5. ASSUME NEW r \in Runs, PollRecovers(r) \/ Cancel(r) PROVE Ok
  <2>1. Update(r, "cancelled") \in [to : RowStates, seen : RowStates]
    BY DEF Update, RowStates, Terminal
  <2> QED BY <1>3, <1>5, <2>1 DEF PollRecovers, Cancel
<1>7. CASE Post
  BY <1>7 DEF Post, PostPrunes, PostDeletes, PostCounts, PostUnlinks, PostRaises, PostForgets, PostCreates, CreateRun,
              PostStarts, RowStates, Active
<1>8. CASE \/ \E p \in Pairs : QueueLoads(p)
           \/ QueueMarks \/ PurgeChecks \/ UNCHANGED vars
  BY <1>1, <1>8 DEF QueueLoads, QueueMarks, PurgeChecks, vars
<1>9. CASE PurgeSteps \/ Crash
  BY <1>9 DEF PurgeSteps, PurgeRuns, PurgeStore, PurgeFile, PurgeEnds, Crash, NoUpdate, RowStates
<1> QED BY <1>4, <1>5, <1>7, <1>8, <1>9 DEF Next

Places == {"none", "task", "fetch", "blob", "row", "captured", "extract", "close", "finish",
           "raise", "fail", "done"}

\* Workers and jobs, and where they are.
LEMMA WorkersStep ==
  ASSUME TypeOK, [Next]_vars
  PROVE  /\ wk' \in [Runs -> [at : Places, todo : SUBSET Docs]]
         /\ job' \in [Runs -> [state : {"none", "running", "cancelled", "ended"},
                               active : BOOLEAN]]
<1> USE DEF TypeOK, stored, handlers
<1> DEFINE WkOk == wk' \in [Runs -> [at : Places, todo : SUBSET Docs]]
<1> DEFINE JobOk == job' \in [Runs -> [state : {"none", "running", "cancelled", "ended"},
                                       active : BOOLEAN]]
<1>0. wk \in [Runs -> [at : Places, todo : SUBSET Docs]]
  BY DEF Places
<1>1. ASSUME NEW r \in Runs, NEW at \in Places, NEW todo \in SUBSET Docs, Goes(r, at, todo)
      PROVE  WkOk
  BY <1>0, <1>1 DEF Goes
<1>2. ASSUME UNCHANGED wk PROVE WkOk
  BY <1>0, <1>2
<1>3. ASSUME UNCHANGED job PROVE JobOk
  BY <1>3
<1>4. ASSUME NEW r \in Runs PROVE wk[r].todo \in SUBSET Docs /\ wk[r].at \in Places
  BY <1>0
<1>5. ASSUME NEW r \in Runs, Worker(r) PROVE WkOk /\ JobOk
  <2>1. CASE BackgroundTask(r) \/ Captured(r) \/ Close(r) \/ Fail(r)
    BY <1>1, <1>3, <1>4, <2>1 DEF BackgroundTask, Captured, Close, Fail, Places
  <2>2. CASE Fetch(r)
    <3>1. PICK at \in Places, todo \in SUBSET Docs : Goes(r, at, todo)
      <4>1. wk[r].todo \in SUBSET Docs
        BY <1>4
      <4>2. "blob" \in Places /\ "fetch" \in Places
        BY DEF Places
      <4>3. \A d : wk[r].todo \ {d} \in SUBSET Docs
        BY <4>1
      <4> QED BY <2>2, <4>1, <4>2, <4>3 DEF Fetch
    <3> QED BY <1>1, <1>3, <2>2, <3>1 DEF Fetch
  <2>3. CASE WriteBlob(r) \/ InsertCapture(r)
    BY <1>1, <1>3, <1>4, <2>3 DEF WriteBlob, InsertCapture, Places
  <2>4. CASE Extract(r)
    BY <1>1, <1>3, <1>4, <2>4 DEF Extract, Places
  <2>5. CASE WorkerWrites(r)
    <3>1. PICK at \in Places : Goes(r, at, wk[r].todo)
      BY <1>4, <2>5 DEF WorkerWrites, Places
    <3> QED BY <1>1, <1>3, <1>4, <2>5, <3>1 DEF WorkerWrites
  <2>6. CASE WorkerReturns(r)
    <3>1. WkOk
      BY <1>1, <2>6 DEF WorkerReturns, Places
    <3>2. JobOk
      BY <2>6 DEF WorkerReturns, JobEnd
    <3> QED BY <3>1, <3>2
  <2>7. CASE WorkerRaises(r)
    <3>1. PICK at \in Places : Goes(r, at, {})
      BY <2>7 DEF WorkerRaises, Places
    <3> QED BY <1>1, <1>3, <2>7, <3>1 DEF WorkerRaises
  <2> QED BY <1>5, <2>1, <2>2, <2>3, <2>4, <2>5, <2>6, <2>7 DEF Worker
<1>6. ASSUME NEW r \in Runs, PollRecovers(r) \/ Cancel(r) PROVE WkOk /\ JobOk
  <2>1. UNCHANGED wk
    BY <1>6 DEF PollRecovers, Cancel
  <2>2. UNCHANGED job \/ job' = [job EXCEPT ![r].state = "cancelled"]
    BY <1>6 DEF PollRecovers, Cancel, JobCancel
  <2>3. JobOk
    BY <2>2
  <2> QED BY <1>2, <2>1, <2>3
<1>7. CASE PostPrunes \/ PostDeletes \/ PostCounts \/ PostUnlinks \/ PostRaises \/ PostForgets \/ PostCreates
  BY <1>2, <1>3, <1>7 DEF PostPrunes, PostDeletes, PostCounts, PostUnlinks, PostRaises, PostForgets, PostCreates
<1>8. CASE PostStarts
  <2>1. post.run \in Runs
    BY <1>8 DEF PostStarts, NoPost
  <2>2. WkOk
    BY <1>1, <1>8, <2>1 DEF PostStarts, Places
  <2>3. JobOk
    BY <1>8, <2>1 DEF PostStarts, JobStart
  <2> QED BY <2>2, <2>3
<1>9. CASE \/ \E p \in Pairs : QueueLoads(p)
           \/ QueueMarks \/ PurgeChecks \/ PurgeSteps \/ UNCHANGED vars
  BY <1>2, <1>3, <1>9 DEF QueueLoads, QueueMarks, PurgeChecks, PurgeSteps, PurgeRuns, PurgeStore,
                          PurgeFile, PurgeEnds, vars
<1>10. CASE Crash
  <2>1. WkOk
    BY <1>10 DEF Crash, NoWorker, Places
  <2>2. JobOk
    BY <1>10 DEF Crash, NoJob
  <2> QED BY <2>1, <2>2
<1> QED BY <1>5, <1>6, <1>7, <1>8, <1>9, <1>10 DEF Next, Post

\* What is captured and found, and where the handlers are.
LEMMA CapturesStep ==
  ASSUME TypeOK, [Next]_vars
  PROVE  /\ captures' \subseteq Pairs /\ blobs' \subseteq Docs /\ lost' \subseteq Docs
         /\ candidates' \in [Pairs -> {"none", "found", "queued"}]
<1> USE DEF TypeOK, stored, handlers
<1> DEFINE Ok == /\ captures' \subseteq Pairs /\ blobs' \subseteq Docs /\ lost' \subseteq Docs
                 /\ candidates' \in [Pairs -> {"none", "found", "queued"}]
<1>1. CASE UNCHANGED <<captures, blobs, lost, candidates>>
  BY <1>1
<1>2. ASSUME NEW r \in Runs, Worker(r) PROVE Ok
  <2>1. CASE WriteBlob(r)
    BY <2>1 DEF WriteBlob
  <2>2. CASE InsertCapture(r)
    BY <2>2, PairsArePairs DEF InsertCapture
  <2>3. CASE Extract(r)
    <3>1. PICK d \in Docs : \/ UNCHANGED candidates
                            \/ candidates' = [candidates EXCEPT ![<<r, d>>] = "found"]
      BY <2>3 DEF Extract
    <3>2. candidates' \in [Pairs -> {"none", "found", "queued"}]
      BY <3>1
    <3> QED BY <2>3, <3>2 DEF Extract
  <2>4. CASE \/ BackgroundTask(r) \/ WorkerWrites(r) \/ Fetch(r) \/ Captured(r) \/ Close(r)
             \/ WorkerRaises(r) \/ Fail(r) \/ WorkerReturns(r)
    BY <1>1, <2>4 DEF BackgroundTask, WorkerWrites, Fetch, Captured, Close, WorkerRaises, Fail,
                      WorkerReturns
  <2> QED BY <1>2, <2>1, <2>2, <2>3, <2>4 DEF Worker
<1>3. ASSUME NEW r \in Runs, PollRecovers(r) \/ Cancel(r) PROVE Ok
  BY <1>1, <1>3 DEF PollRecovers, Cancel
<1>4. CASE Post
  <2>1. CASE PostUnlinks
    <3>1. post.digest \in Docs
      BY <2>1 DEF PostUnlinks, NoPost
    <3> QED BY <2>1, <3>1 DEF PostUnlinks
  <2>2. CASE PostDeletes
    BY <2>2 DEF PostDeletes
  <2>3. CASE \/ PostPrunes \/ PostCounts \/ PostRaises \/ PostForgets \/ PostCreates
             \/ PostStarts
    BY <1>1, <2>3 DEF PostPrunes, PostCounts, PostRaises, PostForgets, PostCreates, PostStarts
  <2> QED BY <1>4, <2>1, <2>2, <2>3 DEF Post
<1>5. CASE \/ \E p \in Pairs : QueueLoads(p)
           \/ PurgeChecks \/ Crash \/ UNCHANGED vars
  BY <1>1, <1>5 DEF QueueLoads, PurgeChecks, Crash, vars
<1>6. CASE QueueMarks
  BY <1>6 DEF QueueMarks
<1>7. CASE PurgeSteps
  BY <1>7 DEF PurgeSteps, PurgeRuns, PurgeStore, PurgeFile, PurgeEnds
<1> QED BY <1>2, <1>3, <1>4, <1>5, <1>6, <1>7 DEF Next

PostPlaces ==
    {NoPost, [at |-> "create"]}
    \cup [at : {"delete", "forget"}, gone : SUBSET Runs]
    \cup [at : {"unlink"}, gone : SUBSET Runs, digests : SUBSET Docs]
    \cup [at : {"remove"}, gone : SUBSET Runs, digests : SUBSET Docs, digest : Docs,
          raced : BOOLEAN]
    \cup [at : {"start"}, run : Runs]

\* Where POST can be, and what it holds there.
LEMMA PostRecords ==
  /\ NoPost \in PostPlaces /\ [at |-> "create"] \in PostPlaces
  /\ \A gone \in SUBSET Runs : /\ [at |-> "delete", gone |-> gone] \in PostPlaces
                              /\ [at |-> "forget", gone |-> gone] \in PostPlaces
  /\ \A gone \in SUBSET Runs, digests \in SUBSET Docs :
        [at |-> "unlink", gone |-> gone, digests |-> digests] \in PostPlaces
  /\ \A gone \in SUBSET Runs, digests \in SUBSET Docs, d \in Docs, b \in BOOLEAN :
        [at |-> "remove", gone |-> gone, digests |-> digests, digest |-> d, raced |-> b]
            \in PostPlaces
  /\ \A r \in Runs : [at |-> "start", run |-> r] \in PostPlaces
BY DEF PostPlaces

\* The handlers of POST, queue and purge are somewhere in their code.
LEMMA HandlersStep ==
  ASSUME TypeOK, [Next]_vars
  PROVE  /\ post' \in PostPlaces
         /\ queue' \in {<<>>} \cup Pairs
         /\ purging' \in BOOLEAN /\ faults' \in 0..MaxFaults
<1> USE FaultsAssumption DEF stored, handlers
<1> DEFINE Rest == queue' \in {<<>>} \cup Pairs /\ purging' \in BOOLEAN /\ faults' \in 0..MaxFaults
<1>t. /\ post \in PostPlaces /\ queue \in {<<>>} \cup Pairs
      /\ purging \in BOOLEAN /\ faults \in 0..MaxFaults
  BY DEF TypeOK, PostPlaces
<1>u. /\ post.at \in {"delete", "forget"} => post.gone \in SUBSET Runs
      /\ post.at = "unlink" => post \in [at : {"unlink"}, gone : SUBSET Runs, digests : SUBSET Docs]
      /\ post.at = "remove" => post \in [at : {"remove"}, gone : SUBSET Runs,
                                         digests : SUBSET Docs, digest : Docs, raced : BOOLEAN]
  BY <1>t DEF PostPlaces, NoPost
<1>v. captures \subseteq Pairs
  BY DEF TypeOK
<1>1. CASE UNCHANGED <<post, queue, purging, faults>>
  BY <1>1, <1>t
<1>2. ASSUME NEW r \in Runs, Worker(r) \/ PollRecovers(r) \/ Cancel(r)
      PROVE  post' \in PostPlaces /\ Rest
  <2>1. UNCHANGED <<queue, purging>>
    BY <1>2 DEF Worker, BackgroundTask, WorkerWrites, Fetch, WriteBlob, InsertCapture, Captured,
                Extract, Close, WorkerRaises, Fail, WorkerReturns, PollRecovers, Cancel
  <2>2. faults' \in 0..MaxFaults
    BY <1>2, <1>t DEF Worker, BackgroundTask, WorkerWrites, Fetch, WriteBlob, InsertCapture, Captured,
                Extract, Close, WorkerRaises, Fault, Fail, WorkerReturns, PollRecovers, Cancel
  <2>3. \/ UNCHANGED post
        \/ post.at = "remove" /\ post' = [post EXCEPT !.raced = TRUE]
    BY <1>2 DEF Worker, BackgroundTask, WorkerWrites, Fetch, WriteBlob, InsertCapture, Captured,
                Extract, Close, WorkerRaises, Fail, WorkerReturns, PollRecovers, Cancel
  <2>4. post' \in PostPlaces
    <3>1. CASE UNCHANGED post
      BY <1>t, <3>1
    <3>2. CASE post.at = "remove" /\ post' = [post EXCEPT !.raced = TRUE]
      <4> DEFINE gone == post.gone
                 digests == post.digests
                 d == post.digest
      <4>1. /\ gone \in SUBSET Runs /\ digests \in SUBSET Docs /\ d \in Docs
            /\ post' = [at |-> "remove", gone |-> gone, digests |-> digests, digest |-> d,
                        raced |-> TRUE]
        BY <1>u, <3>2
      <4> HIDE DEF gone, digests, d
      <4> QED BY <4>1, PostRecords
    <3> QED BY <2>3, <3>1, <3>2
  <2> QED BY <1>t, <2>1, <2>2, <2>4
<1>3. CASE Post
  <2>1. UNCHANGED <<queue, purging>>
    BY <1>3 DEF Post, PostPrunes, PostDeletes, PostCounts, PostUnlinks, PostRaises, PostForgets,
                PostCreates, PostStarts
  <2>9. faults' \in 0..MaxFaults
    BY <1>3, <1>t DEF Post, PostPrunes, PostDeletes, PostCounts, PostUnlinks, PostRaises, Fault,
                PostForgets, PostCreates, PostStarts
  <2>2. ASSUME PostPrunes PROVE post' \in PostPlaces
    <3>1. PICK expired \in SUBSET Runs :
             post' = IF expired \ Protected = {} THEN [at |-> "create"]
                     ELSE [at |-> "delete", gone |-> expired \ Protected]
      BY <2>2 DEF PostPrunes
    <3> DEFINE gone == expired \ Protected
    <3>2. gone \in SUBSET Runs
      OBVIOUS
    <3>3. [at |-> "delete", gone |-> gone] \in PostPlaces
      BY <3>2, PostRecords
    <3> HIDE DEF gone
    <3>4. post' = [at |-> "create"] \/ post' = [at |-> "delete", gone |-> gone]
      BY <3>1 DEF gone
    <3> QED BY <3>3, <3>4, PostRecords
  <2>3. ASSUME PostDeletes PROVE post' \in PostPlaces
    <3>1. post.gone \subseteq Runs
      BY <1>u, <2>3 DEF PostDeletes
    <3> DEFINE digests == {p[2] : p \in {q \in captures : q[1] \in post.gone}}
    <3>2. digests \in SUBSET Docs
      BY <1>v, PairsArePairs
    <3>3. post' = [at |-> "unlink", gone |-> post.gone, digests |-> digests]
      BY <2>3 DEF PostDeletes
    <3> HIDE DEF digests
    <3> QED BY <3>1, <3>2, <3>3, PostRecords
  <2>4. ASSUME PostCounts PROVE post' \in PostPlaces
    <3>1. post \in [at : {"unlink"}, gone : SUBSET Runs, digests : SUBSET Docs]
      BY <1>u, <2>4 DEF PostCounts
    <3>2. CASE post' = [at |-> "forget", gone |-> post.gone]
      <4>1. post.gone \in SUBSET Runs
        BY <3>1
      <4> QED BY <3>2, <4>1, PostRecords
    <3>3. ASSUME NEW d \in post.digests,
                 \/ post' = [post EXCEPT !.digests = @ \ {d}]
                 \/ post' = [at |-> "remove", gone |-> post.gone, digests |-> post.digests,
                             digest |-> d, raced |-> FALSE]
          PROVE  post' \in PostPlaces
      <4> DEFINE gone == post.gone
                 digests == post.digests
                 left == post.digests \ {d}
      <4>1. d \in Docs /\ left \in SUBSET Docs /\ gone \in SUBSET Runs /\ digests \in SUBSET Docs
        BY <3>1
      <4>2. [post EXCEPT !.digests = @ \ {d}] = [at |-> "unlink", gone |-> gone, digests |-> left]
        BY <3>1
      <4> HIDE DEF gone, digests, left
      <4>3. [at |-> "unlink", gone |-> gone, digests |-> left] \in PostPlaces
        BY <4>1, PostRecords
      <4>4. [at |-> "remove", gone |-> gone, digests |-> digests, digest |-> d, raced |-> FALSE]
              \in PostPlaces
        BY <4>1, PostRecords
      <4> QED BY <3>3, <4>2, <4>3, <4>4 DEF gone, digests
    <3> QED BY <2>4, <3>2, <3>3 DEF PostCounts
  <2>7. ASSUME PostUnlinks PROVE post' \in PostPlaces
    <3> DEFINE gone == post.gone
               left == post.digests \ {post.digest}
    <3>1. gone \in SUBSET Runs /\ left \in SUBSET Docs
      BY <1>u, <2>7 DEF PostUnlinks
    <3>2. post' = [at |-> "unlink", gone |-> gone, digests |-> left]
      BY <2>7 DEF PostUnlinks
    <3> HIDE DEF gone, left
    <3> QED BY <3>1, <3>2, PostRecords
  <2>5. ASSUME PostForgets \/ PostStarts \/ PostRaises PROVE post' \in PostPlaces
    <3>1. post' = NoPost \/ post' = [at |-> "create"]
      BY <2>5 DEF PostForgets, PostStarts, PostRaises
    <3> QED BY <3>1, PostRecords
  <2>6. ASSUME PostCreates PROVE post' \in PostPlaces
    BY <2>6, PostRecords DEF PostCreates
  <2>8. post' \in PostPlaces
    BY <1>3, <2>2, <2>3, <2>4, <2>5, <2>6, <2>7 DEF Post
  <2> QED BY <1>t, <2>1, <2>8, <2>9
<1>4. CASE QueueMarks \/ PurgeChecks \/ PurgeSteps \/ UNCHANGED vars
  <2>1. /\ UNCHANGED post
        /\ queue' = queue \/ queue' = <<>>
        /\ purging' = purging \/ purging' \in BOOLEAN
        /\ faults' = faults \/ (faults < MaxFaults /\ faults' = faults + 1)
    BY <1>4 DEF QueueMarks, PurgeChecks, Fault, PurgeSteps, PurgeRuns, PurgeStore, PurgeFile,
                PurgeEnds, vars
  <2> QED BY <1>t, <2>1
<1>5. ASSUME NEW p \in Pairs, QueueLoads(p)
      PROVE  post' = post /\ queue' = p /\ UNCHANGED <<purging, faults>>
  BY <1>5 DEF QueueLoads
<1>6. CASE Crash
  <2>1. post' = NoPost /\ queue' = <<>> /\ purging' = FALSE
    BY <1>6 DEF Crash
  <2>2. faults' \in 0..MaxFaults
    BY <1>6, <1>t DEF Crash, Fault
  <2> QED BY <2>1, <2>2, PostRecords
<1> QED BY <1>1, <1>t, <1>2, <1>3, <1>4, <1>5, <1>6 DEF Next

\* Every step keeps the kinds of the variables (research/store.py, jobs.py).
LEMMA ResearchTypeStep ==
  ASSUME TypeOK, [Next]_vars
  PROVE  TypeOK'
BY RowStep, WorkersStep, CapturesStep, HandlersStep DEF TypeOK, Places, PostPlaces

-------------------------------------------------------------------------------
\* The job of a worker stays active until the worker returns (jobs.py).
LEMMA KnownStep ==
  ASSUME TypeOK, WorkersKnown, [Next]_vars
  PROVE  WorkersKnown'
<1> USE DEF stored, handlers
<1> DEFINE Known(r) == /\ wk[r].at \notin {"none", "done"} => job[r].active
                       /\ update[r] # NoUpdate => wk[r].at \notin {"none", "done"}
                       /\ wk[r].at = "none" => wk[r] = NoWorker
                       /\ post.at = "start" /\ post.run = r => wk[r] = NoWorker
<1>0. /\ wk \in [Runs -> [at : Places, todo : SUBSET Docs]]
      /\ job \in [Runs -> [state : {"none", "running", "cancelled", "ended"}, active : BOOLEAN]]
      /\ DOMAIN update = Runs
  BY DEF TypeOK, Places
\* A worker that goes on, and one that returns.
<1>1. ASSUME NEW r \in Runs, NEW at, NEW todo, Goes(r, at, todo),
             wk[r].at # "none", at # "none",
             \A s \in Runs : s # r => job'[s] = job[s] /\ update'[s] = update[s],
             \/ at # "done" /\ wk[r].at # "done" /\ UNCHANGED job
             \/ at = "done" /\ update'[r] = NoUpdate,
             UNCHANGED post \/ post'.at # "start"
      PROVE  WorkersKnown'
  <2>1. wk'[r].at = at /\ \A s \in Runs : s # r => wk'[s] = wk[s]
    BY <1>0, <1>1 DEF Goes
  <2>2. ~(post.at = "start" /\ post.run = r)
    BY <1>1 DEF WorkersKnown, NoWorker
  <2> QED BY <1>0, <1>1, <2>1, <2>2 DEF WorkersKnown
<1>2. ASSUME NEW r \in Runs, Worker(r) PROVE WorkersKnown'
  <2>1. \A s \in Runs : s # r => job'[s] = job[s] /\ update'[s] = update[s]
    BY <1>0, <1>2 DEF Worker, BackgroundTask, WorkerWrites, Fetch, WriteBlob, InsertCapture,
                Captured, Extract, Close, WorkerRaises, Fail, WorkerReturns, Updates, JobEnd
  <2>2. UNCHANGED post \/ post'.at # "start"
    <3>1. \/ UNCHANGED post
          \/ post.at = "remove" /\ post' = [post EXCEPT !.raced = TRUE]
      BY <1>2 DEF Worker, BackgroundTask, WorkerWrites, Fetch, WriteBlob, InsertCapture, Captured,
                  Extract, Close, WorkerRaises, Fail, WorkerReturns
    <3>2. post.at = "remove" => post \in [at : {"remove"}, gone : SUBSET Runs,
                                         digests : SUBSET Docs, digest : Docs, raced : BOOLEAN]
      BY DEF TypeOK, NoPost
    <3> QED BY <3>1, <3>2
  <2>3. CASE WorkerReturns(r)
    BY <1>1, <2>1, <2>2, <2>3 DEF WorkerReturns, AtWork
  <2>4. CASE WorkerWrites(r)
    <3>1. wk[r].at \notin {"none", "done"}
      BY <2>4 DEF WorkerWrites, WorkersKnown
    <3>2. \E at : at \notin {"none", "done"} /\ Goes(r, at, wk[r].todo)
      BY <2>4, <3>1 DEF WorkerWrites
    <3> QED BY <1>1, <2>1, <2>2, <2>4, <3>1, <3>2 DEF WorkerWrites
  <2>5. CASE \/ BackgroundTask(r) \/ Fetch(r) \/ WriteBlob(r) \/ InsertCapture(r) \/ Captured(r)
             \/ Extract(r) \/ Close(r) \/ Fail(r)
    <3>1. wk[r].at \notin {"none", "done"} /\ UNCHANGED job
      BY <2>5 DEF BackgroundTask, Fetch, WriteBlob, InsertCapture, Captured, Extract, Close, Fail,
                  AtWork
    <3>2. \E at, todo : at \notin {"none", "done"} /\ Goes(r, at, todo)
      BY <2>5 DEF BackgroundTask, Fetch, WriteBlob, InsertCapture, Captured, Extract, Close, Fail
    <3> QED BY <1>1, <2>1, <2>2, <3>1, <3>2
  <2>6. CASE WorkerRaises(r)
    <3>1. wk[r].at \notin {"none", "done"} /\ UNCHANGED job
      BY <2>6 DEF WorkerRaises
    <3>2. \E at : at \notin {"none", "done"} /\ Goes(r, at, {})
      BY <2>6 DEF WorkerRaises
    <3> QED BY <1>1, <2>1, <2>2, <3>1, <3>2
  <2> QED BY <1>2, <2>3, <2>4, <2>5, <2>6 DEF Worker
<1>3. ASSUME UNCHANGED <<wk, update, post>>, \A r \in Runs : job'[r].active = job[r].active
      PROVE  WorkersKnown'
  BY <1>3 DEF WorkersKnown
<1>4. ASSUME NEW r \in Runs, PollRecovers(r) \/ Cancel(r) PROVE WorkersKnown'
  <2>1. UNCHANGED <<wk, update, post>>
    BY <1>4 DEF PollRecovers, Cancel
  <2>2. \A s \in Runs : job'[s].active = job[s].active
    BY <1>0, <1>4 DEF PollRecovers, Cancel, JobCancel
  <2> QED BY <1>3, <2>1, <2>2
<1>5. CASE PostPrunes \/ PostDeletes \/ PostCounts \/ PostUnlinks \/ PostRaises \/ PostForgets
  <2>1. UNCHANGED <<wk, update, job>>
    BY <1>5 DEF PostPrunes, PostDeletes, PostCounts, PostUnlinks, PostRaises, PostForgets
  <2>2. post.at = "unlink" => post \in [at : {"unlink"}, gone : SUBSET Runs, digests : SUBSET Docs]
    BY DEF TypeOK, NoPost
  <2>3. post'.at # "start"
    <3>1. CASE PostCounts
      BY <2>2, <3>1 DEF PostCounts
    <3>2. CASE PostPrunes \/ PostDeletes \/ PostUnlinks \/ PostRaises \/ PostForgets
      BY <3>2 DEF PostPrunes, PostDeletes, PostUnlinks, PostRaises, PostForgets, NoPost
    <3> QED BY <1>5, <3>1, <3>2
  <2> QED BY <2>1, <2>3 DEF WorkersKnown
<1>6. CASE PostCreates
  <2>1. UNCHANGED <<wk, update, job>>
    BY <1>6 DEF PostCreates
  <2>2. \/ post' = NoPost
        \/ \E r \in Runs : post' = [at |-> "start", run |-> r] /\ wk[r] = NoWorker
    BY <1>6 DEF PostCreates, CreateRun, Fresh
  <2> QED BY <2>1, <2>2 DEF WorkersKnown, NoPost
<1>7. CASE PostStarts
  <2>1. post.run \in Runs /\ wk[post.run] = NoWorker
    BY <1>7 DEF PostStarts, WorkersKnown, TypeOK, NoPost
  <2>2. PICK r \in Runs : r = post.run
    BY <2>1
  <2>3. /\ wk'[r].at = "task" /\ job'[r].active
        /\ \A s \in Runs : s # r => wk'[s] = wk[s] /\ job'[s] = job[s]
        /\ UNCHANGED update /\ post'.at # "start"
    BY <1>0, <1>7, <2>2 DEF PostStarts, Goes, JobStart, NoPost
  <2> QED BY <2>3 DEF WorkersKnown
<1>8. CASE \/ \E p \in Pairs : QueueLoads(p)
           \/ QueueMarks \/ PurgeChecks \/ PurgeSteps \/ UNCHANGED vars
  BY <1>3, <1>8 DEF QueueLoads, QueueMarks, PurgeChecks, PurgeSteps, PurgeRuns, PurgeStore,
                    PurgeFile, PurgeEnds, vars
<1>9. CASE Crash
  BY <1>9 DEF Crash, WorkersKnown, NoPost, NoWorker
<1> QED BY <1>2, <1>4, <1>5, <1>6, <1>7, <1>8, <1>9 DEF Next, Post

\* A worker goes on to documents in which it has found nothing (execute_run).
LEMMA FoundStep ==
  ASSUME TypeOK, WorkersKnown, FoundOnce, [Next]_vars
  PROVE  FoundOnce'
<1> USE DEF stored, handlers
<1> DEFINE Found(p) == candidates[p] # "none" \/ queue = p
<1>0. /\ wk \in [Runs -> [at : Places, todo : SUBSET Docs]]
      /\ candidates \in [Pairs -> {"none", "found", "queued"}]
  BY DEF TypeOK, Places
\* Nothing more is found, and no worker has more to do.
<1>1. ASSUME \A p \in Pairs : Found(p)' => Found(p),
             \A p \in Pairs : Found(p) /\ Found(p)' =>
                 /\ wk[p[1]].at \notin {"none", "task"} => wk'[p[1]].at \notin {"none", "task"}
                 /\ wk'[p[1]].todo \subseteq wk[p[1]].todo
      PROVE  FoundOnce'
  BY <1>1 DEF FoundOnce
<1>2. ASSUME UNCHANGED wk, \A p \in Pairs : Found(p)' => Found(p)
      PROVE  FoundOnce'
  BY <1>1, <1>2
<1>3. ASSUME NEW r \in Runs, NEW at, NEW todo, Goes(r, at, todo), UNCHANGED <<candidates, queue>>,
             wk[r].at # "none", at # "none" /\ (at = "task" => wk[r].at = "task"),
             todo \subseteq wk[r].todo \/ wk[r].at = "task"
      PROVE  FoundOnce'
  <2>1. wk'[r].at = at /\ wk'[r].todo = todo /\ \A q \in Runs : q # r => wk'[q] = wk[q]
    BY <1>0, <1>3 DEF Goes
  <2>2. ASSUME NEW p \in Pairs, Found(p)'
        PROVE  wk'[p[1]].at \notin {"none", "task"} /\ p[2] \notin wk'[p[1]].todo
    <3>1. Found(p)
      BY <1>3, <2>2
    <3>2. wk[p[1]].at \notin {"none", "task"} /\ p[2] \notin wk[p[1]].todo /\ p[1] \in Runs
      BY <3>1, PairsArePairs DEF FoundOnce
    <3> QED BY <1>3, <2>1, <3>2
  <2> QED BY <2>2 DEF FoundOnce
<1>4. ASSUME NEW r \in Runs, Worker(r) PROVE FoundOnce'
  <2>1. CASE \/ BackgroundTask(r) \/ Fetch(r) \/ Captured(r) \/ Close(r) \/ WorkerRaises(r)
             \/ Fail(r) \/ WorkerReturns(r)
    <3>1. UNCHANGED <<candidates, queue>> /\ wk[r].at # "none"
      BY <2>1 DEF BackgroundTask, Fetch, Captured, Close, WorkerRaises, Fail, WorkerReturns, AtWork
    <3>2. CASE BackgroundTask(r)
      BY <1>3, <3>1, <3>2 DEF BackgroundTask, AtWork
    <3>3. CASE Fetch(r)
      <4>1. \E at \in {"blob", "fetch"}, todo \in SUBSET wk[r].todo : Goes(r, at, todo)
        BY <3>3 DEF Fetch
      <4> QED BY <1>3, <3>1, <4>1
    <3>4. CASE Captured(r)
      BY <1>3, <3>1, <3>4 DEF Captured
    <3>5. CASE Close(r) \/ WorkerRaises(r) \/ Fail(r) \/ WorkerReturns(r)
      <4>1. \E at : Goes(r, at, {}) /\ at \notin {"none", "task"}
        BY <3>5 DEF Close, WorkerRaises, Fail, WorkerReturns
      <4> QED BY <1>3, <3>1, <4>1
    <3> QED BY <2>1, <3>2, <3>3, <3>4, <3>5
  <2>2. CASE WriteBlob(r) \/ InsertCapture(r)
    <3>1. /\ UNCHANGED <<candidates, queue>>
          /\ wk[r].at # "none"
      BY <2>2 DEF WriteBlob, InsertCapture, AtWork
    <3>2. \E at : Goes(r, at, wk[r].todo) /\ at \notin {"none", "task"}
      BY <2>2 DEF WriteBlob, InsertCapture
    <3> QED BY <1>3, <3>1, <3>2
  <2>3. CASE WorkerWrites(r)
    <3>1. UNCHANGED <<candidates, queue>> /\ wk[r].at # "none"
      BY <2>3 DEF WorkerWrites, WorkersKnown
    <3>2. \E at : Goes(r, at, wk[r].todo) /\ at # "none" /\ (at = "task" => wk[r].at = "task")
      BY <2>3, <3>1 DEF WorkerWrites
    <3> QED BY <1>3, <3>1, <3>2
  <2>4. CASE Extract(r)
    <3>1. PICK d \in Docs : /\ \/ UNCHANGED candidates
                               \/ candidates' = [candidates EXCEPT ![<<r, d>>] = "found"]
                            /\ Goes(r, "fetch", wk[r].todo \ {d})
      BY <1>0, <2>4 DEF Extract
    <3>2. wk[r].at = "extract" /\ UNCHANGED queue
      BY <2>4 DEF Extract, AtWork
    <3>3. /\ wk'[r].at = "fetch" /\ wk'[r].todo = wk[r].todo \ {d}
          /\ \A q \in Runs : q # r => wk'[q] = wk[q]
      BY <1>0, <3>1 DEF Goes
    <3>4. ASSUME NEW p \in Pairs, Found(p)'
          PROVE  wk'[p[1]].at \notin {"none", "task"} /\ p[2] \notin wk'[p[1]].todo
      <4>1. CASE p = <<r, d>>
        BY <3>3, <4>1
      <4>2. CASE p # <<r, d>>
        <5>1. Found(p)
          BY <1>0, <3>1, <3>2, <3>4, <4>2
        <5>2. wk[p[1]].at \notin {"none", "task"} /\ p[2] \notin wk[p[1]].todo /\ p[1] \in Runs
          BY <5>1, PairsArePairs DEF FoundOnce
        <5> QED BY <3>3, <5>2
      <4> QED BY <4>1, <4>2
    <3> QED BY <3>4 DEF FoundOnce
  <2> QED BY <1>4, <2>1, <2>2, <2>3, <2>4 DEF Worker
<1>5. ASSUME NEW r \in Runs, PollRecovers(r) \/ Cancel(r) PROVE FoundOnce'
  BY <1>2, <1>5 DEF PollRecovers, Cancel
<1>6. CASE PostPrunes \/ PostDeletes \/ PostCounts \/ PostUnlinks \/ PostRaises \/ PostForgets \/ PostCreates
  BY <1>2, <1>6 DEF PostPrunes, PostDeletes, PostCounts, PostUnlinks, PostRaises, PostForgets, PostCreates
<1>7. CASE PostStarts
  <2>1. post.run \in Runs /\ wk[post.run] = NoWorker
    BY <1>7 DEF PostStarts, WorkersKnown, TypeOK, NoPost
  <2>2. UNCHANGED <<candidates, queue>> /\ \A q \in Runs : q # post.run => wk'[q] = wk[q]
    BY <1>0, <1>7, <2>1 DEF PostStarts, Goes
  <2>3. \A p \in Pairs : Found(p) => p[1] # post.run /\ p[1] \in Runs
    BY <2>1, PairsArePairs DEF FoundOnce, NoWorker
  <2> QED BY <1>1, <2>2, <2>3
<1>8. ASSUME NEW p \in Pairs, QueueLoads(p) PROVE FoundOnce'
  BY <1>2, <1>8 DEF QueueLoads
<1>9. CASE QueueMarks
  <2>1. queue \in Pairs /\ UNCHANGED wk /\ queue' = <<>>
    BY <1>9 DEF QueueMarks, TypeOK
  <2>2. \A p \in Pairs : candidates'[p] # "none" => candidates[p] # "none"
    BY <1>0, <1>9, <2>1 DEF QueueMarks
  <2> QED BY <1>2, <2>1, <2>2, PairsArePairs
<1>10. CASE PurgeChecks \/ PurgeSteps \/ UNCHANGED vars
  BY <1>2, <1>10 DEF PurgeChecks, PurgeSteps, PurgeRuns, PurgeStore, PurgeFile, PurgeEnds, vars
<1>11. CASE Crash
  <2>1. /\ candidates' = candidates /\ queue' = <<>>
        /\ \A r \in Runs : \/ wk'[r] = NoWorker /\ wk[r] = NoWorker
                           \/ wk'[r] = [at |-> "done", todo |-> {}]
    BY <1>11 DEF Crash
  <2>2. ASSUME NEW p \in Pairs, Found(p)'
        PROVE  wk'[p[1]].at \notin {"none", "task"} /\ p[2] \notin wk'[p[1]].todo
    <3>1. candidates[p] # "none" /\ p[1] \in Runs
      BY <2>1, <2>2, PairsArePairs
    <3>2. wk[p[1]] # NoWorker
      BY <3>1 DEF FoundOnce, NoWorker
    <3> QED BY <2>1, <3>1, <3>2
  <2> QED BY <2>2 DEF FoundOnce
<1> QED BY <1>4, <1>5, <1>6, <1>7, <1>8, <1>9, <1>10, <1>11 DEF Next, Post

\* Files and rows go only with the candidates that need them, or are on record as
\* lost: a deletion takes both from the same runs, and an unlink follows a count of
\* the rows left, or a row came in between.
LEMMA HoldsStep ==
  ASSUME ResearchInv, [Next]_vars
  PROVE  RacesAreSeen' /\ QueueHolds' /\ QueuedBacked'
<1> USE DEF ResearchInv, stored, handlers
<1> DEFINE Backed(p) == p \in captures /\ (p[2] \in blobs \/ p[2] \in lost)
<1>0. candidates \in [Pairs -> {"none", "found", "queued"}]
  BY DEF TypeOK
\* What counts as held or queued did so before, and still has what it needs.
<1>1. ASSUME \A p \in Pairs : candidates'[p] # "none" => candidates[p] # "none",
             \A p \in Pairs : candidates'[p] = "queued" => candidates[p] = "queued",
             \A p \in Pairs : queue' = p => queue = p,
             \A p \in Pairs : candidates'[p] # "none" /\ Backed(p) => Backed(p)'
      PROVE  QueueHolds' /\ QueuedBacked'
  BY <1>1 DEF QueueHolds, QueuedBacked
<1>2. ASSUME UNCHANGED <<candidates, queue>>, captures \subseteq captures',
             blobs \cup lost \subseteq blobs' \cup lost'
      PROVE  QueueHolds' /\ QueuedBacked'
  BY <1>1, <1>2
\* A prune that is about to unlink goes on, or another step takes its place.
<1>r. ASSUME \/ post'.at # "remove"
             \/ UNCHANGED post /\ captures' \subseteq captures
      PROVE  RacesAreSeen'
  BY <1>r DEF RacesAreSeen
<1>3. ASSUME NEW r \in Runs, Worker(r) PROVE RacesAreSeen' /\ QueueHolds' /\ QueuedBacked'
  <2>1. CASE Extract(r)
    <3>1. PICK d \in Docs : \/ UNCHANGED candidates
                            \/ /\ candidates[<<r, d>>] = "none" /\ d \in wk[r].todo
                               /\ candidates' = [candidates EXCEPT ![<<r, d>>] = "found"]
      BY <2>1 DEF Extract, TypeOK
    <3>2. UNCHANGED <<queue, captures, blobs, lost, post>>
      BY <2>1 DEF Extract
    <3>3. CASE UNCHANGED candidates
      BY <1>2, <1>r, <3>2, <3>3
    <3>4. CASE d \in wk[r].todo /\ candidates' = [candidates EXCEPT ![<<r, d>>] = "found"]
      <4>1. queue # <<r, d>>
        BY <3>4, PairsArePairs DEF FoundOnce
      <4>2. \A p \in Pairs : /\ p # <<r, d>> => candidates'[p] = candidates[p]
                             /\ p = <<r, d>> => candidates'[p] = "found"
        BY <1>0, <3>4
      <4> QED BY <1>r, <3>2, <4>1, <4>2 DEF QueueHolds, QueuedBacked
    <3> QED BY <3>1, <3>3, <3>4
  <2>2. CASE \/ BackgroundTask(r) \/ WorkerWrites(r) \/ Fetch(r) \/ Captured(r) \/ Close(r)
             \/ WorkerRaises(r) \/ Fail(r) \/ WorkerReturns(r)
    <3>1. UNCHANGED <<candidates, queue, captures, blobs, lost, post>>
      BY <2>2 DEF BackgroundTask, WorkerWrites, Fetch, Captured, Close, WorkerRaises, Fail,
                  WorkerReturns
    <3> QED BY <1>2, <1>r, <3>1
  <2>3. CASE WriteBlob(r)
    <3>1. UNCHANGED <<candidates, queue, captures, post>>
          /\ blobs \cup lost \subseteq blobs' \cup lost'
      BY <2>3 DEF WriteBlob
    <3> QED BY <1>2, <1>r, <3>1
  <2>4. CASE InsertCapture(r)
    <3>1. PICK d \in Docs :
             /\ captures' = captures \cup {<<r, d>>}
             /\ post' = IF post.at = "remove" /\ post.digest = d
                        THEN [post EXCEPT !.raced = TRUE] ELSE post
      BY <2>4 DEF InsertCapture, TypeOK
    <3>2. QueueHolds' /\ QueuedBacked'
      BY <1>2, <2>4, <3>1 DEF InsertCapture
    <3>3. RacesAreSeen'
      <4>1. CASE post.at = "remove" /\ post.digest = d
        <5>1. post \in [at : {"remove"}, gone : SUBSET Runs, digests : SUBSET Docs,
                        digest : Docs, raced : BOOLEAN]
          BY <4>1 DEF TypeOK, NoPost
        <5> QED BY <3>1, <4>1, <5>1 DEF RacesAreSeen
      <4>2. CASE post.at = "remove" /\ post.digest # d
        BY <3>1, <4>2, PairsArePairs DEF RacesAreSeen
      <4>3. CASE post.at # "remove"
        BY <1>r, <3>1, <4>3
      <4> QED BY <4>1, <4>2, <4>3
    <3> QED BY <3>2, <3>3
  <2> QED BY <1>3, <2>1, <2>2, <2>3, <2>4 DEF Worker
<1>4. ASSUME NEW r \in Runs, PollRecovers(r) \/ Cancel(r)
      PROVE  RacesAreSeen' /\ QueueHolds' /\ QueuedBacked'
  BY <1>2, <1>r, <1>4 DEF PollRecovers, Cancel
<1>5. CASE PostPrunes \/ PostRaises \/ PostForgets \/ PostCreates \/ PostStarts
  <2>1. UNCHANGED <<candidates, queue, captures, blobs, lost>> /\ post'.at # "remove"
    BY <1>5 DEF PostPrunes, PostRaises, PostForgets, PostCreates, PostStarts, NoPost
  <2> QED BY <1>2, <1>r, <2>1
<1>6. CASE PostDeletes
  <2>1. /\ captures' = {p \in captures : p[1] \notin post.gone}
        /\ \A p \in Pairs : candidates'[p] = IF p[1] \in post.gone THEN "none" ELSE candidates[p]
        /\ UNCHANGED <<queue, blobs, lost>> /\ post'.at # "remove"
    BY <1>6 DEF PostDeletes
  <2> QED BY <1>1, <1>r, <2>1
<1>13. CASE PostCounts
  <2>1. UNCHANGED <<candidates, queue, captures, blobs, lost>>
    BY <1>13 DEF PostCounts
  <2>2. CASE post'.at # "remove"
    BY <1>2, <1>r, <2>1, <2>2
  <2>3. CASE post'.at = "remove"
    <3>1. post \in [at : {"unlink"}, gone : SUBSET Runs, digests : SUBSET Docs]
      BY <1>13 DEF PostCounts, TypeOK, NoPost
    <3>2. ~\E p \in captures : p[2] = post'.digest
      BY <1>13, <2>3, <3>1 DEF PostCounts
    <3> QED BY <1>2, <2>1, <3>2 DEF RacesAreSeen
  <2> QED BY <2>2, <2>3
<1>7. CASE PostUnlinks
  <2>1. /\ blobs' = blobs \ {post.digest}
        /\ lost' = IF post.raced THEN lost \cup {post.digest} ELSE lost
        /\ UNCHANGED <<candidates, captures, queue>> /\ post'.at # "remove"
    BY <1>7 DEF PostUnlinks
  <2>2. (\E p \in captures : p[2] = post.digest) => post.raced
    BY <1>7 DEF PostUnlinks, RacesAreSeen
  <2>3. \A p \in Pairs : Backed(p) => Backed(p)'
    BY <2>1, <2>2
  <2> QED BY <1>1, <1>r, <2>1, <2>3
<1>8. ASSUME NEW p \in Pairs, QueueLoads(p) PROVE RacesAreSeen' /\ QueueHolds' /\ QueuedBacked'
  <2>1. QueueHolds' /\ QueuedBacked'
    BY <1>8 DEF QueueLoads, QueueHolds, QueuedBacked
  <2> QED BY <1>r, <1>8, <2>1 DEF QueueLoads
<1>9. CASE QueueMarks
  <2>1. queue \in Pairs /\ queue' = <<>> /\ UNCHANGED <<captures, blobs, lost, post>>
    BY <1>9 DEF QueueMarks, TypeOK
  <2>2. \A p \in Pairs : \/ candidates'[p] = candidates[p]
                         \/ queue = p /\ candidates[p] # "none"
    BY <1>0, <1>9, <2>1 DEF QueueMarks
  <2>3. \A p \in Pairs : queue' # p
    BY <2>1, PairsArePairs
  <2>4. QueueHolds' /\ QueuedBacked'
    BY <2>1, <2>2, <2>3 DEF QueueHolds, QueuedBacked
  <2> QED BY <1>r, <2>1, <2>4
<1>10. CASE PurgeChecks \/ PurgeRuns \/ PurgeFile \/ PurgeEnds \/ UNCHANGED vars
  <2>1. UNCHANGED <<candidates, queue, captures, post>>
        /\ blobs \cup lost \subseteq blobs' \cup lost'
    BY <1>10 DEF PurgeChecks, PurgeRuns, PurgeFile, PurgeEnds, vars
  <2> QED BY <1>2, <1>r, <2>1
<1>11. CASE PurgeStore
  <2>1. \A p \in Pairs : candidates'[p] = "none"
    BY <1>11 DEF PurgeStore
  <2>2. UNCHANGED post /\ captures' \subseteq captures
    BY <1>11 DEF PurgeStore
  <2>3. QueueHolds' /\ QueuedBacked'
    BY <2>1 DEF QueueHolds, QueuedBacked
  <2> QED BY <1>r, <2>2, <2>3
<1>12. CASE Crash
  <2>1. UNCHANGED <<candidates, captures, blobs, lost>> /\ queue' = <<>> /\ post'.at # "remove"
    BY <1>12 DEF Crash, NoPost
  <2> QED BY <1>1, <1>r, <2>1, PairsArePairs
<1> QED BY <1>3, <1>4, <1>5, <1>6, <1>7, <1>8, <1>9, <1>10, <1>11, <1>12, <1>13
        DEF Next, Post, PurgeSteps

-------------------------------------------------------------------------------
\* The parts together are inductive.
LEMMA ResearchInvariant == Spec => []ResearchInv
<1>1. Init => ResearchInv
  <2> SUFFICES ASSUME Init PROVE ResearchInv
    OBVIOUS
  <2> USE DEF Init, NoJob, NoWorker, NoUpdate, NoPost
  <2>1. TypeOK
    <3>1. /\ row \in [Runs -> RowStates]
          /\ update \in [Runs -> [to : RowStates, seen : RowStates]]
      BY DEF RowStates
    <3>2. wk \in [Runs -> [at : Places, todo : SUBSET Docs]]
      BY DEF Places
    <3>3. candidates \in [Pairs -> {"none", "found", "queued"}] /\ faults \in 0..MaxFaults
      BY FaultsAssumption
    <3> QED BY <3>1, <3>2, <3>3 DEF TypeOK, Places
  <2>2. WorkersKnown
    BY DEF WorkersKnown
  <2>4. RacesAreSeen
    BY DEF RacesAreSeen
  <2>3. \A p \in Pairs : candidates[p] = "none" /\ queue # p
    BY PairsArePairs
  <2> QED BY <2>1, <2>2, <2>3, <2>4 DEF ResearchInv, FoundOnce, QueueHolds, QueuedBacked
<1>2. ResearchInv /\ [Next]_vars => ResearchInv'
  BY ResearchTypeStep, KnownStep, FoundStep, HoldsStep DEF ResearchInv
<1> QED BY <1>1, <1>2, PTL DEF Spec

\* A queued candidate keeps its capture row, and its file but for an unlink on a
\* count that is out of date and for a purge (store.prune, _atomic_capture), and a
\* purge passes its check only when no worker is at work (running_ids).
THEOREM HistoryStaysSafe == Spec => HistoryIsSafe
<1>1. ResearchInv /\ ResearchInv' /\ [Next]_vars => [QueuedBacked' /\ PurgeWaitsForWorkers]_vars
  <2> SUFFICES ASSUME ResearchInv, ResearchInv', [Next]_vars, ~purging, purging',
                      NEW r \in Runs
               PROVE  wk[r].at \in {"none", "done"}
    BY DEF ResearchInv, PurgeWaitsForWorkers
  <2>1. PurgeChecks
    <3> USE DEF stored, handlers
    <3>1. ASSUME NEW s \in Runs, Worker(s) \/ PollRecovers(s) \/ Cancel(s)
          PROVE  UNCHANGED purging
      BY <3>1 DEF Worker, BackgroundTask, WorkerWrites, Fetch, WriteBlob, InsertCapture, Captured,
                  Extract, Close, WorkerRaises, Fail, WorkerReturns, PollRecovers, Cancel
    <3>2. CASE Post
      BY <3>2 DEF Post, PostPrunes, PostDeletes, PostCounts, PostUnlinks, PostRaises, PostForgets, PostCreates, PostStarts
    <3>3. CASE \/ \E p \in Pairs : QueueLoads(p)
               \/ QueueMarks \/ PurgeSteps \/ Crash \/ UNCHANGED vars
      BY <3>3 DEF QueueLoads, QueueMarks, PurgeSteps, PurgeRuns, PurgeStore, PurgeFile, PurgeEnds,
                  Crash, vars
    <3> QED BY <3>1, <3>2, <3>3 DEF Next
  <2>2. ~job[r].active
    BY <2>1 DEF PurgeChecks, RunningIds
  <2> QED BY <2>2 DEF ResearchInv, WorkersKnown
<1> QED BY <1>1, ResearchInvariant, PTL DEF Spec, HistoryIsSafe
===============================================================================
