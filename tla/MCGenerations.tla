---------------------------- MODULE MCGenerations ----------------------------
(***************************************************************************)
(* The generations of the refresh in one run: a behaviour is about the     *)
(* jobs that install and repoint them or about the threads that read from  *)
(* the one in memory.  The other half stands still.  Only safety is        *)
(* checked; the threads that read are interchangeable.                     *)
(***************************************************************************)
EXTENDS RefreshJobs, MatchIndex

VARIABLE half

allVars == <<half, vars, indexVars>>

Symmetry == Permutations(Readers)

MCInit ==
    /\ half \in {"jobs", "reads"}
    /\ Init /\ IndexInit
    /\ half = "jobs" => \A n \in Names : disk[n] = None

MCNext ==
    /\ UNCHANGED half
    /\ \/ half = "jobs" /\ Next /\ UNCHANGED indexVars
       \/ half = "reads" /\ IndexNext /\ UNCHANGED vars

MCSpec == MCInit /\ [][MCNext]_allVars
==============================================================================
