-------------------------------- MODULE MCRuns --------------------------------
(***************************************************************************)
(* Two questions about long calls in one run: a behaviour is about the     *)
(* runs of a research or about the requests to a language model, replays   *)
(* and downloads.  The other half stands still.                            *)
(***************************************************************************)
EXTENDS ResearchRuns, ModelRuns

VARIABLE half

allVars == <<half, vars, runVars>>

MCInit ==
    /\ Init /\ RunInit
    /\ half \in {"research", "requests"}

MCNext ==
    /\ UNCHANGED half
    /\ \/ half = "research" /\ Next /\ UNCHANGED runVars
       \/ half = "requests" /\ RunNext /\ UNCHANGED vars

MCSpec == MCInit /\ [][MCNext]_allVars /\ Fairness /\ RunFairness

\* Every research and every request comes to an end, with the sidecar killed in
\* between or not.
WorkEnds == RunsSettle /\ RunsReturn
===============================================================================
