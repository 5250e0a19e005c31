------------------------------ MODULE MCSources ------------------------------
(***************************************************************************)
(* Two questions about what a generation is made of in one run: a          *)
(* behaviour is either about the references of the sources or about the    *)
(* rows of the candidate.  The other half stands still.                    *)
(***************************************************************************)
EXTENDS SourceObservations, Candidates

VARIABLE half

allVars == <<half, vars, candVars>>

MCInit ==
    /\ Init /\ CandInit
    /\ half \in {"references", "rows"}
    /\ half = "references" => family = "club"

MCNext ==
    /\ UNCHANGED half
    /\ \/ half = "references" /\ Next /\ UNCHANGED candVars
       \/ half = "rows" /\ CandNext /\ UNCHANGED vars

\* No behaviour about rows is fair; the liveness property is not about them.
MCSpec == MCInit /\ [][MCNext]_allVars /\ Fairness
===============================================================================
