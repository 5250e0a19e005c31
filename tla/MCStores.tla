------------------------------- MODULE MCStores -------------------------------
(***************************************************************************)
(* The stores of the user in one run: a behaviour is about the ledger      *)
(* under an archive's restore or about the follow store.  The other half   *)
(* stands still, and nothing is fair to it.                                *)
(*                                                                         *)
(* Follows: two ids under which a source lists one fixture, which has a    *)
(* stable key.                                                             *)
(***************************************************************************)
EXTENDS ArchiveRestore, Follows

CONSTANTS m1, m2, k, teams

MCKey == [m \in Matches |-> k]
MCTeams == [m \in Matches |-> teams]

VARIABLE half

allVars == <<half, vars, followVars>>

MCInit == half \in {"archive", "follows"} /\ Init /\ FollowInit

ArchiveHalf(A) == half = "archive" /\ A /\ UNCHANGED <<half, followVars>>
FollowHalf(A) == half = "follows" /\ A /\ UNCHANGED <<half, vars>>

\* The follow store may come to rest, the archive may not.
Rests == half = "follows" /\ UNCHANGED allVars

MCNext == ArchiveHalf(Next) \/ FollowHalf(FollowNext) \/ Rests

\* The fairness of each module's own specification, for its half.
MCFairness ==
    /\ WF_allVars(ArchiveHalf(Holder)) /\ SF_allVars(ArchiveHalf(Call("admit")))
    /\ WF_allVars(FollowHalf(Worker)) /\ WF_allVars(FollowHalf(Window))
    /\ WF_allVars(FollowHalf(RollbackRepoints))

MCSpec == MCInit /\ [][MCNext]_allVars /\ MCFairness
===============================================================================
