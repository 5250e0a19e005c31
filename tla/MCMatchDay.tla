----------------------------- MODULE MCMatchDay -----------------------------
(* Budgets for TLC: picks alone, forecasts alone, and a little of both. *)
EXTENDS MatchDay

Budget(publishes, picks, seals, results, faults) ==
    [publish |-> publishes, pick |-> picks, seal |-> seals, result |-> results, fault |-> faults]

MCBudgets == {Budget(1, 3, 0, 0, 1), Budget(1, 0, 2, 1, 1), Budget(1, 0, 1, 2, 0), Budget(0, 1, 1, 1, 1)}
=============================================================================
