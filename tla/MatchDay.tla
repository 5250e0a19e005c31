------------------------------ MODULE MatchDay ------------------------------
(***************************************************************************)
(* The user's ledger on a match day: picks, seals and settlements on one   *)
(* fixture, one lock, under refreshes and crashes.  Neither the picks nor  *)
(* the forecasts read the other's files; they wait for each other, and a   *)
(* pick that waits keeps the time it arrived at.                           *)
(***************************************************************************)
EXTENDS Picks, Forecasts

vars == <<clock, gen, busy, left, drafts, locked, calls, roots, scored, feed>>

Init == InitFixtures /\ InitPicks /\ InitForecasts

\* The process dies.  What it wrote stays; each file was replaced whole.
Dies ==
    /\ ~Free \/ calls # {}
    /\ Spend("fault")
    /\ busy' = Idle
    /\ calls' = {}
    /\ UNCHANGED <<clock, gen, drafts, locked, roots, scored, feed>>

Next ==
    \/ (Tick \/ Publish) /\ UNCHANGED <<pickVars, forecastVars>>
    \/ PicksNext /\ UNCHANGED forecastVars
    \/ ForecastsNext /\ UNCHANGED pickVars
    \/ Dies

Spec == Init /\ [][Next]_vars

\* An operation that runs ends, results are checked again and again, and the
\* first source can be read now and then.
Fairness ==
    /\ WF_vars((SaveCommits \/ SaveRetries \/ SaveGivesUp) /\ UNCHANGED forecastVars)
    /\ WF_vars((SealBuilds \/ Grade \/ SettleEnds) /\ UNCHANGED pickVars)
    /\ WF_vars((\E s \in Sources : FetchOk(s) \/ FetchFails(s)) /\ UNCHANGED pickVars)
    /\ SF_vars(SettleStarts /\ UNCHANGED pickVars)
    /\ SF_vars(FetchOk("martj42") /\ UNCHANGED pickVars)

FairSpec == Spec /\ Fairness

\* One record for one thing: a match id is locked once, and a seal has one
\* root and one successor, whatever the two ledgers do to each other.
NothingSplits == OneLockPerMatch /\ OneHistory
=============================================================================
