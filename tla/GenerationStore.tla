--------------------------- MODULE GenerationStore ---------------------------
(***************************************************************************)
(* What the generation store promises, without threads, locks or files     *)
(* (docs/adr/0004, refresh_state.py, refresh_jobs.py).                     *)
(*                                                                         *)
(* One generation is active and at most one other is kept as the rollback  *)
(* boundary.  The pair changes in one step, only by activating a verified  *)
(* generation or by going back to the previous one, and only after the     *)
(* intention was written down.  From the instant of the change the store   *)
(* holds its receipt or reports that the receipt is missing; a receipt     *)
(* once written stays, and a reported gap is forgotten only when the next  *)
(* change is intended: the store remembers one intention.                  *)
(***************************************************************************)
CONSTANTS
    Gens,       \* generation identifiers
    NoGen       \* "no generation", not one of them: the bundled index is served

VARIABLES
    active,     \* the generation the pointer names
    previous,   \* the generation a rollback returns to
    intent,     \* the generation of the intended change, if one is pending
    intact,     \* installed generations whose bytes match their manifest
    account     \* how the latest change is accounted for

storeVars == <<active, previous, intent, intact, account>>

\* The latest change has a receipt, is reported as lacking one, lacked one
\* when the next change was intended, or there never was a change.
Accounts == {"no_change", "gap", "receipted", "forgotten"}

Init ==
    /\ active = NoGen
    /\ previous = NoGen
    /\ intent = NoGen
    /\ intact = {}
    /\ account = "no_change"

\* A complete candidate arrives under its own name.
Install(g) ==
    /\ intact' = intact \cup {g}
    /\ UNCHANGED <<active, previous, intent, account>>

\* The bytes of a generation rot or are edited behind the store's back.
Damage(g) ==
    /\ g \in intact
    /\ intact' = intact \ {g}
    /\ UNCHANGED <<active, previous, intent, account>>

Intend(g) ==
    /\ g # active
    /\ intent' = g
    /\ account' = IF account = "gap" THEN "forgotten" ELSE account
    /\ UNCHANGED <<active, previous, intact>>

\* The intended generation becomes active: a new one, or the previous one.
Change(g) ==
    /\ g = intent
    /\ g \in intact
    /\ active' = g
    /\ previous' = active
    /\ account' = "gap"
    /\ UNCHANGED <<intent, intact>>

Receive ==
    /\ account = "gap"
    /\ account' = "receipted"
    /\ UNCHANGED <<active, previous, intent, intact>>

\* The intention is withdrawn, unless it is all that accounts for a change.
Withdraw ==
    /\ account # "gap"
    /\ intent' = NoGen
    /\ UNCHANGED <<active, previous, intact, account>>

Next ==
    \/ \E g \in Gens : Install(g) \/ Damage(g) \/ Intend(g) \/ Change(g)
    \/ Receive
    \/ Withdraw

Spec == Init /\ [][Next]_storeVars
=============================================================================
