------------------------------ MODULE Fixtures ------------------------------
(***************************************************************************)
(* What the user's own ledger is written against: one fixture, as the      *)
(* active data generation shows it, and the clock.                         *)
(*                                                                         *)
(* A refresh publishes another generation at any moment: the fixture may   *)
(* be moved, get its result, disappear, or come back under another id.     *)
(* Every operation on the ledger, whatever it writes, holds one lock       *)
(* (runtime.USER_STATE_LOCK) for as long as it runs, a model fit or four   *)
(* downloads included; busy is the operation that holds it.                *)
(*                                                                         *)
(* The generation of the index and of the pack is the same variable, read  *)
(* at two moments by the code that reads both.                             *)
(***************************************************************************)
EXTENDS Naturals

CONSTANTS Ids,        \* the match ids one fixture may have, numbers
          First,      \* the one it has at the start
          Kickoffs,   \* the times it may be set for
          MaxTime,    \* the clock stops here
          Budgets     \* how often each kind of event may happen, one choice of many

\* What may happen: generations published, picks requested, seals requested,
\* commits of the result sources, and faults (a write that fails, a crash).
Events == {"publish", "pick", "seal", "result", "fault"}

ASSUME FixturesAssumption ==
    /\ Ids \subseteq Nat \ {0}
    /\ First \in Ids
    /\ Kickoffs \subseteq 1..MaxTime
    /\ MaxTime \in Nat
    /\ Budgets \subseteq [Events -> Nat]

VARIABLES clock,  \* the time
          gen,    \* the active generation: the fixture's row, and its commit time
          busy,   \* the operation that holds the lock
          left    \* how many more events of each kind

fixtureVars == <<clock, gen, busy, left>>

-----------------------------------------------------------------------------

\* A row: complete once it has a score.
Gone == [id |-> 0, kickoff |-> 0, complete |-> FALSE]
Rows == [id : Ids, kickoff : Kickoffs, complete : BOOLEAN]

\* Two times fall on one date.
Day(t) == t \div 2

\* The row an id names in a generation.
RowOf(id, g) == IF g.row.id = id THEN g.row ELSE Gone

Idle == [op |-> "idle"]
Free == busy = Idle
Spend(event) == left[event] > 0 /\ left' = [left EXCEPT ![event] = @ - 1]

InitFixtures ==
    /\ clock = 0
    /\ \E k \in Kickoffs :
          gen = [row |-> [id |-> First, kickoff |-> k, complete |-> FALSE], at |-> 0]
    /\ busy = Idle
    /\ left \in Budgets

\* A refresh activates a generation committed upstream just now.
Publish ==
    /\ Spend("publish")
    /\ \E row \in Rows \cup {Gone} :
          /\ row # gen.row
          /\ row.complete => row.kickoff < clock
          /\ gen' = [row |-> row, at |-> clock]
    /\ UNCHANGED <<clock, busy>>

Tick ==
    /\ clock < MaxTime
    /\ clock' = clock + 1
    /\ UNCHANGED <<gen, busy, left>>
=============================================================================
