----------------------------- MODULE LedgerStore -----------------------------
(***************************************************************************)
(* What the personal ledger promises its owner (docs-site, trust-center):  *)
(* while the application has its turn files are written one at a time; an  *)
(* archive holds files as they were when it was exported; and a restore    *)
(* puts the files of an archive back all together or not at all.  The      *)
(* content of a file is a number, 0 when the file is absent.               *)
(***************************************************************************)
CONSTANT Files

VARIABLES
    ledger,     \* the content of each file
    archive,    \* the content of each file in the user's archive
    turn        \* whose turn it is: the "writer"'s or the "keeper"'s

storeVars == <<ledger, archive, turn>>

Turns == {"writer", "keeper"}

Nothing == [f \in Files |-> 0]

\* The ledger after the files of an archive are put in place.
Overlay(a, l) == [f \in Files |-> IF a[f] # 0 THEN a[f] ELSE l[f]]

Init ==
    /\ ledger = Nothing
    /\ archive = Nothing
    /\ turn = "keeper"

Write ==
    /\ turn = "writer"
    /\ \E f \in Files : ledger' = [ledger EXCEPT ![f] = ledger'[f]]
    /\ UNCHANGED archive

Export ==
    /\ turn = "keeper"
    /\ archive' = [f \in Files |-> archive'[f]]
    /\ \A f \in Files : archive'[f] \in {0, ledger[f]}
    /\ UNCHANGED ledger

Restore ==
    /\ turn = "keeper"
    /\ ledger' = Overlay(archive, ledger)
    /\ UNCHANGED archive

Pass == UNCHANGED <<ledger, archive>>

\* The turn may pass with any step.
Next ==
    /\ turn' \in Turns
    /\ Write \/ Export \/ Restore \/ Pass

Spec == Init /\ [][Next]_storeVars
==============================================================================
