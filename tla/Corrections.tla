----------------------------- MODULE Corrections -----------------------------
(***************************************************************************)
(* Local correction proposals (correction_store.py, correction_validation, *)
(* correction_exports) and the handlers of main.py that drive them.        *)
(*                                                                         *)
(* All proposals are of one source, type and target, so two of them agree  *)
(* when they propose the same value; the typed checks of a value, URLs and *)
(* sanitizing are left out.  A handler reads the proposal, its evidence    *)
(* and the rest of the store at once, checks the state and the head event  *)
(* and then runs a transaction, which does not look at the row again:      *)
(* another handler's transaction may come between.                         *)
(* The identity of an export is its content and the head it was made of.   *)
(***************************************************************************)
EXTENDS Naturals, FiniteSetsExt

CONSTANTS
    Proposals,   \* the proposals ever created
    Vals,        \* the values proposed
    Digests,     \* the evidence texts
    Views,       \* the requests under way at a time
    MaxEvents,   \* bound: events of all proposals, requests under way and trouble
    MaxTrouble   \* bound: purges, crashes and changes of the match index

ASSUME BoundsAssumption ==
    /\ MaxEvents \in Nat
    /\ MaxTrouble \in Nat

VARIABLES
    row,        \* proposals: state, value, visibility, head and last event
    evidence,   \* evidence rows: none, kept or redacted
    exports,    \* the export rows
    files,      \* the files under exports/
    blobs,      \* the files under evidence/
    base,       \* the authoritative value in the match index
    passed,     \* history: the content that last passed validation
    torn,       \* history: the proposals a transaction wrote that had moved
                \* since the handler read them, and that did not start over
    op,         \* the handler of each view
    trouble

vars == <<row, evidence, exports, files, blobs, base, passed, torn, op, trouble>>

Active == {"draft", "evidence_attached", "validated_candidate", "conflict",
           "accepted_local", "exported", "submitted"}
States == Active \cup {"none", "withdrawn", "purged"}
Exists(p) == row[p].state \in Active \cup {"withdrawn"}

NoRow == [state |-> "none"]
Idle == [at |-> "idle"]

Kept(p) == {d \in Digests : evidence[p][d] = "kept"}
HasRows(p) == \E d \in Digests : evidence[p][d] # "none"
Content(p) == [val |-> row[p].val, kept |-> Kept(p)]

Init ==
    /\ row = [p \in Proposals |-> NoRow]
    /\ evidence = [p \in Proposals |-> [d \in Digests |-> "none"]]
    /\ exports = {}
    /\ files = {}
    /\ blobs = {}
    /\ base = 0
    /\ passed = [p \in Proposals |-> {}]
    /\ torn = {}
    /\ op = [v \in Views |-> Idle]
    /\ trouble = 0

-------------------------------------------------------------------------------
(* Events and transactions. *)

\* A write of the row appends an event, which becomes the head.
Appended(r, last) == [r EXCEPT !.head = @ + 1, !.last = last]

Heads == MapThenSumSet(LAMBDA p : IF Exists(p) THEN row[p].head ELSE 0,
                       Proposals)
HasRoom == Heads + Cardinality({v \in Views : op[v] # Idle}) + trouble < MaxEvents

\* An attach holds SQLite's write reservation from its check to its commit.
Writable(v) == \A u \in Views \ {v} : op[u].at # "attaching"

\* Another transaction has written the row since the store function read it.
HasMoved(v) == op[v].row # row[op[v].p]

\* A transaction that gives the proposal a state of its own whatever it was
\* starts over, unless the proposal has moved.
Tears(v, startsOver) ==
    torn' = IF HasMoved(v) THEN torn \cup {op[v].p}
            ELSE IF startsOver THEN torn \ {op[v].p}
            ELSE torn

-------------------------------------------------------------------------------
(* Creation and evidence. *)

\* In one transaction: an active proposal of the same value is returned.
Create(v, val) ==
    /\ op[v] = Idle
    /\ Writable(v) /\ HasRoom
    /\ \A p \in Proposals : row[p].state \in Active => row[p].val # val
    /\ \E p \in Proposals :
        /\ row[p] = NoRow
        /\ row' = [row EXCEPT ![p] =
                [state |-> "draft", val |-> val, visible |-> FALSE, head |-> 1,
                 last |-> {}, original |-> base]]
    /\ UNCHANGED <<evidence, exports, files, blobs, base, passed, torn, op, trouble>>

\* attach_evidence up to its commit: the file is written unless it is there.
Attach(v, p, d) ==
    /\ op[v] = Idle
    /\ Writable(v)
    /\ Exists(p) /\ HasRoom
    /\ row[p].state \notin {"withdrawn", "submitted"}
    /\ evidence[p][d] = "none"
    /\ blobs' = blobs \cup {d}
    /\ op' = [op EXCEPT ![v] = [at |-> "attaching", p |-> p, d |-> d]]
    /\ UNCHANGED <<row, evidence, exports, files, base, passed, torn, trouble>>

AttachCommits(v) ==
    /\ op[v].at = "attaching"
    /\ Exists(op[v].p)
    /\ LET p == op[v].p IN
        /\ evidence' = [evidence EXCEPT ![p][op[v].d] = "kept"]
        /\ row' = [row EXCEPT ![p] = Appended([@ EXCEPT
                !.state = "evidence_attached", !.visible = FALSE], {})]
        /\ torn' = torn \ {p}
    /\ op' = [op EXCEPT ![v] = Idle]
    /\ UNCHANGED <<exports, files, blobs, base, passed, trouble>>

-------------------------------------------------------------------------------
(* revise, validate, accept, revoke, withdraw, mark submitted and redact:   *)
(* the handler and the store function read the proposal ...                 *)

\* The states a store function goes on from.
Allowed(kind) ==
    CASE kind = "revise" -> {"draft", "evidence_attached",
                             "validated_candidate", "conflict"}
      [] kind = "validate" -> Active \ {"submitted"}
      [] kind = "accept" -> {"validated_candidate", "exported"}
      [] kind = "revoke" -> {"accepted_local", "exported", "submitted"}
      [] kind = "withdraw" -> Active
      [] kind = "submit" -> {"exported"}
      [] kind = "redact" -> Active \cup {"withdrawn"}

\* Mutant of Competes: only a proposal that has been decided on.
CompetesOnceFinal(p, q) ==
    /\ q # p
    /\ row[q].state \in {"accepted_local", "exported", "submitted"}
    /\ row[q].val # row[p].val

\* Another active proposal that proposes something else.
Competes(p, q) ==
    q # p /\ row[q].state \in Active /\ row[q].val # row[p].val

\* validate: a conflict fails closed; without evidence it goes back, to
\* "draft" when no evidence was ever attached, which the store refuses.
Verdict(p) ==
    IF row[p].original # base \/ \E q \in Proposals : Competes(p, q)
    THEN "conflict"
    ELSE IF Kept(p) # {} THEN "validated_candidate"
    ELSE IF HasRows(p) THEN "evidence_attached"
    ELSE "draft"

Checks(v, kind, p) ==
    /\ op[v] = Idle
    /\ Exists(p) /\ HasRoom
    /\ row[p].state \in Allowed(kind)

Begin(v, o) ==
    /\ op' = [op EXCEPT ![v] = o]
    /\ UNCHANGED <<row, evidence, exports, files, blobs, base, passed, torn, trouble>>

BeginMove(v, kind, p) ==
    /\ kind \in {"accept", "revoke", "withdraw", "submit"}
    /\ Checks(v, kind, p)
    /\ Begin(v, [at |-> kind, p |-> p, row |-> row[p]])

BeginRevise(v, p, val) ==
    /\ Checks(v, "revise", p)
    /\ Begin(v, [at |-> "revise", p |-> p, row |-> row[p], val |-> val,
                 state |-> IF HasRows(p) THEN "evidence_attached" ELSE "draft"])

BeginValidate(v, p) ==
    /\ Checks(v, "validate", p)
    /\ Verdict(p) # "draft"
    /\ Begin(v, [at |-> "validate", p |-> p, row |-> row[p],
                 verdict |-> Verdict(p), content |-> Content(p)])

\* The exports to unlink are listed before the transaction.
BeginRedact(v, p, d) ==
    /\ Checks(v, "redact", p)
    /\ evidence[p][d] = "kept"
    /\ Begin(v, [at |-> "redact", p |-> p, row |-> row[p], d |-> d,
                 listed |-> {x \in exports : x.p = p}])

-------------------------------------------------------------------------------
(* ... and commit their transaction.                                        *)

\* transition: what becomes of the row; the state of an acceptance and of a
\* revocation depends on the row that was read.
Moved(kind, r) ==
    CASE kind = "accept" ->
            [r EXCEPT !.state = IF @ = "validated_candidate"
                                THEN "accepted_local" ELSE @,
                      !.visible = TRUE]
      [] kind = "revoke" ->
            [r EXCEPT !.state = IF @ = "accepted_local"
                                THEN "validated_candidate" ELSE @,
                      !.visible = FALSE]
      [] kind = "withdraw" ->
            [r EXCEPT !.state = "withdrawn", !.visible = FALSE]
      [] kind = "submit" -> [r EXCEPT !.state = "submitted"]

Commits(v, kind) == op[v].at = kind /\ Writable(v) /\ Exists(op[v].p)

\* The transaction sets state and visibility; the value is the row's.
CommitMove(v) ==
    \E kind \in {"accept", "revoke", "withdraw", "submit"} :
        LET p == op[v].p
            m == Moved(kind, op[v].row)
        IN
        /\ Commits(v, kind)
        /\ row' = [row EXCEPT ![p] = Appended([@ EXCEPT
                !.state = m.state, !.visible = m.visible], {})]
        /\ Tears(v, kind = "withdraw")
        /\ op' = [op EXCEPT ![v] = Idle]
        /\ UNCHANGED <<evidence, exports, files, blobs, base, passed, trouble>>

\* Mutant of CommitRedact: the proposal keeps its state.
CommitRedactOnly(v) ==
    LET p == op[v].p IN
    /\ Commits(v, "redact")
    /\ evidence' = [evidence EXCEPT ![p][op[v].d] = "redacted"]
    /\ row' = [row EXCEPT ![p] = Appended(@, {})]
    /\ Tears(v, TRUE)
    /\ op' = [op EXCEPT ![v] =
            [at |-> "unlink", p |-> p, d |-> op[v].d, listed |-> op[v].listed]]
    /\ UNCHANGED <<exports, files, blobs, base, passed, trouble>>

\* A revision starts over: what was validated was another value.
CommitRevise(v) ==
    LET p == op[v].p IN
    /\ Commits(v, "revise")
    /\ row' = [row EXCEPT ![p] = Appended([@ EXCEPT
            !.val = op[v].val, !.state = op[v].state, !.visible = FALSE], {})]
    /\ Tears(v, TRUE)
    /\ op' = [op EXCEPT ![v] = Idle]
    /\ UNCHANGED <<evidence, exports, files, blobs, base, passed, trouble>>

CommitValidate(v) ==
    LET p == op[v].p IN
    /\ Commits(v, "validate")
    /\ row' = [row EXCEPT ![p] = Appended([@ EXCEPT
            !.state = op[v].verdict, !.visible = FALSE], {})]
    /\ Tears(v, TRUE)
    /\ passed' = [passed EXCEPT ![p] =
            IF op[v].verdict = "validated_candidate" THEN {op[v].content}
            ELSE @]
    /\ op' = [op EXCEPT ![v] = Idle]
    /\ UNCHANGED <<evidence, exports, files, blobs, base, trouble>>

CommitRedact(v) ==
    LET p == op[v].p
        left == Kept(p) \ {op[v].d}
    IN
    /\ Commits(v, "redact")
    /\ evidence' = [evidence EXCEPT ![p][op[v].d] = "redacted"]
    /\ row' = [row EXCEPT ![p] = Appended([@ EXCEPT
            !.state = IF left = {} THEN "draft" ELSE "evidence_attached",
            !.visible = FALSE], {})]
    /\ Tears(v, TRUE)
    /\ op' = [op EXCEPT ![v] =
            [at |-> "unlink", p |-> p, d |-> op[v].d, listed |-> op[v].listed]]
    /\ UNCHANGED <<exports, files, blobs, base, passed, trouble>>

\* After the commit the listed exports go; then the rows that keep the text
\* are counted ...
RedactUnlinks(v) ==
    /\ op[v].at = "unlink"
    /\ files' = files \ op[v].listed
    /\ op' = [op EXCEPT ![v] =
            IF \E q \in Proposals : op[v].d \in Kept(q) THEN Idle
            ELSE [at |-> "drop", p |-> op[v].p, d |-> op[v].d]]
    /\ UNCHANGED <<row, evidence, exports, blobs, base, passed, torn, trouble>>

\* ... and the text goes when none does.
RedactDrops(v) ==
    /\ op[v].at = "drop"
    /\ blobs' = blobs \ {op[v].d}
    /\ op' = [op EXCEPT ![v] = Idle]
    /\ UNCHANGED <<row, evidence, exports, files, base, passed, torn, trouble>>

\* A purge took the database under the handler: nothing is written.
Bereft(v) ==
    /\ op[v].at \in {"accept", "revoke", "withdraw", "submit", "revise",
                     "validate", "redact", "attaching", "recording"}
    /\ ~Exists(op[v].p)
    /\ op' = [op EXCEPT ![v] = Idle]
    /\ UNCHANGED <<row, evidence, exports, files, blobs, base, passed, torn, trouble>>

-------------------------------------------------------------------------------
(* Exports. *)

Exported(p) == [p |-> p, head |-> row[p].head, val |-> row[p].val,
                kept |-> Kept(p)]

\* Mutant of Matches: the export that was recorded last.
MatchesLast(x, r) == x.head = r.head \/ r.last = {x}

\* _export_matches_head: made of the head, or of the one before the event
\* that records this very export.
Matches(x, r) == x.head = r.head \/ (r.last = {x} /\ x.head = r.head - 1)

\* The export a request is answered with when it is there already.
Reusable(p) ==
    {x \in exports \cap files :
        /\ x.p = p
        /\ row[p].state \in {"exported", "submitted"}
        /\ Matches(x, row[p])}

\* export_proposal reads the proposal and builds the file.
Export(v, p) ==
    /\ op[v] = Idle
    /\ Exists(p) /\ HasRoom
    /\ row[p].state \in {"validated_candidate", "accepted_local", "exported",
                         "submitted"}
    /\ Reusable(p) = {}
    /\ Begin(v, [at |-> "export", p |-> p, export |-> Exported(p)])

ExportWrites(v) ==
    /\ op[v].at = "export"
    /\ files' = files \cup {op[v].export}
    /\ op' = [op EXCEPT ![v].at = "record"]
    /\ UNCHANGED <<row, evidence, exports, blobs, base, passed, torn, trouble>>

\* record_export reads the row again and does not compare its head ...
ExportReads(v) ==
    LET p == op[v].p IN
    /\ op[v].at = "record"
    /\ op' = [op EXCEPT ![v] =
            IF Exists(p)
            THEN [at |-> "recording", p |-> p, row |-> row[p],
                  export |-> op[v].export]
            ELSE Idle]
    /\ UNCHANGED <<row, evidence, exports, files, blobs, base, passed, torn, trouble>>

\* ... and its transaction goes by that row.
ExportRecords(v) ==
    LET p == op[v].p IN
    /\ Commits(v, "recording")
    /\ exports' = exports \cup {op[v].export}
    /\ IF op[v].row.state \in {"validated_candidate", "accepted_local"}
       THEN /\ row' = [row EXCEPT ![p] = Appended(
                    [@ EXCEPT !.state = "exported"], {op[v].export})]
            /\ Tears(v, FALSE)
       ELSE UNCHANGED <<row, torn>>
    /\ op' = [op EXCEPT ![v] = Idle]
    /\ UNCHANGED <<evidence, files, blobs, base, passed, trouble>>

-------------------------------------------------------------------------------
(* Purge, the index and crashes. *)

Trouble == trouble < MaxTrouble /\ trouble' = trouble + 1

Purge ==
    /\ Trouble
    /\ \E p \in Proposals : Exists(p)
    /\ row' = [p \in Proposals |->
            IF row[p] = NoRow THEN NoRow ELSE [state |-> "purged"]]
    /\ evidence' = [p \in Proposals |-> [d \in Digests |-> "none"]]
    /\ exports' = {}
    /\ files' = {}
    /\ blobs' = {}
    /\ UNCHANGED <<base, passed, torn, op>>

\* Another generation of the match index has another value.
BaseChanges ==
    /\ Trouble
    /\ base' = base + 1
    /\ UNCHANGED <<row, evidence, exports, files, blobs, passed, torn, op>>

Crash ==
    /\ Trouble
    /\ \E v \in Views : op[v] # Idle
    /\ op' = [v \in Views |-> Idle]
    /\ UNCHANGED <<row, evidence, exports, files, blobs, base, passed, torn>>

Request(v) ==
    \/ \E val \in Vals : Create(v, val)
    \/ \E p \in Proposals :
        \/ \E d \in Digests : Attach(v, p, d) \/ BeginRedact(v, p, d)
        \/ \E kind \in {"accept", "revoke", "withdraw", "submit"} :
               BeginMove(v, kind, p)
        \/ \E val \in Vals : BeginRevise(v, p, val)
        \/ BeginValidate(v, p)
        \/ Export(v, p)

Goes(v) ==
    \/ AttachCommits(v) \/ CommitMove(v) \/ CommitRevise(v) \/ CommitValidate(v)
    \/ CommitRedact(v) \/ RedactUnlinks(v) \/ RedactDrops(v) \/ Bereft(v)
    \/ ExportWrites(v) \/ ExportReads(v) \/ ExportRecords(v)

Next ==
    \/ \E v \in Views : Request(v) \/ Goes(v)
    \/ Purge
    \/ BaseChanges
    \/ Crash

Spec == Init /\ [][Next]_vars

-------------------------------------------------------------------------------
(* Properties. *)

Final == {"validated_candidate", "accepted_local", "exported", "submitted"}

\* Types: the tables of the correction store and what a handler has read.
TypeOK ==
    /\ \A p \in Proposals :
        /\ row[p].state \in States
        /\ Exists(p) => /\ row[p].val \in Vals
                        /\ row[p].head \in Nat
                        /\ row[p].original \in 0..MaxTrouble
    /\ evidence \in [Proposals -> [Digests -> {"none", "kept", "redacted"}]]
    /\ exports \cup files \subseteq
        [p : Proposals, head : Nat, val : Vals, kept : SUBSET Digests]
    /\ blobs \subseteq Digests
    /\ base \in 0..MaxTrouble
    /\ trouble \in 0..MaxTrouble

\* What is shown beside a source's value as a local annotation is the value and
\* the evidence that passed validation, however revisions, imports, redactions
\* and exports came between, unless a transaction wrote a proposal that had
\* moved; and then until the next revision, import, redaction or validation
\* (main.py accept_local, correction_store.transition).
AnnotationIsValidated ==
    \A p \in Proposals :
        Exists(p) /\ row[p].visible => p \in torn \/ Content(p) \in passed[p]

\* Conflicts fail closed: of the proposals for a target, those that passed
\* validation and were not withdrawn propose the same value, with the same
\* exception; a check that ran before another's revision or creation is none
\* (competing_proposals, correction_validation.validate).
OneWinner ==
    \A p, q \in Proposals :
        row[p].state \in Final /\ row[q].state \in Final
            => row[p].val = row[q].val \/ {p, q} \cap torn # {}

\* A local annotation stands on a validation, its own and the only one.
AnnotationStands == AnnotationIsValidated /\ OneWinner

\* The file an export request is answered with again shows the proposal as it
\* is, torn or not, also when another handler's export was recorded after the
\* proposal had moved on (export_proposal, _export_matches_head, record_export).
ReuseIsCurrent ==
    \A p \in Proposals : \A x \in Reusable(p) :
        x.val = row[p].val /\ x.kept = Kept(p)

\* An annotation and an export say what was validated, and nothing else.
CorrectionsHold == AnnotationStands /\ ReuseIsCurrent

\* Not an invariant: record_export does not compare heads, so a proposal can be
\* recorded as exported whose only export shows what it was before.
ExportIsCurrent ==
    \A p \in Proposals : row[p].state \in {"exported", "submitted"} =>
        \E x \in exports : x.p = p /\ x.val = row[p].val /\ x.kept = Kept(p)

\* Not an invariant: a crash after the commit of a redaction leaves the text
\* and the exports that quote it, and the redaction is not done again.
RedactedIsGone ==
    (\A v \in Views : op[v] = Idle) =>
        \A d \in blobs : \E p \in Proposals : d \in Kept(p)

\* Not an invariant: the text is unlinked on a count that is out of date when an
\* import of the same text commits in between, having found the file there.
KeptIsStored ==
    \A p \in Proposals : Exists(p) => Kept(p) \subseteq blobs

\* Not an invariant: the state of a proposal is written onto a row that was
\* withdrawn, or given another value, after it was read (transition).
NeverTorn == torn = {}
===============================================================================
