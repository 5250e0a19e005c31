------------------------------- MODULE Narration -------------------------------
(***************************************************************************)
(* What becomes of one reply of a language model: the JSON in it           *)
(* (extract_json_object), the repairs (normalize_narration_shape) and the  *)
(* review (ai/narration.py with ai/whitelist.py).                          *)
(*                                                                         *)
(* A text is what the guards tell apart in it: the number tokens it says,  *)
(* those that only occur inside a trusted name, the source ids it mentions *)
(* and the marks of what must not be said.  A number written as a word or  *)
(* a fraction is the mark "word" (in a fact or a note: one its quote does  *)
(* not have).  Lengths and counts are left out.  A sentence has one mark   *)
(* at most, and of two labels that fit one is chosen.                      *)
(***************************************************************************)
EXTENDS Naturals, Sequences, SequencesExt

CONSTANTS
    Tokens,     \* number tokens as they are written
    NameTokens, \* tokens that occur in a name of the bundle
    Inside,     \* pairs <<d, t>>: d is written somewhere inside t
    Leads,      \* pairs <<d, t>>: t is d and then % or a thousands group
    Rounds,     \* pairs <<t, v>>: t is the value v at some rounding
    Sources,    \* the source ids of the bundle
    Unknown,    \* an id that is none of the bundle's
    Numbers,    \* allowed_numbers: records with id, display, sources
    Samples,    \* the items that are tried along with others
    Notes       \* the facts and notes that are tried

VARIABLES
    reply,      \* what the model wrote
    allowed,    \* the flags of the request
    review      \* the review of it

narrVars == <<reply, allowed, review>>

Marks == {"secret", "betting", "cot", "word"}
Nothing == <<>>

NumberIds == {n.id : n \in Numbers}
Number(id) == CHOOSE n \in Numbers : n.id = id
Displays == {n.display : n \in Numbers}

\* An item: a sentence of the model, with what it claims to rest on.
Items ==
    [says : SUBSET Tokens, names : SUBSET NameTokens, mentions : SUBSET Sources,
     cites : SUBSET (Sources \cup {Unknown}), refs : SUBSET (NumberIds \cup {Unknown}),
     marks : {{}} \cup {{m} : m \in Marks}]

\* The bundle that was validated names each number once and tells its sources.
ASSUME NarrationAssumption ==
    /\ \A n, m \in Numbers : n.id = m.id => n = m
    /\ \A n \in Numbers : n.sources # {} /\ n.sources \subseteq Sources
    /\ Leads \subseteq Inside
    /\ Samples \subseteq Items

-------------------------------------------------------------------------------
(* extract_json_object: the objects in the text, in order.  "read" has one  *)
(* of the keys of a narration, "side" none; "cut" is a read that ends in     *)
(* the facts nobody asked for; "garbled" is no object.                       *)

Extracted(blocks) ==
    LET whole == SelectSeq(blocks, LAMBDA b : b = "read")
        side == SelectSeq(blocks, LAMBDA b : b \in {"side", "cut"})
        objects == SelectSeq(blocks, LAMBDA b : b # "garbled")
    IN  IF whole # <<>> THEN "read"
        ELSE IF objects # <<>> /\ Head(objects) = "cut" THEN "cut"
        ELSE IF side # <<>> THEN "side"
        ELSE "none"

-------------------------------------------------------------------------------
(* normalize_narration_shape. *)

\* Up to three wrapper objects are taken off; then the verdict may hold the
\* two lists.
Unwrapped(r) ==
    IF r.wrappers > 3 THEN [r EXCEPT !.claims = {}, !.scenarios = {}, !.verdict = {}]
    ELSE IF r.inVerdict THEN [r EXCEPT !.verdict = {}]
    ELSE r

\* Mutant: a display is looked for anywhere in the text.
ShownAnywhere(d, item) ==
    \E t \in item.says \cup item.names : d = t \/ <<d, t>> \in Inside

\* _display_in_text: not inside a longer number, or an identifier.
Shown(d, item) ==
    \E t \in item.says \cup item.names : d = t \/ <<d, t>> \in Leads

Cited(item) == (item.cites \cap Sources) \cup item.mentions

Candidates(d, item) ==
    {n \in Numbers : /\ n.display = d
                     /\ Cited(item) # {} => n.sources \cap Cited(item) # {}}

\* One reference for each display: one the model gave, or the likeliest label.
Chosen(d, item) ==
    LET given == {n \in Candidates(d, item) : n.id \in item.refs}
    IN  IF given # {} THEN CHOOSE n \in given : TRUE
        ELSE CHOOSE n \in Candidates(d, item) : TRUE

Refs(item) ==
    {Chosen(d, item).id :
        d \in {e \in Displays : Shown(e, item) /\ Candidates(e, item) # {}}}

\* Where nothing is cited the numbers tell the sources.
Repaired(item) ==
    [item EXCEPT
        !.refs = Refs(item),
        !.cites = IF Cited(item) # {} THEN Cited(item)
                  ELSE {s \in Sources : \E id \in Refs(item) : s \in Number(id).sources}]

Normalized(r) ==
    LET u == Unwrapped(r) IN
    [u EXCEPT !.claims = {Repaired(i) : i \in @},
              !.scenarios = {Repaired(i) : i \in @},
              !.verdict = {Repaired(i) : i \in @}]

-------------------------------------------------------------------------------
(* review_narration. *)

\* A reference stays that is an allowed number, shares a source with the
\* claim, and is written in the text.
FinalRefs(item) ==
    {id \in item.refs \cap NumberIds :
        /\ Number(id).sources \cap item.cites \cap Sources # {}
        /\ \E t \in item.says \cup item.names :
               Number(id).display = t \/ <<Number(id).display, t>> \in Inside}

\* unsupported_number_tokens; what is inside a trusted name is no token.
Unsupported(item, ids) == item.says \ {Number(id).display : id \in ids}

Reviewed(item) ==
    [item EXCEPT !.cites = @ \cap Sources, !.refs = FinalRefs(item)]

ItemSurvives(item) ==
    /\ item.marks \cap {"betting", "cot", "word"} = {}
    /\ item.cites \cap Sources # {}
    /\ Unsupported(item, FinalRefs(item)) = {}

Surviving(items) == {Reviewed(i) : i \in {j \in items : ItemSurvives(j)}}

Secret(i) == "secret" \in i.marks

\* Every number of a fact or a note is in its quote, at some rounding.
InQuote(n, values) ==
    \A t \in n.says : \E v \in values : <<t, v>> \in Rounds

\* A candidate fact that is not grounded voids the read; engine numbers
\* ground it too.
FactRejected(f) ==
    \/ f.marks \cap {"betting", "secret", "word"} # {}
    \/ ~InQuote(f, f.quotes \cup Displays)

\* A note about the general background says no number at all.
BackgroundSurvives(n) == n.says = {} /\ n.marks = {}

\* A note from the web quotes a page that was read, and numbers of the quote.
ResearchSurvives(n) ==
    /\ n.fetched /\ n.verbatim
    /\ InQuote(n, n.quotes)
    /\ n.marks = {}

NotAccepted == [accepted |-> FALSE]

\* A sentence with a secret voids the read, a verdict with one only itself.
\* The facts, the background and the pages are lanes of their own.
Review(r) ==
    LET claims == Surviving(r.claims)
        scenarios == Surviving(r.scenarios)
        facts == IF "facts" \in allowed THEN r.facts ELSE {}
        rejected == \/ \E i \in r.claims \cup r.scenarios : Secret(i)
                    \/ \E f \in facts : FactRejected(f)
    IN  IF rejected \/ claims \cup scenarios = {}
        THEN NotAccepted
        ELSE [accepted |-> TRUE, claims |-> claims, scenarios |-> scenarios,
              verdict |-> Surviving({i \in r.verdict : ~Secret(i)}),
              facts |-> facts,
              background |-> IF "background" \in allowed
                             THEN {n \in r.background : BackgroundSurvives(n)}
                             ELSE {},
              research |-> IF "research" \in allowed
                           THEN {n \in r.research : ResearchSurvives(n)}
                           ELSE {}]

-------------------------------------------------------------------------------
Lanes == {"facts", "background", "research"}

Empty == [claims |-> {}, scenarios |-> {}, verdict |-> {}, facts |-> {},
          background |-> {}, research |-> {}, wrappers |-> 0, inVerdict |-> FALSE]

Blocks == {"garbled", "side", "read", "cut"}

AtMostOne(S) == {{}} \cup {{x} : x \in S}

\* One attempt: what is found in the text, repaired and reviewed.  A read
\* that was cut in the facts has no later part.
Attempt(blocks, content) ==
    /\ reply' = [blocks |-> blocks, content |-> content]
    /\ review' =
           LET found == Extracted(blocks) IN
           CASE found = "read" -> Review(Normalized(content))
             [] found = "cut" -> Review(Normalized([content EXCEPT
                    !.facts = {}, !.background = {}, !.research = {}]))
             [] found = "side" -> Review(Normalized(Empty))
             [] OTHER -> NotAccepted
    /\ UNCHANGED allowed

\* A sentence of any kind.
ReadSentence ==
    \E i \in Items : Attempt(<<"read">>, [Empty EXCEPT !.claims = {i}])

\* Several of them, with facts and notes.
ReadLanes ==
    \E cs \in SUBSET Samples, ss, vs \in AtMostOne(Samples),
       fs \in AtMostOne(Notes), ns, ms \in {{}, Notes} :
        Attempt(<<"read">>, [Empty EXCEPT !.claims = cs, !.scenarios = ss,
                    !.verdict = vs, !.facts = fs, !.background = ns, !.research = ms])

\* The shapes that models are known to answer in.
ReadShape ==
    \E blocks \in SeqOf(Blocks, 2), w \in 0 .. 4, inVerdict \in BOOLEAN,
       cs \in SUBSET Samples :
        Attempt(blocks, [Empty EXCEPT !.claims = cs, !.facts = Notes,
                    !.wrappers = w, !.inVerdict = inVerdict])

NarrInit ==
    /\ reply = Nothing
    /\ allowed \in SUBSET Lanes
    /\ review = NotAccepted

NarrNext ==
    /\ reply = Nothing
    /\ \/ allowed = {} /\ ReadSentence
       \/ ReadLanes
       \/ ReadShape

NarrSpec == NarrInit /\ [][NarrNext]_narrVars

-------------------------------------------------------------------------------
(* Properties. *)

\* A sentence may be shown when nothing in it is forbidden, it is attributed, by
\* a citation or by a number of the bundle that is written in it, and each of
\* its numbers is, digit for digit, a number of the bundle from a source it is
\* attributed to.
Backed(i) ==
    /\ i.marks = {}
    /\ \/ Cited(i) # {}
       \/ \E d \in Displays, t \in i.says \cup i.names : d = t \/ <<d, t>> \in Leads
    /\ \A t \in i.says : \E n \in Numbers :
           n.display = t /\ (Cited(i) # {} => n.sources \cap Cited(i) # {})

Sentence(i) == [says |-> i.says, names |-> i.names, marks |-> i.marks]

ShowsTheBacked(shown, said) ==
    {Sentence(i) : i \in shown} = {Sentence(i) : i \in {j \in said : Backed(j)}}

\* A number shown beside a sentence is written in it (up to a sign of percent
\* or a group of thousands that follows, and maybe in a name), is the only one
\* for what is written, and shares a source with it.
ChipsFit(i) ==
    /\ \A id \in i.refs :
        /\ \E t \in i.says \cup i.names :
               Number(id).display = t \/ <<Number(id).display, t>> \in Leads
        /\ Number(id).sources \cap i.cites # {}
        /\ \A other \in i.refs : Number(other).display = Number(id).display => other = id
    /\ \A t \in i.says : \E id \in i.refs : Number(id).display = t

\* The read that reaches the user (ai/narration.py: "a claim survives ONLY if
\* it is clean") has the backed sentences of the reply, all of them and no
\* other, each with the numbers it says; what is wrong in a verdict or a note
\* never costs a sentence.
ReadIsBacked ==
    (reply # Nothing /\ Extracted(reply.blocks) = "read"
       /\ reply.content.wrappers <= 3 /\ ~reply.content.inVerdict) =>
        LET c == reply.content
            sentences == c.claims \cup c.scenarios
        IN  /\ review.accepted <=>
                  /\ \E i \in sentences : Backed(i)
                  /\ ~\E i \in sentences : "secret" \in i.marks
                  /\ "facts" \in allowed => ~\E f \in c.facts : FactRejected(f)
            /\ review.accepted =>
                  /\ ShowsTheBacked(review.claims, c.claims)
                  /\ ShowsTheBacked(review.scenarios, c.scenarios)
                  /\ ShowsTheBacked(review.verdict, c.verdict)
                  /\ \A i \in review.claims \cup review.scenarios \cup review.verdict :
                         ChipsFit(i)
===============================================================================
