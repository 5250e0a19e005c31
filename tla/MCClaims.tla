------------------------------- MODULE MCClaims -------------------------------
(***************************************************************************)
(* What the app says, in one run: a behaviour is about the corrections a   *)
(* user proposes, the reply of a language model, what is sealed, what is   *)
(* computed for a reader, a season, a notebook, or one of the lookups at   *)
(* the provider.  The others stand still.  Only invariants are checked;    *)
(* nothing in Corrections depends on which proposal, value or view is      *)
(* which, and the other modules do not have these constants, so the        *)
(* permutations of each set are symmetries.                                *)
(*                                                                         *)
(* An analysis and a notebook change nothing but the answer: what can come *)
(* after one can come before it, so such a state needs no successors.      *)
(***************************************************************************)
EXTENDS Corrections, Narration, Hindsight, Season, Notebook, Provider, TLC

VARIABLE half

allVars == <<half, vars, narrVars, hindVars, seasonVars, notebookVars, providerVars>>

Symmetry ==
    Permutations(Proposals) \cup Permutations(Vals) \cup Permutations(Digests)
        \cup Permutations(Views)

MCInit ==
    /\ half \in {"corrections", "narration", "seals", "reads", "season", "notes"} \cup Lookups
    /\ Init /\ NarrInit /\ HindInit
    /\ IF half = "season" THEN SeasonInit ELSE season = {} /\ outlook = NotAsked
    /\ IF half = "notes" THEN NotebookInit
       ELSE fixture = {} /\ games = <<>> /\ today = 0 /\ sidecar = NoNotebook /\ told = NotTold
    /\ IF half \in Lookups THEN ProviderInit
       ELSE /\ consent = DefaultSettings /\ token = [environment |-> FALSE, keychain |-> FALSE]
            /\ change = NoChange /\ removal = FALSE /\ catalog = [day |-> <<>>, team |-> <<>>]
            /\ lookup = [l \in Lookups |-> Refused] /\ spent = 0
    /\ half # "narration" => allowed = {}
    /\ half \notin {"seals", "reads"} => index.of = 0

MCNext ==
    /\ UNCHANGED half
    /\ \/ /\ half = "corrections" /\ Next
          /\ UNCHANGED <<narrVars, hindVars, seasonVars, notebookVars, providerVars>>
       \/ /\ half = "narration" /\ NarrNext
          /\ UNCHANGED <<vars, hindVars, seasonVars, notebookVars, providerVars>>
       \/ /\ half \in {"seals", "reads"} /\ answer.kind \notin {"analysis", "notebook"}
          /\ UNCHANGED <<vars, narrVars, seasonVars, notebookVars, providerVars>>
          /\ \/ WorldNext \/ Killed
             \/ half = "seals" /\ SealNext
             \/ half = "reads" /\ ReadNext
       \/ /\ half = "season" /\ SeasonNext
          /\ UNCHANGED <<vars, narrVars, hindVars, notebookVars, providerVars>>
       \/ /\ half = "notes" /\ NotebookNext
          /\ UNCHANGED <<vars, narrVars, hindVars, seasonVars, providerVars>>
       \/ /\ half \in Lookups /\ (ProviderChanges \/ LookupNext(half))
          /\ UNCHANGED <<vars, narrVars, hindVars, seasonVars, notebookVars>>

MCSpec == MCInit /\ [][MCNext]_allVars

-------------------------------------------------------------------------------
(* Narration: four tokens of which one begins, and one is, another's part. *)

MCInside ==
    {<<"1", "10">>, <<"1", "1.2">>, <<"1", "1.2%">>, <<"1.2", "1.2%">>}
MCLeads == {<<"1.2", "1.2%">>}
MCRounds == {<<"1", "1">>, <<"10", "10">>, <<"1.2", "1.2">>, <<"1.2%", "1.2">>,
             <<"1.2", "1.2%">>, <<"1.2%", "1.2%">>, <<"1", "1.2">>, <<"1", "1.2%">>}

MCNumber(id, display, sources) == [id |-> id, display |-> display, sources |-> sources]
MCNumbers ==
    {MCNumber("n1", "1", {"s1"}), MCNumber("n2", "10", {"s1"}),
     MCNumber("n3", "10", {"s2"}), MCNumber("n4", "1.2", {"s1", "s2"})}

MCItem(says, cites, marks) ==
    [says |-> says, names |-> {}, mentions |-> {}, cites |-> cites, refs |-> {},
     marks |-> marks]
MCSamples ==
    {MCItem({"10"}, {"s2"}, {}), MCItem({"1"}, {"s2"}, {}), MCItem({}, {"s1"}, {"secret"})}

MCNotes ==
    {[says |-> {"1"}, quotes |-> {"1.2"}, fetched |-> TRUE, verbatim |-> TRUE,
      marks |-> {}],
     [says |-> {"1.2%"}, quotes |-> {"10"}, fetched |-> TRUE, verbatim |-> FALSE,
      marks |-> {}],
     [says |-> {}, quotes |-> {}, fetched |-> FALSE, verbatim |-> FALSE,
      marks |-> {"betting"}]}

-------------------------------------------------------------------------------
(* Hindsight: on one day a game with an earlier and a later one, the later *)
(* known by its date alone; beside them the games of two leagues.          *)

MCRecord(kick, exact, source, league, teams) ==
    [kick |-> kick, exact |-> exact, source |-> source, club |-> source = "clubs",
     league |-> league, teams |-> teams]

MCGames == {"a", "b", "c", "d", "e"}
MCGame ==
    [g \in MCGames |->
        CASE g = "a" -> MCRecord(2, TRUE, "internationals", "cup", {"x", "y"})
          [] g = "b" -> MCRecord(3, FALSE, "internationals", "friendly", {"x", "z"})
          [] g = "c" -> MCRecord(0, TRUE, "internationals", "cup", {"x", "y"})
          [] g = "d" -> MCRecord(3, TRUE, "clubs", "one", {"x"})
          [] g = "e" -> MCRecord(1, TRUE, "clubs", "two", {"x"})]

-------------------------------------------------------------------------------
(* Season: three teams, two games played or missing, one at the cutoff.    *)

MCTeams == 1 .. 3
MCDeduction == [t \in MCTeams |-> IF t = 2 THEN 1 ELSE 0]
MCResults == {<<0, 0>>, <<1, 0>>, <<0, 2>>}
MCKick ==
    [p \in (MCTeams \X MCTeams) \ {<<t, t>> : t \in MCTeams} |->
        CASE p \in {<<1, 2>>, <<2, 3>>} -> "before"
          [] p = <<3, 1>> -> "at"
          [] OTHER -> "after"]

-------------------------------------------------------------------------------
(* Notebook: the same sides among the internationals and in a league, where *)
(* a third has digits in its name.                                         *)

MCFixture(away, comp, source, seal) ==
    [home |-> "h", away |-> away, comp |-> comp, neutral |-> source = "internationals",
     source |-> source, seal |-> seal]
MCSeal(voices, scored) ==
    [abstained |-> voices = {}, goals |-> "dixon_coles" \in voices, voices |-> voices,
     scored |-> scored, horizon |-> "T-24h", leading |-> "away"]
MCFixtures ==
    {MCFixture("a", "World Cup", "internationals", MCSeal({"elo", "dixon_coles"}, TRUE)),
     MCFixture("a", "one", "clubs", MCSeal({"elo"}, FALSE)),
     MCFixture("c04", "one", "clubs", MCSeal({}, FALSE))}
MCGoal(by, own, pen, phase) ==
    [team |-> "h", by |-> by, own |-> own, pen |-> pen, phase |-> phase]
MCKind(home, away, score, ht, comp, source) ==
    [home |-> home, away |-> away, hs |-> score[1], as |-> score[2], ht |-> ht, comp |-> comp,
     neutral |-> comp = "World Cup", source |-> source, goals |-> {}, shoot |-> NoShootout]
MCKinds ==
    {[MCKind("h", "a", <<2, 0>>, "a", "World Cup", "internationals") EXCEPT
        !.goals = {MCGoal("p", FALSE, TRUE, "closing"), MCGoal("q", FALSE, FALSE, "closing")}],
     [MCKind("a", "h", <<1, 1>>, "h", "World Cup", "internationals") EXCEPT
        !.goals = {MCGoal("p", TRUE, FALSE, "unknown")},
        !.shoot = [winner |-> "h", first |-> "h"]],
     MCKind("h", "a", <<0, 0>>, "unknown", "Friendly", "internationals"),
     MCKind("h", "a", <<2, 1>>, "level", "one", "clubs"),
     MCKind("c04", "h", <<0, 2>>, "h", "one", "clubs")}
MCMinSample == [id \in Templates |-> IF id \in {"biggest_win", "clean_sheet_rate"} THEN 2 ELSE 1]
MCStaleAfter ==
    [id \in Templates |->
        IF id \in {"unbeaten_run", "winless_run", "win_streak", "in_form_scorer"} THEN 1 ELSE 9]
MCDigits ==
    [n \in {"h", "a", "c04", "World Cup", "one"} |-> IF n = "c04" THEN {<<"04">>} ELSE {}]
MCPedigree ==
    [t \in {"h", "a", "c04"} |->
        IF t # "h" THEN {}
        ELSE {[end |-> 1, title |-> TRUE, awards |-> 2], [end |-> 9, title |-> TRUE, awards |-> 1]}]
MCLeast ==
    [base |-> 1, timed |-> 2, goals |-> 2, pens |-> 1, hot |-> 1, meetings |-> 2, debuts |-> 1,
     wins |-> 2, dates |-> 1, own |-> 1]
MCSpan ==
    [legs |-> 2, rate |-> 2, recent |-> 1, baseline |-> 2, form |-> 2, week |-> 2, year |-> 1]

-------------------------------------------------------------------------------
(* Provider: two rows to a page and two pages; a day whose second page may  *)
(* hold the fixture, a namesake of it, or another season's.                 *)

MCListed(id, scope, quarters, day) ==
    [id |-> id, names |-> id # 3, scope |-> scope, quarters |-> quarters, day |-> day]
MCAsked ==
    {[precision |-> p, five |-> f] : p \in {"exact", "day"}, f \in BOOLEAN}
MCOther == MCListed(3, TRUE, 0, TRUE)
MCDayLists ==
    {<<MCListed(1, TRUE, 1, TRUE)>>,
     <<MCOther, MCListed(2, FALSE, 0, TRUE), MCListed(1, TRUE, 1, TRUE)>>,
     <<MCListed(4, TRUE, 2, TRUE), MCOther, MCListed(1, TRUE, 1, TRUE)>>}
MCTransfer(id, day, own) == [id |-> id, day |-> day, own |-> own]
MCTransferLists ==
    {<<MCTransfer(1, 2, TRUE), MCTransfer(2, 1, TRUE), MCTransfer(3, 1, TRUE)>>,
     <<MCTransfer(1, 3, TRUE), MCTransfer(2, 2, TRUE), MCTransfer(3, 1, TRUE), MCTransfer(4, 1, TRUE),
       MCTransfer(5, 0, TRUE)>>,
     <<MCTransfer(1, 1, TRUE), MCTransfer(2, 0, TRUE), MCTransfer(3, 0, FALSE)>>}
MCPrice(book, sel, live, own) ==
    [book |-> book, sel |-> sel, live |-> live, own |-> own, price |-> TRUE]
MCWhole(book) == <<MCPrice(book, "home", TRUE, TRUE), MCPrice(book, "draw", TRUE, TRUE),
                   MCPrice(book, "away", TRUE, TRUE)>>
MCOddsReplies ==
    {MCWhole(1), MCWhole(1) \o <<MCPrice(1, "draw", TRUE, TRUE)>> \o MCWhole(2),
     <<MCPrice(1, "home", FALSE, TRUE), MCPrice(1, "home", TRUE, FALSE)>>}
MCFigure(type, own) == [type |-> type, own |-> own, pinned |-> TRUE]
MCPlayer(id, own, details) ==
    [player |-> id, lineup |-> id, own |-> own, details |-> details]
MCLensReplies ==
    {[own |-> TRUE, rows |-> <<MCPlayer(1, TRUE, <<MCFigure(1, TRUE), MCFigure(2, FALSE)>>)>>,
      confirmed |-> <<"confirmed">>],
     [own |-> TRUE, rows |-> <<MCPlayer(1, TRUE, <<>>), MCPlayer(1, TRUE, <<>>)>>,
      confirmed |-> <<>>]}
MCPredictions ==
    {{[full |-> TRUE, own |-> TRUE, whole |-> TRUE]},
     {[full |-> TRUE, own |-> TRUE, whole |-> TRUE], [full |-> TRUE, own |-> FALSE, whole |-> TRUE]}}
MCNewFixtures == {MCListed(9, TRUE, 0, TRUE)}
MCNewTransfers == {MCTransfer(9, 2, TRUE), MCTransfer(8, 1, TRUE)}
MCCapChoices ==
    {{"external_odds", "player_lens"}, {"external_prediction", "transfer_desk"}, {"external_odds", "transfer_desk"}}
===============================================================================
