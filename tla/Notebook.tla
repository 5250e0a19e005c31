------------------------------- MODULE Notebook -------------------------------
(***************************************************************************)
(* The commentator's notebook of one fixture (core facts/) and the         *)
(* evidence a language model is shown (core evidence.py): what the games   *)
(* before it say of the two teams, the guardrails every candidate passes,  *)
(* the fold into numbers a model may quote, the bundle, and the two routes *)
(* that build one (server main.py).                                        *)
(*                                                                         *)
(* The games are those of the information horizon, one a day at most, in   *)
(* their order; what that horizon lets through is Hindsight's subject.  A   *)
(* text is the tokens it says: a count, a rate, or the digits of a name or  *)
(* of a fixed term.  Names have a letter; numbers in words are left out.    *)
(***************************************************************************)
EXTENDS Integers, Sequences, FiniteSets, FiniteSetsExt, SequencesExt

CONSTANTS
    Fixtures,   \* records with home, away, comp, neutral, source, seal: what
                \* its forecast has, with what horizon and leading outcome
    GameKinds,  \* a game without its day: home, away, hs, as, ht (the side
                \* ahead at half-time), neutral, comp, source, goals, shoot
    Digits,     \* the digits in a name
    Flagged,    \* names with a word of the betting lexicon
    Pedigree,   \* a team's World Cups: records with end, title, awards
    MinSample,      \* min_sample of a template
    StaleAfter,      \* staleness_days of a template, or more than ever pass
    Least,      \* what a template itself asks for
    Span,       \* how far back a template looks
    Cap,        \* COINCIDENCE_CAP
    Kickoff     \* its day

\* A run of wins has the floor and the staleness of an unbeaten run, or stricter ones
\* (registry.py:61-63); goals are counted; the horizons are those of the schema.
ASSUME NotebookAssumption ==
    /\ \A kind \in GameKinds :
          /\ {"hs", "as", "goals"} \subseteq DOMAIN kind
          /\ kind.hs \in Nat /\ kind.as \in Nat /\ IsFiniteSet(kind.goals)
    /\ Span.rate \in Nat /\ Cap \in Nat /\ Kickoff \in Nat
    /\ \A id \in {"unbeaten_run", "win_streak"} : MinSample[id] \in Nat /\ StaleAfter[id] \in Nat
    /\ MinSample["unbeaten_run"] <= MinSample["win_streak"]
    /\ StaleAfter["win_streak"] <= StaleAfter["unbeaten_run"]
    /\ \A f \in Fixtures : /\ f.seal.horizon \in {"T-72h", "T-24h", "T-60m"}
                           /\ f.seal.leading \in {"home", "draw", "away"}

VARIABLES
    fixture,
    games,      \* played before it, oldest first
    today,
    sidecar,    \* the precomputed notebook of its forecast
    told        \* the last evidence built, and for which route

notebookVars == <<fixture, games, today, sidecar, told>>

NoNotebook == [own |-> <<>>, facts |-> {}, sources |-> {}]
Unreadable == [NoNotebook EXCEPT !.own = <<"damaged">>]
NotTold ==
    [notebook |-> NoNotebook,
     bundle |-> [numbers |-> {}, facts |-> {}, sources |-> {}, names |-> {}]]

NoShootout == [winner |-> "nobody", first |-> "nobody"]

\* A source id is that of a pack, perhaps of one data set in it.
Pack == <<fixture.source, "results">>
Snapshot == <<"snapshot", "results">>
WorldCups == <<"fjelstul", "results">>

-------------------------------------------------------------------------------
(* The registry.                                                            *)

Templates ==
    {"unbeaten_run", "winless_run", "win_streak", "clean_sheet_run", "home_away_form",
     "biggest_win", "head_to_head_record", "neutral_venue_record",
     "both_teams_scored_rate", "clean_sheet_rate", "scoring_trend", "ht_comeback_record",
     "ht_lead_conversion", "head_to_head_goals", "top_scorer", "in_form_scorer",
     "shootout_record", "wc_pedigree", "wc_awards", "goal_timing_profile",
     "penalty_goal_share", "tournament_record", "shootout_first_shooter_edge",
     "home_advantage_base_rate", "competition_debut_base_rate", "day_of_week_streak",
     "scoreline_repeat", "calendar_date_repeat", "own_goal_quirk"}
Coincidences ==
    {"day_of_week_streak", "scoreline_repeat", "calendar_date_repeat", "own_goal_quirk"}
Dataset(id) ==
    CASE id \in {"top_scorer", "in_form_scorer", "goal_timing_profile",
                 "penalty_goal_share", "own_goal_quirk"} -> "goalscorers"
      [] id \in {"shootout_record", "shootout_first_shooter_edge"} -> "shootouts"
      [] id = "wc_pedigree" -> "standings"
      [] id = "wc_awards" -> "awards"
      [] OTHER -> "results"

-------------------------------------------------------------------------------
(* What the templates read.                                                 *)

Times(n) == <<"n", n>>
Rate(part, whole) == <<"%", part, whole>>

\* The rows that a mask leaves of a table, in their order.
Rank(mask, i) == Cardinality({j \in mask : j <= i})
Picked(rows, mask) ==
    [k \in 1 .. Cardinality(mask) |-> rows[CHOOSE i \in mask : Rank(mask, i) = k]]
Mask(rows, P(_)) == {i \in DOMAIN rows : P(rows[i])}
Where(rows, P(_)) == Picked(rows, Mask(rows, P))
CountIf(rows, P(_)) == Cardinality(Mask(rows, P))
Latest(rows, n) == SubSeq(rows, Max({1, Len(rows) - n + 1}), Len(rows))

\* trailing_run, and the games of it
Longest(n, mask) == Max({k \in 0 .. n : n - k + 1 .. n \subseteq mask})
TrailingRun(rows, P(_)) == Latest(rows, Longest(Len(rows), Mask(rows, P)))

\* Both of two records without a common key.
Joined(f, g) ==
    [k \in DOMAIN f \cup DOMAIN g |-> IF k \in DOMAIN f THEN f[k] ELSE g[k]]

\* team_perspective
Perspective(rows, t) ==
    LET mine == Where(rows, LAMBDA g : t \in {g.home, g.away})
        Seen(g, atHome) ==
            [day |-> g.day, atHome |-> atHome, neutral |-> g.neutral, comp |-> g.comp,
             teams |-> <<g.home, g.away>>, ht |-> g.ht,
             gf |-> IF atHome THEN g.hs ELSE g.as, ga |-> IF atHome THEN g.as ELSE g.hs]
    IN  [i \in DOMAIN mine |-> Seen(mine[i], mine[i].home = t)]

\* head_to_head, from the home side's perspective
Meetings(rows) ==
    Perspective(Where(rows, LAMBDA g : {g.home, g.away} = {fixture.home, fixture.away}),
                fixture.home)

IsWin(r) == r.gf > r.ga
IsDraw(r) == r.gf = r.ga
IsLoss(r) == r.gf < r.ga
Unbeaten(r) == ~IsLoss(r)
Winless(r) == ~IsWin(r)
KeptClean(r) == r.ga = 0
BothScored(r) == r.gf > 0 /\ r.ga > 0

GoalsFor(s) == FoldLeft(LAMBDA sum, r : sum + r.gf, 0, s)
GoalsIn(s) == FoldLeft(LAMBDA sum, r : sum + r.gf + r.ga, 0, s)

\* What a record says, by the keys of its numbers.
Tally(s, keys) ==
    LET wins == CountIf(s, IsWin)
    IN  [k \in keys |->
            CASE k = "games" -> Times(Len(s))
              [] k = "wins" -> Times(wins)
              [] k = "draws" -> Times(CountIf(s, IsDraw))
              [] k = "losses" -> Times(CountIf(s, IsLoss))
              [] k = "clean" -> Times(CountIf(s, KeptClean))
              [] k = "both" -> Times(CountIf(s, BothScored))
              [] k = "win_rate" -> Rate(wins, Len(s))
              [] k = "clean_rate" -> Rate(CountIf(s, KeptClean), Len(s))
              [] k = "both_rate" -> Rate(CountIf(s, BothScored), Len(s))]

\* The rows of the goalscorers and shootouts tables, by game.
GoalRows(rows) ==
    UNION {{[day |-> g.day, teams |-> <<g.home, g.away>>, goal |-> x] : x \in g.goals} :
              g \in Range(rows)}
Shootouts(rows) == Where(rows, LAMBDA g : g.shoot # NoShootout)

\* Own goals stand under the team that has them.
Proper(table, t) == {r \in table : r.goal.team = t /\ ~r.goal.own}

\* The goals of the first of the list that is sorted by goals.
MostBy(table) ==
    Max({Cardinality({r \in table : r.goal.by = q.goal.by}) : q \in table})

-------------------------------------------------------------------------------
(* A candidate: the two sides or the one it is about, what it says, from    *)
(* how many games, the day of the last of them, its specificity.            *)

Candidate(id, about, says, n, last) ==
    [id |-> id, about |-> about, says |-> says, n |-> n, last |-> last,
     weight |-> 0, source |-> Pack]

LastOf(s) == s[Len(s)].day
LastIn(table) == Max({r.day : r \in table})

\* A record of these games, when there are enough of them.
Record(id, t, s, least, keys) ==
    IF Len(s) < least THEN {} ELSE {Candidate(id, {t}, Tally(s, keys), Len(s), LastOf(s))}

\* unbeaten_run, winless_run, win_streak, clean_sheet_run
Form(t, s) ==
    Record("unbeaten_run", t, TrailingRun(s, Unbeaten), 2, {"games", "wins", "draws"})
    \cup Record("winless_run", t, TrailingRun(s, Winless), 2, {"games", "draws", "losses"})
    \cup Record("win_streak", t, TrailingRun(s, IsWin), 2, {"games"})
    \cup Record("clean_sheet_run", t, TrailingRun(s, KeptClean), 2, {"games"})

\* The home side's last games at home, the other's away.
HomeAwayForm(t, s) ==
    Record("home_away_form", t,
           Latest(Where(s, LAMBDA r : r.atHome = (t = fixture.home)), Span.legs),
           1, {"games", "wins", "draws", "losses"})

BiggestWin(t, s) ==
    LET wins == {i \in DOMAIN s : IsWin(s[i])}
        Bigger(i, j) ==
            LET a == s[i].gf - s[i].ga
                b == s[j].gf - s[j].ga
            IN  a > b \/ (a = b /\ i >= j)
        best == s[CHOOSE i \in wins : \A j \in wins : Bigger(i, j)]
    IN  IF wins = {} THEN {}
        ELSE {Candidate("biggest_win", {t},
                        [goals_for |-> Times(best.gf), goals_against |-> Times(best.ga)],
                        Len(s), LastOf(s))}

NeutralRecord(t, s) ==
    IF ~fixture.neutral THEN {}
    ELSE Record("neutral_venue_record", t, Where(s, LAMBDA r : r.neutral), 1,
                {"games", "wins", "draws", "losses", "win_rate"})

TournamentRecord(t, s) ==
    IF fixture.comp = "Friendly" \/ Cardinality({r.comp : r \in Range(s)}) < 2 THEN {}
    ELSE Record("tournament_record", t, Where(s, LAMBDA r : r.comp = fixture.comp), 1,
                {"games", "wins", "win_rate"})

Signature(t, s) ==
    LET late == Latest(s, Span.rate)
    IN  Record("both_teams_scored_rate", t, late, 1, {"both", "games", "both_rate"})
        \cup Record("clean_sheet_rate", t, late, 1, {"clean", "games", "clean_rate"})

\* Goals a game in the last games and in those before: apart by half a goal.
ScoringTrend(t, s) ==
    LET recent == Latest(s, Span.recent)
        base == Latest(SubSeq(s, 1, Len(s) - Span.recent), Span.baseline)
        apart == GoalsFor(recent) * Len(base) - GoalsFor(base) * Len(recent)
    IN  IF \/ Len(s) < Span.recent + Least.base \/ Len(base) < Least.base
           \/ 2 * apart \in - Len(base) * Len(recent) + 1 .. Len(base) * Len(recent) - 1
        THEN {}
        ELSE {Candidate("scoring_trend", {t},
                        [recent |-> Rate(GoalsFor(recent), Len(recent)),
                         games |-> Times(Len(recent)), base |-> Rate(GoalsFor(base), Len(base))],
                        Len(s), LastOf(recent))}

\* ht_comeback_record and ht_lead_conversion, where half-times are recorded
HalfTimes(t, s) ==
    LET known == Where(s, LAMBDA r : r.ht # "unknown")
    IN  Record("ht_comeback_record", t, Where(known, LAMBDA r : r.ht \notin {t, "level"}),
               1, {"games", "wins", "draws"})
        \cup Record("ht_lead_conversion", t, Where(known, LAMBDA r : r.ht = t),
                    1, {"games", "wins", "draws"})

TopScorer(t, table) ==
    LET mine == Proper(table, t)
    IN  IF mine = {} THEN {}
        ELSE {Candidate("top_scorer", {t}, [goals |-> Times(MostBy(mine))],
                        MostBy(mine), LastIn(mine))}

InFormScorer(t, s, table) ==
    LET recent == Latest(s, Span.form)
        keys == {<<r.day, r.teams>> : r \in Range(recent)}
        mine == {r \in Proper(table, t) : <<r.day, r.teams>> \in keys}
    IN  IF s = <<>> \/ mine = {} THEN {}
        ELSE IF MostBy(mine) < Least.hot THEN {}
        ELSE {Candidate("in_form_scorer", {t},
                        [goals |-> Times(MostBy(mine)), games |-> Times(Len(recent))],
                        Len(recent), LastIn(mine))}

\* The phase whose share of the timed goals is farthest from a sixth.
GoalTiming(t, table) ==
    LET timed == {r \in Proper(table, t) : r.goal.phase # "unknown"}
        n == Cardinality(timed)
        In(phase) == Cardinality({r \in timed : r.goal.phase = phase})
        Off(phase) == Max({6 * In(phase) - n, n - 6 * In(phase)})
        phase == IF Off("opening") > Off("closing") THEN "opening" ELSE "closing"
    IN  IF n < Least.timed \/ 100 * Off(phase) < 72 * n THEN {}
        ELSE {Candidate("goal_timing_profile", {t},
                        [goals |-> Times(In(phase)), timed |-> Times(n),
                         share |-> Rate(In(phase), n)], n, LastIn(timed))}

PenaltyShare(t, table) ==
    LET mine == Proper(table, t)
        n == Cardinality(mine)
        pens == Cardinality({r \in mine : r.goal.pen})
    IN  IF n < Least.goals \/ pens < Least.pens THEN {}
        ELSE {Candidate("penalty_goal_share", {t},
                        [penalties |-> Times(pens), goals |-> Times(n), share |-> Rate(pens, n)],
                        pens, LastIn(mine))}

ShootoutRecord(t, rows) ==
    LET mine == Where(Shootouts(rows), LAMBDA g : t \in {g.home, g.away})
        won == CountIf(mine, LAMBDA g : g.shoot.winner = t)
    IN  IF mine = <<>> THEN {}
        ELSE {Candidate("shootout_record", {t},
                        [wins |-> Times(won), shootouts |-> Times(Len(mine)),
                         rate |-> Rate(won, Len(mine))], Len(mine), LastOf(mine))}

\* Of the tournaments that were over by then; the source is the isolated pack.
WorldCupFacts(t) ==
    LET over == {c \in Pedigree[t] : c.end <= Kickoff}
        awards == MapThenSumSet(LAMBDA c : c.awards, over)
        Cited(id, says, n) ==
            [Candidate(id, {t}, says, n, Max({c.end : c \in over})) EXCEPT !.source = WorldCups]
    IN  IF fixture.comp # "World Cup" \/ over = {} THEN {}
        ELSE {Cited("wc_pedigree",
                    [apps |-> Times(Cardinality(over)),
                     titles |-> Times(Cardinality({c \in over : c.title}))], Cardinality(over))}
             \cup (IF awards = 0 THEN {}
                   ELSE {Cited("wc_awards", [awards |-> Times(awards)], awards)})

Between(id, says, s, n) == Candidate(id, {fixture.home, fixture.away}, says, n, LastOf(s))

\* The last meeting, as it was announced.
LastScore(s) ==
    LET last == s[Len(s)]
    IN  IF last.atHome
        THEN [last_home |-> Times(last.gf), last_away |-> Times(last.ga)]
        ELSE [last_home |-> Times(last.ga), last_away |-> Times(last.gf)]

HeadToHeadRecord(s) ==
    IF s = <<>> THEN {}
    ELSE {Between("head_to_head_record",
                  Joined(Tally(s, {"games", "wins", "draws", "losses"}), LastScore(s)), s, Len(s))}

HeadToHeadGoals(s) ==
    IF s = <<>> THEN {}
    ELSE {Between("head_to_head_goals",
                  Joined(Tally(s, {"games", "both"}), [avg |-> Rate(GoalsIn(s), Len(s))]),
                  s, Len(s))}

\* home_advantage_base_rate and competition_debut_base_rate
CompetitionFacts(rows) ==
    LET comp == Where(rows, LAMBDA g : g.comp = fixture.comp)
        fair == Where(comp, LAMBDA g : ~g.neutral)
        homeWins == CountIf(fair, LAMBDA g : g.hs > g.as)
        First(t) == Head(Perspective(comp, t)).day
        arrived == {t \in UNION {{g.home, g.away} : g \in Range(comp)} :
                       First(t) > Head(comp).day + Span.year}
        FirstYear(t) == Where(Perspective(comp, t), LAMBDA r : r.day <= First(t) + Span.year)
        Sum(F(_)) == FoldSet(LAMBDA t, sum : sum + F(t), 0, arrived)
        total == Sum(LAMBDA t : Len(FirstYear(t)))
        wins == Sum(LAMBDA t : CountIf(FirstYear(t), IsWin))
        Of(id, says, n, last) == Candidate(id, {fixture.comp}, says, n, last)
    IN  (IF fair = <<>> THEN {}
         ELSE {Of("home_advantage_base_rate",
                  [rate |-> Rate(homeWins, Len(fair)), games |-> Times(Len(fair))],
                  Len(fair), LastOf(fair))})
        \cup (IF comp = <<>> THEN {}
              ELSE IF Cardinality(arrived) < Least.debuts THEN {}
              ELSE {Of("competition_debut_base_rate",
                       [rate |-> Rate(wins, total), games |-> Times(total),
                        teams |-> Times(Cardinality(arrived))],
                       total, Max({LastOf(FirstYear(t)) : t \in arrived}))})

FirstShooterEdge(rows) ==
    LET known == Where(Shootouts(rows), LAMBDA g : g.shoot.first # "unknown")
        won == CountIf(known, LAMBDA g : g.shoot.winner = g.shoot.first)
    IN  IF known = <<>> THEN {}
        ELSE {Candidate("shootout_first_shooter_edge", {fixture.comp},
                        [shootouts |-> Times(Len(known)), rate |-> Rate(won, Len(known))],
                        Len(known), LastOf(known))}

\* The specificity of a coincidence, at most 1, in twenty-fourths.
Weighted(c, whole) == [c EXCEPT !.weight = Min({24, (24 * c.n) \div whole})]

WeekdayQuirk(t, s) ==
    LET wins == Where(s, IsWin)
        sameDay == TrailingRun(wins, LAMBDA r : r.day % Span.week = LastOf(wins) % Span.week)
    IN  {Weighted(c, 8) : c \in Record("day_of_week_streak", t, sameDay, Least.wins, {"games"})}

CalendarQuirk(t, s) ==
    LET onDate == Where(s, LAMBDA r : r.day % Span.year = Kickoff % Span.year)
    IN  {Weighted(c, 6) :
           c \in Record("calendar_date_repeat", t, onDate, Least.dates, {"games", "wins"})}

ScorelineRepeat(s) ==
    LET last == s[Len(s)]
        same == CountIf(s, LAMBDA r : {r.gf, r.ga} = {last.gf, last.ga})
        says == Joined(LastScore(s), [repeats |-> Times(same), games |-> Times(Len(s))])
    IN  IF s = <<>> \/ Len(s) < Least.meetings THEN {}
        ELSE IF same < 2 THEN {}
        ELSE {Weighted(Between("scoreline_repeat", says, s, same), Len(s))}

OwnGoalQuirk(t, table) ==
    LET own == {r \in table : r.goal.team = t /\ r.goal.own}
        n == Cardinality(own)
    IN  IF n < Least.own THEN {}
        ELSE {Weighted(Candidate("own_goal_quirk", {t}, [own |-> Times(n)], n, LastIn(own)), 12)}

\* The games of the fixture's own source; only the internationals have the side tables.
OwnGames == Where(games, LAMBDA g : g.source = fixture.source)
OwnShootouts == IF fixture.source = "internationals" THEN OwnGames ELSE <<>>
OwnGoals == IF fixture.source = "internationals" THEN GoalRows(OwnGames) ELSE {}

\* The templates that are evaluated once per side, on these games and goals.
OfGames(t, s) ==
    UNION {Form(t, s), HomeAwayForm(t, s), BiggestWin(t, s), NeutralRecord(t, s),
           TournamentRecord(t, s), Signature(t, s), ScoringTrend(t, s), HalfTimes(t, s),
           WeekdayQuirk(t, s), CalendarQuirk(t, s)}
OfGoals(t, s, table) ==
    UNION {TopScorer(t, table), InFormScorer(t, s, table), GoalTiming(t, table),
           PenaltyShare(t, table), OwnGoalQuirk(t, table)}
OfSide(t) ==
    LET s == Perspective(OwnGames, t)
    IN  OfGames(t, s) \cup OfGoals(t, s, OwnGoals) \cup ShootoutRecord(t, OwnShootouts)

OfMeetings(s) == HeadToHeadRecord(s) \cup HeadToHeadGoals(s) \cup ScorelineRepeat(s)

Proposed ==
    OfSide(fixture.home) \cup OfSide(fixture.away) \cup OfMeetings(Meetings(OwnGames))
        \cup CompetitionFacts(OwnGames) \cup FirstShooterEdge(OwnShootouts)

-------------------------------------------------------------------------------
(* apply_guardrails.  An undisciplined text is an error of the whole        *)
(* notebook; of coincidences the most specific are kept.                    *)

DisplaysOf(c) == {c.says[k] : k \in DOMAIN c.says}
Text(c) == DisplaysOf(c) \cup UNION {Digits[name] : name \in c.about}
Fresh(c, asOf) == asOf - c.last <= StaleAfter[c.id]

MostSpecific(cleared) ==
    LET odd == {c \in cleared : c.id \in Coincidences}
        suppressed == CHOOSE K \in SUBSET odd :
                  /\ Cardinality(K) = Max({0, Cardinality(odd) - Cap})
                  /\ \A c \in K, d \in odd \ K : c.weight <= d.weight
    IN  cleared \ suppressed

\* build_notebook from what was proposed: no notebook when it raises.
Built(proposed, own, asOf) ==
    LET cleared == {c \in proposed : c.n >= MinSample[c.id] /\ Fresh(c, asOf)}
        Sourced(c) == IF c.source = Pack THEN [c EXCEPT !.source = own] ELSE c
        facts == {Sourced(c) : c \in MostSpecific(cleared)}
    IN  IF \E c \in cleared : ~(Text(c) \subseteq DisplaysOf(c)) THEN NoNotebook
        ELSE [facts |-> facts, own |-> own, sources |-> {own} \cup {c.source : c \in facts}]

\* _compute_notebook_on_demand, with the isolated pack at a World Cup
OnDemand ==
    Built(Proposed \cup WorldCupFacts(fixture.home) \cup WorldCupFacts(fixture.away),
          Pack, Kickoff)

-------------------------------------------------------------------------------
(* notebook_to_evidence: a number is named after its template and the place *)
(* of its fact in the notebook, for which the fact itself stands.           *)

Attributed(c, scoping) ==
    IF scoping /\ Dataset(c.id) # "results" THEN <<c.source[1], Dataset(c.id)>> ELSE c.source

\* Mutant: the numbers are named after the template alone.
NumberNameBare(c, k) == <<c.id, k>>
NumberName(c, k) == <<c.id, c, k>>

Folded(notebook) ==
    {c \in notebook.facts : c.id \notin Coincidences /\ c.about \cap Flagged = {}}
NumbersOf(c, scoping) ==
    {[id |-> NumberName(c, k), fact |-> c, display |-> c.says[k],
      sources |-> {Attributed(c, scoping)}] : k \in DOMAIN c.says}
NoteNumbers(notebook, scoping) == UNION {NumbersOf(c, scoping) : c \in Folded(notebook)}

\* The facts as the bundle has them: with their text and their numbers.
NoteFacts(notebook, scoping) ==
    {[text |-> Text(c), mentions |-> {}, refs |-> {NumberName(c, k) : k \in DOMAIN c.says},
      sources |-> {Attributed(c, scoping)}] : c \in Folded(notebook)}

\* extra_sources
NoteSources(notebook) ==
    {Attributed(c, TRUE) : c \in {f \in Folded(notebook) : Dataset(f.id) # "results"}}

-------------------------------------------------------------------------------
(* The bundles.  The engine's numbers have names of their own, and its facts *)
(* show the displays of the numbers they refer to, among names and terms    *)
(* that may have digits too.                                                *)

Engine == <<"engine", "results">>
Outcomes == {"home", "draw", "away"}
Ends == {"home", "away"}

\* _TERMINOLOGY: what the guard takes out of every text.
Terminology == {"1X2", "1x2_regulation", "T-72h", "T-24h", "T-60m"}

\* _safe_literals: the names of the match, which the guard takes out as well.
MatchNames == {fixture.home, fixture.away, fixture.comp}

Named(names, sources) ==
    {[id |-> <<"engine", n>>, fact |-> [engine |-> n], display |-> <<"of", n>>,
      sources |-> sources] : n \in names}
Shows(names, mentions, sources) ==
    [text |-> {<<"of", n>> : n \in names}, mentions |-> mentions,
     refs |-> {<<"engine", n>> : n \in names}, sources |-> sources]
Sides == {fixture.home, fixture.away}

Probs(of) == {<<of, x>> : x \in Outcomes}
ExpectedGoals(of) == {<<of, "xg", x>> : x \in Ends}

\* _score_numbers: three scorelines, the cap of the grid and what is beyond it
Scoreline(rank) == {<<"score", rank, x>> : x \in Ends \cup {"prob"}}
Beyond == {<<"score", "grid_max">>, <<"score", "tail">>}
ScoreNumbers(data) == Named(Scoreline(1) \cup Scoreline(2) \cup Scoreline(3) \cup Beyond, data)
ScoreFacts(data) ==
    {Shows(Scoreline(1), Sides, data), Shows(Beyond, {}, data),
     Shows(Scoreline(1) \cup Scoreline(2) \cup Scoreline(3), Sides, data)}

\* _allowed_numbers of a sealed forecast: nothing when it abstained.
SealedNumbers(seal, data) ==
    (IF seal.abstained THEN {} ELSE Named(Probs("prob"), data))
    \cup (IF seal.goals THEN Named(ExpectedGoals("prob"), data) \cup ScoreNumbers(data) ELSE {})
    \cup (IF seal.scored
          THEN Named({<<"actual", x>> : x \in Ends}, {Snapshot})
               \cup Named({<<"prob_assigned">>, <<"log_loss">>, <<"brier">>}, data)
          ELSE {})

\* The leader and the score line name the sides, the distribution is of "1X2",
\* the seal says its horizon, the venue whose home it is.
SealedFacts(seal, data) ==
    {Shows({}, {}, {Engine}), Shows({}, {seal.horizon}, {Engine}),
     Shows({}, IF fixture.neutral THEN {} ELSE {fixture.home}, data)}
    \cup (IF seal.abstained THEN {}
          ELSE {Shows({<<"prob", seal.leading>>}, {fixture[x] : x \in {seal.leading} \cap Ends}, data),
                Shows(Probs("prob"), Sides \cup {"1X2"}, data)})
    \cup (IF seal.goals
          THEN {Shows(ExpectedGoals("prob"), Sides, {Engine})} \cup ScoreFacts(data) ELSE {})
    \cup (IF seal.scored
          THEN {Shows({<<"actual", x>> : x \in Ends} \cup {<<"prob_assigned">>}, Sides, data)}
          ELSE {})

\* _council_numbers: of the voices with probabilities; the goals are one's.
CouncilNumbers(seal, data) ==
    (UNION {Named(Probs(v), data) : v \in seal.voices})
    \cup (IF "dixon_coles" \in seal.voices
          THEN Named(ExpectedGoals("dixon_coles") \cup Scoreline(1) \cup {<<"btts">>}
                       \cup {<<"clean_sheet", x>> : x \in Ends}, data)
          ELSE {})
CouncilFacts(seal, data) ==
    {Shows({}, {}, {Engine})} \cup {Shows(Probs(v), Sides, data) : v \in seal.voices}

\* validate_evidence_bundle: ids once, sources and references known.
Closed(b) ==
    LET ids == {n.id : n \in b.numbers}
    IN  /\ \A n, m \in b.numbers : n.id = m.id => n = m
        /\ \A n \in b.numbers : n.sources \subseteq b.sources
        /\ \A f \in b.facts : f.sources \subseteq b.sources /\ f.refs \subseteq ids

\* build_match_evidence_bundle, with its _match_sources
MatchBundle(notebook) ==
    LET pack == {notebook.own} \ {NoNotebook.own}
        data == {Engine} \cup pack
    IN  [numbers |-> CouncilNumbers(fixture.seal, data) \cup NoteNumbers(notebook, TRUE),
         facts |-> CouncilFacts(fixture.seal, data) \cup NoteFacts(notebook, TRUE),
         sources |-> data \cup notebook.sources \cup NoteSources(notebook),
         names |-> MatchNames]

\* build_evidence_bundle: the sources are the forecast's; the features refer
\* to its expected goals.
SealBundle(notebook) ==
    LET data == {Engine, Snapshot}
        features == IF fixture.seal.goals THEN {Shows(ExpectedGoals("prob"), {}, {Engine})} ELSE {}
    IN  [numbers |-> SealedNumbers(fixture.seal, data) \cup NoteNumbers(notebook, FALSE),
         facts |-> SealedFacts(fixture.seal, data) \cup features \cup NoteFacts(notebook, FALSE),
         sources |-> data, names |-> MatchNames]

\* match_notebook: what was precomputed and can be read, or else on demand.
MatchNotebook == IF sidecar \in {NoNotebook, Unreadable} THEN OnDemand ELSE sidecar

\* match_narrative
NarratesMatch ==
    /\ told' = [notebook |-> MatchNotebook, bundle |-> MatchBundle(MatchNotebook)]
    /\ UNCHANGED <<fixture, games, today, sidecar>>

\* narrative, with _notebook_evidence: what cannot be read is no notebook.
NarratesSeal ==
    LET notebook == IF sidecar = Unreadable THEN NoNotebook ELSE sidecar
    IN  /\ told' = [notebook |-> notebook, bundle |-> SealBundle(notebook)]
        /\ UNCHANGED <<fixture, games, today, sidecar>>

-------------------------------------------------------------------------------
(* Days pass, games are played, the forecast is sealed with its notebook.   *)

NotebookInit ==
    /\ fixture \in Fixtures
    /\ games = <<>> /\ today = 1
    /\ sidecar = NoNotebook
    /\ told = NotTold

DayPasses ==
    /\ today < Kickoff
    /\ \/ UNCHANGED games
       \/ \E kind \in GameKinds : games' = Append(games, Joined([day |-> today], kind))
    /\ today' = today + 1
    /\ told' = NotTold
    /\ UNCHANGED <<fixture, sidecar>>

\* _write_notebook_best_effort: written only when it was built.
SealWrites ==
    /\ sidecar = NoNotebook
    /\ sidecar' = Built(Proposed, Snapshot, today)
    /\ told' = NotTold
    /\ UNCHANGED <<fixture, games, today>>

\* The sidecar is not verified: it can be damaged on the disk.
SidecarIsDamaged ==
    /\ sidecar \notin {NoNotebook, Unreadable}
    /\ sidecar' = Unreadable
    /\ told' = NotTold
    /\ UNCHANGED <<fixture, games, today>>

NotebookNext ==
    \/ DayPasses
    \/ SealWrites
    \/ SidecarIsDamaged
    \/ NarratesMatch
    \/ NarratesSeal

NotebookSpec == NotebookInit /\ [][NotebookNext]_notebookVars

-------------------------------------------------------------------------------
(* Properties.                                                              *)

Said(c, k) == c.says[k][2]

\* What the templates say of one team, or of the two, fits together: a run of
\* wins is in the unbeaten run, an unbeaten and a winless run share draws, the
\* records of the meetings count the same games, the scorer in form has no more
\* goals than the top scorer, and half-times are those of games.
NotesAgree(facts) ==
    LET Of(id, about) == {c \in facts : c.id = id /\ c.about = about}
    IN  \A about \in {c.about : c \in facts} :
        /\ \A c \in Of("win_streak", about) : \E u \in Of("unbeaten_run", about) :
              Said(u, "wins") >= Said(c, "games")
        /\ \A u \in Of("unbeaten_run", about), w \in Of("winless_run", about) :
              {Said(u, "draws"), Said(w, "draws")}
                  \cap 0 .. Min({Said(u, "games"), Said(w, "games")}) - 1 = {}
        /\ \A c \in Of("clean_sheet_run", about), r \in Of("clean_sheet_rate", about) :
              Said(r, "clean") >= Min({Span.rate, Said(c, "games")})
        /\ \A m \in Of("head_to_head_record", about) :
              /\ Said(m, "wins") + Said(m, "draws") + Said(m, "losses") = Said(m, "games")
              /\ \A g \in Of("head_to_head_goals", about) : Said(g, "games") = Said(m, "games")
        /\ \A f \in Of("in_form_scorer", about) : \A t \in Of("top_scorer", about) :
              Said(f, "goals") <= Said(t, "goals")
        /\ \A b \in Of("biggest_win", about) :
              \A k \in Of("ht_comeback_record", about), l \in Of("ht_lead_conversion", about) :
                  Said(k, "games") + Said(l, "games") <= b.n

\* The digits of a fact that the guard finds: fixed terms and the names of the
\* match are taken out first (unsupported_number_tokens).
FoundBy(f, b) == f.text \cup UNION {Digits[m] : m \in f.mentions \ (Terminology \cup b.names)}

\* A bundle that passes its own validation, and whose facts can be repeated: every
\* digit the guard finds in one is the display of a number it refers to.
Quotable(b) ==
    /\ Closed(b)
    /\ \A f \in b.facts :
          FoundBy(f, b) \subseteq {n.display : n \in {m \in b.numbers : m.id \in f.refs}}

\* A model is shown only what it can quote, also on the sealed route, which does not
\* catch a failing validation (evidence.py:645-675, main.py:201-221).
BundleIsQuotable == Quotable(told.bundle)

\* The bundle can be quoted, no more coincidences are told than the cap, and the
\* notes agree.  The engine's part is the same with and without notes.
EvidenceIsClosed ==
    /\ BundleIsQuotable
    /\ Cardinality({c \in told.notebook.facts : c.id \in Coincidences}) <= Cap
    /\ NotesAgree(told.notebook.facts)
===============================================================================
