-------------------------------- MODULE Season --------------------------------
(***************************************************************************)
(* A league season and the end of a tournament, as they are computed for a *)
(* reader: the table (core standings.py), the certificate of the fixture   *)
(* list, the scenario and one run of the simulation (season_outlook.py),   *)
(* the shares that are displayed, and the exact bracket (outlook.py).      *)
(*                                                                         *)
(* Teams are numbers, which stand for their alphabetical order.  A kickoff *)
(* is before, at or after the cutoff.  The fits are left out: a run may    *)
(* draw any score, a play-off may go either way, and a team advances with  *)
(* any probability in halves.                                              *)
(***************************************************************************)
EXTENDS Integers, Sequences, FiniteSets, FiniteSetsExt

CONSTANTS
    Teams,      \* of the league
    Expected,   \* how many the rule expects
    Deduction,  \* points taken from each by a decision
    Relegated,  \* relegation places
    Results,    \* the scores that are tried
    Kick,       \* of each fixture: "before", "at" or "after" the cutoff
    Runs,       \* iterations of a simulation
    Units       \* the whole, in the smallest share that is displayed

Pairs == {p \in Teams \X Teams : p[1] # p[2]}
NoScore == <<>>

ASSUME SeasonAssumption ==
    /\ Teams \subseteq Nat /\ IsFiniteSet(Teams)
    /\ Kick \in [Pairs -> {"before", "at", "after"}] /\ NoScore \notin Results
    /\ Results \subseteq Nat \X Nat /\ Deduction \in [Teams -> Int]
    /\ Relegated \in 1 .. (Cardinality(Teams) - 1)
    /\ Runs \in Nat \ {0} /\ Units \in Nat \ {0}

VARIABLES
    season,   \* the rows of the index, and the rule of the league
    outlook   \* what was answered

seasonVars == <<season, outlook>>

NotAsked == [status |-> "none"]

\* LEAGUE_RULES: what decides after the points.
Rules == {"goals", "goals_wins", "duels", "duels_playoffs"}
Duels(rule) == rule \in {"duels", "duels_playoffs"}

Played(row) == row.score # NoScore

\* What a function has in all over a set.
SumOf(f, S) == MapThenSumSet(LAMBDA x : f[x], S)

-------------------------------------------------------------------------------
(* The table. *)

For(row, t) == IF row.pair[1] = t THEN row.score[1] ELSE row.score[2]
Against(row, t) == IF row.pair[1] = t THEN row.score[2] ELSE row.score[1]
Of(rows, t) == {r \in rows : t \in {r.pair[1], r.pair[2]}}

Won(rows, t) == Cardinality({r \in Of(rows, t) : For(r, t) > Against(r, t)})
Drawn(rows, t) == Cardinality({r \in Of(rows, t) : For(r, t) = Against(r, t)})
Points(rows, t) == 3 * Won(rows, t) + Drawn(rows, t)
Scored(rows, t) ==
    Cardinality(UNION {{<<r.id, goal>> : goal \in 1 .. For(r, t)} : r \in Of(rows, t)})
Conceded(rows, t) ==
    Cardinality(UNION {{<<r.id, goal>> : goal \in 1 .. Against(r, t)} : r \in Of(rows, t)})
Margin(rows, t) == Scored(rows, t) - Conceded(rows, t)

\* The row of a team, adjusted.
Row(rows, t) ==
    [team |-> t, points |-> Points(rows, t) - Deduction[t], margin |-> Margin(rows, t),
     scored |-> Scored(rows, t), won |-> Won(rows, t)]

Ahead(k, l) == \E i \in DOMAIN k : (\A j \in 1 .. i - 1 : k[j] = l[j]) /\ k[i] > l[i]

\* The teams in the order of their keys.
Ranked(keys) ==
    [i \in 1 .. Cardinality(keys) |->
        (CHOOSE k \in keys : Cardinality({l \in keys : Ahead(l.key, k.key)}) = i - 1).team]

\* _overall_key, and the key of teams that are compared by their duels.
Key(rule, row) ==
    <<row.points, row.margin, row.scored>>
        \o (IF rule = "goals_wins" THEN <<row.won>> ELSE <<>>) \o <<-row.team>>

Among(rows, group) == {r \in rows : {r.pair[1], r.pair[2]} \subseteq group}

DuelKey(row, duels) ==
    <<row.points, Points(duels, row.team), Margin(duels, row.team), Scored(duels, row.team),
      row.margin, row.scored, row.won, -row.team>>

\* The teams of a table that have as many points as one of its rows.
Level(table, row) == {r.team : r \in {q \in table : q.points = row.points}}

\* _head_to_head_complete.
DuelsComplete(duels, group) ==
    Cardinality({r.pair : r \in duels}) = Cardinality(group) * (Cardinality(group) - 1)

\* standings_table: the duels decide when all of them were played.
Standings(rows, rule) ==
    LET table == {Row(rows, t) : t \in Teams}
        key(row) ==
            LET group == Level(table, row)
                duels == Among(rows, group)
            IN  IF Duels(rule) /\ DuelsComplete(duels, group)
                THEN DuelKey(row, duels) ELSE Key(rule, row)
    IN  Ranked({[key |-> key(row), team |-> row.team] : row \in table})

-------------------------------------------------------------------------------
(* The certificate and the scenario. *)

\* A double round-robin, each fixture once.
ListIsComplete(rows) ==
    LET pairs == {r.pair : r \in rows} IN
    /\ Cardinality(UNION {{p[1], p[2]} : p \in pairs}) = Expected
    /\ Cardinality(rows) = Expected * (Expected - 1)
    /\ Cardinality(pairs) = Expected * (Expected - 1)
    /\ \A p \in pairs : p[1] # p[2]

\* _remaining_fixtures.
Remaining(rows) == {r \in rows : ~Played(r) /\ r.kick = "after"}

\* _apply_forced_results, which refuses other fixtures.
Forced(rows, forced) ==
    {IF r.id \in DOMAIN forced THEN [r EXCEPT !.score = forced[r.id]] ELSE r : r \in rows}

\* What the table may count: no result of the future but a forced one.
Visible(rows, forced) ==
    {r \in rows : Played(r) /\ (r.kick # "after" \/ r.id \in DOMAIN forced)}

-------------------------------------------------------------------------------
(* One run of _voice_simulation. *)

\* The rows of the season so far, and what the run adds.
Total(rows, drawn, t) ==
    LET now == Row(rows, t) IN
    [team |-> t, points |-> now.points + Points(drawn, t),
     margin |-> now.margin + Margin(drawn, t), scored |-> now.scored + Scored(drawn, t),
     won |-> now.won + Won(drawn, t)]

\* Mutant: teams that are level are not compared by their duels.
OrderWithoutDuels(table, rows, rule) ==
    Ranked({[key |-> Key(rule, row), team |-> row.team] : row \in table})

\* _overall_order and _head_to_head_order.
Order(table, rows, rule) ==
    LET key(row) == IF Duels(rule) THEN DuelKey(row, Among(rows, Level(table, row)))
                    ELSE Key(rule, row)
    IN  Ranked({[key |-> key(row), team |-> row.team] : row \in table})

Swapped(order, i) == [order EXCEPT ![i] = order[i + 1], ![i + 1] = order[i]]

\* A play-off between two who are level at a boundary may turn them around.
AfterPlayoff(orders, table, rule, i) ==
    orders \cup
        {Swapped(o, i) : o \in {p \in orders :
            rule = "duels_playoffs" /\ \E row \in table : {p[i], p[i + 1]} \subseteq Level(table, row)}}

\* First for the title, then for the last place that is safe.
FinalOrders(rows, drawn, rule) ==
    LET table == {Total(rows, drawn, t) : t \in Teams}
    IN  AfterPlayoff(AfterPlayoff({Order(table, rows \cup drawn, rule)}, table, rule, 1),
                     table, rule, Cardinality(Teams) - Relegated)

-------------------------------------------------------------------------------
(* season_outlook. *)

Reason(rows) ==
    CASE rows = {} -> "fixtures_not_published"
      [] \E r \in rows : Played(r) /\ r.kick = "after" -> "future_result_leak"
      [] \E r \in rows : ~Played(r) /\ r.kick = "before" -> "past_result_gaps"
      [] ~ListIsComplete(rows) -> "incomplete_fixture_list"
      [] \A r \in rows : Played(r) -> "season_complete"
      [] OTHER -> "none"

\* A run draws the fixtures that have no result, the one that begins at the
\* cutoff with them.
Simulates(forced) ==
    LET rows == Forced(season.rows, forced)
        open == {r \in rows : ~Played(r)}
        done == rows \ open
        table == Standings(Visible(rows, forced), season.rule)
    IN  IF Reason(season.rows) # "none"
        THEN outlook' = [status |-> "blocked", reason |-> Reason(season.rows),
                         rule |-> season.rule, forced |-> forced, table |-> table]
        ELSE \E scores \in [{r.id : r \in open} -> Results] :
                LET drawn == Forced(open, scores) IN
                \E order \in FinalOrders(done, drawn, season.rule) :
                    outlook' = [status |-> "available", order |-> order,
                                final |-> done \cup drawn,
                                rule |-> season.rule, forced |-> forced, table |-> table]

\* A scenario forces fixtures that have not begun: one here, and none of a team
\* against itself.
AsksOutlook ==
    \E S \in {{}} \cup {{r.id} : r \in {q \in Remaining(season.rows) : q.pair \in Pairs}} :
        \E forced \in [S -> Results] : Simulates(forced) /\ UNCHANGED season

\* The pulse of the season, and whose way to the end is rated (analytics.py).
AsksPulse ==
    LET rows == season.rows IN
    /\ outlook' = [status |-> "pulse",
                   played |-> {r \in rows : Played(r) /\ r.kick # "after"},
                   gaps |-> {r \in rows : ~Played(r) /\ r.kick # "after"},
                   remaining |-> Remaining(rows),
                   rated |-> IF ~ListIsComplete(rows) THEN {}
                             ELSE UNION {{r.pair[1], r.pair[2]} : r \in Remaining(rows)}]
    /\ UNCHANGED season

-------------------------------------------------------------------------------
(* _largest_remainder_percent. *)

Shares(counts, slots) ==
    LET floor == [t \in Teams |-> (counts[t] * Units) \div Runs]
        rest == [t \in Teams |-> (counts[t] * Units) % Runs]
        missing == slots * Units - SumOf(floor, Teams)
    IN  {[t \in Teams |-> floor[t] + IF t \in S THEN 1 ELSE 0] :
            S \in {R \in SUBSET Teams :
                     /\ Cardinality(R) = missing
                     /\ \A t \in R, u \in Teams \ R : rest[t] >= rest[u]}}

\* Each run gives as many places as there are, to different teams.
AsksShares ==
    \E slots \in 1 .. Cardinality(Teams), counts \in [Teams -> 0 .. Runs] :
        /\ SumOf(counts, Teams) = slots * Runs
        /\ outlook' \in {[status |-> "shares", shown |-> s, counts |-> counts,
                          slots |-> slots] : s \in Shares(counts, slots)}
        /\ UNCHANGED season

-------------------------------------------------------------------------------
(* enumerate_four_team_bracket, in eighths. *)

\* Semifinals of 1 and 2, and of 3 and 4.  A played one is a fact, a level one
\* is refused; one that is played after the cutoff counts as open.
Semifinals == {<<1, 2>>, <<3, 4>>}

Resolved(semi) == semi.complete /\ semi.kick # "after"

Fixed(semi, half) ==
    IF ~Resolved(semi) THEN half ELSE IF semi.score[1] > semi.score[2] THEN 2 ELSE 0

\* The two ends of each semifinal: who wins, who loses, with which chance in halves.
Paths(a, c) == {<<1, 2, a>>, <<2, 1, 2 - a>>} \X {<<3, 4, c>>, <<4, 3, 2 - c>>}

\* What a team has of the game between v and w.
Gets(t, v, w, wins) ==
    IF t = v THEN wins[<<v, w>>] ELSE IF t = w THEN 2 - wins[<<v, w>>] ELSE 0

\* On all paths, of the game of the winners (place 1) or of the losers (place 2).
OnPaths(paths, t, place, wins) ==
    SumOf([w \in paths |-> w[1][3] * w[2][3] * Gets(t, w[1][place], w[2][place], wins)], paths)

Bracket(a, c, final, third) ==
    LET reach == <<a, 2 - a, c, 2 - c>>
    IN  [t \in 1 .. 4 |-> [final |-> 4 * reach[t], small |-> 4 * (2 - reach[t]),
                           champion |-> OnPaths(Paths(a, c), t, 1, final),
                           third |-> OnPaths(Paths(a, c), t, 2, third)]]

AsksBracket ==
    \E semis \in [Semifinals -> [complete : BOOLEAN, kick : {"before", "after"},
                                 score : {<<0, 1>>, <<1, 0>>, <<1, 1>>}]],
       half \in [Semifinals -> 0 .. 2], cross \in [{1, 2} \X {3, 4} -> 0 .. 2] :
        LET level == \E s \in Semifinals : Resolved(semis[s]) /\ semis[s].score = <<1, 1>>
            p == [s \in Semifinals |-> Fixed(semis[s], half[s])]
        IN  /\ outlook' =
                   IF level THEN [status |-> "unavailable"]
                   ELSE [status |-> "bracket", semis |-> semis,
                         teams |-> Bracket(p[<<1, 2>>], p[<<3, 4>>], cross, cross)]
            /\ UNCHANGED season

-------------------------------------------------------------------------------
\* The rows of the index: results where there may be some, and a list that may
\* lack a fixture, have one twice, or one of a team against itself.
Listed(scores) ==
    {[id |-> p, pair |-> p, kick |-> Kick[p], score |-> scores[p]] : p \in Pairs}

Mispaired(rows, p, q) == {IF r.id = p THEN [r EXCEPT !.pair = q] ELSE r : r \in rows}

\* One of a set, where there is one.
One(S) == {x \in S : x = CHOOSE y \in S : TRUE}

\* Which fixture may be listed as another one, or as one of a team against itself.
Mistaken ==
    One({p \in Pairs : Kick[p] = "after"})
        \X (One({p \in Pairs : Kick[p] = "at"}) \cup {<<t, t>> : t \in One(Teams)})

Defects(rows) ==
    {{}, rows, rows \ One(rows)} \cup {Mispaired(rows, m[1], m[2]) : m \in Mistaken}

SeasonInit ==
    /\ outlook = NotAsked
    /\ \E rule \in Rules, scores \in [Pairs -> Results \cup {NoScore}] :
          /\ Cardinality({p \in Pairs : Kick[p] = "after" /\ scores[p] # NoScore}) <= 1
          /\ \E rows \in Defects(Listed(scores)) : season = [rule |-> rule, rows |-> rows]

\* Shares and the bracket need no league: they are asked of an empty index.
SeasonNext ==
    /\ outlook = NotAsked
    /\ \/ AsksOutlook \/ AsksPulse
       \/ season = [rule |-> "goals", rows |-> {}] /\ (AsksShares \/ AsksBracket)

SeasonSpec == SeasonInit /\ [][SeasonNext]_seasonVars

-------------------------------------------------------------------------------
(* Properties. *)

\* Two orders that differ by play-offs alone: who changed places was level.
SameButPlayoffs(order, table, rows) ==
    \A i \in DOMAIN order :
        order[i] # table[i] =>
            Row(rows, order[i]).points = Row(rows, table[i]).points

\* A run keeps each fixture of the list and has no other, keeps what was played and
\* what the scenario forces (season_outlook.py: "It never invents missing fixtures
\* or past results").
RunKeepsResults ==
    outlook.status = "available" =>
        /\ {<<r.id, r.pair>> : r \in outlook.final} = {<<r.id, r.pair>> : r \in season.rows}
        /\ \A r \in season.rows : Played(r) => r \in outlook.final
        /\ \A r \in outlook.final : r.id \in DOMAIN outlook.forced =>
               r.score = outlook.forced[r.id]

\* A simulated season is one that could be: it keeps the results, each pair of
\* teams meets once at each one's ground, and the season ends in the order in
\* which the standings engine puts the same results, but for play-offs between
\* teams that are level.
RunsArePossible ==
    /\ RunKeepsResults
    /\ outlook.status = "available" =>
        /\ {r.pair : r \in outlook.final} = Pairs
        /\ Cardinality(outlook.final) = Cardinality(Pairs)
        /\ LET table == Standings(outlook.final, outlook.rule) IN
           IF outlook.rule = "duels_playoffs"
           THEN SameButPlayoffs(outlook.order, table, outlook.final)
           ELSE outlook.order = table

\* No table counts a result that came after the cutoff, also when the outlook is
\* refused because there is one; only a scenario adds to what was played.
TableIsOfTheCutoff ==
    outlook.status \in {"available", "blocked"} =>
        outlook.table =
            Standings({r \in Forced(season.rows, outlook.forced) :
                           Played(r) /\ (r \in season.rows => r.kick # "after")},
                      outlook.rule)

\* The shares on display add up to the places, and none is off by a unit.
SharesAddUp ==
    outlook.status = "shares" =>
        /\ SumOf(outlook.shown, Teams) = outlook.slots * Units
        /\ \A t \in Teams :
               LET exact == outlook.counts[t] * Units
                   shown == outlook.shown[t] * Runs
               IN  exact - Runs < shown /\ shown < exact + Runs

\* A bracket gives each place away once, and not to one who cannot have it.
BracketAddsUp ==
    outlook.status = "bracket" =>
        LET total(f) == SumOf([t \in 1 .. 4 |-> outlook.teams[t][f]], 1 .. 4) IN
        /\ total("champion") = 8 /\ total("third") = 8
        /\ total("final") = 16 /\ total("small") = 16
        /\ \A t \in 1 .. 4 :
               /\ outlook.teams[t].champion <= outlook.teams[t].final
               /\ outlook.teams[t].third <= outlook.teams[t].small
        /\ \A s \in Semifinals : Resolved(outlook.semis[s]) =>
               LET loser == s[IF outlook.semis[s].score[1] > outlook.semis[s].score[2] THEN 2 ELSE 1]
               IN  outlook.teams[loser].champion = 0

\* The views of one season agree: the pulse has each fixture once but for results
\* that came too early, and where a season can be simulated, a result is missing
\* at most at the cutoff itself and every team that still plays is rated.
ViewsAgree ==
    outlook.status = "pulse" =>
        /\ season.rows \ (outlook.played \cup outlook.gaps \cup outlook.remaining)
               = {r \in season.rows : r \notin Visible(season.rows, <<>>) /\ Played(r)}
        /\ Cardinality(outlook.played) + Cardinality(outlook.gaps)
               + Cardinality(outlook.remaining) <= Cardinality(season.rows)
        /\ Reason(season.rows) = "none" =>
               /\ \A r \in outlook.gaps : r.kick = "at"
               /\ outlook.rated = UNION {{r.pair[1], r.pair[2]} :
                      r \in {q \in season.rows : q.kick = "after"}}

OutlookIsPossible ==
    RunsArePossible /\ TableIsOfTheCutoff /\ ViewsAgree /\ SharesAddUp /\ BracketAddsUp
===============================================================================
