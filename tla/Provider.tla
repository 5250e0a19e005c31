------------------------------- MODULE Provider -------------------------------
(***************************************************************************)
(* The optional Sportmonks connector (server/golavo_server/sportmonks.py)  *)
(* and its routes in main.py.                                              *)
(*                                                                         *)
(* A click looks up the outside signals of a match or the transfers of one *)
(* of its teams: the settings and the key are read, the fixture is found   *)
(* in the provider's pages of that day, then one request goes out for each *)
(* feed, or for each page of transfers.  Nothing is kept.  Meanwhile the   *)
(* settings may change and the key may be deleted, each on a thread of its *)
(* own, and both cancel what is under way; and the provider may list more  *)
(* between two pages.                                                      *)
(*                                                                         *)
(* A fixture is compared with the match: the names of both teams, the      *)
(* competition with its season, and the time.  Of the errors it is left    *)
(* out which one is answered.                                              *)
(***************************************************************************)
EXTENDS Naturals, Sequences, FiniteSets, SequencesExt

CONSTANTS
    CapChoices,    \* the selections of capabilities that are tried
    Asked,         \* the matches asked about: records with precision, five
    DayLists,      \* what the provider may list for the day of the match
    TransferLists, \* the transfers it may list for the team, latest first
    NewFixtures,   \* what it may list later
    NewTransfers,
    Predictions,   \* the rows a feed may answer with
    OddsReplies,
    LensReplies,
    Page,          \* rows on a page
    MaxPages,      \* MAX_FIXTURE_PAGES, MAX_TRANSFER_PAGES
    Window,        \* the days of a transfer that are shown
    MaxChanges     \* how often settings, key and lists change

\* What the provider lists: a fixture compared with the match, a transfer of the team.
Listing == [id : Nat, names : BOOLEAN, scope : BOOLEAN, quarters : Nat, day : BOOLEAN]
Transfer == [id : Nat, day : Nat, own : BOOLEAN]
Price == [book : Nat, sel : {"home", "draw", "away"}, live : BOOLEAN, own : BOOLEAN,
          price : BOOLEAN]

\* The lists name a fixture or a transfer once, transfers latest first: the order that
\* is asked for.
ASSUME ProviderAssumption ==
    /\ Page \in Nat \ {0} /\ MaxPages \in Nat \ {0} /\ Window \subseteq Nat
    /\ DayLists \subseteq Seq(Listing) /\ NewFixtures \subseteq Listing
    /\ TransferLists \subseteq Seq(Transfer) /\ NewTransfers \subseteq Transfer
    /\ OddsReplies \subseteq Seq(Price)
    /\ \A list \in DayLists \cup TransferLists : IsInjective(list)
    /\ \A list \in TransferLists : \A i, j \in DOMAIN list : i < j => list[i].day >= list[j].day

VARIABLES
    consent,  \* settings.json
    token,    \* where a token is: environment, keychain
    change,   \* a change of the settings that is under way
    removal,  \* whether a deletion of the key is under way
    catalog,  \* the provider's fixtures of the day and transfers of the team
    lookup,   \* one request for the signals, one for the transfers
    spent     \* how many changes there were

providerVars == <<consent, token, change, removal, catalog, lookup, spent>>

MatchCapabilities == {"external_prediction", "external_odds", "player_lens"}
Lookups == {"signals", "transfers"}

Refused == [at |-> "refused"]
NoChange == [at |-> "none"]
DefaultSettings == [enabled |-> FALSE, caps |-> MatchCapabilities, terms |-> "none"]

\* load_settings: terms accepted in another version count as not accepted.
Loaded ==
    IF consent.terms = "current" THEN consent
    ELSE [consent EXCEPT !.enabled = FALSE, !.terms = "none"]

HasToken == token.environment \/ token.keychain

Spends == spent < MaxChanges /\ spent' = spent + 1

-------------------------------------------------------------------------------
(* Which fixture is the match's. *)

\* _fixture_matches: an exact kickoff within a quarter of an hour, or the date of a
\* match in one of the five leagues; these must be the league's and season's too.
FixtureMatches(f, m) ==
    /\ f.names
    /\ CASE m.precision = "exact" -> (m.five => f.scope) /\ f.quarters <= 1
         [] m.precision = "day" -> m.five /\ f.scope /\ f.day
         [] OTHER -> FALSE

\* What _find_fixture asks of the match before any request.
Findable(m) == m.precision = "exact" \/ (m.precision = "day" /\ m.five)

\* The places of a page, and its rows.
Places(list, page) ==
    (page - 1) * Page + 1 .. (IF Len(list) < page * Page THEN Len(list) ELSE page * Page)
PageOf(list, page) ==
    SubSeq(list, (page - 1) * Page + 1, IF Len(list) < page * Page THEN Len(list) ELSE page * Page)

HasMore(list, page) == Len(list) > page * Page

-------------------------------------------------------------------------------
(* What the feeds say.  A reply that is no good leaves the feed without.    *)

None == {}

\* _prediction: one row of the full-time result, of this fixture, whole.
Predicted(rows) ==
    LET full == {r \in rows : r.full}
    IN  IF (\A r \in full : r.own) /\ Cardinality(full) = 1 THEN {r \in full : r.whole} ELSE None

\* _odds: the bookmakers with one price for each selection in the live rows of
\* the market; two prices for one take the bookmaker out.  (Eight are shown.)
Prices(rows, book) ==
    {i \in DOMAIN rows : rows[i].live /\ rows[i].price /\ rows[i].book = book}
Odds(rows) ==
    IF \E i \in DOMAIN rows : rows[i].live /\ ~rows[i].own THEN None
    ELSE {b \in {rows[i].book : i \in DOMAIN rows} :
             /\ {rows[i].sel : i \in Prices(rows, b)} = {"home", "draw", "away"}
             /\ Cardinality(Prices(rows, b)) = 3}

\* The figures of a player: those of the same fixture, team, player and line-up;
\* a type said twice, one outside the pinned schema or a value out of its unit is
\* an error.
Figures(row) == SelectSeq(row.details, LAMBDA d : d.own)
FiguresRead(row) ==
    /\ \A d \in Range(Figures(row)) : d.pinned
    /\ \A i, j \in DOMAIN row.details :
           i < j /\ row.details[i].own => row.details[j].type # row.details[i].type

\* _lineup_confirmed: what the one statement about the line-up says.
LineupState(reply) ==
    IF Len(reply.confirmed) = 1 THEN reply.confirmed[1] ELSE "unverified"

\* _player_lens: the rows that are safely of this fixture and its teams; a player
\* or a line-up that comes twice is an error.
Lens(reply) ==
    LET safe == SelectSeq(reply.rows, LAMBDA r : r.own)
    IN  IF /\ reply.own
           /\ IsInjective([i \in DOMAIN safe |-> safe[i].player])
           /\ IsInjective([i \in DOMAIN safe |-> safe[i].lineup])
           /\ \A r \in Range(safe) : FiguresRead(r)
        THEN {[player |-> r.player,
               figures |-> {d.type : d \in Range(Figures(r))},
               lineup |-> LineupState(reply)] : r \in Range(safe)}
        ELSE None

-------------------------------------------------------------------------------
(* Settings and key. *)

ProviderInit ==
    /\ consent \in {DefaultSettings} \cup
           [enabled : {TRUE}, caps : CapChoices, terms : {"current", "old"}]
    /\ token \in [environment : BOOLEAN, keychain : BOOLEAN]
    /\ change = NoChange
    /\ removal = FALSE
    /\ catalog \in [day : DayLists, team : TransferLists]
    /\ lookup = [l \in Lookups |-> Refused]
    /\ spent = 0

UnderWay(l) == lookup[l].at \notin {"refused", "answered"}

\* cancel_pending_requests: every request in its scope is told, and its connection
\* shut down.
Cancels == lookup' = [l \in Lookups |->
               IF UnderWay(l) THEN [lookup[l] EXCEPT !.cut = TRUE] ELSE lookup[l]]

\* configure reads what is stored; turning the connector on needs the current terms.
ConfigureReads ==
    /\ Spends
    /\ change = NoChange
    /\ \E enabled \in BOOLEAN, caps \in CapChoices, accept \in BOOLEAN :
          /\ enabled /\ Loaded.terms # "current" => accept
          /\ change' =
                 [at |-> IF ~enabled \/ caps # Loaded.caps THEN "cancels" ELSE "saves",
                  new |-> [enabled |-> enabled, caps |-> caps,
                           terms |-> IF enabled THEN "current" ELSE Loaded.terms]]
    /\ UNCHANGED <<consent, token, removal, catalog, lookup>>

ConfigureCancels ==
    /\ change.at = "cancels"
    /\ Cancels
    /\ change' = [change EXCEPT !.at = "saves"]
    /\ UNCHANGED <<consent, token, removal, catalog, spent>>

\* The file is replaced, or the disk refuses.
ConfigureSaves ==
    /\ change.at = "saves"
    /\ consent' \in {consent, change.new}
    /\ change' = NoChange
    /\ UNCHANGED <<token, removal, catalog, lookup, spent>>

\* A file that cannot be read counts as none.
SettingsAreLost ==
    /\ Spends
    /\ consent' = DefaultSettings
    /\ UNCHANGED <<token, change, removal, catalog, lookup>>

KeyIsSaved ==
    /\ Spends
    /\ ~token.keychain
    /\ token' = [token EXCEPT !.keychain = TRUE]
    /\ UNCHANGED <<consent, change, removal, catalog, lookup>>

\* delete_api_token cancels before it looks whether it may delete.
DeleteCancels ==
    /\ Spends
    /\ ~removal
    /\ Cancels
    /\ removal' = TRUE
    /\ UNCHANGED <<consent, token, change, catalog>>

\* A token of the environment stays, as does one the keychain does not give up.
DeleteEnds ==
    /\ removal
    /\ removal' = FALSE
    /\ \/ UNCHANGED token
       \/ ~token.environment /\ token' = [token EXCEPT !.keychain = FALSE]
    /\ UNCHANGED <<consent, change, catalog, lookup, spent>>

\* The provider lists one more fixture, or one more transfer at its place by date.
ProviderLists ==
    /\ Spends
    /\ \/ \E f \in NewFixtures, i \in 1 .. Len(catalog.day) + 1 :
              /\ f \notin Range(catalog.day)
              /\ catalog' = [catalog EXCEPT !.day = InsertAt(@, i, f)]
       \/ \E r \in NewTransfers, i \in 1 .. Len(catalog.team) + 1 :
              /\ r \notin Range(catalog.team)
              /\ \A j \in DOMAIN catalog.team :
                     IF j < i THEN catalog.team[j].day >= r.day ELSE catalog.team[j].day <= r.day
              /\ catalog' = [catalog EXCEPT !.team = InsertAt(@, i, r)]
    /\ UNCHANGED <<consent, token, change, removal, lookup>>

-------------------------------------------------------------------------------
(* Looking up. *)

Steps(l, r) == lookup' = [lookup EXCEPT ![l] = r]
Still == UNCHANGED <<consent, token, change, removal, catalog, spent>>

\* A click: the request enters its scope.
LookupBegins(l) ==
    /\ lookup[l] = Refused
    /\ \E m \in Asked : Steps(l, [at |-> "settings", match |-> m, cut |-> FALSE])
    /\ Still

\* What the settings let it ask: the enabled feeds, or the transfers.
Wanted(l, m) ==
    IF ~Loaded.enabled THEN {}
    ELSE IF l = "transfers"
         THEN IF m.five THEN Loaded.caps \cap {"transfer_desk"} ELSE {}
         ELSE LET caps == Loaded.caps \cap MatchCapabilities
              IN  IF caps = {"player_lens"} /\ ~m.five THEN {} ELSE caps

LookupReadsSettings(l) ==
    /\ lookup[l].at = "settings"
    /\ LET caps == Wanted(l, lookup[l].match)
       IN  Steps(l, IF caps = {} THEN Refused
                    ELSE [at |-> "token", match |-> lookup[l].match, cut |-> lookup[l].cut,
                          caps |-> caps])
    /\ Still

LookupReadsToken(l) ==
    /\ lookup[l].at = "token"
    /\ Steps(l, IF HasToken /\ Findable(lookup[l].match)
                THEN [at |-> "fixture", match |-> lookup[l].match, cut |-> lookup[l].cut,
                      caps |-> lookup[l].caps, page |-> 1, sent |-> FALSE, found |-> {},
                      first |-> <<>>]
                ELSE Refused)
    /\ Still

Asking(l) == lookup[l].at \in {"fixture", "transfer_desk"} \cup MatchCapabilities

\* A request goes out, unless it was cancelled.  "first" is the list as it was when
\* its first page was asked for.
LookupAsks(l) ==
    /\ Asking(l) /\ ~lookup[l].sent
    /\ Steps(l, IF lookup[l].cut THEN Refused
                ELSE [lookup[l] EXCEPT
                         !.sent = TRUE,
                         !.first = IF lookup[l].page # 1 THEN @
                                   ELSE CASE lookup[l].at = "fixture" -> catalog.day
                                          [] lookup[l].at = "transfer_desk" -> catalog.team
                                          [] OTHER -> @])
    /\ Still

\* The feeds in the order they are asked.
NextFeed(asked, caps) ==
    LET rest == caps \ asked
    IN  IF "external_prediction" \in rest THEN "external_prediction"
        ELSE IF "external_odds" \in rest THEN "external_odds"
        ELSE IF "player_lens" \in rest THEN "player_lens"
        ELSE "answered"

\* The fixture is the one row that fits: the first feed, or the first page of the
\* transfers, is next.  Players are asked for in the five leagues only.
Found(l) ==
    IF l = "transfers"
    THEN [at |-> "transfer_desk", match |-> lookup[l].match, cut |-> lookup[l].cut, page |-> 1,
          sent |-> FALSE, first |-> <<>>, rows |-> <<>>]
    ELSE LET caps == lookup[l].caps
             mute == IF lookup[l].match.five THEN {} ELSE caps \cap {"player_lens"}
         IN  [at |-> NextFeed(mute, caps), match |-> lookup[l].match, cut |-> lookup[l].cut,
              caps |-> caps, page |-> 1, sent |-> FALSE, first |-> lookup[l].first,
              feeds |-> [f \in mute |-> [reply |-> <<>>, shown |-> None]]]

\* The rows of a page that fit, each with its place.
Fitting(list, page, m) ==
    {<<i, list[i]>> : i \in {j \in Places(list, page) : FixtureMatches(list[j], m)}}

\* _find_fixture: one page of the fixtures of the day.
FixturePageArrives(l) ==
    LET m == lookup[l].match
        found == lookup[l].found \cup Fitting(catalog.day, lookup[l].page, m)
        more == HasMore(catalog.day, lookup[l].page)
    IN  /\ lookup[l].at = "fixture"
        /\ Steps(l, IF more /\ lookup[l].page = MaxPages THEN Refused
                    ELSE IF more THEN [lookup[l] EXCEPT !.page = lookup[l].page + 1, !.sent = FALSE,
                                                        !.found = found]
                    ELSE IF Cardinality(found) = 1 THEN Found(l)
                    ELSE Refused)

\* What each feed says of a reply to it.
FeedSays(feed, p, o, r) ==
    CASE feed = "external_prediction" -> [reply |-> p, shown |-> Predicted(p)]
      [] feed = "external_odds" -> [reply |-> o, shown |-> Odds(o)]
      [] feed = "player_lens" -> [reply |-> r,
             shown |-> Lens(r)]

\* What is answered when all feeds were heard.
Answer(l, feeds) ==
    LET without == {f \in lookup[l].caps : feeds[f].shown = None}
    IN  [at |-> "answered", match |-> lookup[l].match, cut |-> lookup[l].cut,
         first |-> lookup[l].first, feeds |-> feeds,
         status |-> CASE without = {} -> "available"
                      [] without = lookup[l].caps -> "unavailable"
                      [] OTHER -> "partial"]

Heard(l, said) ==
    LET feeds == [f \in DOMAIN lookup[l].feeds \cup {lookup[l].at} |->
                     IF f = lookup[l].at THEN said ELSE lookup[l].feeds[f]]
        next == NextFeed(DOMAIN feeds, lookup[l].caps)
    IN  IF next = "answered" THEN Answer(l, feeds)
        ELSE [lookup[l] EXCEPT !.at = next, !.sent = FALSE, !.feeds = feeds]

FeedArrives(l) ==
    /\ lookup[l].at \in MatchCapabilities
    /\ \E p \in Predictions, o \in OddsReplies, r \in LensReplies :
           Steps(l, Heard(l, FeedSays(lookup[l].at, p, o, r)))

\* _parse_transfer_row: every row is of the selected team and says twice the same of
\* the player, the type and both teams.
Parsed(rows) == \A r \in Range(rows) : r.own

\* Latest first, and each once.
InOrder(rows) ==
    \A i, j \in DOMAIN rows : i < j => rows[i].day >= rows[j].day /\ rows[i].id # rows[j].id

\* The rows that are shown, each with its place.
InWindow(rows) == {<<i, rows[i]>> : i \in {j \in DOMAIN rows : rows[j].day \in Window}}
WindowClosed(rows) == \E r \in Range(rows) : \A d \in Window : r.day < d

TransferPageArrives(l) ==
    LET rows == lookup[l].rows \o PageOf(catalog.team, lookup[l].page)
        more == HasMore(catalog.team, lookup[l].page) /\ ~WindowClosed(rows)
    IN  /\ lookup[l].at = "transfer_desk"
        /\ Steps(l, IF ~(Parsed(rows) /\ InOrder(rows)) THEN Refused
                    ELSE IF more /\ lookup[l].page < MaxPages
                    THEN [lookup[l] EXCEPT !.page = lookup[l].page + 1, !.sent = FALSE, !.rows = rows]
                    ELSE [at |-> "answered", match |-> lookup[l].match, cut |-> lookup[l].cut,
                          status |-> IF more THEN "partial" ELSE "available",
                          first |-> lookup[l].first, shown |-> InWindow(rows)])

\* Mutant: a request that was cancelled only leaves its feed without, as a reply
\* that is no good does.
FailureOnlyMutes(l) ==
    Steps(l, IF lookup[l].at \in MatchCapabilities
             THEN Heard(l, [reply |-> <<>>, shown |-> None]) ELSE Refused)

\* A request that fails ends the lookup.
FailureEnds(l) == Steps(l, Refused)

\* An answer arrives; one that arrives after the cancellation is not looked at, and
\* neither is one of a key or plan that is refused, of a limit or of an outage.  Any
\* other failure leaves a feed without.
LookupHears(l) ==
    /\ Asking(l) /\ lookup[l].sent
    /\ \/ FailureEnds(l)
       \/ ~lookup[l].cut /\ FixturePageArrives(l)
       \/ ~lookup[l].cut /\ FeedArrives(l)
       \/ ~lookup[l].cut /\ TransferPageArrives(l)
       \/ /\ ~lookup[l].cut
          /\ lookup[l].at \in MatchCapabilities
          /\ Steps(l, Heard(l, [reply |-> <<>>, shown |-> None]))
    /\ Still

ProviderChanges ==
    \/ ConfigureReads \/ ConfigureCancels \/ ConfigureSaves
    \/ SettingsAreLost \/ KeyIsSaved \/ DeleteCancels \/ DeleteEnds \/ ProviderLists

LookupNext(l) ==
    \/ LookupBegins(l) \/ LookupReadsSettings(l) \/ LookupReadsToken(l)
    \/ LookupAsks(l) \/ LookupHears(l)

ProviderSpec ==
    ProviderInit /\ [][ProviderChanges \/ \E l \in Lookups : LookupNext(l)]_providerVars

-------------------------------------------------------------------------------
(* What an answer promises. *)

Answered(l) == lookup[l].at = "answered"

\* No two fixtures that fit were listed when the search began.
FixtureIsTheOnlyOne(l) ==
    Cardinality({i \in DOMAIN lookup[l].first :
                    FixtureMatches(lookup[l].first[i], lookup[l].match)}) <= 1

\* The live prices of a bookmaker for one outcome.
Quoted(rows, b, s) ==
    {i \in DOMAIN rows : /\ rows[i].book = b /\ rows[i].sel = s
                        /\ rows[i].live /\ rows[i].price}

\* Each bookmaker shown has one live price for each outcome.
OddsAreWhole(l) ==
    "external_odds" \in DOMAIN lookup[l].feeds =>
        LET odds == lookup[l].feeds["external_odds"]
        IN  \A b \in odds.shown, s \in {"home", "draw", "away"} :
                Cardinality(Quoted(odds.reply, b, s)) = 1

\* No transfer is shown twice; all of the window that were there when the reading
\* began are shown, unless the answer says it is partial.
TransfersAreComplete(l) ==
    /\ \A p, q \in lookup[l].shown : p[2].id = q[2].id => p = q
    /\ lookup[l].status = "available" =>
           \A i \in DOMAIN lookup[l].first : lookup[l].first[i].day \in Window =>
               \E p \in lookup[l].shown : p[2] = lookup[l].first[i]

\* A lookup that was cancelled is never answered, whichever request was under way
\* (_request_scope, _cancellable_transport and the errors that a feed passes on,
\* sportmonks.py:141-204, 838-853).
CancelledStaysSilent == \A l \in Lookups : Answered(l) => ~lookup[l].cut

\* A cancelled lookup stays silent, and what is answered is what its comments promise
\* although the lists grow between two pages (_find_fixture, _transfers, _odds).
LookupIsHonest ==
    /\ CancelledStaysSilent
    /\ \A l \in Lookups : Answered(l) =>
        /\ l = "signals" => FixtureIsTheOnlyOne(l) /\ OddsAreWhole(l)
        /\ l = "transfers" => TransfersAreComplete(l)

\* Nothing is answered once the connector is off and the change answered.  The code
\* does not keep this: a lookup that reads the settings after a change cancelled and
\* before it saved goes on (sportmonks.py:320-330).
OffMeansOff ==
    [][\A l \in Lookups : ~Answered(l) /\ lookup'[l].at = "answered" =>
           change # NoChange \/ Loaded.enabled]_providerVars

===============================================================================
