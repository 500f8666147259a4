---------------------------- MODULE DraftPreparation ----------------------------
(* From ESPN's data to an initialized session, over four programs and the files *)
(* between them: build_catalog.py normalizes the sources, compile_sheet_release  *)
(* applies the reviewed Sheet, build_draft_init.py joins the result with ESPN's  *)
(* league, and the Worker validates and pins it; ranking.ts then reads the pin.  *)
(* A catalog is a set of records: no later step reads the order of its list.     *)
(* Scores count hundredths of a point, pickNow ten-thousandths.                  *)
EXTENDS CatalogFetch, SequencesExt

CONSTANTS Fixtures,   \* what --fixture-dir may hold, as loaded data
          RoleSheets, \* the Role Overrides tabs a reviewer may leave
          FlagSheets, \* the Tiers & Flags tabs
          Leagues,    \* ESPN's answers to the league read
          Managed,    \* --managed-team-id
          Now,        \* --now of the release
          NoNumber,   \* a field without a number
          MaxCommands \* bound: how many commands are run

(* The numbers of a player that the Worker bounds and no earlier program does.   *)
Facts == {"adp", "projectedPoints", "auctionValue"}

IsRows(rows) ==
  /\ rows \in Seq(ToSet(rows)) /\ Nothing \notin ToSet(rows)
  /\ \A row \in ToSet(rows) :
       /\ row.ranks \in Seq(Int \cup {NoNumber})
       /\ row.name \in {"none", "short", "wide", "long"}
       /\ row.slots \in Nat
       /\ \A fact \in Facts : row.facts[fact] \in Int \cup {NoNumber}

IsChart(chart) ==
  /\ chart \in Seq(ToSet(chart))
  /\ \A group \in ToSet(chart) :
       /\ group.slot \in Nat \cup {NoNumber}
       /\ group.athletes \in Seq(ToSet(group.athletes))
       /\ \A athlete \in ToSet(group.athletes) : athlete.rank \in Int \cup {NoNumber}

(* The players' rows are loaded first and then each team's chart once. Numbers   *)
(* are cut to integers, and a slot's is that of the digits its name ends in.     *)
ASSUME SourceAssumption ==
  /\ NoNumber \notin Int
  /\ Sources # <<>>
  /\ \A m, n \in DOMAIN Sources : Sources[m] = Sources[n] => m = n
  /\ \A n \in DOMAIN Sources : \A content \in Contents[Sources[n]] :
       IF n = 1 THEN IsRows(content) ELSE IsChart(content)
  /\ \A data \in Fixtures :
       /\ data \in Seq(ToSet(data)) /\ Len(data) = Len(Sources)
       /\ IsRows(data[1]) /\ \A n \in 2..Len(data) : IsChart(data[n])

(* A text is there or not. A long one is refused by build_draft_init, a wide one *)
(* only by the Worker: Python counts its code points, JavaScript its UTF-16      *)
(* units. Shares are whole percentages.                                          *)
ASSUME SheetAssumption ==
  \A rows \in RoleSheets \cup FlagSheets :
    /\ rows \in Seq(ToSet(rows))
    /\ \A row \in ToSet(rows) : row.reason \in {"none", "short", "wide", "long"}
    /\ rows \in RoleSheets => \A row \in ToSet(rows) : \A share \in DOMAIN row.shares :
         row.shares[share].mid \in 0..100 \cup {NoNumber}

(* Counts and pick numbers are the naturals that the readers let through.        *)
ASSUME LeagueAssumption ==
  \A answer \in Leagues :
    /\ answer.teams \in Seq(ToSet(answer.teams))
    /\ \A slot \in DOMAIN answer.slotCounts : answer.slotCounts[slot] \in Nat
    /\ answer.picks \in Seq(ToSet(answer.picks))
    /\ \A pick \in ToSet(answer.picks) :
         pick.overall \in Nat /\ pick.round \in Nat /\ pick.roundPick \in Nat

VARIABLES base,    \* the file build_catalog.py wrote: catalog and source hashes
          release, \* the file compile_sheet_release.py wrote
          league,  \* the league answer build_draft_init.py is working on
          init,    \* the file it wrote
          pinned,  \* the catalog the Worker stored
          commands \* how many commands have run

fileVars == <<base, release, league, init, pinned, commands>>
prepVars == <<fetchVars, fileVars>>

Larger(a, b) == IF a >= b THEN a ELSE b
Smaller(a, b) == IF a <= b THEN a ELSE b

Positions == {"QB", "RB", "WR", "TE", "K", "D/ST"}
DepthPositions == Positions \ {"D/ST"}

-------------------------------------------------------------------------------
(* build_catalog.py *)

ExtractRank(row) ==
  LET numbered == {k \in DOMAIN row.ranks : row.ranks[k] # NoNumber}
  IN IF numbered = {} THEN NoNumber ELSE Larger(1, row.ranks[Min(numbered)])

(* A slot of a depth chart may be named with a number (wr2); an athlete without  *)
(* a rank of its own counts from it.                                             *)
Ordinal(group, k) ==
  CASE group.athletes[k].rank # NoNumber -> Larger(1, group.athletes[k].rank)
    [] group.athletes[k].rank = NoNumber /\ group.slot # NoNumber -> group.slot + k - 1
    [] OTHER -> k

Listings(chart) ==
  FlattenSeq([g \in DOMAIN chart |->
    IF chart[g].position \notin DepthPositions THEN <<>>
    ELSE [k \in DOMAIN chart[g].athletes |->
            [player |-> chart[g].athletes[k].player,
             position |-> chart[g].position,
             ordinal |-> Ordinal(chart[g], k)]]])

(* A bug that could be: the last listing of an athlete replaces the earlier ones.*)
BetterLast(entry, depth) == TRUE

Better(entry, depth) ==
  entry.player \notin DOMAIN depth \/ entry.ordinal < depth[entry.player].ordinal

Placed(entry, depth) ==
  [player \in DOMAIN depth \cup {entry.player} |->
     IF player = entry.player THEN entry ELSE depth[player]]

ExtractDepth(chart) ==
  FoldLeft(LAMBDA depth, entry :
             IF Better(entry, depth) THEN Placed(entry, depth) ELSE depth,
           <<>>, Listings(chart))

NoDepth == [ordinal |-> NoNumber]

DepthOf(row, data) ==
  LET chart == {n \in 2..Len(data) : Sources[n] = row.team}
      depth == IF chart = {} THEN <<>> ELSE ExtractDepth(data[CHOOSE n \in chart : TRUE])
  IN IF row.player \in DOMAIN depth THEN depth[row.player] ELSE NoDepth

(* A bug that could be: no headroom, the first rank already scores 100.          *)
NormalizedScoreOfHundred(rank) ==
  IF rank = NoNumber THEN 0 ELSE Larger(0, 10000 - (rank - 1) * 25)

NormalizedScore(rank) ==
  IF rank = NoNumber THEN 0 ELSE Larger(0, 9025 - rank * 25)

(* Rounded to the hundredth; exact up to ordinal 31.                             *)
DepthScore(ordinal) ==
  IF ordinal = NoNumber THEN 0 ELSE (20000 + ordinal) \div (2 * ordinal)

TierNumber(rank) ==
  IF rank = NoNumber THEN 12 ELSE Smaller(12, (rank + 23) \div 24)

(* A draft position or an auction value below zero is left out; a projection is  *)
(* kept as it is, whichever document it is from.                                 *)
Kept(row) ==
  [fact \in Facts |->
     IF fact # "projectedPoints" /\ row.facts[fact] # NoNumber /\ row.facts[fact] < 0
     THEN NoNumber ELSE row.facts[fact]]

(* The explanations of the build are short; name is the length of the name, and  *)
(* slots the number of eligible slots that are slot numbers.                     *)
PlayerRecord(row, data) ==
  LET rank == ExtractRank(row)
      ordinal == DepthOf(row, data).ordinal
      offence == row.position \notin {"K", "D/ST"}
      score == NormalizedScore(rank)
      opportunity == DepthScore(ordinal)
  IN [player |-> row.player, position |-> row.position, tier |-> TierNumber(rank),
      opportunity |-> opportunity, intrinsic |-> score,
      pickNow |-> 78 * score + 12 * opportunity,
      reasons |-> (IF rank # NoNumber THEN <<"short">> ELSE <<>>) \o
                  (IF ordinal # NoNumber THEN <<"short">> ELSE <<>>),
      risks |-> (IF rank = NoNumber THEN <<"short">> ELSE <<>>) \o
                (IF ordinal = NoNumber /\ offence THEN <<"short">> ELSE <<>>),
      name |-> row.name, facts |-> Kept(row), slots |-> row.slots,
      ordinal |-> ordinal, workload |-> Nothing, flag |-> Nothing]

IdsOf(catalog) == {p.player : p \in catalog}

(* A row without a name or a known position does not make its player seen.       *)
Usable(row) == row.name # "none" /\ row.position \in Positions

NormalizePlayers(data) ==
  FoldLeft(LAMBDA catalog, row :
             IF Usable(row) /\ row.player \notin IdsOf(catalog)
             THEN catalog \cup {PlayerRecord(row, data)} ELSE catalog,
           {}, data[1])

(* A depth slot numbered 0 makes depth_score divide by zero, for the rows that   *)
(* reach it: the first usable one of each player.                                *)
Divisible(data) ==
  \A k \in DOMAIN data[1] :
    /\ Usable(data[1][k])
    /\ \A j \in 1..(k - 1) : Usable(data[1][j]) => data[1][j].player # data[1][k].player
    => DepthOf(data[1][k], data).ordinal # 0

-------------------------------------------------------------------------------
(* compile_sheet_release.py *)

(* The weight of each share, in hundredths.                                      *)
Weights ==
  [RB |-> [carry |-> 30, snap |-> 20, route |-> 10, target |-> 10, goal_line |-> 20],
   WR |-> [target |-> 35, route |-> 30, snap |-> 15, goal_line |-> 10],
   TE |-> [target |-> 35, route |-> 30, snap |-> 15, goal_line |-> 10],
   QB |-> [snap |-> 35, carry |-> 15, goal_line |-> 10]]

PositionWeights(position) ==
  IF position \in DOMAIN Weights THEN Weights[position] ELSE <<>>

RowsOf(rows, player) == {row \in ToSet(rows) : row.player = player}

OneRowEach(rows, catalog) ==
  /\ \A j, k \in DOMAIN rows : rows[j].player = rows[k].player => j = k
  /\ \A row \in ToSet(rows) :
       row.player \in IdsOf(catalog) /\ row.reason # "none" /\ row.expires > Now

PositionOf(player, catalog) == (CHOOSE p \in catalog : p.player = player).position

Ordered(low, high) == (low # NoNumber /\ high # NoNumber) => low <= high

RoleRowsPass(rows, catalog) ==
  /\ OneRowEach(rows, catalog)
  /\ \A row \in ToSet(rows) :
       /\ DOMAIN row.shares \subseteq DOMAIN PositionWeights(PositionOf(row.player, catalog))
       /\ \A s \in DOMAIN row.shares :
            /\ row.shares[s].mid # NoNumber
            /\ Ordered(row.shares[s].low, row.shares[s].mid)
            /\ Ordered(row.shares[s].mid, row.shares[s].high)

FlagRowsPass(rows, catalog) ==
  /\ OneRowEach(rows, catalog)
  /\ \A row \in ToSet(rows) :
       /\ row.adjustment \in -6..6
       /\ Ordered(row.before, row.after)

(* Midpoints are percentages, so the weighted sum counts hundredths of a point.  *)
Opportunity(row, position) ==
  LET weights == PositionWeights(position)
  IN MapThenSumSet(LAMBDA s : weights[s] * row.shares[s].mid, DOMAIN row.shares)

PickScore(intrinsic, opportunity, adjustment) ==
  Smaller(1200000, Larger(0, 85 * intrinsic + 15 * opportunity + adjustment * 10000))

WithRole(p, rows) ==
  IF rows = {} THEN p
  ELSE LET row == CHOOSE r \in rows : TRUE
           told == [p EXCEPT
             !.workload = row.shares,
             !.opportunity = IF DOMAIN row.shares = {} THEN @ ELSE Opportunity(row, p.position)]
       IN IF row.role \in {"backup", "unknown"}
          THEN [told EXCEPT !.risks = Append(@, row.reason)]
          ELSE [told EXCEPT !.reasons = Append(@, row.reason)]

WithFlag(p, rows) ==
  IF rows = {} THEN p
  ELSE LET row == CHOOSE r \in rows : TRUE
           told == [p EXCEPT !.tier = IF row.tier = NoNumber THEN @ ELSE row.tier,
                             !.flag = row]
       IN IF row.flag = "avoid" \/ row.adjustment < 0
          THEN [told EXCEPT !.risks = Append(@, row.reason)]
          ELSE [told EXCEPT !.reasons = Append(@, row.reason)]

Compiled(p, roles, flags) ==
  LET role == RowsOf(roles, p.player)
      flag == RowsOf(flags, p.player)
      told == WithFlag(WithRole(p, role), flag)
  IN IF role = {} /\ flag = {} THEN told
     ELSE [told EXCEPT !.pickNow =
             PickScore(told.intrinsic, told.opportunity,
                       IF flag = {} THEN 0 ELSE told.flag.adjustment)]

-------------------------------------------------------------------------------
(* build_draft_init.py *)

FullScore == 10000

CatalogLimit == 5000

TextsOf(p) == {p.name} \cup ToSet(p.reasons) \cup ToSet(p.risks)

InContract(p) ==
  /\ p.opportunity \in 0..FullScore /\ p.intrinsic \in 0..FullScore
  /\ p.pickNow \in 0..(100 * FullScore)
  /\ Len(p.reasons) <= 12 /\ Len(p.risks) <= 12
  /\ "long" \notin TextsOf(p)
  /\ p.slots <= 32

ValidateCatalog(catalog) ==
  /\ Cardinality(catalog) <= CatalogLimit
  /\ Cardinality(IdsOf(catalog)) = Cardinality(catalog)
  /\ \A p \in catalog : InContract(p)

Starters == {"QB", "RB", "WR", "TE", "FLEX"}

RosterSize(answer) ==
  MapThenSumSet(LAMBDA slot : answer.slotCounts[slot], DOMAIN answer.slotCounts \ {"IR"})

RosterTargets(answer) ==
  [s \in Starters |-> IF s \in DOMAIN answer.slotCounts THEN answer.slotCounts[s] ELSE 0]

RoundOf(overall, teams) == (overall + teams - 1) \div teams

RoundPickOf(overall, teams) == ((overall - 1) % teams) + 1

MetadataFits(pick, teams) ==
  /\ pick.round = RoundOf(pick.overall, teams)
  /\ pick.roundPick = RoundPickOf(pick.overall, teams)

(* A bug that could be: only the number of teams a round names is compared.      *)
RoundIsCountedOnly(round, answer) ==
  Cardinality({k \in DOMAIN answer.picks : answer.picks[k].round = round}) = Len(answer.teams)

RoundIsWhole(round, answer) ==
  {pick.team : pick \in {q \in ToSet(answer.picks) : q.round = round}} = ToSet(answer.teams)

SlotsPass(answer) ==
  LET total == Len(answer.teams) * RosterSize(answer)
  IN /\ total <= 1000 /\ Len(answer.picks) = total
     /\ {pick.overall : pick \in ToSet(answer.picks)} = 1..total
     /\ \A pick \in ToSet(answer.picks) :
          pick.team \in ToSet(answer.teams) /\ MetadataFits(pick, Len(answer.teams))
     /\ \A round \in 1..RosterSize(answer) : RoundIsWhole(round, answer)

(* A bug that could be: the managed team is not looked up in the league.         *)
LeaguePassesAnyManager(answer) ==
  /\ Len(answer.teams) \in 2..32
  /\ Cardinality(ToSet(answer.teams)) = Len(answer.teams)
  /\ RosterSize(answer) \in 1..40
  /\ ToSet(answer.pickOrder) = ToSet(answer.teams)
  /\ Len(answer.pickOrder) = Len(answer.teams)
  /\ ~answer.drafted

LeaguePasses(answer) ==
  /\ Len(answer.teams) \in 2..32
  /\ Cardinality(ToSet(answer.teams)) = Len(answer.teams)
  /\ Managed \in ToSet(answer.teams)
  /\ RosterSize(answer) \in 1..40
  /\ ToSet(answer.pickOrder) = ToSet(answer.teams)
  /\ Len(answer.pickOrder) = Len(answer.teams)
  /\ ~answer.drafted

DraftInit(answer, catalog) ==
  [teams |-> Len(answer.teams), rounds |-> RosterSize(answer),
   total |-> Len(answer.picks),
   slots |-> [n \in DOMAIN answer.picks |->
                (CHOOSE pick \in ToSet(answer.picks) : pick.overall = n).team],
   targets |-> RosterTargets(answer), catalog |-> catalog]

-------------------------------------------------------------------------------
(* validation.ts, and what ranking.ts reads of the stored catalog *)

(* The bounds on a fact, and the strings whose length counts UTF-16 units.       *)
FactFits(fact, number) ==
  number # NoNumber => number <= 1000 /\ number >= IF fact = "projectedPoints" THEN -100 ELSE 0

PlayerFits(p) ==
  /\ InContract(p) /\ "wide" \notin TextsOf(p)
  /\ \A fact \in Facts : FactFits(fact, p.facts[fact])
  /\ p.ordinal = NoNumber \/ p.ordinal \in 0..20

WorkerAccepts(sent) ==
  /\ sent.teams \in 2..32 /\ sent.rounds \in 1..40
  /\ sent.total >= 1 /\ sent.total <= 1000 /\ sent.total = sent.teams * sent.rounds
  /\ Len(sent.slots) = sent.total
  /\ Managed \in ToSet(sent.slots)
  /\ \A s \in Starters : sent.targets[s] \in 0..20
  /\ Cardinality(sent.catalog) <= CatalogLimit
  /\ Cardinality(IdsOf(sent.catalog)) = Cardinality(sent.catalog)
  /\ \A p \in sent.catalog : PlayerFits(p)

(* The validator copies the fields it knows; the editorial ones are not among    *)
(* them.                                                                         *)
Stored(p) == [p EXCEPT !.workload = Nothing, !.flag = Nothing]

EditorialAdjustment(p) ==
  CASE p.flag = Nothing -> 0
    [] p.flag # Nothing /\ p.flag.flag = "avoid" -> Smaller(-4, p.flag.adjustment)
    [] p.flag # Nothing /\ p.flag.flag = "target" -> Larger(2, p.flag.adjustment)
    [] OTHER -> p.flag.adjustment

Guardrail(p, pick) ==
  IF p.flag = Nothing THEN 0
  ELSE (IF p.flag.before # NoNumber /\ pick < p.flag.before THEN -6 ELSE 0) +
       (IF p.flag.after # NoNumber /\ pick >= p.flag.after THEN 6 ELSE 0)

-------------------------------------------------------------------------------
(* The commands, each of which writes its file as a whole or not at all. The     *)
(* preparation ends with the first catalog the Worker pins.                      *)

Init ==
  /\ FetchInit
  /\ base = Nothing /\ release = Nothing
  /\ league = Nothing /\ init = Nothing /\ pinned = Nothing
  /\ commands = 0

Preparing == pinned = Nothing

Command ==
  /\ Preparing
  /\ commands < MaxCommands
  /\ commands' = commands + 1

Fetch == Preparing /\ FetchNext /\ UNCHANGED fileVars

WriteBase(data) ==
  /\ Command
  /\ Divisible(data)
  /\ NormalizePlayers(data) # {}
  /\ base' = [catalog |-> NormalizePlayers(data), sources |-> data]
  /\ UNCHANGED <<release, league, init, pinned>>

BuildCatalog ==
  /\ building /\ request = Nothing /\ Len(loaded) = Len(Sources)
  /\ WriteBase(loaded)
  /\ building' = FALSE
  /\ loaded' = <<>>
  /\ UNCHANGED <<espn, cache, request>>

BuildFromFixtures ==
  /\ ~building
  /\ \E data \in Fixtures : WriteBase(data)
  /\ UNCHANGED fetchVars

CompileRelease ==
  /\ Command
  /\ base # Nothing
  /\ \E roles \in RoleSheets, flags \in FlagSheets :
       /\ RoleRowsPass(roles, base.catalog)
       /\ FlagRowsPass(flags, base.catalog)
       /\ release' = {Compiled(p, roles, flags) : p \in base.catalog}
  /\ UNCHANGED <<fetchVars, base, league, init, pinned>>

ReadLeague ==
  /\ Command
  /\ base # Nothing /\ league = Nothing
  /\ league' \in Leagues
  /\ UNCHANGED <<fetchVars, base, release, init, pinned>>

BuiltCatalogs ==
  (IF base = Nothing THEN {} ELSE {base.catalog}) \cup
  (IF release = Nothing THEN {} ELSE {release})

LeagueAccepted(answer) == LeaguePasses(answer) /\ SlotsPass(answer)

BuildDraftInit ==
  /\ Preparing /\ league # Nothing
  /\ LeagueAccepted(league)
  /\ \E catalog \in BuiltCatalogs :
       /\ ValidateCatalog(catalog)
       /\ init' = DraftInit(league, catalog)
  /\ league' = Nothing
  /\ UNCHANGED <<fetchVars, base, release, pinned, commands>>

DraftInitRefused ==
  /\ Preparing /\ league # Nothing
  /\ LeagueAccepted(league) => \E catalog \in BuiltCatalogs : ~ValidateCatalog(catalog)
  /\ league' = Nothing
  /\ UNCHANGED <<fetchVars, base, release, init, pinned, commands>>

Initialize ==
  /\ Command
  /\ init # Nothing
  /\ WorkerAccepts(init)
  /\ pinned' = {Stored(p) : p \in init.catalog}
  /\ UNCHANGED <<fetchVars, base, release, league, init>>

Next ==
  \/ Fetch
  \/ BuildCatalog
  \/ BuildFromFixtures
  \/ CompileRelease
  \/ ReadLeague
  \/ BuildDraftInit
  \/ DraftInitRefused
  \/ Initialize

Spec == Init /\ [][Next]_prepVars

-------------------------------------------------------------------------------
(* Every usable player is in the base catalog once, placed by his first usable   *)
(* row, and his depth is the best of all listings in that row's team's chart, in *)
(* whatever order rows, groups and athletes come (build_catalog.py:252, 354).    *)
FirstRow(player, rows) ==
  LET usable == {k \in DOMAIN rows : rows[k].player = player /\ Usable(rows[k])}
  IN IF usable = {} THEN Nothing ELSE rows[CHOOSE k \in usable : \A j \in usable : k <= j]

BestListing(row, data) ==
  LET listed == {entry.ordinal : entry \in
        {e \in UNION {ToSet(Listings(data[n])) : n \in {m \in 2..Len(data) : Sources[m] = row.team}} :
           e.player = row.player}}
  IN IF listed = {} THEN NoNumber ELSE CHOOSE o \in listed : \A other \in listed : o <= other

DepthIsBest ==
  base # Nothing =>
    \A player \in {row.player : row \in ToSet(base.sources[1])} :
      LET first == FirstRow(player, base.sources[1])
      IN {p.ordinal : p \in {q \in base.catalog : q.player = player}} =
           IF first = Nothing THEN {} ELSE {BestListing(first, base.sources)}

(* A release of a built catalog is refused by build_draft_init only for what it  *)
(* copies from its sources: the length of a name or of a reviewer's text, the    *)
(* number of a player's eligible slots, or of players. Whatever ranks, depth,    *)
(* shares and adjustments meet, no score leaves 0..100 although the compiler     *)
(* clamps at 120, and no list of explanations overflows                          *)
(* (compile_sheet_release.py:337, build_catalog.py:342).                         *)
Oversized(p) == "long" \in TextsOf(p) \/ p.slots > 32

ReleaseIsUsable ==
  release # Nothing =>
    (ValidateCatalog(release) <=>
       /\ Cardinality(release) <= CatalogLimit
       /\ \A p \in release : ~Oversized(p))

(* build_draft_init accepts a league exactly if its pick slots are those of some *)
(* order in which every team picks once a round, and then the initializer lists  *)
(* that order, however ESPN sorts the slots (build_draft_init.py:229).           *)
LegalSlots(answer) ==
  LET size == Len(answer.teams)
      In(round) == {k \in DOMAIN answer.picks : answer.picks[k].round = round}
  IN /\ Len(answer.picks) <= 1000
     /\ \A pick \in ToSet(answer.picks) :
          /\ pick.round \in 1..RosterSize(answer)
          /\ pick.overall = size * (pick.round - 1) + pick.roundPick
     /\ \A round \in 1..RosterSize(answer) :
          /\ \A team \in ToSet(answer.teams) : \E k \in In(round) : answer.picks[k].team = team
          /\ \A n \in 1..size : \E k \in In(round) : answer.picks[k].roundPick = n
          /\ Cardinality(In(round)) = size

SlotOrderIsTrue ==
  (league # Nothing /\ LeaguePasses(league)) =>
    /\ SlotsPass(league) <=> LegalSlots(league)
    /\ SlotsPass(league) => \A pick \in ToSet(league.picks) :
                              DraftInit(league, {}).slots[pick.overall] = pick.team

(* validateInit accepts every initializer that was built, except for what it     *)
(* alone bounds: text in UTF-16 units (validation.ts:12), the draft position,    *)
(* the projection from both sides and the auction value (:118-127), the depth    *)
(* ordinal (:143) and the starters of one kind (:184). Everything else that it   *)
(* asks for, the shape of the draft, the managed team, single players, scores    *)
(* and lists, the three builders have already made sure of.                      *)
BeyondBuilders(p) ==
  \/ "wide" \in TextsOf(p)
  \/ \E fact \in Facts : p.facts[fact] # NoNumber /\ p.facts[fact] > 1000
  \/ p.facts.projectedPoints # NoNumber /\ p.facts.projectedPoints < -100
  \/ p.ordinal # NoNumber /\ p.ordinal > 20

InitIsAccepted ==
  init # Nothing =>
    (WorkerAccepts(init) <=>
       /\ \A p \in init.catalog : ~BeyondBuilders(p)
       /\ \A s \in Starters : init.targets[s] <= 20)

(* What the reviewed Sheet says of a player changes his score on draft night:    *)
(* tests/ranking.test.ts:73, 93 (validation.ts:146, ranking.ts:484).             *)
EditorialReachesAdvice ==
  pinned # Nothing =>
    \A p \in init.catalog : \E q \in pinned :
      /\ q.player = p.player
      /\ EditorialAdjustment(q) = EditorialAdjustment(p)
      /\ \A pick \in 1..init.total : Guardrail(q, pick) = Guardrail(p, pick)
================================================================================
