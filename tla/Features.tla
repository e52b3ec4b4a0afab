------------------------------ MODULE Features ------------------------------
(***************************************************************************)
(* The feature extractors (src/bet/features) and EloModel's ratings, which *)
(* the extractors of the four American sports rebuild at every call.       *)
(*                                                                         *)
(* A game is a record [home, away, homeScore, awayScore, at, weather]; a   *)
(* list of games is a sequence in the order of their dates, as `fit` sorts *)
(* it.  A share (an expected or an actual score, a multiplier) counts in   *)
(* units of 1/One, a rating in units of 1/One^2 points; a quotient is a    *)
(* pair <<numerator, denominator>>.                                        *)
(***************************************************************************)
EXTENDS Integers, Sequences, FiniteSets, SequencesExt, FiniteSetsExt

CONSTANTS Team,
          One,              \* units of a share
          Logistic(_),      \* 1 / (1 + 10^(-d/400)) for a difference of d points
          LogRatio(_, _),   \* log(margin + 1) / log(reference + 1)
          Initial,          \* initial_rating, in points
          KFactor,          \* the CLI's --k-factor, the same for every sport
          UseMov,           \* off with --no-mov
          FormWindow,       \* _FORM_WINDOW
          Differences,      \* bound: differences of ratings, and of scores, that occur
          Absent            \* None

ASSUME FeatureConstants ==
    /\ One \in Nat \ {0} /\ One % 2 = 0
    /\ {Initial, KFactor, FormWindow} \subseteq Nat /\ FormWindow > 0
    /\ UseMov \in BOOLEAN
    /\ Differences \subseteq Int /\ Absent \notin Int /\ IsFiniteSet(Team)
    /\ \A d \in Differences :
          Logistic(d) \in 0 .. One /\ Logistic(d) + Logistic(-d) = One
    /\ \A d \in Differences, r \in {2, 7, 10} : d > 0 => LogRatio(d, r) \in Nat

Point == One * One
Larger(a, b) == IF a >= b THEN a ELSE b

\* What the extractor of a sport is built with: home advantage in points,
\* reference margin, days of rest of a team without games.
NFL == [advantage |-> 65, reference |-> 7, restDays |-> 7]
NBA == [advantage |-> 50, reference |-> 10, restDays |-> 2]
MLB == [advantage |-> 35, reference |-> 2, restDays |-> 1]
NHL == [advantage |-> 55, reference |-> 2, restDays |-> 2]

-----------------------------------------------------------------------------
(* EloModel *)

Expected(a, b) == Logistic((a - b) \div Point)

Actual(g) ==
    IF g.homeScore > g.awayScore THEN One
    ELSE IF g.homeScore = g.awayScore THEN One \div 2 ELSE 0

Margin(g) == Larger(g.homeScore - g.awayScore, g.awayScore - g.homeScore)

MovMultiplier(sport, g) ==
    IF ~UseMov \/ Margin(g) = 0 THEN One ELSE LogRatio(Margin(g), sport.reference)

UpdateTwice(sport, ratings, g) ==
    LET k == KFactor * MovMultiplier(sport, g)
        expected == Expected(ratings[g.home] + sport.advantage * Point, ratings[g.away])
        home == ratings[g.home] + k * (Actual(g) - expected)
        again == Expected(home + sport.advantage * Point, ratings[g.away])
    IN  [ratings EXCEPT ![g.home] = home,
                        ![g.away] = @ + k * ((One - Actual(g)) - (One - again))]

\* One game moves both teams, by the same expectation.
Update(sport, ratings, g) ==
    LET k == KFactor * MovMultiplier(sport, g)
        expected == Expected(ratings[g.home] + sport.advantage * Point, ratings[g.away])
        home == [ratings EXCEPT ![g.home] = @ + k * (Actual(g) - expected)]
    IN  [home EXCEPT ![g.away] = @ + k * ((One - Actual(g)) - (One - expected))]

Unrated == [t \in Team |-> Initial * Point]

RatingsAfter(sport, games) ==
    FoldLeft(LAMBDA ratings, g : Update(sport, ratings, g), Unrated, games)

-----------------------------------------------------------------------------
(* The extractors: what they say of game g, from the games they know *)

\* A list comprehension: the elements at some indices, in their order.
Kept(list, indices) ==
    LET kept[n \in 0 .. Len(list)] ==
            IF n = 0 THEN <<>>
            ELSE IF n \in indices THEN Append(kept[n - 1], list[n]) ELSE kept[n - 1]
    IN  kept[Len(list)]

Past(games, asOf) == Kept(games, {i \in DOMAIN games : games[i].at < asOf})
PastOf(team, games, asOf) ==
    Kept(games, {i \in DOMAIN games :
                    games[i].at < asOf /\ team \in {games[i].home, games[i].away}})

DaysSinceLastGame(sport, team, games, asOf) ==
    LET prior == PastOf(team, games, asOf)
    IN  IF prior = <<>> THEN sport.restDays
        ELSE asOf - Max({prior[i].at : i \in DOMAIN prior})

WonAtHome(team, g) == g.homeScore > g.awayScore
Won(team, g) ==
    \/ g.home = team /\ g.homeScore > g.awayScore
    \/ g.away = team /\ g.awayScore > g.homeScore

\* The share of the last games that the team won, one half without games.
RecentForm(team, games, asOf) ==
    LET prior == PastOf(team, games, asOf)
        recent == SubSeq(prior, Larger(1, Len(prior) - FormWindow + 1), Len(prior))
    IN  IF prior = <<>> THEN <<1, 2>>
        ELSE <<Cardinality({i \in DOMAIN recent : Won(team, recent[i])}), Len(recent)>>

EloFeatures(sport, games, g) ==
    LET ratings == RatingsAfter(sport, Past(games, g.at))
    IN  [homeElo |-> ratings[g.home], awayElo |-> ratings[g.away],
         homeRest |-> DaysSinceLastGame(sport, g.home, games, g.at),
         awayRest |-> DaysSinceLastGame(sport, g.away, games, g.at),
         homeForm |-> RecentForm(g.home, games, g.at),
         awayForm |-> RecentForm(g.away, games, g.at),
         weather |-> Absent]

Or(value, default) == IF value = Absent THEN default ELSE value

NFLFeatures(games, g) ==
    [EloFeatures(NFL, games, g) EXCEPT !.weather =
        [temperature |-> Or(g.weather.temperature, 60), wind |-> Or(g.weather.wind, 0),
         precipitation |-> g.weather.precipitation]]
NBAFeatures(games, g) == EloFeatures(NBA, games, g)
MLBFeatures(games, g) == EloFeatures(MLB, games, g)
NHLFeatures(games, g) == EloFeatures(NHL, games, g)

\* Goals of a team over a list of games, at either end of the field.
Scored(team, games) ==
    SumFunction([i \in DOMAIN games |->
                    (IF team = games[i].home THEN games[i].homeScore ELSE 0)
                  + (IF team = games[i].away THEN games[i].awayScore ELSE 0)])
Conceded(team, games) ==
    SumFunction([i \in DOMAIN games |->
                    (IF team = games[i].home THEN games[i].awayScore ELSE 0)
                  + (IF team = games[i].away THEN games[i].homeScore ELSE 0)])
Played(team, games) ==
    Cardinality({i \in DOMAIN games : team \in {games[i].home, games[i].away}})
AllGoals(games) ==
    SumFunction([i \in DOMAIN games |-> games[i].homeScore + games[i].awayScore])

\* Goals per game of a team over goals per team and game of the league.
Strength(goals, played, games) ==
    IF played = 0 \/ AllGoals(games) = 0 THEN <<1, 1>>
    ELSE <<goals * 2 * Len(games), played * AllGoals(games)>>

\* SoccerLeagueFeatureExtractor; the leagues differ in their slug only.
SoccerFeatures(games, g) ==
    LET past == Past(games, g.at)
        Attack(t) == Strength(Scored(t, past), Played(t, past), past)
        Defense(t) == Strength(Conceded(t, past), Played(t, past), past)
    IN  [homeAttack |-> Attack(g.home), homeDefense |-> Defense(g.home),
         awayAttack |-> Attack(g.away), awayDefense |-> Defense(g.away)]
=============================================================================
