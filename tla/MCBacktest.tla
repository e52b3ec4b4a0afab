----------------------------- MODULE MCBacktest -----------------------------
(* Six games of three teams.  Of the three seasons one has no tie, one has   *)
(* two late ties and one has its tie in the first games a model is fitted    *)
(* on; the logistic curve is a straight line between two plateaus.           *)
EXTENDS Backtest

CONSTANTS t1, t2, t3

Fine == [temperature |-> Absent, wind |-> Absent, precipitation |-> FALSE]
G(home, away, homeScore, awayScore) ==
    [home |-> home, away |-> away, homeScore |-> homeScore, awayScore |-> awayScore,
     weather |-> Fine]

Decided ==
    <<G(t1, t2, 3, 1), G(t3, t1, 0, 1), G(t2, t3, 0, 2),
      G(t1, t3, 1, 0), G(t2, t1, 0, 3), G(t3, t2, 2, 1)>>
Tied ==
    <<G(t1, t2, 1, 0), G(t2, t3, 1, 2), G(t3, t1, 1, 1),
      G(t2, t1, 0, 2), G(t3, t2, 0, 1), G(t1, t3, 2, 2)>>
EarlyTie ==
    <<G(t1, t2, 2, 0), G(t2, t3, 1, 1), G(t3, t1, 0, 2),
      G(t2, t1, 1, 0), G(t3, t2, 3, 1), G(t1, t3, 0, 1)>>

S(sport, kind, season) == [sport |-> sport, kind |-> kind, season |-> season]
MCSetups ==
    {S("nfl", "ensemble", Tied), S("nba", "elo", Decided), S("mlb", "quantile", Decided),
     S("nhl", "logistic", Decided), S("soccer", "gradient_boosting", Tied),
     S("soccer", "poisson", Tied), S("nfl", "ensemble", EarlyTie)}

Clip(n, most) == IF n > most THEN most ELSE n
MCLogistic(d) ==
    IF d >= 0 THEN 20 + Clip(d \div 20, 16) ELSE 20 - Clip((-d) \div 20, 16)
MCLogRatio(margin, reference) ==
    CASE reference = 2 -> <<25, 40, 50>>[Clip(margin, 3)]
      [] reference = 7 -> <<13, 21, 27>>[Clip(margin, 3)]
      [] OTHER -> <<12, 18, 23>>[Clip(margin, 3)]
MCDifferences == -400 .. 400
MCGuess == {0, 10, 20, 40}
=============================================================================
