----------------------------- MODULE Estimates -----------------------------
(***************************************************************************)
(* What the models of src/bet/modeling predict from features, and what     *)
(* CalibratedModel makes of it.  An estimate has a weight for each result, *)
(* and their total; a model that raises has no estimate.  scikit-learn is  *)
(* external: its classifiers may return any distribution over the classes  *)
(* they were fitted on, its regressors any median, a calibrator any        *)
(* probability.  The goal rates of PoissonModel are rounded down to        *)
(* 1/LambdaUnit, its probabilities are exact (the factor e^-rate is common *)
(* to all scores and cancels).                                             *)
(***************************************************************************)
EXTENDS Features

CONSTANTS Guess,        \* probabilities that scikit-learn may return
          LambdaUnit,   \* units of a goal rate
          Rho, RhoUnit, \* PoissonModel's rho is -Rho/RhoUnit
          MaxGoals      \* PoissonModel's max_goals

ASSUME EstimateConstants ==
    /\ {0, One} \subseteq Guess /\ Guess \subseteq 0 .. One
    /\ {LambdaUnit, RhoUnit, MaxGoals} \subseteq Nat \ {0}
    /\ Rho \in 0 .. RhoUnit

Kind == {"elo", "logistic", "gradient_boosting", "quantile", "poisson", "ensemble"}

Estimate(home, away, draw, total) ==
    [home |-> home, away |-> away, draw |-> draw, total |-> total]

\* The CLI builds EloModel with its default advantage, in every sport.
EloEstimate(f) ==
    LET home == Expected(f.homeElo + NFL.advantage * Point, f.awayElo)
    IN  Estimate(home, One - home, Absent, One)

\* _outcome_label
Label(g) ==
    IF g.homeScore > g.awayScore THEN "home_win"
    ELSE IF g.homeScore < g.awayScore THEN "away_win" ELSE "draw"
Labels(games) == {Label(games[i]) : i \in DOMAIN games}

\* predict of LogisticRegressionModel and of GradientBoostingModel.
ClassifierEstimates(classes) ==
    {Estimate(p[1], p[2], IF "draw" \in classes THEN p[3] ELSE Absent, One) :
        p \in {p \in Guess \X Guess \X Guess :
            /\ p[1] + p[2] + p[3] = One
            /\ (p[1] > 0 <=> "home_win" \in classes)
            /\ (p[2] > 0 <=> "away_win" \in classes)
            /\ (p[3] > 0 <=> "draw" \in classes)}}

\* The normal approximation is clipped away from zero and one.
QuantileEstimates == {Estimate(h, One - h, Absent, One) : h \in Guess \ {0, One}}

\* Members of which some know draws and some do not cannot be averaged: after
\* the first tie among its training games, an ensemble of Elo refuses every game.
EnsembleRefuses(members) ==
    \E e, f \in members : e.draw = Absent /\ f.draw # Absent
EnsembleEstimates(elo, classifiers) ==
    {Estimate((elo.home + c.home) \div 2, One - (elo.home + c.home) \div 2, Absent, One) :
        c \in {d \in classifiers : ~EnsembleRefuses({elo, d})}}

-----------------------------------------------------------------------------
(* PoissonModel *)

Powers(base) ==
    LET power[n \in 0 .. 2 * MaxGoals] == IF n = 0 THEN 1 ELSE base * power[n - 1]
    IN  power
Power(base, n) == Powers(base)[n]

\* MaxGoals! / i!
Falling[i \in 0 .. MaxGoals] ==
    IF i = MaxGoals THEN 1 ELSE (i + 1) * Falling[i + 1]

\* Weight of the score i to j, in units common to all scores.
Pure(home, away, i, j) ==
    Power(home, i) * Power(away, j) * Power(LambdaUnit, 2 * MaxGoals - i - j)
        * Falling[i] * Falling[j]

\* The factor of the Dixon-Coles correction, in units of 1/CorrectionUnit.
CorrectionUnit == LambdaUnit * LambdaUnit * RhoUnit
CorrectionSwapped(home, away, i, j) ==
    CorrectionUnit + (CASE i = 0 /\ j = 0 -> home * away * Rho
                        [] i = 1 /\ j = 0 -> -LambdaUnit * home * Rho
                        [] i = 0 /\ j = 1 -> -LambdaUnit * away * Rho
                        [] i = 1 /\ j = 1 -> LambdaUnit * LambdaUnit * Rho
                        [] OTHER -> 0)
Correction(home, away, i, j) ==
    CorrectionUnit + (CASE i = 0 /\ j = 0 -> home * away * Rho
                        [] i = 1 /\ j = 0 -> -LambdaUnit * away * Rho
                        [] i = 0 /\ j = 1 -> -LambdaUnit * home * Rho
                        [] i = 1 /\ j = 1 -> LambdaUnit * LambdaUnit * Rho
                        [] OTHER -> 0)

\* _score_matrix
Score(home, away, i, j) == Pure(home, away, i, j) * Larger(0, Correction(home, away, i, j))

Goals == 0 .. MaxGoals
Scores(home, away, cells) == SumFunction([c \in cells |-> Score(home, away, c[1], c[2])])

PoissonEstimate(home, away) ==
    LET Of(cells) == Scores(home, away, cells)
    IN  Estimate(Of({c \in Goals \X Goals : c[1] > c[2]}),
                 Of({c \in Goals \X Goals : c[1] < c[2]}),
                 Of({c \in Goals \X Goals : c[1] = c[2]}), Of(Goals \X Goals))

\* Goals per game at home and away over the games of the fit, times strengths.
HomeRate(f, fitted) ==
    (LambdaUnit * SumFunction([i \in DOMAIN fitted |-> fitted[i].homeScore])
        * f.homeAttack[1] * f.awayDefense[1])
    \div (Len(fitted) * f.homeAttack[2] * f.awayDefense[2])
AwayRate(f, fitted) ==
    (LambdaUnit * SumFunction([i \in DOMAIN fitted |-> fitted[i].awayScore])
        * f.awayAttack[1] * f.homeDefense[1])
    \div (Len(fitted) * f.awayAttack[2] * f.homeDefense[2])

-----------------------------------------------------------------------------

\* predict of a model of this kind that was fitted on these games.
EstimatesOf(kind, f, fitted) ==
    CASE kind = "elo" -> {EloEstimate(f)}
      [] kind \in {"logistic", "gradient_boosting"} -> ClassifierEstimates(Labels(fitted))
      [] kind = "quantile" -> QuantileEstimates
      [] kind = "poisson" -> {PoissonEstimate(HomeRate(f, fitted), AwayRate(f, fitted))}
      [] kind = "ensemble" ->
            EnsembleEstimates(EloEstimate(f), ClassifierEstimates(Labels(fitted)))

\* A classifier needs two classes, or its fit raises.
CanFit(kind, fitted) ==
    kind \in {"logistic", "gradient_boosting", "ensemble"} => Cardinality(Labels(fitted)) >= 2

\* CalibratedModel.predict, with what the calibrator makes of raw.home: the
\* rest is shared as the raw estimate shares it.
CalibrateKeeps(raw, home) ==
    [raw EXCEPT !.home = home * (raw.total - raw.home), !.total = One * (raw.total - raw.home)]
Calibrate(raw, home) ==
    LET rest == raw.away + raw.draw
    IN  IF raw.draw = Absent THEN Estimate(home, One - home, Absent, One)
        ELSE IF rest = 0 THEN Estimate(2 * home, One - home, One - home, 2 * One)
        ELSE Estimate(home * rest, (One - home) * raw.away, (One - home) * raw.draw,
                      One * rest)

\* ProbabilityEstimate refuses any other weights.
IsDistribution(e) == e.home + e.away + Or(e.draw, 0) = e.total /\ e.total > 0
=============================================================================
