------------------------------ MODULE Backtest ------------------------------
(***************************************************************************)
(* BacktestPipeline.predictions with a model and an extractor of the       *)
(* repository: the walk of module WalkForward, over a season with teams    *)
(* and scores, and what each of its steps does inside the model, what the  *)
(* extractor says of the predicted game and what the model makes of it.    *)
(*                                                                         *)
(* The parts of a fitted model are set one after the other by `fit`; each  *)
(* is the set of games it was last fitted on.  The ratings that EloModel   *)
(* keeps itself are left out: `predict` never reads them.                  *)
(***************************************************************************)
EXTENDS WalkForward, Estimates

CONSTANTS Setups        \* [sport, kind, season]: what the CLI is called with

Sport == {"nfl", "nba", "mlb", "nhl", "soccer"}

\* _build_model_and_extractor refuses the other pairs: Elo needs ratings,
\* Poisson needs strengths.
Compatible(sport, kind) ==
    IF sport = "soccer" THEN kind \notin {"elo", "ensemble"} ELSE kind # "poisson"

\* What a model of the repository predicts after a fit on no game at all, as
\* --min-train 0 allows, is left out here; WalkForward has that walk.
ASSUME SetupConstants ==
    /\ MinTrain > 0
    /\ \A s \in Setups :
        /\ s.sport \in Sport /\ s.kind \in Kind /\ Compatible(s.sport, s.kind)
        /\ DOMAIN s.season = Game
        /\ \A g \in Game : LET r == s.season[g]
              IN  {r.home, r.away} \subseteq Team /\ {r.homeScore, r.awayScore} \subseteq Nat

VARIABLES setup,
          parts,        \* the fitted parts of the model
          yielded       \* the pair predictions() has just yielded

bvars == <<vars, setup, parts, yielded>>

NoYield == [game |-> 0]

\* What `fit` sets, in this order.
Parts(kind) ==
    CASE kind = "elo" -> <<>>
      [] kind = "poisson" -> <<"baselines">>
      [] kind = "gradient_boosting" -> <<"feature_keys", "classifier">>
      [] kind = "quantile" -> <<"feature_keys", "low", "median", "high", "margin_std">>
      [] kind \in {"logistic", "ensemble"} -> <<"feature_keys", "scaler", "classifier">>

BInit ==
    /\ Init
    /\ setup \in Setups
    /\ parts = [i \in DOMAIN Parts(setup.kind) |-> Never]
    /\ yielded = NoYield

\* A game with its date, and the games of S, in order.
Dated(g) ==
    LET r == setup.season[g]
    IN  [home |-> r.home, away |-> r.away, homeScore |-> r.homeScore,
         awayScore |-> r.awayScore, weather |-> r.weather, at |-> date[g]]
GamesOf(S) == Kept([g \in Game |-> Dated(g)], S)
TestGame == Dated(test)

FeaturesOf(games, g) ==
    CASE setup.sport = "nfl" -> NFLFeatures(games, g)
      [] setup.sport = "nba" -> NBAFeatures(games, g)
      [] setup.sport = "mlb" -> MLBFeatures(games, g)
      [] setup.sport = "nhl" -> NHLFeatures(games, g)
      [] setup.sport = "soccer" -> SoccerFeatures(games, g)

Quiet == yielded' = NoYield /\ UNCHANGED <<setup, parts>>

\* Steps that raise in the code's own models, not by a fault.
Raises == faults' = faults + 1

-----------------------------------------------------------------------------
(* fit *)

FitOn(S) ==
    /\ CanFit(setup.kind, GamesOf(S))
    /\ parts' = [i \in DOMAIN parts |-> S]
    /\ yielded' = NoYield
    /\ UNCHANGED setup

FitParts == FitModel /\ FitOn(FitGames)
FitPartsOnSome == FitModelOnSome /\ FitOn(model')

\* The first n parts are new, the others of an earlier fit.
FitSome(n) ==
    /\ parts' = [i \in DOMAIN parts |-> IF i <= n THEN FitGames ELSE parts[i]]
    /\ yielded' = NoYield
    /\ UNCHANGED setup

Fallible == setup.kind \notin {"elo", "poisson"}

\* The model's fit raises half way: predictions() gives the game up, and the
\* model stays as it is.
FitPartsFails ==
    /\ FitFails
    /\ phase = "fitModel" => Fallible
    /\ \E n \in IF phase = "fitModel" THEN 0 .. Len(parts) - 1 ELSE {0} : FitSome(n)

\* A classifier is the last part that is fitted, and refuses a single class.
OneClass ==
    /\ phase = "fitModel" /\ ~CanFit(setup.kind, GamesOf(FitGames))
    /\ Raises
    /\ NextGame
    /\ FitSome(Len(parts) - 1)
    /\ UNCHANGED <<given, extractor, model, fold, calibrator, out>>

-----------------------------------------------------------------------------
(* predict *)

RawEstimates(g) ==
    EstimatesOf(setup.kind, FeaturesOf(GamesOf(extractor'), g), GamesOf(model))

\* predict_raw of a game of the calibration fold.
FoldGamePredicted ==
    /\ FoldGame
    /\ RawEstimates(Dated(calGame)) # {}
    /\ Quiet

FoldGameRaises ==
    /\ FoldAttempt
    /\ extractor' = Earlier(calGame)
    /\ RawEstimates(Dated(calGame)) = {}
    /\ Raises
    /\ UNCHANGED <<given, test, phase, model, probs, calibrator, out>>
    /\ Quiet

Yield ==
    \E raw \in RawEstimates(TestGame), home \in Guess :
        yielded' = [game |-> test, features |-> FeaturesOf(GamesOf(extractor), TestGame),
                    raw |-> raw,
                    estimate |-> IF calibrated THEN Calibrate(raw, home) ELSE raw]

PredictAndYield ==
    /\ Predict
    /\ Predictable
    /\ Yield
    /\ UNCHANGED <<setup, parts>>

NotCalibrated == Predict /\ ~Predictable /\ Quiet

PredictRaises ==
    /\ phase = "predict" /\ Predictable
    /\ UNCHANGED <<given, extractor, model, fold, calibrator, out>>
    /\ RawEstimates(TestGame) = {}
    /\ Raises
    /\ NextGame
    /\ Quiet

BNext ==
    \/ SkipTooFew /\ Quiet
    \/ SelectTraining /\ Quiet
    \/ FitExtractor /\ Quiet
    \/ FitParts \/ FitPartsOnSome \/ FitPartsFails \/ OneClass
    \/ FoldPass /\ Quiet
    \/ FoldGamePredicted \/ FoldGameRaises
    \/ FoldGameFails /\ Quiet
    \/ AllFoldsFailed /\ Quiet
    \/ TooFewProbs /\ Quiet
    \/ FitCalibrator /\ Quiet
    \/ FitCalibratorFails /\ Quiet
    \/ PredictAndYield \/ NotCalibrated \/ PredictRaises
    \/ PredictFails /\ Quiet

BSpec == BInit /\ [][BNext]_bvars

-----------------------------------------------------------------------------
(* Properties *)

\* A model that is asked for a prediction was fitted whole: no part of it is
\* left from the fit of an earlier game, though fits fail half way
\* (pipeline.py:115-124, quantile.py:88-96, ensemble.py:47-48).
FittedTogether ==
    phase \in {"fold", "predict"} => \A i \in DOMAIN parts : parts[i] = model

\* Features come from the window that the model is fitted on: all games before
\* the predicted one, or without the calibration fold if there is one, whatever
\* the fold leaves in the shared extractor (pipeline.py:195-224).
FeaturesOfWindow ==
    \A p \in out :
        LET before == Before(p.game)
        IN  IF calibrated THEN \A g \in p.features : g <= Split(Cardinality(before))
            ELSE p.features = before

KnownGames == Past(GamesOf(extractor), date[test])
Ready == phase = "predict"

\* A game takes from one team what it gives to the other: ratings always sum to
\* those at the start, blowouts and ties included (elo.py:113-118).
RatingsConserved ==
    Ready =>
        LET games == KnownGames
            Total(ratings) == MapThenSumSet(LAMBDA t : ratings[t], Team)
        IN  \A sport \in {NFL, NBA, MLB, NHL} :
                Total(RatingsAfter(sport, games)) = Cardinality(Team) * Initial * Point

\* Rating and form of a team tell one story: who won all its games that are
\* known, at home and away, has the full form and no less than the rating it
\* began with (elo.py:107-118, _base.py:46-73).
RatingFollowsForm ==
    yielded # NoYield /\ setup.sport # "soccer" =>
        LET f == yielded.features
            g == setup.season[yielded.game]
            games == GamesOf(extractor)
            Follows(t, elo, form) ==
                LET known == PastOf(t, games, date[yielded.game])
                IN  known # <<>> /\ (\A i \in DOMAIN known : Won(t, known[i])) =>
                        form[1] = form[2] /\ elo >= Initial * Point
        IN  Follows(g.home, f.homeElo, f.homeForm) /\ Follows(g.away, f.awayElo, f.awayForm)

PoissonYield == yielded # NoYield /\ setup.kind = "poisson"
YieldedRates ==
    <<HomeRate(yielded.features, GamesOf(model)), AwayRate(yielded.features, GamesOf(model))>>

\* The Dixon-Coles correction moves weight between the four low scores and
\* leaves the distribution of each team's goals as it was (poisson.py:122-129),
\* unless the rates are so high that a factor is cut off at zero.
CorrectionKeepsMarginals ==
    PoissonYield =>
        LET h == YieldedRates[1]
            a == YieldedRates[2]
            CutOff == \E i, j \in {0, 1} : Correction(h, a, i, j) < 0
            Corrected(cells) == Scores(h, a, cells)
            Plain(cells) ==
                SumFunction([c \in cells |-> CorrectionUnit * Pure(h, a, c[1], c[2])])
        IN  CutOff \/ \A n \in Goals :
                /\ Corrected({n} \X Goals) = Plain({n} \X Goals)
                /\ Corrected(Goals \X {n}) = Plain(Goals \X {n})

\* Every estimate is a distribution: ProbabilityEstimate never refuses one, so
\* that no game is lost to rounding or calibration (modeling/types.py:89-98).
EstimatesAreDistributions ==
    yielded # NoYield => IsDistribution(yielded.raw) /\ IsDistribution(yielded.estimate)

=============================================================================
