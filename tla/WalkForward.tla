---------------------------- MODULE WalkForward ----------------------------
(***************************************************************************)
(* BacktestPipeline (src/bet/backtesting/pipeline.py) with the             *)
(* CalibratedModel it may drive: what each prediction was learnt from.     *)
(* One model, one extractor and one calibrator are fitted again and again  *)
(* while the walk goes on, so whatever a failed or short fit leaves behind *)
(* is there when a later game is predicted.                                *)
(*                                                                         *)
(* Games are numbered in the order of sorted_games; several may have one   *)
(* date.  A fitted object is the set of games it was fitted on.  Fitting,  *)
(* extracting and predicting are external: each may raise.                 *)
(***************************************************************************)
EXTENDS Integers, FiniteSets

CONSTANTS Games,        \* number of games
          LastDate,     \* bound: dates are 1 .. LastDate
          MinTrain,     \* min_train_games
          CalPct,       \* calibration_fraction, in percent
          MaxFaults     \* bound: exceptions raised

ASSUME WalkConstants ==
    /\ Games \in Nat \ {0} /\ LastDate \in Nat \ {0}
    /\ MinTrain \in Nat /\ CalPct \in 0 .. 100 /\ MaxFaults \in Nat

Game == 1 .. Games
Never == {}             \* a calibrator that was not fitted, an empty fit

VARIABLES date,         \* game -> its date
          calibrated,   \* is the model a CalibratableModel?
          test,         \* the game to be predicted
          phase,        \* where predictions() is in the loop over games
          extractor,    \* games the extractor was fitted on last
          model,        \* games the model was fitted on last
          calGame,      \* the next game of the calibration fold
          attempted,    \* games of the fold that were tried
          probs,        \* games of the fold that gave a probability
          calibrator,   \* [games, model]: its fold, and the model behind it
          out,          \* what was yielded: [game, model, features, calibrator]
          faults

fold == <<calGame, attempted, probs>>
given == <<date, calibrated>>
vars == <<given, test, phase, extractor, model, fold, calibrator, out, faults>>

Uncalibrated == [games |-> Never, model |-> Never]

TypeOK ==
    /\ test \in 1 .. Games + 1
    /\ phase \in {"select", "fitExtractor", "fitModel", "fold", "predict"}
    /\ extractor \subseteq Game /\ model \subseteq Game
    /\ MinTrain > 0 /\ phase \in {"fold", "predict"} => model # Never
    /\ calGame \in 1 .. Games + 1
    /\ probs \subseteq attempted /\ attempted \subseteq Game
    /\ calibrator \in [games : SUBSET Game, model : SUBSET Game]
    /\ out \subseteq [game : Game, model : SUBSET Game, features : SUBSET Game,
                      calibrator : [games : SUBSET Game, model : SUBSET Game]]

Init ==
    /\ date \in {d \in [Game -> 1 .. LastDate] :
                    \A g, h \in Game : g <= h => d[g] <= d[h]}
    /\ calibrated \in BOOLEAN
    /\ test = 1 /\ phase = "select"
    /\ extractor = Never /\ model = Never
    /\ calGame = 1 /\ attempted = {} /\ probs = {}
    /\ calibrator = Uncalibrated
    /\ out = {}
    /\ faults = 0

Fault == faults < MaxFaults /\ faults' = faults + 1

-----------------------------------------------------------------------------
\* The games before g; the guard refuses any other training set.
Before(g) == {h \in Game : date[h] < date[g]}

Bigger(a, b) == IF a > b THEN a ELSE b

\* split = max(1, int(n * (1 - fraction))): the games to fit on, and the fold.
Split(n) == Bigger(1, (n * (100 - CalPct)) \div 100)
FitGamesByIndex ==
    IF calibrated THEN 1 .. Split(test - 1) ELSE 1 .. test - 1
FitGames ==
    IF calibrated THEN {g \in Before(test) : g <= Split(Cardinality(Before(test)))}
    ELSE Before(test)
FoldAndFit == Before(test)
Fold == Before(test) \ FitGames

NextGame == test' = test + 1 /\ phase' = "select"

SkipAlsoMin ==
    /\ phase = "select" /\ test <= Games
    /\ Cardinality(Before(test)) <= MinTrain
    /\ NextGame
    /\ UNCHANGED <<given, extractor, model, fold, calibrator, out, faults>>
SkipTooFew ==
    /\ phase = "select" /\ test <= Games
    /\ Cardinality(Before(test)) < MinTrain
    /\ NextGame
    /\ UNCHANGED <<given, extractor, model, fold, calibrator, out, faults>>

SelectTraining ==
    /\ phase = "select" /\ test <= Games
    /\ Cardinality(Before(test)) >= MinTrain
    /\ phase' = "fitExtractor"
    /\ UNCHANGED <<given, test, extractor, model, fold, calibrator, out, faults>>

FitExtractor ==
    /\ phase = "fitExtractor"
    /\ extractor' = FitGames
    /\ phase' = "fitModel"
    /\ UNCHANGED <<given, test, model, fold, calibrator, out, faults>>

FitFailsGoesOn ==
    /\ Fault
    /\ phase \in {"fitExtractor", "fitModel"}
    /\ phase' = "predict"
    /\ UNCHANGED <<given, test, extractor, model, fold, calibrator, out>>

\* An exception in _fit: the game is given up.
FitFails ==
    /\ Fault
    /\ phase \in {"fitExtractor", "fitModel"}
    /\ NextGame
    /\ UNCHANGED <<given, extractor, model, fold, calibrator, out>>

\* The model is fitted on the examples whose features could be extracted, or
\* on all of them without features when none could.
FitModelOn(S) ==
    /\ phase = "fitModel"
    /\ model' = S
    /\ phase' = IF calibrated THEN "fold" ELSE "predict"
    /\ calGame' = 1 /\ attempted' = {} /\ probs' = {}
    /\ UNCHANGED <<given, test, extractor, calibrator, out>>

FitModel == FitModelOn(FitGames) /\ UNCHANGED faults

FitModelOnSome ==
    /\ Fault
    /\ phase = "fitModel"
    /\ \E S \in (SUBSET FitGames) \ {{}, FitGames} : FitModelOn(S)

-----------------------------------------------------------------------------
(* The calibration fold *)

EarlierOfAll(g) == Before(g)
Earlier(g) == FitGames \intersect Before(g)

\* Games of the fold come in order; the other numbers are passed over, and so
\* are games with nothing to fit the extractor on.
FoldPass ==
    /\ phase = "fold" /\ calGame <= Games
    /\ calGame \notin Fold \/ Earlier(calGame) = {}
    /\ calGame' = calGame + 1
    /\ UNCHANGED <<given, test, phase, extractor, model, attempted, probs,
                   calibrator, out, faults>>

FoldAttempt ==
    /\ phase = "fold" /\ calGame <= Games
    /\ calGame \in Fold /\ Earlier(calGame) # {}
    /\ attempted' = attempted \union {calGame}
    /\ calGame' = calGame + 1

FoldGame ==
    /\ FoldAttempt
    /\ extractor' = Earlier(calGame)
    /\ probs' = probs \union {calGame}
    /\ UNCHANGED <<given, test, phase, model, calibrator, out, faults>>

\* extract or predict_raw raises, or the extractor's fit does.
FoldGameFails ==
    /\ Fault
    /\ FoldAttempt
    /\ extractor' \in {extractor, Earlier(calGame)}
    /\ UNCHANGED <<given, test, phase, model, probs, calibrator, out>>

FoldOver == phase = "fold" /\ calGame > Games

AllFoldsFailed ==
    /\ FoldOver /\ attempted # {} /\ probs = {}
    /\ NextGame
    /\ UNCHANGED <<given, extractor, model, fold, calibrator, out, faults>>

TooFewProbs ==
    /\ FoldOver /\ (attempted = {} \/ Cardinality(probs) = 1)
    /\ phase' = "predict"
    /\ UNCHANGED <<given, test, extractor, model, fold, calibrator, out, faults>>

FitCalibrator ==
    /\ FoldOver /\ Cardinality(probs) >= 2
    /\ calibrator' = [games |-> probs, model |-> model]
    /\ phase' = "predict"
    /\ UNCHANGED <<given, test, extractor, model, fold, out, faults>>

\* The calibrator's fit raises, say because the fold has one outcome only.
FitCalibratorFails ==
    /\ Fault
    /\ FoldOver /\ Cardinality(probs) >= 2
    /\ NextGame
    /\ UNCHANGED <<given, extractor, model, fold, calibrator, out>>

-----------------------------------------------------------------------------
(* The prediction *)

\* Extraction uses the games the extractor knows that end before as_of.
Prediction(g) ==
    [game |-> g, model |-> model, features |-> extractor \intersect Before(g),
     calibrator |-> calibrator]

Predictable == calibrated => calibrator # Uncalibrated

Predict ==
    /\ phase = "predict"
    /\ out' = IF Predictable THEN out \union {Prediction(test)} ELSE out
    /\ NextGame
    /\ UNCHANGED <<given, extractor, model, fold, calibrator, faults>>

PredictFails ==
    /\ Fault
    /\ phase = "predict"
    /\ NextGame
    /\ UNCHANGED <<given, extractor, model, fold, calibrator, out>>

Next ==
    \/ SkipTooFew \/ SelectTraining
    \/ FitExtractor \/ FitModel \/ FitModelOnSome \/ FitFails
    \/ FoldPass \/ FoldGame \/ FoldGameFails
    \/ AllFoldsFailed \/ TooFewProbs \/ FitCalibrator \/ FitCalibratorFails
    \/ Predict \/ PredictFails

Spec == Init /\ [][Next]_vars

-----------------------------------------------------------------------------
(* Properties *)

\* No prediction depends, through the model, the features or a calibrator kept
\* from an earlier game, on a game that is not strictly before the predicted
\* one (guard.py:14-33), games on one date and failed fits included.
NoLookahead ==
    \A p \in out :
        p.model \union p.features \union p.calibrator.games \union p.calibrator.model
            \subseteq Before(p.game)

\* The split of the training games (pipeline.py:203) leaves the model something to
\* be fitted on, unless no game is asked for (cli.py:150-154), and the calibrator is only ever fitted on games that the model
\* behind its probabilities had not seen (calibration/model.py:43-45).
HeldOut ==
    \A p \in out :
        /\ MinTrain > 0 => p.model # Never
        /\ p.calibrator.games \intersect p.calibrator.model = {}

\* When nothing raises, the walk yields every game that has enough games before
\* it: of a calibrated model, every game from the first one on whose fold gives
\* two probabilities, for the calibrator then stays (pipeline.py:93-97, 252-257).
Enough(g) == Cardinality(Before(g)) >= MinTrain
Folded(g) ==
    LET n == Cardinality(Before(g))
        fitted == {h \in Before(g) : h <= Split(n)}
    IN  Cardinality({h \in Before(g) \ fitted : fitted \intersect Before(h) # {}}) >= 2
Complete ==
    test > Games /\ faults = 0 =>
        {p.game : p \in out} =
            {g \in Game : Enough(g) /\
                (calibrated => \E h \in 1 .. g : Enough(h) /\ Folded(h))}
=============================================================================
