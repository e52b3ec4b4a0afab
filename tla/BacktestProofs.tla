-------------------------- MODULE BacktestProofs --------------------------
(***************************************************************************)
(* Theorems about WalkForward, and about Backtest, which takes its steps   *)
(* with the models and extractors inside, for any number of games, any     *)
(* dates, any model and any exceptions.                                    *)
(***************************************************************************)
EXTENDS Backtest, FoldTheorems, TLAPS
-----------------------------------------------------------------------------
(* The inductive invariant *)

\* sorted_games is sorted.
DatesSorted ==
    /\ date \in [Game -> 1 .. LastDate]
    /\ \A g, h \in Game : g <= h => date[g] <= date[h]

\* A game is fitted for only when it has games before it, if any are asked for.
UnderWay ==
    phase # "select" => test \in Game /\ (MinTrain > 0 => Before(test) # {})

\* The model under test has seen the fitting games only, the fold has not.
ModelFits ==
    phase \in {"fold", "predict"} => model \subseteq FitGames /\ probs \subseteq Fold

\* Whichever game the calibrator was fitted for, all it was learnt from is
\* before the present one.
CalibratorOld ==
    test \in Game =>
        calibrator.games \subseteq Before(test) /\ calibrator.model \subseteq Before(test)
CalibratorHeldOut == calibrator.games \intersect calibrator.model = {}

IInv ==
    /\ TypeOK
    /\ DatesSorted
    /\ UnderWay
    /\ ModelFits
    /\ CalibratorOld
    /\ CalibratorHeldOut
    /\ NoLookahead
    /\ HeldOut

\* The extractor knows the games that the model is fitted on, or fewer after the
\* fold of a calibrated one.
ExtractorFits ==
    /\ phase = "fold" => calibrated
    /\ phase \in {"fitModel", "fold", "predict"} =>
          IF calibrated THEN extractor \subseteq FitGames ELSE extractor = FitGames

\* As long as nothing has raised, no game that could be predicted was passed over:
\* the fold has given a probability for every game that could be tried, and there
\* is a calibrator from the first fold that gave two.
Learnable(g) == \E h \in 1 .. g : Enough(h) /\ Folded(h)
Predicted == {p.game : p \in out}
Promised(g) == Enough(g) /\ (calibrated => Learnable(g))
FoldSoFar == {h \in Fold : h < calGame /\ Earlier(h) # {}}
Folds == IF phase = "predict" THEN test ELSE test - 1
NothingRaised ==
    faults = 0 =>
        /\ phase # "select" => Enough(test)
        /\ phase = "fold" => probs = FoldSoFar /\ attempted = FoldSoFar
        /\ calibrated => (calibrator # Uncalibrated <=> Learnable(Folds))
        /\ Predicted = {g \in Game : g < test /\ Promised(g)}

YieldInv ==
    /\ ExtractorFits
    /\ FeaturesOfWindow
    /\ faults \in Nat
    /\ NothingRaised

-----------------------------------------------------------------------------
(* Facts about the games *)

\* What was strictly before a game is strictly before the next one.
LEMMA BeforeGrows ==
    ASSUME DatesSorted, NEW g \in Game, g + 1 \in Game
    PROVE  Before(g) \subseteq Before(g + 1)
  BY WalkConstants DEF DatesSorted, Before, Game

\* The fitting games and the fold are apart, and both before the test game.
LEMMA FoldApart ==
    /\ FitGames \subseteq Before(test)
    /\ Fold \subseteq Before(test)
    /\ FitGames \intersect Fold = {}
  BY DEF FitGames, Fold

LEMMA BeforeFinite ==
    ASSUME NEW g PROVE IsFiniteSet(Before(g)) /\ Before(g) \subseteq Game
<1>1. IsFiniteSet(Game)
  BY WalkConstants, FS_Interval DEF Game
<1> QED BY <1>1, FS_Subset DEF Before

\* max(1, ...) leaves at least the first game to fit on (pipeline.py:203).
LEMMA FitGamesExist ==
    ASSUME DatesSorted, test \in Game, Before(test) # {} PROVE FitGames # {}
<1> PICK h \in Before(test) : TRUE
  OBVIOUS
<1>1. 1 \in Before(test)
  <2>1. 1 \in Game /\ h \in Game /\ 1 <= h /\ date[h] < date[test]
    BY WalkConstants DEF Before, Game
  <2>2. date[1] <= date[h]
    BY <2>1 DEF DatesSorted
  <2> QED BY <2>1, <2>2, WalkConstants DEF Before, DatesSorted
<1>2. Cardinality(Before(test)) \in Nat
  BY BeforeFinite, FS_CardinalityType
<1> DEFINE n == Cardinality(Before(test))
           kept == (n * (100 - CalPct)) \div 100
<1>3. kept \in Int
  <2>1. n * (100 - CalPct) \in Int
    BY <1>2, WalkConstants
  <2> HIDE DEF n
  <2> QED BY <2>1
<1>4. 1 <= Split(n)
  <2> HIDE DEF kept
  <2>1. 1 <= Bigger(1, kept)
    BY <1>3 DEF Bigger
  <2> QED BY <2>1 DEF kept, Split
<1> QED BY <1>1, <1>4 DEF FitGames

-----------------------------------------------------------------------------
(* The steps *)

LEMMA WalkInit == Init => IInv
<1> SUFFICES ASSUME Init PROVE IInv
  OBVIOUS
<1>1. TypeOK
  BY WalkConstants DEF Init, TypeOK, Uncalibrated, Never
<1>2. DatesSorted /\ UnderWay /\ ModelFits
  BY DEF Init, DatesSorted, UnderWay, ModelFits
<1>3. CalibratorOld /\ CalibratorHeldOut
  BY DEF Init, CalibratorOld, CalibratorHeldOut, Uncalibrated, Never
<1>4. NoLookahead /\ HeldOut
  BY DEF Init, NoLookahead, HeldOut
<1> QED BY <1>1, <1>2, <1>3, <1>4 DEF IInv

\* Going on to the next game, whether this one was predicted or given up,
\* keeps what was learnt and yielded: it is before the next game too.
LEMMA NextGameStep ==
    ASSUME IInv, test \in Game, NextGame,
           UNCHANGED <<given, extractor, model, fold, calibrator>>,
           out' \subseteq out \union {Prediction(test)},
           out' # out => phase = "predict"
    PROVE  IInv'
<1> USE WalkConstants DEF IInv, NextGame, given, fold
<1> DEFINE new == Prediction(test)
<1>1. ASSUME phase = "predict"
      PROVE /\ new.game = test /\ new.model = model
            /\ new.features = extractor \intersect Before(test)
            /\ new.calibrator = calibrator
            /\ MinTrain > 0 => model # Never
            /\ model \subseteq Before(test)
            /\ new \in [game : Game, model : SUBSET Game, features : SUBSET Game,
                        calibrator : [games : SUBSET Game, model : SUBSET Game]]
  BY <1>1, FoldApart DEF Prediction, ModelFits, TypeOK
<1>2. \A g : Before(g)' = Before(g)
  BY DEF Before
<1> HIDE DEF new
<1>3. TypeOK'
  <2>1. test' \in 1 .. Games + 1 /\ phase' = "select"
    BY DEF Game
  <2> QED BY <1>1, <2>1 DEF TypeOK, new
<1>4. DatesSorted' /\ UnderWay' /\ ModelFits'
  BY DEF DatesSorted, UnderWay, ModelFits
<1>5. CalibratorOld' /\ CalibratorHeldOut'
  <2>1. test' \in Game => Before(test) \subseteq Before(test')
    BY BeforeGrows
  <2> QED BY <2>1, <1>2 DEF CalibratorOld, CalibratorHeldOut
<1>6. NoLookahead'
  <2> SUFFICES ASSUME NEW p \in out'
               PROVE p.model \union p.features \union p.calibrator.games
                       \union p.calibrator.model \subseteq Before(p.game)
    BY <1>2 DEF NoLookahead
  <2>1. CASE p \in out
    BY <2>1 DEF NoLookahead
  <2>2. CASE p \notin out
    BY <2>2, <1>1 DEF CalibratorOld, new
  <2> QED BY <2>1, <2>2
<1>7. HeldOut'
  BY <1>1 DEF HeldOut, CalibratorHeldOut, new
<1> QED BY <1>3, <1>4, <1>5, <1>6, <1>7

\* A step that stays on its game and yields nothing keeps the invariant if
\* it leaves the calibrator alone and keeps the fold away from the model.
LEMMA SameGameStep ==
    ASSUME IInv, TypeOK', UNCHANGED <<given, test, calibrator, out>>,
           UnderWay', ModelFits'
    PROVE  IInv'
<1> USE DEF IInv, given
<1>1. \A g : Before(g)' = Before(g)
  BY DEF Before
<1> QED
  BY <1>1 DEF DatesSorted, CalibratorOld, CalibratorHeldOut, NoLookahead, HeldOut

\* The sets a fit works on depend on the games and the test game only.
LEMMA SameSets ==
    ASSUME UNCHANGED <<given, test>>
    PROVE  FitGames' = FitGames /\ Fold' = Fold /\ Before(test)' = Before(test)
  BY DEF FitGames, Fold, Before, Split, Bigger, given

LEMMA FitStep ==
    ASSUME IInv, SelectTraining \/ FitExtractor \/ FitModel \/ FitModelOnSome
    PROVE  IInv'
<1> USE WalkConstants DEF IInv, given, fold
<1>1. UNCHANGED <<given, test, calibrator, out>>
  BY DEF SelectTraining, FitExtractor, FitModel, FitModelOnSome, FitModelOn
<1>2. FitGames' = FitGames /\ Fold' = Fold /\ Before(test)' = Before(test)
  BY <1>1, SameSets
<1>3. FitGames \subseteq Game
  BY FoldApart, BeforeFinite
<1>4. CASE SelectTraining
  <2>1. test \in Game
    BY <1>4 DEF SelectTraining, TypeOK, Game
  <2>2. MinTrain > 0 => Before(test) # {}
    BY <1>4, FS_EmptySet, WalkConstants DEF SelectTraining
  <2> QED
    BY <1>1, <1>2, <1>4, <2>1, <2>2, SameGameStep
    DEF SelectTraining, TypeOK, UnderWay, ModelFits
<1>5. CASE FitExtractor
  BY <1>1, <1>2, <1>3, <1>5, SameGameStep DEF FitExtractor, TypeOK, UnderWay, ModelFits
<1>6. ASSUME NEW S \in SUBSET FitGames, MinTrain > 0 => S # {}, FitModelOn(S)
      PROVE  IInv'
  <2>1. TypeOK'
    BY <1>3, <1>6 DEF FitModelOn, TypeOK, Never
  <2> QED
    BY <1>1, <1>2, <1>6, <2>1, SameGameStep DEF FitModelOn, UnderWay, ModelFits
<1>7. CASE FitModel
  <2>1. MinTrain > 0 => FitGames # {}
    BY <1>7, FitGamesExist DEF FitModel, FitModelOn, UnderWay
  <2> QED BY <1>6, <1>7, <2>1 DEF FitModel
<1>8. CASE FitModelOnSome
  BY <1>6, <1>8 DEF FitModelOnSome
<1> QED BY <1>4, <1>5, <1>7, <1>8

\* The calibration fold tries games of the fold only.
LEMMA FoldStep ==
    ASSUME IInv, FoldPass \/ FoldGame \/ FoldGameFails \/ TooFewProbs PROVE IInv'
<1> USE WalkConstants DEF IInv, given, fold, FoldAttempt, Earlier
<1>1. UNCHANGED <<given, test, calibrator, out>>
  BY DEF FoldPass, FoldGame, FoldGameFails, TooFewProbs
<1>2. FitGames' = FitGames /\ Fold' = Fold /\ Before(test)' = Before(test)
  BY <1>1, SameSets
<1>3. FitGames \subseteq Game
  BY FoldApart, BeforeFinite
<1>4. Fold \subseteq Game
  BY FoldApart, BeforeFinite
<1>5. CASE FoldPass
  BY <1>1, <1>2, <1>5, SameGameStep DEF FoldPass, TypeOK, UnderWay, ModelFits
<1>6. CASE FoldGame
  <2>1. Earlier(calGame) \subseteq Game /\ calGame \in Fold /\ calGame \in Game
    BY <1>3, <1>4, <1>6 DEF FoldGame
  <2>2. TypeOK'
    BY <1>6, <2>1 DEF FoldGame, TypeOK, Game
  <2>3. UnderWay' /\ ModelFits'
    BY <1>1, <1>2, <1>6, <2>1 DEF FoldGame, UnderWay, ModelFits
  <2> QED BY <1>1, <2>2, <2>3, SameGameStep
<1>7. CASE FoldGameFails
  BY <1>1, <1>2, <1>3, <1>4, <1>7, SameGameStep
  DEF FoldGameFails, TypeOK, UnderWay, ModelFits
<1>8. CASE TooFewProbs
  BY <1>1, <1>2, <1>8, SameGameStep
  DEF TooFewProbs, FoldOver, TypeOK, UnderWay, ModelFits
<1> QED BY <1>5, <1>6, <1>7, <1>8

\* The calibrator is fitted on the fold, and on what the model gave for it.
LEMMA CalibratorStep == ASSUME IInv, FitCalibrator PROVE IInv'
<1> USE DEF IInv, given, fold, FitCalibrator, FoldOver
<1>1. FitGames' = FitGames /\ Fold' = Fold
  BY SameSets
<1>2. \A g : Before(g)' = Before(g)
  BY DEF Before
<1>3. model \subseteq FitGames /\ probs \subseteq Fold /\ model \subseteq Game /\ probs \subseteq Game
  BY DEF ModelFits, TypeOK
<1>4. TypeOK'
  BY <1>3 DEF TypeOK
<1>5. DatesSorted' /\ UnderWay' /\ ModelFits'
  BY <1>1, <1>2 DEF DatesSorted, UnderWay, ModelFits
<1>6. CalibratorOld' /\ CalibratorHeldOut'
  BY <1>2, <1>3, FoldApart DEF CalibratorOld, CalibratorHeldOut
<1>7. NoLookahead' /\ HeldOut'
  BY <1>2 DEF NoLookahead, HeldOut
<1> QED BY <1>4, <1>5, <1>6, <1>7

LEMMA WalkStep == ASSUME IInv, [Next]_vars PROVE IInv'
<1>1. CASE UNCHANGED vars
  BY <1>1, SameSets, SameGameStep
  DEF vars, given, fold, IInv, TypeOK, UnderWay, ModelFits
<1>2. CASE SkipTooFew
  <2>1. test \in Game
    BY <1>2 DEF SkipTooFew, IInv, TypeOK, Game
  <2> QED BY <1>2, <2>1, NextGameStep DEF SkipTooFew
<1>3. CASE FitFails
  BY <1>3, NextGameStep DEF FitFails, IInv, UnderWay
<1>4. CASE AllFoldsFailed
  BY <1>4, NextGameStep DEF AllFoldsFailed, FoldOver, IInv, UnderWay
<1>5. CASE FitCalibratorFails
  BY <1>5, NextGameStep DEF FitCalibratorFails, FoldOver, IInv, UnderWay
<1>6. CASE Predict
  BY <1>6, NextGameStep DEF Predict, IInv, UnderWay
<1>7. CASE PredictFails
  BY <1>7, NextGameStep DEF PredictFails, IInv, UnderWay
<1> QED
  BY <1>1, <1>2, <1>3, <1>4, <1>5, <1>6, <1>7, FitStep, FoldStep, CalibratorStep
  DEF Next

-----------------------------------------------------------------------------
(* What is yielded *)

\* The games, and what they promise, stay as they are.
LEMMA SameGames ==
    ASSUME UNCHANGED given
    PROVE  \A g : /\ Before(g)' = Before(g)
                  /\ Enough(g)' <=> Enough(g)
                  /\ Learnable(g)' <=> Learnable(g)
                  /\ Promised(g)' <=> Promised(g)
<1>1. \A g : Before(g)' = Before(g)
  BY DEF Before, given
<1>2. \A g : Enough(g)' <=> Enough(g)
  BY <1>1 DEF Enough
<1>3. ASSUME NEW g PROVE Folded(g)' <=> Folded(g)
  <2> DEFINE fitted == {h \in Before(g) : h <= Split(Cardinality(Before(g)))}
             tried == {h \in Before(g) \ fitted : fitted \intersect Before(h) # {}}
  <2>1. Before(g)' = Before(g) /\ \A n : Split(n)' = Split(n)
    BY <1>1 DEF Split, Bigger
  <2>2. fitted' = fitted
    BY <2>1
  <2>3. tried' = tried
    BY <1>1, <2>1, <2>2
  <2>4. Folded(g) <=> Cardinality(tried) >= 2
    BY DEF Folded
  <2>5. Folded(g)' <=> Cardinality(tried') >= 2
    BY DEF Folded
  <2> HIDE DEF tried
  <2> QED BY <2>3, <2>4, <2>5
<1>4. \A g : Learnable(g)' <=> Learnable(g)
  BY <1>2, <1>3 DEF Learnable
<1>5. \A g : Promised(g)' <=> Promised(g)
  BY <1>2, <1>4 DEF Promised, given
<1> QED BY <1>1, <1>2, <1>4, <1>5

\* A game adds its own fold to those that a calibrator may come from.
LEMMA LearnableGrows ==
    ASSUME NEW g \in Game
    PROVE  Learnable(g) <=> Learnable(g - 1) \/ (Enough(g) /\ Folded(g))
<1>1. g \in 1 .. g /\ g \in Nat
  BY WalkConstants DEF Game
<1>2. \A h : h \in 1 .. g <=> h \in 1 .. g - 1 \/ h = g
  BY <1>1
<1> QED BY <1>2 DEF Learnable

\* The fold of a calibrated model can calibrate when two of its games can be tried.
LEMMA FoldedIsFold ==
    ASSUME calibrated
    PROVE  Folded(test) <=> Cardinality({h \in Fold : Earlier(h) # {}}) >= 2
<1>1. FitGames = {g \in Before(test) : g <= Split(Cardinality(Before(test)))}
  BY DEF FitGames
<1> QED BY <1>1 DEF Folded, Fold, Earlier

\* When the fold is over every game of it that could be tried has been.
LEMMA FoldEnds ==
    ASSUME IInv, YieldInv, FoldOver, faults = 0
    PROVE  /\ attempted = probs
           /\ Cardinality(probs) \in Nat
           /\ Cardinality(probs) = 0 <=> probs = {}
           /\ Folded(test) <=> Cardinality(probs) >= 2
<1>1. probs = FoldSoFar /\ attempted = FoldSoFar /\ calibrated
  BY DEF YieldInv, NothingRaised, ExtractorFits, FoldOver
<1>2. FoldSoFar = {h \in Fold : Earlier(h) # {}}
  BY FoldApart, BeforeFinite, WalkConstants DEF FoldSoFar, FoldOver, IInv, TypeOK, Game
<1>3. IsFiniteSet(probs)
  <2>1. IsFiniteSet(Game)
    BY WalkConstants, FS_Interval DEF Game
  <2> QED BY <2>1, FS_Subset DEF IInv, TypeOK
<1> QED BY <1>1, <1>2, <1>3, FoldedIsFold, FS_CardinalityType, FS_EmptySet

\* What was yielded came with features of the window, and so does the next one.
LEMMA WindowKept ==
    ASSUME IInv, YieldInv, UNCHANGED given,
           out' \subseteq out \union {Prediction(test)},
           out' # out => phase = "predict"
    PROVE  FeaturesOfWindow'
<1> SUFFICES ASSUME NEW p \in out'
             PROVE  IF calibrated
                    THEN \A g \in p.features : g <= Split(Cardinality(Before(p.game)))
                    ELSE p.features = Before(p.game)
  BY SameGames DEF FeaturesOfWindow, given, Split, Bigger
<1>1. CASE p \in out
  BY <1>1 DEF YieldInv, FeaturesOfWindow
<1>2. CASE p \notin out
  <2>1. /\ p.game = test /\ p.features = extractor \intersect Before(test)
        /\ phase = "predict"
    BY <1>2 DEF Prediction
  <2> QED BY <2>1 DEF YieldInv, ExtractorFits, FitGames
<1> QED BY <1>1, <1>2

LEMMA YieldInit == Init => YieldInv
<1> SUFFICES ASSUME Init PROVE YieldInv
  OBVIOUS
<1>1. ExtractorFits /\ FeaturesOfWindow /\ faults \in Nat
  BY DEF Init, ExtractorFits, FeaturesOfWindow
<1>2. NothingRaised
  BY WalkConstants DEF Init, NothingRaised, Learnable, Predicted, Game, Folds
<1> QED BY <1>1, <1>2 DEF YieldInv

\* A fault ends what NothingRaised says.
LEMMA FaultStep ==
    ASSUME IInv, YieldInv, UNCHANGED <<given, out>>, faults' = faults + 1, ExtractorFits'
    PROVE  YieldInv'
<1>1. FeaturesOfWindow'
  BY WindowKept
<1>2. faults' \in Nat /\ faults' # 0
  BY DEF YieldInv
<1> QED BY <1>1, <1>2 DEF YieldInv, NothingRaised

LEMMA FaultsStep ==
    ASSUME IInv, YieldInv,
           FitFails \/ FitModelOnSome \/ FoldGameFails \/ FitCalibratorFails \/ PredictFails
    PROVE  YieldInv'
<1>1. UNCHANGED <<given, out>> /\ faults' = faults + 1
  BY DEF FitFails, FitModelOnSome, FitModelOn, FoldGameFails, FitCalibratorFails,
     PredictFails, Fault
<1>2. CASE FitFails \/ FitCalibratorFails \/ PredictFails
  <2>1. phase' = "select"
    BY <1>2 DEF FitFails, FitCalibratorFails, PredictFails, NextGame
  <2> QED BY <1>1, <2>1, FaultStep DEF ExtractorFits
<1>3. CASE FitModelOnSome
  <2>1. /\ phase = "fitModel" /\ phase' = IF calibrated THEN "fold" ELSE "predict"
        /\ UNCHANGED <<given, test, extractor>>
    BY <1>3 DEF FitModelOnSome, FitModelOn
  <2>2. FitGames' = FitGames
    BY <2>1, SameSets
  <2>3. ExtractorFits'
    BY <2>1, <2>2 DEF YieldInv, ExtractorFits, given
  <2> QED BY <1>1, <2>3, FaultStep
<1>4. CASE FoldGameFails
  <2>1. /\ phase = "fold" /\ phase' = "fold" /\ UNCHANGED <<given, test>>
        /\ extractor' = extractor \/ extractor' \subseteq FitGames
    BY <1>4 DEF FoldGameFails, FoldAttempt, Earlier
  <2>2. FitGames' = FitGames
    BY <2>1, SameSets
  <2>3. ExtractorFits'
    BY <2>1, <2>2 DEF YieldInv, ExtractorFits, given
  <2> QED BY <1>1, <2>3, FaultStep
<1> QED BY <1>2, <1>3, <1>4

\* Up to the fold nothing is learnt or yielded.
LEMMA SelectAndFitStep ==
    ASSUME IInv, YieldInv, SelectTraining \/ FitExtractor \/ FitModel PROVE YieldInv'
<1> USE DEF YieldInv
<1>1. /\ UNCHANGED <<given, test, calibrator, out, faults>>
      /\ phase \in {"select", "fitExtractor", "fitModel"}
  BY DEF SelectTraining, FitExtractor, FitModel, FitModelOn
<1>2. FitGames' = FitGames /\ Fold' = Fold
  BY <1>1, SameSets
<1>3. FeaturesOfWindow'
  BY <1>1, WindowKept
<1>4. Enough(test) => Enough(test)'
  BY <1>1 DEF Enough, Before, given
<1>5. /\ Learnable(test - 1)' <=> Learnable(test - 1)
      /\ {g \in Game : g < test /\ Promised(g)}' = {g \in Game : g < test /\ Promised(g)}
      /\ Predicted' = Predicted
  <2>1. \A g : (Promised(g)' <=> Promised(g)) /\ (Learnable(g)' <=> Learnable(g))
    BY <1>1, SameGames
  <2>2. Learnable(test - 1)' <=> Learnable(test - 1)
    BY <1>1 DEF Learnable, Enough, Folded, Before, Split, Bigger, given
  <2> QED BY <1>1, <2>1, <2>2 DEF Predicted
<1>6. CASE SelectTraining
  <2>1. phase' = "fitExtractor" /\ phase = "select" /\ Enough(test)
    BY <1>6 DEF SelectTraining, Enough
  <2>2. ExtractorFits'
    BY <2>1 DEF ExtractorFits
  <2>3. NothingRaised'
    BY <1>1, <1>4, <1>5, <2>1 DEF NothingRaised, Folds, given
  <2> QED BY <1>1, <1>3, <2>2, <2>3
<1>7. CASE FitExtractor
  <2>1. phase = "fitExtractor" /\ phase' = "fitModel" /\ extractor' = FitGames
    BY <1>7 DEF FitExtractor
  <2>2. ExtractorFits'
    BY <1>1, <1>2, <2>1 DEF ExtractorFits, given
  <2>3. NothingRaised'
    BY <1>1, <1>4, <1>5, <2>1 DEF NothingRaised, Folds, given
  <2> QED BY <1>1, <1>3, <2>2, <2>3
<1>8. CASE FitModel
  <2>1. /\ phase = "fitModel" /\ phase' = IF calibrated THEN "fold" ELSE "predict"
        /\ calGame' = 1 /\ attempted' = {} /\ probs' = {} /\ extractor' = extractor
    BY <1>8 DEF FitModel, FitModelOn
  <2>2. ExtractorFits'
    BY <1>1, <1>2, <2>1 DEF ExtractorFits, given
  <2>3. FoldSoFar' = {}
    <3>1. \A h \in Fold' : h \in Game
      BY <1>2, FoldApart, BeforeFinite
    <3> QED BY <2>1, <3>1 DEF FoldSoFar, Game
  <2>4. calibrated' => Folds' = Folds
    BY <1>1, <2>1 DEF Folds, given
  <2>5. NothingRaised'
    BY <1>1, <1>4, <1>5, <2>1, <2>3, <2>4 DEF NothingRaised, Folds, given
  <2> QED BY <1>1, <1>3, <2>2, <2>5
<1> QED BY <1>6, <1>7, <1>8

\* The fold tries its games in order.
LEMMA FoldGamesStep ==
    ASSUME IInv, YieldInv, FoldPass \/ FoldGame PROVE YieldInv'
<1> USE DEF YieldInv
<1>1. /\ UNCHANGED <<given, test, phase, calibrator, out, faults>>
      /\ phase = "fold" /\ calGame' = calGame + 1 /\ calGame \in Nat
  BY DEF FoldPass, FoldGame, FoldAttempt, IInv, TypeOK
<1>2. FitGames' = FitGames /\ Fold' = Fold /\ \A h : Earlier(h)' = Earlier(h)
  BY <1>1, SameSets, SameGames DEF Earlier
<1>3. FeaturesOfWindow'
  BY <1>1, WindowKept
<1>4. ExtractorFits'
  BY <1>1, <1>2 DEF ExtractorFits, FoldPass, FoldGame, Earlier, given
<1>5. \A h \in Fold : h \in Nat
  BY FoldApart, BeforeFinite DEF Game
<1>6. Enough(test) => Enough(test)'
  BY <1>1 DEF Enough, Before, given
<1>7. /\ Learnable(test - 1)' <=> Learnable(test - 1)
      /\ {g \in Game : g < test /\ Promised(g)}' = {g \in Game : g < test /\ Promised(g)}
      /\ Predicted' = Predicted
  <2>1. \A g : Promised(g)' <=> Promised(g)
    BY <1>1, SameGames
  <2>2. Learnable(test - 1)' <=> Learnable(test - 1)
    BY <1>1 DEF Learnable, Enough, Folded, Before, Split, Bigger, given
  <2> QED BY <1>1, <2>1, <2>2 DEF Predicted
<1>8. probs = FoldSoFar /\ attempted = FoldSoFar =>
        probs' = FoldSoFar' /\ attempted' = FoldSoFar'
  <2>1. CASE FoldPass
    BY <1>1, <1>2, <1>5, <2>1 DEF FoldPass, FoldSoFar
  <2>2. CASE FoldGame
    <3>1. /\ calGame \in Fold /\ Earlier(calGame) # {}
          /\ attempted' = attempted \union {calGame} /\ probs' = probs \union {calGame}
      BY <2>2 DEF FoldGame, FoldAttempt
    <3>2. \A h \in Fold : h < calGame' <=> h < calGame \/ h = calGame
      BY <1>1, <1>5
    <3>3. \A h : h \in FoldSoFar' <=> h \in FoldSoFar \/ h = calGame
      <4>1. \A h : h \in FoldSoFar' <=> h \in Fold /\ h < calGame' /\ Earlier(h) # {}
        BY <1>2 DEF FoldSoFar
      <4> QED BY <3>1, <3>2, <4>1 DEF FoldSoFar
    <3> QED BY <3>1, <3>3
  <2> QED BY <2>1, <2>2
<1>9. NothingRaised'
  BY <1>1, <1>6, <1>7, <1>8 DEF NothingRaised, Folds, given
<1> QED BY <1>1, <1>3, <1>4, <1>9

\* When nothing has raised, the fold leaves a calibrator if it can.
LEMMA FoldEndStep ==
    ASSUME IInv, YieldInv, TooFewProbs \/ FitCalibrator PROVE YieldInv'
<1> USE DEF YieldInv
<1>1. /\ UNCHANGED <<given, test, extractor, out, faults>>
      /\ FoldOver /\ phase = "fold" /\ phase' = "predict"
  BY DEF TooFewProbs, FitCalibrator, FoldOver
<1>2. FitGames' = FitGames
  BY <1>1, SameSets
<1>3. FeaturesOfWindow' /\ ExtractorFits'
  BY <1>1, <1>2, WindowKept DEF ExtractorFits, given
<1>4. ASSUME faults = 0 PROVE calibrator' # Uncalibrated <=> Learnable(test)
  <2>1. /\ Cardinality(probs) \in Nat /\ attempted = probs
        /\ Cardinality(probs) = 0 <=> probs = {}
        /\ Folded(test) <=> Cardinality(probs) >= 2
    BY <1>1, <1>4, FoldEnds
  <2>2. Enough(test) /\ (calibrator # Uncalibrated <=> Learnable(test - 1)) /\ test \in Game
    BY <1>1, <1>4 DEF NothingRaised, ExtractorFits, Folds, IInv, UnderWay
  <2>3. Learnable(test) <=> Learnable(test - 1) \/ Folded(test)
    BY <2>2, LearnableGrows
  <2>4. CASE TooFewProbs
    BY <2>1, <2>2, <2>3, <2>4 DEF TooFewProbs
  <2>5. CASE FitCalibrator
    <3>1. probs # {} /\ calibrator'.games = probs /\ Folded(test)
      BY <2>1, <2>5 DEF FitCalibrator
    <3>2. Uncalibrated.games = {}
      BY DEF Uncalibrated, Never
    <3> QED BY <2>3, <3>1, <3>2
  <2> QED BY <2>4, <2>5
<1>5. /\ Learnable(test)' <=> Learnable(test)
      /\ Enough(test)' <=> Enough(test)
      /\ {g \in Game : g < test /\ Promised(g)}' = {g \in Game : g < test /\ Promised(g)}
      /\ Predicted' = Predicted
  <2>1. \A g : Promised(g)' <=> Promised(g)
    BY <1>1, SameGames
  <2>2. (Learnable(test)' <=> Learnable(test)) /\ (Enough(test)' <=> Enough(test))
    BY <1>1 DEF Learnable, Enough, Folded, Before, Split, Bigger, given
  <2> QED BY <1>1, <2>1, <2>2 DEF Predicted
<1>6. NothingRaised'
  BY <1>1, <1>4, <1>5 DEF NothingRaised, Folds, given
<1> QED BY <1>1, <1>3, <1>6

\* A game is predicted, given up for want of games or of a calibrator, and what is
\* promised of the games up to it has been kept.
LEMMA GameOverStep ==
    ASSUME IInv, YieldInv, SkipTooFew \/ AllFoldsFailed \/ Predict PROVE YieldInv'
<1> USE DEF YieldInv
<1>1. /\ UNCHANGED <<given, calibrator, faults>> /\ test' = test + 1 /\ phase' = "select"
      /\ test \in Game
  BY DEF SkipTooFew, AllFoldsFailed, FoldOver, Predict, NextGame, IInv, UnderWay, TypeOK,
     Game
<1>2. out' \subseteq out \union {Prediction(test)} /\ (out' # out => phase = "predict")
  BY DEF SkipTooFew, AllFoldsFailed, Predict
<1>3. FeaturesOfWindow' /\ ExtractorFits'
  BY <1>1, <1>2, WindowKept DEF ExtractorFits
<1>4. test' - 1 = test /\ \A g \in Game : g < test' <=> g < test \/ g = test
  BY <1>1 DEF Game
<1>5. ASSUME faults = 0
      PROVE  /\ calibrated => (calibrator # Uncalibrated <=> Learnable(test))
             /\ Predicted' = IF Promised(test) THEN Predicted \union {test} ELSE Predicted
  <2>1. CASE SkipTooFew
    <3>1. ~Enough(test) /\ phase = "select" /\ out' = out
      <4>1. Cardinality(Before(test)) < MinTrain /\ Cardinality(Before(test)) \in Nat
        BY <2>1, BeforeFinite, FS_CardinalityType DEF SkipTooFew
      <4> QED BY <2>1, <4>1, WalkConstants DEF SkipTooFew, Enough
    <3>2. Learnable(test) <=> Learnable(test - 1)
      BY <1>1, <3>1, LearnableGrows
    <3> QED BY <1>5, <3>1, <3>2 DEF NothingRaised, Folds, Promised, Predicted
  <2>2. CASE AllFoldsFailed
    BY <1>5, <2>2, FoldEnds DEF AllFoldsFailed
  <2>3. CASE Predict
    <3>1. /\ phase = "predict" /\ Enough(test)
          /\ calibrated => (calibrator # Uncalibrated <=> Learnable(test))
      BY <1>5, <2>3 DEF NothingRaised, Folds, Predict
    <3>2. Predictable <=> Promised(test)
      BY <3>1 DEF Predictable, Promised
    <3>3. out' = IF Promised(test) THEN out \union {Prediction(test)} ELSE out
      BY <2>3, <3>2 DEF Predict
    <3>4. Prediction(test).game = test
      BY DEF Prediction
    <3> QED BY <3>1, <3>3, <3>4 DEF Predicted
  <2> QED BY <2>1, <2>2, <2>3
<1>6. \A g : (Promised(g)' <=> Promised(g)) /\ (Learnable(g)' <=> Learnable(g))
  BY <1>1, SameGames
<1>7. Learnable(Folds)' <=> Learnable(test)
  <2>1. Folds' = test
    BY <1>1, <1>4 DEF Folds
  <2> QED BY <1>1, <2>1 DEF Learnable, Enough, Folded, Before, Split, Bigger, given
<1>8. NothingRaised'
  BY <1>1, <1>4, <1>5, <1>6, <1>7 DEF NothingRaised, given
<1> QED BY <1>1, <1>3, <1>8

LEMMA YieldStep == ASSUME IInv, YieldInv, [Next]_vars PROVE YieldInv'
<1>1. CASE UNCHANGED vars
  <2> USE DEF vars, fold
  <2>1. FeaturesOfWindow'
    BY <1>1, WindowKept
  <2>2. FitGames' = FitGames /\ Fold' = Fold /\ \A h : Earlier(h)' = Earlier(h)
    BY <1>1, SameSets, SameGames DEF Earlier
  <2>3. ExtractorFits' /\ FoldSoFar' = FoldSoFar /\ Predicted' = Predicted
    BY <1>1, <2>2 DEF YieldInv, ExtractorFits, FoldSoFar, Predicted, given
  <2>4. /\ Learnable(Folds)' <=> Learnable(Folds)
        /\ Enough(test)' <=> Enough(test)
    BY <1>1 DEF Learnable, Enough, Folded, Folds, Before, Split, Bigger, given
  <2>5. {g \in Game : g < test /\ Promised(g)}' = {g \in Game : g < test /\ Promised(g)}
    <3>1. \A g : Promised(g)' <=> Promised(g)
      BY <1>1, SameGames
    <3> QED BY <1>1, <3>1
  <2>6. NothingRaised'
    BY <1>1, <2>3, <2>4, <2>5 DEF YieldInv, NothingRaised, given
  <2> QED BY <1>1, <2>1, <2>3, <2>6 DEF YieldInv
<1>2. CASE Next
  BY <1>2, FaultsStep, SelectAndFitStep, FoldGamesStep, FoldEndStep, GameOverStep DEF Next
<1> QED BY <1>1, <1>2

LEMMA WalkInvariant == Spec => [](IInv /\ YieldInv)
<1>1. IInv /\ YieldInv /\ [Next]_vars => (IInv /\ YieldInv)'
  BY WalkStep, YieldStep
<1> QED BY <1>1, WalkInit, YieldInit, PTL DEF Spec

-----------------------------------------------------------------------------
(* The walk of the code's own models *)

BInv == IInv /\ YieldInv /\ FittedTogether /\ setup \in Setups

\* The steps of BSpec that are no steps of Spec: a model or its fit raises by itself.
LEMMA RaisesStep ==
    ASSUME IInv, YieldInv, FoldGameRaises \/ OneClass \/ PredictRaises
    PROVE  IInv' /\ YieldInv'
<1>1. faults' = faults + 1 /\ UNCHANGED <<given, out>>
  BY DEF FoldGameRaises, OneClass, PredictRaises, Raises
<1>2. CASE FoldGameRaises
  <2>1. /\ phase = "fold" /\ phase' = "fold"
        /\ UNCHANGED <<given, test, model, probs, calibrator, out>>
        /\ calGame \in Fold /\ calGame <= Games /\ calGame' = calGame + 1
        /\ attempted' = attempted \union {calGame} /\ extractor' = Earlier(calGame)
    BY <1>2 DEF FoldGameRaises, FoldAttempt
  <2>2. FitGames' = FitGames /\ Fold' = Fold /\ Before(test)' = Before(test)
    BY <2>1, SameSets
  <2>3. Earlier(calGame) \subseteq Game /\ Earlier(calGame) \subseteq FitGames
        /\ calGame \in Game
    BY <2>1, FoldApart, BeforeFinite DEF Earlier
  <2>4. IInv'
    <3>1. TypeOK'
      BY <2>1, <2>3, WalkConstants DEF IInv, TypeOK, Game
    <3>2. UnderWay' /\ ModelFits'
      BY <2>1, <2>2 DEF IInv, UnderWay, ModelFits
    <3> QED BY <2>1, <3>1, <3>2, SameGameStep
  <2>5. ExtractorFits'
    BY <2>1, <2>2, <2>3 DEF YieldInv, ExtractorFits, given
  <2> QED BY <1>1, <2>4, <2>5, FaultStep
<1>3. CASE OneClass \/ PredictRaises
  <2>1. /\ NextGame /\ UNCHANGED <<given, extractor, model, fold, calibrator, out>>
        /\ phase \in {"fitModel", "predict"}
    BY <1>3 DEF OneClass, PredictRaises
  <2>2. ExtractorFits'
    BY <2>1 DEF NextGame, ExtractorFits
  <2>3. IInv'
    BY <2>1, NextGameStep DEF IInv, UnderWay
  <2> QED BY <1>1, <2>2, <2>3, FaultStep
<1> QED BY <1>2, <1>3

\* The parts of a model are only set by fits, all of them by one that does not raise.
LEMMA PartsStep == ASSUME FittedTogether, [BNext]_bvars PROVE FittedTogether'
<1>1. CASE FitParts \/ FitPartsOnSome
  BY <1>1 DEF FitParts, FitPartsOnSome, FitModel, FitModelOnSome, FitModelOn, FitOn,
     FittedTogether
<1>2. CASE \/ FoldGamePredicted \/ FoldGameRaises
           \/ Quiet /\ (FoldPass \/ FoldGameFails \/ TooFewProbs \/ FitCalibrator)
  <2>1. phase = "fold" /\ UNCHANGED <<model, parts>>
    BY <1>2 DEF FoldPass, FoldGamePredicted, FoldGame, FoldGameRaises, FoldAttempt,
       FoldGameFails, TooFewProbs, FitCalibrator, FoldOver, Quiet
  <2> QED BY <2>1 DEF FittedTogether
<1>3. CASE UNCHANGED bvars
  BY <1>3 DEF bvars, vars, FittedTogether
<1>4. ASSUME phase' \in {"select", "fitExtractor", "fitModel"} PROVE FittedTogether'
  BY <1>4 DEF FittedTogether
<1>5. CASE \/ SkipTooFew \/ SelectTraining \/ FitExtractor \/ FitPartsFails \/ OneClass
           \/ AllFoldsFailed \/ FitCalibratorFails
           \/ PredictAndYield \/ NotCalibrated \/ PredictRaises \/ PredictFails
  BY <1>4, <1>5
  DEF SkipTooFew, SelectTraining, FitExtractor, FitPartsFails, FitFails, OneClass,
      AllFoldsFailed, FitCalibratorFails, PredictAndYield, NotCalibrated, Predict,
      PredictRaises, PredictFails, NextGame
<1> QED BY <1>1, <1>2, <1>3, <1>5 DEF BNext

\* BInv is inductive.
THEOREM BacktestInvariant == BSpec => []BInv
<1>1. BInit => BInv
  <2>1. BInit => FittedTogether
    BY DEF BInit, Init, FittedTogether
  <2> QED BY <2>1, WalkInit, YieldInit DEF BInit, BInv
<1>2. BInv /\ [BNext]_bvars => BInv'
  <2> SUFFICES ASSUME BInv, [BNext]_bvars PROVE BInv'
    OBVIOUS
  <2>1. [Next]_vars \/ FoldGameRaises \/ OneClass \/ PredictRaises
    BY DEF BNext, Next, bvars, FitParts, FitPartsOnSome, FitPartsFails,
       FoldGamePredicted, PredictAndYield, NotCalibrated
  <2>2. setup' = setup
    BY DEF BNext, bvars, Quiet, FitParts, FitPartsOnSome, FitOn, FitPartsFails, FitSome,
       OneClass, FoldGamePredicted, FoldGameRaises, PredictAndYield, NotCalibrated,
       PredictRaises
  <2> QED BY <2>1, <2>2, WalkStep, YieldStep, RaisesStep, PartsStep DEF BInv
<1> QED BY <1>1, <1>2, PTL DEF BSpec

-----------------------------------------------------------------------------
(* Lists of games *)

\* A list comprehension has the elements at the given indices and no others.
LEMMA KeptFacts ==
    ASSUME NEW X, NEW list \in Seq(X), NEW I
    PROVE  /\ Kept(list, I) \in Seq(X)
           /\ \A k \in DOMAIN Kept(list, I) :
                \E i \in DOMAIN list : i \in I /\ Kept(list, I)[k] = list[i]
           /\ \A i \in DOMAIN list : i \in I =>
                \E k \in DOMAIN Kept(list, I) : Kept(list, I)[k] = list[i]
<1> DEFINE n == Len(list)
           B == Seq(X)
           next(f, k) == IF k = 0 THEN <<>>
                         ELSE IF k \in I THEN Append(f[k - 1], list[k]) ELSE f[k - 1]
           f == CHOOSE v : v = [k \in 0 .. n |-> next(v, k)]
           h == [p \in (1 .. n) \X B |-> IF p[1] \in I THEN Append(p[2], list[p[1]]) ELSE p[2]]
<1>1. n \in Nat /\ DOMAIN list = 1 .. n /\ \A i \in 1 .. n : list[i] \in X
  OBVIOUS
<1>2. Kept(list, I) = f[n]
  BY DEF Kept
<1> HIDE DEF n
<1>3. <<>> \in B /\ StepsIn(h, 1 .. n, B)
  <2>1. ASSUME NEW x \in 1 .. n, NEW b \in B PROVE h[<<x, b>>] \in B
    <3>1. h[<<x, b>>] = IF x \in I THEN Append(b, list[x]) ELSE b
      OBVIOUS
    <3> HIDE DEF h
    <3> QED BY <1>1, <3>1
  <2>2. <<>> \in B
    OBVIOUS
  <2> HIDE DEF h, B
  <2> QED BY <2>1, <2>2 DEF StepsIn
<1>4. PICK v : /\ v \in [0 .. n -> B] /\ v[0] = <<>>
               /\ \A k \in 1 .. n : v[k] = h[<<k, v[k - 1]>>]
  <2> HIDE DEF h, B
  <2> QED BY <1>1, <1>3, RecursionExists
<1>5. v = [k \in 0 .. n |-> next(v, k)]
  <2>1. ASSUME NEW k \in 0 .. n PROVE v[k] = next(v, k)
    <3>1. CASE k = 0
      BY <1>4, <3>1
    <3>2. CASE k # 0
      <4>1. k \in 1 .. n /\ k - 1 \in 0 .. n
        BY <1>1, <3>2
      <4>2. v[k] = h[<<k, v[k - 1]>>] /\ v[k - 1] \in B
        BY <1>4, <4>1
      <4>3. h[<<k, v[k - 1]>>] = IF k \in I THEN Append(v[k - 1], list[k]) ELSE v[k - 1]
        BY <4>1, <4>2
      <4> HIDE DEF h
      <4> QED BY <3>2, <4>2, <4>3
    <3> QED BY <3>1, <3>2
  <2> HIDE DEF next, B, h
  <2> QED BY <1>4, <2>1
<1>6. f = [k \in 0 .. n |-> next(f, k)]
  <2> HIDE DEF next
  <2> QED BY <1>5
<1> HIDE DEF f, h, B
<1>7. f[0] = <<>>
  BY <1>1, <1>6
<1>8. ASSUME NEW k \in 1 .. n
      PROVE  f[k] = IF k \in I THEN Append(f[k - 1], list[k]) ELSE f[k - 1]
  <2>1. k \in 0 .. n /\ k # 0
    BY <1>1
  <2>2. f[k] = next(f, k)
    <3> HIDE DEF next
    <3> QED BY <1>6, <2>1
  <2> QED BY <2>1, <2>2
<1> DEFINE From(k) == {list[i] : i \in 1 .. k \intersect I}
           Is(k) == /\ f[k] \in Seq(X)
                    /\ \A j \in DOMAIN f[k] : f[k][j] \in From(k)
                    /\ \A x \in From(k) : \E j \in DOMAIN f[k] : f[k][j] = x
           Good == {k \in 0 .. n : Is(k)}
<1>9. 0 \in Good
  <2>1. 0 \in 0 .. n /\ From(0) = {}
    BY <1>1
  <2> HIDE DEF From
  <2>2. Is(0)
    BY <1>7, <2>1
  <2> QED BY <2>1, <2>2
<1>10. ASSUME NEW k \in 1 .. n, k - 1 \in Good PROVE k \in Good
  <2> DEFINE old == f[k - 1]
             new == f[k]
  <2>1. k \in 0 .. n /\ list[k] \in X /\ k \in Nat
    BY <1>1
  <2>2. /\ old \in Seq(X) /\ \A j \in DOMAIN old : old[j] \in From(k - 1)
        /\ \A x \in From(k - 1) : \E j \in DOMAIN old : old[j] = x
    BY <1>10
  <2>3. From(k) = IF k \in I THEN From(k - 1) \union {list[k]} ELSE From(k - 1)
    <3>1. 1 .. k = (1 .. (k - 1)) \union {k}
      BY <2>1
    <3> QED BY <3>1
  <2>4. new = IF k \in I THEN Append(old, list[k]) ELSE old
    BY <1>8
  <2> HIDE DEF From, old, new
  <2>5. CASE k \in I
    <3>1. /\ new \in Seq(X) /\ Len(new) = Len(old) + 1 /\ new[Len(old) + 1] = list[k]
          /\ \A j \in 1 .. Len(old) : new[j] = old[j]
          /\ Len(old) \in Nat
      BY <2>1, <2>2, <2>4, <2>5
    <3>2. DOMAIN old = 1 .. Len(old) /\ DOMAIN new = 1 .. Len(old) + 1
      BY <2>2, <3>1
    <3>3. \A j \in DOMAIN new : new[j] \in From(k)
      BY <2>2, <2>3, <2>5, <3>1, <3>2
    <3>4. \A x \in From(k) : \E j \in DOMAIN new : new[j] = x
      <4> SUFFICES ASSUME NEW x \in From(k) PROVE \E j \in DOMAIN new : new[j] = x
        OBVIOUS
      <4>1. CASE x = list[k]
        BY <3>1, <3>2, <4>1
      <4>2. CASE x \in From(k - 1)
        <5>1. PICK j \in DOMAIN old : old[j] = x
          BY <2>2, <4>2
        <5> QED BY <3>1, <3>2, <5>1
      <4> QED BY <2>3, <2>5, <4>1, <4>2
    <3> QED BY <2>1, <3>1, <3>3, <3>4 DEF new
  <2>6. CASE k \notin I
    BY <2>1, <2>2, <2>3, <2>4, <2>6 DEF new
  <2> QED BY <2>5, <2>6
<1>11. n \in Good
  <2> HIDE DEF Good
  <2>1. \A k \in 0 .. n : k \in Good
    BY <1>1, <1>9, <1>10, CountInduction
  <2> QED BY <1>1, <2>1
<1>12. Is(n)
  BY <1>11
<1>13. \A x : x \in From(n) <=> \E i \in DOMAIN list : i \in I /\ x = list[i]
  BY <1>1
<1> HIDE DEF From
<1> QED BY <1>2, <1>12, <1>13

LEMMA KeptAt ==
    ASSUME NEW X, NEW list \in Seq(X), NEW I, NEW i \in DOMAIN list, i \in I
    PROVE  \E k \in DOMAIN Kept(list, I) : Kept(list, I)[k] = list[i]
<1>1. Kept(list, I) \in Seq(X)
  BY KeptFacts
<1> QED BY <1>1, KeptFacts

-----------------------------------------------------------------------------
(* Ratings *)

Rated == {NFL, NBA, MLB, NHL}
IsGame(g) == {g.home, g.away} \subseteq Team /\ {g.homeScore, g.awayScore} \subseteq Nat
Plays(t, g) == t \in {g.home, g.away}

\* A game moves points from one of its teams to the other, never from its winner.
LEMMA UpdateFacts ==
    ASSUME Differences = Int, NEW sport \in Rated, NEW ratings \in [Team -> Int],
           NEW g, IsGame(g)
    PROVE  /\ Update(sport, ratings, g) \in [Team -> Int]
           /\ Total(Update(sport, ratings, g), Team) = Total(ratings, Team)
           /\ \A t \in Team : (Plays(t, g) => Won(t, g)) =>
                Update(sport, ratings, g)[t] >= ratings[t]
<1> DEFINE mov == MovMultiplier(sport, g)
           k == KFactor * mov
           e == Expected(ratings[g.home] + sport.advantage * Point, ratings[g.away])
           a == Actual(g)
           d == k * (a - e)
           r == [ratings EXCEPT ![g.home] = ratings[g.home] + d]
           s == [r EXCEPT ![g.away] = r[g.away] + (-d)]
<1>1. /\ One \in Nat \ {0} /\ KFactor \in Nat /\ IsFiniteSet(Team) /\ One % 2 = 0
      /\ g.home \in Team /\ g.away \in Team /\ g.homeScore \in Nat /\ g.awayScore \in Nat
  BY FeatureConstants DEF IsGame
<1>2. sport.advantage \in Nat /\ sport.reference \in {2, 7, 10}
  BY DEF Rated, NFL, NBA, MLB, NHL
<1>3. mov \in Nat
  <2> DEFINE m == Margin(g)
  <2>1. m \in Nat
    BY <1>1 DEF Margin, Larger
  <2> HIDE DEF m
  <2>2. m > 0 => LogRatio(m, sport.reference) \in Nat
    <3>1. \A i \in Differences, j \in {2, 7, 10} : i > 0 => LogRatio(i, j) \in Nat
      BY ONLY FeatureConstants
    <3> QED BY ONLY <1>2, <2>1, <3>1, Differences = Int
  <2> QED BY <1>1, <2>1, <2>2 DEF MovMultiplier, m
<1>4. k \in Nat
  <2> HIDE DEF mov
  <2> QED BY <1>1, <1>3
<1>5. e \in 0 .. One
  <2> DEFINE u == ratings[g.home] + sport.advantage * Point
             v == ratings[g.away]
             q == (u - v) \div Point
  <2>1. Point \in Nat \ {0}
    BY <1>1 DEF Point
  <2>2. u - v \in Int
    BY <1>1, <1>2, <2>1
  <2>3. q \in Int
    <3> HIDE DEF u, v
    <3> QED BY <2>1, <2>2
  <2>4. e = Logistic(q)
    BY DEF Expected
  <2> HIDE DEF u, v, q, e
  <2> QED BY <2>3, <2>4, FeatureConstants
<1>6. /\ a \in 0 .. One
      /\ g.homeScore > g.awayScore => a = One
      /\ g.homeScore < g.awayScore => a = 0
  <2>1. One \div 2 \in 0 .. One
    BY <1>1
  <2> QED BY <1>1, <2>1 DEF Actual
<1> HIDE DEF k, e, a
<1>7. d \in Int /\ (a = One => d >= 0) /\ (a = 0 => d <= 0)
  <2>1. a = One => a - e \in Nat
    BY <1>1, <1>5, <1>6
  <2>2. a = 0 => e \in Nat /\ d = -(k * e)
    BY <1>4, <1>5
  <2>3. \A n \in Nat : k * n >= 0
    BY <1>4
  <2>4. a - e \in Int
    BY <1>1, <1>5, <1>6
  <2>5. d \in Int
    BY <1>4, <2>4
  <2>6. a = One => d >= 0
    BY <2>1, <2>3
  <2>7. a = 0 => d <= 0
    <3>1. SUFFICES ASSUME a = 0 PROVE d <= 0
      OBVIOUS
    <3>2. k * e >= 0 /\ k * e \in Int /\ d = -(k * e)
      BY <1>4, <2>2, <2>3, <3>1
    <3> HIDE DEF d
    <3> QED BY <3>2
  <2> QED BY <2>5, <2>6, <2>7
<1>8. k * ((One - a) - (One - e)) = -d
  BY <1>1, <1>4, <1>5, <1>6
<1>9. Update(sport, ratings, g) = s
  <2> DEFINE y == k * ((One - a) - (One - e))
  <2>1. Update(sport, ratings, g) = [r EXCEPT ![g.away] = r[g.away] + y]
    BY DEF Update, k, a, e, mov
  <2>2. y = -d
    BY <1>8
  <2> HIDE DEF y, d, r
  <2> QED BY <2>1, <2>2
<1> HIDE DEF d
<1>10. r \in [Team -> Int] /\ Total(r, Team) = Total(ratings, Team) + d
  <2>1. /\ r \in [Team -> Int] /\ r[g.home] = ratings[g.home] + d
        /\ \A t \in Team \ {g.home} : r[t] = ratings[t]
    BY <1>1, <1>7
  <2> HIDE DEF r, s
  <2>2. d \in Int
    BY <1>7
  <2> QED BY <1>1, <2>1, <2>2, TotalExcept
<1>11. ASSUME NEW t \in Team, Plays(t, g) => Won(t, g) PROVE s[t] >= ratings[t]
  <2>1. s[t] = ratings[t] + (IF t = g.home THEN d ELSE 0) - (IF t = g.away THEN d ELSE 0)
    BY <1>1, <1>7
  <2>2. ratings[t] \in Int
    OBVIOUS
  <2> HIDE DEF s
  <2>3. CASE ~Plays(t, g)
    BY <1>7, <2>1, <2>2, <2>3 DEF Plays
  <2>4. CASE Won(t, g)
    BY <1>1, <1>6, <1>7, <2>1, <2>2, <2>4 DEF Won
  <2> QED BY <1>11, <2>3, <2>4
<1> HIDE DEF r
<1>12. s \in [Team -> Int] /\ Total(s, Team) = Total(r, Team) + (-d)
  <2>1. -d \in Int /\ r \in [Team -> Int]
    BY <1>7, <1>10
  <2>2. /\ s \in [Team -> Int] /\ s[g.away] = r[g.away] + (-d)
        /\ \A t \in Team \ {g.away} : s[t] = r[t]
    BY <1>1, <2>1
  <2> HIDE DEF s
  <2> QED BY <1>1, <2>1, <2>2, TotalExcept
<1>13. Total(ratings, Team) \in Int
  <2>1. IntOn(ratings, Team)
    BY DEF IntOn
  <2> QED BY <1>1, <2>1, TotalStep
<1> HIDE DEF s
<1>14. Total(s, Team) = Total(ratings, Team)
  BY <1>7, <1>10, <1>12, <1>13
<1> QED BY <1>9, <1>11, <1>12, <1>14

\* Whatever the games, ratings sum to those at the start, and who lost none of
\* its games has no less than it began with.
LEMMA RatingsFacts ==
    ASSUME Differences = Int, NEW sport \in Rated, NEW X, NEW games \in Seq(X),
           \A i \in DOMAIN games : IsGame(games[i])
    PROVE  LET ratings == RatingsAfter(sport, games)
           IN  /\ ratings \in [Team -> Int]
               /\ Total(ratings, Team) = Cardinality(Team) * Initial * Point
               /\ \A t \in Team : (\A i \in DOMAIN games : Plays(t, games[i]) => Won(t, games[i]))
                    => ratings[t] >= Initial * Point
<1> DEFINE n == Len(games)
           base == Unrated
           next(f, s) == IF s = {} THEN base
                         ELSE Update(sport, f[s \ {Max(s)}], games[Max(s)])
           f == CHOOSE v : v = [s \in SUBSET (1 .. n) |-> next(v, s)]
           B == [Team -> Int]
           h == [p \in (1 .. n) \X B |-> Update(sport, p[2], games[p[1]])]
<1>1. n \in Nat /\ DOMAIN games = 1 .. n /\ \A i \in 1 .. n : IsGame(games[i])
  OBVIOUS
<1>2. RatingsAfter(sport, games) = f[1 .. n]
  BY <1>1 DEF RatingsAfter, FoldLeft, MapThenFoldSet
<1> HIDE DEF n
<1>3. base \in B /\ StepsIn(h, 1 .. n, B)
  <2>1. ASSUME NEW x \in 1 .. n, NEW b \in B PROVE h[<<x, b>>] \in B
    <3>1. h[<<x, b>>] = Update(sport, b, games[x])
      OBVIOUS
    <3>2. Update(sport, b, games[x]) \in B
      BY <1>1, UpdateFacts
    <3> QED BY <3>1, <3>2
  <2>2. base \in B
    BY FeatureConstants DEF Unrated, Point
  <2> HIDE DEF h, B, base
  <2> QED BY <2>1, <2>2 DEF StepsIn
<1>4. \E g : g = [s \in SUBSET (1 .. n) |-> next(g, s)]
  <2> HIDE DEF B, h, base
  <2>1. PICK g : /\ g = [s \in SUBSET (1 .. n) |->
                            IF s = {} THEN base ELSE h[<<Max(s), g[s \ {Max(s)}]>>]]
                 /\ \A s \in SUBSET (1 .. n) : g[s] \in B
                 /\ \A s \in SUBSET (1 .. n) : s # {} => Max(s) \in s
    BY <1>1, <1>3, LoopExists
  <2>2. ASSUME NEW s \in SUBSET (1 .. n)
        PROVE  next(g, s) = IF s = {} THEN base ELSE h[<<Max(s), g[s \ {Max(s)}]>>]
    <3>1. CASE s = {}
      BY <3>1
    <3>2. CASE s # {}
      <4>1. Max(s) \in 1 .. n /\ g[s \ {Max(s)}] \in B
        BY <2>1, <3>2
      <4> QED BY <3>2, <4>1 DEF h
    <3> QED BY <3>1, <3>2
  <2>3. g = [s \in SUBSET (1 .. n) |-> next(g, s)]
    <3> HIDE DEF next
    <3> QED BY <2>1, <2>2, Zenon
  <2> QED BY <2>3
<1>5. f = [s \in SUBSET (1 .. n) |-> next(f, s)]
  <2> HIDE DEF next
  <2> QED BY <1>4
<1> HIDE DEF f, base
<1>6. f[1 .. 0] = base
  <2>1. 1 .. 0 = {} /\ 1 .. 0 \in SUBSET (1 .. n)
    BY <1>1
  <2>2. next(f, 1 .. 0) = base
    BY <2>1
  <2> HIDE DEF next
  <2> QED BY <1>5, <2>1, <2>2
<1>7. ASSUME NEW k \in 1 .. n
      PROVE  f[1 .. k] = Update(sport, f[1 .. (k - 1)], games[k])
  <2>1. /\ Max(1 .. k) = k /\ (1 .. k) \ {k} = 1 .. (k - 1)
        /\ 1 .. k # {} /\ 1 .. k \in SUBSET (1 .. n)
    BY <1>1, LastIndex
  <2>2. next(f, 1 .. k) = Update(sport, f[1 .. (k - 1)], games[k])
    BY <2>1
  <2> HIDE DEF next
  <2> QED BY <1>5, <2>1, <2>2
<1> HIDE DEF h, next, B
<1> DEFINE Wins(t, k) == \A i \in 1 .. k : Plays(t, games[i]) => Won(t, games[i])
           Is(k) == /\ f[1 .. k] \in B
                    /\ Total(f[1 .. k], Team) = Total(base, Team)
                    /\ \A t \in Team : Wins(t, k) => f[1 .. k][t] >= base[t]
           Good == {k \in 0 .. n : Is(k)}
<1>8. base \in B /\ \A t \in Team : base[t] = Initial * Point /\ base[t] \in Int
  BY <1>3, FeatureConstants DEF base, Unrated, Point
<1>9. 0 \in Good
  <2>1. 0 \in 0 .. n
    BY <1>1
  <2>2. \A t \in Team : base[t] >= base[t]
    BY <1>8
  <2> QED BY <1>6, <1>8, <2>1, <2>2
<1>10. ASSUME NEW k \in 1 .. n, k - 1 \in Good PROVE k \in Good
  <2> DEFINE old == f[1 .. (k - 1)]
             new == f[1 .. k]
  <2>1. k \in 0 .. n /\ k \in Nat /\ IsGame(games[k]) /\ new = Update(sport, old, games[k])
    BY <1>1, <1>7
  <2>2. /\ old \in B /\ Total(old, Team) = Total(base, Team)
        /\ \A t \in Team : Wins(t, k - 1) => old[t] >= base[t]
    BY <1>10
  <2> HIDE DEF old, new, Wins
  <2>3. /\ new \in B /\ Total(new, Team) = Total(old, Team)
        /\ \A t \in Team : (Plays(t, games[k]) => Won(t, games[k])) => new[t] >= old[t]
    BY <2>1, <2>2, UpdateFacts DEF B
  <2>4. ASSUME NEW t \in Team, Wins(t, k) PROVE new[t] >= base[t]
    <3>1. Wins(t, k - 1) /\ (Plays(t, games[k]) => Won(t, games[k]))
      BY <2>1, <2>4 DEF Wins
    <3>2. new[t] \in Int /\ old[t] \in Int /\ base[t] \in Int
      BY <1>8, <2>2, <2>3 DEF B
    <3>3. new[t] >= old[t] /\ old[t] >= base[t]
      BY <2>2, <2>3, <3>1
    <3> QED BY <3>2, <3>3
  <2>5. Total(new, Team) = Total(base, Team)
    BY <2>2, <2>3
  <2> QED BY <2>1, <2>3, <2>4, <2>5 DEF new
<1>11. Is(n)
  <2> HIDE DEF Good
  <2>1. \A k \in 0 .. n : k \in Good
    BY <1>1, <1>9, <1>10, CountInduction
  <2>2. n \in Good
    BY <1>1, <2>1
  <2> QED BY <2>2 DEF Good
<1>12. Total(base, Team) = Cardinality(Team) * Initial * Point
  <2> DEFINE c == Initial * Point
             Z == Int
  <2>1. Initial \in Nat /\ One \in Nat /\ IsFiniteSet(Team)
    BY FeatureConstants
  <2>2. Point \in Nat
    BY <2>1 DEF Point
  <2>3. c \in Z /\ \A t \in Team : base[t] = c
    BY <1>8, <2>1, <2>2
  <2> HIDE DEF c, Z
  <2>4. Total(base, Team) = Cardinality(Team) * c
    BY <2>1, <2>3, TotalConstant DEF Z
  <2>5. Cardinality(Team) \in Nat
    BY <2>1, FS_CardinalityType
  <2>6. Cardinality(Team) * (Initial * Point) = Cardinality(Team) * Initial * Point
    BY <2>1, <2>2, <2>5
  <2> QED BY <2>4, <2>6 DEF c
<1> QED BY <1>1, <1>2, <1>8, <1>11, <1>12 DEF B

-----------------------------------------------------------------------------
(* The games of the loop *)

AllGames == {Dated(g) : g \in Game}

LEMMA GamesOfFacts ==
    ASSUME BInv, NEW S
    PROVE  /\ GamesOf(S) \in Seq(AllGames)
           /\ \A x \in AllGames : IsGame(x) /\ x.at \in Nat
<1> DEFINE list == [g \in Game |-> Dated(g)]
<1>1. list \in Seq(AllGames)
  <2>1. list \in [1 .. Games -> AllGames] /\ Games \in Nat
    BY WalkConstants DEF Game, AllGames
  <2> HIDE DEF list
  <2> QED BY <2>1
<1>2. GamesOf(S) \in Seq(AllGames)
  <2> HIDE DEF list
  <2>1. Kept(list, S) \in Seq(AllGames)
    BY <1>1, KeptFacts
  <2> QED BY <2>1 DEF GamesOf, list
<1>3. ASSUME NEW g \in Game PROVE IsGame(Dated(g)) /\ Dated(g).at \in Nat
  <2>1. setup \in Setups /\ date[g] \in Nat
    BY WalkConstants DEF BInv, IInv, DatesSorted
  <2> QED BY <2>1, SetupConstants DEF Dated, IsGame
<1> QED BY <1>2, <1>3 DEF AllGames

\* The games that an extractor knows, with all that PastOf needs of them.
LEMMA PastFacts ==
    ASSUME NEW X, NEW games \in Seq(X), NEW asOf
    PROVE  /\ Past(games, asOf) \in Seq(X)
           /\ \A team : PastOf(team, games, asOf) \in Seq(X)
<1>1. \A I : Kept(games, I) \in Seq(X)
  BY KeptFacts
<1> QED BY <1>1 DEF Past, PastOf

\* Who won all its games that are known has the full form and no less than the
\* rating it began with.
LEMMA FollowsFacts ==
    ASSUME Differences = Int, NEW X, NEW games \in Seq(X), NEW asOf,
           \A x \in X : IsGame(x), NEW sport \in Rated, NEW t \in Team,
           PastOf(t, games, asOf) # <<>>,
           \A i \in DOMAIN PastOf(t, games, asOf) : Won(t, PastOf(t, games, asOf)[i])
    PROVE  /\ RecentForm(t, games, asOf)[1] = RecentForm(t, games, asOf)[2]
           /\ RatingsAfter(sport, Past(games, asOf))[t] >= Initial * Point
<1> DEFINE prior == PastOf(t, games, asOf)
           from == Larger(1, Len(prior) - FormWindow + 1)
           recent == SubSeq(prior, from, Len(prior))
           won == {i \in DOMAIN recent : Won(t, recent[i])}
           past == Past(games, asOf)
<1>1. prior \in Seq(X) /\ past \in Seq(X) /\ prior # <<>>
      /\ \A i \in DOMAIN prior : Won(t, prior[i])
  BY PastFacts
<1>2. RecentForm(t, games, asOf) = <<Cardinality(won), Len(recent)>>
  BY <1>1 DEF RecentForm
<1> HIDE DEF prior
<1>3. from \in 1 .. Len(prior)
  <2>1. Len(prior) \in Nat \ {0}
    BY <1>1
  <2>2. FormWindow \in Nat \ {0}
    BY FeatureConstants
  <2> QED BY <2>1, <2>2 DEF Larger
<1> HIDE DEF from
<1>4. recent \in Seq(X) /\ \A i \in DOMAIN recent : Won(t, recent[i])
  <2>1. DOMAIN recent = 1 .. (Len(prior) - from + 1) /\ DOMAIN prior = 1 .. Len(prior)
    BY <1>1, <1>3
  <2>2. \A i \in DOMAIN recent : recent[i] = prior[from + i - 1]
    BY <1>1, <1>3
  <2>3. \A i \in DOMAIN recent : from + i - 1 \in DOMAIN prior
    BY <1>1, <1>3, <2>1
  <2> HIDE DEF recent
  <2>4. \A i \in DOMAIN recent : Won(t, recent[i])
    BY <1>1, <2>2, <2>3
  <2>5. SubSeq(prior, from, Len(prior)) \in Seq(X)
    BY <1>1, <1>3
  <2> QED BY <2>4, <2>5 DEF recent
<1> HIDE DEF recent
<1>5. Cardinality(won) = Len(recent)
  <2>1. won = 1 .. Len(recent) /\ Len(recent) \in Nat
    BY <1>4
  <2> HIDE DEF won
  <2>2. Cardinality(1 .. Len(recent)) = Len(recent)
    <3> DEFINE n == Len(recent)
    <3> HIDE DEF n
    <3>1. n \in Nat
      BY <2>1 DEF n
    <3>2. Cardinality(1 .. n) = IF 1 > n THEN 0 ELSE n - 1 + 1
      BY <3>1, FS_Interval
    <3>3. Cardinality(1 .. n) = n
      BY <3>1, <3>2
    <3> QED BY <3>3 DEF n
  <2> QED BY <2>1, <2>2
<1>6. \A i \in DOMAIN past : IsGame(past[i])
  BY <1>1
<1>7. ASSUME NEW i \in DOMAIN past, Plays(t, past[i]) PROVE Won(t, past[i])
  <2> DEFINE I == {j \in DOMAIN games : games[j].at < asOf}
             J == {j \in DOMAIN games :
                      games[j].at < asOf /\ t \in {games[j].home, games[j].away}}
  <2>1. past = Kept(games, I) /\ prior = Kept(games, J)
    BY DEF Past, PastOf, prior
  <2>2. PICK j \in DOMAIN games : j \in I /\ past[i] = games[j]
    <3> HIDE DEF I, J
    <3>1. \A k \in DOMAIN Kept(games, I) :
             \E j \in DOMAIN games : j \in I /\ Kept(games, I)[k] = games[j]
      BY KeptFacts
    <3> HIDE DEF past
    <3> QED BY <2>1, <3>1, <1>7
  <2>3. j \in J
    BY <1>7, <2>2 DEF Plays
  <2>4. PICK k \in DOMAIN prior : prior[k] = games[j]
    <3> HIDE DEF I, J
    <3>1. \E k \in DOMAIN Kept(games, J) : Kept(games, J)[k] = games[j]
      BY <2>3, KeptAt
    <3> QED BY <2>1, <3>1
  <2> QED BY <1>1, <2>2, <2>4
<1> HIDE DEF past
<1>8. RatingsAfter(sport, past)[t] >= Initial * Point
  BY <1>1, <1>6, <1>7, RatingsFacts
<1> QED BY <1>2, <1>5, <1>8 DEF past

-----------------------------------------------------------------------------
(* Estimates *)

\* An estimate whose weights are no probabilities of something else: none of them
\* is negative, and they sum to a positive total.
Weighs(e) ==
    /\ e.home \in Nat /\ e.away \in Nat /\ e.draw \in Nat \union {Absent}
    /\ e.total \in Nat \ {0} /\ e.home + e.away + Or(e.draw, 0) = e.total

LEMMA ExpectedFacts ==
    ASSUME Differences = Int, NEW u \in Int, NEW v \in Int
    PROVE  Expected(u, v) \in 0 .. One
<1> DEFINE q == (u - v) \div Point
<1>1. One \in Nat \ {0}
  BY FeatureConstants
<1>2. Point \in Nat \ {0}
  BY <1>1 DEF Point
<1>3. q \in Int
  BY <1>2
<1>4. Expected(u, v) = Logistic(q)
  BY DEF Expected
<1> HIDE DEF q
<1> QED BY <1>3, <1>4, FeatureConstants

LEMMA EloFacts ==
    ASSUME Differences = Int, NEW f, f.homeElo \in Int, f.awayElo \in Int
    PROVE  Weighs(EloEstimate(f)) /\ EloEstimate(f).draw = Absent
           /\ EloEstimate(f).home \in 0 .. One
<1> DEFINE u == f.homeElo + NFL.advantage * Point
           home == Expected(u, f.awayElo)
<1>1. One \in Nat \ {0} /\ Absent \notin Int
  BY FeatureConstants
<1>2. u \in Int
  BY <1>1 DEF Point, NFL
<1>3. EloEstimate(f) = Estimate(home, One - home, Absent, One)
  BY DEF EloEstimate
<1> HIDE DEF u
<1>4. home \in 0 .. One
  BY <1>2, ExpectedFacts
<1> HIDE DEF home
<1> QED BY <1>1, <1>3, <1>4 DEF Weighs, Estimate, Or

LEMMA ClassifierFacts ==
    ASSUME NEW classes, NEW e \in ClassifierEstimates(classes)
    PROVE  Weighs(e) /\ e.home \in 0 .. One
<1>1. One \in Nat \ {0} /\ Absent \notin Int /\ Guess \subseteq 0 .. One
  BY FeatureConstants, EstimateConstants
<1>2. PICK p \in Guess \X Guess \X Guess :
         /\ p[1] + p[2] + p[3] = One /\ (p[3] > 0 <=> "draw" \in classes)
         /\ e = Estimate(p[1], p[2], IF "draw" \in classes THEN p[3] ELSE Absent, One)
  BY DEF ClassifierEstimates
<1>3. p[1] \in 0 .. One /\ p[2] \in 0 .. One /\ p[3] \in 0 .. One
  BY <1>1
<1>4. CASE "draw" \in classes
  <2>1. e = Estimate(p[1], p[2], p[3], One)
    BY <1>2, <1>4
  <2> QED BY <1>1, <1>2, <1>3, <2>1 DEF Weighs, Estimate, Or
<1>5. CASE "draw" \notin classes
  <2>1. e = Estimate(p[1], p[2], Absent, One) /\ p[3] = 0
    BY <1>2, <1>3, <1>5
  <2> QED BY <1>1, <1>2, <1>3, <2>1 DEF Weighs, Estimate, Or
<1> QED BY <1>4, <1>5

LEMMA QuantileFacts == ASSUME NEW e \in QuantileEstimates PROVE Weighs(e)
<1>1. One \in Nat \ {0} /\ Absent \notin Int /\ Guess \subseteq 0 .. One
  BY FeatureConstants, EstimateConstants
<1>2. PICK h \in Guess : e = Estimate(h, One - h, Absent, One)
  BY DEF QuantileEstimates
<1> QED BY <1>1, <1>2 DEF Weighs, Estimate, Or

LEMMA EnsembleFacts ==
    ASSUME NEW elo, elo.home \in 0 .. One, NEW classifiers,
           \A c \in classifiers : c.home \in 0 .. One,
           NEW e \in EnsembleEstimates(elo, classifiers)
    PROVE  Weighs(e)
<1>1. One \in Nat \ {0} /\ Absent \notin Int
  BY FeatureConstants
<1>2. PICK c \in classifiers :
         e = Estimate((elo.home + c.home) \div 2, One - (elo.home + c.home) \div 2, Absent, One)
  BY DEF EnsembleEstimates
<1> DEFINE h == (elo.home + c.home) \div 2
<1>3. h \in 0 .. One
  BY <1>1
<1>4. e = Estimate(h, One - h, Absent, One)
  BY <1>2
<1> HIDE DEF h
<1> QED BY <1>1, <1>3, <1>4 DEF Weighs, Estimate, Or

\* Whatever the calibrator answers, what CalibratedModel makes of it is an estimate.
LEMMA CalibrateFacts ==
    ASSUME NEW raw, Weighs(raw), NEW home \in Guess
    PROVE  IsDistribution(Calibrate(raw, home))
<1> DEFINE rest == raw.away + raw.draw
<1>1. One \in Nat \ {0} /\ Absent \notin Int /\ home \in 0 .. One
  BY FeatureConstants, EstimateConstants
<1>2. CASE raw.draw = Absent
  <2>1. Calibrate(raw, home) = Estimate(home, One - home, Absent, One)
    BY <1>2 DEF Calibrate
  <2> QED BY <1>1, <2>1 DEF IsDistribution, Estimate, Or
<1>3. CASE raw.draw # Absent /\ rest = 0
  <2>1. Calibrate(raw, home) = Estimate(2 * home, One - home, One - home, 2 * One)
    BY <1>3 DEF Calibrate
  <2> QED BY <1>1, <2>1 DEF IsDistribution, Estimate, Or
<1>4. CASE raw.draw # Absent /\ rest # 0
  <2> DEFINE x == raw.away
             y == raw.draw
             a == home * rest
             b == (One - home) * x
             c == (One - home) * y
             d == One * rest
  <2>1. Calibrate(raw, home) = Estimate(a, b, c, d)
    BY <1>4 DEF Calibrate
  <2>2. x \in Nat /\ y \in Nat /\ rest = x + y
    BY <1>4 DEF Weighs
  <2> HIDE DEF x, y
  <2>3. rest \in Nat \ {0}
    BY <1>4, <2>2
  <2>4. a + b + c = d
    BY <1>1, <2>2
  <2>5. d \in Nat /\ d > 0
    BY <1>1, <2>3
  <2>6. a \in Int /\ b \in Int /\ c \in Int
    BY <1>1, <2>2
  <2> HIDE DEF a, b, c, d
  <2> QED BY <1>1, <2>1, <2>4, <2>5, <2>6 DEF IsDistribution, Estimate, Or
<1> QED BY <1>2, <1>3, <1>4

-----------------------------------------------------------------------------
(* PoissonModel *)

PowerDefined(base) ==
    /\ \A n \in 0 .. 2 * MaxGoals : Power(base, n) \in Nat
    /\ Power(base, 0) = 1
    /\ \A n \in 1 .. 2 * MaxGoals : Power(base, n) = base * Power(base, n - 1)

LEMMA PowerFacts == ASSUME NEW base \in Nat PROVE PowerDefined(base)
<1> DEFINE m == 2 * MaxGoals
           next(f, n) == IF n = 0 THEN 1 ELSE base * f[n - 1]
           f == CHOOSE v : v = [n \in 0 .. m |-> next(v, n)]
           B == Nat
           h == [p \in (1 .. m) \X B |-> base * p[2]]
<1>1. m \in Nat
  BY EstimateConstants
<1>2. \A n : Power(base, n) = f[n]
  BY DEF Power, Powers
<1> HIDE DEF m
<1>3. 1 \in B /\ StepsIn(h, 1 .. m, B)
  BY DEF StepsIn
<1>4. PICK v : /\ v \in [0 .. m -> B] /\ v[0] = 1
               /\ \A k \in 1 .. m : v[k] = h[<<k, v[k - 1]>>]
  <2> HIDE DEF h, B
  <2> QED BY <1>1, <1>3, RecursionExists
<1>5. \A k \in 1 .. m : v[k] = base * v[k - 1]
  <2> SUFFICES ASSUME NEW k \in 1 .. m PROVE v[k] = base * v[k - 1]
    OBVIOUS
  <2>1. k - 1 \in 0 .. m
    BY <1>1
  <2>2. v[k - 1] \in Nat
    BY <1>4, <2>1
  <2> QED BY <1>4, <2>2
<1>6. v = [n \in 0 .. m |-> next(v, n)]
  <2>1. ASSUME NEW n \in 0 .. m PROVE v[n] = next(v, n)
    BY <1>1, <1>4, <1>5
  <2> HIDE DEF next, h
  <2> QED BY <1>4, <2>1
<1>7. f = [n \in 0 .. m |-> next(f, n)]
  <2> HIDE DEF next, h
  <2> QED BY <1>6
<1> HIDE DEF f, h
<1>8. f[0] = 1 /\ \A n \in 1 .. m : f[n] = base * f[n - 1]
  BY <1>1, <1>7
<1>9. \A n \in 0 .. m : f[n] \in Nat
  <2> DEFINE Good == {n \in 0 .. m : f[n] \in Nat}
  <2>1. 0 \in Good
    BY <1>1, <1>8
  <2>2. \A k \in 1 .. m : k - 1 \in Good => k \in Good
    BY <1>1, <1>8
  <2> HIDE DEF Good
  <2>3. \A k \in 0 .. m : k \in Good
    BY <1>1, <2>1, <2>2, CountInduction
  <2> QED BY <2>3 DEF Good
<1> QED BY <1>2, <1>8, <1>9 DEF PowerDefined, m

LEMMA PowerPositive ==
    ASSUME NEW base \in Nat \ {0}, NEW n \in 0 .. 2 * MaxGoals PROVE Power(base, n) > 0
<1> DEFINE m == 2 * MaxGoals
           Good == {k \in 0 .. m : Power(base, k) > 0}
<1>1. m \in Nat /\ PowerDefined(base)
  BY PowerFacts, EstimateConstants
<1>2. 0 \in Good
  BY <1>1 DEF PowerDefined
<1>3. ASSUME NEW k \in 1 .. m, k - 1 \in Good PROVE k \in Good
  <2> DEFINE p == Power(base, k - 1)
  <2>1. k - 1 \in 0 .. m /\ k \in 0 .. m
    BY <1>1
  <2>2. p \in Nat /\ p > 0 /\ Power(base, k) = base * p
    BY <1>1, <1>3, <2>1 DEF PowerDefined
  <2> HIDE DEF p
  <2>3. base * p > 0
    BY <2>2
  <2> QED BY <2>1, <2>2, <2>3
<1> HIDE DEF Good, m
<1>4. \A k \in 0 .. m : k \in Good
  BY <1>1, <1>2, <1>3, CountInduction
<1> QED BY <1>4 DEF Good, m

LEMMA FallingFacts ==
    /\ \A i \in 0 .. MaxGoals : Falling[i] \in Nat \ {0}
    /\ \A i \in 0 .. MaxGoals - 1 : Falling[i] = (i + 1) * Falling[i + 1]
<1> DEFINE m == MaxGoals
           next(f, i) == IF i = m THEN 1 ELSE (i + 1) * f[i + 1]
           f == CHOOSE v : v = [i \in 0 .. m |-> next(v, i)]
           B == Nat \ {0}
           h == [p \in (1 .. m) \X B |-> (m - p[1] + 1) * p[2]]
<1>1. m \in Nat \ {0}
  BY EstimateConstants
<1>2. Falling = f
  BY DEF Falling
<1> HIDE DEF m
<1>3. 1 \in B /\ StepsIn(h, 1 .. m, B)
  <2>1. ASSUME NEW x \in 1 .. m, NEW b \in B PROVE h[<<x, b>>] \in B
    <3>1. h[<<x, b>>] = (m - x + 1) * b
      OBVIOUS
    <3>2. m - x + 1 \in Nat \ {0} /\ b \in Nat \ {0}
      BY <1>1
    <3>3. (m - x + 1) * b \in Nat \ {0}
      <4> DEFINE c == m - x + 1
      <4> HIDE DEF c
      <4>1. c * b \in Nat \ {0}
        BY <3>2 DEF c
      <4> QED BY <4>1 DEF c
    <3> HIDE DEF h
    <3> QED BY <3>1, <3>3
  <2> HIDE DEF h, B
  <2>2. 1 \in B
    BY DEF B
  <2> QED BY <2>1, <2>2 DEF StepsIn
<1>4. PICK v : /\ v \in [0 .. m -> B] /\ v[0] = 1
               /\ \A k \in 1 .. m : v[k] = h[<<k, v[k - 1]>>]
  <2> HIDE DEF h, B
  <2> QED BY <1>1, <1>3, RecursionExists
<1>5. \A k \in 1 .. m : v[k] = (m - k + 1) * v[k - 1]
  <2> SUFFICES ASSUME NEW k \in 1 .. m PROVE v[k] = (m - k + 1) * v[k - 1]
    OBVIOUS
  <2>1. k - 1 \in 0 .. m
    BY <1>1
  <2>2. v[k - 1] \in B
    BY <1>4, <2>1
  <2> QED BY <1>4, <2>2
<1> DEFINE w == [i \in 0 .. m |-> v[m - i]]
<1>6. w = [i \in 0 .. m |-> next(w, i)]
  <2>1. ASSUME NEW i \in 0 .. m PROVE w[i] = next(w, i)
    <3>1. CASE i = m
      <4>1. m - i = 0
        BY <1>1, <3>1
      <4> QED BY <1>4, <3>1, <4>1
    <3>2. CASE i # m
      <4>1. m - i \in 1 .. m /\ i + 1 \in 0 .. m /\ (m - i) - 1 = m - (i + 1)
            /\ m - (m - i) + 1 = i + 1
        BY <1>1, <3>2
      <4>2. v[m - i] = (m - (m - i) + 1) * v[(m - i) - 1]
        BY <1>5, <4>1
      <4>3. w[i] = v[m - i] /\ w[i + 1] = v[m - (i + 1)]
        BY <4>1
      <4> HIDE DEF w
      <4> QED BY <3>2, <4>1, <4>2, <4>3
    <3> QED BY <3>1, <3>2
  <2>2. w = [i \in 0 .. m |-> w[i]]
    OBVIOUS
  <2> HIDE DEF next, h, w
  <2> QED BY <2>1, <2>2
<1>7. f = [i \in 0 .. m |-> next(f, i)]
  <2> HIDE DEF next, h, w
  <2> QED BY <1>6
<1> HIDE DEF f, h, w
<1>8. f[m] = 1 /\ \A i \in 0 .. m - 1 : f[i] = (i + 1) * f[i + 1]
  <2>1. \A i \in 0 .. m - 1 : i \in 0 .. m /\ i # m
    BY <1>1
  <2>2. m \in 0 .. m
    BY <1>1
  <2> QED BY <1>7, <2>1, <2>2
<1>9. \A i \in 0 .. m : f[i] \in Nat \ {0}
  <2> DEFINE Good == {k \in 0 .. m : f[m - k] \in Nat \ {0}}
  <2>1. 0 \in Good
    <3>1. m - 0 = m /\ 0 \in 0 .. m
      BY <1>1
    <3> QED BY <1>8, <3>1
  <2>2. ASSUME NEW k \in 1 .. m, k - 1 \in Good PROVE k \in Good
    <3> DEFINE i == m - k
    <3>1. i \in 0 .. m - 1 /\ k \in 0 .. m /\ m - (k - 1) = i + 1
      BY <1>1
    <3>2. f[i + 1] \in Nat \ {0}
      BY <2>2, <3>1
    <3>3. f[i] = (i + 1) * f[i + 1] /\ i + 1 \in Nat \ {0}
      BY <1>8, <3>1
    <3>4. f[i] \in Nat \ {0}
      <4> DEFINE c == i + 1
                 d == f[c]
      <4>1. c \in Nat \ {0} /\ d \in Nat \ {0} /\ f[i] = c * d
        BY <3>2, <3>3
      <4> HIDE DEF c, d
      <4>2. c * d \in Nat \ {0}
        BY <4>1
      <4> QED BY <4>1, <4>2
    <3> QED BY <3>1, <3>4
  <2> HIDE DEF Good
  <2>3. \A k \in 0 .. m : k \in Good
    BY <1>1, <2>1, <2>2, CountInduction
  <2>4. \A i \in 0 .. m : m - i \in 0 .. m /\ m - (m - i) = i
    BY <1>1
  <2> QED BY <2>3, <2>4 DEF Good
<1> QED BY <1>2, <1>8, <1>9 DEF m

\* Neighbouring scores weigh as the rates do.
LEMMA PureFacts ==
    ASSUME NEW h \in Nat, NEW a \in Nat
    PROVE  /\ \A i, j \in Goals : Pure(h, a, i, j) \in Nat
           /\ Pure(h, a, 0, 0) > 0
           /\ LambdaUnit * Pure(h, a, 0, 1) = a * Pure(h, a, 0, 0)
           /\ LambdaUnit * Pure(h, a, 1, 0) = h * Pure(h, a, 0, 0)
           /\ LambdaUnit * Pure(h, a, 1, 1) = a * Pure(h, a, 1, 0)
           /\ LambdaUnit * Pure(h, a, 1, 1) = h * Pure(h, a, 0, 1)
<1> DEFINE m == 2 * MaxGoals
           l == LambdaUnit
           x == Power(l, m - 2)
           y == Falling[1]
<1>1. /\ m \in Nat /\ m >= 2 /\ l \in Nat \ {0} /\ MaxGoals \in Nat \ {0}
      /\ 0 \in Goals /\ 1 \in Goals
  BY EstimateConstants DEF Goals
<1>2. PowerDefined(h) /\ PowerDefined(a) /\ PowerDefined(l)
  BY <1>1, PowerFacts
<1>3. ASSUME NEW i \in Goals, NEW j \in Goals PROVE Pure(h, a, i, j) \in Nat
  <2> DEFINE p == Power(h, i)
             q == Power(a, j)
             r == Power(l, m - i - j)
             s == Falling[i]
             t == Falling[j]
  <2>1. i \in 0 .. m /\ j \in 0 .. m /\ m - i - j \in 0 .. m /\ i \in 0 .. MaxGoals
        /\ j \in 0 .. MaxGoals
    BY <1>1 DEF Goals
  <2>2. p \in Nat /\ q \in Nat /\ r \in Nat /\ s \in Nat /\ t \in Nat
    BY <1>2, <2>1, FallingFacts DEF PowerDefined
  <2>3. Pure(h, a, i, j) = p * q * r * s * t
    BY DEF Pure
  <2> HIDE DEF p, q, r, s, t
  <2> QED BY <2>2, <2>3
<1>4. Falling[0] = y /\ y \in Nat \ {0}
  <2>1. 0 \in 0 .. MaxGoals - 1 /\ 0 + 1 = 1 /\ 1 \in 0 .. MaxGoals
    BY <1>1
  <2>2. Falling[0] = (0 + 1) * Falling[0 + 1] /\ Falling[1] \in Nat \ {0}
    BY <2>1, FallingFacts
  <2> QED BY <2>1, <2>2
<1>5. /\ Power(h, 0) = 1 /\ Power(a, 0) = 1 /\ Power(h, 1) = h /\ Power(a, 1) = a
  <2>1. 1 \in 1 .. m /\ 1 - 1 = 0
    BY <1>1
  <2> QED BY <1>2, <2>1 DEF PowerDefined
<1>6. /\ Power(l, m) = l * l * x /\ Power(l, m - 1) = l * x /\ x \in Nat \ {0}
  <2>1. m - 1 \in 1 .. m /\ m \in 1 .. m /\ (m - 1) - 1 = m - 2 /\ m - 2 \in 0 .. m
    BY <1>1
  <2>2. Power(l, m) = l * Power(l, m - 1) /\ Power(l, m - 1) = l * Power(l, m - 2)
    <3> HIDE DEF m, l
    <3> QED BY <1>2, <2>1 DEF PowerDefined, m
  <2>3. x \in Nat /\ x > 0
    BY <1>1, <1>2, <2>1, PowerPositive DEF PowerDefined
  <2> HIDE DEF m, l, x
  <2>4. l * (l * x) = l * l * x
    BY <1>1, <2>3
  <2> QED BY <2>2, <2>3, <2>4 DEF x
<1>7. m - 0 - 0 = m /\ m - 0 - 1 = m - 1 /\ m - 1 - 0 = m - 1 /\ m - 1 - 1 = m - 2
  BY <1>1
<1>8. /\ Pure(h, a, 0, 0) = 1 * 1 * (l * l * x) * y * y
      /\ Pure(h, a, 0, 1) = 1 * a * (l * x) * y * y
      /\ Pure(h, a, 1, 0) = h * 1 * (l * x) * y * y
      /\ Pure(h, a, 1, 1) = h * a * x * y * y
  BY <1>4, <1>5, <1>6, <1>7 DEF Pure
<1> HIDE DEF m, l, x, y
<1>9. l * l * x * y * y > 0
  <2>1. \A u, v \in Nat \ {0} : u * v \in Nat \ {0}
    OBVIOUS
  <2>2. l * l \in Nat \ {0}
    BY <1>1, <2>1
  <2>3. l * l * x \in Nat \ {0}
    BY <1>6, <2>1, <2>2
  <2>4. l * l * x * y \in Nat \ {0}
    BY <1>4, <2>1, <2>3
  <2>5. l * l * x * y * y \in Nat \ {0}
    BY <1>4, <2>1, <2>4
  <2> QED BY <2>5
<1>10. Pure(h, a, 0, 0) > 0
  BY <1>1, <1>4, <1>6, <1>8, <1>9
<1>11. l * Pure(h, a, 0, 1) = a * Pure(h, a, 0, 0)
  BY <1>1, <1>4, <1>6, <1>8
<1>12. l * Pure(h, a, 1, 0) = h * Pure(h, a, 0, 0)
  BY <1>1, <1>4, <1>6, <1>8
<1>13. l * Pure(h, a, 1, 1) = a * Pure(h, a, 1, 0)
  BY <1>1, <1>4, <1>6, <1>8
<1>14. l * Pure(h, a, 1, 1) = h * Pure(h, a, 0, 1)
  BY <1>1, <1>4, <1>6, <1>8
<1> QED BY <1>3, <1>10, <1>11, <1>12, <1>13, <1>14 DEF l

LEMMA CorrectionType ==
    ASSUME NEW h \in Nat, NEW a \in Nat, NEW i \in Goals, NEW j \in Goals
    PROVE  Correction(h, a, i, j) \in Int /\ CorrectionUnit \in Nat \ {0}
<1> DEFINE l == LambdaUnit
           u == CorrectionUnit
           p == h * a * Rho
           q == -l * a * Rho
           r == -l * h * Rho
           s == l * l * Rho
<1>1. /\ l \in Nat \ {0} /\ RhoUnit \in Nat \ {0} /\ Rho \in Nat /\ i \in Int /\ j \in Int
  BY EstimateConstants DEF Goals
<1>2. u \in Nat \ {0}
  <2>1. l * l \in Nat \ {0}
    BY <1>1
  <2>2. \A x, y \in Nat \ {0} : x * y \in Nat \ {0}
    OBVIOUS
  <2> HIDE DEF l
  <2>3. l * l * RhoUnit \in Nat \ {0}
    BY <1>1, <2>1, <2>2
  <2> QED BY <2>3 DEF CorrectionUnit, l
<1>3. p \in Int /\ q \in Int /\ r \in Int /\ s \in Int
  BY <1>1
<1>4. Correction(h, a, i, j) = u + (CASE i = 0 /\ j = 0 -> p
                                      [] i = 1 /\ j = 0 -> q
                                      [] i = 0 /\ j = 1 -> r
                                      [] i = 1 /\ j = 1 -> s
                                      [] OTHER -> 0)
  BY DEF Correction
<1> HIDE DEF u, p, q, r, s
<1>5. Correction(h, a, i, j) \in {u + p, u + q, u + r, u + s, u + 0}
  <2>1. CASE i = 0 /\ j = 0
    BY <1>4, <2>1
  <2>2. CASE i = 1 /\ j = 0
    BY <1>4, <2>2
  <2>3. CASE i = 0 /\ j = 1
    BY <1>4, <2>3
  <2>4. CASE i = 1 /\ j = 1
    BY <1>4, <2>4
  <2>5. CASE i \notin {0, 1} \/ j \notin {0, 1}
    BY <1>4, <2>5
  <2> QED BY <2>1, <2>2, <2>3, <2>4, <2>5
<1> QED BY <1>2, <1>3, <1>5 DEF u

LEMMA ScoreFacts ==
    ASSUME NEW h \in Nat, NEW a \in Nat
    PROVE  /\ \A i, j \in Goals : Score(h, a, i, j) \in Nat
           /\ Score(h, a, 0, 0) > 0
<1>1. ASSUME NEW i \in Goals, NEW j \in Goals PROVE Score(h, a, i, j) \in Nat
  <2> DEFINE p == Pure(h, a, i, j)
             q == Larger(0, Correction(h, a, i, j))
  <2>1. p \in Nat
    BY PureFacts
  <2>2. q \in Nat
    BY CorrectionType DEF Larger
  <2>3. Score(h, a, i, j) = p * q
    BY DEF Score
  <2> HIDE DEF p, q
  <2> QED BY <2>1, <2>2, <2>3
<1>2. Score(h, a, 0, 0) > 0
  <2> DEFINE p == Pure(h, a, 0, 0)
             c == h * a * Rho
             q == Larger(0, CorrectionUnit + c)
  <2>1. p \in Nat \ {0}
    <3>1. 0 \in Goals
      BY EstimateConstants DEF Goals
    <3> QED BY <3>1, PureFacts
  <2>2. Correction(h, a, 0, 0) = CorrectionUnit + c
    BY DEF Correction
  <2>3. c \in Nat
    BY EstimateConstants
  <2>4. CorrectionUnit \in Nat \ {0}
    <3>1. 0 \in Goals
      BY EstimateConstants DEF Goals
    <3> QED BY <3>1, CorrectionType
  <2> HIDE DEF c
  <2>5. q \in Nat \ {0}
    BY <2>3, <2>4 DEF Larger
  <2>6. Score(h, a, 0, 0) = p * q
    BY <2>2 DEF Score
  <2> HIDE DEF p, q
  <2> QED BY <2>1, <2>5, <2>6
<1> QED BY <1>1, <1>2

\* What the correction adds to one of two neighbours it takes from the other.
LEMMA LowScores ==
    ASSUME NEW h \in Nat, NEW a \in Nat,
           \A i, j \in {0, 1} : Correction(h, a, i, j) >= 0
    PROVE  LET S(i, j) == Score(h, a, i, j)
               P(i, j) == CorrectionUnit * Pure(h, a, i, j)
           IN  /\ S(0, 0) + S(0, 1) = P(0, 0) + P(0, 1)
               /\ S(1, 0) + S(1, 1) = P(1, 0) + P(1, 1)
               /\ S(0, 0) + S(1, 0) = P(0, 0) + P(1, 0)
               /\ S(0, 1) + S(1, 1) = P(0, 1) + P(1, 1)
<1> DEFINE l == LambdaUnit
           u == CorrectionUnit
           r == Rho
           p00 == Pure(h, a, 0, 0)
           p01 == Pure(h, a, 0, 1)
           p10 == Pure(h, a, 1, 0)
           p11 == Pure(h, a, 1, 1)
<1>1. 0 \in Goals /\ 1 \in Goals /\ l \in Nat /\ r \in Nat
  BY EstimateConstants DEF Goals
<1>2. p00 \in Nat /\ p01 \in Nat /\ p10 \in Nat /\ p11 \in Nat /\ u \in Nat
  BY <1>1, PureFacts, CorrectionType
<1>3. l * p01 = a * p00 /\ l * p10 = h * p00 /\ l * p11 = a * p10 /\ l * p11 = h * p01
  BY PureFacts
<1>4. \A i, j \in {0, 1} : Score(h, a, i, j) = Pure(h, a, i, j) * Correction(h, a, i, j)
  <2> SUFFICES ASSUME NEW i \in {0, 1}, NEW j \in {0, 1}
               PROVE Score(h, a, i, j) = Pure(h, a, i, j) * Correction(h, a, i, j)
    OBVIOUS
  <2>1. Correction(h, a, i, j) >= 0 /\ Correction(h, a, i, j) \in Int
    BY <1>1, CorrectionType
  <2>2. Larger(0, Correction(h, a, i, j)) = Correction(h, a, i, j)
    BY <2>1 DEF Larger
  <2> QED BY <2>2 DEF Score
<1>5. /\ Correction(h, a, 0, 0) = u + h * a * r
      /\ Correction(h, a, 1, 0) = u + (-l * a * r)
      /\ Correction(h, a, 0, 1) = u + (-l * h * r)
      /\ Correction(h, a, 1, 1) = u + l * l * r
  BY DEF Correction
<1> HIDE DEF l, u, r, p00, p01, p10, p11
<1> DEFINE s00 == p00 * (u + h * a * r)
           s10 == p10 * (u + (-l * a * r))
           s01 == p01 * (u + (-l * h * r))
           s11 == p11 * (u + l * l * r)
<1>6. /\ Score(h, a, 0, 0) = s00 /\ Score(h, a, 1, 0) = s10
      /\ Score(h, a, 0, 1) = s01 /\ Score(h, a, 1, 1) = s11
  BY <1>4, <1>5 DEF p00, p01, p10, p11
<1>7. /\ s00 = u * p00 + (h * r) * (a * p00) /\ s00 = u * p00 + (a * r) * (h * p00)
      /\ s01 = u * p01 - (h * r) * (l * p01)
      /\ s10 = u * p10 - (a * r) * (l * p10)
      /\ s11 = u * p11 + (l * r) * (l * p11)
      /\ (l * r) * (a * p10) = (a * r) * (l * p10)
      /\ (l * r) * (h * p01) = (h * r) * (l * p01)
  BY <1>1, <1>2
<1>8. /\ (h * r) * (l * p01) = (h * r) * (a * p00) /\ (a * r) * (l * p10) = (a * r) * (h * p00)
      /\ (l * r) * (l * p11) = (l * r) * (a * p10) /\ (l * r) * (l * p11) = (l * r) * (h * p01)
  BY <1>3
<1> HIDE DEF s00, s01, s10, s11
<1> DEFINE x == (h * r) * (a * p00)
           y == (a * r) * (h * p00)
           z == (l * r) * (l * p11)
<1>9. /\ x \in Int /\ y \in Int /\ z \in Int
      /\ u * p00 \in Int /\ u * p01 \in Int /\ u * p10 \in Int /\ u * p11 \in Int
  BY <1>1, <1>2 DEF x, y, z
<1>10. /\ s00 = u * p00 + x /\ s00 = u * p00 + y /\ s01 = u * p01 - x
       /\ s10 = u * p10 - y /\ s11 = u * p11 + z /\ z = x /\ z = y
  BY <1>7, <1>8
<1> HIDE DEF x, y, z
<1>11. /\ s00 + s01 = u * p00 + u * p01 /\ s10 + s11 = u * p10 + u * p11
       /\ s00 + s10 = u * p00 + u * p10 /\ s01 + s11 = u * p01 + u * p11
  BY <1>9, <1>10
<1> QED BY <1>6, <1>11 DEF u, p00, p01, p10, p11

\* Other scores are not corrected.
LEMMA OtherScores ==
    ASSUME NEW h \in Nat, NEW a \in Nat, NEW i \in Goals, NEW j \in Goals,
           i \notin {0, 1} \/ j \notin {0, 1}
    PROVE  Score(h, a, i, j) = CorrectionUnit * Pure(h, a, i, j)
<1>1. CorrectionUnit \in Nat \ {0} /\ Pure(h, a, i, j) \in Nat
  BY CorrectionType, PureFacts
<1>2. Correction(h, a, i, j) = CorrectionUnit + 0
  BY DEF Correction
<1>3. Larger(0, Correction(h, a, i, j)) = CorrectionUnit
  BY <1>1, <1>2 DEF Larger
<1> DEFINE p == Pure(h, a, i, j)
           u == CorrectionUnit
<1>4. Score(h, a, i, j) = p * u
  BY <1>3 DEF Score
<1> HIDE DEF p, u
<1>5. p * u = u * p
  BY <1>1 DEF p, u
<1> QED BY <1>4, <1>5 DEF p, u

Uncorrected(h, a, cells) ==
    SumFunction([c \in cells |-> CorrectionUnit * Pure(h, a, c[1], c[2])])

\* A line of the matrix, in which two cells at most are low scores.
LEMMA LineFacts ==
    ASSUME NEW h \in Nat, NEW a \in Nat, NEW cells \in SUBSET (Goals \X Goals),
           NEW c \in Goals \X Goals, NEW d \in Goals \X Goals, c # d,
           LET F(x) == Score(h, a, x[1], x[2])
               G(x) == CorrectionUnit * Pure(h, a, x[1], x[2])
           IN  /\ \A x \in cells \ {c, d} : F(x) = G(x)
               /\ \/ c \in cells /\ d \in cells /\ F(c) + F(d) = G(c) + G(d)
                  \/ c \notin cells /\ d \notin cells
    PROVE  Scores(h, a, cells) = Uncorrected(h, a, cells)
<1> DEFINE F == [x \in cells |-> Score(h, a, x[1], x[2])]
           G == [x \in cells |-> CorrectionUnit * Pure(h, a, x[1], x[2])]
<1>1. IsFiniteSet(cells)
  <2>1. IsFiniteSet(Goals)
    BY EstimateConstants, FS_Interval DEF Goals
  <2>2. IsFiniteSet(Goals \X Goals)
    BY <2>1, FS_Product
  <2> QED BY <2>2, FS_Subset
<1>2. Scores(h, a, cells) = Total(F, cells) /\ Uncorrected(h, a, cells) = Total(G, cells)
  <2>1. DOMAIN F = cells /\ DOMAIN G = cells
    OBVIOUS
  <2>2. Scores(h, a, cells) = SumFunction(F) /\ Uncorrected(h, a, cells) = SumFunction(G)
    BY DEF Scores, Uncorrected
  <2> HIDE DEF F, G
  <2>3. SumFunction(F) = Total(F, DOMAIN F) /\ SumFunction(G) = Total(G, DOMAIN G)
    BY SumIsTotal
  <2> QED BY <2>1, <2>2, <2>3
<1>3. IntOn(F, cells) /\ IntOn(G, cells)
  <2>1. \A x \in cells : x[1] \in Goals /\ x[2] \in Goals
    OBVIOUS
  <2>2. \A x \in cells : Score(h, a, x[1], x[2]) \in Int
    BY <2>1, ScoreFacts
  <2>3. \A x \in cells : Pure(h, a, x[1], x[2]) \in Int
    BY <2>1, PureFacts
  <2>4. CorrectionUnit \in Int
    <3>1. 0 \in Goals
      BY EstimateConstants DEF Goals
    <3> QED BY <3>1, CorrectionType
  <2> QED BY <2>2, <2>3, <2>4 DEF IntOn
<1>4. \A x \in cells \ {c, d} : F[x] = G[x]
  OBVIOUS
<1>5. CASE c \in cells /\ d \in cells
  <2>1. F[c] + F[d] = G[c] + G[d]
    BY <1>5
  <2> HIDE DEF F, G
  <2>2. Total(F, cells) = Total(G, cells)
    BY <1>1, <1>3, <1>4, <1>5, <2>1, TotalShift
  <2> QED BY <1>2, <2>2
<1>6. CASE c \notin cells /\ d \notin cells
  <2>1. \A x \in cells : F[x] = G[x]
    BY <1>4, <1>6
  <2> HIDE DEF F, G
  <2> QED BY <1>1, <1>2, <1>3, <2>1, TotalCompare
<1> QED BY <1>5, <1>6

LEMMA MarginalFacts ==
    ASSUME NEW h \in Nat, NEW a \in Nat, NEW n \in Goals,
           \A i, j \in {0, 1} : Correction(h, a, i, j) >= 0
    PROVE  /\ Scores(h, a, {n} \X Goals) = Uncorrected(h, a, {n} \X Goals)
           /\ Scores(h, a, Goals \X {n}) = Uncorrected(h, a, Goals \X {n})
<1> DEFINE F(x) == Score(h, a, x[1], x[2])
           G(x) == CorrectionUnit * Pure(h, a, x[1], x[2])
           b == IF n \in {0, 1} THEN n ELSE 0
           row == {n} \X Goals
           column == Goals \X {n}
<1>1. 0 \in Goals /\ 1 \in Goals /\ b \in {0, 1}
  BY EstimateConstants DEF Goals
<1>2. \A x \in Goals \X Goals : x[1] \notin {0, 1} \/ x[2] \notin {0, 1} => F(x) = G(x)
  BY OtherScores
<1>3. /\ F(<<b, 0>>) + F(<<b, 1>>) = G(<<b, 0>>) + G(<<b, 1>>)
      /\ F(<<0, b>>) + F(<<1, b>>) = G(<<0, b>>) + G(<<1, b>>)
  <2>1. CASE b = 0
    BY <2>1, LowScores
  <2>2. CASE b = 1
    BY <2>2, LowScores
  <2> QED BY <1>1, <2>1, <2>2
<1>4. /\ row \in SUBSET (Goals \X Goals) /\ column \in SUBSET (Goals \X Goals)
      /\ <<b, 0>> \in Goals \X Goals /\ <<b, 1>> \in Goals \X Goals
      /\ <<0, b>> \in Goals \X Goals /\ <<1, b>> \in Goals \X Goals
  BY <1>1
<1>5. /\ n \in {0, 1} => /\ <<b, 0>> \in row /\ <<b, 1>> \in row
                         /\ <<0, b>> \in column /\ <<1, b>> \in column
      /\ n \notin {0, 1} => /\ <<b, 0>> \notin row /\ <<b, 1>> \notin row
                            /\ <<0, b>> \notin column /\ <<1, b>> \notin column
  BY <1>1
<1>6. \A x \in row \ {<<b, 0>>, <<b, 1>>} : F(x) = G(x)
  <2> SUFFICES ASSUME NEW x \in row, x # <<b, 0>>, x # <<b, 1>> PROVE F(x) = G(x)
    OBVIOUS
  <2>1. x \in Goals \X Goals /\ x[1] = n /\ x = <<x[1], x[2]>>
    OBVIOUS
  <2>2. x[1] \notin {0, 1} \/ x[2] \notin {0, 1}
    BY <2>1
  <2> QED BY <1>2, <2>1, <2>2
<1>7. \A x \in column \ {<<0, b>>, <<1, b>>} : F(x) = G(x)
  <2> SUFFICES ASSUME NEW x \in column, x # <<0, b>>, x # <<1, b>> PROVE F(x) = G(x)
    OBVIOUS
  <2>1. x \in Goals \X Goals /\ x[2] = n /\ x = <<x[1], x[2]>>
    OBVIOUS
  <2>2. x[1] \notin {0, 1} \/ x[2] \notin {0, 1}
    BY <2>1
  <2> QED BY <1>2, <2>1, <2>2
<1>8. <<b, 0>> # <<b, 1>> /\ <<0, b>> # <<1, b>>
  OBVIOUS
<1> HIDE DEF b, row, column
<1>9. Scores(h, a, row) = Uncorrected(h, a, row)
  BY <1>3, <1>4, <1>5, <1>6, <1>8, LineFacts
<1>10. Scores(h, a, column) = Uncorrected(h, a, column)
  BY <1>3, <1>4, <1>5, <1>7, <1>8, LineFacts
<1> QED BY <1>9, <1>10 DEF row, column

LEMMA ScoresTotal ==
    ASSUME NEW h \in Nat, NEW a \in Nat, NEW cells \in SUBSET (Goals \X Goals),
           NEW F, F = [x \in Goals \X Goals |-> Score(h, a, x[1], x[2])]
    PROVE  /\ Scores(h, a, cells) = Total(F, cells) /\ Total(F, cells) \in Nat
           /\ IsFiniteSet(cells) /\ IntOn(F, cells)
<1> DEFINE G == [x \in cells |-> Score(h, a, x[1], x[2])]
<1>1. IsFiniteSet(cells)
  <2>1. IsFiniteSet(Goals)
    BY EstimateConstants, FS_Interval DEF Goals
  <2>2. IsFiniteSet(Goals \X Goals)
    BY <2>1, FS_Product
  <2> QED BY <2>2, FS_Subset
<1>2. \A x \in cells : F[x] \in Nat /\ F[x] \in Int /\ G[x] \in Int /\ G[x] = F[x]
  <2> SUFFICES ASSUME NEW x \in cells PROVE F[x] \in Nat /\ G[x] = F[x]
    OBVIOUS
  <2>1. x \in Goals \X Goals /\ x[1] \in Goals /\ x[2] \in Goals
    OBVIOUS
  <2>2. Score(h, a, x[1], x[2]) \in Nat
    BY <2>1, ScoreFacts
  <2> QED BY <2>1, <2>2
<1>3. Scores(h, a, cells) = SumFunction(G) /\ DOMAIN G = cells
  BY DEF Scores
<1> HIDE DEF G
<1>4. IntOn(F, cells) /\ IntOn(G, cells)
  BY <1>2, Zenon DEF IntOn
<1>5. SumFunction(G) = Total(G, DOMAIN G)
  BY SumIsTotal
<1>6. Total(G, cells) = Total(F, cells)
  BY <1>1, <1>2, <1>4, TotalCompare
<1>7. Total(F, cells) \in Nat
  BY <1>1, <1>2, TotalNat
<1> QED BY <1>1, <1>3, <1>4, <1>5, <1>6, <1>7

\* Home wins, away wins and draws share all the weight of the scores.
LEMMA PoissonFacts == ASSUME NEW h \in Nat, NEW a \in Nat PROVE Weighs(PoissonEstimate(h, a))
<1> DEFINE C == Goals \X Goals
           W == {c \in C : c[1] > c[2]}
           L == {c \in C : c[1] < c[2]}
           D == {c \in C : c[1] = c[2]}
           F == [x \in C |-> Score(h, a, x[1], x[2])]
           o == <<0, 0>>
<1>1. /\ W \in SUBSET C /\ L \in SUBSET C /\ D \in SUBSET C /\ C \in SUBSET C
      /\ (W \union L) \in SUBSET C
  OBVIOUS
<1>2. C = (W \union L) \union D /\ W \intersect L = {} /\ (W \union L) \intersect D = {}
  <2>1. \A c \in C : c[1] \in Int /\ c[2] \in Int
    BY EstimateConstants DEF Goals
  <2> QED BY <2>1
<1>3. o \in C /\ F[o] > 0 /\ C \ {o} \in SUBSET C
  <2>1. 0 \in Goals
    BY EstimateConstants DEF Goals
  <2>2. o \in C /\ F[o] = Score(h, a, 0, 0)
    BY <2>1
  <2> QED BY <2>2, ScoreFacts
<1>4. PoissonEstimate(h, a) =
        Estimate(Scores(h, a, W), Scores(h, a, L), Scores(h, a, D), Scores(h, a, C))
  BY DEF PoissonEstimate
<1>5. F = [x \in Goals \X Goals |-> Score(h, a, x[1], x[2])]
  OBVIOUS
<1>6. C = Goals \X Goals
  OBVIOUS
<1> HIDE DEF C, W, L, D, F, o
<1>7. \A cells \in SUBSET C : /\ Scores(h, a, cells) = Total(F, cells)
                              /\ Total(F, cells) \in Nat
                              /\ IsFiniteSet(cells) /\ IntOn(F, cells)
  BY <1>5, <1>6, ScoresTotal
<1>8. Total(F, C) = Total(F, W \union L) + Total(F, D)
  BY <1>1, <1>2, <1>7, TotalUnion
<1>9. Total(F, W \union L) = Total(F, W) + Total(F, L)
  BY <1>1, <1>2, <1>7, TotalUnion
<1>10. Total(F, C) > 0
  <2>1. Total(F, C) = F[o] + Total(F, C \ {o})
    BY <1>1, <1>3, <1>7, TotalRemove
  <2>2. Total(F, C \ {o}) \in Nat /\ F[o] \in Int
    BY <1>1, <1>3, <1>7 DEF IntOn
  <2> QED BY <1>3, <2>1, <2>2
<1> DEFINE w == Scores(h, a, W)
           l == Scores(h, a, L)
           d == Scores(h, a, D)
           t == Scores(h, a, C)
<1>11. /\ w \in Nat /\ l \in Nat /\ d \in Nat /\ t \in Nat \ {0} /\ w + l + d = t
  BY <1>1, <1>7, <1>8, <1>9, <1>10
<1> HIDE DEF w, l, d, t
<1>12. PoissonEstimate(h, a) = Estimate(w, l, d, t)
  BY <1>4 DEF w, l, d, t
<1>13. Absent \notin Int
  BY FeatureConstants
<1> QED BY <1>11, <1>12, <1>13 DEF Weighs, Estimate, Or

IsQuotient(q) == q[1] \in Nat /\ q[2] \in Nat \ {0}

\* Sums over a list of games.
LEMMA GoalFacts ==
    ASSUME NEW X, NEW games \in Seq(X), \A i \in DOMAIN games : IsGame(games[i])
    PROVE  /\ \A team : /\ Scored(team, games) \in Nat /\ Conceded(team, games) \in Nat
                        /\ Played(team, games) \in Nat
           /\ AllGoals(games) \in Nat
           /\ SumFunction([i \in DOMAIN games |-> games[i].homeScore]) \in Nat
           /\ SumFunction([i \in DOMAIN games |-> games[i].awayScore]) \in Nat
<1> DEFINE S == DOMAIN games
<1>1. IsFiniteSet(S) /\ \A i \in S : games[i].homeScore \in Nat /\ games[i].awayScore \in Nat
  <2>1. S = 1 .. Len(games) /\ Len(games) \in Nat
    OBVIOUS
  <2> DEFINE n == Len(games)
  <2>2. IsFiniteSet(1 .. n)
    <3> HIDE DEF n
    <3>1. n \in Nat
      BY <2>1 DEF n
    <3> QED BY <3>1, FS_Interval
  <2> QED BY <2>1, <2>2 DEF IsGame
<1>2. ASSUME NEW F, DOMAIN F = S, \A i \in S : F[i] \in Nat PROVE SumFunction(F) \in Nat
  <2> HIDE DEF S
  <2>1. SumFunction(F) = Total(F, DOMAIN F)
    BY SumIsTotal
  <2>2. Total(F, S) \in Nat
    BY <1>1, <1>2, TotalNat
  <2> QED BY <1>2, <2>1, <2>2
<1>3. ASSUME NEW team PROVE Scored(team, games) \in Nat
  <2> DEFINE F == [i \in S |-> (IF team = games[i].home THEN games[i].homeScore ELSE 0)
                             + (IF team = games[i].away THEN games[i].awayScore ELSE 0)]
  <2>1. DOMAIN F = S /\ \A i \in S : F[i] \in Nat
    BY <1>1
  <2>2. Scored(team, games) = SumFunction(F)
    BY DEF Scored
  <2> HIDE DEF F, S
  <2> QED BY <1>2, <2>1, <2>2
<1>4. ASSUME NEW team PROVE Conceded(team, games) \in Nat
  <2> DEFINE F == [i \in S |-> (IF team = games[i].home THEN games[i].awayScore ELSE 0)
                             + (IF team = games[i].away THEN games[i].homeScore ELSE 0)]
  <2>1. DOMAIN F = S /\ \A i \in S : F[i] \in Nat
    BY <1>1
  <2>2. Conceded(team, games) = SumFunction(F)
    BY DEF Conceded
  <2> HIDE DEF F, S
  <2> QED BY <1>2, <2>1, <2>2
<1>5. AllGoals(games) \in Nat
  <2> DEFINE F == [i \in S |-> games[i].homeScore + games[i].awayScore]
  <2>1. DOMAIN F = S /\ \A i \in S : F[i] \in Nat
    BY <1>1
  <2>2. AllGoals(games) = SumFunction(F)
    BY DEF AllGoals
  <2> HIDE DEF F, S
  <2> QED BY <1>2, <2>1, <2>2
<1>6. ASSUME NEW team PROVE Played(team, games) \in Nat
  <2> DEFINE P == {i \in S : team \in {games[i].home, games[i].away}}
  <2>1. IsFiniteSet(P)
    <3>1. P \subseteq S
      OBVIOUS
    <3> HIDE DEF P, S
    <3> QED BY <1>1, <3>1, FS_Subset
  <2>2. Cardinality(P) \in Nat
    BY <2>1, FS_CardinalityType
  <2> QED BY <2>2 DEF Played
<1>7. SumFunction([i \in DOMAIN games |-> games[i].homeScore]) \in Nat
  <2> DEFINE F == [i \in S |-> games[i].homeScore]
  <2>1. DOMAIN F = S /\ \A i \in S : F[i] \in Nat
    BY <1>1
  <2> HIDE DEF F
  <2>2. SumFunction(F) \in Nat
    BY <1>2, <2>1
  <2> QED BY <2>2 DEF F
<1>8. SumFunction([i \in DOMAIN games |-> games[i].awayScore]) \in Nat
  <2> DEFINE F == [i \in S |-> games[i].awayScore]
  <2>1. DOMAIN F = S /\ \A i \in S : F[i] \in Nat
    BY <1>1
  <2> HIDE DEF F
  <2>2. SumFunction(F) \in Nat
    BY <1>2, <2>1
  <2> QED BY <2>2 DEF F
<1> QED BY <1>3, <1>4, <1>5, <1>6, <1>7, <1>8

LEMMA StrengthFacts ==
    ASSUME NEW X, NEW games \in Seq(X), \A i \in DOMAIN games : IsGame(games[i]),
           NEW goals \in Nat, NEW played \in Nat
    PROVE  IsQuotient(Strength(goals, played, games))
<1> DEFINE all == AllGoals(games)
           n == Len(games)
<1>1. all \in Nat /\ n \in Nat
  <2>1. n \in Nat
    OBVIOUS
  <2>2. AllGoals(games) \in Nat
    BY GoalFacts
  <2> QED BY <2>1, <2>2
<1>2. CASE played = 0 \/ all = 0
  BY <1>2 DEF Strength, IsQuotient
<1>3. CASE played # 0 /\ all # 0
  <2> DEFINE p == goals * 2 * n
             q == played * all
  <2>1. Strength(goals, played, games) = <<p, q>>
    BY <1>3 DEF Strength
  <2> HIDE DEF all, n
  <2>2. p \in Nat /\ q \in Nat \ {0}
    BY <1>1, <1>3
  <2> HIDE DEF p, q
  <2> QED BY <2>1, <2>2 DEF IsQuotient
<1> QED BY <1>2, <1>3

\* Rates are natural numbers: a model that was fitted on some game divides by
\* their number, and no strength divides by zero.
LEMMA RateFacts ==
    ASSUME NEW X, NEW fitted \in Seq(X), fitted # <<>>,
           \A i \in DOMAIN fitted : IsGame(fitted[i]), NEW f,
           IsQuotient(f.homeAttack), IsQuotient(f.homeDefense),
           IsQuotient(f.awayAttack), IsQuotient(f.awayDefense)
    PROVE  HomeRate(f, fitted) \in Nat /\ AwayRate(f, fitted) \in Nat
<1> DEFINE n == Len(fitted)
           h == SumFunction([i \in DOMAIN fitted |-> fitted[i].homeScore])
           a == SumFunction([i \in DOMAIN fitted |-> fitted[i].awayScore])
<1>1. n \in Nat \ {0} /\ h \in Nat /\ a \in Nat /\ LambdaUnit \in Nat
  BY GoalFacts, EstimateConstants
<1>2. ASSUME NEW s \in Nat, NEW p, IsQuotient(p), NEW q, IsQuotient(q)
      PROVE  (LambdaUnit * s * p[1] * q[1]) \div (n * p[2] * q[2]) \in Nat
  <2> DEFINE x == LambdaUnit * s * p[1] * q[1]
             y == n * p[2] * q[2]
  <2>1. p[1] \in Nat /\ q[1] \in Nat /\ p[2] \in Nat \ {0} /\ q[2] \in Nat \ {0}
    BY <1>2 DEF IsQuotient
  <2> HIDE DEF n
  <2>2. x \in Nat
    BY <1>1, <2>1
  <2>3. \A u, v \in Nat \ {0} : u * v \in Nat \ {0}
    OBVIOUS
  <2>4. n * p[2] \in Nat \ {0}
    BY <1>1, <2>1, <2>3
  <2>5. y \in Nat \ {0}
    BY <2>1, <2>3, <2>4
  <2> HIDE DEF x, y
  <2>6. x \div y \in Nat
    BY <2>2, <2>5
  <2> QED BY <2>6 DEF x, y
<1>3. /\ HomeRate(f, fitted) =
           (LambdaUnit * h * f.homeAttack[1] * f.awayDefense[1])
             \div (n * f.homeAttack[2] * f.awayDefense[2])
      /\ AwayRate(f, fitted) =
           (LambdaUnit * a * f.awayAttack[1] * f.homeDefense[1])
             \div (n * f.awayAttack[2] * f.homeDefense[2])
  BY DEF HomeRate, AwayRate
<1> HIDE DEF n, h, a
<1> QED BY <1>1, <1>2, <1>3

LEMMA SoccerFacts ==
    ASSUME NEW X, NEW games \in Seq(X), \A x \in X : IsGame(x), NEW g
    PROVE  LET f == SoccerFeatures(games, g)
           IN  /\ IsQuotient(f.homeAttack) /\ IsQuotient(f.homeDefense)
               /\ IsQuotient(f.awayAttack) /\ IsQuotient(f.awayDefense)
<1> DEFINE past == Past(games, g.at)
           Attack(t) == Strength(Scored(t, past), Played(t, past), past)
           Defense(t) == Strength(Conceded(t, past), Played(t, past), past)
<1>1. past \in Seq(X)
  BY PastFacts
<1>2. SoccerFeatures(games, g) =
        [homeAttack |-> Attack(g.home), homeDefense |-> Defense(g.home),
         awayAttack |-> Attack(g.away), awayDefense |-> Defense(g.away)]
  BY DEF SoccerFeatures
<1> HIDE DEF past
<1>3. \A i \in DOMAIN past : IsGame(past[i])
  BY <1>1
<1>4. \A t : IsQuotient(Attack(t)) /\ IsQuotient(Defense(t))
  BY <1>1, <1>3, GoalFacts, StrengthFacts
<1> HIDE DEF Attack, Defense
<1> QED BY <1>2, <1>4

-----------------------------------------------------------------------------
(* What predictions() yields *)

\* The yielded features are those of the window, and the yielded estimate is one
\* of the model for them, or is calibrated from one.
YieldedOf ==
    yielded # NoYield =>
        /\ yielded.game \in Game
        /\ yielded.features = FeaturesOf(GamesOf(extractor), Dated(yielded.game))
        /\ yielded.raw \in EstimatesOf(setup.kind, yielded.features, GamesOf(model))
        /\ \/ yielded.estimate = yielded.raw
           \/ \E home \in Guess : yielded.estimate = Calibrate(yielded.raw, home)
        /\ model # {}

LEMMA YieldedStep == ASSUME BInv, YieldedOf, [BNext]_bvars PROVE YieldedOf'
<1>1. CASE PredictAndYield
  <2>1. /\ UNCHANGED <<setup, extractor, model, date>> /\ test \in Game /\ model # {}
        /\ phase = "predict"
    BY <1>1, SetupConstants DEF PredictAndYield, Predict, given, BInv, IInv, UnderWay, TypeOK, Never
  <2> DEFINE features == FeaturesOf(GamesOf(extractor), Dated(test))
  <2>2. PICK raw \in RawEstimates(TestGame), home \in Guess :
           yielded' = [game |-> test, features |-> features, raw |-> raw,
                       estimate |-> IF calibrated THEN Calibrate(raw, home) ELSE raw]
    BY <1>1 DEF PredictAndYield, Yield, TestGame
  <2>3. \A g \in Game : Dated(g)' = Dated(g)
    BY <2>1 DEF Dated
  <2>4. GamesOf(extractor)' = GamesOf(extractor) /\ GamesOf(model)' = GamesOf(model)
    BY <2>1, <2>3 DEF GamesOf
  <2>5. GamesOf(extractor') = GamesOf(extractor)
    BY <2>1
  <2>6. \A g \in Game :
           FeaturesOf(GamesOf(extractor), Dated(g))' = FeaturesOf(GamesOf(extractor), Dated(g))
    BY <2>1, <2>3, <2>4 DEF FeaturesOf
  <2>7. raw \in EstimatesOf(setup.kind, features, GamesOf(model))
    BY <2>2, <2>5 DEF RawEstimates, TestGame
  <2> HIDE DEF features
  <2>8. /\ yielded'.game = test /\ yielded'.features = features /\ yielded'.raw = raw
        /\ yielded'.estimate = raw \/ yielded'.estimate = Calibrate(raw, home)
    BY <2>2
  <2>9. FeaturesOf(GamesOf(extractor), Dated(yielded.game))' = features
    BY <2>1, <2>3, <2>4, <2>8 DEF FeaturesOf, features
  <2>10. EstimatesOf(setup.kind, yielded.features, GamesOf(model))'
           = EstimatesOf(setup.kind, features, GamesOf(model))
    BY <2>1, <2>4, <2>8
  <2> QED BY <2>1, <2>7, <2>8, <2>9, <2>10 DEF YieldedOf
<1>2. CASE UNCHANGED bvars
  <2>1. /\ UNCHANGED <<setup, extractor, model, date, yielded>>
    BY <1>2 DEF bvars, vars, given
  <2>2. \A g \in Game : Dated(g)' = Dated(g)
    BY <2>1 DEF Dated
  <2>3. GamesOf(extractor)' = GamesOf(extractor) /\ GamesOf(model)' = GamesOf(model)
    BY <2>1, <2>2 DEF GamesOf
  <2>4. yielded.game \in Game =>
          FeaturesOf(GamesOf(extractor), Dated(yielded.game))'
            = FeaturesOf(GamesOf(extractor), Dated(yielded.game))
    BY <2>1, <2>2, <2>3 DEF FeaturesOf
  <2>5. EstimatesOf(setup.kind, yielded.features, GamesOf(model))'
          = EstimatesOf(setup.kind, yielded.features, GamesOf(model))
    BY <2>1, <2>3
  <2> QED BY <2>1, <2>4, <2>5 DEF YieldedOf, NoYield
<1>3. CASE yielded' = NoYield
  BY <1>3 DEF YieldedOf, NoYield
<1>4. CASE BNext /\ ~PredictAndYield
  <2>1. yielded' = NoYield
    BY <1>4 DEF BNext, Quiet, FitParts, FitPartsOnSome, FitOn, FitPartsFails, FitSome,
       OneClass, FoldGamePredicted, FoldGameRaises, NotCalibrated, PredictRaises
  <2> QED BY <1>3, <2>1
<1> QED BY <1>1, <1>2, <1>4

LEMMA YieldedInvariant == BSpec => [](BInv /\ YieldedOf)
<1>1. BInit => YieldedOf
  BY DEF BInit, YieldedOf
<1>2. YieldedOf /\ BInv /\ [BNext]_bvars => YieldedOf'
  BY YieldedStep
<1> QED BY <1>1, <1>2, BacktestInvariant, PTL DEF BSpec

\* What a model of the code predicts from features of its sport is an estimate.
LEMMA RawFacts ==
    ASSUME BInv, YieldedOf, yielded # NoYield
    PROVE  /\ setup.kind = "poisson" => YieldedRates[1] \in Nat /\ YieldedRates[2] \in Nat
           /\ Differences = Int => Weighs(yielded.raw)
<1> DEFINE f == yielded.features
           games == GamesOf(extractor)
           fitted == GamesOf(model)
           d == Dated(yielded.game)
           kind == setup.kind
<1>1. /\ f = FeaturesOf(games, d) /\ yielded.raw \in EstimatesOf(kind, f, fitted)
      /\ yielded.game \in Game /\ model # {}
  BY DEF YieldedOf
<1>2. /\ kind \in Kind /\ setup.sport \in Sport
      /\ kind \in {"elo", "ensemble"} => setup.sport # "soccer"
      /\ kind = "poisson" => setup.sport = "soccer"
  BY SetupConstants DEF BInv, Compatible
<1>3. /\ games \in Seq(AllGames) /\ fitted \in Seq(AllGames)
      /\ \A x \in AllGames : IsGame(x)
      /\ d \in AllGames
  BY <1>1, GamesOfFacts DEF AllGames
<1>4. fitted # <<>>
  <2> DEFINE list == [g \in Game |-> Dated(g)]
  <2>1. list \in Seq(AllGames) /\ DOMAIN list = Game
    <3>1. list \in [1 .. Games -> AllGames] /\ Games \in Nat
      BY WalkConstants DEF Game, AllGames
    <3>2. DOMAIN list = Game
      OBVIOUS
    <3> HIDE DEF list
    <3> QED BY <3>1, <3>2
  <2>2. PICK g \in model : g \in Game
    BY <1>1 DEF BInv, IInv, TypeOK
  <2> HIDE DEF list
  <2>3. \E k \in DOMAIN Kept(list, model) : Kept(list, model)[k] = list[g]
    BY <2>1, <2>2, KeptAt
  <2>4. fitted = Kept(list, model)
    BY DEF GamesOf, list
  <2> HIDE DEF fitted
  <2>5. DOMAIN fitted # {}
    BY <2>3, <2>4
  <2> QED BY <2>5
<1> HIDE DEF games, fitted, d
<1>5. \A i \in DOMAIN fitted : IsGame(fitted[i])
  BY <1>3
<1>6. ASSUME kind = "poisson" PROVE HomeRate(f, fitted) \in Nat /\ AwayRate(f, fitted) \in Nat
  <2>1. f = SoccerFeatures(games, d)
    BY <1>1, <1>2, <1>6 DEF FeaturesOf
  <2> HIDE DEF f
  <2>2. /\ IsQuotient(f.homeAttack) /\ IsQuotient(f.homeDefense)
        /\ IsQuotient(f.awayAttack) /\ IsQuotient(f.awayDefense)
    BY <1>3, <2>1, SoccerFacts
  <2> QED BY <1>3, <1>4, <1>5, <2>2, RateFacts
<1>7. ASSUME Differences = Int, setup.sport # "soccer"
      PROVE  f.homeElo \in Int /\ f.awayElo \in Int
  <2>1. PICK sport \in Rated :
           /\ f.homeElo = RatingsAfter(sport, Past(games, d.at))[d.home]
           /\ f.awayElo = RatingsAfter(sport, Past(games, d.at))[d.away]
    <3>1. NFL \in Rated /\ NBA \in Rated /\ MLB \in Rated /\ NHL \in Rated
      BY DEF Rated
    <3>2. setup.sport \in {"nfl", "nba", "mlb", "nhl"}
      BY <1>2, <1>7 DEF Sport
    <3>3. \/ f = NFLFeatures(games, d) \/ f = NBAFeatures(games, d)
          \/ f = MLBFeatures(games, d) \/ f = NHLFeatures(games, d)
      BY <1>1, <3>2 DEF FeaturesOf
    <3> HIDE DEF f
    <3>4. CASE f = NFLFeatures(games, d)
      BY <3>1, <3>4 DEF NFLFeatures, EloFeatures
    <3>5. CASE f = NBAFeatures(games, d)
      BY <3>1, <3>5 DEF NBAFeatures, EloFeatures
    <3>6. CASE f = MLBFeatures(games, d)
      BY <3>1, <3>6 DEF MLBFeatures, EloFeatures
    <3>7. CASE f = NHLFeatures(games, d)
      BY <3>1, <3>7 DEF NHLFeatures, EloFeatures
    <3> QED BY <3>3, <3>4, <3>5, <3>6, <3>7
  <2> DEFINE past == Past(games, d.at)
  <2>2. past \in Seq(AllGames)
    BY <1>3, PastFacts
  <2> HIDE DEF past
  <2>3. \A i \in DOMAIN past : IsGame(past[i])
    BY <1>3, <2>2
  <2>4. RatingsAfter(sport, past) \in [Team -> Int]
    BY <1>7, <2>2, <2>3, RatingsFacts
  <2>5. d.home \in Team /\ d.away \in Team
    BY <1>3 DEF IsGame
  <2> QED BY <2>1, <2>4, <2>5 DEF past
<1> HIDE DEF f, kind
<1>8. ASSUME Differences = Int PROVE Weighs(yielded.raw)
  <2> DEFINE raw == yielded.raw
  <2> SUFFICES Weighs(raw)
    OBVIOUS
  <2>1. CASE kind = "elo"
    <3>1. raw = EloEstimate(f)
      BY <1>1, <2>1 DEF EstimatesOf
    <3> HIDE DEF raw
    <3>2. f.homeElo \in Int /\ f.awayElo \in Int
      BY <1>2, <1>7, <1>8, <2>1
    <3> QED BY <1>8, <3>1, <3>2, EloFacts
  <2>2. CASE kind \in {"logistic", "gradient_boosting"}
    <3>1. raw \in ClassifierEstimates(Labels(fitted))
      BY <1>1, <2>2 DEF EstimatesOf
    <3> HIDE DEF raw
    <3> QED BY <3>1, ClassifierFacts
  <2>3. CASE kind = "quantile"
    <3>1. raw \in QuantileEstimates
      BY <1>1, <2>3 DEF EstimatesOf
    <3> HIDE DEF raw
    <3> QED BY <3>1, QuantileFacts
  <2>4. CASE kind = "poisson"
    <3>1. raw = PoissonEstimate(HomeRate(f, fitted), AwayRate(f, fitted))
      BY <1>1, <2>4 DEF EstimatesOf
    <3> HIDE DEF raw
    <3> QED BY <1>6, <2>4, <3>1, PoissonFacts
  <2>5. CASE kind = "ensemble"
    <3>1. raw \in EnsembleEstimates(EloEstimate(f), ClassifierEstimates(Labels(fitted)))
      BY <1>1, <2>5 DEF EstimatesOf
    <3> HIDE DEF raw
    <3>2. f.homeElo \in Int /\ f.awayElo \in Int
      BY <1>2, <1>7, <1>8, <2>5
    <3>3. EloEstimate(f).home \in 0 .. One
      BY <1>8, <3>2, EloFacts
    <3>4. \A c \in ClassifierEstimates(Labels(fitted)) : c.home \in 0 .. One
      BY ClassifierFacts
    <3> QED BY <3>1, <3>3, <3>4, EnsembleFacts
  <2> QED BY <1>2, <2>1, <2>2, <2>3, <2>4, <2>5 DEF Kind
<1>9. kind = "poisson" => YieldedRates[1] \in Nat /\ YieldedRates[2] \in Nat
  BY <1>6 DEF YieldedRates, f, fitted
<1> QED BY <1>8, <1>9 DEF kind

-----------------------------------------------------------------------------
(* Theorems *)

\* Every reachable state has the types of the loop; no model is fitted on
\* nothing (pipeline.py:203).
THEOREM TypeCorrect == BSpec => []TypeOK
<1>1. BInv => TypeOK
  BY DEF BInv, IInv
<1> QED BY <1>1, BacktestInvariant, PTL

\* No prediction was learnt from a game on its date or later, whatever the dates
\* and whatever raises (guard.py:14-33), in any walk: of models that may do
\* anything, and of the repository's.
THEOREM NoLookaheadCorrect == (Spec => []NoLookahead) /\ (BSpec => []NoLookahead)
<1>1. IInv => NoLookahead
  BY DEF IInv
<1>2. BInv => NoLookahead
  BY <1>1 DEF BInv
<1>3. Spec => []NoLookahead
  BY <1>1, WalkInvariant, PTL
<1>4. BSpec => []NoLookahead
  BY <1>2, BacktestInvariant, PTL
<1> QED BY <1>3, <1>4

\* No model that predicts was fitted on nothing (pipeline.py:203), and no calibrator
\* on a game that the model behind its probabilities was fitted on
\* (calibration/model.py:43-45).
THEOREM HeldOutCorrect == (Spec => []HeldOut) /\ (BSpec => []HeldOut)
<1>1. IInv => HeldOut
  BY DEF IInv
<1>2. BInv => HeldOut
  BY <1>1 DEF BInv
<1>3. Spec => []HeldOut
  BY <1>1, WalkInvariant, PTL
<1>4. BSpec => []HeldOut
  BY <1>2, BacktestInvariant, PTL
<1> QED BY <1>3, <1>4

\* A walk in which nothing raised yields exactly the games that have enough games
\* before them and, when they are calibrated, a fold that calibrates among theirs
\* or those of earlier games (pipeline.py:93-97, 252-257).
THEOREM CompleteCorrect == (Spec => []Complete) /\ (BSpec => []Complete)
<1>1. ASSUME IInv, YieldInv PROVE Complete
  <2> SUFFICES ASSUME test > Games, faults = 0
               PROVE  Predicted = {g \in Game : Promised(g)}
    BY DEF Complete, Promised, Learnable, Predicted
  <2>1. \A g \in Game : g < test
    BY <1>1, WalkConstants DEF IInv, TypeOK, Game
  <2>2. Predicted = {g \in Game : g < test /\ Promised(g)}
    BY <1>1 DEF YieldInv, NothingRaised
  <2> QED BY <2>1, <2>2
<1>2. BInv => Complete
  BY <1>1 DEF BInv
<1>3. Spec => []Complete
  BY <1>1, WalkInvariant, PTL
<1>4. BSpec => []Complete
  BY <1>2, BacktestInvariant, PTL
<1> QED BY <1>3, <1>4

\* Features come from the window of the model, whatever the fold left in the
\* shared extractor (pipeline.py:195-224).
THEOREM WindowCorrect == BSpec => []FeaturesOfWindow
<1>1. BInv => FeaturesOfWindow
  BY DEF BInv, YieldInv
<1> QED BY <1>1, BacktestInvariant, PTL

\* No model that is asked for a prediction is a mixture of two fits, however many
\* fits failed half way (pipeline.py:115-124).
THEOREM FittedTogetherCorrect == BSpec => []FittedTogether
<1>1. BInv => FittedTogether
  BY DEF BInv
<1> QED BY <1>1, BacktestInvariant, PTL

\* Ratings sum to those at the start, whatever games are rated in what order
\* (elo.py:113-118).
THEOREM RatingsConservedCorrect == BSpec => [](Differences = Int => RatingsConserved)
<1>1. ASSUME BInv, Differences = Int PROVE RatingsConserved
  <2>1. KnownGames \in Seq(AllGames)
    BY <1>1, GamesOfFacts, PastFacts DEF KnownGames
  <2>2. \A i \in DOMAIN KnownGames : IsGame(KnownGames[i])
    BY <1>1, <2>1, GamesOfFacts
  <2>3. ASSUME NEW sport \in {NFL, NBA, MLB, NHL}
        PROVE  Total(RatingsAfter(sport, KnownGames), Team) = Cardinality(Team) * Initial * Point
    <3>1. sport \in Rated
      BY DEF Rated
    <3> QED BY <1>1, <2>1, <2>2, <3>1, RatingsFacts
  <2> QED BY <2>3 DEF RatingsConserved, Total
<1>2. BInv => (Differences = Int => RatingsConserved)
  BY <1>1
<1> QED BY <1>2, BacktestInvariant, PTL
\* Who won all its known games has the full form and has lost no rating
\* (elo.py:107-118, _base.py:46-73), in every sport that is rated.
THEOREM RatingFollowsFormCorrect == BSpec => [](Differences = Int => RatingFollowsForm)
<1>1. ASSUME BInv, YieldedOf, Differences = Int PROVE RatingFollowsForm
  <2> SUFFICES ASSUME yielded # NoYield, setup.sport # "soccer" PROVE RatingFollowsForm
    BY DEF RatingFollowsForm
  <2> DEFINE f == yielded.features
             g == setup.season[yielded.game]
             games == GamesOf(extractor)
             asOf == date[yielded.game]
  <2>1. PICK sport \in Rated :
           /\ f.homeElo = RatingsAfter(sport, Past(games, asOf))[g.home]
           /\ f.awayElo = RatingsAfter(sport, Past(games, asOf))[g.away]
           /\ f.homeForm = RecentForm(g.home, games, asOf)
           /\ f.awayForm = RecentForm(g.away, games, asOf)
    <3> DEFINE d == Dated(yielded.game)
    <3>1. d.home = g.home /\ d.away = g.away /\ d.at = asOf
      BY DEF Dated
    <3>2. setup.sport \in {"nfl", "nba", "mlb", "nhl"}
      BY <1>1, SetupConstants DEF BInv, Sport
    <3>3. f = FeaturesOf(games, d)
      BY <1>1 DEF YieldedOf
    <3> HIDE DEF d, f, g, games, asOf
    <3>4. CASE setup.sport = "nfl"
      <4>1. f = NFLFeatures(games, d)
        BY <3>3, <3>4 DEF FeaturesOf
      <4>2. NFL \in Rated
        BY DEF Rated
      <4> QED BY <3>1, <4>1, <4>2 DEF NFLFeatures, EloFeatures
    <3>5. CASE setup.sport = "nba"
      <4>1. f = NBAFeatures(games, d)
        BY <3>3, <3>5 DEF FeaturesOf
      <4>2. NBA \in Rated
        BY DEF Rated
      <4> QED BY <3>1, <4>1, <4>2 DEF NBAFeatures, EloFeatures
    <3>6. CASE setup.sport = "mlb"
      <4>1. f = MLBFeatures(games, d)
        BY <3>3, <3>6 DEF FeaturesOf
      <4>2. MLB \in Rated
        BY DEF Rated
      <4> QED BY <3>1, <4>1, <4>2 DEF MLBFeatures, EloFeatures
    <3>7. CASE setup.sport = "nhl"
      <4>1. f = NHLFeatures(games, d)
        BY <3>3, <3>7 DEF FeaturesOf
      <4>2. NHL \in Rated
        BY DEF Rated
      <4> QED BY <3>1, <4>1, <4>2 DEF NHLFeatures, EloFeatures
    <3> QED BY <3>2, <3>4, <3>5, <3>6, <3>7
  <2>2. games \in Seq(AllGames) /\ \A x \in AllGames : IsGame(x)
    BY <1>1, GamesOfFacts
  <2>3. g.home \in Team /\ g.away \in Team
    BY <1>1, SetupConstants DEF BInv, YieldedOf
  <2> DEFINE Won1(t) == \A i \in DOMAIN PastOf(t, games, asOf) : Won(t, PastOf(t, games, asOf)[i])
  <2> HIDE DEF f, g, games, asOf
  <2>4. ASSUME NEW t \in Team, PastOf(t, games, asOf) # <<>>, Won1(t)
        PROVE  /\ RecentForm(t, games, asOf)[1] = RecentForm(t, games, asOf)[2]
               /\ RatingsAfter(sport, Past(games, asOf))[t] >= Initial * Point
    BY <1>1, <2>2, <2>4, FollowsFacts
  <2>5. PastOf(g.home, games, asOf) # <<>> /\ Won1(g.home) =>
           f.homeForm[1] = f.homeForm[2] /\ f.homeElo >= Initial * Point
    BY <2>1, <2>3, <2>4
  <2>6. PastOf(g.away, games, asOf) # <<>> /\ Won1(g.away) =>
           f.awayForm[1] = f.awayForm[2] /\ f.awayElo >= Initial * Point
    BY <2>1, <2>3, <2>4
  <2> QED BY <2>5, <2>6 DEF RatingFollowsForm, f, g, games, asOf
<1>2. BInv /\ YieldedOf => (Differences = Int => RatingFollowsForm)
  BY <1>1
<1> QED BY <1>2, YieldedInvariant, PTL
\* What a walk yields is a distribution, whatever the kind of model, the sport and
\* the games, and whatever a calibrator answers (modeling/types.py:89-98).
THEOREM EstimatesCorrect == BSpec => [](Differences = Int => EstimatesAreDistributions)
<1>1. ASSUME BInv, YieldedOf, Differences = Int PROVE EstimatesAreDistributions
  <2> SUFFICES ASSUME yielded # NoYield
               PROVE  IsDistribution(yielded.raw) /\ IsDistribution(yielded.estimate)
    BY DEF EstimatesAreDistributions
  <2>1. Weighs(yielded.raw)
    BY <1>1, RawFacts
  <2>2. IsDistribution(yielded.raw)
    BY <2>1 DEF Weighs, IsDistribution
  <2>3. IsDistribution(yielded.estimate)
    <3>1. CASE yielded.estimate = yielded.raw
      BY <2>2, <3>1
    <3>2. ASSUME NEW home \in Guess, yielded.estimate = Calibrate(yielded.raw, home)
          PROVE  IsDistribution(yielded.estimate)
      BY <2>1, <3>2, CalibrateFacts
    <3> QED BY <1>1, <3>1, <3>2 DEF YieldedOf
  <2> QED BY <2>2, <2>3
<1>2. BInv /\ YieldedOf => (Differences = Int => EstimatesAreDistributions)
  BY <1>1
<1> QED BY <1>2, YieldedInvariant, PTL

\* The Dixon-Coles correction changes the distribution of neither team's goals,
\* whatever the rates, rho and the most goals that are counted
\* (poisson.py:122-129).
THEOREM MarginalsCorrect == BSpec => []CorrectionKeepsMarginals
<1>1. ASSUME BInv, YieldedOf PROVE CorrectionKeepsMarginals
  <2> SUFFICES ASSUME PoissonYield PROVE CorrectionKeepsMarginals
    BY DEF CorrectionKeepsMarginals
  <2> DEFINE h == YieldedRates[1]
             a == YieldedRates[2]
  <2>1. h \in Nat /\ a \in Nat
    BY <1>1, RawFacts DEF PoissonYield
  <2> HIDE DEF h, a
  <2>2. \A i, j \in {0, 1} : Correction(h, a, i, j) \in Int
    <3>1. 0 \in Goals /\ 1 \in Goals
      BY EstimateConstants DEF Goals
    <3> QED BY <2>1, <3>1, CorrectionType
  <2>3. ASSUME ~\E i, j \in {0, 1} : Correction(h, a, i, j) < 0, NEW n \in Goals
        PROVE  /\ Scores(h, a, {n} \X Goals) = Uncorrected(h, a, {n} \X Goals)
               /\ Scores(h, a, Goals \X {n}) = Uncorrected(h, a, Goals \X {n})
    <3>1. \A i, j \in {0, 1} : Correction(h, a, i, j) >= 0
      BY <2>2, <2>3
    <3> QED BY <2>1, <3>1, MarginalFacts
  <2> QED BY <2>3 DEF CorrectionKeepsMarginals, Uncorrected, h, a
<1>2. BInv /\ YieldedOf => CorrectionKeepsMarginals
  BY <1>1
<1> QED BY <1>2, YieldedInvariant, PTL
=============================================================================
