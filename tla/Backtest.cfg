SPECIFICATION BSpec
CONSTANTS
  t1 = t1
  t2 = t2
  t3 = t3
  Team = {t1, t2, t3}
  Absent = Absent
  Games = 6
  LastDate = 3
  MinTrain = 1
  CalPct = 50
  MaxFaults = 2
  One = 40
  Logistic <- MCLogistic
  LogRatio <- MCLogRatio
  Initial = 1500
  KFactor = 20
  UseMov = TRUE
  FormWindow = 2
  Differences <- MCDifferences
  Guess <- MCGuess
  LambdaUnit = 2
  Rho = 1
  RhoUnit = 8
  MaxGoals = 2
  Setups <- MCSetups
INVARIANTS NoLookahead HeldOut Complete FittedTogether FeaturesOfWindow
  RatingsConserved RatingFollowsForm CorrectionKeepsMarginals
  EstimatesAreDistributions
CHECK_DEADLOCK FALSE
