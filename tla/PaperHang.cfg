SPECIFICATION FairSpec
CONSTANTS
  g1 = g1
  g2 = g2
  Market = {m1}
  Event = {g1, g2}
  EventOf <- MCEventOf
  Side = {home, away}
  Prob = {30, 60}
  Stake = {10}
  RequestedStake = 10
  Scale = 100
  MarginPct = 5
  FirstMaxStake = 100
  MaxStakeFloor = 10
  WinLimitN = 10
  MaxWins = 0
  OfferTTL = 0
  Liquidity = 500
  OddsMoveTol = 2
  MaxCount = 4
  MaxLines = 1
  MaxScores = 1
  MaxFaults = 1
  MaxNow = 0
PROPERTY ShutdownEnds
CHECK_DEADLOCK FALSE
