SPECIFICATION BookSpec
CONSTANTS
  Market = {m1}
  Side = {home, away}
  Prob = {40, 60}
  Stake = {2, 9}
  Scale = 100
  MarginPct = 5
  FirstMaxStake = 5
  MaxStakeFloor = 1
  WinLimitN = 1
  MaxWins = 2
  OfferTTL = 0
  Liquidity = 18
  OddsMoveTol = 2
  MaxCount = 4
  MaxNow = 1
INVARIANTS BookTypeOK FillsApart
PROPERTY LimitHolds
