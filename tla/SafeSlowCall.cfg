SPECIFICATION Spec
CONSTANTS
  c1 = c1
  c2 = c2
  c3 = c3
  k1 = k1
  k2 = k2
  Caller = {c1, c2, c3}
  Key = {k1}
  TTL = 2
  MaxCall = 3
  Stake = {1}
  StakeCap = 2
  Floor = 0
  Funds = 2
  MaxBets = 3
  MaxNow = 4
INVARIANT NoDoubleBet
