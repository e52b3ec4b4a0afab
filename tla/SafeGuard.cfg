SPECIFICATION FairSpec
CONSTANTS
  c1 = c1
  c2 = c2
  c3 = c3
  k1 = k1
  k2 = k2
  Caller = {c1, c2}
  Key = {k1}
  TTL = 2
  MaxCall = 1
  Stake = {1, 3}
  StakeCap = 1
  Floor = 2
  Funds = 3
  MaxBets = 3
  MaxNow = 3
INVARIANTS NoDoubleBet NoOrphanReservation OverdraftBounded
PROPERTIES OpportunityFreed GuardSpec
