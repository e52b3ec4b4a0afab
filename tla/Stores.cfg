SPECIFICATION Stores
CONSTANTS
  Market = {m1}
  Side = {home, away}
  Reader = {r1, r2}
  TTL = 1
  MaxFill = 1
  MaxVer = 2
  MaxNow = 3
  Id = {b1, b2}
  MaxFaults = 2
SYMMETRY Symmetry
INVARIANTS BoundedStaleness AckedKept
PROPERTY StoreSpec
CHECK_DEADLOCK FALSE
