SPECIFICATION Polls
CONSTANTS
  Market = {m1, m2}
  Event = {g1, g2}
  MaxVer = 2
  MaxFaults = 2
  s1 = s1
  s2 = s2
  e1 = e1
  e2 = e2
  e3 = e3
  Game = {e1, e2, e3}
  Book = {b1, b2}
  Side = {home, away}
  Sports <- MCSports
  SportOf <- MCSportOf
  InSeason = {e1, e2}
  Price <- MCPrice
  Scale = 1000
  MaxUpdates = 2
  MaxFailures = 1
INVARIANTS PublishedWasSaved PollComplete SnapshotSumsToOne
PROPERTIES OddsReachTopic ScoresReachTopic
