CONSTANTS
    P = 4
    Q = 2
    Bankroll = 128
    KellyDiv = 1
    MinEdge = 1
    MaxOdds = 10
    Estimate <- MCEstimate
    Price <- MCPrice
    Score <- MCScore
    Absent = Absent
    NBins = 2
    Unit = 2
    MaxGames = 3

SPECIFICATION Spec
INVARIANTS
    StakesWithinBankroll
    NoSureLoss
    DrawdownIsWorstFall
    MetricsAgree
    ReportsAgree
CHECK_DEADLOCK FALSE
