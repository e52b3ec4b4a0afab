CONSTANTS
    s1 = s1
    s2 = s2
    e1 = e1
    e2 = e2
    f1 = f1
    f2 = f2
    f3 = f3
    m1 = m1
    m2 = m2
    Season = {s1, s2}
    Event = {e1, e2}
    Flight = {f1, f2, f3}
    Match = {m1, m2}
    EventsOf <- MCEventsOf
    FlightsOf <- MCFlightsOf
    MatchesOf <- MCMatchesOf
    MaxVer = 2
    MaxFaults = 1
    MaxFetches = 2
    MainEvent = {e1}
    Priced = {m2}
    Final = 2
    Cap = 1
    Source = {"ecnl", "asa", "asa_seasons", "wpsl", "nfl"}
    DateOf <- MCDateOf

    Walks <- MCWalks
    ModelOption = {"elo", "poisson"}
    MinTrain = 1
    MaxRuns = 1

ACTION_CONSTRAINT OneOrder
SPECIFICATION CSpec
INVARIANTS
    FetchedOnce
    FetchFresh
    FetchComplete
    SeasonsComplete
    LoadedIsPrefix
    ReportsOfThisRun
CHECK_DEADLOCK FALSE
