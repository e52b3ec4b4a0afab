CONSTANTS
    s1 = s1
    s2 = s2
    e1 = e1
    e2 = e2
    f1 = f1
    f2 = f2
    f3 = f3
    m1 = m1
    m2 = m2
    Season = {s1, s2}
    Event = {e1, e2}
    Flight = {f1, f2, f3}
    Match = {m1, m2}
    EventsOf <- MCEventsOf
    FlightsOf <- MCFlightsOf
    MatchesOf <- MCMatchesOf
    MaxVer = 2
    MaxFaults = 0
    MaxFetches = 2
    MainEvent = {e1}
    Priced = {m2}
    Final = 2
    Cap = 2
    Source = {"asa_seasons"}
    DateOf <- MCDateOf

    Walks <- MCWalks
    ModelOption = {"elo", "poisson"}
    MinTrain = 1
    MaxRuns = 1

ACTION_CONSTRAINTS OneOrder WholeRows
SPECIFICATION CSpec
INVARIANT LoadedInFileOrder
CHECK_DEADLOCK FALSE
