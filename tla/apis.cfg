\* Two servers, three adapters, and a trace of up to four time units.
CONSTANTS
    NServers = 2
    MaxCrashes = 1
    NShards = 2
    Adapters = {1, 2, 3}
    OneOverAlpha = 2
    DefaultRate = 2
    PerTick = 6
    Instant = 20
    FirstRates = {1, 4}
    Unlisted = {1, 2, 3}
    RebalanceGap = 2
    MaxTime = 3
    MaxInFlight = 1
    MaxRequests = 4
SPECIFICATION FairSpec
INVARIANTS NothingLeftRunning AdaptersShared
PROPERTIES TrafficShared BenchmarkEnds
