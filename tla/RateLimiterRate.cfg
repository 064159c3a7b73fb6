SPECIFICATION HistorySpec
CONSTANTS
    Address <- MCAddress
    HashOf <- MCHashOf
    MAX_BUCKETS = 1
    MAX_HASHES = 1
    Burst = 2
    Period = 2
    OutBurst = 1
    OutPeriod = 2
    Second = 2
    IntLimit = 128
    StartClock = 1
    ClockSteps <- Forward
    MaxClock = 8
INVARIANTS TypeOK RatesAreBounded
PROPERTIES RefusedOnlyByLiveBuckets
VIEW HistoryView
