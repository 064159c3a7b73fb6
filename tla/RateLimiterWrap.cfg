SPECIFICATION Spec
CONSTANTS
    adrA = adrA
    adrB = adrB
    adrC = adrC
    adrD = adrD
    Address <- MCAddress2
    HashOf <- MCHashOf
    MAX_BUCKETS = 1
    MAX_HASHES = 2
    Burst = 1
    Period = 1
    OutBurst = 1
    OutPeriod = 1
    Second = 2
    IntLimit = 4
    StartClock = 1
    ClockSteps <- Forward
    MaxClock = 9
PROPERTIES RefusedOnlyByLiveBuckets
