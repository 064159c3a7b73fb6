SPECIFICATION Spec
CONSTANTS
    adrA = adrA
    adrB = adrB
    adrC = adrC
    adrD = adrD
    Address <- MCAddress
    HashOf <- MCHashOf
    MAX_BUCKETS = 3
    MAX_HASHES = 2
    Burst = 1
    Period = 1
    OutBurst = 1
    OutPeriod = 1
    Second = 2
    IntLimit = 128
    StartClock = 1
    ClockSteps <- WithSteps
    MaxClock = 3
INVARIANTS LinksOK
PROPERTIES OneGuessPerSecond ImplementsAddressMeters
VIEW PoolView
SYMMETRY Colliding
