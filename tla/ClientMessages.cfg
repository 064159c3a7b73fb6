SPECIFICATION FairSpec
CONSTANTS
    KindOf <- Talk
    MaxMap = 1
    MaxRestart = 1
    MaxInFlight = 1
    sv_pure = TRUE
INVARIANTS NeverLost RunsOnceInOrder
PROPERTIES ImpureGoes EntersGame
