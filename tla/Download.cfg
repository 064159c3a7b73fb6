SPECIFICATION FairSpec
CONSTANTS
    File <- MCFile
    SizeOf <- MCSizeOf
    Allowed <- MapAndGone
    Dotted <- MCDotted
    Found <- MapOnly
    MAX_DOWNLOAD_WINDOW = 3
    FastUnits = 2
    ResendAfter = 0
    MaxRequests = 1
    MaxInFlight = 2
    MaxCommands = 2
INVARIANTS PiecesInOrder WholeFile NeverBroken
PROPERTIES DownloadEnds
CHECK_DEADLOCK FALSE
