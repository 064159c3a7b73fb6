SPECIFICATION FairSpec
CONSTANTS
    Second = 4
    Size <- MCSize
    FRAGMENT_SIZE = 3
    MaxCounted = 4
    HEADER_RATE_BYTES = 1
    MinRate = 1
    MaxRate = 5
    DefaultRate = 3
    DownloadRate = 4
    MaxSnaps = 2
    DefaultMsec = 1
    AskedRate <- MCAskedRate
    AskedSnaps <- MCAskedSnaps
    Fps <- MCFps
    MAX_DOWNLOAD_WINDOW = 2
    FrameTime <- MCFrameTime
INVARIANTS TypeOK RateKept
PROPERTIES LoadingIsSlow MessagesGoOn DropTakesEffect
