SPECIFICATION SmallSpec
CONSTANTS
    IP <- MCIP
    MUID <- MCMUID
    Long = {"m1"}
    Numeric <- MCMUID
    sv_maxclients = 2
    IPFiles <- MCIPFiles
    MUIDFiles <- MCMUIDFiles
    Visitor <- MCVisitor
    MaxLines = 2
    Name <- MCName
    Printable <- MCPrintable
    Word <- MCWord
    x_deadchat = FALSE
    MaxConnects = 2
    Master <- MCMaster
    Host <- MCHost
    MinBeat = 3
    HeartbeatTimes <- MCHeartbeatTimes
    Key <- MCKey
    Lower <- MCLower
    Value <- MCValue
    Illegal = {";"}
    Size <- MCSize
    MAX_INFO_STRING = 13
    Received <- MCReceived
    MAX_VA_STRING = 16
    Localized <- MCLocalized
    NoString = ""
    FirstTemporary = 2
    MAX_LOCALIZED = 4
    Scripts <- MCScripts
    MAX_ERROR_BUFFER = 2
    MaxMaps = 3
    MaxReturns = 3
    Library <- MCLibrary
    NoFile = "none"
    MaxLoads = 3
    WalkValues <- MCWalkValues
    Weapons <- MCWeapons
    MaxOrders = 3
    Pings <- MCPings
    PingCalls <- MCPingCalls
    Measured = 48
    Speeds <- MCSpeeds
    g_speed = 190
    Perk = {"fast"}
    MAX_BOARD = 22
    MAX_STATUS = 18
    sv_privateClients = 1
    Chars <- MCChars
    MaxText = 3
    Sizes = {1, 2, 3}
    OpenSockets = {1, 2}
    Packet <- MCPacket
    MaxQueued = 1
    File = {"log"}
    Written = {"line"}
    MaxOpen = 2
    MaxTexts = 2
PROPERTIES MutedIsSilent
