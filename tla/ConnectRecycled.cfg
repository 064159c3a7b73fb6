SPECIFICATION Spec
CONSTANTS
    Endpoint <- TwoClients
    Player <- MCPlayer
    MUIDOf <- MCMUIDOf
    Challenge <- MCChallenge1
    BannedMUID <- NoneBanned
    MaxNumber = 2
    AuthWait = 1
    MsgWait = 0
    TicksPerSecond = 1
    sv_maxclients = 1
    sv_privateClients = 0
    ReconnectLimit = 0
INVARIANTS MUIDIsOwn
VIEW StateView
