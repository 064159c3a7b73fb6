SPECIFICATION Spec
CONSTANTS
    Endpoint <- OneClient
    Player <- MCPlayer
    MUIDOf <- MCMUIDOf
    Challenge <- MCChallenge1
    BannedMUID <- NoneBanned
    MaxNumber = 3
    AuthWait = 2
    MsgWait = 1
    TicksPerSecond = 1
    sv_maxclients = 2
    sv_privateClients = 0
    ReconnectLimit = 2
INVARIANTS OneSlotPerClient
PROPERTIES LiveNotResetEarly DeniedStaysOut RefusalsAreOwn AdmissionIsDue
VIEW StateView
