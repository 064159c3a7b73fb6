SPECIFICATION FairSpec
CONSTANTS
    Endpoint <- TwoClients
    Player <- MCPlayer
    MUIDOf <- MCMUIDOf
    Challenge <- MCChallenge1
    BannedMUID <- MCBanned
    MaxNumber = 2
    AuthWait = 2
    MsgWait = 1
    TicksPerSecond = 1
    sv_maxclients = 1
    sv_privateClients = 0
    ReconnectLimit = 1
PROPERTIES MasterSilenceDoesNotBlock
