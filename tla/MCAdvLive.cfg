CONSTANTS
    Cfg <- BothCfg
    Client = {srv}
    Server = {srv}
    CfgMode = {}
    ExtSig = {"NETWORK_CONNECTED"}
    MaxBatch = 0
    AllowTimeout = FALSE
SPECIFICATION FairSpec
INVARIANTS SuspendedMeansQuiet
PROPERTIES DuePostsAreStarted WaitersAreReleased
