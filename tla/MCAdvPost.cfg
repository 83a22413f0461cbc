CONSTANTS
    Cfg <- SwitchCfg
    Client = {}
    Server = {}
    CfgMode = {}
    ExtSig = {"NETWORK_CONNECTED", "NETWORK_DISCONNECTED", "TIME_SYNCHRONIZED"}
    MaxBatch = 0
    AllowTimeout = FALSE
SPECIFICATION Spec
INVARIANTS TransferIsPolled
PROPERTIES NoPostToDisabledTarget
CONSTRAINT AnnouncedOnce
VIEW LiveState
