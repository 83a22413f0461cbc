CONSTANTS
    Cfg <- CloudCfg
    Client = {srv, main}
    Server = {srv}
    CfgMode = {main}
    ExtSig = {"NETWORK_CONNECTED"}
    MaxBatch = 0
    AllowTimeout = TRUE
SPECIFICATION Spec
INVARIANTS RelayingFollowsCounter CommandIsHandled
CHECK_DEADLOCK FALSE
