CONSTANTS
    Cfg <- CloudCfg
    Client = {srv, main}
    Server = {srv}
    CfgMode = {main}
    ExtSig = {"NETWORK_CONNECTED"}
    MaxBatch = 0
    AllowTimeout = FALSE
SPECIFICATION Spec
INVARIANTS OneHttpRequestAtATime
CHECK_DEADLOCK FALSE
