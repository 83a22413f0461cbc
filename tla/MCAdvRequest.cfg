CONSTANTS
    Cfg <- MqttsCfg
    Client = {srv}
    Server = {srv}
    CfgMode = {}
    ExtSig = {"NETWORK_CONNECTED"}
    MaxBatch = 2
    AllowTimeout = TRUE
SPECIFICATION Spec
INVARIANTS TypeOK MqttBatchValid HttpRequestOwned
CHECK_DEADLOCK FALSE
VIEW LiveState
