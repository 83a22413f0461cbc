CONSTANTS
    Cfg <- Cfgs
    Default <- DefaultCfg
    Empty = Empty
    NoCfg = NoCfg
    MaxEvents = 2
    W = 4
    Timeout = 9
    Period = 3
SPECIFICATION Spec
INVARIANTS TimeTypeOK ConfigDurable RunningConfigStored CfgReachesTasks TableKind SntpNotForgotten RestartsOnSilence
