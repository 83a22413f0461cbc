SPECIFICATION Spec
CONSTANTS
    b0 = b0
    b1 = b1
    b2 = b2
    btest = btest
    none = none
    Broker = {b0, b1, b2, btest}
    Invalid = none
    DefaultBroker = b0
    TestBroker = btest
    Cfg <- TwoBrokers
    Server = {"s1"}
    Sensor = {}
    Event = {"cfg_mode", "save", "remote", "check", "timeout"}
SYMMETRY Brokers
INVARIANTS
    TypeOK
    SuspensionsBalanced
    ServicesFollowConfig
