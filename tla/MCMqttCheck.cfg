SPECIFICATION FairSpec
CONSTANTS
    b0 = b0
    b1 = b1
    b2 = b2
    btest = btest
    none = none
    Broker = {b0, b1, b2, btest}
    Invalid = none
    DefaultBroker = b0
    TestBroker = btest
    Cfg <- ModeCfg
    Server = {"s1"}
    Sensor = {"x", "y"}
    Event = {"check", "connect", "ethernet", "no_memory"}
INVARIANTS
    StatusMatchesClient
    SuspendedMeansStopped
PROPERTIES
    MqttWaitersAreReleased
    DueReportsAreTaken
