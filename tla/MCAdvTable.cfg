CONSTANTS
    s1 = s1
    s2 = s2
    Mac = {s1, s2, s3}
    NoMac = NoMac
    Data = {d1, d2, x1}
    ExtData = {x1}
    NoData = NoData
    Target = {2, 3}
    MqttTarget = 3
    MAX_ADVS_TABLE = 2
    Bucket <- MCBucket
    Hash <- MCHash
    MaxTime = 0
    MaxSamples = 1
SPECIFICATION Spec
INVARIANTS TypeOK ListsConsistent HashConsistent
PROPERTIES ImplementsRelay
CHECK_DEADLOCK FALSE
