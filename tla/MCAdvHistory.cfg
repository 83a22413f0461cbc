CONSTANTS
    s1 = s1
    s2 = s2
    Mac = {s1, s2, s3, s4}
    NoMac = NoMac
    Data = {d1, x1}
    ExtData = {x1}
    NoData = NoData
    Target = {3}
    MqttTarget = 3
    MAX_ADVS_TABLE = 3
    Bucket <- OneBucket
    Hash <- OneHash
    MaxTime = 1
    MaxSamples = 1
SYMMETRY SensorSymmetry
SPECIFICATION Spec
INVARIANTS HistoryConsistent HistoryExact StatisticsExact
PROPERTIES SamplesReported EvictsOldestOnly
CHECK_DEADLOCK FALSE
