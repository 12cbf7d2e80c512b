SPECIFICATION FairSpec

CONSTANTS
    Constraint = {c1}
    MaxRetries = 2
    RestartBound = 2
    Configs <- MCConfigs

INVARIANTS
    RejectionIsFinal
    DeliveredReleasesConsumer
    WaveAccounting

PROPERTIES
    TaskReported
