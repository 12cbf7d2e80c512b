SPECIFICATION Spec
CONSTANTS
    Nodes = {n1, n2}
    Pids = {1, 2}
    Tasks = {t1}
    Outputs = {o1, o2}
    MaxCrashes = 2
    MaxMerges = 1
CHECK_DEADLOCK FALSE
INVARIANTS
    ReportsAgree
    CheckpointOrReport
    SoleWorker
PROPERTIES
    EndsTerminal
