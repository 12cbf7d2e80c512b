SPECIFICATION Spec
CONSTANTS
    Calibrations = {c1, c2}
    Tasks = {t1, t2, t3}
    TenantTasks = {t3}
    AdapterCount = 3
    OracleWindow = 1
    PatchAt = 1
    BatchSize = 2
    SuppressTasks = 1
    MaxRuns = 2
    MaxFaults = 1
CHECK_DEADLOCK FALSE
INVARIANT ArmsAreStored
PROPERTY CalibrationMovesForward
PROPERTY BanditNeverRegresses
 
