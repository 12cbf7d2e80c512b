SPECIFICATION Spec
CONSTANTS
    Texts <- MCTexts
    Reads <- MCReads
    Directories <- MCDirectories
    Requests <- MCRequests
    Callers = {a1, a2}
    Nodes = {n1, n2}
    Rewrites = {"clear", "muddled"}
    Reasons = {x, y}
    ProbeRuns = 2
    Acceptance = 90
    ScoreThreshold = 30
    MaxWaves = 3
    MaxRestarts = 2
    MaxFaults = 1
CHECK_DEADLOCK FALSE
INVARIANT NoLostRepair
INVARIANT PointerNamesRecord
PROPERTY RestartIsPrecise
PROPERTY RepairEnds
