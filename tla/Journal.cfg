SPECIFICATION FairSpec
CONSTANTS
    Tenants = {default, acme}
    Default = default
    Interval = 2
    Explorers = 1
    MaxFaults = 1
    MaxReports = 1
    MaxLog = 3
INVARIANTS
    ConclusionReplayed
    NoProposalForgotten
PROPERTIES
    ReplayEnds
CHECK_DEADLOCK FALSE
