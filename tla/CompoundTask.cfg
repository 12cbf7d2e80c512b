SPECIFICATION FairSpec
CONSTANTS
    MaxSubtasks = 3
    MaxDeps = 2
INVARIANTS
    StartsWithEveryDependency
    WavesAreIndependent
    ApprovedPlansSchedule
PROPERTIES
    NoStartAfterFailure
    Terminates
