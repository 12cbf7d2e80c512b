SPECIFICATION PrepareSpec
CONSTANTS
    Submissions <- MCConfigs
    Plans = {"p1", "p2"}
    Coverages = {50, 80}
    Archetypes <- MCArchetypes
    SlotAnswers <- MCSlotAnswers
    JudgeBound = 3
INVARIANT TeamCoversOrIsFull
PROPERTY ReiterationIsJustified
PROPERTY PreparationEnds
