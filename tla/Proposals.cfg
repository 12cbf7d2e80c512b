SPECIFICATION Spec
CONSTANTS
    Configs <- MCConfigs
    Texts <- MCTexts
    Words <- MCWords
    JudgeScores = {0, 40, 90}
    Step = 20
    Radius = 1
    BusyLimit = 2
    MaxWaves = 2
INVARIANT RefusalBlocks
INVARIANT WinnerNearHonest
PROPERTY ProposalsConclude
CHECK_DEADLOCK FALSE
