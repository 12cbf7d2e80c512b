SPECIFICATION FairSpec
CONSTANTS
    Explorer = {e1, e2}
    Constraint = {c1}
    MaxScore = 2
    Settings <- MCSettings
INVARIANTS
    WinnerPassedEveryGate
    CompleteWaveReportsEveryExplorer
    
    SelectedTextWasJudged
PROPERTIES
    WaveEnds
    ImplementsContract
