SPECIFICATION FairDispatch
CONSTANTS
    Agents = {a1, a2}
    Calls = {c1}
    MaxTurns = 2
    NoCall = NoCall
CHECK_DEADLOCK FALSE
INVARIANTS
    ExecutedOnce
    OkIsAnAnswer
PROPERTIES
    AnsweredCallReturns
    CallReturns
