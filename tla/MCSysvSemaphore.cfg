SPECIFICATION Spec
CONSTANTS
    s1 = s1  s2 = s2
    Session = {s1, s2}
    Arg <- MCArg
    SEM_NUM = 2
    SEM_COUNT = 2
    SEM_BINARY = 1
    SEMVMX = 2
    Garbage <- MCGarbage
INVARIANTS PermitLedger UndoIsBounded
PROPERTIES PoolSpec ZeroMeansTaken
