SPECIFICATION AllFairSpec
CONSTANTS
    MAX_NUM = 4
    ROUNDS = 3
    PLUS_NUM = 10
    FORK_NUM = 3
INVARIANTS TypesOK SumOK JoinedResult NoZombies Understood
PROPERTIES ThreadsEnd ParentEndsOrStarves OrphansEnd
CHECK_DEADLOCK FALSE
