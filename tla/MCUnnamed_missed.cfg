SPECIFICATION Spec
CONSTANTS
    g1 = g1  g2 = g2  g3 = g3  p1 = p1  none = none
    Getter = {g1, g2}
    Putter = {p1}
    NoPid = none
    SEM_NUM = 5
    REPORTS = 5
    MaxRuns = 1
INVARIANTS NothingMissed
CHECK_DEADLOCK FALSE
