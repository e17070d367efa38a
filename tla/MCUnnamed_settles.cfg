SPECIFICATION FairSpec
CONSTANTS
    g1 = g1  g2 = g2  g3 = g3  p1 = p1  none = none
    Getter = {g1, g2}
    Putter = {p1}
    NoPid = none
    SEM_NUM = 2
    REPORTS = 4
    MaxRuns = 2
PROPERTIES MonitorSettles
CHECK_DEADLOCK FALSE
