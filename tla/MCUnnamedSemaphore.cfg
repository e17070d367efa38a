SPECIFICATION Spec
CONSTANTS
    g1 = g1  g2 = g2  g3 = g3  p1 = p1  none = none
    Getter = {g1, g2, g3}
    Putter = {p1}
    NoPid = none
    SEM_NUM = 2
    REPORTS = 2
    MaxRuns = 2
SYMMETRY Symmetry
INVARIANTS EntriesAreGranted IncrementsAreKept
CHECK_DEADLOCK FALSE
