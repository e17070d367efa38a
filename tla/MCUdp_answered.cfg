SPECIFICATION FairSpec
CONSTANTS
    c1 = c1  c2 = c2  nobody = nobody
    Client = {c1, c2}
    Nobody = nobody
    BUFSIZ = 2
    MaxLine = 1
    MaxAsks <- Asks
    MaxRuns = 1
    MaxFaults = 1
PROPERTIES Answered
CHECK_DEADLOCK FALSE
