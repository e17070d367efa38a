SPECIFICATION Spec
CONSTANTS
    c1 = c1  c2 = c2  nobody = nobody
    Client = {c1, c2}
    Nobody = nobody
    BUFSIZ = 2
    MaxLine = 2
    MaxAsks <- Asks
    MaxRuns = 2
    MaxFaults = 1
INVARIANTS TypeOK EchoIsOwn AnswersAreOwn
CHECK_DEADLOCK FALSE
