SPECIFICATION FairSpec
CONSTANTS
    s1 = s1  s2 = s2  r1 = r1
    Sender = {s1, s2}
    Receiver = {r1}
    Message <- MCMessage
    Nul = "0"
    MONITORING_COUNT = 5
INVARIANTS WholeAtRest ReportsAreEarned
PROPERTIES ReceiverSettles
CHECK_DEADLOCK FALSE
