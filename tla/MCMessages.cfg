SPECIFICATION AllFairSpec
CONSTANTS
    s1 = s1  s2 = s2  s3 = s3  r1 = r1  r2 = r2  none = none
    Sender = {s1, s2, s3}
    Client = {s1, s2}
    Receiver = {r1, r2}
    Nothing = none
    Mtype <- Types
    Capacity = 2
    Plain = {s1}
    SIZE = 2
    QUEUE = 1
INVARIANTS TypesOK SendersComeThrough TypesInOrder FirstIsHeard
PROPERTIES DeliverySpec Delivered NobodyStarves
CHECK_DEADLOCK FALSE
