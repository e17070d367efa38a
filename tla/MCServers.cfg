SPECIFICATION AllFairSpec
CONSTANTS
    c1 = c1  c2 = c2  nobody = nobody  root = root  p1 = p1  p2 = p2  p3 = p3
    Client = {c1, c2}
    NoClient = nobody
    LineLen = {1, 3}
    MaxLines = 2
    SndBuf = 2
    RcvBuf = 2
    SrvBuf = 2
    Word <- MCWord
    BUFSIZ = 4
    Process = {root, p1, p2, p3}
    Root = root
INVARIANTS TypesOK PipelineIntact AskedIsAnswered OneEchoer ChildOwnsConnection
PROPERTIES ServedClientGoesOn RequestServed QueueMoves
CHECK_DEADLOCK FALSE
