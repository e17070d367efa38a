SPECIFICATION FairSpec
CONSTANTS
    s1 = s1  s2 = s2  s3 = s3
    Session = {s1, s2, s3}
    SEM_NUM = 2
    SEM_VALUE_MAX = 3
INVARIANTS PermitLedger
PROPERTIES PoolSpec OnlyWaitHangs
