SPECIFICATION FairSpec
CONSTANTS
    j1 = j1  j2 = j2  j3 = j3
    NoJob = NoJob
    Jobs = {j1, j2}
    MaxFaults = 2
INVARIANTS
    TypeOK
    PingOnlyWhileWorking
    NoStatusAfterReply
    NoWaitAfterReply
    WaitTextsExplained
PROPERTIES
    StatusGoesAway
CHECK_DEADLOCK FALSE
