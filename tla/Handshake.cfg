CONSTANTS
    Handles1 = {1}
    Handles2 = {2, 3}
    MaxEphemerals = 4
    EpochSpace = 2
    QueueLimit = 1
    M1Attempts = 2
    NoticeAttempts = 2
    M3Resends = 1
SPECIFICATION FairSpec
INVARIANTS KeysInstalledOnce EndsAgree CrossedOpenResolved
 
CHECK_DEADLOCK FALSE
