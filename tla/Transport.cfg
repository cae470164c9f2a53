CONSTANTS
    SeqSpace = 8
    WINDOW = 4
    Handles = {m1, m2}
    MaxAttempts = 2
    MaxInFlight = 1
    QueueLimit = 1
    MaxSessions = 2
    MaxSkips = 1
    MaxFaults = 1
SPECIFICATION FairSpec
INVARIANTS  DeliveredWasReceived
PROPERTIES ReportedOnce EventuallyReported
CHECK_DEADLOCK FALSE
