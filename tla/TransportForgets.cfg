CONSTANTS
    SeqSpace = 8
    WINDOW = 4
    Handles = {m1, m2}
    MaxAttempts = 2
    MaxInFlight = 2
    QueueLimit = 2
    MaxSessions = 2
    MaxSkips = 0
    MaxFaults = 1
SPECIFICATION Spec
INVARIANT NeverForgotten
CHECK_DEADLOCK FALSE
