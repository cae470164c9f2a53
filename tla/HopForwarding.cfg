CONSTANTS
    s = s
    a = a
    b = b
    d = d
    Nodes <- MCNodes
    Src = s
    Dst = d
    Adjacent <- MCAdjacent
    Routes <- MCRoutes
    HopRetries = 1
    MaxTtl = 3
SPECIFICATION Spec
INVARIANTS TransmissionsBounded ConfirmedWasHeard 
CHECK_DEADLOCK FALSE
