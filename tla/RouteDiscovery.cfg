SPECIFICATION Spec
CONSTANTS
    o = o
    a = a
    b = b
    c = c
    t = t
    Nodes <- MCNodes
    Origin = o
    Target = t
    Networks <- MCNetworks
    MaxQueued = 2
    Threshold = 2
    MaxLosses = 1
    Handles = {1, 2, 3}
    None = None
INVARIANTS RelaysImprove AnsweredOnce RoutesArrive OnlyRepairsMisname
PROPERTIES QueuedEnds
CHECK_DEADLOCK FALSE
