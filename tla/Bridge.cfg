CONSTANTS
    Gateways = {g1}
    Texts = {t1, t2}
    User = user
    Protocols = {meshstar, meshtastic}
    Stamped = {}
    Rules <- OpenRules
    cap = 8
    ttl = 1
    max_crossings = 2
    Burst = 1
    Refill = 1
    MaxFrames = 4
    MaxClock = 2
    MaxRestarts = 1
SPECIFICATION Spec
INVARIANTS RateBound MemoryBounded CrossesOnce
CHECK_DEADLOCK FALSE
