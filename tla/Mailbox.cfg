CONSTANTS
    Hosts = {h1, h2}
    Envelopes = {e1}
    Sender = sender
    Nobody = nobody
    max_delivery_attempts = 2
    MaxAttempts = 2
    OpenedLimit = 1
    MaxMoves = 2
SPECIFICATION Spec
INVARIANTS OpenedOnce DeliveredWasOpened StoredIsKept
CHECK_DEADLOCK FALSE
