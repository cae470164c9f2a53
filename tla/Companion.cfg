CONSTANTS
    MaxFrame = 20
    MaxStr = 5
    Asks <- SomeAsks
    News <- SomeNews
    ConsoleModes = {1}
    Sync = {"GetStatus", "GetMessages"}
    Texts <- OneText
    Keep = 2
    NameMax = 3
    Packet = 22
    MaxStimuli = 2
    MaxMsgs = 2
    MaxDrops = 1
    MaxRestarts = 1
    MaxTotal = 3
SPECIFICATION Spec
INVARIANTS   ShownOnce 
CHECK_DEADLOCK FALSE
