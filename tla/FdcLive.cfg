SPECIFICATION FairSpec
CONSTANTS
    j1 = j1
    j2 = j2
    s1 = s1
    s2 = s2
    Job <- MCJob
    Slot <- MCOneSlot
    TargetRpm = 1
    Window = 1
    MaxLag = 0
    WorkerConcurrency = 2
    MaxAttempts = 2
    MaxDisturbances = 2
PROPERTY EveryJobEnds
