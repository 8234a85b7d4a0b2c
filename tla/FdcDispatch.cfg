SPECIFICATION Spec
CONSTANTS
    j1 = j1
    j2 = j2
    s1 = s1
    s2 = s2
    Job <- MCJob
    Slot <- MCSlot
    TargetRpm = 1
    Window = 1
    MaxLag = 1
    WorkerConcurrency = 2
    MaxAttempts = 2
    MaxDisturbances = 3
SYMMETRY JobsAndSlots
INVARIANTS
    TypeOK
    QuotaWindow
    GateWindow
    ReportedBeforeRetry
    WaitingIsQueued
    SecondPassOnce
PROPERTIES JobsSpec FirstComeFirstServed
