SPECIFICATION Spec
CONSTANTS
    CpuCount = 2
    Threads = {t1}
    Memory = {m1}
    WorkItems = {}
    ObjectWorkItems = {}
    Syncers = {s1}
    Terminator = terminator
    Timer = timer_message
    Dpc = dpc
    Release = release
    MaxEpoch = 2
INVARIANTS
    EpochInv
    ReleasedEpochQuiet
    ReleasedEntryQuiet
    NothingStranded
    TimerMessageNotReused
