SPECIFICATION Spec
CONSTANTS
    CpuCount = 2
    Threads = {t1}
    Memory = {m1, m2}
    WorkItems = {}
    ObjectWorkItems = {}
    Syncers = {}
    Terminator = terminator
    Timer = timer_message
    Dpc = dpc
    Release = release
    MaxEpoch = 2
INVARIANT FreedMemoryUnused
