SPECIFICATION FairSpec
CONSTANTS
    CpuCount = 2
    Threads = {t1}
    Memory = {}
    WorkItems = {w1}
    ObjectWorkItems = {w1}
    Syncers = {}
    Terminator = terminator
    Timer = timer_message
    Dpc = dpc
    Release = release
    MaxEpoch = 2
CHECK_DEADLOCK FALSE
PROPERTIES
    FreedIsReleased
    CallsReturn
