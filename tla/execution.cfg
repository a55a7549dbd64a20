SPECIFICATION MCSpec
CONSTANTS
  None = None
  \* EbpfWorkQueue
  Items = {i1, i2, i3}
  Callers = {f1, f2}
  Dpc = Dpc
  \* EbpfProgram
  Programs = {p1}
  Threads = {t1, t2}
  Maps = {"m1", "m2"}
  VersionsOf <- MCVersionsOf
  Prototype <- MCPrototype
  Helpers = {"h1", "h2", "h3"}
  HelperSets <- MCHelperSets
  CompiledAgainst <- MCCompiledAgainst
  MapLists <- MCMapLists
  CodeTypes = {"JIT", "EBPF", "NATIVE"}
  MAX_TAIL_CALL_CNT = 1
  MaxRegistrations = 2
  ProgramMaxRequests = 3
  Requested = {p1}
  \* EbpfNative
  Requesters = {t1, t2}
  MapList <- MCMapList
  ProgramList <- MCProgramList
  Versions <- MCVersions
  MinimumVersion <- MCMinimumVersion
  NativeMaxRequests = 3
  MaxPins = 1
INVARIANTS
  WorkQueueSafe ProgramInv NativeInv
PROPERTIES
  Implements UnloadCompletes
\* A work queue that is destroyed and a stopped driver are at rest.
CHECK_DEADLOCK FALSE
