SPECIFICATION MCSpec
CONSTANTS
  path_a = path_a
  path_b = path_b
  no_path = no_path
  \* EbpfApi
  Clients = {x1, x2}
  Paths = {path_a, path_b}
  Hooks = {1}
  Defs = {1, 2}
  MaxObjects = 8
  MaxHandles = 4
  MapDefs <- NestedMapDefs
  Inner <- NestedInner
  PinPath <- NestedPinPath
  Programs = 1
  ProgramPath <- OneProgramPath
  Directory = path_a
  NoPath = no_path
  MaxLost = 1
  MaxCalls = 4
  MaxExits = 1
  \* EbpfMapClient
  Keys = {x1, x2, x3}
  MaxEntriesPerBatch = 2
  MaxCount = 3
  MapMaxCalls = 1
  MaxElements = 3
  NoKey = NoKey
  \* NetEbpfExtSockAddr
  Endpoints = {x1, x2}
  SockAddrClients = {"connect4", "recv_accept4"}
  AttachType <- MCAttachType
  V4Ips = {a1}
  V6Ips = {b1}
  EXPIRY_TIME = 1
  LOW_MEMORY_CONNECTION_CONTEXT_COUNT = 1
  StartTimes = {0}
  TimeModulus = 16
  MaxTime = 1
  MaxConnects = 2
  \* NetEbpfExtXdp
  Packets = {packet}
  Interfaces = {1}
  XdpPaths <- MCPaths
  MaxNbls = 3
  Deltas <- MCDeltas
  MaxLength = 3
  \* NetEbpfExtLoad
  HookCount <- MCHookCount
SYMMETRY Symmetry
INVARIANTS
  ReferencesExact HandlesAccounted DefinitionsCurrent BatchExact
  SockAddrInv VerdictEnforced
  PacketsOwned ProgramSeesItsPacket ClientsAreServed
\* Every component has a bounded number of calls, and is at rest after them.
CHECK_DEADLOCK FALSE
