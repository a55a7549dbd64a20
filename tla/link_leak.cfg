CONSTANTS
  NLinks = 1
  Matching = {1}
  NUnlinkers = 1
  Invokers = {v1}
  ProviderLoads = 1
  DuplicateBindings = FALSE
  ByProgram = TRUE
SPECIFICATION Spec
INVARIANT RefCountExact
\* A system without open handles and providers may be at rest.
CHECK_DEADLOCK FALSE
