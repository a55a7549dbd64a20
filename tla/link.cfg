CONSTANTS
  NLinks = 1
  Matching = {1}
  NUnlinkers = 1
  Invokers = {v1}
  ProviderLoads = 2
  DuplicateBindings = TRUE
  ByProgram = FALSE
SPECIFICATION FairSpec
INVARIANT InvocationSafe
INVARIANT LinkInv
PROPERTY CallsReturn
\* A system without open handles and providers may be at rest.
CHECK_DEADLOCK FALSE
