SPECIFICATION MCSpec
CONSTANTS
  None = None
  \* EbpfObject
  Objects = {m, o1}
  Maps = {m}
  Paths = {p}
  Threads = {t1, t2}
  IdMax = 3
  MaxHandles = 1
  \* RingBufferSubscription
  Length = 4
  DataLengths = {1, 2}
  MaxRecords = 3
  Subscribers = {s1}
  Producers = {q1, q2}
  \* EbpfCoreLoad
  Programs = {p1, p2}
INVARIANTS
  ObjectInv RingInv PartsOutliveUsers
PROPERTIES
  NoResurrection BegunEnds
\* A ring without subscribers, an ended process and a stopped execution context
\* are at rest; a call that is stuck violates BegunEnds.
CHECK_DEADLOCK FALSE
