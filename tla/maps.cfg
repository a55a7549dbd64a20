SPECIFICATION MCSpec
CONSTANTS
  None = None
  \* EbpfLruMap
  Keys = {1, 2, 3}
  BucketCount = 2
  BucketOf <- BucketOfKey
  MaxEntries = 2
  Data = {1, 2, 3, 4, 5, 6}
  Threads = {0, 1}
  AllocationFails <- FailsIfPlain
  PartitionCount = 2
  CpuOf <- CpuOfThread
  Ticks = {1}
  Budget <- BudgetOfTable
  \* EbpfMaps
  Types = {"HASH", "ARRAY", "PROG_ARRAY", "ARRAY_OF_MAPS", "HASH_OF_MAPS", "LPM_TRIE", "QUEUE", "STACK"}
  MapMaxEntries = 3
  MapKeys = {1, 2, 3}
  Values = {1, 2}
  KeyBits = 2
  BITS_IN_BLOCK = 2
  Byte = 256
  Objects = {11, 12, 13, 14}
  ObjectOf <- MCObject
  BatchSize = 2
  MapBudget <- BudgetOfMap
  \* RingBufferSubscription
  Length = 4
  DataLengths = {1, 2}
  MaxRecords = 1
  Subscribers = {s1, s2}
  Producers = {p1}
INVARIANTS
  HashMapInv ReapMakesRoom RingShared ObjectMapInv LongestPrefix WalkComplete
PROPERTY CircularIsSequence
\* Every component has a bounded number of calls, and is at rest after them.
CHECK_DEADLOCK FALSE
