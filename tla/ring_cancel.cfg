CONSTANTS
  Length = 4
  DataLengths = {1, 2}
  MaxRecords = 1
  Subscribers = {s1}
  Producers = {p1}
SPECIFICATION Spec
INVARIANT CompletedOnce
\* A map without subscribers, or a process that has ended, may be at rest.
CHECK_DEADLOCK FALSE
