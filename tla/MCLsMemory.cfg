SPECIFICATION Spec
CONSTANTS
  RegCount = 1
  WordSize = 4
  ByteSize = 2
  MemSize = 4
  InstSize = 2
  LsCapacity = 4
  MemTicks = 3
  RobCapacity = 6
  HelperCount = 2
  Requests <- MCRequests
  Workloads <- MCWorkloads
INVARIANT SlotsSuffice
PROPERTIES ImplementsOrderedMemory EveryLoadAnswered
