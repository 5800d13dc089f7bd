SPECIFICATION Spec
CONSTANTS
  RegCount = 3
  WordSize = 4
  ByteSize = 2
  MemSize = 4
  InstSize = 2
  RobCapacity = 2
INVARIANTS WritesOnce NoResurrection
PROPERTY ImplementsRegStore
