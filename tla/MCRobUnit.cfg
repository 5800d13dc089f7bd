SPECIFICATION Spec
CONSTANTS
  RegCount = 2
  WordSize = 4
  ByteSize = 2
  MemSize = 4
  InstSize = 2
  RobCapacity = 3
  Fresh <- Kinds
  Results = {0, 1}
CHECK_DEADLOCK FALSE
PROPERTIES ImplementsRetirement
