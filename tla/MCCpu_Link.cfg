SPECIFICATION Spec
CONSTANTS
  RegCount = 3
  WordSize = 16
  ByteSize = 4
  MemSize = 16
  InstSize = 2
  RobCapacity = 4
  LsCapacity = 3
  MemTicks = 3
  AluCount = 2
  AluStations = {1, 2}
  LoadBuffers = {3}
  StoreBuffers = {4}
  Programs <- LinkPrograms
CHECK_DEADLOCK FALSE
PROPERTIES ImplementsIsa
