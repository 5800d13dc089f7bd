SPECIFICATION Spec
CONSTANTS
  RegCount = 3
  WordSize = 16
  ByteSize = 4
  MemSize = 16
  InstSize = 2
  RobCapacity = 8
  LsCapacity = 3
  MemTicks = 3
  AluCount = 2
  AluStations = {1, 2, 3, 4}
  LoadBuffers = {5, 6}
  StoreBuffers = {7}
  Programs <- BusyPrograms
CHECK_DEADLOCK FALSE
INVARIANTS SlotsSuffice NoDoubleWrite OneProducer
PROPERTIES ImplementsIsa Progresses
