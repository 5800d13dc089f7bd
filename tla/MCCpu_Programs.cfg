SPECIFICATION Spec
CONSTANTS
  RegCount = 3
  WordSize = 16
  ByteSize = 4
  MemSize = 16
  InstSize = 2
  RobCapacity = 4
  LsCapacity = 3
  MemTicks = 3
  AluCount = 2
  AluStations = {1, 2}
  LoadBuffers = {3, 5}
  StoreBuffers = {4, 6}
  Programs <- CorePrograms
CHECK_DEADLOCK FALSE
INVARIANTS TypeOK RenamesYoungest WaitsForOlder NoDoubleWrite OneProducer
PROPERTIES ImplementsIsa
