SPECIFICATION Spec
CONSTANTS
  HelperCount = 3
  BusMessage = {m1, m2}
  ZeroMessage = m1
INVARIANTS TypeOK AsksWhenLoaded ClearedOut
PROPERTY ImplementsBroadcast
