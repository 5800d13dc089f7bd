SPECIFICATION Spec
CONSTANTS
  Cells <- MCCells
  Clearing <- MCClearing
  Wires <- MCWires
  Derived <- MCDerived
  Callbacks <- MCCallbacks
  Value <- MCValue
  Zero = 0
  Compute <- MCCompute
  Resets <- MCResets
  Writes <- MCWrites
  Modify <- MCModify
  Raises <- MCRaises
CHECK_DEADLOCK FALSE
INVARIANTS TypeOK FindsCurrent
PROPERTY ImplementsSyncTick
