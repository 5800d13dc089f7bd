SPECIFICATION Spec
CONSTANTS
  Capacity = 4
  Payload = {p, q}
  Zeroed = p
INVARIANT TypeOK
PROPERTY ImplementsFifo
