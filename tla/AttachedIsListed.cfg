SPECIFICATION Spec
CONSTANTS
  Device = {d1}
  Conn = {c1, c2}
  Session = {}
  None = None
  Window = 1
  MaxChunk = 1
  MaxTyped = 1
  CheckOutcomes = {TRUE}

INVARIANT AttachedIsListed
