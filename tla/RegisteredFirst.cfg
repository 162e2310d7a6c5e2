SPECIFICATION Spec
CONSTANTS
  Device = {d1}
  Conn = {c1}
  Session = {s1}
  None = None
  Window = 1
  MaxChunk = 1
  MaxTyped = 1
  CheckOutcomes = {TRUE}
INVARIANT RegisteredFirst
