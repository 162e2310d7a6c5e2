SPECIFICATION Spec
CONSTANTS
  Device = {d1}
  Conn = {c1}
  Session = {s1, s2}
  None = None
  Window = 1
  MaxChunk = 1
  MaxTyped = 0
  CheckOutcomes = {TRUE}
SYMMETRY SessionSymmetry
INVARIANTS NoLeakedShell TerminalHasShell OneCloser
