SPECIFICATION Spec
CONSTANTS
  Device = {d1, d2}
  Conn = {c1, c2}
  Session = {s1}
  None = None
  Window = 1
  MaxChunk = 1
  MaxTyped = 1
  CheckOutcomes = {TRUE, FALSE}
SYMMETRY ConnSymmetry
INVARIANTS TypeOK AgentsLive SoleLink NoGhostDevice ListedUntilRedial NoStrandedTerminal NoLeakedSession
PROPERTY ReachableIsKept
