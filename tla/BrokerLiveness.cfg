SPECIFICATION FairSpec
CONSTANTS
  Device = {d1}
  Conn = {c1, c2}
  Session = {s1}
  None = None
  Window = 1
  MaxChunk = 1
  MaxTyped = 0
  CheckOutcomes = {TRUE}
PROPERTIES DeadAgentForgotten TerminalEnds
