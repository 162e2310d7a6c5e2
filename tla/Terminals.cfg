SPECIFICATION FairSpec
CONSTANTS
  Device = {d1}
  Conn = {c1}
  Session = {s1}
  None = None
  Window = 1
  MaxChunk = 2
  MaxTyped = 2
  CheckOutcomes = {TRUE}
INVARIANTS TypeOK OutputIsPrefix InputIsPrefix
PROPERTIES LeavingReapsShell ExitClosesTerminal
