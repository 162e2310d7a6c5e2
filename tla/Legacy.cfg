SPECIFICATION LegacySpec
CONSTANTS
  c1 = c1
  h1 = h1
  Client = {c1, c2}
  Shell = {h1}
  Capacity = 1
  MaxSid = 2
  MaxRead <- OneTypes
  Device = {d1}
  Wants <- SameDevice
  Unknown = Unknown
INVARIANTS LegacyTypeOK OnceAndInOrder OwnSession 
 
CHECK_DEADLOCK FALSE
