SPECIFICATION ServerSpec
CONSTANTS
  User = {u1}
  Invite = {i1}
  AgentToken = {t1}
  MaxKills = 1
  Browser = {b1, b2}
  Challenge = {c1, c2}
  None = None
  InviteFor <- OneUser
  Seed = {i1}
SYMMETRY ServerSymmetry
INVARIANTS   AnsweredIsKept 
 
