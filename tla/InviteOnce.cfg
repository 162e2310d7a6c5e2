SPECIFICATION ServerSpec
CONSTANTS
  User = {u1}
  Invite = {i1}
  AgentToken = {}
  MaxKills = 0
  Browser = {b1, b2}
  Challenge = {c1, c2}
  None = None
  InviteFor <- OneUser
  Seed = {i1}
INVARIANT InviteRegistersOnce
