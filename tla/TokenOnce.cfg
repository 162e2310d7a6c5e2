SPECIFICATION EnrollSpec
CONSTANTS
  User = {u1}
  Invite = {i1}
  AgentToken = {t1}
  MaxKills = 1
  Dial = {d1, d2}
  NoToken = NoToken
INVARIANT TokenOnce
