SPECIFICATION EnrollSpec
CONSTANTS
  User = {u1}
  Invite = {i1}
  AgentToken = {t1, t2}
  MaxKills = 2
  Dial = {d1, d2}
  NoToken = NoToken
SYMMETRY StoreSymmetry
INVARIANTS EnrollTypeOK FileCurrent IssuedSurvives InviteOnce TokenOnceIfSaved OneEnrollment ConsumedIsAccountedFor
