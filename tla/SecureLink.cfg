SPECIFICATION SecureSpec
CONSTANTS
  w1 = w1
  w2 = w2
  Key = {k1, k2, k3}
  NoKey = NoKey
  MaxKills = 2
  Writer = {w1, w2, w3}
  Nobody = Nobody
  SideOf <- MCSideOf
  Authorized = {k1}
  Capacity = 1
  MaxSend = 2
  MaxDials = 2
INVARIANTS SecureTypeOK StableIdentity PeersAgree InNonceOrder
PROPERTY ChannelsImplemented
CHECK_DEADLOCK FALSE
