CONSTANTS
  k1 = k1
  k2 = k2
  k3 = k3
  KeyPairs <- TwoKeys
  Nodes = {n1}
  Handles <- OneHandle
  HandleOf <- Colliding
  Policies <- NoPolicies
  NoPolicy = NoPolicy
  NoExpiry = NoExpiry
  NoKey = NoKey
  NoClaims = NoClaims
  NoRequest = NoRequest
  Pending = Pending
  MsPerSecond = 1
  OhttpIds = 2
  OhttpBase = 10
  RefreshGap = 1
  MaxDelay = 0
  MaxSkew = 0
  MaxTime = 0
  MaxLedger = 3
SPECIFICATION PolledSpec
PROPERTIES
  PubkeyAnswered
