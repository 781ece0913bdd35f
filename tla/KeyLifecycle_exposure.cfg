CONSTANTS
  k1 = k1
  k2 = k2
  k3 = k3
  KeyPairs <- ThreeKeys
  Nodes = {n1, n2}
  Handles <- OneHandle
  HandleOf <- Colliding
  Policies <- TwoPolicies
  NoPolicy = NoPolicy
  NoExpiry = NoExpiry
  NoKey = NoKey
  NoClaims = NoClaims
  NoRequest = NoRequest
  Pending = Pending
  MsPerSecond = 1
  OhttpIds = 2
  OhttpBase = 10
  RefreshGap = 1
  MaxDelay = 0
  MaxSkew = 1
  MaxTime = 3
  MaxLedger = 5
SYMMETRY StoreSymmetry
SPECIFICATION StoreSpec
INVARIANTS
  UsableKeysToldApart
PROPERTIES
  PublicKeyNeverRegresses
