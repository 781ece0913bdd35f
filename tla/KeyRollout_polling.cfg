CONSTANTS
  k1 = k1
  k2 = k2
  KeyPairs <- TwoKeys
  Nodes = {n1}
  Handles <- OneHandle
  HandleOf <- Colliding
  Policies <- SomePolicies
  NoPolicy = NoPolicy
  NoExpiry = NoExpiry
  NoKey = NoKey
  NoClaims = NoClaims
  NoRequest = NoRequest
  Pending = Pending
  MsPerSecond = 2
  OhttpIds = 2
  OhttpBase = 10
  RefreshGap = 2
  MaxDelay = 1
  MaxSkew = 1
  MaxTime = 5
  MaxLedger = 4
  PollGap = 1
SYMMETRY KeySymmetry
SPECIFICATION RolloutSpec
INVARIANTS
  RolloutTypeOK
  ExposedKeyCached
  PublicKeyUsable
  AdvertisedExpiryHonoured
