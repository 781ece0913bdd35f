CONSTANTS
  k1 = k1
  k2 = k2
  app = app
  vm = vm
  ver = ver
  google = google
  hwmodel = hwmodel
  snp = snp
  tdx = tdx
  KeyPairs <- TwoKeys
  Nodes = {n1}
  Rotations <- SomeRotations
  NoExpiry = NoExpiry
  NoKey = NoKey
  MsPerSecond = 1
  OhttpIds = 2
  OhttpBase = 10
  MaxTime = 1
  AllClaims = {ver}
  Claims = {ver}
  Values = {0, 1, 2}
  Edits <- SomeEdits
  Missing = Missing
  Deleted = Deleted
  Failed = Failed
  NoEdit = NoEdit
  Issuers = {google}
  TokenClaims = {hwmodel}
  Strings = {snp, tdx}
  Others = {}
  JwtPolicies <- SomeJwtPolicies
  Payloads <- SomePayloads
  Null = Null
  Undefined = Undefined
  Unset = Unset
  Clients = {app, vm}
  Nobody = Nobody
  NotPem = NotPem
  Evidence <- SomeEvidence
  Callers <- SomeCallers
  Workloads <- SomeWorkloads
  TokenWorkloads <- SomeTokenWorkloads
  SetUp <- Configured
  MaxLedger = 3
SPECIFICATION ReplicatedSpec
INVARIANTS
  TypeOK
PROPERTIES
  ReleasedToBound
  RevocationTakesEffect
  DistrustTakesEffect
  EntitledServed
