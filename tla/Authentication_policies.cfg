CONSTANTS
  hwmodel = hwmodel
  secboot = secboot
  snp = snp
  tdx = tdx
  true = true
  false = false
  Issuers = {google, microsoft}
  Claims = {hwmodel, secboot}
  Strings = {snp, tdx}
  Others = {true, false}
  Proposed <- AllPolicies
  Tokens <- SomeTokens
  Ids = {alice}
  Unset = Unset
  Null = Null
  Undefined = Undefined
  NoAction = NoAction
  MaxLedger = 5
SPECIFICATION Spec
INVARIANTS
  TypeOK
  TokensByLastPolicy
  HoldersByLastAction
