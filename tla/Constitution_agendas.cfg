CONSTANTS
  m1 = m1
  m2 = m2
  m3 = m3
  n1 = n1
  n2 = n2
  code1 = code1
  code2 = code2
  did = did
  feed1 = feed1
  feed2 = feed2
  ca = ca
  google = google
  keys1 = keys1
  keys2 = keys2
  modA = modA
  modB = modB
  url = url
  cert = cert
  Members = {m1, m2, m3}
  Nodes = {n1, n2}
  Agendas <- AllAgendas
  Failed = Failed
  Undefined = Undefined
  MaxDays = 2
  MaxOpen = 2
  SetUp <- Started
SPECIFICATION Spec
INVARIANTS
  TypeOK
  TrustedNodesEndorsed
  SigningKeysOfIssuers
  AppConsistent
PROPERTIES
  EnoughRecoveryMembers
  NoShareForFormerMembers
  RetiredForGood
  DecidedOnKnownTerms
