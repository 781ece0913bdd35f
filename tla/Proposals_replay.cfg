CONSTANTS
  settings = settings
  rotation = rotation
  v1 = v1
  v2 = v2
  Times = {1, 2, 3, 4}
  Slots = {settings, rotation}
  Values = {v1, v2}
  Scripts <- TieScripts
  Unset = Unset
  Failed = Failed
  NoProposal = NoProposal
  ProposalsToKeep = 2
  MaxLedger = 4
SPECIFICATION Spec
INVARIANTS
  SignedMoreRecently
