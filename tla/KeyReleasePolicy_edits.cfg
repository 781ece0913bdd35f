CONSTANTS
  ver = ver
  svn = svn
  unknown = unknown
  AllClaims = {ver, svn, unknown}
  Claims = {ver, svn}
  Values = {1, 2}
  Edits <- AllEdits
  Missing = Missing
  Deleted = Deleted
  Failed = Failed
  Undefined = Undefined
  NoEdit = NoEdit
  MaxLedger = 5
SPECIFICATION Spec
INVARIANTS
  TypeOK
  LastEditWins
  StatusAsConfigured
PROPERTIES
  EditsAdmitWhatTheyName
