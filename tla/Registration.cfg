\* Root binds accounts and licenses while food is made, moved and rejected.
SPECIFICATION Spec
CONSTANTS
  a1 = a1  a2 = a2  g1 = g1  g2 = g2  bat = bat  mat = mat  ser = ser  lic = lic
  Accounts = {a1, a2}
  RootOrigin = root
  GLNs = {g1, g2}
  BatchCodes = {bat}
  SerialCodes = {}
  SSCCs = {box}
  Licenses = {lic, lic2}
  Malformed = malformed
  None = none
  Ids = {a1, g2, malformed}
  Amounts = {0, 1, 2}
  ShelfLives = {0}
  MaterialLists <- NoMaterials
  NonceMod = 2
  OverflowChecks = TRUE
  SelfMoves = FALSE
  TicksPerDay = 1
  Century = 4
  MaxTime = 0
  MaxTraces = 3
INVARIANTS
  TypeOK
PROPERTIES
  LicensedProduction OnlyOwnersGiveUp
\* Nobody has to submit a call, and the bounds end the behaviours.
CHECK_DEADLOCK FALSE
