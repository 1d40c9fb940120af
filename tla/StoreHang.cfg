\* Storing where a lot is stored already.
SPECIFICATION RegisteredSpec
CONSTANTS
  a1 = a1  a2 = a2  g1 = g1  g2 = g2  bat = bat  mat = mat  ser = ser  lic = lic
  Accounts = {a1, a2}
  RootOrigin = root
  GLNs = {g1, g2}
  BatchCodes = {bat}
  SerialCodes = {}
  SSCCs = {box}
  Licenses = {lic}
  Malformed = malformed
  None = none
  Ids = {a1, a2}
  Amounts = {1, 2, 3}
  ShelfLives = {0}
  MaterialLists <- NoMaterials
  NonceMod = 4
  OverflowChecks = TRUE
  SelfMoves = FALSE
  TicksPerDay = 1
  Century = 4
  MaxTime = 1
  MaxTraces = 3
PROPERTIES
  StoreReturns
\* Nobody has to submit a call, and the bounds end the behaviours.
CHECK_DEADLOCK FALSE
