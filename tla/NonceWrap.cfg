\* More moves into one identity than there are nonces, in the release build.
SPECIFICATION RegisteredSpec
CONSTANTS
  a1 = a1  a2 = a2  g1 = g1  g2 = g2  bat = bat  mat = mat  ser = ser  lic = lic
  Accounts = {a1, a2}
  RootOrigin = root
  GLNs = {g1, g2}
  BatchCodes = {bat}
  SerialCodes = {}
  SSCCs = {box}
  Licenses = {lic}
  Malformed = malformed
  None = none
  Ids = {a1, a2}
  Amounts = {1, 2, 3}
  ShelfLives = {0}
  MaterialLists <- NoMaterials
  NonceMod = 3
  OverflowChecks = FALSE
  SelfMoves = FALSE
  TicksPerDay = 1
  Century = 4
  MaxTime = 1
  MaxTraces = 5
INVARIANTS
  NoCollision
\* Nobody has to submit a call, and the bounds end the behaviours.
CHECK_DEADLOCK FALSE
