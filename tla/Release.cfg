\* The release build, whose nonces wrap, and calls that move a lot to where it is.
SPECIFICATION RegisteredSpec
CONSTANTS
  a1 = a1  a2 = a2  g1 = g1  g2 = g2  bat = bat  mat = mat  ser = ser  lic = lic
  Accounts = {a1, a2}
  RootOrigin = root
  GLNs = {g1, g2}
  BatchCodes = {bat}
  SerialCodes = {ser}
  SSCCs = {box}
  Licenses = {lic}
  Malformed = malformed
  None = none
  Ids = {a1, a2}
  Amounts = {1, 3}
  ShelfLives = {0}
  MaterialLists <- BatchMaterial
  NonceMod = 3
  OverflowChecks = FALSE
  SelfMoves = TRUE
  TicksPerDay = 1
  Century = 4
  MaxTime = 1
  MaxTraces = 4
INVARIANTS
  UnwrapSafe SerialSingle ChainOfCustody
PROPERTIES
  TraceImmutable CallsReturn
\* Nobody has to submit a call, and the bounds end the behaviours.
CHECK_DEADLOCK FALSE
