\* The page: lost connections, changes of form and of account, overlapping presses.
SPECIFICATION PageSpec
CONSTANTS
  None = none
  Accounts = {alice, bob}
  FirstAccount = alice
  Injected = {bob}
  SudoAccount = bob
  Slots = {"form"}
  RpcStreams = FALSE
  MaxDrops = 1
  MaxSubmissions = 2
  MaxMounts = 2
INVARIANTS
  PageTypeOK OnlyKnownOrphans StatusIsLatest SudoSignedByKey ChosenAccountKept
\* A keyring that failed to load is never loaded again: the page stops there.
CHECK_DEADLOCK FALSE
PROPERTIES
  SentIsReported ReconnectIsNoticed
