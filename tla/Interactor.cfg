\* The pallet interactor: choices, entries and presses of every type of button.
SPECIFICATION InteractorSpec
CONSTANTS
  None = none
  Accounts = {alice}
  FirstAccount = alice
  Injected = {alice}
  SudoAccount = alice
  MaxDrops = 0
  MaxSubmissions = 2
  Slots = {"unsigned", "signed", "sudo", "single"}
  RpcStreams = TRUE
  Api <- MCApi
  Texts = {"5"}
  MaxEdits = 6
INVARIANTS
  InteractorTypeOK CompleteCallExists ArgumentsWereEntered OnlyKnownOrphans StatusIsLatest
\* A keyring that failed to load is never loaded again: the page stops there.
CHECK_DEADLOCK FALSE
