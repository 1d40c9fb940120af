-------------------------- MODULE SubstrateContext --------------------------
(***************************************************************************)
(* The connection of the front end to the node: the reducer state of       *)
(* SubstrateContext.js, the listeners it hangs on the API object, the      *)
(* loading of the keyring, the account AccountSelector.js sets, and the    *)
(* gate in App.js that shows the page only while both are ready.           *)
(*                                                                         *)
(* The socket itself, the metadata, the browser extension and the keyring  *)
(* are libraries: their steps are modelled from the listeners and the      *)
(* promises that wait for them.  React 17 renders at once when a listener  *)
(* dispatches, so a listener that dispatches CONNECT and, one microtask    *)
(* later, CONNECT_SUCCESS has taken the page down and put it up again.     *)
(***************************************************************************)
EXTENDS Naturals

CONSTANTS Accounts,        \* addresses of the pairs in the keyring
          FirstAccount,    \* keyring.getPairs()[0]
          None,            \* JavaScript's null
          MaxDrops         \* bound: how often the socket is lost

ASSUME ContextAssumption ==
  /\ FirstAccount \in Accounts
  /\ None \notin Accounts
  /\ MaxDrops \in Nat

VARIABLES apiState, keyringState, currentAccount,   \* the reducer's state
          keyringLoadAll,                           \* the module's flag
          link,       \* the web socket: "up" or "down"
          isReady,    \* the API's promise isReady has resolved
          loading,    \* where asyncLoadAccounts waits
          page,       \* how many times the page has been mounted
          drops,      \* how often the socket was lost
          chosen      \* history: the account the user last picked

reducerState == <<apiState, keyringState, currentAccount>>
contextVars == <<reducerState, keyringLoadAll, link, isReady, loading, page, drops, chosen>>

ApiState == {"null", "CONNECT_INIT", "CONNECTING", "READY", "ERROR"}
KeyringState == {"null", "LOADING", "READY", "ERROR"}

ContextTypeOK ==
  /\ apiState \in ApiState /\ keyringState \in KeyringState
  /\ currentAccount \in Accounts \cup {None} /\ chosen \in Accounts \cup {None}
  /\ keyringLoadAll \in BOOLEAN /\ isReady \in BOOLEAN
  /\ link \in {"up", "down"}
  /\ loading \in {"no", "extensions", "chain"}
  /\ page \in Nat /\ drops \in 0 .. MaxDrops
  /\ keyringLoadAll <=> keyringState # "null"
  /\ loading # "no" <=> keyringState = "LOADING"

ContextInit ==
  /\ apiState = "null" /\ keyringState = "null" /\ currentAccount = None
  /\ keyringLoadAll = FALSE
  /\ link = "down" /\ isReady = FALSE /\ loading = "no"
  /\ page = 0 /\ drops = 0 /\ chosen = None

(* App's Main: the page, and not the message or one of the loaders. *)
Shown(api, ring) == api = "READY" /\ ring = "READY"
shown == Shown(apiState, keyringState)

(* A page that is shown after a step that took it down, or showed none.    *)
Mounts(api, ring) == page' = IF Shown(api, ring) THEN page + 1 ELSE page

-----------------------------------------------------------------------------
(* The connection. *)

Connect ==
  /\ apiState = "null"
  /\ apiState' = "CONNECT_INIT"
  /\ UNCHANGED <<keyringState, currentAccount, keyringLoadAll, link, isReady, loading, page,
                 drops, chosen>>

(* A mutant of Connected that waits for the event 'ready' alone.          *)
ConnectedWithoutCheck ==
  /\ apiState # "null" /\ link = "down"
  /\ link' = "up"
  /\ apiState' = "CONNECTING"
  /\ UNCHANGED <<keyringState, currentAccount, keyringLoadAll, isReady, loading, page, drops,
                 chosen>>

(* 'connected': CONNECT, and CONNECT_SUCCESS as soon as isReady resolves,  *)
(* which it has already when this is a reconnection.                       *)
Connected ==
  /\ apiState # "null" /\ link = "down"
  /\ link' = "up"
  /\ apiState' = IF isReady THEN "READY" ELSE "CONNECTING"
  /\ Mounts(apiState', keyringState)
  /\ UNCHANGED <<keyringState, currentAccount, keyringLoadAll, isReady, loading, drops, chosen>>

(* The metadata is there: the promise isReady and the event 'ready', which *)
(* is emitted this once.                                                   *)
Ready ==
  /\ link = "up" /\ ~isReady
  /\ isReady' = TRUE
  /\ apiState' = "READY"
  /\ Mounts(apiState', keyringState)
  /\ UNCHANGED <<keyringState, currentAccount, keyringLoadAll, link, loading, drops, chosen>>

(* The socket closes.  Nobody listens to 'disconnected'; if the socket     *)
(* failed there is an 'error' too.                                         *)
Disconnected ==
  /\ link = "up" /\ drops < MaxDrops
  /\ link' = "down" /\ drops' = drops + 1
  /\ apiState' \in {apiState, "ERROR"}
  /\ UNCHANGED <<keyringState, currentAccount, keyringLoadAll, isReady, loading, page, chosen>>

(* 'error': an attempt to connect, or to connect again, fails.             *)
ConnectError ==
  /\ apiState # "null" /\ link = "down"
  /\ apiState' = "ERROR"
  /\ UNCHANGED <<keyringState, currentAccount, keyringLoadAll, link, isReady, loading, page,
                 drops, chosen>>

-----------------------------------------------------------------------------
(* The keyring. *)

(* A mutant of LoadAccounts without the dispatch of LOAD_KEYRING. *)
LoadAccountsSilently ==
  /\ apiState = "READY" /\ keyringState = "null" /\ ~keyringLoadAll
  /\ keyringLoadAll' = TRUE /\ loading' = "extensions"
  /\ UNCHANGED <<reducerState, link, isReady, page, drops, chosen>>

(* The effect of the provider, run after every render. *)
LoadAccounts ==
  /\ apiState = "READY" /\ keyringState = "null" /\ ~keyringLoadAll
  /\ keyringLoadAll' = TRUE
  /\ keyringState' = "LOADING" /\ loading' = "extensions"
  /\ UNCHANGED <<apiState, currentAccount, link, isReady, page, drops, chosen>>

(* web3Enable and web3Accounts answer. *)
ExtensionsRead ==
  /\ loading = "extensions" /\ loading' = "chain"
  /\ UNCHANGED <<reducerState, keyringLoadAll, link, isReady, page, drops, chosen>>

(* retrieveChainInfo answers and the keyring is filled. *)
KeyringLoaded ==
  /\ loading = "chain" /\ link = "up"
  /\ loading' = "no" /\ keyringState' = "READY"
  /\ Mounts(apiState, keyringState')
  /\ UNCHANGED <<apiState, currentAccount, keyringLoadAll, link, isReady, drops, chosen>>

(* One of the three promises rejects; nothing tries again. *)
KeyringError ==
  /\ loading # "no"
  /\ loading' = "no" /\ keyringState' = "ERROR"
  /\ UNCHANGED <<apiState, currentAccount, keyringLoadAll, link, isReady, page, drops, chosen>>

-----------------------------------------------------------------------------
(* The account. *)

(* A mutant of InitialAccount that runs on every mount.                    *)
AccountOnMount ==
  /\ shown
  /\ currentAccount' = FirstAccount
  /\ UNCHANGED <<apiState, keyringState, keyringLoadAll, link, isReady, loading, page, drops,
                 chosen>>

(* The effect of the account selector, run each time the page is mounted.  *)
(* Clearing the dropdown asks the keyring for the pair of '' and throws:   *)
(* it changes nothing.                                                     *)
InitialAccount ==
  /\ shown /\ currentAccount = None
  /\ currentAccount' = FirstAccount
  /\ UNCHANGED <<apiState, keyringState, keyringLoadAll, link, isReady, loading, page, drops,
                 chosen>>

ChooseAccount(a) ==
  /\ shown
  /\ currentAccount' = a /\ chosen' = a
  /\ UNCHANGED <<apiState, keyringState, keyringLoadAll, link, isReady, loading, page, drops>>

ContextNext ==
  \/ Connect \/ Connected \/ Ready \/ Disconnected \/ ConnectError
  \/ LoadAccounts \/ ExtensionsRead \/ KeyringLoaded \/ KeyringError
  \/ InitialAccount
  \/ \E a \in Accounts : ChooseAccount(a)

(* The page renders itself, and a node that is connected serves its        *)
(* metadata.  Nothing is assumed of the socket, the extension or the user. *)
ContextFairness == WF_contextVars(Connect) /\ WF_contextVars(Ready)
=============================================================================
