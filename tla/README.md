# A verification of the food-traceability system

The repository holds a Substrate chain with a pallet that keeps track of food
(`food-traceability-system/`) and a React page to use it
(`food-traceability-system-front-end/`). This directory holds TLA+ modules that
model both, TLC configurations that check them on small instances, and proofs
that TLAPS checks for every size. Paths below are relative to the source tree;
`lib.rs` without a directory is `pallets/food-traceability/src/lib.rs`.

    tlc -config Moves.cfg MCFoodTraceability.tla     # one run
    tlapm FoodTraceabilityProofs.tla                 # one proof module

## 1. Inventory

### The pallet (`lib.rs`, `types.rs`)

State: `FoodItem`, the lots (an amount and a hash) kept per bar code, owner and
place under a `u8` nonce; `FoodTrace`, the events by hash, each with the hash of
the event before it; `FoodMaterials`, for each bar code that was produced, the
materials it was made of; `AccountGLN` and `ManufacturerLicense`, which root sets.

Operations: `produce_food`, `trade_food`, `store_food`, `transport_food`,
`set_account_gln`, `set_manufacturer_license`, and the query `get_trace`. The
first four begin with a list of checks, then loop over lots; the loops split
lots, move them to the top of another identity, relabel them in place or consume
them, and write an event for each lot they touch.

What is hard: the nonces. `get_max_nonce` counts from 0 to the first nonce
without a lot, so the whole design rests on lots without gaps; three loops run
downwards from there and unwrap what they find, one runs upwards and moves what
is left of a lot to the top, and the destination nonce is incremented in
parallel to the source's. Arithmetic on `u8` panics in a debug build and wraps in
a release build. Calls may fail after they wrote, and rely on FRAME to take it
back. Food's age is computed from strings with two-digit years.

What makes it correct: no unwrap fails; a lot is never overwritten, hidden or
lost; stock is conserved by moves and only consumed by production; stored lots
are used last; a serial item exists once; the trace of a lot is a chain of custody
that leads to where the lot is filed, and never changes; production happens under
a license in force, from fresh materials that are recorded; calls end, which two paths
of the code do not (section 5).

### The code parsers (`lib.rs:495-646`)

No state; four parsers (bar code, SSCC, GLN, license) with lengths, prefixes and
two check-digit schemes, GS1 modulo 10 and ISO 7064 MOD 11,10. What makes them
correct: the errors check digits exist for (one wrong digit, two digits swapped)
are detected wherever a check digit stands. It does not stand over the batch or serial
of a bar code, over a CZZZ license, nor over the identifier of a GLN, which is cut off.

### The page (`src/FoodTraceability.js`, `Interactor.js`, `App.js`, `substrate-lib/`, `AccountSelector.js`)

* `SubstrateContext.js` keeps a reducer: the state of the API, of the keyring, and
  the current account. It opens the connection from render, hangs three listeners
  on the API, and loads the keyring once. `App.js` shows the page only while both
  are ready. `AccountSelector.js` picks the first account and lets the user pick.
* `TxButton.js` keeps one unsubscribe function and the sudo key. A press cancels
  the subscription it holds, says "Sending...", and starts an asynchronous
  submission of one of seven types (signed, unsigned and two sudo extrinsics, query,
  RPC, constant) whose callbacks set the status of the form. `transformParams`
  and `allParamsFilled` turn the form's values into arguments. `TxGroupButton` puts
  three buttons side by side, each with hooks of its own, on one status.
* `FoodTraceability.js` has a menu and seven forms in one component, which share
  some twenty states and one status, and seven buttons, some of which are one and
  the same mounted component.
* `Interactor.js` is a form that calls anything the API offers. It keeps a type of
  interaction, a pallet, a callable and a sparse array of inputs; effects recompute
  the list of callables and the fields from the API's metadata after each change. An
  extrinsic has the group of buttons, the other three types share one button. `App.js`
  has it commented out (lines 77-89); it is modelled as `App.js` would show it.

What is hard: a press during a pending submission, a change of form, of account or
of connection during one, promises that reject where nobody catches, inputs that React does not control,
lists and fields that follow the form's state one effect later, a query that goes on
answering after the form has moved on. What makes it correct: the status tells of the
latest submission, a sudo call is signed by the sudo key, the picked account stays
picked, a reconnection is noticed, a button that can be pressed calls something that
exists, and what was typed is what is sent.

### How they interact

The page submits signed calls, sudo calls and an RPC to the node
(`polkadot.js`). The node's executive runs each call of a block to its end inside
a storage layer: it commits if the call returns `Ok` and rolls back otherwise. The
RPC calls `get_trace` through the runtime API on the best block. Sudo dispatches
the root calls. Nothing else writes the pallet's storage.

### Not modelled

* The runtime's and the node's wiring (`runtime/`, `node/`): configuration of Aura,
  GRANDPA, sudo and networking, which are libraries.
* The RPC and the runtime API: they keep no state and forward `get_trace`, which is the
  core's `GetTrace`, at the best block. Which block is the best one is consensus.
* The template pallet: the runtime does not contain it (`runtime/src/lib.rs` has its
  import, its configuration and its place in `construct_runtime!` commented out at
  lines 53, 283 and 310). `TemplateModule.js`, its page, is commented out in `App.js`.
* `Balances.js`, `Transfer.js`, `Upgrade.js` and `Events.js`: commented out in `App.js`.
* `PoeModule.js`: imported nowhere; it asks `useSubstrate()` for an `api`, which the
  context does not offer (the API is in its `state`).
* `BlockNumber.js`, `Metadata.js` and `NodeInfo.js` are on the page. Their effects run
  when they are mounted, and they are unmounted only when the page is, after the socket
  was lost. Whether a cleanup meets a promise that has not resolved is then decided in
  polkadot.js, not in this repository.
* The rendering of events as text, and polkadot.js's encoding of arguments.

PROJECT.json lists every component with its status.

## 2. Modules

| module | models | extends |
|---|---|---|
| `FoodTraceability` | the pallet | |
| `FoodTraceabilityProperties` | what it promises | `FoodTraceability` |
| `FoodLedger` | the abstract stock ledger it implements | |
| `MCFoodTraceability` | instances for TLC | the properties |
| `FoodCodes` | one parse, byte by byte | |
| `CodeSlips` | a label and what was typed for it, parsed side by side | `FoodCodes`, and an INSTANCE of it |
| `MCCodeSlips` | short codes for TLC | `CodeSlips` |
| `SubstrateContext` | connection, keyring, account, gate | |
| `TxButton` | presses and submissions, in seven types | `SubstrateContext` |
| `TxParams` | what the button makes of its form's parameters | |
| `FoodPage` | menu, mounts, page; properties | `TxButton` |
| `FoodForms` | the forms' state, handlers and arguments; properties | `TxParams` |
| `Interactor` | the interactor's form, effects and buttons; properties | `TxButton`, `TxParams` |
| `MCInteractor` | an API of a few calls for TLC | `Interactor` |
| `FoodTraceabilityProofs` | theorems about the pallet: types, records, licenses, materials, progress | the properties |
| `StockProofs` | theorems about its lots and amounts, and the refinement of the ledger | `FoodTraceabilityProofs` |
| `CustodyProofs` | theorems about its histories | `FoodTraceabilityProofs` |
| `CodeProofs` | theorems about the parsers | `CodeSlips` |
| `ButtonProofs` | lemmas about every form that submits with these buttons | `TxButton` |
| `PageProofs`, `InteractorProofs` | theorems about the two forms of buttons | the form and `ButtonProofs` |
| `FormsProofs` | theorems about the forms' state | `FoodForms` |

### The pallet

`FoodTraceability` has one action per call that runs its checks in the code's order
(`Reject` returns the first that fails), one action per iteration of each loop, one
for the loop's end, and `Commit` and `Rollback` for FRAME. `FoodItem`, `FoodTrace`
and `FoodMaterials` are the storage as the running call sees it; `committed` is the
database. `pc` says which loop the call is in and `call` holds its locals. Lots are
records; `NoLot` stands for an absent key. Hashes are terms of what they hash
(Blake2 is taken to have no collisions), so the same food, event and time give the
same hash, as in the code; `NoHash`, the parent of a first event, is no such term. Time stamps are ticks modulo a century.
`GetTrace` is asked of lots that are held; its refusals, for a code that does not parse or
a lot that is not there, come before it reads a trace and are left out.

The codes, accounts and licenses are model values: a parser's verdict on an
argument is its membership in a set, and `Malformed` is what every parser rejects.
`FoodCodes` opens that abstraction up. `NonceMod` is the number of nonces (256 in
the code), `OverflowChecks` chooses between a debug and a release build, and
`SelfMoves` says whether a call may name its caller as buyer, or the origin as
destination. The last one is a restriction of the inputs, not of the code: the
code has no such check, and the run `self_move` shows what follows.

Nothing interleaves with a call: the executive applies one extrinsic at a time, so
`Dispatch` and `Tick` wait for `pc = "idle"`. The steps within a call are separate
so that termination, unwraps and overwritten lots can be stated where they happen.

### The parsers

`FoodCodes` chooses a byte when the parser reads it, so that a code of any length is
a behaviour; digits stand for themselves and six letters for the others.
`CodeSlips` runs two copies in step, on equal bytes but for one wrong digit or two
neighbours under a check digit that changed places. The wrong digit may stand anywhere:
in the part read byte by byte, in the identifier a code starts with, or in the one before
the suffix.

### The page

`SubstrateContext` has an action per listener and per step of the loading of the
keyring; the socket, the metadata and the extension are the environment. A
reconnection dispatches CONNECT and then CONNECT_SUCCESS; React 17 renders on each
dispatch that comes from outside an event handler, so the page is taken down and put up
again, and `page` counts that. `TxButton` keeps one record per submission: its type,
the place among the form's buttons (`Slots`: one for the page's forms, four for the
interactor's), the mount and the page it was made in, the account in its closure, and
where its promise or subscription is. Its setters have no effect once what they belong
to was unmounted. Types differ in what the code makes them differ in: who signs, whether
`setUnsub` gets a function or a promise, whether a rejection is caught, and whether an
answer is the last one. `FoodPage` adds the menu; `Position` is the index of the button's field in
each form, by which React decides whether a button survives a change of form (produce
and transport share one, trade, store and the QR code one, the two sudo forms one).

`Interactor` puts the same buttons under a form whose metadata is the constant `Api`. The
effects of a render run before the next event, so `updateCallables` and
`updateParamFields` are conjuncts of the handlers; without a pallet the list of
callables stays what it was, as in the code. Each input carries, as a history, the call
and the field it was typed for. The page's gate and its remounts are those of `FoodPage`.

`FoodForms` leaves submissions aside and models what the forms hold: twenty states,
the rows of materials, and what the browser shows in the inputs without `value`. An
argument is a record with the JavaScript type that `transformParams` looks at. `TxParams`
says which positions of the list it builds are filled and what goes there, where the code
appends in a fold.

## 3. Runs

| run | question | answer |
|---|---|---|
| `moves` | Splitting and merging one batch by trades, stores and transports, in a debug build and between distinct identities: are lots gapless, unhidden, never overwritten, stored ones first, and is "insufficient inventory" only said when it is true? | yes |
| `production` | Food made of materials (one material listed twice among them), and a serial item: are materials recorded, fresh, does each iteration bring its call nearer the end, and does the pallet implement `FoodLedger`? | yes |
| `release` | With wrapping nonces and moves of a lot to where it is: what still holds? | unwraps, single serial items, chain of custody, immutable traces; and a call ends unless it meets a stored lot in `store_food` or counts the nonces of an identity that has none free, be it at its start or at a material |
| `registration` | From the empty chain, root calls between the others, every rejected argument | types, licenses, and that only bound accounts dispose of stock, what was sold to an account without a GLN included |
| `codes` | A label and a slip, under every parser | a wrong digit is seen but in a batch or serial, the number of a CZZZ license and the last of a GLN's identifier; swapped neighbours under a check digit, but for the stated differences |
| `page` | Two submissions with a change of form, of account and a lost connection | see below |
| `forms` | Four edits in any order with changes of form | what is entered is sent; what an uncontrolled input shows is sent, but for a lot number nobody has typed yet, which may be another form's amount, and a blank one may stand over a value that is held and sent |
| `interactor` | Choices, entries and presses of every type of button: does a button that can be pressed call something that exists with what was typed for it, and whose subscription and status is it? | yes, but for the stated orphans |
| `self_move` | violation: `MaxNonceIsMax` | a lot moved to where it is leaves a gap |
| `nonce_wrap` | violation: `NoCollision` | a wrapped nonce destroys a lot |
| `store_hang` | violation: `StoreReturns` | the loop of `store_food` does not end |
| `default_nonce` | violation: `OnlyEmptyIsLeftOut` | the lot number 0 is left out of the call |

`page` shows that a subscription the button on the screen cannot close belongs to a
sudo call, to a press that overlapped another, or to a button that was unmounted
(`OnlyKnownOrphans`); that a status is about the page's latest submission but for
those (`StatusIsLatest`); that sudo calls are signed by the sudo key although the
account changes during the await (`SudoSignedByKey`); that the picked account
survives reconnections (`ChosenAccountKept`); that a transaction handed to the API
does not leave "Sending..." standing while the link stays up (`SentIsReported`, of the
extrinsics, whose errors `txErrHandler` catches; an RPC that is rejected, an extension
that refuses and a call that does not encode do leave it); and that a connection is
noticed (`ReconnectIsNoticed`).

`interactor` checks the button's properties again where there are several buttons,
queries that never end and types that share a button, and two of its own: while the list
of callables may still be that of another type, a button that can be pressed names a
pallet and a callable of the API and shows the fields of that very call
(`CompleteCallExists`); and each argument handed over was typed for that parameter of that
call (`ArgumentsWereEntered`), except that an RPC leaves out what was left blank, which moves
the arguments behind it.

### Bounds

Pallet runs have two accounts and two GLNs (every relation between a source and a
destination, in owner and in place), one or two bar codes, amounts to 3 (so a lot is
split, used up exactly, and exceeded), and 2 to 4 nonces: enough for a split at the
top, a merge, a gap and a wrap; the code's 256 differ in nothing but size, and the
theorems hold for any number. `MaxTraces` bounds the storage that a new call may add
to (the call itself may run over it), `MaxTime` the clock; `Century` is the clock's
range, so that a stamp never repeats in these runs. `release` makes food of one material
at most, a batch, which is enough for a count over a material whose nonces are all taken.
`registration` has three traces: one to produce, one to sell to an account without a GLN,
and one for what that account would do with it. `moves` and the other runs that
start from `Registered` start where the root calls lead; `registration` starts from
the empty chain.

The parsers' lengths are shortened to 6 and 8 digits and so on, which keeps the parity
of each (the weights alternate from the right) and leaves the schemes as they are.

The page has two accounts, one of them injected and the sudo key, two submissions
(an orphan and a stale status take two), one lost connection and one remount by way
of the menu beyond the first page's. The forms have four edits: enough to add, fill, delete and add a
row, or to choose the kind and the value of two parties.

The interactor has one account, an injected one that holds the sudo key (changes of
account and lost connections are the page's), two submissions and six edits: enough to
choose a pallet, a callable and an input, to press, to change the type, and to complete
another call. Its API has two calls of one pallet, pallets that two types share, an
optional field before another one (as the repository's own RPC has), and calls of no
fields.

### Fairness and deadlock

The pallet has `WF_vars(Proceed)`: the executive runs a dispatched call to its end,
and nobody has to submit one. `SkipStoredLot` and `Spin` change nothing, as in the
code, so fairness does not save a loop that does not advance. The page has weak
fairness for rendering, and, while the link is up, for an API that serves its metadata and
settles its promises, and for an open subscription that reports; nothing is assumed of the
user, the extension or the socket. `Interactor`, `FoodForms` and `CodeSlips` state safety only.

`CHECK_DEADLOCK FALSE` is set where the system may stop: nobody has to submit
another call and the bounds end the behaviours (pallet), a parse ends (codes), and a
keyring that failed is never loaded again (page, interactor).

### Mutants

Each property is also run against a plausible bug: a definition of the model replaced
by the mutant next to it (`Inc` by `IncForgotten`, `Unsubscribe` by `KeepOpen`, and so
on; PROJECT.json lists them). TLC finds each property violated.

## 4. Proofs

| theorem | statement | inductive invariant |
|---|---|---|
| `FoodTraceabilityProofs!TypeCorrect`, `UnwrapsAreSafe` | `Spec => []TypeOK`, `[]UnwrapSafe` | `TypeInv` |
| `FoodTraceabilityProofs!CallsGetNearer` | `Spec => LoopsAdvance` | `TypeInv` |
| `FoodTraceabilityProofs!TraceIsImmutable` | `Spec => TraceImmutable` | `TypeInv /\ TraceInv` |
| `FoodTraceabilityProofs!ProductionIsLicensed` | `Spec => LicensedProduction` | `TypeInv /\ LicenseInv` |
| `FoodTraceabilityProofs!SerialItemIsSingle` | `Spec => []SerialSingle` | `TypeInv /\ SerialInv` |
| `FoodTraceabilityProofs!MaterialsAreRecorded` | `Spec => []MaterialsRecorded` | `... /\ MaterialInv` |
| `StockProofs!NoHiddenLot`, `NoncesAvoidCollisions` | `Spec => []MaxNonceIsMax`, `[]NoCollision` | `TypeInv /\ SerialInv /\ NonceInv` |
| `StockProofs!StoredLotsAreBelow` | `Spec => []StoredPrefix` | `... /\ PrefixInv` |
| `StockProofs!LoopsKeepAccounts`, `InsufficiencyIsTrue` | `Spec => []LoopAccounts`, `[]TrulyInsufficient` | `... /\ StockInv` |
| `StockProofs!OwnersGiveUp` | `Spec => OnlyOwnersGiveUp` | `... /\ StockInv` |
| `StockProofs!StockIsALedger` | `Spec => ImplementsLedger` | `... /\ StockInv` |
| `CustodyProofs!CustodyIsUnbroken` | `Spec => []ChainOfCustody` | `TypeInv /\ TraceInv /\ CustodyInv` |
| `CustodyProofs!HistoryIsFresh` | `Spec => []FreshHistory` | `... /\ RecipeInv` |
| `CodeProofs!CodesAreTyped` | `SlipSpec => []SlipTypeOK` | `CodeInv` |
| `CodeProofs!OneDigitIsDetected`, `SwapsAreDetected` | `SlipSpec => []DigitErrorsDetected`, `[]SwapsDetected` | `CodeInv` |
| `PageProofs!PageTypeCorrect`, `PageOrphans`, `PageStatus`, `PageSudo`, `PageAccount` | `PageSpec => []PageTypeOK`, `[]OnlyKnownOrphans`, `[]StatusIsLatest`, `[]SudoSignedByKey`, `[]ChosenAccountKept` | `PageInv` (with `ButtonInv`) |
| `InteractorProofs!InteractorTypeCorrect`, `InteractorCalls`, `InteractorOrphans`, `InteractorStatus` | `InteractorSpec => []InteractorTypeOK`, `[]CompleteCallExists`, `[]OnlyKnownOrphans`, `[]StatusIsLatest` | `InteractorInv` (with `ButtonInv`, `FormInv`) |
| `InteractorProofs!InteractorArguments` | `InteractorSpec => []ArgumentsWereEntered` | `InteractorInv` |
| `FormsProofs!FormsTypeCorrect`, `ScreenIsTrue`, `EntriesAreSent` | `FormsSpec => []FormsTypeOK`, `[]ShownIsSent`, `[]EnteredIsSent` | `FormsInv` |

They hold for every value of the constants that satisfies the named assumptions
(nonempty nonces, well-typed inputs, disjoint sets of names, code lengths of at
least two digits; texts that are none of the marks for "nothing" and for the number 0;
an API whose fields have types, none of them named null). The theorems of `StockProofs`
also assume `OverflowChecks` and `~SelfMoves`; the runs `nonce_wrap` and `self_move` show
that each is needed. All the others hold in both builds and with moves onto the same
identity.

`TypeOK` is not inductive alone: that a lot the loop takes is there follows from
`LoopLots`, that all nonces the loop has still to visit hold lots; `TypeInv` adds it.
It holds even with wrapped nonces, because putting a lot down empties no nonce and
the loop empties only the nonce it leaves. `TraceInv` says that the
hash of a food is on record only if the food was produced, that events on record
hash to their key, and that the database's record is part of the call's.
`SerialInv` adds that a loop's source and destination are of one bar code and that a
food being produced has no lot yet. `NonceInv` says that the lots of each identity
are gapless, and that during a loop the source's lots end at `srcNonce` and the
destination's at `dstNonce`. `CodeInv` follows the difference between the two parses
through the weights: after one wrong digit the two sums differ by that digit's
difference times a weight that is a unit modulo 10, and the products of MOD 11,10
differ modulo 11. A wrong digit that no check digit covers leaves the sums alike (`Alike`),
and only such a one may be accepted at the end.

`LicenseInv` keeps the license a production was admitted with equal to the one on
record until the call settles. `MaterialInv` says that during a production each lot is what it was when the
call began, or smaller with its hash kept and among the materials on record.
`PrefixInv` says that below a stored lot there are only stored ones, also in the midst
of a call, and that what the loop of `store_food` has passed is stored.

`StockInv` is the bookkeeping of a call under way, in sums over the lots of each identity
in the call's storage and in the database. In a move (`MoveInv`), what is gone from the
source is what was asked for less what is left, the destination has that much more, and
nothing else differs. In a storing (`StoringInv`) no sum differs, and the lots not yet visited
hold as much as the loop still lacks. A production (`ProductionInv`) takes only from its
maker's stock on the spot. The ledger then sees each call as one step: the
iterations of a loop change the call's storage only, which the refinement mapping does not
look at, and `Commit` is the ledger's step. Insufficiency is true because a loop that
is at its end has visited every nonce: that takes `NonceInv`, since a lot behind a gap
would count in the sum and not be found.

`CustodyInv` avoids speaking of walks. It says that some function `chain` gives each hash on
record the list of events behind it, one longer than its parent's (`Chains`); that
some function `file` gives each hash the identity its last event leads to, each event leading
from its parent's identity (`Files`); and that each lot lies under the identity of its hash
(`Lots`), in the call's storage and in the database. A new hash extends both
functions by one entry, or is on record already with the same event and parent. That
`GetTrace` answers such a chain, and that the properties about all its positions follow, is
shown once, by induction on the length. `Ages` adds that no event is later than the ones after it or
than the shelf life allows, as long as two-digit years do not wrap. `RecipeInv` says that
what is recorded of a food's materials was on record, and within its shelf life, when the
food was made.

`LoopsAdvance` is the safety half of `CallsReturn`: each iteration lowers what is left to take,
or shortens the list of materials, for every size. `TypeInv` gives it, because a lot has
a positive amount, `Smaller` takes no more of it than is there, and the source of the loop holds a lot.

Sums and chains need an induction over data. The library's theorems for it take an operator as
a parameter; `LeastElement` and `Induction` in `FoodTraceabilityProofs` state it for a set
instead, from the well-foundedness of the naturals, and the set is then the one of
the sizes for which the claim holds.

`ButtonInv` holds of every form that submits with these buttons, so it is proved once and
both forms use it: a live subscription of this mount is the one its button holds unless it is
excused (a sudo call's, or an overlapped one); while a submission is on its way no other
of its button is open unless excused, and the same holds of all submissions before the last;
a sudo call was pressed with the sudo key's account in its closure. The middle parts are what
makes it inductive: `setUnsub` overwrites what the hook held, and that loses nothing only if
the other submission was closed or is excused. `FormInv` ties the list of callables and the fields to the
pallet and the callable chosen. `FormsInv` ties every uncontrolled input to the state
behind it, row by row, but the number of the lot only from its first entry on.

In both forms' modules, lemmas about `transformParams` come first: without dropping, its list has the
fields' length and the value of each field in its place; with dropping, it is shorter
only if something was blank, and its last value is the last field's unless that was blank. `InputsBelong` (in `FormInv`) says that each input on the screen was typed for
the field it fills, of the call on the screen. `EntriesStand` (in `FormsInv`) says that what was
entered on this form is what the state holds, in each control and row.

Every invariant and action property of the passing runs is a theorem, and so is the refinement.
Model-checked only: liveness (`CallsReturn`, `SentIsReported`, `ReconnectIsNoticed`), which is
out of the prover's reach. That the four documented claims of section 5 fail is
shown by TLC's counterexamples.

## 5. What does not agree with the source's own words

* `store_food` (lib.rs:267-271): "if already stored, skip this lot" continues without
  advancing the nonce, so storing where a lot is stored already never returns.
* Moves onto the same identity (lib.rs:224): the lot is put above its own source, which
  is then removed; `get_max_nonce` counts to the gap and no call ever reaches the lot.
* `nonce += 1` on a `u8` (lib.rs:229): in a release build the "collision-avoiding
  nonce" wraps and destroys the lot at 0 when a move takes several lots.
* `transformParams` (TxButton.js:295) leaves out the number 0, which the form for the QR
  code starts its lot number with, where its comment speaks of empty parameters.

Each of these is a run that TLC finds violated. Three remarks without a run:

* `get_max_nonce` (lib.rs:487-493) wraps too in a release build, and where every nonce of
  an identity is taken it counts for ever. `CallsReturn` names this as one of two ways not
  to return, and the run `release` gets there.
* The input labelled as the lot number has `state='nonce'` where the others have a `value`
  (FoodTraceability.js:920-927): it may show the amount typed in another form, while the
  call carries the number of the state.
* `parse_sscc` (lib.rs:527-534) lets 18 bytes through its first test and refuses them all
  later.

## 6. Plan

Done: the pallet, the parsers, the page with its button and forms, and the interactor, each
with its properties; theorems for all of these but liveness, the refinement among them.

Left:

1. What the liveness properties rest on, as theorems: for `SentIsReported`, that a submission
   whose call is with the API can always be answered or has been closed; for
   `ReconnectIsNoticed`, what the reducer may hold while the socket is connected.
2. The RPC between `GetTrace` and the page's QR code: an abstract specification of a
   query at the best block, and the page composed with the pallet's verdicts. It asks for
   a model of forks, which the repository leaves to its libraries.
3. Release-build clocks past a century (`Century` smaller than `MaxTime`).
