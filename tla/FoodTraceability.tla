-------------------------- MODULE FoodTraceability --------------------------
(***************************************************************************)
(* The food-traceability pallet                                            *)
(* (food-traceability-system/pallets/food-traceability/src/lib.rs).        *)
(*                                                                         *)
(* A *lot* is one FoodItem entry: an amount and the hash that heads the    *)
(* lot's chain of trace events.  Lots are kept per identity (bar code,     *)
(* owner GLN, location GLN) under a u8 nonce.  The four food calls split,  *)
(* merge, move and relabel lots in loops over those nonces; the two root   *)
(* calls bind accounts to GLNs and GLNs to licenses.                       *)
(*                                                                         *)
(* A call runs inside FRAME's storage layer: its writes go to FoodItem,    *)
(* FoodTrace and FoodMaterials here, while `committed' is what the         *)
(* database holds; Commit publishes the writes, Rollback drops them.  The  *)
(* checks of a call and every iteration of its loop are separate steps, so *)
(* that termination and the values met inside a loop can be stated.        *)
(***************************************************************************)
EXTENDS Integers, Sequences, FiniteSets

CONSTANTS
  Accounts, RootOrigin, (* signed origins, and the origin sudo dispatches with  *)
  GLNs,                 (* global location numbers that pass parse_gln          *)
  BatchCodes,           (* BarCode::GtinBatch                                   *)
  SerialCodes,          (* BarCode::GtinSerial                                  *)
  SSCCs, Licenses,
  Malformed,            (* an input every parser rejects                        *)
  None,                 (* Option::None, an absent value                        *)
  Ids,                  (* the Id<AccountId> arguments offered to the calls     *)
  Amounts, ShelfLives,  (* the amounts and shelf lives offered to the calls     *)
  MaterialLists,        (* the lists of <<raw bar code, amount>> offered        *)
  NonceMod,             (* number of nonces: 256, the width of u8               *)
  OverflowChecks,       (* TRUE: `nonce += 1' panics (debug); FALSE: it wraps   *)
  SelfMoves,            (* calls may name the caller as buyer, or one place as  *)
                        (* origin and destination                               *)
  TicksPerDay, Century, (* clock ticks of a day, and of the century in which    *)
                        (* the two-digit year of a time stamp is unique         *)
  MaxTime, MaxTraces    (* bounds: the clock, and the size of FoodTrace         *)

BarCodes == BatchCodes \cup SerialCodes
Identity == BarCodes \X GLNs \X GLNs     \* bar code, owner, location
Nonces   == 0 .. (NonceMod - 1)

ASSUME NonceAssumption ==
  /\ NonceMod \in Nat \ {0}
  /\ OverflowChecks \in BOOLEAN
  /\ SelfMoves \in BOOLEAN

ASSUME InputAssumption ==
  /\ Ids \subseteq Accounts \cup GLNs \cup {Malformed}
  /\ Amounts \subseteq Nat
  /\ ShelfLives \subseteq Nat
  /\ MaterialLists \subseteq Seq((BarCodes \cup {Malformed}) \X Nat)

ASSUME DistinctAssumption ==
  /\ BatchCodes \cap SerialCodes = {}
  /\ Accounts \cap GLNs = {}
  /\ RootOrigin \notin Accounts
  /\ Malformed \notin Accounts \cup GLNs \cup BarCodes \cup SSCCs \cup Licenses
  /\ None \notin GLNs \cup Licenses \cup SSCCs

ASSUME ClockAssumption ==
  /\ TicksPerDay \in Nat \ {0}
  /\ Century \in Nat \ {0}
  /\ Century % TicksPerDay = 0
  /\ MaxTime \in Nat
  /\ MaxTraces \in Nat

VARIABLES
  FoodItem,             (* Identity -> nonce -> lot, NoLot where there is none  *)
  FoodTrace,            (* hash -> [event, parent], on the hashes inserted      *)
  FoodMaterials,        (* bar code -> Seq(<<bar code, hash>>), on those made   *)
  AccountGLN,           (* account -> GLN or None                               *)
  ManufacturerLicense,  (* GLN -> license or None                               *)
  now,                  (* the timestamp pallet's clock, in ticks               *)
  committed,            (* the storage the calls' writes are layered over       *)
  pc,                   (* where the executing call is                          *)
  call,                 (* its local variables                                  *)
  result                (* the event or the error it returned                   *)

storage == <<FoodItem, FoodTrace, FoodMaterials>>
admin   == <<AccountGLN, ManufacturerLicense>>
vars    == <<storage, admin, now, committed, pc, call, result>>

(***************************************************************************)
(* Data: hashes are free terms of what they hash (Blake2 without           *)
(* collisions), so a Link can be neither a RootHash nor another Link.      *)
(***************************************************************************)
RootHash(bar)     == [item |-> bar]
LinkEvent(event, hash) == [head |-> event, tail |-> None]     \* mutant: the event alone
Link(event, hash) == [head |-> event, tail |-> hash]
NoHash            == [hash |-> None]     \* Option::None where there may be a hash

Lot(n, h)         == [held |-> TRUE, amount |-> n, hash |-> h]
NoLot             == [held |-> FALSE, amount |-> 0, hash |-> None]   \* no such key
Orphan(ev, parent) == [event |-> ev, parent |-> NoHash]       \* mutant: the chain is cut
Trace(ev, parent) == [event |-> ev, parent |-> parent]

\* The identity lots are filed under; the mutant takes one GLN for the other.
HoldingSwapped(bar, owner, place) == <<bar, place, owner>>
Holding(bar, owner, place)        == <<bar, owner, place>>

\* A material on record; the mutant names its production, not the lot's chain.
MaterialRoot(bar, hash) == <<bar, RootHash(bar)>>
Material(bar, hash)     == <<bar, hash>>

Insert(items, id, nonce, lot) == [items EXCEPT ![id][nonce] = lot]
Remove(items, id, nonce)      == Insert(items, id, nonce, NoLot)

Wanted(a, b)      == b                       \* mutant of Smaller: more than there is
Smaller(a, b)     == IF a < b THEN a ELSE b
Put(f, k, v)      == [x \in DOMAIN f \cup {k} |-> IF x = k THEN v ELSE f[x]]

\* The two-digit year makes a stamp repeat after a century.
Stamp(t) == t % Century
Day(t)   == t \div TicksPerDay

Events == {"FoodProduced", "FoodTraded", "FoodStored", "FoodTransported",
           "AccountGlnSet", "ManufacturerLicenseSet", "ManufacturerLicenseUnset"}

(***************************************************************************)
(* The checks.  Each yields Ok or the error its `?' returns.               *)
(***************************************************************************)
Ok == "ok"

MetadataError(origin) ==
  IF origin \notin Accounts THEN "TransactionUnsign"
  ELSE IF AccountGLN[origin] = None THEN "GlnNotExist" ELSE Ok

\* get_gln: an account stands for its GLN, a code for itself.
GlnError(id) ==
  IF id \in Accounts
  THEN IF AccountGLN[id] = None THEN "GlnNotExist" ELSE Ok
  ELSE IF id \in GLNs THEN Ok ELSE "GLNFormatError"

GlnOf(id) == IF id \in Accounts THEN AccountGLN[id] ELSE id

BarCodeError(raw) == IF raw \in BarCodes THEN Ok ELSE "CodeVerificationFailed"
SsccError(raw)    == IF raw \in SSCCs THEN Ok ELSE "SSCCFormatError"
RootError(origin) == IF origin = RootOrigin THEN Ok ELSE "NoRootPrivileges"

AmountError(amount, bar) ==
  IF bar \in SerialCodes /\ amount # 1 THEN "AmountSingleItemError"
  ELSE IF amount = 0 THEN "AmountZeroError" ELSE Ok

LicenseIgnored(id) == Ok                     \* mutant: no license is asked for
LicenseError(id) ==
  IF GlnOf(id) \in GLNs /\ ManufacturerLicense[GlnOf(id)] = None
  THEN "ManufacturerNoLicense" ELSE Ok

DuplicateIgnored(bar) == Ok                  \* mutant: a bar code is produced again
DuplicateError(bar) ==
  IF bar \in DOMAIN FoodMaterials THEN "BarCodeDuplicated" ELSE Ok

\* mutant: what was made is not asked for its age
ShelfLifeIgnored(bar) == IF RootHash(bar) \in DOMAIN FoodTrace THEN Ok ELSE "InsufficientInventory"

\* verify_shelf_life compares days as they are read back from the stamps.
ShelfLifeError(bar) ==
  IF RootHash(bar) \notin DOMAIN FoodTrace THEN "InsufficientInventory"
  ELSE LET made == FoodTrace[RootHash(bar)].event
       IN  IF made.kind = "Produce" /\ Day(made.time) + made.shelfLife >= Day(Stamp(now))
           THEN Ok ELSE "ShelfLifeVerifyFail"

(***************************************************************************)
(* Nonces.  get_max_nonce counts up from 0 to the first nonce without a    *)
(* lot; when there is none its `nonce += 1' overflows.                     *)
(***************************************************************************)
FreeNonces(id) == {n \in Nonces : ~FoodItem[id][n].held}
AboveEveryLot(id) == CHOOSE n \in FreeNonces(id) : \A m \in FreeNonces(id) :   \* mutant
                    m < n \/ \A k \in m .. NonceMod - 1 : ~FoodItem[id][k].held
MaxNonce(id)   == CHOOSE n \in FreeNonces(id) : \A m \in FreeNonces(id) : n <= m
Full(id)       == FreeNonces(id) = {}

Overflows(nonce) == OverflowChecks /\ nonce = NonceMod - 1
IncForgotten(nonce) == nonce                   \* mutant: no `nonce += 1'
IncTwice(nonce)  ==                           \* mutant: a move leaves a nonce out
  (nonce + (IF pc = "store" THEN 1 ELSE 2)) % NonceMod
Inc(nonce)       == (nonce + 1) % NonceMod

(***************************************************************************)
(* The frame of a call.                                                    *)
(***************************************************************************)
NoCall == [src |-> None, dst |-> None, srcNonce |-> 0, dstNonce |-> 0,
           left |-> 0, amount |-> 0, event |-> None, todo |-> <<>>]

Snapshot == [item |-> FoodItem, trace |-> FoodTrace, materials |-> FoodMaterials]

\* No food yet.
Empty ==
  /\ FoodItem = [id \in Identity |-> [n \in Nonces |-> NoLot]]
  /\ FoodTrace = [h \in {} |-> None]
  /\ FoodMaterials = [b \in {} |-> <<>>]
  /\ now = 0
  /\ committed = Snapshot
  /\ pc = "idle"
  /\ call = NoCall
  /\ result = Ok

Init ==
  /\ Empty
  /\ AccountGLN = [a \in Accounts |-> None]
  /\ ManufacturerLicense = [g \in GLNs |-> None]

Return(r) ==
  /\ pc' = "return"
  /\ result' = r

\* A new extrinsic is applied; MaxTraces bounds the storage it may add to.
Ready == pc = "idle" /\ Cardinality(DOMAIN FoodTrace) < MaxTraces

Passes(errors) == \A i \in DOMAIN errors : errors[i] = Ok

\* The first failing check of the list decides the error.
Reject(errors) ==
  /\ \E i \in DOMAIN errors :
       /\ errors[i] # Ok
       /\ \A j \in 1 .. (i - 1) : errors[j] = Ok
       /\ Return(errors[i])
  /\ UNCHANGED <<storage, admin, now, committed, call>>

\* get_max_nonce over one of ids does not come to an end.
NonceOverrun ==
  /\ IF OverflowChecks THEN Return("Panic") ELSE pc' = "spin" /\ UNCHANGED result
  /\ UNCHANGED <<storage, admin, now, committed, call>>

(***************************************************************************)
(* trade_food and transport_food: lots move from the top of one identity   *)
(* to the top of another, one iteration per lot, split if it is larger     *)
(* than what is left to move.                                              *)
(***************************************************************************)
StartMove(where, src, dst, amount, event) ==
  IF Full(src) \/ Full(dst) THEN NonceOverrun
  ELSE /\ pc' = where
       /\ call' = [NoCall EXCEPT !.src = src, !.dst = dst, !.event = event,
                                 !.srcNonce = MaxNonce(src), !.dstNonce = MaxNonce(dst),
                                 !.left = amount, !.amount = amount]
       /\ UNCHANGED <<storage, admin, now, committed, result>>

TradeFood(origin, bar, locate, buyer, amount) ==
  LET errors == <<MetadataError(origin), GlnError(locate), GlnError(buyer),
                  BarCodeError(bar), AmountError(amount, bar), ShelfLifeError(bar)>>
  IN  /\ Ready
      /\ \/ Reject(errors)
         \/ LET seller == AccountGLN[origin]
                to     == GlnOf(buyer)
            IN  /\ Passes(errors)
                /\ SelfMoves \/ seller # to
                /\ StartMove("trade", Holding(bar, seller, GlnOf(locate)), Holding(bar, to, GlnOf(locate)),
                     amount,
                     [kind |-> "Trade", seller |-> seller, buyer |-> to, time |-> Stamp(now)])

TransportFood(origin, bar, from, dest, carrier, sscc, amount) ==
  LET errors == <<MetadataError(origin), GlnError(dest), BarCodeError(bar), GlnError(carrier),
                  GlnError(from), SsccError(sscc), AmountError(amount, bar), ShelfLifeError(bar)>>
  IN  /\ Ready
      /\ \/ Reject(errors)
         \/ LET owner == AccountGLN[origin]
            IN  /\ Passes(errors)
                /\ SelfMoves \/ GlnOf(from) # GlnOf(dest)
                /\ StartMove("transport", Holding(bar, owner, GlnOf(from)), Holding(bar, owner, GlnOf(dest)),
                     amount,
                     [kind |-> "Transport", origin |-> GlnOf(from), destination |-> GlnOf(dest),
                      carrier |-> GlnOf(carrier), sscc |-> sscc, time |-> Stamp(now)])

\* What is left of a lot that the call takes from.  The mutants keep a lot that
\* was emptied, and drop the rest of one that was split.
KeepEmptied(id, n) == Insert(FoodItem, id, n,
  Lot(FoodItem[id][n].amount - Smaller(FoodItem[id][n].amount, call.left), FoodItem[id][n].hash))
DropRest(id, n) == Remove(FoodItem, id, n)
Consume(id, n) ==
  IF FoodItem[id][n].amount > call.left
  THEN Insert(FoodItem, id, n, Lot(FoodItem[id][n].amount - call.left, FoodItem[id][n].hash))
  ELSE Remove(FoodItem, id, n)

\* One iteration.  The second insertion is the later one: it wins if a wrapped
\* destination nonce meets the source nonce of the same identity.
MoveLot ==
  LET n     == call.srcNonce - 1
      lot   == FoodItem[call.src][n]
      hash  == Link(call.event, lot.hash)
      moved == Smaller(lot.amount, call.left)
  IN  /\ call.left > 0
      /\ call.srcNonce > 0
      /\ FoodTrace' = Put(FoodTrace, hash, Trace(call.event, lot.hash))
      /\ FoodItem' = Insert(Consume(call.src, n), call.dst, call.dstNonce, Lot(moved, hash))
      /\ call' = [call EXCEPT !.srcNonce = n, !.dstNonce = Inc(@), !.left = @ - moved]
      /\ IF Overflows(call.dstNonce) THEN Return("Panic") ELSE UNCHANGED <<pc, result>>
      /\ UNCHANGED <<FoodMaterials, admin, now, committed>>

\* mutant: the nonce is checked after it was decreased
FinishEarly(event) ==
  /\ \/ call.left = 0 /\ Return(event)
     \/ call.left > 0 /\ call.srcNonce <= 1 /\ Return("InsufficientInventory")
  /\ UNCHANGED <<storage, admin, now, committed, call>>

FinishLoop(event) ==
  /\ \/ call.left = 0 /\ Return(event)
     \/ call.left > 0 /\ call.srcNonce = 0 /\ Return("InsufficientInventory")
  /\ UNCHANGED <<storage, admin, now, committed, call>>

TradeLot        == pc = "trade" /\ MoveLot
FinishTrade     == pc = "trade" /\ FinishLoop("FoodTraded")
TransportLot    == pc = "transport" /\ MoveLot
FinishTransport == pc = "transport" /\ FinishLoop("FoodTransported")

(***************************************************************************)
(* store_food: lots are relabelled in place from nonce 0 upwards; the rest *)
(* of a lot stored in part goes to the top.                                *)
(***************************************************************************)
IsStored(lot) == FoodTrace[lot.hash].event.kind = "Store"

StoreFood(origin, bar, warehouse, sscc, amount) ==
  LET errors == <<MetadataError(origin), GlnError(warehouse), SsccError(sscc),
                  BarCodeError(bar), AmountError(amount, bar), ShelfLifeError(bar)>>
  IN  /\ Ready
      /\ \/ Reject(errors)
         \/ LET id == Holding(bar, AccountGLN[origin], GlnOf(warehouse))
            IN  /\ Passes(errors)
                /\ IF Full(id) THEN NonceOverrun
                   ELSE /\ pc' = "store"
                        /\ call' = [NoCall EXCEPT !.src = id, !.dst = id, !.srcNonce = 0,
                              !.dstNonce = MaxNonce(id), !.left = amount, !.amount = amount,
                              !.event = [kind |-> "Store", warehouse |-> GlnOf(warehouse),
                                         sscc |-> sscc, time |-> Stamp(now)]]
                        /\ UNCHANGED <<storage, admin, now, committed, result>>

\* The lots after lot n was stored, its rest at the top; in the mutant the stored
\* part goes there.
RelabelTop(id, n, hash) ==
  IF FoodItem[id][n].amount > call.left
  THEN Insert(Insert(FoodItem, id, call.dstNonce, Lot(call.left, hash)),
              id, n, Lot(FoodItem[id][n].amount - call.left, FoodItem[id][n].hash))
  ELSE Insert(FoodItem, id, n, Lot(FoodItem[id][n].amount, hash))
Relabel(id, n, hash) ==
  IF FoodItem[id][n].amount > call.left
  THEN Insert(Insert(FoodItem, id, n, Lot(call.left, hash)),
              id, call.dstNonce, Lot(FoodItem[id][n].amount - call.left, FoodItem[id][n].hash))
  ELSE Insert(FoodItem, id, n, Lot(FoodItem[id][n].amount, hash))

StoreLot ==
  LET n     == call.srcNonce
      lot   == FoodItem[call.src][n]
      hash  == Link(call.event, lot.hash)
  IN  /\ pc = "store"
      /\ call.left > 0
      /\ n # call.dstNonce
      /\ ~IsStored(lot)
      /\ FoodTrace' = Put(FoodTrace, hash, Trace(call.event, lot.hash))
      /\ FoodItem' = Relabel(call.src, n, hash)
      /\ call' = [call EXCEPT !.srcNonce = Inc(@), !.left = @ - Smaller(lot.amount, @)]
      /\ UNCHANGED <<FoodMaterials, admin, now, committed, pc, result>>

\* `continue' skips a stored lot, and the `nonce += 1' at the end of the body.
SkipStoredLot ==
  /\ pc = "store"
  /\ call.left > 0
  /\ call.srcNonce # call.dstNonce
  /\ IsStored(FoodItem[call.src][call.srcNonce])
  /\ UNCHANGED vars

FinishStore ==
  /\ pc = "store"
  /\ \/ call.left = 0 /\ Return("FoodStored")
     \/ call.left > 0 /\ call.srcNonce = call.dstNonce /\ Return("InsufficientInventory")
  /\ UNCHANGED <<storage, admin, now, committed, call>>

(***************************************************************************)
(* produce_food: the bar code is reserved, each material is consumed from  *)
(* the top of (material, owner, manufacturer), then the lot is created.    *)
(***************************************************************************)
ProduceFood(origin, bar, manufacturer, amount, shelfLife, materials) ==
  LET errors == <<MetadataError(origin), GlnError(manufacturer), LicenseError(manufacturer),
                  BarCodeError(bar), AmountError(amount, bar), DuplicateError(bar)>>
      maker  == GlnOf(manufacturer)
  IN  /\ Ready
      /\ \/ Reject(errors)
         \/ /\ Passes(errors)
            /\ FoodMaterials' = Put(FoodMaterials, bar, <<>>)
            /\ pc' = "produce"
            /\ call' = [NoCall EXCEPT !.dst = Holding(bar, AccountGLN[origin], maker),
                  !.amount = amount, !.todo = materials,
                  !.event = [kind |-> "Produce", manufacturer |-> maker,
                             license |-> ManufacturerLicense[maker],
                             shelfLife |-> shelfLife, time |-> Stamp(now)]]
            /\ UNCHANGED <<FoodItem, FoodTrace, admin, now, committed, result>>

\* The next material: its checks, and the nonce its consumption starts from.
NextMaterial ==
  LET bar    == Head(call.todo)[1]
      id     == Holding(bar, call.dst[2], call.dst[3])
      errors == <<BarCodeError(bar), ShelfLifeError(bar)>>
  IN  /\ pc = "produce"
      /\ call.left = 0
      /\ call.todo # <<>>
      /\ \/ bar \in BarCodes /\ Full(id) /\ NonceOverrun
         \/ ~(bar \in BarCodes /\ Full(id)) /\ Reject(errors)
         \/ /\ Passes(errors)
            /\ ~Full(id)
            /\ call' = [call EXCEPT !.src = id, !.srcNonce = MaxNonce(id),
                          !.left = Head(call.todo)[2], !.todo = Tail(@)]
            /\ UNCHANGED <<storage, admin, now, committed, pc, result>>

ConsumeLot ==
  LET n   == call.srcNonce - 1
      lot == FoodItem[call.src][n]
      bar == call.dst[1]
  IN  /\ pc = "produce"
      /\ call.left > 0
      /\ call.srcNonce > 0
      /\ FoodItem' = Consume(call.src, n)
      /\ FoodMaterials' = [FoodMaterials EXCEPT ![bar] = Append(@, Material(call.src[1], lot.hash))]
      /\ call' = [call EXCEPT !.srcNonce = n, !.left = @ - Smaller(lot.amount, @)]
      /\ UNCHANGED <<FoodTrace, admin, now, committed, pc, result>>

\* The chain of a new lot starts at the hash of its bar code.
FinishProduce ==
  LET hash == RootHash(call.dst[1])
  IN  /\ pc = "produce"
      /\ \/ /\ call.left > 0 /\ call.srcNonce = 0
            /\ Return("InsufficientInventory")
            /\ UNCHANGED <<FoodItem, FoodTrace>>
         \/ /\ call.left = 0 /\ call.todo = <<>>
            /\ Return("FoodProduced")
            /\ FoodTrace' = Put(FoodTrace, hash, Trace(call.event, NoHash))
            /\ FoodItem' = Insert(FoodItem, call.dst, 0, Lot(call.amount, hash))
      /\ UNCHANGED <<FoodMaterials, admin, now, committed, call>>

\* get_trace, over committed storage: the events of a lot's chain from its head
\* back to the production.  It is asked of lots that are held: a code that does not
\* parse and a lot that is not there are refused before anything else is read.
GetTrace(id, nonce) ==
  LET walk[h \in DOMAIN committed.trace] ==
        LET trace == committed.trace[h]
        IN  <<trace.event>> \o (IF trace.parent = NoHash THEN <<>> ELSE walk[trace.parent])
  IN  walk[committed.item[id][nonce].hash]

(***************************************************************************)
(* The root calls: their only write comes after every check.               *)
(***************************************************************************)
SetAccountGln(origin, target, gln) ==
  LET errors == <<RootError(origin), IF AccountGLN[target] = None THEN Ok ELSE "GlnAlreadySet",
                  GlnError(gln)>>
  IN  /\ Ready
      /\ \/ Reject(errors)
         \/ /\ Passes(errors)
            /\ AccountGLN' = [AccountGLN EXCEPT ![target] = gln]
            /\ Return("AccountGlnSet")
            /\ UNCHANGED <<storage, ManufacturerLicense, now, committed, call>>

SetManufacturerLicense(origin, id, license) ==
  LET errors == <<RootError(origin), GlnError(id),
                  IF license \in Licenses \cup {None} THEN Ok ELSE "LicenseFormatError">>
  IN  /\ Ready
      /\ \/ Reject(errors)
         \/ /\ Passes(errors)
            /\ ManufacturerLicense' = [ManufacturerLicense EXCEPT ![GlnOf(id)] = license]
            /\ Return(IF license = None THEN "ManufacturerLicenseUnset" ELSE "ManufacturerLicenseSet")
            /\ UNCHANGED <<storage, AccountGLN, now, committed, call>>

(***************************************************************************)
(* FRAME's storage layer, the block clock, and a runtime that never        *)
(* returns from get_max_nonce.                                             *)
(***************************************************************************)
Settle == pc' = "idle" /\ call' = NoCall /\ result' = Ok /\ UNCHANGED <<admin, now>>

Commit ==
  /\ pc = "return" /\ result \in Events
  /\ committed' = Snapshot
  /\ UNCHANGED storage
  /\ Settle

Rollback ==
  /\ pc = "return" /\ result \notin Events
  /\ FoodItem' = committed.item
  /\ FoodTrace' = committed.trace
  /\ FoodMaterials' = committed.materials
  /\ UNCHANGED committed
  /\ Settle

Tick ==
  /\ pc = "idle" /\ now < MaxTime
  /\ now' = now + 1
  /\ UNCHANGED <<storage, admin, committed, pc, call, result>>

Spin == pc = "spin" /\ UNCHANGED vars

Origins  == Accounts \cup {RootOrigin}
RawCodes == BarCodes \cup {Malformed}

Produce   == \E o \in Origins, b \in RawCodes, m \in Ids, n \in Amounts, d \in ShelfLives,
               ms \in MaterialLists : ProduceFood(o, b, m, n, d, ms)
Trade     == \E o \in Origins, b \in RawCodes, l \in Ids, to \in Ids, n \in Amounts :
               TradeFood(o, b, l, to, n)
Store     == \E o \in Origins, b \in RawCodes, w \in Ids, s \in SSCCs \cup {Malformed}, n \in Amounts :
               StoreFood(o, b, w, s, n)
Transport == \E o \in Origins, b \in RawCodes, f \in Ids, d \in Ids, c \in Ids,
               s \in SSCCs \cup {Malformed}, n \in Amounts : TransportFood(o, b, f, d, c, s, n)
SetGln     == \E o \in Origins, a \in Accounts, g \in GLNs \cup {Malformed} : SetAccountGln(o, a, g)
SetLicense == \E o \in Origins, i \in Ids, l \in Licenses \cup {None, Malformed} :
                SetManufacturerLicense(o, i, l)

Dispatch == Produce \/ Trade \/ Store \/ Transport \/ SetGln \/ SetLicense

ProduceStep   == NextMaterial \/ ConsumeLot \/ FinishProduce
TradeStep     == TradeLot \/ FinishTrade
TransportStep == TransportLot \/ FinishTransport
StoreStep     == StoreLot \/ SkipStoredLot \/ FinishStore

\* What the executing call does next, up to its return and its settlement.
Proceed == ProduceStep \/ TradeStep \/ TransportStep \/ StoreStep \/ Commit \/ Rollback \/ Spin

Next == Dispatch \/ Proceed \/ Tick

\* The executive runs a dispatched call to its end; nobody has to submit one.
Spec == Init /\ [][Next]_vars /\ WF_vars(Proceed)
=============================================================================
