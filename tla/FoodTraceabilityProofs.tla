----------------------- MODULE FoodTraceabilityProofs -----------------------
(***************************************************************************)
(* Theorems about the pallet, for every number of accounts, codes and      *)
(* nonces, every input and both builds: types, the history on record,      *)
(* serial items, licenses and materials.                                   *)
(***************************************************************************)
EXTENDS FoodTraceabilityProperties, WellFoundedInduction, TLAPS

(***************************************************************************)
(* The operators the model is built from.                                  *)
(***************************************************************************)

\* A non-empty set of naturals has a least element.
LEMMA LeastElement ==
  ASSUME NEW S \in SUBSET Nat, S # {}
  PROVE  \E n \in S : \A m \in S : n <= m
<1>1. PICK n \in S : \A m \in S : ~(<<m, n>> \in {ss \in Nat \X Nat : ss[1] < ss[2]})
  BY NatLessThanWellFounded, WFMin DEF OpToRel
<1>2. ASSUME NEW m \in S PROVE n <= m
  <2>1. n \in Nat /\ m \in Nat /\ <<m, n>> \in Nat \X Nat
    OBVIOUS
  <2>2. ~(<<m, n>>[1] < <<m, n>>[2])
    BY <1>1, <2>1
  <2> QED BY <2>1, <2>2
<1> QED BY <1>2

\* Induction, from the least counterexample.
LEMMA Induction ==
  ASSUME NEW S, 0 \in S, \A n \in Nat : n \in S => n + 1 \in S
  PROVE  Nat \subseteq S
<1> DEFINE T == {n \in Nat : n \notin S}
<1> SUFFICES ASSUME T # {} PROVE FALSE
  OBVIOUS
<1>1. PICK n \in T : \A m \in T : n <= m
  BY LeastElement
<1>2. n \in Nat /\ n # 0 /\ n - 1 \in Nat
  OBVIOUS
<1>3. n - 1 \in S
  <2>1. ~(n <= n - 1)
    BY <1>2
  <2> QED BY <1>1, <1>2, <2>1
<1>4. (n - 1) + 1 \in S
  BY <1>2, <1>3
<1> QED BY <1>2, <1>4

\* get_max_nonce: the nonce it returns is free, and every smaller one is held.
LEMMA MaxNonceIsFirstFree ==
  ASSUME NEW id \in Identity, ~Full(id)
  PROVE  /\ MaxNonce(id) \in Nonces
         /\ ~FoodItem[id][MaxNonce(id)].held
         /\ \A m \in 0 .. (MaxNonce(id) - 1) : FoodItem[id][m].held
<1>1. FreeNonces(id) \in SUBSET Nat /\ FreeNonces(id) # {}
  BY NonceAssumption DEF Full, FreeNonces, Nonces
<1>2. \E n \in FreeNonces(id) : \A m \in FreeNonces(id) : n <= m
  BY <1>1, LeastElement
<1>3. MaxNonce(id) \in FreeNonces(id) /\ \A m \in FreeNonces(id) : MaxNonce(id) <= m
  BY <1>2 DEF MaxNonce
<1>4. ASSUME NEW m \in 0 .. (MaxNonce(id) - 1) PROVE FoodItem[id][m].held
  <2>1. m \in Nonces /\ m < MaxNonce(id)
    BY <1>3, NonceAssumption DEF FreeNonces, Nonces
  <2>2. m \notin FreeNonces(id)
    BY <1>3, <2>1, NonceAssumption DEF FreeNonces, Nonces
  <2> QED BY <2>1, <2>2 DEF FreeNonces
<1> QED BY <1>3, <1>4 DEF FreeNonces

\* What Put adds and what it keeps.
LEMMA PutFacts ==
  ASSUME NEW f, NEW k, NEW v
  PROVE  /\ DOMAIN Put(f, k, v) = DOMAIN f \cup {k}
         /\ Put(f, k, v)[k] = v
         /\ \A x \in DOMAIN f : x # k => Put(f, k, v)[x] = f[x]
BY DEF Put

\* What Insert changes and what it keeps.
LEMMA InsertFacts ==
  ASSUME NEW items, NEW trace, ItemOK(items, trace), NEW id \in Identity, NEW n \in Nonces, NEW lot
  PROVE  /\ DOMAIN Insert(items, id, n, lot) = Identity
         /\ \A i \in Identity : DOMAIN Insert(items, id, n, lot)[i] = Nonces
         /\ Insert(items, id, n, lot)[id][n] = lot
         /\ \A i \in Identity : \A m \in Nonces :
              ~(i = id /\ m = n) => Insert(items, id, n, lot)[i][m] = items[i][m]
BY DEF Insert, ItemOK

\* A lot whose chain is on record, or none, may take any place.
LEMMA InsertOK ==
  ASSUME NEW items, NEW trace, ItemOK(items, trace), NEW id \in Identity, NEW n \in Nonces, NEW lot,
         Absent(lot) \/ IsLot(lot, DOMAIN trace)
  PROVE  ItemOK(Insert(items, id, n, lot), trace)
<1> DEFINE new == Insert(items, id, n, lot)
<1>1. DOMAIN new = Identity /\ \A i \in Identity : DOMAIN new[i] = Nonces
  BY InsertFacts
<1>2. ASSUME NEW i \in Identity, NEW m \in Nonces
      PROVE  Absent(new[i][m]) \/ IsLot(new[i][m], DOMAIN trace)
  <2>1. CASE i = id /\ m = n
    BY <2>1, InsertFacts
  <2>2. CASE ~(i = id /\ m = n)
    <3>1. new[i][m] = items[i][m]
      BY <2>2, InsertFacts
    <3> QED BY <3>1 DEF ItemOK
  <2> QED BY <2>1, <2>2
<1> QED BY <1>1, <1>2 DEF ItemOK

\* Recording more traces keeps the lots' chains on record.
LEMMA ItemOKMonotone ==
  ASSUME NEW items, NEW trace, NEW larger, ItemOK(items, trace), DOMAIN trace \subseteq DOMAIN larger
  PROVE  ItemOK(items, larger)
BY DEF ItemOK, IsLot

\* Recording an event on a chain, and the first event of one.
LEMMA PutTraceOK ==
  ASSUME NEW trace, TraceOK(trace), NEW ev, EventOK(ev), NEW h, NEW parent,
         ev.kind = "Produce" => parent = NoHash,
         ev.kind # "Produce" => parent \in DOMAIN trace
  PROVE  TraceOK(Put(trace, h, Trace(ev, parent)))
<1> DEFINE new == Put(trace, h, Trace(ev, parent))
<1>0. /\ DOMAIN new = DOMAIN trace \cup {h}
      /\ new[h] = Trace(ev, parent)
      /\ \A x \in DOMAIN trace : x # h => new[x] = trace[x]
  BY DEF Put
<1> HIDE DEF new
<1>1. ASSUME NEW x \in DOMAIN new
      PROVE  /\ EventOK(new[x].event)
             /\ new[x].event.kind = "Produce" => new[x].parent = NoHash
             /\ new[x].event.kind # "Produce" => new[x].parent \in DOMAIN new
  <2>1. CASE x = h
    <3>1. new[x] = Trace(ev, parent) /\ DOMAIN trace \subseteq DOMAIN new
      BY <2>1, <1>0
    <3>2. new[x].event = ev /\ new[x].parent = parent
      BY <3>1 DEF Trace
    <3> QED BY <3>1, <3>2
  <2>2. CASE x # h
    <3>1. x \in DOMAIN trace /\ new[x] = trace[x] /\ DOMAIN trace \subseteq DOMAIN new
      BY <2>2, <1>0
    <3> QED BY <3>1 DEF TraceOK
  <2> QED BY <2>1, <2>2
<1> QED BY <1>1 DEF TraceOK, new

(***************************************************************************)
(* What a call knows once its checks have passed.                          *)
(***************************************************************************)
LEMMA CallerHasGln ==
  ASSUME TypeOK, NEW o, MetadataError(o) = Ok
  PROVE  o \in Accounts /\ AccountGLN[o] \in GLNs
BY DEF TypeOK, MetadataError, Ok

LEMMA IdHasGln ==
  ASSUME TypeOK, NEW id, GlnError(id) = Ok
  PROVE  GlnOf(id) \in GLNs
BY DEF TypeOK, GlnError, GlnOf, Ok

LEMMA BarCodeParsed ==
  ASSUME NEW bar, BarCodeError(bar) = Ok
  PROVE  bar \in BarCodes
BY DEF BarCodeError, Ok

LEMMA AmountVerified ==
  ASSUME NEW amount, NEW bar, AmountError(amount, bar) = Ok
  PROVE  amount # 0 /\ (bar \in SerialCodes => amount = 1)
BY DEF AmountError, Ok

LEMMA MakerLicensed ==
  ASSUME TypeOK, NEW id, GlnError(id) = Ok, LicenseError(id) = Ok
  PROVE  ManufacturerLicense[GlnOf(id)] \in Licenses
BY IdHasGln DEF TypeOK, LicenseError, Ok

LEMMA StampType == ASSUME now \in Nat PROVE Stamp(now) \in Nat
BY ClockAssumption DEF Stamp

(***************************************************************************)
(* Type correctness, and that the loops only visit lots that are there.    *)
(***************************************************************************)
TypeInv == TypeOK /\ LoopLots

LEMMA InitTypeInv == Init => TypeInv
<1> SUFFICES ASSUME Init PROVE TypeInv
  OBVIOUS
<1> USE DEF Init, Empty
<1>1. ItemOK(FoodItem, FoodTrace) /\ TraceOK(FoodTrace)
  BY DEF ItemOK, TraceOK, Absent
<1>2. committed.item = FoodItem /\ committed.trace = FoodTrace /\ committed.materials = FoodMaterials
  BY DEF Snapshot
<1>3. CallOK
  BY NonceAssumption DEF CallOK, NoCall, Nonces, Looping
<1>4. LoopLots
  BY DEF LoopLots
<1> QED BY <1>1, <1>2, <1>3, <1>4 DEF TypeInv, TypeOK

\* A rejected call, an overrun of get_max_nonce and the clock change nothing that
\* the invariant constrains.
LEMMA QuietTypeInv ==
  ASSUME TypeInv, UNCHANGED <<storage, admin, committed, call>>, now' \in Nat,
         pc' \in {"idle", "return", "spin"}
  PROVE  TypeInv'
BY DEF TypeInv, TypeOK, ItemOK, TraceOK, IsLot, Absent, EventOK, CallOK, LoopLots, Looping,
       storage, admin, NoCall

LEMMA RejectTypeInv == ASSUME TypeInv, NEW errors, Reject(errors) PROVE TypeInv'
BY QuietTypeInv DEF Reject, Return, TypeInv, TypeOK

LEMMA OverrunTypeInv == ASSUME TypeInv, NonceOverrun PROVE TypeInv'
BY QuietTypeInv DEF NonceOverrun, Return, TypeInv, TypeOK

LEMMA StartMoveTypeInv ==
  ASSUME TypeInv, pc = "idle", NEW where \in {"trade", "transport"},
         NEW src \in Identity, NEW dst \in Identity, NEW amount \in Nat \ {0},
         NEW event, EventOK(event), event.kind \notin {"Produce", "Store"}, StartMove(where, src, dst, amount, event)
  PROVE  TypeInv'
<1>1. CASE NonceOverrun
  BY <1>1, OverrunTypeInv
<1>2. CASE ~(Full(src) \/ Full(dst)) /\ ~NonceOverrun
  <2>1. /\ pc' = where
        /\ call' = [NoCall EXCEPT !.src = src, !.dst = dst, !.event = event,
                      !.srcNonce = MaxNonce(src), !.dstNonce = MaxNonce(dst),
                      !.left = amount, !.amount = amount]
        /\ UNCHANGED <<storage, admin, now, committed>>
    BY <1>2 DEF StartMove
  <2>2. MaxNonce(src) \in Nonces /\ MaxNonce(dst) \in Nonces
    BY <1>2, MaxNonceIsFirstFree
  <2>3. CallOK'
    <3>1. /\ call'.src = src /\ call'.dst = dst /\ call'.event = event
          /\ call'.srcNonce = MaxNonce(src) /\ call'.dstNonce = MaxNonce(dst)
          /\ call'.left = amount /\ call'.amount = amount /\ call'.todo = <<>>
          /\ DOMAIN call' = DOMAIN NoCall
      BY <2>1 DEF NoCall
    <3>2. EventOK(call'.event) /\ call'.event.kind \notin {"Produce", "Store"}
      BY <3>1
    <3>3. call'.todo \in Seq((BarCodes \cup {Malformed}) \X Nat)
      BY <3>1
    <3>4. pc' \in {"trade", "transport"}
      BY <2>1
    <3> QED BY <2>2, <3>1, <3>2, <3>3, <3>4 DEF CallOK
  <2>4. LoopLots'
    BY <2>1, <1>2, MaxNonceIsFirstFree DEF LoopLots, NoCall, storage
  <2> QED BY <2>1, <2>3, <2>4 DEF TypeInv, TypeOK, storage, admin, ItemOK, TraceOK, IsLot, Absent, EventOK, Looping
<1> QED BY <1>1, <1>2 DEF StartMove

LEMMA TradeTypeInv ==
  ASSUME TypeInv, NEW o, NEW bar, NEW locate, NEW buyer, NEW amount \in Nat,
         TradeFood(o, bar, locate, buyer, amount)
  PROVE  TypeInv'
<1> DEFINE errors == <<MetadataError(o), GlnError(locate), GlnError(buyer),
                       BarCodeError(bar), AmountError(amount, bar), ShelfLifeError(bar)>>
           event  == [kind |-> "Trade", seller |-> AccountGLN[o], buyer |-> GlnOf(buyer), time |-> Stamp(now)]
           src    == Holding(bar, AccountGLN[o], GlnOf(locate))
           dst    == Holding(bar, GlnOf(buyer), GlnOf(locate))
<1>1. CASE Reject(errors)
  BY <1>1, RejectTypeInv
<1>2. CASE Passes(errors) /\ StartMove("trade", src, dst, amount, event)
  <2>1. /\ MetadataError(o) = Ok /\ GlnError(locate) = Ok /\ GlnError(buyer) = Ok
        /\ BarCodeError(bar) = Ok /\ AmountError(amount, bar) = Ok
    BY <1>2 DEF Passes
  <2>2. /\ AccountGLN[o] \in GLNs /\ GlnOf(locate) \in GLNs /\ GlnOf(buyer) \in GLNs
        /\ bar \in BarCodes /\ amount \in Nat \ {0}
    BY <2>1, CallerHasGln, IdHasGln, BarCodeParsed, AmountVerified DEF TypeInv
  <2>3. src \in Identity /\ dst \in Identity
    BY <2>2 DEF Identity, Holding
  <2>4. EventOK(event) /\ event.kind \notin {"Produce", "Store"}
    BY <2>2, StampType DEF EventOK, Kinds, TypeInv, TypeOK
  <2>5. pc = "idle"
    BY DEF TradeFood, Ready
  <2> HIDE DEF src, dst, event
  <2> QED BY <1>2, <2>2, <2>3, <2>4, <2>5, StartMoveTypeInv
<1> QED BY <1>1, <1>2 DEF TradeFood

LEMMA TransportTypeInv ==
  ASSUME TypeInv, NEW o, NEW bar, NEW from, NEW dest, NEW carrier, NEW sscc, NEW amount \in Nat,
         TransportFood(o, bar, from, dest, carrier, sscc, amount)
  PROVE  TypeInv'
<1> DEFINE errors == <<MetadataError(o), GlnError(dest), BarCodeError(bar), GlnError(carrier),
                       GlnError(from), SsccError(sscc), AmountError(amount, bar), ShelfLifeError(bar)>>
           event  == [kind |-> "Transport", origin |-> GlnOf(from), destination |-> GlnOf(dest),
                      carrier |-> GlnOf(carrier), sscc |-> sscc, time |-> Stamp(now)]
           src    == Holding(bar, AccountGLN[o], GlnOf(from))
           dst    == Holding(bar, AccountGLN[o], GlnOf(dest))
<1>1. CASE Reject(errors)
  BY <1>1, RejectTypeInv
<1>2. CASE Passes(errors) /\ StartMove("transport", src, dst, amount, event)
  <2>1. /\ MetadataError(o) = Ok /\ GlnError(from) = Ok /\ GlnError(dest) = Ok
        /\ BarCodeError(bar) = Ok /\ AmountError(amount, bar) = Ok
    BY <1>2 DEF Passes
  <2>2. /\ AccountGLN[o] \in GLNs /\ GlnOf(from) \in GLNs /\ GlnOf(dest) \in GLNs
        /\ bar \in BarCodes /\ amount \in Nat \ {0}
    BY <2>1, CallerHasGln, IdHasGln, BarCodeParsed, AmountVerified DEF TypeInv
  <2>3. src \in Identity /\ dst \in Identity
    BY <2>2 DEF Identity, Holding
  <2>4. EventOK(event) /\ event.kind \notin {"Produce", "Store"}
    BY <2>2, StampType DEF EventOK, Kinds, TypeInv, TypeOK
  <2>5. pc = "idle"
    BY DEF TransportFood, Ready
  <2> HIDE DEF src, dst, event
  <2> QED BY <1>2, <2>2, <2>3, <2>4, <2>5, StartMoveTypeInv
<1> QED BY <1>1, <1>2 DEF TransportFood

LEMMA StoreTypeInv ==
  ASSUME TypeInv, NEW o, NEW bar, NEW warehouse, NEW sscc, NEW amount \in Nat,
         StoreFood(o, bar, warehouse, sscc, amount)
  PROVE  TypeInv'
<1> DEFINE errors == <<MetadataError(o), GlnError(warehouse), SsccError(sscc),
                       BarCodeError(bar), AmountError(amount, bar), ShelfLifeError(bar)>>
           event  == [kind |-> "Store", warehouse |-> GlnOf(warehouse), sscc |-> sscc, time |-> Stamp(now)]
           id     == Holding(bar, AccountGLN[o], GlnOf(warehouse))
<1>1. CASE Reject(errors)
  BY <1>1, RejectTypeInv
<1>2. CASE NonceOverrun
  BY <1>2, OverrunTypeInv
<1>3. CASE /\ Passes(errors) /\ ~Full(id)
           /\ pc' = "store"
           /\ call' = [NoCall EXCEPT !.src = id, !.dst = id, !.srcNonce = 0,
                 !.dstNonce = MaxNonce(id), !.left = amount, !.amount = amount, !.event = event]
           /\ UNCHANGED <<storage, admin, now, committed, result>>
  <2>1. /\ MetadataError(o) = Ok /\ GlnError(warehouse) = Ok
        /\ BarCodeError(bar) = Ok /\ AmountError(amount, bar) = Ok
    BY <1>3 DEF Passes
  <2>2. /\ AccountGLN[o] \in GLNs /\ GlnOf(warehouse) \in GLNs
        /\ bar \in BarCodes /\ amount \in Nat \ {0}
    BY <2>1, CallerHasGln, IdHasGln, BarCodeParsed, AmountVerified DEF TypeInv
  <2>3. id \in Identity
    BY <2>2 DEF Identity, Holding
  <2>4. EventOK(event) /\ event.kind = "Store"
    BY <2>2, StampType DEF EventOK, Kinds, TypeInv, TypeOK
  <2> HIDE DEF id, event
  <2>5. /\ MaxNonce(id) \in Nonces
        /\ \A m \in 0 .. (MaxNonce(id) - 1) : FoodItem[id][m].held
    BY <1>3, <2>3, MaxNonceIsFirstFree
  <2>6. /\ call'.src = id /\ call'.dst = id /\ call'.event = event
        /\ call'.srcNonce = 0 /\ call'.dstNonce = MaxNonce(id)
        /\ call'.left = amount /\ call'.amount = amount /\ call'.todo = <<>>
        /\ DOMAIN call' = DOMAIN NoCall
    BY <1>3 DEF NoCall
  <2>7. CallOK'
    <3>1. EventOK(call'.event) /\ call'.event.kind = "Store"
      BY <2>4, <2>6
    <3>2. call'.todo \in Seq((BarCodes \cup {Malformed}) \X Nat)
      BY <2>6
    <3>3. 0 \in Nonces
      BY NonceAssumption DEF Nonces
    <3>4. pc' = "store"
      BY <1>3
    <3> QED BY <2>2, <2>3, <2>5, <2>6, <3>1, <3>2, <3>3, <3>4 DEF CallOK
  <2>8. LoopLots'
    BY <1>3, <2>5, <2>6 DEF LoopLots, storage, Nonces
  <2> QED BY <1>3, <2>7, <2>8 DEF TypeInv, TypeOK, storage, admin, ItemOK, TraceOK, IsLot, Absent, EventOK, Looping
<1> QED BY <1>1, <1>2, <1>3 DEF StoreFood

LEMMA SmallerFacts ==
  ASSUME NEW a \in Nat \ {0}, NEW b \in Nat \ {0}
  PROVE  Smaller(a, b) \in Nat \ {0} /\ Smaller(a, b) <= a /\ Smaller(a, b) <= b /\ b - Smaller(a, b) \in Nat
BY DEF Smaller

LEMMA LotFacts ==
  ASSUME NEW n, NEW h
  PROVE  Lot(n, h).held /\ Lot(n, h).amount = n /\ Lot(n, h).hash = h
BY DEF Lot

\* Where a lot is held there is a well-formed one.
LEMMA HeldIsLot ==
  ASSUME NEW items, NEW trace, ItemOK(items, trace), NEW id \in Identity, NEW n \in Nonces,
         items[id][n].held
  PROVE  IsLot(items[id][n], DOMAIN trace)
<1>1. Absent(items[id][n]) \/ IsLot(items[id][n], DOMAIN trace)
  BY DEF ItemOK
<1>2. CASE Absent(items[id][n])
  <2>1. items[id][n].held = NoLot.held
    BY <1>2 DEF Absent
  <2>2. NoLot.held = FALSE
    BY DEF NoLot
  <2> QED BY <2>1, <2>2
<1> QED BY <1>1, <1>2

\* Taking from a lot leaves the others alone, and leaves lots.
LEMMA ConsumeOK ==
  ASSUME TypeOK, call.left \in Nat \ {0}, NEW id \in Identity, NEW n \in Nonces, FoodItem[id][n].held
  PROVE  /\ ItemOK(Consume(id, n), FoodTrace)
         /\ \A i \in Identity : \A m \in Nonces :
              ~(i = id /\ m = n) => Consume(id, n)[i][m] = FoodItem[i][m]
<1> DEFINE lot == FoodItem[id][n]
           rest == Lot(lot.amount - call.left, lot.hash)
<1>1. ItemOK(FoodItem, FoodTrace) /\ IsLot(lot, DOMAIN FoodTrace)
  BY HeldIsLot DEF TypeOK
<1>2. CASE lot.amount > call.left
  <2>1. IsLot(rest, DOMAIN FoodTrace)
    BY <1>1, <1>2, LotFacts DEF IsLot
  <2>2. Consume(id, n) = Insert(FoodItem, id, n, rest)
    BY <1>2 DEF Consume
  <2> HIDE DEF rest
  <2> QED BY <1>1, <2>1, <2>2, InsertOK, InsertFacts
<1>3. CASE ~(lot.amount > call.left)
  <2>1. Consume(id, n) = Insert(FoodItem, id, n, NoLot) /\ Absent(NoLot)
    BY <1>3 DEF Consume, Remove, Absent
  <2> QED BY <1>1, <2>1, InsertOK, InsertFacts
<1> QED BY <1>2, <1>3

LEMMA MoveLotTypeInv ==
  ASSUME TypeInv, pc \in {"trade", "transport"}, MoveLot
  PROVE  TypeInv'
<1> DEFINE n     == call.srcNonce - 1
           lot   == FoodItem[call.src][n]
           hash  == Link(call.event, lot.hash)
           moved == Smaller(lot.amount, call.left)
<1>1. /\ call.left \in Nat \ {0} /\ call.src \in Identity /\ call.dst \in Identity
      /\ n \in Nonces /\ call.dstNonce \in Nonces /\ EventOK(call.event)
      /\ n < call.srcNonce /\ call.event.kind \notin {"Produce", "Store"}
  <2>1. call.left > 0 /\ call.srcNonce > 0 /\ pc \in Looping /\ pc \notin {"produce", "store"} /\ CallOK
    BY DEF MoveLot, Looping, TypeInv, TypeOK
  <2>2. n \in Nonces /\ n < call.srcNonce
    BY <2>1, NonceAssumption DEF CallOK, Nonces
  <2> QED BY <2>1, <2>2 DEF CallOK
<1>2. lot.held /\ IsLot(lot, DOMAIN FoodTrace)
  <2>1. lot.held
    BY <1>1 DEF TypeInv, LoopLots, MoveLot, Nonces
  <2> QED BY <1>1, <2>1, HeldIsLot DEF TypeInv, TypeOK
<1>3. moved \in Nat \ {0} /\ call.left - moved \in Nat
  BY <1>1, <1>2, SmallerFacts DEF IsLot
<1>4. TraceOK(FoodTrace') /\ DOMAIN FoodTrace' = DOMAIN FoodTrace \cup {hash}
  <2>1. FoodTrace' = Put(FoodTrace, hash, Trace(call.event, lot.hash))
    BY DEF MoveLot
  <2>2. lot.hash \in DOMAIN FoodTrace /\ TraceOK(FoodTrace)
    BY <1>2 DEF IsLot, TypeInv, TypeOK
  <2> HIDE DEF hash, lot
  <2> QED BY <1>1, <2>1, <2>2, PutTraceOK, PutFacts
<1>5. ItemOK(FoodItem', FoodTrace')
  <2>1. ItemOK(Consume(call.src, n), FoodTrace)
    BY <1>1, <1>2, ConsumeOK DEF TypeInv
  <2>2. ItemOK(Consume(call.src, n), FoodTrace')
    BY <1>4, <2>1, ItemOKMonotone
  <2>3. IsLot(Lot(moved, hash), DOMAIN FoodTrace')
    BY <1>3, <1>4, LotFacts DEF IsLot
  <2>4. FoodItem' = Insert(Consume(call.src, n), call.dst, call.dstNonce, Lot(moved, hash))
    BY DEF MoveLot
  <2> HIDE DEF n, hash, moved
  <2> QED BY <1>1, <2>2, <2>3, <2>4, InsertOK
<1>6. /\ call'.srcNonce = n /\ call'.left = call.left - moved /\ call'.dstNonce = Inc(call.dstNonce)
      /\ call'.src = call.src /\ call'.dst = call.dst /\ call'.event = call.event
      /\ call'.amount = call.amount /\ call'.todo = call.todo
      /\ DOMAIN call' = DOMAIN call
  BY DEF MoveLot, TypeInv, TypeOK, CallOK, NoCall
<1>7. Inc(call.dstNonce) \in Nonces
  BY <1>1, NonceAssumption DEF Inc, Nonces
<1>8. pc' \in {pc, "return"}
  BY DEF MoveLot, Return
<1>9. CallOK'
  <2>1. EventOK(call'.event) /\ call'.event.kind \notin {"Produce", "Store"}
    BY <1>1, <1>6
  <2> HIDE DEF n, moved
  <2> QED BY <1>1, <1>3, <1>6, <1>7, <1>8, <2>1 DEF CallOK, TypeInv, TypeOK, Looping
<1>10. LoopLots'
  <2>1. ASSUME NEW m \in 0 .. (n - 1) PROVE FoodItem'[call.src][m].held
    <3>0. m \in 0 .. (call.srcNonce - 1) /\ m \in Nonces /\ m # n
      BY <1>1, NonceAssumption DEF Nonces
    <3>1. FoodItem[call.src][m].held /\ m \in Nonces /\ m # n
      BY <1>1, <3>0 DEF TypeInv, LoopLots
    <3>2. /\ ItemOK(Consume(call.src, n), FoodTrace)
          /\ Consume(call.src, n)[call.src][m] = FoodItem[call.src][m]
      BY <1>1, <1>2, <3>1, ConsumeOK DEF TypeInv
    <3>3. FoodItem' = Insert(Consume(call.src, n), call.dst, call.dstNonce, Lot(moved, hash))
      BY DEF MoveLot
    <3> HIDE DEF n, hash, moved
    <3>4. CASE call.src = call.dst /\ m = call.dstNonce
      <4>1. FoodItem'[call.src][m] = Lot(moved, hash)
        BY <1>1, <3>2, <3>3, <3>4, InsertFacts
      <4> QED BY <4>1, LotFacts
    <3>5. CASE ~(call.src = call.dst /\ m = call.dstNonce)
      <4>1. FoodItem'[call.src][m] = FoodItem[call.src][m]
        BY <1>1, <3>1, <3>2, <3>3, <3>5, InsertFacts
      <4> QED BY <3>1, <4>1
    <3> QED BY <3>4, <3>5
  <2> HIDE DEF n, moved
  <2> QED BY <1>6, <1>8, <2>1 DEF LoopLots
<1>11. UNCHANGED <<FoodMaterials, admin, now, committed>>
  BY DEF MoveLot
<1> QED BY <1>4, <1>5, <1>8, <1>9, <1>10, <1>11 DEF TypeInv, TypeOK, admin, ItemOK, TraceOK, IsLot, Absent, EventOK, Looping

\* Whatever part of a lot is stored stays at its nonce; the rest goes to the top.
LEMMA RelabelFacts ==
  ASSUME StoreLot, call.left \in Nat, FoodItem[call.src][call.srcNonce].amount \in Nat
  PROVE  LET lot   == FoodItem[call.src][call.srcNonce]
             first == Insert(FoodItem, call.src, call.srcNonce,
                             Lot(Smaller(lot.amount, call.left), Link(call.event, lot.hash)))
         IN  FoodItem' = IF lot.amount > call.left
                         THEN Insert(first, call.src, call.dstNonce,
                                     Lot(lot.amount - call.left, lot.hash))
                         ELSE first
<1> DEFINE lot == FoodItem[call.src][call.srcNonce]
<1>1. FoodItem' = Relabel(call.src, call.srcNonce, Link(call.event, lot.hash))
  BY DEF StoreLot
<1>2. Smaller(lot.amount, call.left) = IF lot.amount > call.left THEN call.left ELSE lot.amount
  BY DEF Smaller
<1> QED BY <1>1, <1>2 DEF Relabel

LEMMA StoreLotTypeInv ==
  ASSUME TypeInv, StoreLot
  PROVE  TypeInv'
<1> DEFINE n     == call.srcNonce
           lot   == FoodItem[call.src][n]
           hash  == Link(call.event, lot.hash)
           moved == Smaller(lot.amount, call.left)
           rest  == Lot(lot.amount - call.left, lot.hash)
           first == Insert(FoodItem, call.src, n, Lot(moved, hash))
<1>1. /\ call.left \in Nat \ {0} /\ call.src \in Identity
      /\ n \in Nonces /\ call.dstNonce \in Nonces /\ EventOK(call.event)
      /\ n < call.dstNonce /\ call.event.kind # "Produce" /\ pc = "store"
  BY NonceAssumption DEF TypeInv, TypeOK, CallOK, StoreLot, Looping, Nonces, LoopLots
<1>2. lot.held /\ IsLot(lot, DOMAIN FoodTrace)
  <2>1. lot.held
    BY <1>1 DEF TypeInv, LoopLots, Nonces
  <2> QED BY <1>1, <2>1, HeldIsLot DEF TypeInv, TypeOK
<1>3. moved \in Nat \ {0} /\ call.left - moved \in Nat
  BY <1>1, <1>2, SmallerFacts DEF IsLot
<1>4. TraceOK(FoodTrace') /\ DOMAIN FoodTrace' = DOMAIN FoodTrace \cup {hash}
  <2>1. FoodTrace' = Put(FoodTrace, hash, Trace(call.event, lot.hash))
    BY DEF StoreLot
  <2>2. lot.hash \in DOMAIN FoodTrace /\ TraceOK(FoodTrace)
    BY <1>2 DEF IsLot, TypeInv, TypeOK
  <2> HIDE DEF hash, lot
  <2> QED BY <1>1, <2>1, <2>2, PutTraceOK, PutFacts
<1>5. ItemOK(FoodItem, FoodTrace') /\ ItemOK(first, FoodTrace')
  <2>1. ItemOK(FoodItem, FoodTrace')
    BY <1>4, ItemOKMonotone DEF TypeInv, TypeOK
  <2>2. IsLot(Lot(moved, hash), DOMAIN FoodTrace')
    BY <1>3, <1>4, LotFacts DEF IsLot
  <2> HIDE DEF n, hash, moved
  <2> QED BY <1>1, <2>1, <2>2, InsertOK
<1>6. /\ ItemOK(FoodItem', FoodTrace')
      /\ \A m \in Nonces : m # n /\ FoodItem[call.src][m].held => FoodItem'[call.src][m].held
  <2>1. \A m \in Nonces : m # n => first[call.src][m] = FoodItem[call.src][m]
    BY <1>1, <1>5, InsertFacts
  <2>2. CASE lot.amount > call.left
    <3>1. IsLot(rest, DOMAIN FoodTrace')
      BY <1>1, <1>2, <1>4, <2>2, LotFacts DEF IsLot
    <3>2. FoodItem' = Insert(first, call.src, call.dstNonce, rest) /\ rest.held
      BY <1>1, <1>2, <2>2, LotFacts, RelabelFacts DEF IsLot
    <3> HIDE DEF rest, first, n, lot
    <3>3. ItemOK(FoodItem', FoodTrace')
      BY <1>1, <1>5, <3>1, <3>2, InsertOK
    <3>4. \A m \in Nonces : FoodItem'[call.src][m] = IF m = call.dstNonce THEN rest ELSE first[call.src][m]
      BY <1>1, <1>5, <3>2, InsertFacts
    <3> QED BY <2>1, <3>2, <3>3, <3>4
  <2>3. CASE ~(lot.amount > call.left)
    <3>1. FoodItem' = first
      BY <1>1, <1>2, <2>3, RelabelFacts DEF IsLot
    <3> HIDE DEF first
    <3> QED BY <1>5, <2>1, <3>1
  <2> QED BY <2>2, <2>3
<1>7. /\ call'.srcNonce = n + 1 /\ call'.left = call.left - moved /\ call'.dstNonce = call.dstNonce
      /\ call'.src = call.src /\ call'.dst = call.dst /\ call'.event = call.event
      /\ call'.amount = call.amount /\ call'.todo = call.todo
      /\ DOMAIN call' = DOMAIN call
  <2>1. Inc(n) = n + 1
    BY <1>1, NonceAssumption DEF Inc, Nonces
  <2> QED BY <2>1 DEF StoreLot, TypeInv, TypeOK, CallOK, NoCall
<1>8. UNCHANGED <<FoodMaterials, admin, now, committed, pc>>
  BY DEF StoreLot
<1>9. CallOK'
  <2>1. EventOK(call'.event) /\ call'.event.kind = call.event.kind
    BY <1>1, <1>7
  <2>2. n + 1 \in Nonces
    BY <1>1, NonceAssumption DEF Nonces
  <2> HIDE DEF n, moved
  <2> QED BY <1>1, <1>3, <1>7, <1>8, <2>1, <2>2 DEF CallOK, TypeInv, TypeOK, Looping
<1>10. LoopLots'
  <2>1. n + 1 <= call.dstNonce
    BY <1>1, NonceAssumption DEF Nonces
  <2>2. ASSUME NEW m \in (n + 1) .. (call.dstNonce - 1) PROVE FoodItem'[call.src][m].held
    <3>1. m \in Nonces /\ m # n /\ m \in n .. (call.dstNonce - 1)
      BY <1>1, NonceAssumption DEF Nonces
    <3>2. FoodItem[call.src][m].held
      BY <1>1, <3>1 DEF TypeInv, LoopLots
    <3> QED BY <1>6, <3>1, <3>2
  <2> HIDE DEF n, moved
  <2> QED BY <1>1, <1>7, <1>8, <2>1, <2>2 DEF LoopLots
<1> QED BY <1>4, <1>6, <1>8, <1>9, <1>10 DEF TypeInv, TypeOK, admin, ItemOK, TraceOK, IsLot, Absent, EventOK, Looping

LEMMA ProduceTypeInv ==
  ASSUME TypeInv, NEW o, NEW bar, NEW maker, NEW amount \in Nat, NEW shelfLife \in Nat,
         NEW materials \in Seq((BarCodes \cup {Malformed}) \X Nat),
         ProduceFood(o, bar, maker, amount, shelfLife, materials)
  PROVE  TypeInv'
<1> DEFINE errors == <<MetadataError(o), GlnError(maker), LicenseError(maker),
                       BarCodeError(bar), AmountError(amount, bar), DuplicateError(bar)>>
           event  == [kind |-> "Produce", manufacturer |-> GlnOf(maker),
                      license |-> ManufacturerLicense[GlnOf(maker)],
                      shelfLife |-> shelfLife, time |-> Stamp(now)]
           id     == Holding(bar, AccountGLN[o], GlnOf(maker))
<1>1. CASE Reject(errors)
  BY <1>1, RejectTypeInv
<1>2. CASE /\ Passes(errors)
           /\ FoodMaterials' = Put(FoodMaterials, bar, <<>>)
           /\ pc' = "produce"
           /\ call' = [NoCall EXCEPT !.dst = id, !.amount = amount, !.todo = materials, !.event = event]
           /\ UNCHANGED <<FoodItem, FoodTrace, admin, now, committed, result>>
  <2>1. /\ MetadataError(o) = Ok /\ GlnError(maker) = Ok /\ LicenseError(maker) = Ok
        /\ BarCodeError(bar) = Ok /\ AmountError(amount, bar) = Ok
    BY <1>2 DEF Passes
  <2>2. /\ AccountGLN[o] \in GLNs /\ GlnOf(maker) \in GLNs
        /\ ManufacturerLicense[GlnOf(maker)] \in Licenses
        /\ bar \in BarCodes /\ amount \in Nat \ {0}
    BY <2>1, CallerHasGln, IdHasGln, MakerLicensed, BarCodeParsed, AmountVerified DEF TypeInv
  <2>3. id \in Identity
    BY <2>2 DEF Identity, Holding
  <2>4. EventOK(event) /\ event.kind = "Produce"
    BY <2>2, StampType DEF EventOK, Kinds, TypeInv, TypeOK
  <2> HIDE DEF id, event
  <2>5. /\ call'.dst = id /\ call'.event = event /\ call'.amount = amount /\ call'.todo = materials
        /\ call'.srcNonce = 0 /\ call'.dstNonce = 0 /\ call'.left = 0
        /\ DOMAIN call' = DOMAIN NoCall
    BY <1>2 DEF NoCall
  <2>6. CallOK'
    <3>1. EventOK(call'.event) /\ call'.event.kind = "Produce" /\ pc' = "produce" /\ 0 \in Nonces
      BY <1>2, <2>4, <2>5, NonceAssumption DEF Nonces
    <3> QED BY <2>2, <2>3, <2>5, <3>1 DEF CallOK
  <2>7. LoopLots'
    BY <1>2, <2>5 DEF LoopLots
  <2>8. DOMAIN FoodMaterials' \subseteq BarCodes
    BY <1>2, <2>2 DEF TypeInv, TypeOK, Put
  <2> QED BY <1>2, <2>6, <2>7, <2>8 DEF TypeInv, TypeOK, admin, ItemOK, TraceOK, IsLot, Absent, EventOK, Looping
<1> QED BY <1>1, <1>2 DEF ProduceFood

LEMMA NextMaterialTypeInv ==
  ASSUME TypeInv, NextMaterial
  PROVE  TypeInv'
<1> DEFINE bar    == Head(call.todo)[1]
           id     == Holding(bar, call.dst[2], call.dst[3])
           errors == <<BarCodeError(bar), ShelfLifeError(bar)>>
<1>1. CASE NonceOverrun
  BY <1>1, OverrunTypeInv
<1>2. CASE Reject(errors)
  BY <1>2, RejectTypeInv
<1>3. CASE /\ Passes(errors) /\ ~Full(id)
           /\ call' = [call EXCEPT !.src = id, !.srcNonce = MaxNonce(id),
                         !.left = Head(call.todo)[2], !.todo = Tail(@)]
           /\ UNCHANGED <<storage, admin, now, committed, pc, result>>
  <2>1. /\ call.dst \in Identity /\ call.todo \in Seq((BarCodes \cup {Malformed}) \X Nat)
        /\ call.todo # <<>> /\ CallOK /\ pc = "produce"
    BY DEF TypeInv, TypeOK, CallOK, Looping, NextMaterial
  <2>2. /\ Head(call.todo) \in (BarCodes \cup {Malformed}) \X Nat
        /\ Tail(call.todo) \in Seq((BarCodes \cup {Malformed}) \X Nat)
    BY <2>1
  <2>3. BarCodeError(bar) = Ok
    BY <1>3 DEF Passes
  <2>4. id \in Identity
    BY <2>1, <2>3, BarCodeParsed DEF Identity, Holding
  <2>5. Head(call.todo)[2] \in Nat
    BY <2>2
  <2> HIDE DEF id
  <2>6. /\ MaxNonce(id) \in Nonces
        /\ \A m \in 0 .. (MaxNonce(id) - 1) : FoodItem[id][m].held
    BY <1>3, <2>4, MaxNonceIsFirstFree
  <2>7. /\ call'.src = id /\ call'.srcNonce = MaxNonce(id) /\ call'.left = Head(call.todo)[2]
        /\ call'.todo = Tail(call.todo) /\ call'.dst = call.dst /\ call'.event = call.event
        /\ call'.amount = call.amount /\ call'.dstNonce = call.dstNonce
        /\ DOMAIN call' = DOMAIN call
    BY <1>3, <2>1 DEF CallOK, NoCall
  <2>8. CallOK'
    <3>1. EventOK(call'.event) /\ call'.event.kind = "Produce" /\ pc' = "produce"
      BY <1>3, <2>1, <2>7 DEF CallOK, Looping
    <3> QED BY <2>1, <2>2, <2>4, <2>5, <2>6, <2>7, <3>1 DEF CallOK, Looping
  <2>9. LoopLots'
    BY <1>3, <2>1, <2>6, <2>7 DEF LoopLots, storage
  <2> QED BY <1>3, <2>8, <2>9 DEF TypeInv, TypeOK, storage, admin, ItemOK, TraceOK, IsLot, Absent, EventOK, Looping
<1> QED BY <1>1, <1>2, <1>3 DEF NextMaterial

LEMMA ConsumeLotTypeInv ==
  ASSUME TypeInv, ConsumeLot
  PROVE  TypeInv'
<1> DEFINE n   == call.srcNonce - 1
           lot == FoodItem[call.src][n]
<1>1. pc = "produce" /\ pc \in Looping /\ call.left > 0 /\ call.srcNonce > 0 /\ CallOK /\ TypeOK
  BY DEF ConsumeLot, Looping, TypeInv, TypeOK
<1>2. n \in Nonces /\ n < call.srcNonce /\ call.left \in Nat \ {0}
      /\ call.src \in Identity /\ call.dst \in Identity
  BY <1>1, NonceAssumption DEF CallOK, Nonces
<1>3. lot.held /\ IsLot(lot, DOMAIN FoodTrace)
  <2>1. n \in 0 .. (call.srcNonce - 1)
    BY <1>2, NonceAssumption DEF Nonces
  <2>2. lot.held
    BY <1>1, <2>1 DEF TypeInv, LoopLots
  <2> QED BY <1>1, <1>2, <2>2, HeldIsLot DEF TypeOK
<1>4. call.left - Smaller(lot.amount, call.left) \in Nat
  BY <1>2, <1>3, SmallerFacts DEF IsLot
<1>5. /\ FoodItem' = Consume(call.src, n)
      /\ FoodMaterials' = [FoodMaterials EXCEPT ![call.dst[1]] = Append(@, Material(call.src[1], lot.hash))]
      /\ call' = [call EXCEPT !.srcNonce = n, !.left = @ - Smaller(lot.amount, @)]
      /\ UNCHANGED <<FoodTrace, admin, now, committed, pc, result>>
  BY DEF ConsumeLot
<1>6. ItemOK(FoodItem', FoodTrace')
      /\ \A m \in Nonces : m # n => FoodItem'[call.src][m] = FoodItem[call.src][m]
  BY <1>1, <1>2, <1>3, <1>5, ConsumeOK
<1>7. /\ call'.srcNonce = n /\ call'.left = call.left - Smaller(lot.amount, call.left)
      /\ call'.src = call.src /\ call'.dst = call.dst /\ call'.event = call.event
      /\ call'.amount = call.amount /\ call'.todo = call.todo /\ call'.dstNonce = call.dstNonce
      /\ DOMAIN call' = DOMAIN call
  BY <1>1, <1>5 DEF CallOK, NoCall
<1>8. CallOK'
  <2>1. EventOK(call'.event) /\ call'.event.kind = "Produce" /\ pc' = "produce"
    BY <1>1, <1>5, <1>7 DEF CallOK
  <2> HIDE DEF n, lot
  <2> QED BY <1>1, <1>2, <1>4, <1>7, <2>1 DEF CallOK
<1>9. LoopLots'
  <2>1. ASSUME NEW m \in 0 .. (n - 1) PROVE FoodItem'[call.src][m].held
    <3>1. m \in 0 .. (call.srcNonce - 1) /\ m \in Nonces /\ m # n
      BY <1>2, NonceAssumption DEF Nonces
    <3> QED BY <1>1, <1>6, <3>1 DEF TypeInv, LoopLots
  <2> HIDE DEF n, lot
  <2> QED BY <1>1, <1>5, <1>7, <2>1 DEF LoopLots
<1>10. DOMAIN FoodMaterials' = DOMAIN FoodMaterials
  BY <1>5
<1> QED BY <1>5, <1>6, <1>8, <1>9, <1>10 DEF TypeInv, TypeOK, admin, ItemOK, TraceOK, IsLot, Absent, EventOK, Looping

LEMMA FinishProduceTypeInv ==
  ASSUME TypeInv, FinishProduce
  PROVE  TypeInv'
<1> DEFINE hash == RootHash(call.dst[1])
<1>1. pc = "produce" /\ pc \in Looping /\ CallOK /\ TypeOK
  BY DEF FinishProduce, Looping, TypeInv, TypeOK
<1>2. UNCHANGED <<FoodMaterials, admin, now, committed, call>> /\ pc' = "return"
  BY DEF FinishProduce, Return
<1>3. CASE UNCHANGED <<FoodItem, FoodTrace>>
  BY <1>1, <1>2, <1>3, QuietTypeInv DEF storage, TypeOK
<1>4. CASE /\ FoodTrace' = Put(FoodTrace, hash, Trace(call.event, NoHash))
           /\ FoodItem' = Insert(FoodItem, call.dst, 0, Lot(call.amount, hash))
  <2>1. /\ call.dst \in Identity /\ EventOK(call.event) /\ call.event.kind = "Produce"
        /\ call.amount \in Nat \ {0} /\ 0 \in Nonces
    BY <1>1, NonceAssumption DEF CallOK, Nonces
  <2> HIDE DEF hash
  <2>2. TraceOK(FoodTrace') /\ DOMAIN FoodTrace' = DOMAIN FoodTrace \cup {hash}
    BY <1>1, <1>4, <2>1, PutTraceOK, PutFacts DEF TypeOK
  <2>3. IsLot(Lot(call.amount, hash), DOMAIN FoodTrace')
    BY <2>1, <2>2, LotFacts DEF IsLot
  <2>4. ItemOK(FoodItem, FoodTrace')
    BY <1>1, <2>2, ItemOKMonotone DEF TypeOK
  <2>5. ItemOK(FoodItem', FoodTrace')
    BY <1>4, <2>1, <2>3, <2>4, InsertOK
  <2>6. CallOK' /\ LoopLots'
    BY <1>1, <1>2 DEF CallOK, LoopLots, Looping, NoCall
  <2> QED BY <1>1, <1>2, <2>2, <2>5, <2>6 DEF TypeInv, TypeOK, admin, ItemOK, TraceOK, IsLot, Absent, EventOK, Looping
<1> QED BY <1>3, <1>4 DEF FinishProduce

LEMMA AdminTypeInv ==
  ASSUME TypeInv, UNCHANGED <<storage, now, committed, call>>, pc' = "return",
         AccountGLN' \in [Accounts -> GLNs \cup {None}],
         ManufacturerLicense' \in [GLNs -> Licenses \cup {None}]
  PROVE  TypeInv'
BY DEF TypeInv, TypeOK, ItemOK, TraceOK, IsLot, Absent, EventOK, CallOK, LoopLots, Looping, storage, NoCall

LEMMA SetAccountGlnTypeInv ==
  ASSUME TypeInv, NEW o, NEW target \in Accounts, NEW gln \in GLNs \cup {Malformed},
         SetAccountGln(o, target, gln)
  PROVE  TypeInv'
<1> DEFINE errors == <<RootError(o), IF AccountGLN[target] = None THEN Ok ELSE "GlnAlreadySet",
                       GlnError(gln)>>
<1>1. CASE Reject(errors)
  BY <1>1, RejectTypeInv
<1>2. CASE /\ Passes(errors) /\ AccountGLN' = [AccountGLN EXCEPT ![target] = gln]
           /\ Return("AccountGlnSet")
           /\ UNCHANGED <<storage, ManufacturerLicense, now, committed, call>>
  <2>1. GlnError(gln) = Ok
    BY <1>2 DEF Passes
  <2>2. gln \in GLNs
    BY <2>1, DistinctAssumption DEF GlnError, Ok
  <2> QED BY <1>2, <2>2, AdminTypeInv DEF Return, TypeInv, TypeOK
<1> QED BY <1>1, <1>2 DEF SetAccountGln

LEMMA SetManufacturerLicenseTypeInv ==
  ASSUME TypeInv, NEW o, NEW id, NEW license, SetManufacturerLicense(o, id, license)
  PROVE  TypeInv'
<1> DEFINE errors == <<RootError(o), GlnError(id),
                       IF license \in Licenses \cup {None} THEN Ok ELSE "LicenseFormatError">>
<1>1. CASE Reject(errors)
  BY <1>1, RejectTypeInv
<1>2. CASE /\ Passes(errors)
           /\ ManufacturerLicense' = [ManufacturerLicense EXCEPT ![GlnOf(id)] = license]
           /\ pc' = "return"
           /\ UNCHANGED <<storage, AccountGLN, now, committed, call>>
  <2>1. GlnError(id) = Ok /\ (IF license \in Licenses \cup {None} THEN Ok ELSE "LicenseFormatError") = Ok
    BY <1>2 DEF Passes
  <2>2. GlnOf(id) \in GLNs /\ license \in Licenses \cup {None}
    BY <2>1, IdHasGln DEF TypeInv, Ok
  <2> QED BY <1>2, <2>2, AdminTypeInv DEF TypeInv, TypeOK
<1> QED BY <1>1, <1>2 DEF SetManufacturerLicense, Return

LEMMA SettleTypeInv ==
  ASSUME TypeInv, Commit \/ Rollback
  PROVE  TypeInv'
<1>1. CallOK' /\ LoopLots' /\ UNCHANGED <<admin, now>> /\ pc' = "idle"
  <2>1. call' = NoCall /\ pc' = "idle" /\ UNCHANGED <<admin, now>>
    BY DEF Commit, Rollback, Settle
  <2>2. /\ NoCall.srcNonce = 0 /\ NoCall.dstNonce = 0 /\ NoCall.left = 0 /\ NoCall.todo = <<>>
        /\ 0 \in Nonces
    BY NonceAssumption DEF NoCall, Nonces
  <2>3. CallOK'
    BY <2>1, <2>2 DEF CallOK, Looping
  <2> QED BY <2>1, <2>3 DEF LoopLots
<1>2. CASE Commit
  <2>1. /\ committed'.item = FoodItem /\ committed'.trace = FoodTrace /\ committed'.materials = FoodMaterials
        /\ FoodItem' = FoodItem /\ FoodTrace' = FoodTrace /\ FoodMaterials' = FoodMaterials
    BY <1>2 DEF Commit, Snapshot, storage
  <2> QED BY <1>1, <2>1 DEF TypeInv, TypeOK, admin, ItemOK, TraceOK, IsLot, Absent, EventOK, Looping
<1>3. CASE Rollback
  <2>1. /\ FoodItem' = committed.item /\ FoodTrace' = committed.trace
        /\ FoodMaterials' = committed.materials /\ committed' = committed
    BY <1>3 DEF Rollback
  <2> QED BY <1>1, <2>1 DEF TypeInv, TypeOK, admin, ItemOK, TraceOK, IsLot, Absent, EventOK, Looping
<1> QED BY <1>2, <1>3

LEMMA NextTypeInv == TypeInv /\ [Next]_vars => TypeInv'
<1> SUFFICES ASSUME TypeInv, [Next]_vars PROVE TypeInv'
  OBVIOUS
<1>1. CASE Dispatch
  <2>1. CASE Produce
    BY <2>1, ProduceTypeInv, InputAssumption DEF Produce
  <2>2. CASE Trade
    BY <2>2, TradeTypeInv, InputAssumption DEF Trade
  <2>3. CASE Store
    BY <2>3, StoreTypeInv, InputAssumption DEF Store
  <2>4. CASE Transport
    BY <2>4, TransportTypeInv, InputAssumption DEF Transport
  <2>5. CASE SetGln
    BY <2>5, SetAccountGlnTypeInv DEF SetGln
  <2>6. CASE SetLicense
    BY <2>6, SetManufacturerLicenseTypeInv DEF SetLicense
  <2> QED BY <1>1, <2>1, <2>2, <2>3, <2>4, <2>5, <2>6 DEF Dispatch
<1>2. CASE ProduceStep
  BY <1>2, NextMaterialTypeInv, ConsumeLotTypeInv, FinishProduceTypeInv DEF ProduceStep
<1>3. CASE TradeLot \/ TransportLot
  BY <1>3, MoveLotTypeInv DEF TradeLot, TransportLot
<1>4. CASE StoreLot
  BY <1>4, StoreLotTypeInv
<1>5. CASE FinishTrade \/ FinishTransport \/ FinishStore
  BY <1>5, QuietTypeInv DEF FinishTrade, FinishTransport, FinishStore, FinishLoop, Return, TypeInv, TypeOK
<1>6. CASE Commit \/ Rollback
  BY <1>6, SettleTypeInv
<1>7. CASE Tick
  BY <1>7, QuietTypeInv DEF Tick, TypeInv, TypeOK
<1>8. CASE UNCHANGED vars
  BY <1>8 DEF vars, storage, admin, TypeInv, TypeOK, ItemOK, TraceOK, IsLot, Absent, EventOK, CallOK,
              LoopLots, Looping, NoCall
<1> QED
  BY <1>1, <1>2, <1>3, <1>4, <1>5, <1>6, <1>7, <1>8
  DEF Next, Proceed, TradeStep, TransportStep, StoreStep, SkipStoredLot, Spin

\* Every reachable state is well-typed: what the storage holds is what its
\* declared types say, and every chain of traces is closed.
THEOREM TypeCorrect == Spec => []TypeOK
<1>1. Spec => []TypeInv
  BY InitTypeInv, NextTypeInv, PTL DEF Spec
<1>2. TypeInv => TypeOK
  BY DEF TypeInv
<1> QED BY <1>1, <1>2, PTL

\* No unwrap() of a lot in the loops of lib.rs:148, 213, 268 and 336 fails, in
\* either build, whatever the calls name: the loops visit only lots that are held.
THEOREM UnwrapsAreSafe == Spec => []UnwrapSafe
<1>1. Spec => []TypeInv
  BY InitTypeInv, NextTypeInv, PTL DEF Spec
<1>2. TypeInv => UnwrapSafe
  <2> SUFFICES ASSUME TypeInv PROVE UnwrapSafe
    OBVIOUS
  <2> USE DEF TypeInv, TypeOK, CallOK, LoopLots
  <2>1. ASSUME pc \in {"produce", "trade", "transport"}, call.left > 0, call.srcNonce > 0
        PROVE  FoodItem[call.src][call.srcNonce - 1].held
    <3>1. call.srcNonce - 1 \in 0 .. (call.srcNonce - 1)
      BY <2>1, NonceAssumption DEF Nonces
    <3> QED BY <2>1, <3>1
  <2>2. ASSUME pc = "store", call.left > 0, call.srcNonce # call.dstNonce
        PROVE  FoodItem[call.src][call.srcNonce].held
    <3>1. call.srcNonce \in call.srcNonce .. (call.dstNonce - 1)
      BY <2>2, NonceAssumption DEF Nonces
    <3> QED BY <2>2, <3>1
  <2> QED BY <2>1, <2>2 DEF UnwrapSafe
<1> QED BY <1>1, <1>2, PTL

\* A lot that an iteration visits has an amount, so that less is left to take after it.
LEMMA LessIsLeft ==
  ASSUME TypeInv, pc \in Looping, call.left > 0, NEW n \in Nonces, FoodItem[call.src][n].held,
         call'.todo = call.todo,
         call'.left = call.left - Smaller(FoodItem[call.src][n].amount, call.left)
  PROVE  call'.left < call.left
<1>1. call.left \in Nat \ {0} /\ call.src \in Identity
  BY DEF TypeInv, TypeOK, CallOK
<1>2. IsLot(FoodItem[call.src][n], DOMAIN FoodTrace)
  BY <1>1, HeldIsLot DEF TypeInv, TypeOK
<1>3. Smaller(FoodItem[call.src][n].amount, call.left) \in Nat \ {0}
  BY <1>1, <1>2, SmallerFacts DEF IsLot
<1> QED BY <1>1, <1>3

\* Every iteration of a loop gets a call nearer to its end, in either build and for
\* lots and lists of every size: it takes something off what is left, or a material
\* off the list.  So the call returns, but for the skip of a stored lot (lib.rs:267).
THEOREM CallsGetNearer == Spec => LoopsAdvance
<1>1. TypeInv /\ [Next]_vars =>
        [pc' = pc /\ pc \in Looping =>
           \/ call'.todo = call.todo /\ call'.left < call.left
           \/ Len(call'.todo) < Len(call.todo)]_vars
  <2> SUFFICES ASSUME TypeInv, Next, ~(UNCHANGED vars), pc \in Looping, pc' = pc
               PROVE  \/ call'.todo = call.todo /\ call'.left < call.left
                      \/ Len(call'.todo) < Len(call.todo)
    OBVIOUS
  <2>1. CallOK
    BY DEF TypeInv, TypeOK
  <2>2. CASE TradeLot \/ TransportLot
    <3> DEFINE n == call.srcNonce - 1
    <3>1. /\ call.left > 0 /\ call.srcNonce > 0 /\ pc \in {"trade", "transport"}
          /\ call' = [call EXCEPT !.srcNonce = n, !.dstNonce = Inc(@),
                                  !.left = @ - Smaller(FoodItem[call.src][n].amount, call.left)]
      BY <2>2 DEF TradeLot, TransportLot, MoveLot
    <3>2. n \in Nonces /\ n \in 0 .. (call.srcNonce - 1)
      BY <2>1, <3>1, NonceAssumption DEF CallOK, Nonces
    <3>3. FoodItem[call.src][n].held
      BY <3>1, <3>2 DEF TypeInv, LoopLots
    <3>4. /\ call'.todo = call.todo
          /\ call'.left = call.left - Smaller(FoodItem[call.src][n].amount, call.left)
      BY <2>1, <3>1 DEF CallOK, NoCall
    <3> QED BY <3>1, <3>2, <3>3, <3>4, LessIsLeft
  <2>3. CASE ConsumeLot
    <3> DEFINE n == call.srcNonce - 1
    <3>1. /\ call.left > 0 /\ call.srcNonce > 0 /\ pc = "produce"
          /\ call' = [call EXCEPT !.srcNonce = n,
                                  !.left = @ - Smaller(FoodItem[call.src][n].amount, @)]
      BY <2>3 DEF ConsumeLot
    <3>2. n \in Nonces /\ n \in 0 .. (call.srcNonce - 1)
      BY <2>1, <3>1, NonceAssumption DEF CallOK, Nonces
    <3>3. FoodItem[call.src][n].held
      BY <3>1, <3>2 DEF TypeInv, LoopLots
    <3>4. /\ call'.todo = call.todo
          /\ call'.left = call.left - Smaller(FoodItem[call.src][n].amount, call.left)
      BY <2>1, <3>1 DEF CallOK, NoCall
    <3> QED BY <3>1, <3>2, <3>3, <3>4, LessIsLeft
  <2>4. CASE StoreLot
    <3> DEFINE n == call.srcNonce
    <3>1. /\ call.left > 0 /\ n # call.dstNonce /\ pc = "store"
          /\ call' = [call EXCEPT !.srcNonce = Inc(@),
                                  !.left = @ - Smaller(FoodItem[call.src][n].amount, @)]
      BY <2>4 DEF StoreLot
    <3>2. n \in Nonces /\ n \in n .. (call.dstNonce - 1)
      BY <2>1, <3>1, NonceAssumption DEF CallOK, Nonces, TypeInv, LoopLots
    <3>3. FoodItem[call.src][n].held
      BY <3>1, <3>2 DEF TypeInv, LoopLots
    <3>4. /\ call'.todo = call.todo
          /\ call'.left = call.left - Smaller(FoodItem[call.src][n].amount, call.left)
      BY <2>1, <3>1 DEF CallOK, NoCall
    <3> QED BY <3>1, <3>2, <3>3, <3>4, LessIsLeft
  <2>5. CASE NextMaterial
    <3>1. /\ call.todo # <<>>
          /\ \E id : call' = [call EXCEPT !.src = id, !.srcNonce = MaxNonce(id),
                                          !.left = Head(call.todo)[2], !.todo = Tail(@)]
      BY <2>5 DEF NextMaterial, NonceOverrun, Reject, Return, Looping
    <3>2. call'.todo = Tail(call.todo)
      BY <2>1, <3>1 DEF CallOK, NoCall
    <3>3. call.todo \in Seq((BarCodes \cup {Malformed}) \X Nat)
      BY <2>1, <2>5 DEF CallOK
    <3> QED BY <3>1, <3>2, <3>3
  <2>6. CASE SkipStoredLot \/ Spin \/ Tick \/ Commit \/ Rollback
    BY <2>6 DEF SkipStoredLot, Spin, Tick, Commit, Rollback, Settle, Looping
  <2>7. CASE FinishTrade \/ FinishTransport \/ FinishStore \/ FinishProduce
    BY <2>7 DEF FinishTrade, FinishTransport, FinishStore, FinishProduce, FinishLoop, Return, Looping
  <2>8. CASE Dispatch
    <3>1. \A o, b, m, n, d, ms : ProduceFood(o, b, m, n, d, ms) => Ready
      BY DEF ProduceFood
    <3>2. \A o, b, l, to, n : TradeFood(o, b, l, to, n) => Ready
      BY DEF TradeFood
    <3>3. \A o, b, w, s, n : StoreFood(o, b, w, s, n) => Ready
      BY DEF StoreFood
    <3>4. \A o, b, f, d, c, s, n : TransportFood(o, b, f, d, c, s, n) => Ready
      BY DEF TransportFood
    <3>5. \A o, i, g : (SetAccountGln(o, i, g) \/ SetManufacturerLicense(o, i, g)) => Ready
      BY DEF SetAccountGln, SetManufacturerLicense
    <3>6. Ready
      BY <2>8, <3>1, <3>2, <3>3, <3>4, <3>5, Zenon
      DEF Dispatch, Produce, Trade, Store, Transport, SetGln, SetLicense
    <3> QED BY <3>6 DEF Ready, Looping
  <2> QED BY <2>2, <2>3, <2>4, <2>5, <2>6, <2>7, <2>8
          DEF Next, Proceed, ProduceStep, TradeStep, TransportStep, StoreStep
<1> QED BY <1>1, InitTypeInv, NextTypeInv, PTL DEF Spec, LoopsAdvance

(***************************************************************************)
(* What the steps of the loops do to the lots.                             *)
(***************************************************************************)
LEMMA ConsumeEffect ==
  ASSUME TypeInv, NEW id \in Identity, NEW n \in Nonces
  PROVE  \A i \in Identity : \A m \in Nonces :
           Consume(id, n)[i][m] =
             IF i = id /\ m = n
             THEN IF FoodItem[id][n].amount > call.left
                  THEN Lot(FoodItem[id][n].amount - call.left, FoodItem[id][n].hash)
                  ELSE NoLot
             ELSE FoodItem[i][m]
<1>1. ItemOK(FoodItem, FoodTrace)
  BY DEF TypeInv, TypeOK
<1>2. CASE FoodItem[id][n].amount > call.left
  BY <1>1, <1>2, InsertFacts DEF Consume
<1>3. CASE ~(FoodItem[id][n].amount > call.left)
  BY <1>1, <1>3, InsertFacts DEF Consume, Remove
<1> QED BY <1>2, <1>3

\* The lot at the top of the source goes, in whole or in part, to the top of the
\* destination.
LEMMA MoveLotEffect ==
  ASSUME TypeInv, pc \in {"trade", "transport"}, MoveLot,
         NEW n, n = call.srcNonce - 1, NEW lot, lot = FoodItem[call.src][n]
  PROVE  /\ call.src \in Identity /\ call.dst \in Identity /\ n \in Nonces /\ call.dstNonce \in Nonces
         /\ call.left \in Nat \ {0} /\ lot.held /\ IsLot(lot, DOMAIN FoodTrace)
         /\ call.event.kind \notin {"Produce", "Store"}
         /\ \A i \in Identity : \A m \in Nonces :
              FoodItem'[i][m] =
                IF i = call.dst /\ m = call.dstNonce
                THEN Lot(Smaller(lot.amount, call.left), Link(call.event, lot.hash))
                ELSE IF i = call.src /\ m = n
                THEN IF lot.amount > call.left THEN Lot(lot.amount - call.left, lot.hash) ELSE NoLot
                ELSE FoodItem[i][m]
<1>1. /\ call.left \in Nat \ {0} /\ call.src \in Identity /\ call.dst \in Identity
      /\ n \in Nonces /\ call.dstNonce \in Nonces /\ call.event.kind \notin {"Produce", "Store"}
  <2>1. call.left > 0 /\ call.srcNonce > 0 /\ pc \in Looping /\ pc \notin {"produce", "store"} /\ CallOK
    BY DEF MoveLot, Looping, TypeInv, TypeOK
  <2>2. n \in Nonces
    BY <2>1, NonceAssumption DEF CallOK, Nonces
  <2> QED BY <2>1, <2>2 DEF CallOK
<1>2. lot.held /\ IsLot(lot, DOMAIN FoodTrace)
  <2>1. n \in 0 .. (call.srcNonce - 1)
    BY <1>1, NonceAssumption DEF Nonces
  <2>2. lot.held
    BY <1>1, <2>1 DEF TypeInv, LoopLots
  <2> QED BY <1>1, <2>2, HeldIsLot DEF TypeInv, TypeOK
<1>3. FoodItem' = Insert(Consume(call.src, n), call.dst, call.dstNonce,
                         Lot(Smaller(lot.amount, call.left), Link(call.event, lot.hash)))
  BY DEF MoveLot
<1>4. ItemOK(Consume(call.src, n), FoodTrace)
  BY <1>1, <1>2, ConsumeOK DEF TypeInv
<1>5. ASSUME NEW i \in Identity, NEW m \in Nonces
      PROVE  FoodItem'[i][m] =
                IF i = call.dst /\ m = call.dstNonce
                THEN Lot(Smaller(lot.amount, call.left), Link(call.event, lot.hash))
                ELSE Consume(call.src, n)[i][m]
  <2>1. /\ DOMAIN Consume(call.src, n) = Identity
        /\ \A j \in Identity : DOMAIN Consume(call.src, n)[j] = Nonces
    BY <1>4 DEF ItemOK
  <2> QED BY <1>1, <1>3, <2>1 DEF Insert
<1> QED BY <1>1, <1>2, <1>5, ConsumeEffect

\* The lot at the nonce is relabelled; the rest of a larger one goes to the top.
LEMMA StoreLotEffect ==
  ASSUME TypeInv, StoreLot, NEW n, n = call.srcNonce, NEW lot, lot = FoodItem[call.src][n]
  PROVE  /\ call.src \in Identity /\ n \in Nonces /\ call.dstNonce \in Nonces /\ n < call.dstNonce
         /\ call.left \in Nat \ {0} /\ lot.held /\ IsLot(lot, DOMAIN FoodTrace)
         /\ call.event.kind = "Store"
         /\ \A i \in Identity : \A m \in Nonces :
              FoodItem'[i][m] =
                IF i = call.src /\ m = n
                THEN Lot(Smaller(lot.amount, call.left), Link(call.event, lot.hash))
                ELSE IF i = call.src /\ m = call.dstNonce /\ lot.amount > call.left
                THEN Lot(lot.amount - call.left, lot.hash)
                ELSE FoodItem[i][m]
<1> DEFINE stored == Lot(Smaller(lot.amount, call.left), Link(call.event, lot.hash))
           first  == Insert(FoodItem, call.src, n, stored)
<1>1. /\ call.left \in Nat \ {0} /\ call.src \in Identity /\ call.event.kind = "Store"
      /\ n \in Nonces /\ call.dstNonce \in Nonces /\ n < call.dstNonce
  <2>1. pc \in Looping /\ pc = "store" /\ call.left > 0 /\ n # call.dstNonce /\ CallOK /\ n <= call.dstNonce
    BY DEF StoreLot, Looping, TypeInv, TypeOK, LoopLots
  <2> QED BY <2>1, NonceAssumption DEF CallOK, Nonces
<1>2. lot.held /\ IsLot(lot, DOMAIN FoodTrace) /\ ItemOK(FoodItem, FoodTrace)
  <2>1. n \in n .. (call.dstNonce - 1)
    BY <1>1, NonceAssumption DEF Nonces
  <2>2. lot.held
    BY <1>1, <2>1 DEF TypeInv, LoopLots, StoreLot
  <2> QED BY <1>1, <2>2, HeldIsLot DEF TypeInv, TypeOK
<1>3. \A i \in Identity : \A m \in Nonces :
        first[i][m] = IF i = call.src /\ m = n THEN stored ELSE FoodItem[i][m]
  BY <1>1, <1>2, InsertFacts
<1>4. CASE lot.amount > call.left
  <2>1. FoodItem' = [first EXCEPT ![call.src][call.dstNonce] = Lot(lot.amount - call.left, lot.hash)]
    BY <1>1, <1>2, <1>4, RelabelFacts DEF IsLot, Insert
  <2>2. DOMAIN first = Identity /\ \A i \in Identity : DOMAIN first[i] = Nonces
    BY <1>1, <1>2, InsertFacts
  <2> HIDE DEF first, stored
  <2>3. \A i \in Identity : \A m \in Nonces :
          FoodItem'[i][m] = IF i = call.src /\ m = call.dstNonce
                            THEN Lot(lot.amount - call.left, lot.hash) ELSE first[i][m]
    BY <1>1, <2>1, <2>2
  <2>4. n # call.dstNonce
    BY <1>1, NonceAssumption DEF Nonces
  <2> QED BY <1>1, <1>2, <1>3, <1>4, <2>3, <2>4 DEF stored
<1>5. CASE ~(lot.amount > call.left)
  <2>1. FoodItem' = first
    BY <1>1, <1>2, <1>5, RelabelFacts DEF IsLot
  <2> HIDE DEF first
  <2> QED BY <1>1, <1>2, <1>3, <1>5, <2>1
<1> QED BY <1>4, <1>5

-----------------------------------------------------------------------------
(***************************************************************************)
(* What is on record of a food's past stays on record, unchanged: every    *)
(* hash in FoodTrace is the hash of what is stored under it, so that a     *)
(* second insertion under a hash can only repeat the first.                *)
(***************************************************************************)
\* Every key of FoodTrace is the hash of its entry; a chain starts at the hash of
\* a bar code that has been made.
TraceKeys(trace, made) ==
  \A h \in DOMAIN trace :
    /\ trace[h] = Trace(trace[h].event, trace[h].parent)
    /\ trace[h].event.kind = "Produce" => \E b \in made : h = RootHash(b)
    /\ trace[h].event.kind # "Produce" => h = Link(trace[h].event, trace[h].parent)

Keeps(old, new) == \A h \in DOMAIN old : h \in DOMAIN new /\ new[h] = old[h]

TraceInv ==
  /\ TraceKeys(FoodTrace, DOMAIN FoodMaterials)
  /\ TraceKeys(committed.trace, DOMAIN committed.materials)
  /\ Keeps(committed.trace, FoodTrace)
  /\ pc = "produce" => /\ call.dst[1] \in DOMAIN FoodMaterials
                       /\ RootHash(call.dst[1]) \notin DOMAIN FoodTrace

\* The hash of a bar code is not the hash of an event.
LEMMA RootIsNoLink == ASSUME NEW b, NEW ev, NEW h PROVE RootHash(b) # Link(ev, h)
<1>1. "head" \in DOMAIN Link(ev, h) /\ "head" \notin DOMAIN RootHash(b)
  BY DEF RootHash, Link
<1> QED BY <1>1

LEMMA LinkInjective ==
  ASSUME NEW e, NEW h, NEW f, NEW g, Link(e, h) = Link(f, g) PROVE e = f /\ h = g
BY DEF Link

LEMMA RootInjective == ASSUME NEW b, NEW c, RootHash(b) = RootHash(c) PROVE b = c
BY DEF RootHash

LEMMA TraceFields == ASSUME NEW ev, NEW h PROVE Trace(ev, h).event = ev /\ Trace(ev, h).parent = h
BY DEF Trace

LEMMA KeysMonotone ==
  ASSUME NEW trace, NEW made, NEW more, TraceKeys(trace, made), made \subseteq more
  PROVE  TraceKeys(trace, more)
BY DEF TraceKeys

\* Recording an event on a chain keeps what is on record.
LEMMA PutLink ==
  ASSUME NEW trace, NEW made, TraceKeys(trace, made), NEW ev, NEW parent, ev.kind # "Produce"
  PROVE  /\ TraceKeys(Put(trace, Link(ev, parent), Trace(ev, parent)), made)
         /\ Keeps(trace, Put(trace, Link(ev, parent), Trace(ev, parent)))
<1> DEFINE hash == Link(ev, parent)
           new  == Put(trace, hash, Trace(ev, parent))
<1>1. /\ DOMAIN new = DOMAIN trace \cup {hash}
      /\ new[hash] = Trace(ev, parent)
      /\ \A x \in DOMAIN trace : x # hash => new[x] = trace[x]
  BY DEF Put
<1> HIDE DEF new
<1>2. ASSUME hash \in DOMAIN trace PROVE trace[hash] = Trace(ev, parent)
  <2>1. trace[hash].event.kind # "Produce"
    BY <1>2, RootIsNoLink DEF TraceKeys
  <2>2. hash = Link(trace[hash].event, trace[hash].parent)
    BY <1>2, <2>1 DEF TraceKeys
  <2>3. trace[hash].event = ev /\ trace[hash].parent = parent
    BY <2>2, LinkInjective
  <2> QED BY <1>2, <2>3 DEF TraceKeys
<1>3. Keeps(trace, new)
  BY <1>1, <1>2 DEF Keeps
<1>4. ASSUME NEW h \in DOMAIN new
      PROVE  /\ new[h] = Trace(new[h].event, new[h].parent)
             /\ new[h].event.kind = "Produce" => \E b \in made : h = RootHash(b)
             /\ new[h].event.kind # "Produce" => h = Link(new[h].event, new[h].parent)
  <2>1. CASE h = hash
    <3>1. new[h].event = ev /\ new[h].parent = parent
      BY <1>1, <2>1, TraceFields
    <3> QED BY <1>1, <2>1, <3>1
  <2>2. CASE h # hash
    <3>1. h \in DOMAIN trace /\ new[h] = trace[h]
      BY <1>1, <2>2
    <3> QED BY <3>1 DEF TraceKeys
  <2> QED BY <2>1, <2>2
<1>5. TraceKeys(new, made)
  BY <1>4 DEF TraceKeys
<1> QED BY <1>3, <1>5 DEF new

\* So does starting the chain of a bar code that has none.
LEMMA PutRoot ==
  ASSUME NEW trace, NEW made, TraceKeys(trace, made), NEW ev, ev.kind = "Produce",
         NEW bar \in made, RootHash(bar) \notin DOMAIN trace
  PROVE  /\ TraceKeys(Put(trace, RootHash(bar), Trace(ev, NoHash)), made)
         /\ Keeps(trace, Put(trace, RootHash(bar), Trace(ev, NoHash)))
<1> DEFINE new  == Put(trace, RootHash(bar), Trace(ev, NoHash))
<1>1. /\ DOMAIN new = DOMAIN trace \cup {RootHash(bar)}
      /\ new[RootHash(bar)] = Trace(ev, NoHash)
      /\ \A x \in DOMAIN trace : x # RootHash(bar) => new[x] = trace[x]
  BY DEF Put
<1> HIDE DEF new
<1>2. Keeps(trace, new)
  BY <1>1 DEF Keeps
<1>3. ASSUME NEW h \in DOMAIN new
      PROVE  /\ new[h] = Trace(new[h].event, new[h].parent)
             /\ new[h].event.kind = "Produce" => \E b \in made : h = RootHash(b)
             /\ new[h].event.kind # "Produce" => h = Link(new[h].event, new[h].parent)
  <2>1. CASE h = RootHash(bar)
    <3>1. new[h].event = ev /\ new[h].parent = NoHash
      BY <1>1, <2>1, TraceFields
    <3> QED BY <1>1, <2>1, <3>1
  <2>2. CASE h # RootHash(bar)
    <3>1. h \in DOMAIN trace /\ new[h] = trace[h]
      BY <1>1, <2>2
    <3> QED BY <3>1 DEF TraceKeys
  <2> QED BY <2>1, <2>2
<1>4. TraceKeys(new, made)
  BY <1>3 DEF TraceKeys
<1> QED BY <1>2, <1>4 DEF new

LEMMA KeepsTransitive ==
  ASSUME NEW a, NEW b, NEW c, Keeps(a, b), Keeps(b, c) PROVE Keeps(a, c)
BY DEF Keeps

LEMMA InitTraceInv == Init => TraceInv
BY DEF Init, Empty, Snapshot, TraceInv, TraceKeys, Keeps

LEMMA QuietTraceInv ==
  ASSUME TraceInv, UNCHANGED <<storage, committed, call>>, pc' \in {pc, "idle", "return", "spin"}
  PROVE  TraceInv'
BY DEF TraceInv, TraceKeys, Keeps, storage

LEMMA ProduceTraceInv ==
  ASSUME TypeInv, TraceInv, NEW o, NEW bar, NEW maker, NEW amount, NEW shelfLife, NEW materials,
         ProduceFood(o, bar, maker, amount, shelfLife, materials)
  PROVE  TraceInv'
<1> DEFINE errors == <<MetadataError(o), GlnError(maker), LicenseError(maker),
                       BarCodeError(bar), AmountError(amount, bar), DuplicateError(bar)>>
<1>1. CASE Reject(errors)
  BY <1>1, QuietTraceInv DEF Reject, Return
<1>2. CASE /\ Passes(errors)
           /\ FoodMaterials' = Put(FoodMaterials, bar, <<>>)
           /\ pc' = "produce" /\ call'.dst[1] = bar
           /\ UNCHANGED <<FoodItem, FoodTrace, committed>>
  <2>1. BarCodeError(bar) = Ok /\ DuplicateError(bar) = Ok
    BY <1>2 DEF Passes
  <2>2. bar \notin DOMAIN FoodMaterials
    BY <2>1, BarCodeParsed DEF DuplicateError, Ok
  <2>3. DOMAIN FoodMaterials' = DOMAIN FoodMaterials \cup {bar}
    BY <1>2 DEF Put
  <2>4. RootHash(bar) \notin DOMAIN FoodTrace
    <3> SUFFICES ASSUME RootHash(bar) \in DOMAIN FoodTrace PROVE FALSE
      OBVIOUS
    <3>1. FoodTrace[RootHash(bar)].event.kind = "Produce"
      BY RootIsNoLink DEF TraceInv, TraceKeys
    <3>2. PICK b \in DOMAIN FoodMaterials : RootHash(bar) = RootHash(b)
      BY <3>1 DEF TraceInv, TraceKeys
    <3> QED BY <2>2, <3>2, RootInjective
  <2>5. TraceKeys(FoodTrace, DOMAIN FoodMaterials')
    BY <2>3, KeysMonotone DEF TraceInv
  <2> QED BY <1>2, <2>3, <2>4, <2>5 DEF TraceInv
<1>3. ASSUME call' = [NoCall EXCEPT !.dst = Holding(bar, AccountGLN[o], GlnOf(maker)),
                        !.amount = amount, !.todo = materials,
                        !.event = [kind |-> "Produce", manufacturer |-> GlnOf(maker),
                                   license |-> ManufacturerLicense[GlnOf(maker)],
                                   shelfLife |-> shelfLife, time |-> Stamp(now)]]
      PROVE  call'.dst[1] = bar
  BY <1>3 DEF NoCall, Holding
<1> QED BY <1>1, <1>2, <1>3 DEF ProduceFood

\* The calls that move or store food write nothing before their loops.
LEMMA MoversLeaveStorage ==
  ASSUME Trade \/ Transport \/ Store
  PROVE  UNCHANGED <<storage, admin, committed>> /\ pc' \in {"trade", "transport", "store", "return", "spin"}
<1>1. ASSUME NEW errors, Reject(errors)
      PROVE  UNCHANGED <<storage, admin, committed>> /\ pc' = "return"
  BY <1>1 DEF Reject, Return
<1>2. ASSUME NonceOverrun
      PROVE  UNCHANGED <<storage, admin, committed>> /\ pc' \in {"return", "spin"}
  BY <1>2 DEF NonceOverrun, Return
<1>3. ASSUME NEW where, NEW src, NEW dst, NEW amount, NEW event, StartMove(where, src, dst, amount, event)
      PROVE  UNCHANGED <<storage, admin, committed>> /\ pc' \in {where, "return", "spin"}
  BY <1>2, <1>3 DEF StartMove
<1>4. CASE Trade
  BY <1>1, <1>3, <1>4 DEF Trade, TradeFood
<1>5. CASE Transport
  BY <1>1, <1>3, <1>5 DEF Transport, TransportFood
<1>6. CASE Store
  <2>1. PICK o \in Origins, b \in RawCodes, w \in Ids, s \in SSCCs \cup {Malformed}, n \in Amounts :
          StoreFood(o, b, w, s, n)
    BY <1>6 DEF Store
  <2> QED BY <1>1, <1>2, <2>1 DEF StoreFood
<1> QED BY <1>4, <1>5, <1>6

LEMMA LinkTraceInv ==
  ASSUME TypeInv, TraceInv, NEW lot, call.event.kind # "Produce",
         FoodTrace' = Put(FoodTrace, Link(call.event, lot.hash), Trace(call.event, lot.hash)),
         UNCHANGED <<FoodMaterials, committed>>, pc' # "produce"
  PROVE  TraceInv'
<1>1. TraceKeys(FoodTrace', DOMAIN FoodMaterials) /\ Keeps(FoodTrace, FoodTrace')
  BY PutLink DEF TraceInv
<1>2. Keeps(committed.trace, FoodTrace')
  BY <1>1, KeepsTransitive DEF TraceInv
<1> QED BY <1>1, <1>2 DEF TraceInv

LEMMA NextTraceInv == TypeInv /\ TraceInv /\ [Next]_vars => TraceInv'
<1> SUFFICES ASSUME TypeInv, TraceInv, [Next]_vars PROVE TraceInv'
  OBVIOUS
<1>1. CASE Produce
  BY <1>1, ProduceTraceInv DEF Produce
<1>2. CASE Trade \/ Transport \/ Store
  <2>1. UNCHANGED <<storage, committed>> /\ pc' # "produce"
    BY <1>2, MoversLeaveStorage
  <2> QED BY <2>1 DEF TraceInv, TraceKeys, Keeps, storage
<1>3. CASE SetGln \/ SetLicense
  BY <1>3, QuietTraceInv DEF SetGln, SetLicense, SetAccountGln, SetManufacturerLicense, Reject, Return
<1>4. CASE NextMaterial
  <2>1. CASE UNCHANGED <<storage, committed>> /\ pc' = pc /\ call'.dst = call.dst
    BY <2>1 DEF TraceInv, TraceKeys, Keeps, storage
  <2>2. CASE UNCHANGED <<storage, committed, call>> /\ pc' \in {"return", "spin"}
    BY <2>2, QuietTraceInv
  <2> QED BY <1>4, <2>1, <2>2 DEF NextMaterial, NonceOverrun, Reject, Return, TypeInv, TypeOK, CallOK, NoCall
<1>5. CASE ConsumeLot
  <2>1. /\ UNCHANGED <<FoodTrace, committed, pc>> /\ call'.dst = call.dst
        /\ DOMAIN FoodMaterials' = DOMAIN FoodMaterials
    BY <1>5 DEF ConsumeLot, TypeInv, TypeOK, CallOK, NoCall
  <2> QED BY <2>1 DEF TraceInv, TraceKeys, Keeps
<1>6. CASE FinishProduce
  <2>1. /\ pc = "produce" /\ pc \in Looping /\ pc' = "return" /\ UNCHANGED <<FoodMaterials, committed, call>>
    BY <1>6 DEF FinishProduce, Return, Looping
  <2>2. call.event.kind = "Produce"
    BY <2>1 DEF TypeInv, TypeOK, CallOK
  <2>3. CASE FoodTrace' = FoodTrace
    BY <2>1, <2>3 DEF TraceInv, TraceKeys, Keeps
  <2>4. CASE FoodTrace' = Put(FoodTrace, RootHash(call.dst[1]), Trace(call.event, NoHash))
    <3>1. TraceKeys(FoodTrace', DOMAIN FoodMaterials) /\ Keeps(FoodTrace, FoodTrace')
      BY <2>1, <2>2, <2>4, PutRoot DEF TraceInv
    <3>2. Keeps(committed.trace, FoodTrace')
      BY <3>1, KeepsTransitive DEF TraceInv
    <3> QED BY <2>1, <3>1, <3>2 DEF TraceInv
  <2> QED BY <1>6, <2>3, <2>4 DEF FinishProduce
<1>7. CASE TradeLot \/ TransportLot
  <2>1. pc \in {"trade", "transport"} /\ MoveLot
    BY <1>7 DEF TradeLot, TransportLot
  <2>2. pc' # "produce" /\ UNCHANGED <<FoodMaterials, committed>>
    BY <2>1 DEF MoveLot, Return
  <2>3. call.event.kind # "Produce"
    BY <2>1 DEF TypeInv, TypeOK, CallOK, Looping
  <2> QED BY <2>1, <2>2, <2>3, LinkTraceInv DEF MoveLot
<1>8. CASE StoreLot
  <2>1. pc' # "produce" /\ UNCHANGED <<FoodMaterials, committed>> /\ pc = "store"
    BY <1>8 DEF StoreLot
  <2>2. call.event.kind # "Produce"
    BY <2>1 DEF TypeInv, TypeOK, CallOK, Looping
  <2> QED BY <1>8, <2>1, <2>2, LinkTraceInv DEF StoreLot
<1>9. CASE FinishTrade \/ FinishTransport \/ FinishStore \/ Tick \/ SkipStoredLot \/ Spin
  BY <1>9, QuietTraceInv DEF FinishTrade, FinishTransport, FinishStore, FinishLoop, Return, Tick,
                             SkipStoredLot, Spin, vars
<1>10. CASE Commit
  BY <1>10 DEF Commit, Settle, Snapshot, storage, TraceInv, TraceKeys, Keeps
<1>11. CASE Rollback
  BY <1>11 DEF Rollback, Settle, TraceInv, TraceKeys, Keeps
<1>12. CASE UNCHANGED vars
  BY <1>12, QuietTraceInv DEF vars
<1> QED
  BY <1>1, <1>2, <1>3, <1>4, <1>5, <1>6, <1>7, <1>8, <1>9, <1>10, <1>11, <1>12
  DEF Next, Dispatch, Proceed, ProduceStep, TradeStep, TransportStep, StoreStep

LEMMA OnlyCommitCommits == [Next]_vars /\ committed' # committed => Commit
<1> SUFFICES ASSUME [Next]_vars, ~Commit PROVE committed' = committed
  OBVIOUS
<1>1. CASE Produce
  BY <1>1 DEF Produce, ProduceFood, Reject
<1>2. CASE Trade \/ Transport \/ Store
  BY <1>2, MoversLeaveStorage
<1>3. CASE SetGln \/ SetLicense
  BY <1>3 DEF SetGln, SetLicense, SetAccountGln, SetManufacturerLicense, Reject
<1>4. CASE ProduceStep
  BY <1>4 DEF ProduceStep, NextMaterial, ConsumeLot, FinishProduce, NonceOverrun, Reject
<1>5. CASE TradeStep \/ TransportStep \/ StoreStep
  BY <1>5 DEF TradeStep, TransportStep, StoreStep, TradeLot, TransportLot, MoveLot, FinishTrade,
              FinishTransport, FinishLoop, StoreLot, SkipStoredLot, FinishStore, vars
<1>6. CASE Rollback \/ Spin \/ Tick \/ UNCHANGED vars
  BY <1>6 DEF Rollback, Spin, Tick, vars
<1> QED BY <1>1, <1>2, <1>3, <1>4, <1>5, <1>6 DEF Next, Dispatch, Proceed

\* The history of food is append-only: whatever calls are made, in either build,
\* what FoodTrace holds under a hash is never changed and never lost (the
\* insertions of lib.rs:171, 215, 275 and 338).
THEOREM TraceIsImmutable == Spec => TraceImmutable
<1>1. Spec => [](TypeInv /\ TraceInv)
  BY InitTypeInv, NextTypeInv, InitTraceInv, NextTraceInv, PTL DEF Spec
<1>2. TraceInv /\ [Next]_vars =>
        [\A h \in DOMAIN committed.trace :
           h \in DOMAIN committed'.trace /\ committed'.trace[h] = committed.trace[h]]_committed
  <2> SUFFICES ASSUME TraceInv, [Next]_vars, committed' # committed
               PROVE  \A h \in DOMAIN committed.trace :
                        h \in DOMAIN committed'.trace /\ committed'.trace[h] = committed.trace[h]
    OBVIOUS
  <2>1. Commit
    BY OnlyCommitCommits
  <2>2. committed'.trace = FoodTrace
    BY <2>1 DEF Commit, Snapshot
  <2> QED BY <2>2 DEF TraceInv, Keeps
<1> QED BY <1>1, <1>2, PTL DEF Spec, TraceImmutable

-----------------------------------------------------------------------------
(***************************************************************************)
(* The license a food is produced under.                                   *)
(***************************************************************************)
Licensed(event) == event.license \in Licenses /\ ManufacturerLicense[event.manufacturer] = event.license

\* What the executing call has put on record was licensed, and still is: a call
\* runs to its end before root's next one.
LicenseInv ==
  /\ pc = "idle" => FoodTrace = committed.trace
  /\ pc = "produce" => Licensed(call.event)
  /\ \A h \in DOMAIN FoodTrace \ DOMAIN committed.trace :
       FoodTrace[h].event.kind = "Produce" => Licensed(FoodTrace[h].event)

LEMMA InitLicenseInv == Init => LicenseInv
BY DEF Init, Empty, Snapshot, LicenseInv

LEMMA QuietLicenseInv ==
  ASSUME LicenseInv, UNCHANGED <<FoodTrace, admin, committed>>,
         \/ pc' \notin {"idle", "produce"}
         \/ pc' = "produce" /\ pc = "produce" /\ call'.event = call.event
         \/ pc' = pc /\ UNCHANGED call
  PROVE  LicenseInv'
BY DEF LicenseInv, Licensed, admin

\* An event of another kind is put on record.
LEMMA LinkLicenseInv ==
  ASSUME LicenseInv, call.event.kind # "Produce", NEW hash, NEW parent,
         FoodTrace' = Put(FoodTrace, hash, Trace(call.event, parent)),
         UNCHANGED <<admin, committed>>, pc' \notin {"idle", "produce"}
  PROVE  LicenseInv'
<1>1. /\ DOMAIN FoodTrace' = DOMAIN FoodTrace \cup {hash}
      /\ FoodTrace'[hash] = Trace(call.event, parent)
      /\ \A h \in DOMAIN FoodTrace : h # hash => FoodTrace'[h] = FoodTrace[h]
  BY DEF Put
<1>2. FoodTrace'[hash].event = call.event
  BY <1>1, TraceFields
<1> QED BY <1>1, <1>2 DEF LicenseInv, Licensed, admin

LEMMA ProduceLicenseInv ==
  ASSUME TypeInv, LicenseInv, NEW o, NEW bar, NEW maker, NEW amount, NEW shelfLife, NEW materials,
         ProduceFood(o, bar, maker, amount, shelfLife, materials)
  PROVE  LicenseInv'
<1> DEFINE errors == <<MetadataError(o), GlnError(maker), LicenseError(maker),
                       BarCodeError(bar), AmountError(amount, bar), DuplicateError(bar)>>
           event  == [kind |-> "Produce", manufacturer |-> GlnOf(maker),
                      license |-> ManufacturerLicense[GlnOf(maker)],
                      shelfLife |-> shelfLife, time |-> Stamp(now)]
<1>1. CASE Reject(errors)
  BY <1>1, QuietLicenseInv DEF Reject, Return, storage
<1>2. CASE Passes(errors) /\ call'.event = event /\ UNCHANGED <<FoodTrace, admin, committed>> /\ pc' = "produce"
  <2>1. GlnError(maker) = Ok /\ LicenseError(maker) = Ok
    BY <1>2 DEF Passes
  <2>2. ManufacturerLicense[GlnOf(maker)] \in Licenses
    BY <2>1, MakerLicensed DEF TypeInv
  <2>3. /\ call'.event.manufacturer = GlnOf(maker)
        /\ call'.event.license = ManufacturerLicense[GlnOf(maker)]
    BY <1>2
  <2> QED BY <1>2, <2>2, <2>3 DEF LicenseInv, Licensed, admin
<1>3. ASSUME call' = [NoCall EXCEPT !.dst = Holding(bar, AccountGLN[o], GlnOf(maker)),
                        !.amount = amount, !.todo = materials, !.event = event]
      PROVE  call'.event = event
  BY <1>3 DEF NoCall
<1> QED BY <1>1, <1>2, <1>3 DEF ProduceFood

LEMMA NextLicenseInv == TypeInv /\ LicenseInv /\ [Next]_vars => LicenseInv'
<1> SUFFICES ASSUME TypeInv, LicenseInv, [Next]_vars PROVE LicenseInv'
  OBVIOUS
<1>1. CASE Produce
  BY <1>1, ProduceLicenseInv DEF Produce
<1>2. CASE Trade \/ Transport \/ Store
  BY <1>2, MoversLeaveStorage, QuietLicenseInv DEF storage
<1>3. CASE SetGln \/ SetLicense
  <2>1. pc = "idle" /\ pc' = "return" /\ UNCHANGED <<FoodTrace, committed>>
    BY <1>3 DEF SetGln, SetLicense, SetAccountGln, SetManufacturerLicense, Ready, Reject, Return, storage
  <2> QED BY <2>1 DEF LicenseInv
<1>4. CASE NextMaterial
  <2>1. UNCHANGED <<storage, admin, committed>> /\ pc = "produce"
    BY <1>4 DEF NextMaterial, NonceOverrun, Reject, Return
  <2>2. pc' \in {"return", "spin"} \/ (pc' = pc /\ call'.event = call.event)
    BY <1>4 DEF NextMaterial, NonceOverrun, Reject, Return, TypeInv, TypeOK, CallOK, NoCall
  <2> QED BY <2>1, <2>2, QuietLicenseInv DEF storage
<1>5. CASE ConsumeLot
  <2>1. UNCHANGED <<FoodTrace, admin, committed, pc>> /\ pc = "produce" /\ call'.event = call.event
    BY <1>5 DEF ConsumeLot, TypeInv, TypeOK, CallOK, NoCall
  <2> QED BY <2>1, QuietLicenseInv
<1>6. CASE FinishProduce
  <2>1. pc = "produce" /\ pc' = "return" /\ UNCHANGED <<admin, committed, call>>
    BY <1>6 DEF FinishProduce, Return
  <2>2. CASE FoodTrace' = FoodTrace
    BY <2>1, <2>2, QuietLicenseInv
  <2>3. CASE FoodTrace' = Put(FoodTrace, RootHash(call.dst[1]), Trace(call.event, NoHash))
    <3>1. /\ DOMAIN FoodTrace' = DOMAIN FoodTrace \cup {RootHash(call.dst[1])}
          /\ FoodTrace'[RootHash(call.dst[1])] = Trace(call.event, NoHash)
          /\ \A h \in DOMAIN FoodTrace : h # RootHash(call.dst[1]) => FoodTrace'[h] = FoodTrace[h]
      BY <2>3 DEF Put
    <3>2. FoodTrace'[RootHash(call.dst[1])].event = call.event
      BY <3>1, TraceFields
    <3> QED BY <2>1, <3>1, <3>2 DEF LicenseInv, Licensed, admin
  <2> QED BY <1>6, <2>2, <2>3 DEF FinishProduce
<1>7. CASE TradeLot \/ TransportLot
  <2>1. pc \in {"trade", "transport"} /\ MoveLot
    BY <1>7 DEF TradeLot, TransportLot
  <2>2. pc' \notin {"idle", "produce"} /\ UNCHANGED <<admin, committed>>
    BY <2>1 DEF MoveLot, Return
  <2>3. call.event.kind # "Produce"
    BY <2>1 DEF TypeInv, TypeOK, CallOK, Looping
  <2> QED BY <2>1, <2>2, <2>3, LinkLicenseInv DEF MoveLot
<1>8. CASE StoreLot
  <2>1. pc = "store" /\ pc' = "store" /\ UNCHANGED <<admin, committed>>
    BY <1>8 DEF StoreLot
  <2>2. call.event.kind # "Produce"
    BY <2>1 DEF TypeInv, TypeOK, CallOK, Looping
  <2> QED BY <1>8, <2>1, <2>2, LinkLicenseInv DEF StoreLot
<1>9. CASE FinishTrade \/ FinishTransport \/ FinishStore
  BY <1>9, QuietLicenseInv DEF FinishTrade, FinishTransport, FinishStore, FinishLoop, Return, storage
<1>10. CASE Tick \/ SkipStoredLot \/ Spin \/ UNCHANGED vars
  BY <1>10, QuietLicenseInv DEF Tick, SkipStoredLot, Spin, storage, vars
<1>11. CASE Commit \/ Rollback
  <2>1. FoodTrace' = committed'.trace /\ pc' = "idle"
    BY <1>11 DEF Commit, Rollback, Settle, Snapshot, storage
  <2> QED BY <2>1 DEF LicenseInv
<1> QED
  BY <1>1, <1>2, <1>3, <1>4, <1>5, <1>6, <1>7, <1>8, <1>9, <1>10, <1>11
  DEF Next, Dispatch, Proceed, ProduceStep, TradeStep, TransportStep, StoreStep

\* Food goes on record only under the license that its manufacturer holds when
\* the record is committed (lib.rs:118-119 and 162-171).
THEOREM ProductionIsLicensed == Spec => LicensedProduction
<1>1. Spec => [](TypeInv /\ LicenseInv)
  BY InitTypeInv, NextTypeInv, InitLicenseInv, NextLicenseInv, PTL DEF Spec
<1>2. LicenseInv /\ [Next]_vars =>
        [\A h \in DOMAIN committed'.trace \ DOMAIN committed.trace :
           LET made == committed'.trace[h].event
           IN  made.kind = "Produce" => /\ made.license \in Licenses
                                        /\ ManufacturerLicense[made.manufacturer] = made.license]_committed
  <2> SUFFICES ASSUME LicenseInv, [Next]_vars, committed' # committed,
                      NEW h \in DOMAIN committed'.trace \ DOMAIN committed.trace,
                      committed'.trace[h].event.kind = "Produce"
               PROVE  Licensed(committed'.trace[h].event)
    BY DEF Licensed
  <2>1. Commit
    BY OnlyCommitCommits
  <2>2. committed'.trace = FoodTrace
    BY <2>1 DEF Commit, Snapshot
  <2> QED BY <2>2 DEF LicenseInv
<1> QED BY <1>1, <1>2, PTL DEF Spec, LicensedProduction

-----------------------------------------------------------------------------
(***************************************************************************)
(* A serial bar code names one item: there is at most one lot of it, of    *)
(* amount one, anywhere in the storage.                                    *)
(***************************************************************************)
\* Lots exist only of bar codes that have been made, and a serial one has one.
SerialOK(items, made) ==
  \A i \in Identity : \A n \in Nonces : items[i][n].held =>
    /\ i[1] \in made
    /\ i[1] \in SerialCodes =>
         /\ items[i][n].amount = 1
         /\ \A j \in Identity : \A m \in Nonces :
              j[1] = i[1] /\ items[j][m].held => j = i /\ m = n

SerialInv ==
  /\ SerialOK(FoodItem, DOMAIN FoodMaterials)
  /\ SerialOK(committed.item, DOMAIN committed.materials)
  /\ pc \in {"trade", "transport", "store"} => call.src[1] = call.dst[1]
  /\ pc = "produce" =>
       /\ call.dst[1] \in DOMAIN FoodMaterials
       /\ call.dst[1] \in SerialCodes => call.amount = 1
       /\ \A i \in Identity : \A n \in Nonces : i[1] = call.dst[1] => ~FoodItem[i][n].held

LEMMA InitSerialInv == Init => SerialInv
<1> SUFFICES ASSUME Init PROVE SerialInv
  OBVIOUS
<1>1. \A i \in Identity : \A n \in Nonces : FoodItem[i][n] = NoLot
  BY DEF Init, Empty
<1>2. ~NoLot.held
  BY DEF NoLot
<1>3. committed.item = FoodItem /\ committed.materials = FoodMaterials /\ pc = "idle"
  BY DEF Init, Empty, Snapshot
<1> QED BY <1>1, <1>2, <1>3 DEF SerialInv, SerialOK

LEMMA QuietSerialInv ==
  ASSUME SerialInv, UNCHANGED <<storage, committed, call>>, pc' \in {pc, "idle", "return", "spin"}
  PROVE  SerialInv'
BY DEF SerialInv, SerialOK, storage

LEMMA ProduceSerialInv ==
  ASSUME TypeInv, SerialInv, NEW o, NEW bar, NEW maker, NEW amount, NEW shelfLife, NEW materials,
         ProduceFood(o, bar, maker, amount, shelfLife, materials)
  PROVE  SerialInv'
<1> DEFINE errors == <<MetadataError(o), GlnError(maker), LicenseError(maker),
                       BarCodeError(bar), AmountError(amount, bar), DuplicateError(bar)>>
<1>1. CASE Reject(errors)
  BY <1>1, QuietSerialInv DEF Reject, Return
<1>2. CASE /\ Passes(errors)
           /\ FoodMaterials' = Put(FoodMaterials, bar, <<>>)
           /\ pc' = "produce" /\ call'.dst[1] = bar /\ call'.amount = amount
           /\ UNCHANGED <<FoodItem, FoodTrace, committed>>
  <2>1. BarCodeError(bar) = Ok /\ DuplicateError(bar) = Ok /\ AmountError(amount, bar) = Ok
    BY <1>2 DEF Passes
  <2>2. bar \notin DOMAIN FoodMaterials /\ (bar \in SerialCodes => amount = 1)
    BY <2>1, BarCodeParsed, AmountVerified DEF DuplicateError, Ok
  <2>3. DOMAIN FoodMaterials' = DOMAIN FoodMaterials \cup {bar}
    BY <1>2 DEF Put
  <2>4. SerialOK(FoodItem, DOMAIN FoodMaterials')
    BY <2>3 DEF SerialInv, SerialOK
  <2>5. \A i \in Identity : \A n \in Nonces : i[1] = bar => ~FoodItem[i][n].held
    BY <2>2 DEF SerialInv, SerialOK
  <2> QED BY <1>2, <2>2, <2>3, <2>4, <2>5 DEF SerialInv
<1>3. ASSUME call' = [NoCall EXCEPT !.dst = Holding(bar, AccountGLN[o], GlnOf(maker)),
                        !.amount = amount, !.todo = materials,
                        !.event = [kind |-> "Produce", manufacturer |-> GlnOf(maker),
                                   license |-> ManufacturerLicense[GlnOf(maker)],
                                   shelfLife |-> shelfLife, time |-> Stamp(now)]]
      PROVE  call'.dst[1] = bar /\ call'.amount = amount
  BY <1>3 DEF NoCall, Holding
<1> QED BY <1>1, <1>2, <1>3 DEF ProduceFood

LEMMA MoversSerialInv ==
  ASSUME SerialInv, Trade \/ Transport \/ Store
  PROVE  SerialInv'
<1>1. UNCHANGED <<storage, committed>> /\ pc' # "produce"
  BY MoversLeaveStorage
<1>2. pc' \in {"trade", "transport", "store"} => call'.src[1] = call'.dst[1]
  <2>1. ASSUME NEW where, NEW bar, NEW a, NEW b, NEW c, NEW d, NEW amount, NEW event,
               StartMove(where, Holding(bar, a, b), Holding(bar, c, d), amount, event)
        PROVE  pc' \in {"trade", "transport", "store"} => call'.src[1] = call'.dst[1]
    <3>1. CASE NonceOverrun
      BY <3>1 DEF NonceOverrun, Return
    <3>2. CASE ~NonceOverrun
      <4>1. call'.src = Holding(bar, a, b) /\ call'.dst = Holding(bar, c, d)
        BY <2>1, <3>2 DEF StartMove, NoCall
      <4> QED BY <4>1 DEF Holding
    <3> QED BY <3>1, <3>2
  <2>2. CASE Trade
    BY <2>1, <2>2 DEF Trade, TradeFood, Reject, Return
  <2>3. CASE Transport
    BY <2>1, <2>3 DEF Transport, TransportFood, Reject, Return
  <2>4. CASE Store
    <3>1. PICK o \in Origins, b \in RawCodes, w \in Ids, s \in SSCCs \cup {Malformed}, n \in Amounts :
            StoreFood(o, b, w, s, n)
      BY <2>4 DEF Store
    <3> QED BY <3>1 DEF StoreFood, Reject, NonceOverrun, Return, NoCall
  <2> QED BY <2>2, <2>3, <2>4
<1> QED BY <1>1, <1>2 DEF SerialInv, SerialOK, storage

LEMMA ConsumeSerialInv ==
  ASSUME TypeInv, SerialInv, ConsumeLot
  PROVE  SerialInv'
<1> DEFINE n   == call.srcNonce - 1
           lot == FoodItem[call.src][n]
<1>1. pc = "produce" /\ call.left > 0 /\ call.srcNonce > 0 /\ CallOK /\ pc \in Looping
  BY DEF ConsumeLot, TypeInv, TypeOK, Looping
<1>2. n \in Nonces /\ call.src \in Identity /\ call.left \in Nat \ {0} /\ call.dst \in Identity
  BY <1>1, NonceAssumption DEF CallOK, Nonces
<1>3. lot.held /\ IsLot(lot, DOMAIN FoodTrace)
  <2>1. n \in 0 .. (call.srcNonce - 1)
    BY <1>2, NonceAssumption DEF Nonces
  <2>2. lot.held
    BY <1>1, <2>1 DEF TypeInv, LoopLots
  <2> QED BY <1>2, <2>2, HeldIsLot DEF TypeInv, TypeOK
<1>4. \A i \in Identity : \A m \in Nonces :
        /\ FoodItem'[i][m].held => FoodItem[i][m].held
        /\ FoodItem'[i][m] # FoodItem[i][m] /\ FoodItem'[i][m].held => lot.amount > 1 /\ i = call.src /\ m = n
  <2>1. FoodItem' = Consume(call.src, n)
    BY DEF ConsumeLot
  <2>2. ~NoLot.held
    BY DEF NoLot
  <2>3. lot.amount > call.left => lot.amount > 1
    BY <1>2, <1>3 DEF IsLot
  <2> HIDE DEF n
  <2> QED BY <1>2, <1>3, <2>1, <2>2, <2>3, ConsumeEffect
<1>5. /\ UNCHANGED <<committed, pc>> /\ call'.dst = call.dst /\ call'.amount = call.amount
      /\ DOMAIN FoodMaterials' = DOMAIN FoodMaterials
  BY <1>1 DEF ConsumeLot, CallOK, NoCall
<1>6. SerialOK(FoodItem', DOMAIN FoodMaterials)
  <2>1. ASSUME NEW i \in Identity, NEW m \in Nonces, FoodItem'[i][m].held, i[1] \in SerialCodes
        PROVE  FoodItem'[i][m].amount = 1
    <3>1. FoodItem[i][m].amount = 1
      BY <1>4, <2>1 DEF SerialInv, SerialOK
    <3>2. FoodItem'[i][m] = FoodItem[i][m]
      BY <1>4, <2>1, <3>1
    <3> QED BY <3>1, <3>2
  <2> QED BY <1>4, <2>1 DEF SerialInv, SerialOK
<1> QED BY <1>1, <1>4, <1>5, <1>6 DEF SerialInv

\* A step that replaces the lot (src, n) by one at (dst, k) of the same bar code.
Replaces(src, n, dst, k) ==
  /\ FoodItem[src][n].held
  /\ dst[1] = src[1]
  /\ \A i \in Identity : \A m \in Nonces :
       ~(i = src /\ m = n) /\ ~(i = dst /\ m = k) => FoodItem'[i][m] = FoodItem[i][m]
  /\ FoodItem[src][n].amount = 1 =>
       /\ FoodItem'[dst][k].amount = 1
       /\ ~(src = dst /\ n = k) => ~FoodItem'[src][n].held

\* Such a step replaces the only lot of a serial bar code, and adds no other.
LEMMA ReplaceSerial ==
  ASSUME TypeInv, SerialInv,
         NEW src \in Identity, NEW n \in Nonces, NEW dst \in Identity, NEW k \in Nonces,
         Replaces(src, n, dst, k)
  PROVE  SerialOK(FoodItem', DOMAIN FoodMaterials)
<1> USE DEF Replaces
<1> SUFFICES ASSUME NEW i \in Identity, NEW m \in Nonces, FoodItem'[i][m].held
             PROVE  /\ i[1] \in DOMAIN FoodMaterials
                    /\ i[1] \in SerialCodes =>
                         /\ FoodItem'[i][m].amount = 1
                         /\ \A j \in Identity : \A l \in Nonces :
                              j[1] = i[1] /\ FoodItem'[j][l].held => j = i /\ l = m
  BY DEF SerialOK
<1>1. SerialOK(FoodItem, DOMAIN FoodMaterials)
  BY DEF SerialInv
<1>2. CASE i[1] # src[1]
  <2>1. \A j \in Identity : \A l \in Nonces : j[1] = i[1] => FoodItem'[j][l] = FoodItem[j][l]
    BY <1>2
  <2> QED BY <1>1, <2>1 DEF SerialOK
<1>3. CASE i[1] = src[1] /\ i[1] \notin SerialCodes
  BY <1>1, <1>3 DEF SerialOK
<1>4. CASE i[1] = src[1] /\ i[1] \in SerialCodes
  <2>1. /\ FoodItem[src][n].amount = 1 /\ src[1] \in DOMAIN FoodMaterials
        /\ \A j \in Identity : \A l \in Nonces :
             j[1] = src[1] /\ FoodItem[j][l].held => j = src /\ l = n
    BY <1>1, <1>4 DEF SerialOK
  <2>2. \A j \in Identity : \A l \in Nonces :
             j[1] = src[1] /\ FoodItem'[j][l].held => j = dst /\ l = k
    BY <2>1
  <2> QED BY <1>4, <2>1, <2>2
<1> QED BY <1>2, <1>3, <1>4

LEMMA MoveLotSerialInv ==
  ASSUME TypeInv, SerialInv, pc \in {"trade", "transport"}, MoveLot
  PROVE  SerialInv'
<1> DEFINE n   == call.srcNonce - 1
           lot == FoodItem[call.src][n]
<1>1. /\ call.src \in Identity /\ call.dst \in Identity /\ n \in Nonces /\ call.dstNonce \in Nonces
      /\ call.left \in Nat \ {0} /\ lot.held /\ IsLot(lot, DOMAIN FoodTrace)
      /\ \A i \in Identity : \A m \in Nonces :
           FoodItem'[i][m] =
             IF i = call.dst /\ m = call.dstNonce
             THEN Lot(Smaller(lot.amount, call.left), Link(call.event, lot.hash))
             ELSE IF i = call.src /\ m = n
             THEN IF lot.amount > call.left THEN Lot(lot.amount - call.left, lot.hash) ELSE NoLot
             ELSE FoodItem[i][m]
  BY MoveLotEffect
<1> HIDE DEF n, lot
<1>2. lot.amount = 1 => Smaller(lot.amount, call.left) = 1 /\ ~(lot.amount > call.left)
  BY <1>1 DEF Smaller
<1>3. lot.amount = 1 =>
        /\ FoodItem'[call.dst][call.dstNonce].amount = 1
        /\ ~(call.src = call.dst /\ n = call.dstNonce) => ~FoodItem'[call.src][n].held
  <2>1. ~NoLot.held
    BY DEF NoLot
  <2> QED BY <1>1, <1>2, <2>1, LotFacts
<1>4. call.src[1] = call.dst[1]
  BY DEF SerialInv
<1>5. SerialOK(FoodItem', DOMAIN FoodMaterials)
  <2>1. FoodItem[call.src][n].held /\ lot.amount = FoodItem[call.src][n].amount
    BY <1>1 DEF lot
  <2>2. Replaces(call.src, n, call.dst, call.dstNonce)
    BY <1>1, <1>3, <1>4, <2>1 DEF Replaces
  <2> QED BY <1>1, <2>2, ReplaceSerial
<1>6. /\ UNCHANGED <<FoodMaterials, committed>> /\ pc' \in {pc, "return"}
      /\ call'.src = call.src /\ call'.dst = call.dst
  BY DEF MoveLot, Return, TypeInv, TypeOK, CallOK, NoCall
<1> QED BY <1>5, <1>6 DEF SerialInv

LEMMA StoreLotSerialInv ==
  ASSUME TypeInv, SerialInv, StoreLot
  PROVE  SerialInv'
<1> DEFINE n   == call.srcNonce
           lot == FoodItem[call.src][n]
<1>1. /\ call.src \in Identity /\ n \in Nonces /\ call.dstNonce \in Nonces /\ n < call.dstNonce
      /\ call.left \in Nat \ {0} /\ lot.held /\ IsLot(lot, DOMAIN FoodTrace)
      /\ \A i \in Identity : \A m \in Nonces :
           FoodItem'[i][m] =
             IF i = call.src /\ m = n
             THEN Lot(Smaller(lot.amount, call.left), Link(call.event, lot.hash))
             ELSE IF i = call.src /\ m = call.dstNonce /\ lot.amount > call.left
             THEN Lot(lot.amount - call.left, lot.hash)
             ELSE FoodItem[i][m]
  BY StoreLotEffect
<1> HIDE DEF n, lot
<1>2. SerialOK(FoodItem', DOMAIN FoodMaterials)
  <2>1. CASE lot.amount = 1
    <3>1. Smaller(lot.amount, call.left) = 1 /\ ~(lot.amount > call.left)
      BY <1>1, <2>1 DEF Smaller
    <3>2. /\ \A i \in Identity : \A m \in Nonces :
               ~(i = call.src /\ m = n) => FoodItem'[i][m] = FoodItem[i][m]
          /\ FoodItem'[call.src][n].amount = 1
      BY <1>1, <3>1, LotFacts
    <3>3. FoodItem[call.src][n].held
      BY <1>1 DEF lot
    <3>4. Replaces(call.src, n, call.src, n)
      BY <3>2, <3>3 DEF Replaces
    <3> QED BY <1>1, <3>4, ReplaceSerial
  <2>2. CASE lot.amount # 1
    <3>1. call.src[1] \in DOMAIN FoodMaterials /\ call.src[1] \notin SerialCodes
      BY <1>1, <2>2 DEF SerialInv, SerialOK, lot
    <3>2. \A i \in Identity : \A m \in Nonces : i # call.src => FoodItem'[i][m] = FoodItem[i][m]
      BY <1>1
    <3>3. ASSUME NEW i \in Identity, NEW m \in Nonces, FoodItem'[i][m].held
          PROVE  /\ i[1] \in DOMAIN FoodMaterials
                 /\ i[1] \in SerialCodes =>
                      /\ FoodItem'[i][m].amount = 1
                      /\ \A j \in Identity : \A l \in Nonces :
                           j[1] = i[1] /\ FoodItem'[j][l].held => j = i /\ l = m
      <4>1. CASE i[1] = call.src[1]
        BY <3>1, <4>1
      <4>2. CASE i[1] # call.src[1]
        <5>1. \A j \in Identity : \A l \in Nonces : j[1] = i[1] => FoodItem'[j][l] = FoodItem[j][l]
          BY <3>2, <4>2
        <5> QED BY <3>3, <5>1 DEF SerialInv, SerialOK
      <4> QED BY <4>1, <4>2
    <3> QED BY <3>3 DEF SerialOK
  <2> QED BY <2>1, <2>2
<1>3. /\ UNCHANGED <<FoodMaterials, committed, pc>> /\ pc = "store"
      /\ call'.src = call.src /\ call'.dst = call.dst
  BY DEF StoreLot, TypeInv, TypeOK, CallOK, NoCall
<1> QED BY <1>2, <1>3 DEF SerialInv

LEMMA FinishProduceSerialInv ==
  ASSUME TypeInv, SerialInv, FinishProduce
  PROVE  SerialInv'
<1> DEFINE new == Lot(call.amount, RootHash(call.dst[1]))
<1>1. pc = "produce" /\ pc' = "return" /\ UNCHANGED <<FoodMaterials, committed, call>>
  BY DEF FinishProduce, Return
<1>2. CASE FoodItem' = FoodItem
  BY <1>1, <1>2 DEF SerialInv, SerialOK
<1>3. CASE FoodItem' = Insert(FoodItem, call.dst, 0, new)
  <2>1. call.dst \in Identity /\ 0 \in Nonces /\ ItemOK(FoodItem, FoodTrace)
    BY <1>1, NonceAssumption DEF TypeInv, TypeOK, CallOK, Looping, Nonces
  <2>2. \A i \in Identity : \A m \in Nonces :
          FoodItem'[i][m] = IF i = call.dst /\ m = 0 THEN new ELSE FoodItem[i][m]
    BY <1>3, <2>1, InsertFacts
  <2>3. new.held /\ new.amount = call.amount
    BY LotFacts
  <2> HIDE DEF new
  <2>4. SerialOK(FoodItem', DOMAIN FoodMaterials)
    BY <1>1, <2>1, <2>2, <2>3 DEF SerialInv, SerialOK
  <2> QED BY <1>1, <2>4 DEF SerialInv
<1> QED BY <1>2, <1>3 DEF FinishProduce

LEMMA NextSerialInv == TypeInv /\ SerialInv /\ [Next]_vars => SerialInv'
<1> SUFFICES ASSUME TypeInv, SerialInv, [Next]_vars PROVE SerialInv'
  OBVIOUS
<1>1. CASE Produce
  BY <1>1, ProduceSerialInv DEF Produce
<1>2. CASE Trade \/ Transport \/ Store
  BY <1>2, MoversSerialInv
<1>3. CASE SetGln \/ SetLicense
  BY <1>3, QuietSerialInv DEF SetGln, SetLicense, SetAccountGln, SetManufacturerLicense, Reject, Return
<1>4. CASE NextMaterial
  <2>1. CASE UNCHANGED <<storage, committed>> /\ pc = "produce" /\ pc' = pc
             /\ call'.dst = call.dst /\ call'.amount = call.amount
    BY <2>1 DEF SerialInv, SerialOK, storage
  <2>2. CASE UNCHANGED <<storage, committed, call>> /\ pc' \in {"return", "spin"}
    BY <2>2, QuietSerialInv
  <2> QED BY <1>4, <2>1, <2>2 DEF NextMaterial, NonceOverrun, Reject, Return, TypeInv, TypeOK, CallOK, NoCall
<1>5. CASE ConsumeLot
  BY <1>5, ConsumeSerialInv
<1>6. CASE FinishProduce
  BY <1>6, FinishProduceSerialInv
<1>7. CASE TradeLot \/ TransportLot
  BY <1>7, MoveLotSerialInv DEF TradeLot, TransportLot
<1>8. CASE StoreLot
  BY <1>8, StoreLotSerialInv
<1>9. CASE FinishTrade \/ FinishTransport \/ FinishStore \/ Tick \/ SkipStoredLot \/ Spin
  BY <1>9, QuietSerialInv DEF FinishTrade, FinishTransport, FinishStore, FinishLoop, Return, Tick,
                              SkipStoredLot, Spin, vars
<1>10. CASE Commit
  BY <1>10 DEF Commit, Settle, Snapshot, storage, SerialInv, SerialOK
<1>11. CASE Rollback
  BY <1>11 DEF Rollback, Settle, SerialInv, SerialOK
<1>12. CASE UNCHANGED vars
  BY <1>12, QuietSerialInv DEF vars
<1> QED
  BY <1>1, <1>2, <1>3, <1>4, <1>5, <1>6, <1>7, <1>8, <1>9, <1>10, <1>11, <1>12
  DEF Next, Dispatch, Proceed, ProduceStep, TradeStep, TransportStep, StoreStep

\* However a serial item is moved, stored, consumed or produced again, by calls
\* that succeed, fail or wrap their nonces, there is never more of it than one.
THEOREM SerialItemIsSingle == Spec => []SerialSingle
<1>1. Spec => [](TypeInv /\ SerialInv)
  BY InitTypeInv, NextTypeInv, InitSerialInv, NextSerialInv, PTL DEF Spec
<1>2. SerialInv => SerialSingle
  BY DEF SerialInv, SerialOK, SerialSingle
<1> QED BY <1>1, <1>2, PTL

-----------------------------------------------------------------------------
(***************************************************************************)
(* The materials of a food: what a call that makes one has consumed so far *)
(* is recorded, with the hash that the committed lot has.                  *)
(***************************************************************************)
Recorded(id, hash) ==
  /\ <<id[2], id[3]>> = <<call.dst[2], call.dst[3]>>
  /\ \E i \in DOMAIN FoodMaterials[call.dst[1]] : FoodMaterials[call.dst[1]][i] = <<id[1], hash>>

\* A lot keeps its hash as long as something of it is left, and no lot is added.
Consumed(id, n) ==
  LET was == committed.item[id][n]
      is  == FoodItem[id][n]
  IN  /\ is.held => was.held /\ is.hash = was.hash
      /\ was.held => is = was \/ Recorded(id, was.hash)

MaterialInv ==
  /\ pc = "idle" => FoodItem = committed.item
  /\ pc = "produce" =>
       /\ FoodMaterials[call.dst[1]] \in Seq(BarCodes \X DOMAIN FoodTrace)
       /\ \A id \in Identity : \A n \in Nonces : id[1] = call.dst[1] => ~committed.item[id][n].held
       /\ call.left > 0 => <<call.src[2], call.src[3]>> = <<call.dst[2], call.dst[3]>>
       /\ \A id \in Identity : \A n \in Nonces : Consumed(id, n)
  /\ MaterialsRecorded

LEMMA CommittedAmount ==
  ASSUME TypeInv, NEW id \in Identity, NEW n \in Nonces
  PROVE  ~(committed.item[id][n].amount < committed.item[id][n].amount)
<1>1. committed.item[id][n].amount \in Nat
  BY DEF TypeInv, TypeOK, ItemOK, IsLot, Absent, NoLot
<1> QED BY <1>1

LEMMA InitMaterialInv == Init => MaterialInv
BY DEF Init, Empty, Snapshot, MaterialInv, MaterialsRecorded

\* A call that returns before it wrote anything has nothing to record.
LEMMA UntouchedMaterialInv ==
  ASSUME TypeInv, MaterialInv, pc = "idle", UNCHANGED <<FoodItem, committed>>, pc' \notin {"idle", "produce"}
  PROVE  MaterialInv'
<1>1. FoodItem' = committed'.item
  BY DEF MaterialInv
<1>2. \A id \in Identity : \A n \in Nonces : ~(committed'.item[id][n].amount < committed'.item[id][n].amount)
  BY CommittedAmount
<1> QED BY <1>1, <1>2 DEF MaterialInv, MaterialsRecorded

\* One that returns another event or an error has nothing to record either.
LEMMA OtherResultMaterialInv ==
  ASSUME pc' \notin {"idle", "produce"}, pc' = "return" => result' # "FoodProduced"
  PROVE  MaterialInv'
BY DEF MaterialInv, MaterialsRecorded

\* While a food is made, what is missing is on record.
LEMMA ProducingRecords ==
  ASSUME TypeInv, MaterialInv, pc = "produce", NEW id \in Identity, NEW n \in Nonces,
         committed.item[id][n].held, FoodItem[id][n].amount < committed.item[id][n].amount
  PROVE  Recorded(id, committed.item[id][n].hash)
<1>1. FoodItem[id][n] # committed.item[id][n]
  BY CommittedAmount
<1> QED BY <1>1 DEF MaterialInv, Consumed

LEMMA ProduceMaterialInv ==
  ASSUME TypeInv, SerialInv, MaterialInv, NEW o, NEW bar, NEW maker, NEW amount, NEW shelfLife,
         NEW materials, ProduceFood(o, bar, maker, amount, shelfLife, materials)
  PROVE  MaterialInv'
<1> DEFINE errors == <<MetadataError(o), GlnError(maker), LicenseError(maker),
                       BarCodeError(bar), AmountError(amount, bar), DuplicateError(bar)>>
<1>1. pc = "idle"
  BY DEF ProduceFood, Ready
<1>2. CASE Reject(errors)
  BY <1>1, <1>2, UntouchedMaterialInv DEF Reject, Return, storage
<1>3. CASE /\ Passes(errors)
           /\ FoodMaterials' = Put(FoodMaterials, bar, <<>>)
           /\ pc' = "produce" /\ call'.dst[1] = bar /\ call'.left = 0
           /\ UNCHANGED <<FoodItem, FoodTrace, committed>>
  <2>1. BarCodeError(bar) = Ok /\ DuplicateError(bar) = Ok
    BY <1>3 DEF Passes
  <2>2. bar \notin DOMAIN FoodMaterials
    BY <2>1, BarCodeParsed DEF DuplicateError, Ok
  <2>3. FoodItem = committed.item
    BY <1>1 DEF MaterialInv
  <2>4. \A i \in Identity : \A n \in Nonces : i[1] = bar => ~committed.item[i][n].held
    BY <2>2, <2>3 DEF SerialInv, SerialOK
  <2>5. FoodMaterials'[bar] = <<>> /\ <<>> \in Seq(BarCodes \X DOMAIN FoodTrace)
    BY <1>3 DEF Put
  <2>6. ~(0 > 0)
    OBVIOUS
  <2> QED BY <1>3, <2>3, <2>4, <2>5, <2>6 DEF MaterialInv, Consumed, MaterialsRecorded
<1>4. ASSUME call' = [NoCall EXCEPT !.dst = Holding(bar, AccountGLN[o], GlnOf(maker)),
                        !.amount = amount, !.todo = materials,
                        !.event = [kind |-> "Produce", manufacturer |-> GlnOf(maker),
                                   license |-> ManufacturerLicense[GlnOf(maker)],
                                   shelfLife |-> shelfLife, time |-> Stamp(now)]]
      PROVE  call'.dst[1] = bar /\ call'.left = 0
  BY <1>4 DEF NoCall, Holding
<1> QED BY <1>2, <1>3, <1>4 DEF ProduceFood

LEMMA NextMaterialMaterialInv ==
  ASSUME TypeInv, MaterialInv, NextMaterial
  PROVE  MaterialInv'
<1>1. pc = "produce" /\ UNCHANGED <<storage, committed>>
  BY DEF NextMaterial, NonceOverrun, Reject
<1>2. CASE UNCHANGED call /\ pc' \in {"return", "spin"}
  <2>1. \A id \in Identity : \A n \in Nonces :
          committed.item[id][n].held /\ FoodItem[id][n].amount < committed.item[id][n].amount
          => Recorded(id, committed.item[id][n].hash)
    BY <1>1, ProducingRecords
  <2> QED BY <1>1, <1>2, <2>1 DEF MaterialInv, MaterialsRecorded, Recorded, storage
<1>3. CASE /\ call' = [call EXCEPT !.src = Holding(Head(call.todo)[1], call.dst[2], call.dst[3]),
                         !.srcNonce = MaxNonce(Holding(Head(call.todo)[1], call.dst[2], call.dst[3])),
                         !.left = Head(call.todo)[2], !.todo = Tail(@)]
           /\ pc' = pc
  <2>1. /\ call'.src = Holding(Head(call.todo)[1], call.dst[2], call.dst[3])
        /\ call'.dst = call.dst
    BY <1>3 DEF TypeInv, TypeOK, CallOK, NoCall
  <2>2. <<call'.src[2], call'.src[3]>> = <<call'.dst[2], call'.dst[3]>>
    BY <2>1 DEF Holding
  <2> QED BY <1>1, <1>3, <2>1, <2>2 DEF MaterialInv, MaterialsRecorded, Consumed, Recorded, storage
<1> QED BY <1>2, <1>3 DEF NextMaterial, NonceOverrun, Reject, Return

LEMMA ConsumeMaterialInv ==
  ASSUME TypeInv, SerialInv, MaterialInv, ConsumeLot
  PROVE  MaterialInv'
<1> DEFINE n   == call.srcNonce - 1
           lot == FoodItem[call.src][n]
           bar == call.dst[1]
<1>1. pc = "produce" /\ call.left > 0 /\ call.srcNonce > 0 /\ CallOK /\ pc \in Looping
  BY DEF ConsumeLot, TypeInv, TypeOK, Looping
<1>2. n \in Nonces /\ call.src \in Identity /\ call.src[1] \in BarCodes
  BY <1>1, NonceAssumption DEF CallOK, Nonces, Identity
<1>3. lot.held /\ lot.hash \in DOMAIN FoodTrace
  <2>1. n \in 0 .. (call.srcNonce - 1)
    BY <1>2, NonceAssumption DEF Nonces
  <2>2. lot.held
    BY <1>1, <2>1 DEF TypeInv, LoopLots
  <2> QED BY <1>2, <2>2, HeldIsLot DEF TypeInv, TypeOK, IsLot
<1>4. /\ FoodItem' = Consume(call.src, n) /\ UNCHANGED <<FoodTrace, committed, pc>>
      /\ FoodMaterials' = [FoodMaterials EXCEPT ![bar] = Append(@, <<call.src[1], lot.hash>>)]
      /\ call'.src = call.src /\ call'.dst = call.dst
  BY <1>1 DEF ConsumeLot, Material, CallOK, NoCall
<1>5. bar \in DOMAIN FoodMaterials
  BY <1>1 DEF SerialInv
<1> DEFINE old == FoodMaterials[bar]
<1>6. old \in Seq(BarCodes \X DOMAIN FoodTrace) /\ <<call.src[1], lot.hash>> \in BarCodes \X DOMAIN FoodTrace
  BY <1>1, <1>2, <1>3 DEF MaterialInv
<1>7. FoodMaterials'[bar] = Append(old, <<call.src[1], lot.hash>>)
  BY <1>4, <1>5
<1> HIDE DEF n, lot, old
<1>8. /\ FoodMaterials'[bar] \in Seq(BarCodes \X DOMAIN FoodTrace)
      /\ \A i \in DOMAIN old : i \in DOMAIN FoodMaterials'[bar] /\ FoodMaterials'[bar][i] = old[i]
      /\ \E i \in DOMAIN FoodMaterials'[bar] : FoodMaterials'[bar][i] = <<call.src[1], lot.hash>>
  <2>1. /\ Len(old) \in Nat /\ DOMAIN old = 1 .. Len(old)
        /\ DOMAIN FoodMaterials'[bar] = 1 .. (Len(old) + 1)
        /\ \A i \in 1 .. Len(old) : FoodMaterials'[bar][i] = old[i]
        /\ FoodMaterials'[bar][Len(old) + 1] = <<call.src[1], lot.hash>>
        /\ FoodMaterials'[bar] \in Seq(BarCodes \X DOMAIN FoodTrace)
    BY <1>6, <1>7
  <2>2. Len(old) + 1 \in 1 .. (Len(old) + 1) /\ \A i \in 1 .. Len(old) : i \in 1 .. (Len(old) + 1)
    BY <2>1
  <2> QED BY <2>1, <2>2
<1>9. \A id, hash : Recorded(id, hash) => Recorded(id, hash)'
  BY <1>4, <1>8 DEF Recorded, old
<1>10. ASSUME NEW id, id = call.src, NEW hash, hash = lot.hash PROVE Recorded(id, hash)'
  <2>1. <<id[2], id[3]>> = <<call.dst[2], call.dst[3]>>
    BY <1>1, <1>10 DEF MaterialInv
  <2> QED BY <1>4, <1>8, <1>10, <2>1 DEF Recorded
<1>11. \A i \in Identity : \A m \in Nonces :
         FoodItem'[i][m] = IF i = call.src /\ m = n
                           THEN IF lot.amount > call.left THEN Lot(lot.amount - call.left, lot.hash)
                                ELSE NoLot
                           ELSE FoodItem[i][m]
  BY <1>2, <1>4, ConsumeEffect DEF lot
<1>12. ASSUME NEW i \in Identity, NEW m \in Nonces PROVE Consumed(i, m)'
  <2>1. Consumed(i, m)
    BY <1>1 DEF MaterialInv
  <2>2. CASE i = call.src /\ m = n
    <3>1. committed.item[i][m].held /\ lot.hash = committed.item[i][m].hash
      BY <1>3, <2>1, <2>2 DEF Consumed, lot
    <3>2. FoodItem'[i][m].held => FoodItem'[i][m].hash = lot.hash
      <4>1. ~NoLot.held
        BY DEF NoLot
      <4> QED BY <1>11, <2>2, <4>1, LotFacts
    <3> QED BY <1>4, <1>10, <2>2, <3>1, <3>2 DEF Consumed
  <2>3. CASE ~(i = call.src /\ m = n)
    <3>1. FoodItem'[i][m] = FoodItem[i][m]
      BY <1>11, <2>3
    <3> QED BY <1>4, <1>9, <2>1, <3>1 DEF Consumed
  <2> QED BY <2>2, <2>3
<1> QED BY <1>1, <1>4, <1>8, <1>12 DEF MaterialInv, MaterialsRecorded

\* The new lot takes the place of none.
LEMMA FinishProduceMaterialInv ==
  ASSUME TypeInv, MaterialInv, FinishProduce
  PROVE  MaterialInv'
<1> DEFINE new == Lot(call.amount, RootHash(call.dst[1]))
<1>1. pc = "produce" /\ pc' = "return" /\ UNCHANGED <<FoodMaterials, committed, call>>
  BY DEF FinishProduce, Return
<1>2. CASE result' = "InsufficientInventory"
  BY <1>1, <1>2, OtherResultMaterialInv
<1>3. CASE FoodItem' = Insert(FoodItem, call.dst, 0, new)
  <2>1. call.dst \in Identity /\ 0 \in Nonces /\ ItemOK(FoodItem, FoodTrace)
    BY <1>1, NonceAssumption DEF TypeInv, TypeOK, CallOK, Looping, Nonces
  <2>2. \A i \in Identity : \A m \in Nonces :
          ~(i = call.dst /\ m = 0) => FoodItem'[i][m] = FoodItem[i][m]
    BY <1>3, <2>1, InsertFacts
  <2>3. ~committed.item[call.dst][0].held
    BY <1>1, <2>1 DEF MaterialInv
  <2>4. \A id \in Identity : \A m \in Nonces :
          committed.item[id][m].held /\ FoodItem'[id][m].amount < committed.item[id][m].amount
          => Recorded(id, committed.item[id][m].hash)
    BY <1>1, <2>2, <2>3, ProducingRecords
  <2> QED BY <1>1, <2>4 DEF MaterialInv, MaterialsRecorded, Recorded
<1> QED BY <1>2, <1>3 DEF FinishProduce, Return

LEMMA NextMaterialInv == TypeInv /\ SerialInv /\ MaterialInv /\ [Next]_vars => MaterialInv'
<1> SUFFICES ASSUME TypeInv, SerialInv, MaterialInv, [Next]_vars PROVE MaterialInv'
  OBVIOUS
<1>1. CASE Produce
  BY <1>1, ProduceMaterialInv DEF Produce
<1>2. CASE Trade \/ Transport \/ Store
  <2>1. pc = "idle"
    <3>1. CASE Trade
      BY <3>1 DEF Trade, TradeFood, Ready
    <3>2. CASE Transport
      BY <3>2 DEF Transport, TransportFood, Ready
    <3>3. CASE Store
      BY <3>3 DEF Store, StoreFood, Ready
    <3> QED BY <1>2, <3>1, <3>2, <3>3
  <2> QED BY <1>2, <2>1, MoversLeaveStorage, UntouchedMaterialInv DEF storage
<1>3. CASE SetGln \/ SetLicense
  <2>1. pc = "idle" /\ pc' = "return" /\ UNCHANGED <<storage, committed>>
    BY <1>3 DEF SetGln, SetLicense, SetAccountGln, SetManufacturerLicense, Ready, Reject, Return
  <2> QED BY <2>1, UntouchedMaterialInv DEF storage
<1>4. CASE NextMaterial
  BY <1>4, NextMaterialMaterialInv
<1>5. CASE ConsumeLot
  BY <1>5, ConsumeMaterialInv
<1>6. CASE FinishProduce
  BY <1>6, FinishProduceMaterialInv
<1>7. CASE TradeLot \/ TransportLot \/ FinishTrade \/ FinishTransport
  <2>1. pc \in {"trade", "transport"} /\ (pc' = pc \/ (pc' = "return" /\ result' # "FoodProduced"))
    <3>1. CASE TradeLot \/ TransportLot
      <4>1. pc \in {"trade", "transport"} /\ MoveLot
        BY <3>1 DEF TradeLot, TransportLot
      <4>2. pc' = pc \/ (pc' = "return" /\ result' = "Panic")
        BY <4>1 DEF MoveLot, Return
      <4> QED BY <4>1, <4>2
    <3>2. CASE FinishTrade
      BY <3>2 DEF FinishTrade, FinishLoop, Return
    <3>3. CASE FinishTransport
      BY <3>3 DEF FinishTransport, FinishLoop, Return
    <3> QED BY <1>7, <3>1, <3>2, <3>3
  <2> QED BY <2>1, OtherResultMaterialInv
<1>8. CASE StoreLot \/ FinishStore \/ SkipStoredLot
  <2>1. pc = "store" /\ (pc' = pc \/ (pc' = "return" /\ result' # "FoodProduced"))
    <3>1. CASE StoreLot
      <4>1. pc = "store" /\ UNCHANGED pc
        BY <3>1 DEF StoreLot
      <4> QED BY <4>1
    <3>2. CASE FinishStore
      BY <3>2 DEF FinishStore, Return
    <3>3. CASE SkipStoredLot
      <4>1. pc = "store" /\ UNCHANGED pc
        BY <3>3 DEF SkipStoredLot, vars
      <4> QED BY <4>1
    <3> QED BY <1>8, <3>1, <3>2, <3>3
  <2> QED BY <2>1, OtherResultMaterialInv
<1>9. CASE Commit \/ Rollback
  <2>1. pc' = "idle" /\ FoodItem' = committed'.item
    BY <1>9 DEF Commit, Rollback, Settle, Snapshot, storage
  <2> QED BY <2>1 DEF MaterialInv, MaterialsRecorded
<1>10. CASE Tick \/ Spin \/ UNCHANGED vars
  <2>1. UNCHANGED <<storage, committed, pc, call, result>>
    BY <1>10 DEF Tick, Spin, vars, storage
  <2>2. \A id, hash : Recorded(id, hash)' <=> Recorded(id, hash)
    BY <2>1 DEF storage, Recorded
  <2>3. \A id, n : Consumed(id, n)' <=> Consumed(id, n)
    BY <2>1, <2>2 DEF storage, Consumed
  <2>4. MaterialsRecorded'
    BY <2>1 DEF storage, MaterialInv, MaterialsRecorded
  <2> QED BY <2>1, <2>3, <2>4 DEF storage, MaterialInv
<1> QED
  BY <1>1, <1>2, <1>3, <1>4, <1>5, <1>6, <1>7, <1>8, <1>9, <1>10
  DEF Next, Dispatch, Proceed, ProduceStep, TradeStep, TransportStep, StoreStep

\* Whatever a call that makes a food has consumed, of its maker's own stock and on
\* the spot, is among the food's materials, under the hash the stock had on record
\* (lib.rs:127-159).
THEOREM MaterialsAreRecorded == Spec => []MaterialsRecorded
<1>1. Spec => [](TypeInv /\ SerialInv /\ MaterialInv)
  BY InitTypeInv, NextTypeInv, InitSerialInv, NextSerialInv, InitMaterialInv, NextMaterialInv, PTL DEF Spec
<1>2. MaterialInv => MaterialsRecorded
  BY DEF MaterialInv
<1> QED BY <1>1, <1>2, PTL
=============================================================================
