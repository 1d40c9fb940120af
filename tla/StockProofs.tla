---------------------------- MODULE StockProofs -----------------------------
(***************************************************************************)
(* With checked arithmetic, and moves only between distinct identities,    *)
(* the lots of every identity fill the nonces from 0 on without a gap:     *)
(* get_max_nonce overlooks none, and no insertion destroys one.  So the    *)
(* sums of the lots are accounts, and the pallet is a ledger.              *)
(***************************************************************************)
EXTENDS FoodTraceabilityProofs

\* The lots of an identity are those below nonce k.
Dense(items, id, k) == \A m \in Nonces : items[id][m].held <=> m < k

Gapless(items) ==
  \A id \in Identity : \A n, m \in Nonces : items[id][n].held /\ m <= n => items[id][m].held

\* While a loop has something left to take, its nonces are the ends of the lots.
NonceInv ==
  /\ Gapless(FoodItem)
  /\ Gapless(committed.item)
  /\ pc \in {"trade", "transport"} => call.src # call.dst
  /\ pc \in {"trade", "transport"} /\ call.left > 0 =>
       Dense(FoodItem, call.src, call.srcNonce) /\ Dense(FoodItem, call.dst, call.dstNonce)
  /\ pc = "store" => call.src = call.dst /\ (call.left > 0 => Dense(FoodItem, call.src, call.dstNonce))
  /\ pc = "produce" /\ call.left > 0 => Dense(FoodItem, call.src, call.srcNonce)

\* Without a gap, the first free nonce is the end of the lots.
LEMMA FirstFreeIsEnd ==
  ASSUME NonceInv, NEW id \in Identity, ~Full(id)
  PROVE  Dense(FoodItem, id, MaxNonce(id))
<1>1. /\ MaxNonce(id) \in Nonces /\ ~FoodItem[id][MaxNonce(id)].held
      /\ \A m \in 0 .. (MaxNonce(id) - 1) : FoodItem[id][m].held
  BY MaxNonceIsFirstFree
<1> SUFFICES ASSUME NEW m \in Nonces PROVE FoodItem[id][m].held <=> m < MaxNonce(id)
  BY DEF Dense
<1>2. CASE m < MaxNonce(id)
  <2>1. m \in 0 .. (MaxNonce(id) - 1)
    BY <1>1, <1>2, NonceAssumption DEF Nonces
  <2> QED BY <1>1, <1>2, <2>1
<1>3. CASE ~(m < MaxNonce(id))
  <2>1. MaxNonce(id) <= m
    BY <1>1, <1>3, NonceAssumption DEF Nonces
  <2> QED BY <1>1, <1>3, <2>1 DEF NonceInv, Gapless
<1> QED BY <1>2, <1>3

LEMMA InitNonceInv == Init => NonceInv
<1> SUFFICES ASSUME Init PROVE NonceInv
  OBVIOUS
<1>1. \A i \in Identity : \A n \in Nonces : ~FoodItem[i][n].held
  BY DEF Init, Empty, NoLot
<1>2. committed.item = FoodItem /\ pc = "idle"
  BY DEF Init, Empty, Snapshot
<1> QED BY <1>1, <1>2 DEF NonceInv, Gapless

LEMMA QuietNonceInv ==
  ASSUME NonceInv, UNCHANGED <<FoodItem, committed>>,
         pc' \in {"idle", "return", "spin"} \/ (pc' = pc /\ UNCHANGED call)
  PROVE  NonceInv'
BY DEF NonceInv, Gapless, Dense

LEMMA StartMoveNonceInv ==
  ASSUME NonceInv, NEW where \in {"trade", "transport"}, NEW src \in Identity, NEW dst \in Identity,
         src # dst, NEW amount, NEW event, StartMove(where, src, dst, amount, event)
  PROVE  NonceInv'
<1>1. CASE NonceOverrun
  BY <1>1, QuietNonceInv DEF NonceOverrun, Return, storage
<1>2. CASE ~NonceOverrun
  <2>1. ~Full(src) /\ ~Full(dst) /\ pc' = where /\ UNCHANGED <<FoodItem, committed>>
        /\ call'.src = src /\ call'.dst = dst
        /\ call'.srcNonce = MaxNonce(src) /\ call'.dstNonce = MaxNonce(dst)
    BY <1>2 DEF StartMove, NoCall, storage
  <2>2. Dense(FoodItem, src, MaxNonce(src)) /\ Dense(FoodItem, dst, MaxNonce(dst))
    BY <2>1, FirstFreeIsEnd
  <2> QED BY <2>1, <2>2 DEF NonceInv, Gapless, Dense
<1> QED BY <1>1, <1>2

LEMMA TradeNonceInv ==
  ASSUME ~SelfMoves, TypeInv, NonceInv, Trade
  PROVE  NonceInv'
<1>1. PICK o \in Origins, bar \in RawCodes, locate \in Ids, buyer \in Ids, amount \in Amounts :
        TradeFood(o, bar, locate, buyer, amount)
  BY DEF Trade
<1> DEFINE errors == <<MetadataError(o), GlnError(locate), GlnError(buyer),
                       BarCodeError(bar), AmountError(amount, bar), ShelfLifeError(bar)>>
           event  == [kind |-> "Trade", seller |-> AccountGLN[o], buyer |-> GlnOf(buyer), time |-> Stamp(now)]
           src    == Holding(bar, AccountGLN[o], GlnOf(locate))
           dst    == Holding(bar, GlnOf(buyer), GlnOf(locate))
<1>2. CASE Reject(errors)
  BY <1>2, QuietNonceInv DEF Reject, Return, storage
<1>3. CASE Passes(errors) /\ AccountGLN[o] # GlnOf(buyer) /\ StartMove("trade", src, dst, amount, event)
  <2>1. /\ MetadataError(o) = Ok /\ GlnError(locate) = Ok /\ GlnError(buyer) = Ok
        /\ BarCodeError(bar) = Ok
    BY <1>3 DEF Passes
  <2>2. AccountGLN[o] \in GLNs /\ GlnOf(locate) \in GLNs /\ GlnOf(buyer) \in GLNs /\ bar \in BarCodes
    BY <2>1, CallerHasGln, IdHasGln, BarCodeParsed DEF TypeInv
  <2>3. src \in Identity /\ dst \in Identity /\ src # dst
    BY <1>3, <2>2 DEF Identity, Holding
  <2> HIDE DEF src, dst, event
  <2> QED BY <1>3, <2>3, StartMoveNonceInv
<1> QED BY <1>1, <1>2, <1>3 DEF TradeFood

LEMMA TransportNonceInv ==
  ASSUME ~SelfMoves, TypeInv, NonceInv, Transport
  PROVE  NonceInv'
<1>1. PICK o \in Origins, bar \in RawCodes, from \in Ids, dest \in Ids, carrier \in Ids,
           sscc \in SSCCs \cup {Malformed}, amount \in Amounts :
        TransportFood(o, bar, from, dest, carrier, sscc, amount)
  BY DEF Transport
<1> DEFINE errors == <<MetadataError(o), GlnError(dest), BarCodeError(bar), GlnError(carrier),
                       GlnError(from), SsccError(sscc), AmountError(amount, bar), ShelfLifeError(bar)>>
           event  == [kind |-> "Transport", origin |-> GlnOf(from), destination |-> GlnOf(dest),
                      carrier |-> GlnOf(carrier), sscc |-> sscc, time |-> Stamp(now)]
           src    == Holding(bar, AccountGLN[o], GlnOf(from))
           dst    == Holding(bar, AccountGLN[o], GlnOf(dest))
<1>2. CASE Reject(errors)
  BY <1>2, QuietNonceInv DEF Reject, Return, storage
<1>3. CASE Passes(errors) /\ GlnOf(from) # GlnOf(dest) /\ StartMove("transport", src, dst, amount, event)
  <2>1. /\ MetadataError(o) = Ok /\ GlnError(from) = Ok /\ GlnError(dest) = Ok
        /\ BarCodeError(bar) = Ok
    BY <1>3 DEF Passes
  <2>2. AccountGLN[o] \in GLNs /\ GlnOf(from) \in GLNs /\ GlnOf(dest) \in GLNs /\ bar \in BarCodes
    BY <2>1, CallerHasGln, IdHasGln, BarCodeParsed DEF TypeInv
  <2>3. src \in Identity /\ dst \in Identity /\ src # dst
    BY <1>3, <2>2 DEF Identity, Holding
  <2> HIDE DEF src, dst, event
  <2> QED BY <1>3, <2>3, StartMoveNonceInv
<1> QED BY <1>1, <1>2, <1>3 DEF TransportFood

LEMMA StoreNonceInv ==
  ASSUME TypeInv, NonceInv, Store
  PROVE  NonceInv'
<1>1. PICK o \in Origins, bar \in RawCodes, warehouse \in Ids, sscc \in SSCCs \cup {Malformed},
           amount \in Amounts : StoreFood(o, bar, warehouse, sscc, amount)
  BY DEF Store
<1> DEFINE errors == <<MetadataError(o), GlnError(warehouse), SsccError(sscc),
                       BarCodeError(bar), AmountError(amount, bar), ShelfLifeError(bar)>>
           id     == Holding(bar, AccountGLN[o], GlnOf(warehouse))
<1>2. CASE Reject(errors) \/ NonceOverrun
  BY <1>2, QuietNonceInv DEF Reject, NonceOverrun, Return, storage
<1>3. CASE /\ Passes(errors) /\ ~Full(id) /\ pc' = "store"
           /\ call'.src = id /\ call'.dst = id /\ call'.dstNonce = MaxNonce(id)
           /\ UNCHANGED <<FoodItem, committed>>
  <2>1. MetadataError(o) = Ok /\ GlnError(warehouse) = Ok /\ BarCodeError(bar) = Ok
    BY <1>3 DEF Passes
  <2>2. AccountGLN[o] \in GLNs /\ GlnOf(warehouse) \in GLNs /\ bar \in BarCodes
    BY <2>1, CallerHasGln, IdHasGln, BarCodeParsed DEF TypeInv
  <2>3. id \in Identity
    BY <2>2 DEF Identity, Holding
  <2> HIDE DEF id
  <2>4. Dense(FoodItem, id, MaxNonce(id))
    BY <1>3, <2>3, FirstFreeIsEnd
  <2> QED BY <1>3, <2>4 DEF NonceInv, Gapless, Dense
<1> QED BY <1>1, <1>2, <1>3 DEF StoreFood, NoCall, storage

LEMMA NextMaterialNonceInv ==
  ASSUME TypeInv, NonceInv, NextMaterial
  PROVE  NonceInv'
<1> DEFINE bar    == Head(call.todo)[1]
           id     == Holding(bar, call.dst[2], call.dst[3])
           errors == <<BarCodeError(bar), ShelfLifeError(bar)>>
<1>1. CASE Reject(errors) \/ NonceOverrun
  BY <1>1, QuietNonceInv DEF Reject, NonceOverrun, Return, storage
<1>2. CASE /\ Passes(errors) /\ ~Full(id) /\ call'.src = id /\ call'.srcNonce = MaxNonce(id)
           /\ UNCHANGED <<FoodItem, committed, pc>>
  <2>1. pc = "produce" /\ call.dst \in Identity
    BY DEF NextMaterial, TypeInv, TypeOK, CallOK, Looping
  <2>2. BarCodeError(bar) = Ok
    BY <1>2 DEF Passes
  <2>3. id \in Identity
    BY <2>1, <2>2, BarCodeParsed DEF Identity, Holding
  <2> HIDE DEF id
  <2>4. Dense(FoodItem, id, MaxNonce(id))
    BY <1>2, <2>3, FirstFreeIsEnd
  <2> QED BY <1>2, <2>1, <2>4 DEF NonceInv, Gapless, Dense
<1>3. DOMAIN call = DOMAIN NoCall
  BY DEF TypeInv, TypeOK, CallOK
<1> QED BY <1>1, <1>2, <1>3 DEF NextMaterial, NoCall, storage

LEMMA ConsumeNonceInv ==
  ASSUME TypeInv, NonceInv, ConsumeLot
  PROVE  NonceInv'
<1> DEFINE n   == call.srcNonce - 1
           lot == FoodItem[call.src][n]
<1>1. pc = "produce" /\ call.left > 0 /\ call.srcNonce > 0 /\ CallOK /\ pc \in Looping
  BY DEF ConsumeLot, TypeInv, TypeOK, Looping
<1>2. n \in Nonces /\ call.src \in Identity /\ call.left \in Nat \ {0} /\ call.srcNonce \in Nonces
  BY <1>1, NonceAssumption DEF CallOK, Nonces
<1>3. Dense(FoodItem, call.src, call.srcNonce)
  BY <1>1 DEF NonceInv
<1>4. lot.held /\ lot.amount \in Nat
  <2>1. lot.held
    BY <1>2, <1>3, NonceAssumption DEF Dense, Nonces
  <2> QED BY <1>2, <2>1, HeldIsLot DEF TypeInv, TypeOK, IsLot
<1>5. /\ call'.srcNonce = n /\ call'.left = call.left - Smaller(lot.amount, call.left)
      /\ call'.src = call.src /\ UNCHANGED <<committed, pc>> /\ FoodItem' = Consume(call.src, n)
  BY <1>1 DEF ConsumeLot, CallOK, NoCall
<1> HIDE DEF n
<1>6. \A i \in Identity : \A m \in Nonces :
        FoodItem'[i][m].held <=> FoodItem[i][m].held /\ ~(i = call.src /\ m = n /\ ~(lot.amount > call.left))
  <2>1. ~NoLot.held
    BY DEF NoLot
  <2> QED BY <1>2, <1>4, <1>5, <2>1, ConsumeEffect, LotFacts
<1>7. lot.amount > call.left => call'.left = 0
  BY <1>2, <1>4, <1>5 DEF Smaller
<1>8. Gapless(FoodItem')
  <2>1. \A m \in Nonces : m < call.srcNonce => m <= n
    BY <1>2, NonceAssumption DEF Nonces, n
  <2>2. \A m, k \in Nonces : k <= m /\ m <= n /\ k = n => m = n
    BY <1>2, NonceAssumption DEF Nonces
  <2> QED BY <1>2, <1>3, <1>6, <2>1, <2>2 DEF NonceInv, Gapless, Dense
<1>9. call'.left > 0 => Dense(FoodItem', call.src, n)
  <2>1. \A m \in Nonces : m < n <=> m < call.srcNonce /\ m # n
    BY <1>2, NonceAssumption DEF Nonces, n
  <2>2. ~(0 > 0)
    OBVIOUS
  <2> QED BY <1>2, <1>3, <1>6, <1>7, <2>1, <2>2 DEF Dense
<1> QED BY <1>1, <1>5, <1>8, <1>9 DEF NonceInv

\* A move takes the last lot of one identity and adds one after the last of another.
LEMMA MoveLotNonceInv ==
  ASSUME OverflowChecks, TypeInv, NonceInv, pc \in {"trade", "transport"}, MoveLot
  PROVE  NonceInv'
<1> DEFINE n   == call.srcNonce - 1
           lot == FoodItem[call.src][n]
<1>1. /\ call.src \in Identity /\ call.dst \in Identity /\ n \in Nonces /\ call.dstNonce \in Nonces
      /\ call.left \in Nat \ {0} /\ lot.held /\ lot.amount \in Nat
      /\ \A i \in Identity : \A m \in Nonces :
           FoodItem'[i][m] =
             IF i = call.dst /\ m = call.dstNonce
             THEN Lot(Smaller(lot.amount, call.left), Link(call.event, lot.hash))
             ELSE IF i = call.src /\ m = n
             THEN IF lot.amount > call.left THEN Lot(lot.amount - call.left, lot.hash) ELSE NoLot
             ELSE FoodItem[i][m]
  BY MoveLotEffect DEF IsLot
<1>2. /\ call.src # call.dst /\ Dense(FoodItem, call.src, call.srcNonce)
      /\ Dense(FoodItem, call.dst, call.dstNonce) /\ call.left > 0
  BY <1>1 DEF NonceInv
<1>3. /\ call'.srcNonce = n /\ call'.left = call.left - Smaller(lot.amount, call.left)
      /\ call'.dstNonce = Inc(call.dstNonce) /\ call'.src = call.src /\ call'.dst = call.dst
      /\ UNCHANGED committed
      /\ \/ pc' = pc /\ ~Overflows(call.dstNonce)
         \/ pc' = "return"
  BY DEF MoveLot, Return, TypeInv, TypeOK, CallOK, NoCall
<1>4. call.srcNonce \in Nonces
  BY DEF TypeInv, TypeOK, CallOK
<1>5. \A m \in Nonces : m < n <=> m < call.srcNonce /\ m # n
  BY <1>1, <1>4, NonceAssumption DEF Nonces
<1>6. \A m \in Nonces : m < call.srcNonce => m <= n
  BY <1>4, NonceAssumption DEF Nonces
<1> HIDE DEF n, lot
<1>7. /\ \A m \in Nonces : FoodItem'[call.src][m].held <=>
           m < call.srcNonce /\ ~(m = n /\ ~(lot.amount > call.left))
      /\ \A m \in Nonces : FoodItem'[call.dst][m].held <=> m < call.dstNonce \/ m = call.dstNonce
      /\ \A i \in Identity \ {call.src, call.dst} : \A m \in Nonces : FoodItem'[i][m] = FoodItem[i][m]
  <2>1. ~NoLot.held
    BY DEF NoLot
  <2>2. n < call.srcNonce
    BY <1>4, NonceAssumption DEF Nonces, n
  <2> QED BY <1>1, <1>2, <2>1, <2>2, LotFacts DEF Dense
<1>8. Gapless(FoodItem')
  <2> SUFFICES ASSUME NEW i \in Identity, NEW k \in Nonces, NEW m \in Nonces,
                      FoodItem'[i][k].held, m <= k
               PROVE  FoodItem'[i][m].held
    BY DEF Gapless
  <2>1. CASE i = call.src
    <3>1. m < call.srcNonce /\ (m = n => k = n)
      BY <1>4, <1>6, <1>7, <2>1, NonceAssumption DEF Nonces
    <3> QED BY <1>7, <2>1, <3>1
  <2>2. CASE i = call.dst
    <3>1. m < call.dstNonce \/ m = call.dstNonce
      BY <1>1, <1>7, <2>2, NonceAssumption DEF Nonces
    <3> QED BY <1>7, <2>2, <3>1
  <2>3. CASE i \notin {call.src, call.dst}
    BY <1>7, <2>3 DEF NonceInv, Gapless
  <2> QED BY <2>1, <2>2, <2>3
<1>9. call'.left > 0 => Dense(FoodItem', call.src, n)
  <2>1. lot.amount > call.left => call'.left = 0
    BY <1>1, <1>3 DEF Smaller
  <2>2. ~(0 > 0)
    OBVIOUS
  <2> QED BY <1>5, <1>7, <2>1, <2>2 DEF Dense
<1>10. pc' = pc => Dense(FoodItem', call.dst, call'.dstNonce)
  <2> SUFFICES ASSUME pc' = pc, NEW m \in Nonces
               PROVE  FoodItem'[call.dst][m].held <=> m < call'.dstNonce
    BY DEF Dense
  <2>1. call'.dstNonce = call.dstNonce + 1
    BY <1>1, <1>3, NonceAssumption DEF Overflows, Inc, Nonces
  <2>2. m < call.dstNonce + 1 <=> m < call.dstNonce \/ m = call.dstNonce
    BY <1>1, NonceAssumption DEF Nonces
  <2> QED BY <1>7, <2>1, <2>2
<1> QED BY <1>2, <1>3, <1>8, <1>9, <1>10 DEF NonceInv

LEMMA StoreLotNonceInv ==
  ASSUME TypeInv, NonceInv, StoreLot
  PROVE  NonceInv'
<1> DEFINE n   == call.srcNonce
           lot == FoodItem[call.src][n]
<1>1. /\ call.src \in Identity /\ n \in Nonces /\ call.dstNonce \in Nonces /\ n < call.dstNonce
      /\ call.left \in Nat \ {0} /\ lot.held /\ lot.amount \in Nat
      /\ \A i \in Identity : \A m \in Nonces :
           FoodItem'[i][m] =
             IF i = call.src /\ m = n
             THEN Lot(Smaller(lot.amount, call.left), Link(call.event, lot.hash))
             ELSE IF i = call.src /\ m = call.dstNonce /\ lot.amount > call.left
             THEN Lot(lot.amount - call.left, lot.hash)
             ELSE FoodItem[i][m]
  BY StoreLotEffect DEF IsLot
<1>2. /\ pc = "store" /\ pc' = pc /\ UNCHANGED committed
      /\ call'.src = call.src /\ call'.dst = call.dst /\ call'.dstNonce = call.dstNonce
      /\ call'.left = call.left - Smaller(lot.amount, call.left)
  BY DEF StoreLot, TypeInv, TypeOK, CallOK, NoCall
<1>3. call.src = call.dst /\ Dense(FoodItem, call.src, call.dstNonce)
  BY <1>1, <1>2 DEF NonceInv
<1> HIDE DEF n, lot
<1>4. /\ \A m \in Nonces : FoodItem'[call.src][m].held <=>
           m < call.dstNonce \/ (m = call.dstNonce /\ lot.amount > call.left)
      /\ \A i \in Identity \ {call.src} : \A m \in Nonces : FoodItem'[i][m] = FoodItem[i][m]
  BY <1>1, <1>3, LotFacts DEF Dense
<1>5. Gapless(FoodItem')
  <2> SUFFICES ASSUME NEW i \in Identity, NEW k \in Nonces, NEW m \in Nonces,
                      FoodItem'[i][k].held, m <= k
               PROVE  FoodItem'[i][m].held
    BY DEF Gapless
  <2>1. CASE i = call.src
    <3>1. m < call.dstNonce \/ (m = call.dstNonce /\ k = call.dstNonce)
      BY <1>1, <1>4, <2>1, NonceAssumption DEF Nonces
    <3> QED BY <1>4, <2>1, <3>1
  <2>2. CASE i # call.src
    BY <1>4, <2>2 DEF NonceInv, Gapless
  <2> QED BY <2>1, <2>2
<1>6. call'.left > 0 => Dense(FoodItem', call.src, call.dstNonce)
  <2>1. lot.amount > call.left => call'.left = 0
    BY <1>1, <1>2 DEF Smaller
  <2>2. ~(0 > 0)
    OBVIOUS
  <2> QED BY <1>4, <2>1, <2>2 DEF Dense
<1> QED BY <1>2, <1>3, <1>5, <1>6 DEF NonceInv

\* The new lot is the first of its identity: nothing of its bar code was there.
LEMMA FinishProduceNonceInv ==
  ASSUME TypeInv, SerialInv, NonceInv, FinishProduce
  PROVE  NonceInv'
<1> DEFINE new == Lot(call.amount, RootHash(call.dst[1]))
<1>1. pc = "produce" /\ pc' = "return" /\ UNCHANGED committed
  BY DEF FinishProduce, Return
<1>2. CASE UNCHANGED FoodItem
  BY <1>1, <1>2, QuietNonceInv
<1>3. CASE FoodItem' = Insert(FoodItem, call.dst, 0, new)
  <2>1. call.dst \in Identity /\ 0 \in Nonces /\ ItemOK(FoodItem, FoodTrace)
    BY <1>1, NonceAssumption DEF TypeInv, TypeOK, CallOK, Looping, Nonces
  <2>2. \A i \in Identity : \A m \in Nonces :
          FoodItem'[i][m] = IF i = call.dst /\ m = 0 THEN new ELSE FoodItem[i][m]
    BY <1>3, <2>1, InsertFacts
  <2>3. \A m \in Nonces : ~FoodItem[call.dst][m].held
    BY <1>1, <2>1 DEF SerialInv
  <2>4. new.held
    BY LotFacts
  <2>5. \A m \in Nonces : m <= 0 => m = 0
    BY NonceAssumption DEF Nonces
  <2> HIDE DEF new
  <2>6. Gapless(FoodItem')
    BY <2>2, <2>3, <2>4, <2>5 DEF NonceInv, Gapless
  <2> QED BY <1>1, <2>6 DEF NonceInv
<1> QED BY <1>2, <1>3 DEF FinishProduce

LEMMA NextNonceInv ==
  ASSUME OverflowChecks, ~SelfMoves, TypeInv, SerialInv, NonceInv, [Next]_vars
  PROVE  NonceInv'
<1>1. CASE Produce
  <2>1. PICK o \in Origins, b \in RawCodes, m \in Ids, n \in Amounts, d \in ShelfLives,
             ms \in MaterialLists : ProduceFood(o, b, m, n, d, ms)
    BY <1>1 DEF Produce
  <2>2. CASE pc' = "return" /\ UNCHANGED <<FoodItem, committed>>
    BY <2>2, QuietNonceInv
  <2>3. CASE pc' = "produce" /\ call'.left = 0 /\ UNCHANGED <<FoodItem, committed>>
    <3>1. ~(0 > 0)
      OBVIOUS
    <3> QED BY <2>3, <3>1 DEF NonceInv, Gapless
  <2> QED BY <2>1, <2>2, <2>3 DEF ProduceFood, Reject, Return, storage, NoCall
<1>2. CASE Trade
  BY <1>2, TradeNonceInv
<1>3. CASE Transport
  BY <1>3, TransportNonceInv
<1>4. CASE Store
  BY <1>4, StoreNonceInv
<1>5. CASE SetGln \/ SetLicense
  BY <1>5, QuietNonceInv DEF SetGln, SetLicense, SetAccountGln, SetManufacturerLicense, Reject, Return, storage
<1>6. CASE NextMaterial
  BY <1>6, NextMaterialNonceInv
<1>7. CASE ConsumeLot
  BY <1>7, ConsumeNonceInv
<1>8. CASE FinishProduce
  BY <1>8, FinishProduceNonceInv
<1>9. CASE TradeLot \/ TransportLot
  BY <1>9, MoveLotNonceInv DEF TradeLot, TransportLot
<1>10. CASE StoreLot
  BY <1>10, StoreLotNonceInv
<1>11. CASE FinishTrade \/ FinishTransport \/ FinishStore \/ Tick \/ SkipStoredLot \/ Spin \/ UNCHANGED vars
  BY <1>11, QuietNonceInv DEF FinishTrade, FinishTransport, FinishStore, FinishLoop, Return, Tick,
                              SkipStoredLot, Spin, vars, storage
<1>12. CASE Commit
  BY <1>12 DEF Commit, Settle, Snapshot, storage, NonceInv, Gapless
<1>13. CASE Rollback
  BY <1>13 DEF Rollback, Settle, NonceInv, Gapless
<1> QED
  BY <1>1, <1>2, <1>3, <1>4, <1>5, <1>6, <1>7, <1>8, <1>9, <1>10, <1>11, <1>12, <1>13
  DEF Next, Dispatch, Proceed, ProduceStep, TradeStep, TransportStep, StoreStep

\* lib.rs:486: where nonces do not wrap and no call moves a lot onto its own
\* identity, get_max_nonce is the end of the lots; none lies beyond it, hidden.
THEOREM NoHiddenLot ==
  ASSUME OverflowChecks, ~SelfMoves
  PROVE  Spec => []MaxNonceIsMax
<1>1. TypeInv /\ SerialInv /\ NonceInv /\ [Next]_vars => NonceInv'
  BY NextNonceInv
<1>2. Spec => [](TypeInv /\ SerialInv /\ NonceInv)
  BY <1>1, InitTypeInv, NextTypeInv, InitSerialInv, NextSerialInv, InitNonceInv, PTL DEF Spec
<1>3. NonceInv => MaxNonceIsMax
  <2> SUFFICES ASSUME NonceInv, NEW id \in Identity, NEW n \in Nonces, FoodItem[id][n].held,
                      NEW m \in 0 .. n
               PROVE  FoodItem[id][m].held
    BY DEF MaxNonceIsMax
  <2>1. m \in Nonces /\ m <= n
    BY NonceAssumption DEF Nonces
  <2> QED BY <2>1 DEF NonceInv, Gapless
<1> QED BY <1>2, <1>3, PTL

\* lib.rs:39: under the same conditions no insertion of a call destroys a lot.
THEOREM NoncesAvoidCollisions ==
  ASSUME OverflowChecks, ~SelfMoves
  PROVE  Spec => []NoCollision
<1>1. TypeInv /\ SerialInv /\ NonceInv /\ [Next]_vars => NonceInv'
  BY NextNonceInv
<1>2. Spec => [](TypeInv /\ SerialInv /\ NonceInv)
  BY <1>1, InitTypeInv, NextTypeInv, InitSerialInv, NextSerialInv, InitNonceInv, PTL DEF Spec
<1>3. TypeInv /\ SerialInv /\ NonceInv => NoCollision
  <2> SUFFICES ASSUME TypeInv, SerialInv, NonceInv PROVE NoCollision
    OBVIOUS
  <2>1. ASSUME pc \in {"trade", "transport", "store"}, call.left > 0
        PROVE  ~FoodItem[call.dst][call.dstNonce].held
    <3>1. Dense(FoodItem, call.dst, call.dstNonce)
      BY <2>1 DEF NonceInv
    <3>2. call.dstNonce \in Nonces
      BY DEF TypeInv, TypeOK, CallOK
    <3> QED BY <3>1, <3>2, NonceAssumption DEF Dense, Nonces
  <2>2. ASSUME pc = "produce" PROVE ~FoodItem[call.dst][0].held
    <3>1. call.dst \in Identity /\ 0 \in Nonces
      BY <2>2, NonceAssumption DEF TypeInv, TypeOK, CallOK, Looping, Nonces
    <3> QED BY <2>2, <3>1 DEF SerialInv
  <2> QED BY <2>1, <2>2 DEF NoCollision
<1> QED BY <1>2, <1>3, PTL

-----------------------------------------------------------------------------
(***************************************************************************)
(* Under the same conditions storing works from the small nonces upwards:  *)
(* below a stored lot there are only stored ones.                          *)
(***************************************************************************)
StoredAt(items, trace, id, n) == items[id][n].held /\ trace[items[id][n].hash].event.kind = "Store"

PrefixOK(items, trace) ==
  \A id \in Identity : \A k, m \in Nonces :
    StoredAt(items, trace, id, k) /\ m <= k => StoredAt(items, trace, id, m)

PrefixInv ==
  /\ PrefixOK(FoodItem, FoodTrace)
  /\ PrefixOK(committed.item, committed.trace)
  /\ pc = "store" => \A m \in Nonces : m < call.srcNonce => StoredAt(FoodItem, FoodTrace, call.src, m)

\* Taking away from the top, and putting other lots there, keeps the prefix.
LEMMA PrefixShrinks ==
  ASSUME NEW items, NEW trace, NEW new, NEW more, PrefixOK(items, trace),
         \A i \in Identity : \A m \in Nonces : StoredAt(new, more, i, m) => StoredAt(items, trace, i, m),
         \A i \in Identity : \A m, k \in Nonces :
           /\ StoredAt(items, trace, i, m) /\ ~StoredAt(new, more, i, m)
           /\ StoredAt(items, trace, i, k)
           => k <= m
  PROVE  PrefixOK(new, more)
<1> SUFFICES ASSUME NEW i \in Identity, NEW k \in Nonces, NEW m \in Nonces,
                    StoredAt(new, more, i, k), m <= k
             PROVE  StoredAt(new, more, i, m)
  BY DEF PrefixOK
<1>1. StoredAt(items, trace, i, k) /\ StoredAt(items, trace, i, m)
  BY DEF PrefixOK
<1>2. k <= m => k = m
  BY NonceAssumption DEF Nonces
<1> QED BY <1>1, <1>2

\* A lot that keeps its hash stays stored, or not, when the trace only grows.
LEMMA StoredKept ==
  ASSUME NEW items, NEW trace, ItemOK(items, trace), NEW new, NEW more, Keeps(trace, more),
         NEW i \in Identity, NEW m \in Nonces,
         new[i][m].held <=> items[i][m].held, new[i][m].hash = items[i][m].hash
  PROVE  StoredAt(new, more, i, m) <=> StoredAt(items, trace, i, m)
<1>1. items[i][m].held => items[i][m].hash \in DOMAIN trace
  BY HeldIsLot DEF IsLot
<1> QED BY <1>1 DEF StoredAt, Keeps

LEMMA InitPrefixInv == Init => PrefixInv
<1> SUFFICES ASSUME Init PROVE PrefixInv
  OBVIOUS
<1>1. \A i \in Identity : \A n \in Nonces : ~FoodItem[i][n].held
  BY DEF Init, Empty, NoLot
<1>2. committed.item = FoodItem /\ pc = "idle"
  BY DEF Init, Empty, Snapshot
<1> QED BY <1>1, <1>2 DEF PrefixInv, PrefixOK, StoredAt

LEMMA QuietPrefixInv ==
  ASSUME PrefixInv, UNCHANGED <<FoodItem, FoodTrace, committed>>,
         pc' # "store" \/ (pc' = pc /\ UNCHANGED call)
  PROVE  PrefixInv'
BY DEF PrefixInv, PrefixOK, StoredAt

\* A call to store a food starts from nonce 0.
LEMMA StorePrefixInv ==
  ASSUME PrefixInv, Store
  PROVE  PrefixInv'
<1>1. PICK o \in Origins, bar \in RawCodes, warehouse \in Ids, sscc \in SSCCs \cup {Malformed},
           amount \in Amounts : StoreFood(o, bar, warehouse, sscc, amount)
  BY DEF Store
<1>2. UNCHANGED <<FoodItem, FoodTrace, committed>>
  BY MoversLeaveStorage DEF storage
<1>3. pc' # "store" \/ call'.srcNonce = 0
  BY <1>1 DEF StoreFood, Reject, NonceOverrun, Return, NoCall
<1>4. \A m \in Nonces : ~(m < 0)
  BY NonceAssumption DEF Nonces
<1> QED BY <1>2, <1>3, <1>4 DEF PrefixInv, PrefixOK, StoredAt

LEMMA ConsumePrefixInv ==
  ASSUME TypeInv, NonceInv, PrefixInv, ConsumeLot
  PROVE  PrefixInv'
<1> DEFINE n   == call.srcNonce - 1
           lot == FoodItem[call.src][n]
<1>1. /\ pc = "produce" /\ call.left > 0 /\ call.srcNonce > 0 /\ CallOK /\ pc \in Looping
      /\ ItemOK(FoodItem, FoodTrace)
  BY DEF ConsumeLot, TypeInv, TypeOK, Looping
<1>2. n \in Nonces /\ call.src \in Identity /\ call.srcNonce \in Nonces
  BY <1>1, NonceAssumption DEF CallOK, Nonces
<1>3. \A m \in Nonces : FoodItem[call.src][m].held => m <= n
  <2>1. Dense(FoodItem, call.src, call.srcNonce)
    BY <1>1 DEF NonceInv
  <2>2. \A m \in Nonces : m < call.srcNonce => m <= n
    BY <1>2, NonceAssumption DEF Nonces
  <2> QED BY <2>1, <2>2 DEF Dense
<1>4. FoodItem' = Consume(call.src, n) /\ UNCHANGED <<FoodTrace, committed, pc>>
  BY DEF ConsumeLot
<1> HIDE DEF n
<1>5. \A i \in Identity : \A m \in Nonces :
        /\ StoredAt(FoodItem', FoodTrace, i, m) => StoredAt(FoodItem, FoodTrace, i, m)
        /\ StoredAt(FoodItem, FoodTrace, i, m) /\ ~StoredAt(FoodItem', FoodTrace, i, m)
           => i = call.src /\ m = n
  <2> SUFFICES ASSUME NEW i \in Identity, NEW m \in Nonces
               PROVE  /\ StoredAt(FoodItem', FoodTrace, i, m) => StoredAt(FoodItem, FoodTrace, i, m)
                      /\ StoredAt(FoodItem, FoodTrace, i, m) /\ ~StoredAt(FoodItem', FoodTrace, i, m)
                         => i = call.src /\ m = n
    OBVIOUS
  <2>1. FoodItem'[i][m] = IF i = call.src /\ m = n
                          THEN IF lot.amount > call.left THEN Lot(lot.amount - call.left, lot.hash)
                               ELSE NoLot
                          ELSE FoodItem[i][m]
    BY <1>2, <1>4, ConsumeEffect
  <2>2. lot.held
    BY <1>1, <1>2, NonceAssumption DEF NonceInv, Dense, Nonces, n
  <2>3. ~NoLot.held
    BY DEF NoLot
  <2> QED BY <2>1, <2>2, <2>3, LotFacts DEF StoredAt
<1>6. PrefixOK(FoodItem', FoodTrace)
  BY <1>3, <1>5, PrefixShrinks DEF PrefixInv, StoredAt
<1> QED BY <1>1, <1>4, <1>6 DEF PrefixInv

\* A lot that is moved is no longer stored; it comes from the top, and goes there.
LEMMA MoveLotPrefixInv ==
  ASSUME TypeInv, TraceInv, NonceInv, PrefixInv, pc \in {"trade", "transport"}, MoveLot
  PROVE  PrefixInv'
<1> DEFINE n    == call.srcNonce - 1
           lot  == FoodItem[call.src][n]
           hash == Link(call.event, lot.hash)
<1>1. /\ call.src \in Identity /\ call.dst \in Identity /\ n \in Nonces /\ call.dstNonce \in Nonces
      /\ call.left \in Nat \ {0} /\ lot.held /\ call.event.kind \notin {"Produce", "Store"}
      /\ \A i \in Identity : \A m \in Nonces :
           FoodItem'[i][m] =
             IF i = call.dst /\ m = call.dstNonce
             THEN Lot(Smaller(lot.amount, call.left), hash)
             ELSE IF i = call.src /\ m = n
             THEN IF lot.amount > call.left THEN Lot(lot.amount - call.left, lot.hash) ELSE NoLot
             ELSE FoodItem[i][m]
  BY MoveLotEffect
<1>2. /\ FoodTrace' = Put(FoodTrace, hash, Trace(call.event, lot.hash))
      /\ UNCHANGED committed /\ pc' # "store"
  BY DEF MoveLot, Return
<1>3. Keeps(FoodTrace, FoodTrace') /\ FoodTrace'[hash].event = call.event
  <2>1. FoodTrace'[hash] = Trace(call.event, lot.hash)
    BY <1>2 DEF Put
  <2> QED BY <1>1, <1>2, <2>1, PutLink, TraceFields DEF TraceInv
<1>4. /\ \A m \in Nonces : FoodItem[call.src][m].held => m <= n
      /\ ~FoodItem[call.dst][call.dstNonce].held
  <2>1. /\ call.left > 0 /\ Dense(FoodItem, call.src, call.srcNonce)
        /\ Dense(FoodItem, call.dst, call.dstNonce)
    BY <1>1 DEF NonceInv
  <2>2. \A m \in Nonces : m < call.srcNonce => m <= n
    BY NonceAssumption DEF Nonces, TypeInv, TypeOK, CallOK
  <2>3. ~(call.dstNonce < call.dstNonce)
    BY <1>1, NonceAssumption DEF Nonces
  <2> QED BY <1>1, <2>1, <2>2, <2>3 DEF Dense
<1>5. ItemOK(FoodItem, FoodTrace)
  BY DEF TypeInv, TypeOK
<1> HIDE DEF n, lot, hash
<1>6. ASSUME NEW i \in Identity, NEW m \in Nonces
      PROVE  /\ StoredAt(FoodItem', FoodTrace', i, m) => StoredAt(FoodItem, FoodTrace, i, m)
             /\ StoredAt(FoodItem, FoodTrace, i, m) /\ ~StoredAt(FoodItem', FoodTrace', i, m)
                => i = call.src /\ m = n
  <2>1. CASE i = call.dst /\ m = call.dstNonce
    <3>1. FoodItem'[i][m].hash = hash
      BY <1>1, <2>1, LotFacts
    <3> QED BY <1>1, <1>3, <1>4, <2>1, <3>1 DEF StoredAt
  <2>2. CASE ~(i = call.dst /\ m = call.dstNonce) /\ i = call.src /\ m = n
    <3>1. CASE lot.amount > call.left
      <4>1. FoodItem'[i][m].held /\ FoodItem'[i][m].hash = lot.hash /\ FoodItem[i][m] = lot
        BY <1>1, <2>2, <3>1, LotFacts DEF lot
      <4> QED BY <1>1, <1>3, <1>5, <4>1, StoredKept
    <3>2. CASE ~(lot.amount > call.left)
      <4>1. ~FoodItem'[i][m].held
        BY <1>1, <2>2, <3>2 DEF NoLot
      <4> QED BY <2>2, <4>1 DEF StoredAt
    <3> QED BY <3>1, <3>2
  <2>3. CASE ~(i = call.dst /\ m = call.dstNonce) /\ ~(i = call.src /\ m = n)
    <3>1. FoodItem'[i][m] = FoodItem[i][m]
      BY <1>1, <2>3
    <3> QED BY <1>3, <1>5, <3>1, StoredKept
  <2> QED BY <2>1, <2>2, <2>3
<1>7. PrefixOK(FoodItem', FoodTrace')
  <2>1. \A i \in Identity : \A m, k \in Nonces :
           /\ StoredAt(FoodItem, FoodTrace, i, m) /\ ~StoredAt(FoodItem', FoodTrace', i, m)
           /\ StoredAt(FoodItem, FoodTrace, i, k)
           => k <= m
    BY <1>4, <1>6 DEF StoredAt
  <2> QED BY <1>6, <2>1, PrefixShrinks DEF PrefixInv
<1> QED BY <1>2, <1>7 DEF PrefixInv

\* The loop stores the lot on which the stored ones end; what is left of it goes to
\* the top, not stored.
LEMMA StoreLotPrefixInv ==
  ASSUME TypeInv, TraceInv, NonceInv, PrefixInv, StoreLot
  PROVE  PrefixInv'
<1> DEFINE n    == call.srcNonce
           lot  == FoodItem[call.src][n]
           hash == Link(call.event, lot.hash)
<1>1. /\ call.src \in Identity /\ n \in Nonces /\ call.dstNonce \in Nonces /\ n < call.dstNonce
      /\ call.left \in Nat \ {0} /\ lot.held /\ call.event.kind = "Store"
      /\ \A i \in Identity : \A m \in Nonces :
           FoodItem'[i][m] =
             IF i = call.src /\ m = n
             THEN Lot(Smaller(lot.amount, call.left), hash)
             ELSE IF i = call.src /\ m = call.dstNonce /\ lot.amount > call.left
             THEN Lot(lot.amount - call.left, lot.hash)
             ELSE FoodItem[i][m]
  BY StoreLotEffect
<1>2. /\ FoodTrace' = Put(FoodTrace, hash, Trace(call.event, lot.hash))
      /\ UNCHANGED <<committed, pc>> /\ pc = "store" /\ ~IsStored(lot)
      /\ call'.src = call.src /\ call'.srcNonce = Inc(n)
  BY DEF StoreLot, TypeInv, TypeOK, CallOK, NoCall
<1>3. Keeps(FoodTrace, FoodTrace') /\ FoodTrace'[hash].event = call.event
  <2>1. FoodTrace'[hash] = Trace(call.event, lot.hash)
    BY <1>2 DEF Put
  <2> QED BY <1>1, <1>2, <2>1, PutLink, TraceFields DEF TraceInv
<1>4. ItemOK(FoodItem, FoodTrace) /\ lot.hash \in DOMAIN FoodTrace
  BY <1>1, HeldIsLot DEF TypeInv, TypeOK, IsLot
<1>5. \A m \in Nonces : StoredAt(FoodItem, FoodTrace, call.src, m) <=> m < n
  <2>1. ~StoredAt(FoodItem, FoodTrace, call.src, n)
    BY <1>2 DEF StoredAt, IsStored
  <2>2. \A m \in Nonces : m < n \/ n <= m
    BY <1>1, NonceAssumption DEF Nonces
  <2>3. \A m \in Nonces : m < n => StoredAt(FoodItem, FoodTrace, call.src, m)
    BY <1>2 DEF PrefixInv
  <2> QED BY <1>1, <2>1, <2>2, <2>3 DEF PrefixInv, PrefixOK
<1>6. Inc(n) = n + 1
  BY <1>1, NonceAssumption DEF Inc, Nonces
<1> HIDE DEF n, lot, hash
<1>7. \A m \in Nonces : StoredAt(FoodItem', FoodTrace', call.src, m) <=> m < n + 1
  <2> SUFFICES ASSUME NEW m \in Nonces
               PROVE  StoredAt(FoodItem', FoodTrace', call.src, m) <=> m < n + 1
    OBVIOUS
  <2>0. m < n + 1 <=> m < n \/ m = n
    BY <1>1, NonceAssumption DEF Nonces
  <2>1. CASE m = n
    <3>1. FoodItem'[call.src][m].held /\ FoodItem'[call.src][m].hash = hash
      BY <1>1, <2>1, LotFacts
    <3> QED BY <1>1, <1>3, <2>0, <2>1, <3>1 DEF StoredAt
  <2>2. CASE m # n /\ m = call.dstNonce /\ lot.amount > call.left
    <3>1. FoodItem'[call.src][m].hash = lot.hash
      BY <1>1, <2>2, LotFacts
    <3>2. FoodTrace'[lot.hash] = FoodTrace[lot.hash]
      BY <1>3, <1>4 DEF Keeps
    <3>3. ~(m < n)
      BY <1>1, <2>2, NonceAssumption DEF Nonces
    <3> QED BY <1>2, <2>0, <2>2, <3>1, <3>2, <3>3 DEF StoredAt, IsStored
  <2>3. CASE m # n /\ ~(m = call.dstNonce /\ lot.amount > call.left)
    <3>1. FoodItem'[call.src][m] = FoodItem[call.src][m]
      BY <1>1, <2>3
    <3>2. StoredAt(FoodItem', FoodTrace', call.src, m) <=> StoredAt(FoodItem, FoodTrace, call.src, m)
      BY <1>1, <1>3, <1>4, <3>1, StoredKept
    <3> QED BY <1>5, <2>0, <2>3, <3>2
  <2> QED BY <2>1, <2>2, <2>3
<1>8. \A i \in Identity \ {call.src} : \A m \in Nonces :
        StoredAt(FoodItem', FoodTrace', i, m) <=> StoredAt(FoodItem, FoodTrace, i, m)
  <2> SUFFICES ASSUME NEW i \in Identity \ {call.src}, NEW m \in Nonces
               PROVE  StoredAt(FoodItem', FoodTrace', i, m) <=> StoredAt(FoodItem, FoodTrace, i, m)
    OBVIOUS
  <2>1. FoodItem'[i][m] = FoodItem[i][m]
    BY <1>1
  <2> QED BY <1>3, <1>4, <2>1, StoredKept
<1>9. PrefixOK(FoodItem', FoodTrace')
  <2>1. \A k, m \in Nonces : k < n + 1 /\ m <= k => m < n + 1
    BY <1>1, NonceAssumption DEF Nonces
  <2> QED BY <1>7, <1>8, <2>1 DEF PrefixInv, PrefixOK
<1> QED BY <1>2, <1>6, <1>7, <1>9 DEF PrefixInv, n

\* The new lot is the only one of its bar code, and nothing of it is stored.
LEMMA FinishProducePrefixInv ==
  ASSUME TypeInv, TraceInv, SerialInv, PrefixInv, FinishProduce
  PROVE  PrefixInv'
<1> DEFINE hash == RootHash(call.dst[1])
           new  == Lot(call.amount, hash)
<1>1. pc = "produce" /\ pc' = "return" /\ UNCHANGED committed
  BY DEF FinishProduce, Return
<1>2. CASE UNCHANGED <<FoodItem, FoodTrace>>
  BY <1>1, <1>2, QuietPrefixInv
<1>3. CASE /\ FoodItem' = Insert(FoodItem, call.dst, 0, new)
           /\ FoodTrace' = Put(FoodTrace, hash, Trace(call.event, NoHash))
  <2>1. /\ call.dst \in Identity /\ 0 \in Nonces /\ ItemOK(FoodItem, FoodTrace)
        /\ call.event.kind = "Produce"
    BY <1>1, NonceAssumption DEF TypeInv, TypeOK, CallOK, Looping, Nonces
  <2>2. \A i \in Identity : \A m \in Nonces :
          FoodItem'[i][m] = IF i = call.dst /\ m = 0 THEN new ELSE FoodItem[i][m]
    BY <1>3, <2>1, InsertFacts
  <2>3. Keeps(FoodTrace, FoodTrace')
    BY <1>1, <1>3, <2>1, PutRoot DEF TraceInv
  <2>4. FoodTrace'[hash].event.kind = "Produce"
    <3>1. FoodTrace'[hash] = Trace(call.event, NoHash)
      BY <1>3 DEF Put
    <3> QED BY <2>1, <3>1, TraceFields
  <2>5. new.hash = hash /\ ~FoodItem[call.dst][0].held
    BY <1>1, <2>1, LotFacts DEF SerialInv
  <2> HIDE DEF new, hash
  <2>6. \A i \in Identity : \A m \in Nonces :
          StoredAt(FoodItem', FoodTrace', i, m) <=> StoredAt(FoodItem, FoodTrace, i, m)
    <3> SUFFICES ASSUME NEW i \in Identity, NEW m \in Nonces
                 PROVE  StoredAt(FoodItem', FoodTrace', i, m) <=> StoredAt(FoodItem, FoodTrace, i, m)
      OBVIOUS
    <3>1. CASE i = call.dst /\ m = 0
      BY <2>1, <2>2, <2>4, <2>5, <3>1 DEF StoredAt
    <3>2. CASE ~(i = call.dst /\ m = 0)
      <4>1. FoodItem'[i][m] = FoodItem[i][m]
        BY <2>2, <3>2
      <4> QED BY <2>1, <2>3, <4>1, StoredKept
    <3> QED BY <3>1, <3>2
  <2>7. PrefixOK(FoodItem', FoodTrace')
    BY <2>6 DEF PrefixInv, PrefixOK
  <2> QED BY <1>1, <2>7 DEF PrefixInv
<1> QED BY <1>2, <1>3 DEF FinishProduce

LEMMA NextPrefixInv ==
  ASSUME TypeInv, TraceInv, SerialInv, NonceInv, PrefixInv, [Next]_vars
  PROVE  PrefixInv'
<1>1. CASE Produce
  BY <1>1, QuietPrefixInv DEF Produce, ProduceFood, Reject, Return, storage
<1>2. CASE Trade \/ Transport
  <2>1. ASSUME NEW where \in {"trade", "transport"}, NEW src, NEW dst, NEW amount, NEW event,
               StartMove(where, src, dst, amount, event)
        PROVE  pc' # "store"
    BY <2>1 DEF StartMove, NonceOverrun, Return
  <2>2. ASSUME NEW errors, Reject(errors) PROVE pc' # "store"
    BY <2>2 DEF Reject, Return
  <2>3. pc' # "store"
    <3>1. CASE Trade
      BY <2>1, <2>2, <3>1 DEF Trade, TradeFood
    <3>2. CASE Transport
      BY <2>1, <2>2, <3>2 DEF Transport, TransportFood
    <3> QED BY <1>2, <3>1, <3>2
  <2> QED BY <1>2, <2>3, MoversLeaveStorage, QuietPrefixInv DEF storage
<1>3. CASE Store
  BY <1>3, StorePrefixInv
<1>4. CASE SetGln \/ SetLicense
  BY <1>4, QuietPrefixInv DEF SetGln, SetLicense, SetAccountGln, SetManufacturerLicense, Reject, Return, storage
<1>5. CASE NextMaterial
  BY <1>5, QuietPrefixInv DEF NextMaterial, NonceOverrun, Reject, Return, storage
<1>6. CASE ConsumeLot
  BY <1>6, ConsumePrefixInv
<1>7. CASE FinishProduce
  BY <1>7, FinishProducePrefixInv
<1>8. CASE TradeLot \/ TransportLot
  BY <1>8, MoveLotPrefixInv DEF TradeLot, TransportLot
<1>9. CASE StoreLot
  BY <1>9, StoreLotPrefixInv
<1>10. CASE FinishTrade \/ FinishTransport \/ FinishStore \/ Tick \/ SkipStoredLot \/ Spin \/ UNCHANGED vars
  BY <1>10, QuietPrefixInv DEF FinishTrade, FinishTransport, FinishStore, FinishLoop, Return, Tick,
                               SkipStoredLot, Spin, vars, storage
<1>11. CASE Commit
  BY <1>11 DEF Commit, Settle, Snapshot, storage, PrefixInv, PrefixOK, StoredAt
<1>12. CASE Rollback
  BY <1>12 DEF Rollback, Settle, PrefixInv, PrefixOK, StoredAt
<1> QED
  BY <1>1, <1>2, <1>3, <1>4, <1>5, <1>6, <1>7, <1>8, <1>9, <1>10, <1>11, <1>12
  DEF Next, Dispatch, Proceed, ProduceStep, TradeStep, TransportStep, StoreStep

\* lib.rs:260-261: where nonces do not wrap and no call moves a lot onto its own
\* identity, the other calls find the lots that are not stored before the stored.
THEOREM StoredLotsAreBelow ==
  ASSUME OverflowChecks, ~SelfMoves
  PROVE  Spec => []StoredPrefix
<1>1. TypeInv /\ TraceInv /\ SerialInv /\ NonceInv /\ PrefixInv /\ [Next]_vars => NonceInv' /\ PrefixInv'
  BY NextNonceInv, NextPrefixInv
<1>2. Spec => [](TypeInv /\ TraceInv /\ SerialInv /\ NonceInv /\ PrefixInv)
  BY <1>1, InitTypeInv, NextTypeInv, InitTraceInv, NextTraceInv, InitSerialInv, NextSerialInv,
     InitNonceInv, InitPrefixInv, PTL DEF Spec
<1>3. PrefixInv => StoredPrefix
  <2> SUFFICES ASSUME PrefixInv, NEW id \in Identity, NEW n \in Nonces,
                      StoredAt(FoodItem, FoodTrace, id, n), NEW m \in 0 .. n
               PROVE  StoredAt(FoodItem, FoodTrace, id, m)
    BY DEF StoredPrefix, StoredAt, IsStored
  <2>1. m \in Nonces /\ m <= n
    BY NonceAssumption DEF Nonces
  <2> QED BY <2>1 DEF PrefixInv, PrefixOK
<1> QED BY <1>2, <1>3, PTL

-----------------------------------------------------------------------------
(***************************************************************************)
(* Sums over the lots of an identity.                                      *)
(***************************************************************************)
\* The amounts of the lots, which are numbers even where there is no lot.
Counted(lots) == \A n \in Nonces : lots[n].amount \in Nat

\* The sums of the first lots.
IsSum(sum, lots) ==
  /\ sum \in [0 .. NonceMod -> Nat]
  /\ sum[0] = 0
  /\ \A n \in Nonces : sum[n + 1] = sum[n] + lots[n].amount

LEMMA SumsUpTo ==
  ASSUME NEW lots, Counted(lots)
  PROVE  \A k \in Nat : k <= NonceMod =>
           \E sum \in [0 .. k -> Nat] :
             sum = [n \in 0 .. k |-> IF n = 0 THEN 0 ELSE sum[n - 1] + lots[n - 1].amount]
<1> DEFINE Equation(sum, k) ==
             /\ sum \in [0 .. k -> Nat]
             /\ sum = [n \in 0 .. k |-> IF n = 0 THEN 0 ELSE sum[n - 1] + lots[n - 1].amount]
           S == {k \in Nat : k <= NonceMod => \E sum : Equation(sum, k)}
<1>1. 0 \in S
  <2>1. Equation([n \in 0 .. 0 |-> 0], 0)
    OBVIOUS
  <2> HIDE DEF Equation
  <2> QED BY <2>1
<1>2. ASSUME NEW k \in Nat, k \in S PROVE k + 1 \in S
  <2> SUFFICES ASSUME k + 1 <= NonceMod PROVE \E sum : Equation(sum, k + 1)
    BY <1>2
  <2>1. k <= NonceMod /\ k \in Nonces
    BY NonceAssumption DEF Nonces
  <2>2. PICK g : Equation(g, k)
    BY <1>2, <2>1
  <2>3. lots[k].amount \in Nat
    BY <2>1 DEF Counted
  <2> DEFINE h == [n \in 0 .. k + 1 |-> IF n = k + 1 THEN g[k] + lots[k].amount ELSE g[n]]
  <2>4. h \in [0 .. k + 1 -> Nat]
    BY <2>2, <2>3
  <2>5. ASSUME NEW n \in 0 .. k + 1
        PROVE  h[n] = IF n = 0 THEN 0 ELSE h[n - 1] + lots[n - 1].amount
    <3>1. CASE n = k + 1
      BY <2>2, <3>1
    <3>2. CASE n # k + 1
      <4>1. n \in 0 .. k
        BY <3>2
      <4>2. g[n] = IF n = 0 THEN 0 ELSE g[n - 1] + lots[n - 1].amount
        BY <2>2, <4>1
      <4>3. n # 0 => n - 1 \in 0 .. k + 1 /\ n - 1 # k + 1
        BY <4>1
      <4> QED BY <3>2, <4>2, <4>3
    <3> QED BY <3>1, <3>2
  <2>6. h = [n \in 0 .. k + 1 |-> IF n = 0 THEN 0 ELSE h[n - 1] + lots[n - 1].amount]
    <3> HIDE DEF h
    <3>1. DOMAIN h = 0 .. k + 1 /\ h = [n \in 0 .. k + 1 |-> h[n]]
      BY <2>4
    <3> QED BY <2>5, <3>1
  <2>7. Equation(h, k + 1)
    BY <2>4, <2>6
  <2> HIDE DEF Equation, h
  <2> QED BY <2>7
<1> HIDE DEF S
<1>3. Nat \subseteq S
  BY <1>1, <1>2, Induction
<1> QED BY <1>3 DEF S

LEMMA TotalIsSum ==
  ASSUME NEW lots, Counted(lots)
  PROVE  \E sum : IsSum(sum, lots) /\ Total(lots) = sum[NonceMod]
<1> DEFINE Body(sum) == [n \in 0 .. NonceMod |-> IF n = 0 THEN 0 ELSE sum[n - 1] + lots[n - 1].amount]
           total == CHOOSE sum : sum = Body(sum)
<1>1. NonceMod \in Nat /\ NonceMod <= NonceMod
  BY NonceAssumption
<1>2. \E sum : sum = Body(sum)
  BY <1>1, SumsUpTo
<1>3. total = Body(total)
  BY <1>2
<1>4. Total(lots) = total[NonceMod]
  BY DEF Total
<1> HIDE DEF total
<1>5. \A n \in 0 .. NonceMod : total[n] = IF n = 0 THEN 0 ELSE total[n - 1] + lots[n - 1].amount
  BY <1>3
<1> DEFINE S == {n \in Nat : n <= NonceMod => total[n] \in Nat}
<1>6. 0 \in S
  BY <1>1, <1>5
<1>7. ASSUME NEW n \in Nat, n \in S PROVE n + 1 \in S
  <2> SUFFICES ASSUME n + 1 <= NonceMod PROVE total[n + 1] \in Nat
    OBVIOUS
  <2>1. n + 1 \in 0 .. NonceMod /\ n + 1 # 0 /\ (n + 1) - 1 = n /\ n \in Nonces /\ n <= NonceMod
    BY <1>1 DEF Nonces
  <2>2. total[n + 1] = total[n] + lots[n].amount
    BY <1>5, <2>1
  <2> QED BY <1>7, <2>1, <2>2 DEF Counted
<1>8. Nat \subseteq S
  <2> HIDE DEF S
  <2> QED BY <1>6, <1>7, Induction
<1>9. total \in [0 .. NonceMod -> Nat]
  BY <1>1, <1>3, <1>8
<1>10. ASSUME NEW n \in Nonces PROVE total[n + 1] = total[n] + lots[n].amount
  <2>1. n + 1 \in 0 .. NonceMod /\ n + 1 # 0 /\ (n + 1) - 1 = n
    BY <1>1 DEF Nonces
  <2> QED BY <1>5, <2>1
<1>11. IsSum(total, lots)
  BY <1>1, <1>5, <1>9, <1>10 DEF IsSum
<1> QED BY <1>4, <1>11

LEMMA TotalType == ASSUME NEW lots, Counted(lots) PROVE Total(lots) \in Nat
BY TotalIsSum, NonceAssumption DEF IsSum

\* Where the lots are smaller, so is their sum.
LEMMA TotalMonotone ==
  ASSUME NEW old, Counted(old), NEW new, Counted(new),
         \A n \in Nonces : new[n].amount <= old[n].amount
  PROVE  Total(new) <= Total(old)
<1>1. PICK f : IsSum(f, old) /\ Total(old) = f[NonceMod]
  BY TotalIsSum
<1>2. PICK g : IsSum(g, new) /\ Total(new) = g[NonceMod]
  BY TotalIsSum
<1> DEFINE S == {n \in Nat : n <= NonceMod => g[n] <= f[n]}
<1>3. 0 \in S
  BY <1>1, <1>2 DEF IsSum
<1>4. ASSUME NEW n \in Nat, n \in S PROVE n + 1 \in S
  <2> SUFFICES ASSUME n + 1 <= NonceMod PROVE g[n + 1] <= f[n + 1]
    OBVIOUS
  <2>1. n \in Nonces /\ n <= NonceMod /\ n \in 0 .. NonceMod
    BY NonceAssumption DEF Nonces
  <2>2. f[n] \in Nat /\ g[n] \in Nat /\ old[n].amount \in Nat /\ new[n].amount \in Nat
    BY <1>1, <1>2, <2>1 DEF IsSum, Counted
  <2>3. g[n] <= f[n]
    BY <1>4, <2>1
  <2>4. f[n + 1] = f[n] + old[n].amount /\ g[n + 1] = g[n] + new[n].amount
    BY <1>1, <1>2, <2>1 DEF IsSum
  <2>5. new[n].amount <= old[n].amount
    BY <2>1
  <2> QED BY <2>2, <2>3, <2>4, <2>5
<1>5. Nat \subseteq S
  <2> HIDE DEF S
  <2> QED BY <1>3, <1>4, Induction
<1> QED BY <1>1, <1>2, <1>5, NonceAssumption

LEMMA TotalSame ==
  ASSUME NEW old, Counted(old), NEW new, Counted(new),
         \A n \in Nonces : new[n].amount = old[n].amount
  PROVE  Total(new) = Total(old)
<1>1. \A n \in Nonces : new[n].amount <= old[n].amount /\ old[n].amount <= new[n].amount
  BY DEF Counted
<1>2. Total(new) <= Total(old) /\ Total(old) <= Total(new)
  BY <1>1, TotalMonotone
<1> QED BY <1>2, TotalType

\* Another amount at one nonce changes the sum by the difference.
LEMMA TotalUpdate ==
  ASSUME NEW old, Counted(old), NEW new, Counted(new), NEW k \in Nonces,
         \A n \in Nonces \ {k} : new[n].amount = old[n].amount
  PROVE  Total(new) + old[k].amount = Total(old) + new[k].amount
<1>1. PICK f : IsSum(f, old) /\ Total(old) = f[NonceMod]
  BY TotalIsSum
<1>2. PICK g : IsSum(g, new) /\ Total(new) = g[NonceMod]
  BY TotalIsSum
<1> DEFINE S == {n \in Nat : n <= NonceMod =>
                   IF n <= k THEN g[n] = f[n] ELSE g[n] + old[k].amount = f[n] + new[k].amount}
<1>0. k \in Nat /\ k < NonceMod /\ old[k].amount \in Nat /\ new[k].amount \in Nat
  BY NonceAssumption DEF Nonces, Counted
<1>3. 0 \in S
  BY <1>0, <1>1, <1>2 DEF IsSum
<1>4. ASSUME NEW n \in Nat, n \in S PROVE n + 1 \in S
  <2> SUFFICES ASSUME n + 1 <= NonceMod
               PROVE  IF n + 1 <= k THEN g[n + 1] = f[n + 1]
                      ELSE g[n + 1] + old[k].amount = f[n + 1] + new[k].amount
    OBVIOUS
  <2>1. n \in Nonces /\ n <= NonceMod /\ n \in 0 .. NonceMod
    BY NonceAssumption DEF Nonces
  <2>2. f[n] \in Nat /\ g[n] \in Nat /\ old[n].amount \in Nat /\ new[n].amount \in Nat
    BY <1>1, <1>2, <2>1 DEF IsSum, Counted
  <2>3. IF n <= k THEN g[n] = f[n] ELSE g[n] + old[k].amount = f[n] + new[k].amount
    BY <1>4, <2>1
  <2>4. f[n + 1] = f[n] + old[n].amount /\ g[n + 1] = g[n] + new[n].amount
    BY <1>1, <1>2, <2>1 DEF IsSum
  <2>5. CASE n = k
    BY <1>0, <2>2, <2>3, <2>4, <2>5
  <2>6. CASE n # k
    <3>1. new[n].amount = old[n].amount
      BY <2>1, <2>6
    <3>2. n + 1 <= k <=> n <= k
      BY <1>0, <2>6
    <3> QED BY <1>0, <2>2, <2>3, <2>4, <3>1, <3>2
  <2> QED BY <2>5, <2>6
<1>5. Nat \subseteq S
  <2> HIDE DEF S
  <2> QED BY <1>3, <1>4, Induction
<1>6. NonceMod \in S /\ ~(NonceMod <= k)
  BY <1>0, <1>5, NonceAssumption
<1> QED BY <1>1, <1>2, <1>6, NonceAssumption

LEMMA TotalZero ==
  ASSUME NEW lots, \A n \in Nonces : lots[n].amount = 0
  PROVE  Total(lots) = 0
<1>1. Counted(lots)
  BY DEF Counted
<1>2. PICK f : IsSum(f, lots) /\ Total(lots) = f[NonceMod]
  BY <1>1, TotalIsSum
<1> DEFINE S == {n \in Nat : n <= NonceMod => f[n] = 0}
<1>3. 0 \in S
  BY <1>2 DEF IsSum
<1>4. ASSUME NEW n \in Nat, n \in S PROVE n + 1 \in S
  <2>1. n + 1 <= NonceMod => n \in Nonces /\ n <= NonceMod
    BY NonceAssumption DEF Nonces
  <2> QED BY <1>2, <1>4, <2>1 DEF IsSum
<1>5. Nat \subseteq S
  <2> HIDE DEF S
  <2> QED BY <1>3, <1>4, Induction
<1> QED BY <1>2, <1>5, NonceAssumption

\* One lot only.
LEMMA TotalSingle ==
  ASSUME NEW lots, Counted(lots), NEW k \in Nonces, \A n \in Nonces \ {k} : lots[n].amount = 0
  PROVE  Total(lots) = lots[k].amount
<1> DEFINE none == [n \in Nonces |-> NoLot]
<1>1. \A n \in Nonces : none[n].amount = 0
  BY DEF NoLot
<1>2. Counted(none) /\ Total(none) = 0
  BY <1>1, TotalZero DEF Counted
<1>3. Total(lots) + none[k].amount = Total(none) + lots[k].amount
  <2> HIDE DEF none
  <2> QED BY <1>1, <1>2, TotalUpdate
<1> QED BY <1>1, <1>2, <1>3, TotalType DEF Counted

-----------------------------------------------------------------------------
(***************************************************************************)
(* The accounts: what a call that is under way has taken and put down, by  *)
(* the sums of the lots of each identity.                                  *)
(***************************************************************************)
\* The food of an identity, in the storage a call writes to and in the committed one.
InHand(id) == Total(FoodItem[id])
OnFile(id) == Total(committed.item[id])

\* Between two calls the layers agree; a call that is under way, or returned, is a move,
\* a storing or a production.
LayerInv ==
  /\ pc = "idle" => call = NoCall
  /\ pc \in Looping => call # NoCall
  /\ call = NoCall => FoodItem = committed.item /\ FoodMaterials = committed.materials
  /\ call # NoCall => call.event.kind \in Kinds /\ call.dst \in Identity /\ call.amount \in Nat \ {0}
  /\ call # NoCall /\ pc = "return" /\ result \in Events => call.left = 0

\* Only the two identities of a move change, by what was taken and put down.
MoveInv ==
  call # NoCall /\ call.event.kind \in {"Trade", "Transport"} =>
    /\ call.src \in Identity
    /\ call.src # call.dst
    /\ call.src[1] = call.dst[1]
    /\ call.event.kind = "Trade" => call.src[3] = call.dst[3]
    /\ call.event.kind = "Transport" => call.src[2] = call.dst[2]
    /\ \E a \in Accounts : AccountGLN[a] = call.src[2]
    /\ call.left <= call.amount
    /\ InHand(call.src) + call.amount = OnFile(call.src) + call.left
    /\ InHand(call.dst) + call.left = OnFile(call.dst) + call.amount
    /\ \A id \in Identity \ {call.src, call.dst} : FoodItem[id] = committed.item[id]
    /\ FoodMaterials = committed.materials

\* Storing changes no amount; what it still has to store, it seeks in the lots from
\* the source nonce on.
Unvisited == [n \in Nonces |-> IF n < call.srcNonce THEN NoLot ELSE FoodItem[call.src][n]]
StoringInv ==
  call # NoCall /\ call.event.kind = "Store" =>
    /\ call.src = call.dst
    /\ InHand(call.dst) = OnFile(call.dst)
    /\ pc = "store" /\ call.left > 0 => Total(Unvisited) + call.amount = OnFile(call.dst) + call.left
    /\ \A id \in Identity \ {call.dst} : FoodItem[id] = committed.item[id]
    /\ FoodMaterials = committed.materials

\* A production takes only from what its maker has on the spot.
OnTheSpot(id) == id[2] = call.dst[2] /\ id[3] = call.dst[3]
ProductionInv ==
  call # NoCall /\ call.event.kind = "Produce" =>
    /\ \E a \in Accounts : AccountGLN[a] = call.dst[2]
    /\ call.dst[1] \in SerialCodes => call.amount = 1
    /\ call.dst[1] \notin DOMAIN committed.materials
    /\ DOMAIN FoodMaterials = DOMAIN committed.materials \cup {call.dst[1]}
    /\ pc = "produce" /\ call.left > 0 => OnTheSpot(call.src)
    /\ \A id \in Identity \ {call.dst} : IF OnTheSpot(id) THEN InHand(id) <= OnFile(id)
                                         ELSE FoodItem[id] = committed.item[id]
    /\ pc = "return" /\ result \in Events => InHand(call.dst) = call.amount

StockInv == LayerInv /\ MoveInv /\ StoringInv /\ ProductionInv

LEMMA LotsCounted ==
  ASSUME NEW items, NEW trace, ItemOK(items, trace), NEW id \in Identity
  PROVE  Counted(items[id]) /\ Total(items[id]) \in Nat
<1>1. \A n \in Nonces : items[id][n].amount \in Nat
  BY DEF ItemOK, Absent, NoLot, IsLot
<1> QED BY <1>1, TotalType DEF Counted

LEMMA InitStockInv == Init => StockInv
<1> SUFFICES ASSUME Init PROVE StockInv
  OBVIOUS
<1>1. pc = "idle" /\ call = NoCall /\ committed = Snapshot
  BY DEF Init, Empty
<1> QED BY <1>1 DEF StockInv, LayerInv, MoveInv, StoringInv, ProductionInv, Looping, Snapshot

\* A step that leaves the stock and the call alone, and answers no event.
LEMMA QuietStockInv ==
  ASSUME StockInv, UNCHANGED <<FoodItem, FoodMaterials, committed, call>>,
         UNCHANGED AccountGLN \/ call = NoCall,
         \/ UNCHANGED <<pc, result>>
         \/ pc' = "spin"
         \/ pc' = "return" /\ (call = NoCall \/ result' \notin Events)
  PROVE  StockInv'
<1>1. CASE call = NoCall
  BY <1>1 DEF StockInv, LayerInv, MoveInv, StoringInv, ProductionInv, Looping
<1>2. CASE call # NoCall
  <2>1. LayerInv'
    BY <1>2 DEF StockInv, LayerInv, Looping
  <2>2. MoveInv'
    BY <1>2 DEF StockInv, MoveInv, InHand, OnFile
  <2>3. StoringInv'
    BY <1>2 DEF StockInv, StoringInv, InHand, OnFile, Unvisited
  <2>4. ProductionInv'
    BY <1>2 DEF StockInv, ProductionInv, InHand, OnFile, OnTheSpot
  <2> QED BY <2>1, <2>2, <2>3, <2>4 DEF StockInv
<1> QED BY <1>1, <1>2

\* A dispatched call that does not get through its checks.
LEMMA RejectStockInv ==
  ASSUME StockInv, pc = "idle", (\E errors : Reject(errors)) \/ NonceOverrun
  PROVE  StockInv'
<1>1. call = NoCall
  BY DEF StockInv, LayerInv
<1> QED BY <1>1, QuietStockInv DEF Reject, NonceOverrun, Return, storage

LEMMA StartMoveStockInv ==
  ASSUME TypeInv, StockInv, pc = "idle", NEW where \in {"trade", "transport"},
         NEW src \in Identity, NEW dst \in Identity, src # dst, src[1] = dst[1],
         NEW event, event.kind \in {"Trade", "Transport"},
         event.kind = "Trade" => src[3] = dst[3], event.kind = "Transport" => src[2] = dst[2],
         \E a \in Accounts : AccountGLN[a] = src[2],
         NEW amount \in Nat \ {0}, StartMove(where, src, dst, amount, event)
  PROVE  StockInv'
<1>1. CASE NonceOverrun
  BY <1>1, RejectStockInv
<1>2. CASE ~NonceOverrun
  <2>1. /\ pc' = where /\ UNCHANGED <<storage, admin, committed>>
        /\ call'.src = src /\ call'.dst = dst /\ call'.event = event
        /\ call'.left = amount /\ call'.amount = amount
    BY <1>2 DEF StartMove, NoCall
  <2>2. FoodItem = committed.item /\ FoodMaterials = committed.materials
    BY DEF StockInv, LayerInv
  <2>3. call' # NoCall
    BY <2>1 DEF NoCall
  <2>4. LayerInv'
    BY <2>1, <2>3 DEF LayerInv, Kinds
  <2>5. MoveInv'
    <3>1. \A x, y \in Nat : x + y = x + y
      OBVIOUS
    <3>2. amount <= amount
      OBVIOUS
    <3> QED BY <2>1, <2>2, <3>1, <3>2 DEF MoveInv, InHand, OnFile, storage, admin
  <2>6. StoringInv' /\ ProductionInv'
    BY <2>1 DEF StoringInv, ProductionInv
  <2> QED BY <2>4, <2>5, <2>6 DEF StockInv
<1> QED BY <1>1, <1>2

LEMMA TradeStockInv ==
  ASSUME ~SelfMoves, TypeInv, StockInv, Trade
  PROVE  StockInv'
<1>1. PICK o \in Origins, bar \in RawCodes, locate \in Ids, buyer \in Ids, amount \in Amounts :
        TradeFood(o, bar, locate, buyer, amount)
  BY DEF Trade
<1> DEFINE errors == <<MetadataError(o), GlnError(locate), GlnError(buyer),
                       BarCodeError(bar), AmountError(amount, bar), ShelfLifeError(bar)>>
           event  == [kind |-> "Trade", seller |-> AccountGLN[o], buyer |-> GlnOf(buyer), time |-> Stamp(now)]
           src    == Holding(bar, AccountGLN[o], GlnOf(locate))
           dst    == Holding(bar, GlnOf(buyer), GlnOf(locate))
<1>2. CASE Reject(errors)
  BY <1>1, <1>2, RejectStockInv DEF TradeFood, Ready
<1>3. CASE Passes(errors) /\ AccountGLN[o] # GlnOf(buyer) /\ StartMove("trade", src, dst, amount, event)
  <2>1. /\ MetadataError(o) = Ok /\ GlnError(locate) = Ok /\ GlnError(buyer) = Ok
        /\ BarCodeError(bar) = Ok /\ AmountError(amount, bar) = Ok
    BY <1>3 DEF Passes
  <2>2. AccountGLN[o] \in GLNs /\ GlnOf(locate) \in GLNs /\ GlnOf(buyer) \in GLNs /\ bar \in BarCodes
        /\ o \in Accounts
    BY <2>1, CallerHasGln, IdHasGln, BarCodeParsed DEF TypeInv
  <2>3. src \in Identity /\ dst \in Identity /\ src # dst /\ src[1] = dst[1] /\ src[3] = dst[3]
        /\ src[2] = AccountGLN[o]
    BY <1>3, <2>2 DEF Identity, Holding
  <2>4. amount \in Nat \ {0} /\ pc = "idle"
    BY <1>1, <2>1, AmountVerified, InputAssumption DEF TradeFood, Ready
  <2>5. event.kind = "Trade"
    OBVIOUS
  <2> HIDE DEF src, dst, event
  <2> QED BY <1>3, <2>2, <2>3, <2>4, <2>5, StartMoveStockInv
<1> QED BY <1>1, <1>2, <1>3 DEF TradeFood

LEMMA TransportStockInv ==
  ASSUME ~SelfMoves, TypeInv, StockInv, Transport
  PROVE  StockInv'
<1>1. PICK o \in Origins, bar \in RawCodes, from \in Ids, dest \in Ids, carrier \in Ids,
           sscc \in SSCCs \cup {Malformed}, amount \in Amounts :
        TransportFood(o, bar, from, dest, carrier, sscc, amount)
  BY DEF Transport
<1> DEFINE errors == <<MetadataError(o), GlnError(dest), BarCodeError(bar), GlnError(carrier),
                       GlnError(from), SsccError(sscc), AmountError(amount, bar), ShelfLifeError(bar)>>
           event  == [kind |-> "Transport", origin |-> GlnOf(from), destination |-> GlnOf(dest),
                      carrier |-> GlnOf(carrier), sscc |-> sscc, time |-> Stamp(now)]
           src    == Holding(bar, AccountGLN[o], GlnOf(from))
           dst    == Holding(bar, AccountGLN[o], GlnOf(dest))
<1>2. CASE Reject(errors)
  BY <1>1, <1>2, RejectStockInv DEF TransportFood, Ready
<1>3. CASE Passes(errors) /\ GlnOf(from) # GlnOf(dest) /\ StartMove("transport", src, dst, amount, event)
  <2>1. /\ MetadataError(o) = Ok /\ GlnError(from) = Ok /\ GlnError(dest) = Ok
        /\ BarCodeError(bar) = Ok /\ AmountError(amount, bar) = Ok
    BY <1>3 DEF Passes
  <2>2. AccountGLN[o] \in GLNs /\ GlnOf(from) \in GLNs /\ GlnOf(dest) \in GLNs /\ bar \in BarCodes
        /\ o \in Accounts
    BY <2>1, CallerHasGln, IdHasGln, BarCodeParsed DEF TypeInv
  <2>3. src \in Identity /\ dst \in Identity /\ src # dst /\ src[1] = dst[1] /\ src[2] = dst[2]
        /\ src[2] = AccountGLN[o]
    BY <1>3, <2>2 DEF Identity, Holding
  <2>4. amount \in Nat \ {0} /\ pc = "idle"
    BY <1>1, <2>1, AmountVerified, InputAssumption DEF TransportFood, Ready
  <2>5. event.kind = "Transport" /\ event.kind # "Trade"
    OBVIOUS
  <2> HIDE DEF src, dst, event
  <2>6. \E a \in Accounts : AccountGLN[a] = src[2]
    BY <2>2, <2>3
  <2>7. StartMove("transport", src, dst, amount, event) /\ "transport" \in {"trade", "transport"}
    BY <1>3
  <2>8. /\ event.kind \in {"Trade", "Transport"}
        /\ event.kind = "Trade" => src[3] = dst[3]
        /\ event.kind = "Transport" => src[2] = dst[2]
    BY <2>3, <2>5
  <2>9. src \in Identity /\ dst \in Identity /\ src # dst /\ src[1] = dst[1]
    BY <2>3
  <2> QED BY <2>4, <2>6, <2>7, <2>8, <2>9, StartMoveStockInv
<1> QED BY <1>1, <1>2, <1>3 DEF TransportFood

LEMMA StoreStockInv ==
  ASSUME TypeInv, StockInv, Store
  PROVE  StockInv'
<1>1. PICK o \in Origins, bar \in RawCodes, warehouse \in Ids, sscc \in SSCCs \cup {Malformed},
           amount \in Amounts : StoreFood(o, bar, warehouse, sscc, amount)
  BY DEF Store
<1> DEFINE errors == <<MetadataError(o), GlnError(warehouse), SsccError(sscc),
                       BarCodeError(bar), AmountError(amount, bar), ShelfLifeError(bar)>>
           id     == Holding(bar, AccountGLN[o], GlnOf(warehouse))
<1>0. pc = "idle"
  BY <1>1 DEF StoreFood, Ready
<1>2. CASE Reject(errors) \/ NonceOverrun
  BY <1>0, <1>2, RejectStockInv
<1>3. CASE /\ Passes(errors) /\ pc' = "store"
           /\ call'.src = id /\ call'.dst = id /\ call'.srcNonce = 0
           /\ call'.left = amount /\ call'.amount = amount /\ call'.event.kind = "Store"
           /\ UNCHANGED <<storage, admin, committed>>
  <2>1. /\ MetadataError(o) = Ok /\ GlnError(warehouse) = Ok /\ BarCodeError(bar) = Ok
        /\ AmountError(amount, bar) = Ok
    BY <1>3 DEF Passes
  <2>2. AccountGLN[o] \in GLNs /\ GlnOf(warehouse) \in GLNs /\ bar \in BarCodes
    BY <2>1, CallerHasGln, IdHasGln, BarCodeParsed DEF TypeInv
  <2>3. id \in Identity
    BY <2>2 DEF Identity, Holding
  <2>4. amount \in Nat \ {0}
    BY <2>1, AmountVerified, InputAssumption
  <2> HIDE DEF id
  <2>5. FoodItem = committed.item /\ FoodMaterials = committed.materials
    BY <1>0 DEF StockInv, LayerInv
  <2>6. call' # NoCall
    BY <1>3, <2>4 DEF NoCall
  <2>7. LayerInv'
    BY <1>3, <2>3, <2>4, <2>6 DEF LayerInv, Kinds
  <2>8. Total(Unvisited') = Total(FoodItem[id])
    <3>1. Counted(FoodItem[id])
      BY <2>3, LotsCounted DEF TypeInv, TypeOK
    <3>2. \A n \in Nonces : Unvisited'[n] = FoodItem[id][n]
      <4>1. \A n \in Nonces : ~(n < 0)
        BY NonceAssumption DEF Nonces
      <4> QED BY <1>3, <4>1 DEF Unvisited, storage
    <3>3. Counted(Unvisited')
      BY <3>1, <3>2 DEF Counted
    <3> QED BY <3>1, <3>2, <3>3, TotalSame
  <2>9. StoringInv'
    BY <1>3, <2>5, <2>8 DEF StoringInv, InHand, OnFile, storage
  <2>10. MoveInv' /\ ProductionInv'
    BY <1>3 DEF MoveInv, ProductionInv
  <2> QED BY <2>7, <2>9, <2>10 DEF StockInv
<1>4. CASE /\ Passes(errors) /\ pc' = "store" /\ UNCHANGED <<storage, admin, committed>>
           /\ call' = [NoCall EXCEPT !.src = id, !.dst = id, !.srcNonce = 0,
                         !.dstNonce = MaxNonce(id), !.left = amount, !.amount = amount,
                         !.event = [kind |-> "Store", warehouse |-> GlnOf(warehouse),
                                    sscc |-> sscc, time |-> Stamp(now)]]
  <2>1. /\ call'.src = id /\ call'.dst = id /\ call'.srcNonce = 0
        /\ call'.left = amount /\ call'.amount = amount /\ call'.event.kind = "Store"
    BY <1>4 DEF NoCall
  <2> QED BY <1>3, <1>4, <2>1
<1> QED BY <1>1, <1>2, <1>4 DEF StoreFood

\* An insertion touches one identity, and no other.
LEMMA InsertUntouched ==
  ASSUME NEW items, NEW id, NEW n, NEW lot, NEW i \in DOMAIN items, i # id
  PROVE  Insert(items, id, n, lot)[i] = items[i] /\ DOMAIN Insert(items, id, n, lot) = DOMAIN items
BY DEF Insert

LEMMA ConsumeUntouched ==
  ASSUME ItemOK(FoodItem, FoodTrace), NEW id, NEW n, NEW i \in Identity, i # id
  PROVE  Consume(id, n)[i] = FoodItem[i] /\ DOMAIN Consume(id, n) = Identity
BY InsertUntouched DEF Consume, Remove, ItemOK

\* An iteration takes from the source what it puts down at the destination.
LEMMA MoveLotStockInv ==
  ASSUME TypeInv, TypeInv', NonceInv, StockInv, pc \in {"trade", "transport"}, MoveLot
  PROVE  StockInv'
<1> DEFINE n     == call.srcNonce - 1
           lot   == FoodItem[call.src][n]
           moved == Smaller(lot.amount, call.left)
<1>1. /\ call.src \in Identity /\ call.dst \in Identity /\ n \in Nonces /\ call.dstNonce \in Nonces
      /\ call.left \in Nat \ {0} /\ lot.held /\ lot.amount \in Nat \ {0}
      /\ call.event.kind \notin {"Produce", "Store"}
      /\ \A i \in Identity : \A m \in Nonces :
           FoodItem'[i][m] =
             IF i = call.dst /\ m = call.dstNonce
             THEN Lot(moved, Link(call.event, lot.hash))
             ELSE IF i = call.src /\ m = n
             THEN IF lot.amount > call.left THEN Lot(lot.amount - call.left, lot.hash) ELSE NoLot
             ELSE FoodItem[i][m]
  BY MoveLotEffect DEF IsLot
<1>2. /\ call'.left = call.left - moved /\ call'.amount = call.amount
      /\ call'.src = call.src /\ call'.dst = call.dst /\ call'.event = call.event
      /\ UNCHANGED <<FoodMaterials, admin, committed>>
      /\ (UNCHANGED <<pc, result>>) \/ (pc' = "return" /\ result' = "Panic")
  BY DEF MoveLot, Return, TypeInv, TypeOK, CallOK, NoCall
<1>3. /\ call # NoCall /\ call.event.kind \in {"Trade", "Transport"} /\ call.amount \in Nat \ {0}
      /\ MoveInv
  BY <1>1 DEF StockInv, LayerInv, Looping, Kinds
<1>4. ItemOK(FoodItem, FoodTrace) /\ ItemOK(FoodItem', FoodTrace')
      /\ ItemOK(committed.item, committed.trace)
  BY DEF TypeInv, TypeOK
<1> HIDE DEF n, lot, moved
<1>5. moved \in Nat \ {0} /\ moved <= lot.amount /\ moved <= call.left /\ call.left - moved \in Nat
  BY <1>1, SmallerFacts DEF moved
<1>6. Total(FoodItem'[call.src]) + moved = Total(FoodItem[call.src])
  <2>1. /\ Counted(FoodItem[call.src]) /\ Counted(FoodItem'[call.src])
        /\ Total(FoodItem[call.src]) \in Nat /\ Total(FoodItem'[call.src]) \in Nat
    BY <1>1, <1>4, LotsCounted
  <2>2. \A m \in Nonces \ {n} : FoodItem'[call.src][m] = FoodItem[call.src][m]
    BY <1>1, <1>3 DEF MoveInv
  <2>3. FoodItem'[call.src][n].amount = lot.amount - moved
    <3>1. FoodItem'[call.src][n] =
            IF lot.amount > call.left THEN Lot(lot.amount - call.left, lot.hash) ELSE NoLot
      BY <1>1, <1>3 DEF MoveInv
    <3>2. CASE lot.amount > call.left
      BY <1>1, <3>1, <3>2, LotFacts DEF moved, Smaller
    <3>3. CASE ~(lot.amount > call.left)
      <4>1. FoodItem'[call.src][n].amount = 0
        BY <3>1, <3>3 DEF NoLot
      <4>2. moved = lot.amount
        BY <1>1, <3>3 DEF moved, Smaller
      <4> QED BY <1>1, <4>1, <4>2
    <3> QED BY <3>2, <3>3
  <2>4. Total(FoodItem'[call.src]) + lot.amount = Total(FoodItem[call.src]) + (lot.amount - moved)
    <3>1. Total(FoodItem'[call.src]) + FoodItem[call.src][n].amount
            = Total(FoodItem[call.src]) + FoodItem'[call.src][n].amount
      BY <1>1, <2>1, <2>2, TotalUpdate
    <3> QED BY <2>3, <3>1 DEF lot
  <2> QED BY <1>1, <1>5, <2>1, <2>4
<1>7. Total(FoodItem'[call.dst]) = Total(FoodItem[call.dst]) + moved
  <2>1. /\ Counted(FoodItem[call.dst]) /\ Counted(FoodItem'[call.dst])
        /\ Total(FoodItem[call.dst]) \in Nat /\ Total(FoodItem'[call.dst]) \in Nat
    BY <1>1, <1>4, LotsCounted
  <2>2. \A m \in Nonces \ {call.dstNonce} : FoodItem'[call.dst][m] = FoodItem[call.dst][m]
    BY <1>1, <1>3 DEF MoveInv
  <2>3. FoodItem'[call.dst][call.dstNonce].amount = moved
    BY <1>1, LotFacts
  <2>4. FoodItem[call.dst][call.dstNonce].amount = 0
    <3>1. Dense(FoodItem, call.dst, call.dstNonce)
      BY <1>1 DEF NonceInv
    <3>2. ~FoodItem[call.dst][call.dstNonce].held
      BY <1>1, <3>1, NonceAssumption DEF Dense, Nonces
    <3> QED BY <1>1, <1>4, <3>2 DEF ItemOK, Absent, IsLot, NoLot
  <2>5. Total(FoodItem'[call.dst]) + FoodItem[call.dst][call.dstNonce].amount
          = Total(FoodItem[call.dst]) + FoodItem'[call.dst][call.dstNonce].amount
    BY <1>1, <2>1, <2>2, TotalUpdate
  <2> QED BY <1>5, <2>1, <2>3, <2>4, <2>5
<1>8. \A i \in Identity \ {call.src, call.dst} : FoodItem'[i] = committed.item[i]
  <2> SUFFICES ASSUME NEW i \in Identity \ {call.src, call.dst} PROVE FoodItem'[i] = FoodItem[i]
    BY <1>3 DEF MoveInv
  <2>1. Consume(call.src, n)[i] = FoodItem[i] /\ DOMAIN Consume(call.src, n) = Identity
    BY <1>4, ConsumeUntouched
  <2>2. FoodItem' = Insert(Consume(call.src, n), call.dst, call.dstNonce, Lot(moved, Link(call.event, lot.hash)))
    BY DEF MoveLot, n, lot, moved
  <2> QED BY <2>1, <2>2, InsertUntouched
<1>9. LayerInv'
  <2>1. call' # NoCall
    BY <1>2, <1>3 DEF NoCall
  <2>2. "Panic" \notin Events
    BY DEF Events
  <2>3. pc' \in {pc, "return"} /\ (pc' = "return" => result' = "Panic") /\ pc' # "idle"
    BY <1>2
  <2> QED BY <1>1, <1>2, <1>3, <2>1, <2>2, <2>3 DEF LayerInv, Kinds
<1>10. MoveInv'
  <2>1. call'.left <= call'.amount
    BY <1>1, <1>2, <1>3, <1>5 DEF MoveInv
  <2>2. InHand(call.src)' + call.amount = OnFile(call.src) + call'.left
    <3>1. InHand(call.src) + call.amount = OnFile(call.src) + call.left
      BY <1>3 DEF MoveInv
    <3>2. InHand(call.src) \in Nat /\ OnFile(call.src) \in Nat /\ Total(FoodItem'[call.src]) \in Nat
      BY <1>1, <1>4, LotsCounted DEF InHand, OnFile
    <3>3. InHand(call.src)' = Total(FoodItem'[call.src])
      BY <1>2 DEF InHand
    <3> QED BY <1>1, <1>2, <1>3, <1>5, <1>6, <3>1, <3>2, <3>3 DEF InHand
  <2>3. InHand(call.dst)' + call'.left = OnFile(call.dst) + call.amount
    <3>1. InHand(call.dst) + call.left = OnFile(call.dst) + call.amount
      BY <1>3 DEF MoveInv
    <3>2. InHand(call.dst) \in Nat /\ OnFile(call.dst) \in Nat /\ Total(FoodItem'[call.dst]) \in Nat
      BY <1>1, <1>4, LotsCounted DEF InHand, OnFile
    <3>3. InHand(call.dst)' = Total(FoodItem'[call.dst])
      BY <1>2 DEF InHand
    <3> QED BY <1>1, <1>2, <1>3, <1>5, <1>7, <3>1, <3>2, <3>3 DEF InHand
  <2> QED BY <1>2, <1>3, <1>8, <2>1, <2>2, <2>3 DEF MoveInv, OnFile, InHand, admin
<1>11. StoringInv' /\ ProductionInv'
  BY <1>1, <1>2 DEF StoringInv, ProductionInv
<1> QED BY <1>9, <1>10, <1>11 DEF StockInv

LEMMA FinishLoopStockInv ==
  ASSUME TypeInv, StockInv, FinishTrade \/ FinishTransport \/ FinishStore
  PROVE  StockInv'
<1>1. /\ pc \in {"trade", "transport", "store"} /\ pc' = "return"
      /\ UNCHANGED <<storage, admin, committed, call>>
      /\ call.left = 0 \/ result' = "InsufficientInventory"
  BY DEF FinishTrade, FinishTransport, FinishStore, FinishLoop, Return
<1>2. call # NoCall /\ call.event.kind # "Produce"
  BY <1>1 DEF StockInv, LayerInv, Looping, TypeInv, TypeOK, CallOK
<1>3. "InsufficientInventory" \notin Events
  BY DEF Events
<1>4. LayerInv'
  BY <1>1, <1>2, <1>3 DEF StockInv, LayerInv, Looping, storage
<1>5. MoveInv'
  BY <1>1 DEF StockInv, MoveInv, InHand, OnFile, storage, admin
<1>6. StoringInv'
  BY <1>1 DEF StockInv, StoringInv, InHand, OnFile, storage
<1>7. ProductionInv'
  BY <1>1, <1>2 DEF ProductionInv
<1> QED BY <1>4, <1>5, <1>6, <1>7 DEF StockInv

\* What is split off a lot that is stored in part is put back at the top; a lot that
\* is stored whole leaves as much less to seek as it leaves less to store.
LEMMA StoreLotStockInv ==
  ASSUME TypeInv, TypeInv', NonceInv, StockInv, StoreLot
  PROVE  StockInv'
<1> DEFINE n      == call.srcNonce
           lot    == FoodItem[call.src][n]
           stored == Smaller(lot.amount, call.left)
<1>1. /\ call.src \in Identity /\ n \in Nonces /\ call.dstNonce \in Nonces /\ n < call.dstNonce
      /\ call.left \in Nat \ {0} /\ lot.held /\ lot.amount \in Nat \ {0}
      /\ call.event.kind = "Store"
      /\ \A i \in Identity : \A m \in Nonces :
           FoodItem'[i][m] =
             IF i = call.src /\ m = n
             THEN Lot(stored, Link(call.event, lot.hash))
             ELSE IF i = call.src /\ m = call.dstNonce /\ lot.amount > call.left
             THEN Lot(lot.amount - call.left, lot.hash)
             ELSE FoodItem[i][m]
  BY StoreLotEffect DEF IsLot
<1>2. /\ pc = "store" /\ UNCHANGED <<FoodMaterials, admin, committed, pc, result>>
      /\ call'.src = call.src /\ call'.dst = call.dst /\ call'.event = call.event
      /\ call'.left = call.left - stored /\ call'.amount = call.amount
      /\ call'.srcNonce = Inc(n) /\ FoodItem' = Relabel(call.src, n, Link(call.event, lot.hash))
  BY DEF StoreLot, TypeInv, TypeOK, CallOK, NoCall
<1>3. Inc(n) = n + 1
  BY <1>1, NonceAssumption DEF Inc, Nonces
<1>4. call # NoCall /\ StoringInv /\ call.src = call.dst /\ call.amount \in Nat \ {0}
  BY <1>1, <1>2 DEF StockInv, LayerInv, StoringInv, Looping
<1>5. ItemOK(FoodItem, FoodTrace) /\ ItemOK(FoodItem', FoodTrace')
      /\ ItemOK(committed.item, committed.trace)
  BY DEF TypeInv, TypeOK
<1> HIDE DEF n, lot, stored
<1>6. stored \in Nat \ {0} /\ stored <= lot.amount /\ stored <= call.left /\ call.left - stored \in Nat
  BY <1>1, SmallerFacts DEF stored
<1>7. \A i \in Identity \ {call.dst} : FoodItem'[i] = committed.item[i]
  <2> SUFFICES ASSUME NEW i \in Identity \ {call.src} PROVE FoodItem'[i] = FoodItem[i]
    BY <1>1, <1>4 DEF StoringInv
  <2> DEFINE first == Insert(FoodItem, call.src, n, Lot(call.left, Link(call.event, lot.hash)))
  <2>1. DOMAIN FoodItem = Identity
    BY <1>5 DEF ItemOK
  <2>2. first[i] = FoodItem[i] /\ DOMAIN first = Identity
    BY <2>1, InsertUntouched
  <2>3. \/ FoodItem' = Insert(first, call.src, call.dstNonce, Lot(lot.amount - call.left, lot.hash))
        \/ FoodItem' = Insert(FoodItem, call.src, n, Lot(lot.amount, Link(call.event, lot.hash)))
    BY <1>2 DEF Relabel, lot
  <2> HIDE DEF first
  <2> QED BY <2>1, <2>2, <2>3, InsertUntouched
<1>8. /\ Counted(FoodItem[call.src]) /\ Counted(FoodItem'[call.src])
      /\ Total(FoodItem[call.src]) \in Nat /\ Total(FoodItem'[call.src]) \in Nat
  BY <1>1, <1>5, LotsCounted
<1>9. Total(FoodItem'[call.src]) = Total(FoodItem[call.src])
  <2> DEFINE part == [m \in Nonces |-> IF m = n THEN FoodItem'[call.src][n] ELSE FoodItem[call.src][m]]
  <2>1. FoodItem'[call.src][n].amount = stored
    BY <1>1, LotFacts
  <2>2. Counted(part) /\ part[n].amount = stored
    BY <1>1, <1>6, <1>8, <2>1 DEF Counted
  <2>3. \A m \in Nonces \ {n} : part[m].amount = FoodItem[call.src][m].amount
    OBVIOUS
  <2>4. FoodItem[call.src][call.dstNonce].amount = 0 /\ call.dstNonce # n
    <3>1. Dense(FoodItem, call.src, call.dstNonce)
      BY <1>1, <1>2 DEF NonceInv
    <3>2. ~FoodItem[call.src][call.dstNonce].held /\ call.dstNonce # n
      BY <1>1, <3>1, NonceAssumption DEF Dense, Nonces
    <3> QED BY <1>1, <1>5, <3>2 DEF ItemOK, Absent, IsLot, NoLot
  <2>5. FoodItem'[call.src][call.dstNonce].amount = lot.amount - stored
    <3>1. CASE lot.amount > call.left
      <4>1. FoodItem'[call.src][call.dstNonce] = Lot(lot.amount - call.left, lot.hash)
        BY <1>1, <2>4, <3>1
      <4>2. stored = call.left
        BY <1>1, <3>1 DEF stored, Smaller
      <4> QED BY <4>1, <4>2, LotFacts
    <3>2. CASE ~(lot.amount > call.left)
      <4>1. FoodItem'[call.src][call.dstNonce].amount = 0
        BY <1>1, <2>4, <3>2
      <4>2. stored = lot.amount
        BY <1>1, <3>2 DEF stored, Smaller
      <4> QED BY <1>1, <4>1, <4>2
    <3> QED BY <3>1, <3>2
  <2>6. \A m \in Nonces \ {call.dstNonce} : FoodItem'[call.src][m].amount = part[m].amount
    <3>1. \A m \in Nonces \ {call.dstNonce} : m # n => FoodItem'[call.src][m] = FoodItem[call.src][m]
      BY <1>1
    <3>2. \A m \in Nonces : part[m] = IF m = n THEN FoodItem'[call.src][n] ELSE FoodItem[call.src][m]
      OBVIOUS
    <3> HIDE DEF part
    <3> QED BY <3>1, <3>2
  <2>7. part[call.dstNonce].amount = 0
    BY <1>1, <2>4
  <2> HIDE DEF part
  <2>8. Total(part) + lot.amount = Total(FoodItem[call.src]) + stored
    <3>1. Total(part) + FoodItem[call.src][n].amount = Total(FoodItem[call.src]) + part[n].amount
      BY <1>1, <1>8, <2>2, <2>3, TotalUpdate
    <3> QED BY <2>2, <3>1 DEF lot
  <2>9. Total(FoodItem'[call.src]) = Total(part) + (lot.amount - stored)
    <3>1. Total(FoodItem'[call.src]) + part[call.dstNonce].amount
            = Total(part) + FoodItem'[call.src][call.dstNonce].amount
      BY <1>1, <1>8, <2>2, <2>6, TotalUpdate
    <3>2. Total(part) \in Nat
      BY <2>2, TotalType
    <3> QED BY <1>8, <2>5, <2>7, <3>1, <3>2
  <2>10. Total(part) \in Nat
    BY <2>2, TotalType
  <2> QED BY <1>1, <1>6, <1>8, <2>8, <2>9, <2>10
<1>10. call'.left > 0 => Total(Unvisited') + call.amount = OnFile(call.dst) + call'.left
  <2> SUFFICES ASSUME call'.left > 0
               PROVE  Total(Unvisited') + call.amount = OnFile(call.dst) + call'.left
    OBVIOUS
  <2>1. ~(lot.amount > call.left) /\ stored = lot.amount
    BY <1>1, <1>2 DEF stored, Smaller
  <2>2. \A m \in Nonces : Unvisited'[m].amount = IF m = n THEN 0 ELSE Unvisited[m].amount
    <3> SUFFICES ASSUME NEW m \in Nonces
                 PROVE  Unvisited'[m].amount = IF m = n THEN 0 ELSE Unvisited[m].amount
      OBVIOUS
    <3>1. m < n + 1 <=> m < n \/ m = n
      BY <1>1, NonceAssumption DEF Nonces
    <3>2. Unvisited'[m] = IF m < n \/ m = n THEN NoLot ELSE FoodItem'[call.src][m]
      BY <1>2, <1>3, <3>1 DEF Unvisited
    <3>3. Unvisited[m] = IF m < n THEN NoLot ELSE FoodItem[call.src][m]
      BY DEF Unvisited, n
    <3>4. m # n => FoodItem'[call.src][m] = FoodItem[call.src][m]
      BY <1>1, <2>1
    <3>5. NoLot.amount = 0
      BY DEF NoLot
    <3> QED BY <3>2, <3>3, <3>4, <3>5
  <2>3. Counted(Unvisited) /\ Unvisited[n] = lot
    <3>1. \A m \in Nonces : Unvisited[m] = IF m < n THEN NoLot ELSE FoodItem[call.src][m]
      BY DEF Unvisited, n
    <3>2. ~(n < n)
      BY <1>1, NonceAssumption DEF Nonces
    <3> QED BY <1>1, <1>8, <3>1, <3>2 DEF Counted, NoLot, lot
  <2>4. Counted(Unvisited')
    BY <2>2, <2>3 DEF Counted
  <2>5. Total(Unvisited') + lot.amount = Total(Unvisited) + 0
    <3>1. Total(Unvisited') + Unvisited[n].amount = Total(Unvisited) + Unvisited'[n].amount
      BY <1>1, <2>2, <2>3, <2>4, TotalUpdate
    <3> QED BY <1>1, <2>2, <2>3, <3>1
  <2>6. Total(Unvisited) + call.amount = OnFile(call.dst) + call.left
    BY <1>1, <1>2, <1>4 DEF StoringInv
  <2>7. Total(Unvisited) \in Nat /\ Total(Unvisited') \in Nat /\ OnFile(call.dst) \in Nat
    BY <1>1, <1>4, <1>5, <2>3, <2>4, TotalType, LotsCounted DEF OnFile
  <2> QED BY <1>1, <1>2, <1>4, <2>1, <2>5, <2>6, <2>7
<1>11. LayerInv'
  <2>1. call' # NoCall
    BY <1>2, <1>4 DEF NoCall
  <2> QED BY <1>1, <1>2, <1>4, <2>1 DEF StockInv, LayerInv
<1>12. StoringInv'
  BY <1>1, <1>2, <1>4, <1>7, <1>9, <1>10 DEF StoringInv, InHand, OnFile
<1>13. MoveInv' /\ ProductionInv'
  BY <1>1, <1>2 DEF MoveInv, ProductionInv
<1> QED BY <1>11, <1>12, <1>13 DEF StockInv

LEMMA ProduceStockInv ==
  ASSUME TypeInv, StockInv, Produce
  PROVE  StockInv'
<1>1. PICK o \in Origins, bar \in RawCodes, manufacturer \in Ids, amount \in Amounts,
           shelfLife \in ShelfLives, materials \in MaterialLists :
        ProduceFood(o, bar, manufacturer, amount, shelfLife, materials)
  BY DEF Produce
<1> DEFINE errors == <<MetadataError(o), GlnError(manufacturer), LicenseError(manufacturer),
                       BarCodeError(bar), AmountError(amount, bar), DuplicateError(bar)>>
           dst    == Holding(bar, AccountGLN[o], GlnOf(manufacturer))
<1>0. pc = "idle"
  BY <1>1 DEF ProduceFood, Ready
<1>2. CASE Reject(errors)
  BY <1>0, <1>2, RejectStockInv
<1>3. CASE /\ Passes(errors)
           /\ FoodMaterials' = Put(FoodMaterials, bar, <<>>)
           /\ pc' = "produce"
           /\ call' = [NoCall EXCEPT !.dst = dst, !.amount = amount, !.todo = materials,
                         !.event = [kind |-> "Produce", manufacturer |-> GlnOf(manufacturer),
                                    license |-> ManufacturerLicense[GlnOf(manufacturer)],
                                    shelfLife |-> shelfLife, time |-> Stamp(now)]]
           /\ UNCHANGED <<FoodItem, FoodTrace, admin, now, committed, result>>
  <2>1. /\ MetadataError(o) = Ok /\ GlnError(manufacturer) = Ok /\ BarCodeError(bar) = Ok
        /\ AmountError(amount, bar) = Ok /\ DuplicateError(bar) = Ok
    BY <1>3 DEF Passes
  <2>2. /\ AccountGLN[o] \in GLNs /\ GlnOf(manufacturer) \in GLNs /\ bar \in BarCodes
        /\ o \in Accounts
    BY <2>1, CallerHasGln, IdHasGln, BarCodeParsed DEF TypeInv
  <2>3. dst \in Identity /\ dst[1] = bar /\ dst[2] = AccountGLN[o]
    BY <2>2 DEF Identity, Holding
  <2>4. amount \in Nat \ {0} /\ (bar \in SerialCodes => amount = 1)
    BY <2>1, AmountVerified, InputAssumption
  <2>5. bar \notin DOMAIN FoodMaterials
    BY <2>1 DEF DuplicateError, Ok
  <2>6. /\ call'.dst = dst /\ call'.amount = amount /\ call'.event.kind = "Produce" /\ call'.left = 0
    BY <1>3 DEF NoCall
  <2> HIDE DEF dst
  <2>7. FoodItem = committed.item /\ FoodMaterials = committed.materials
    BY <1>0 DEF StockInv, LayerInv
  <2>8. DOMAIN FoodMaterials' = DOMAIN committed.materials \cup {bar}
    BY <1>3, <2>7, PutFacts
  <2>9. call' # NoCall
    BY <2>4, <2>6 DEF NoCall
  <2>10. LayerInv'
    BY <1>3, <2>3, <2>4, <2>6, <2>9 DEF LayerInv, Kinds
  <2>11. ProductionInv'
    <3>1. \A id \in Identity : InHand(id)' <= OnFile(id)'
      <4> SUFFICES ASSUME NEW id \in Identity PROVE InHand(id)' <= OnFile(id)'
        OBVIOUS
      <4>1. OnFile(id)' = OnFile(id) /\ InHand(id)' = OnFile(id)
        BY <1>3, <2>7 DEF InHand, OnFile
      <4>2. OnFile(id) \in Nat
        BY LotsCounted DEF OnFile, TypeInv, TypeOK
      <4> QED BY <4>1, <4>2
    <3>2. ~(0 > 0)
      OBVIOUS
    <3> QED BY <1>3, <2>2, <2>3, <2>4, <2>5, <2>6, <2>7, <2>8, <3>1, <3>2 DEF ProductionInv, admin
  <2>12. MoveInv' /\ StoringInv'
    BY <2>6 DEF MoveInv, StoringInv
  <2> QED BY <2>10, <2>11, <2>12 DEF StockInv
<1> QED BY <1>1, <1>2, <1>3 DEF ProduceFood

LEMMA NextMaterialStockInv ==
  ASSUME TypeInv, StockInv, NextMaterial
  PROVE  StockInv'
<1> DEFINE bar    == Head(call.todo)[1]
           id     == Holding(bar, call.dst[2], call.dst[3])
           errors == <<BarCodeError(bar), ShelfLifeError(bar)>>
<1>0. pc = "produce"
  BY DEF NextMaterial
<1>1. CASE Reject(errors)
  <2>1. \A i \in DOMAIN errors : errors[i] \notin Events
    <3>1. BarCodeError(bar) \notin Events
      BY DEF BarCodeError, Ok, Events
    <3>2. ShelfLifeError(bar) \notin Events
      BY DEF ShelfLifeError, Ok, Events
    <3> QED BY <3>1, <3>2
  <2> QED BY <1>1, <2>1, QuietStockInv DEF Reject, Return, storage, admin
<1>2. CASE NonceOverrun
  <2>1. "Panic" \notin Events
    BY DEF Events
  <2> QED BY <1>2, <2>1, QuietStockInv DEF NonceOverrun, Return, storage, admin
<1>3. CASE /\ call' = [call EXCEPT !.src = id, !.srcNonce = MaxNonce(id),
                         !.left = Head(call.todo)[2], !.todo = Tail(@)]
           /\ UNCHANGED <<storage, admin, now, committed, pc, result>>
  <2>1. /\ call'.src = id /\ call'.dst = call.dst /\ call'.event = call.event
        /\ call'.amount = call.amount
    BY <1>3 DEF TypeInv, TypeOK, CallOK, NoCall
  <2>2. call # NoCall /\ call.event.kind = "Produce" /\ call.amount \in Nat \ {0}
    BY <1>0 DEF StockInv, LayerInv, Looping, TypeInv, TypeOK, CallOK
  <2>3. id[2] = call.dst[2] /\ id[3] = call.dst[3]
    BY DEF Holding
  <2> HIDE DEF id
  <2>4. call' # NoCall
    BY <2>1, <2>2 DEF NoCall
  <2>5. LayerInv'
    BY <1>0, <1>3, <2>1, <2>2, <2>4 DEF StockInv, LayerInv
  <2>6. ProductionInv'
    BY <1>0, <1>3, <2>1, <2>2, <2>3 DEF StockInv, ProductionInv, InHand, OnFile, OnTheSpot, storage, admin
  <2>7. MoveInv' /\ StoringInv'
    BY <2>1, <2>2 DEF MoveInv, StoringInv
  <2> QED BY <2>5, <2>6, <2>7 DEF StockInv
<1> QED BY <1>1, <1>2, <1>3 DEF NextMaterial

LEMMA ConsumeStockInv ==
  ASSUME TypeInv, TypeInv', StockInv, ConsumeLot
  PROVE  StockInv'
<1> DEFINE n   == call.srcNonce - 1
           lot == FoodItem[call.src][n]
<1>1. /\ pc = "produce" /\ call.left > 0 /\ call.srcNonce > 0
      /\ FoodItem' = Consume(call.src, n)
      /\ FoodMaterials' = [FoodMaterials EXCEPT ![call.dst[1]] = Append(@, Material(call.src[1], lot.hash))]
      /\ UNCHANGED <<admin, committed, pc, result>>
      /\ call'.src = call.src /\ call'.dst = call.dst /\ call'.event = call.event
      /\ call'.amount = call.amount
  BY DEF ConsumeLot, TypeInv, TypeOK, CallOK, NoCall
<1>2. /\ call # NoCall /\ call.event.kind = "Produce" /\ call.amount \in Nat \ {0}
      /\ call.src \in Identity /\ call.left \in Nat \ {0} /\ n \in Nonces
  BY <1>1, NonceAssumption DEF StockInv, LayerInv, Looping, TypeInv, TypeOK, CallOK, Nonces
<1>3. ProductionInv /\ LayerInv
  BY DEF StockInv
<1>4. ItemOK(FoodItem, FoodTrace) /\ ItemOK(FoodItem', FoodTrace')
      /\ ItemOK(committed.item, committed.trace)
  BY DEF TypeInv, TypeOK
<1> HIDE DEF n, lot
<1>5. Total(FoodItem'[call.src]) <= Total(FoodItem[call.src])
  <2>1. Counted(FoodItem[call.src]) /\ Counted(FoodItem'[call.src])
    BY <1>2, <1>4, LotsCounted
  <2>2. ASSUME NEW m \in Nonces PROVE FoodItem'[call.src][m].amount <= FoodItem[call.src][m].amount
    <3>1. FoodItem'[call.src][m] =
            IF m = n
            THEN IF FoodItem[call.src][n].amount > call.left
                 THEN Lot(FoodItem[call.src][n].amount - call.left, FoodItem[call.src][n].hash)
                 ELSE NoLot
            ELSE FoodItem[call.src][m]
      BY <1>1, <1>2, ConsumeEffect
    <3>2. FoodItem[call.src][m].amount \in Nat
      BY <2>1 DEF Counted
    <3>3. NoLot.amount = 0
      BY DEF NoLot
    <3>4. CASE m # n
      BY <3>1, <3>2, <3>4
    <3>5. CASE m = n /\ FoodItem[call.src][n].amount > call.left
      <4>1. FoodItem'[call.src][m].amount = FoodItem[call.src][m].amount - call.left
        BY <3>1, <3>5, LotFacts
      <4> QED BY <1>2, <3>2, <4>1
    <3>6. CASE m = n /\ ~(FoodItem[call.src][n].amount > call.left)
      <4>1. FoodItem'[call.src][m].amount = 0
        BY <3>1, <3>3, <3>6
      <4> QED BY <3>2, <4>1
    <3> QED BY <3>4, <3>5, <3>6
  <2> QED BY <2>1, <2>2, TotalMonotone
<1>6. \A id \in Identity \ {call.src} : FoodItem'[id] = FoodItem[id]
  BY <1>1, <1>4, ConsumeUntouched
<1>7. OnTheSpot(call.src)
  BY <1>1, <1>2, <1>3 DEF ProductionInv
<1>8. \A id \in Identity \ {call.dst} : IF OnTheSpot(id) THEN InHand(id)' <= OnFile(id)
                                         ELSE FoodItem'[id] = committed.item[id]
  <2> SUFFICES ASSUME NEW id \in Identity \ {call.dst}
               PROVE  IF OnTheSpot(id) THEN InHand(id)' <= OnFile(id)
                      ELSE FoodItem'[id] = committed.item[id]
    OBVIOUS
  <2>1. IF OnTheSpot(id) THEN InHand(id) <= OnFile(id) ELSE FoodItem[id] = committed.item[id]
    BY <1>2, <1>3 DEF ProductionInv
  <2>2. CASE id = call.src
    <3>1. /\ Total(FoodItem'[call.src]) \in Nat /\ Total(FoodItem[call.src]) \in Nat
          /\ Total(committed.item[call.src]) \in Nat
      BY <1>2, <1>4, LotsCounted
    <3>2. InHand(id)' = Total(FoodItem'[call.src]) /\ InHand(id) = Total(FoodItem[call.src])
          /\ OnFile(id) = Total(committed.item[call.src])
      BY <2>2 DEF InHand, OnFile
    <3> QED BY <1>5, <1>7, <2>1, <2>2, <3>1, <3>2
  <2>3. CASE id # call.src
    <3>1. FoodItem'[id] = FoodItem[id] /\ InHand(id)' = InHand(id)
      BY <1>6, <2>3 DEF InHand
    <3> QED BY <2>1, <3>1
  <2> QED BY <2>2, <2>3
<1>9. call' # NoCall
  BY <1>1, <1>2 DEF NoCall
<1>10. LayerInv'
  BY <1>1, <1>2, <1>3, <1>9 DEF LayerInv
<1>11. ProductionInv'
  <2>1. DOMAIN FoodMaterials' = DOMAIN FoodMaterials
    BY <1>1
  <2>2. \A id : OnTheSpot(id)' <=> OnTheSpot(id)
    BY <1>1 DEF OnTheSpot
  <2>3. \A id : OnFile(id)' = OnFile(id)
    BY <1>1 DEF OnFile
  <2> QED BY <1>1, <1>2, <1>3, <1>7, <1>8, <2>1, <2>2, <2>3 DEF ProductionInv, admin
<1>12. MoveInv' /\ StoringInv'
  BY <1>1, <1>2 DEF MoveInv, StoringInv
<1> QED BY <1>10, <1>11, <1>12 DEF StockInv

LEMMA FinishProduceStockInv ==
  ASSUME TypeInv, TypeInv', SerialInv, StockInv, FinishProduce
  PROVE  StockInv'
<1> DEFINE new == Lot(call.amount, RootHash(call.dst[1]))
<1>1. /\ pc = "produce" /\ pc' = "return" /\ UNCHANGED <<FoodMaterials, admin, committed, call>>
      /\ \/ UNCHANGED FoodItem /\ result' = "InsufficientInventory"
         \/ FoodItem' = Insert(FoodItem, call.dst, 0, new) /\ call.left = 0
  BY DEF FinishProduce, Return
<1>2. /\ call # NoCall /\ call.event.kind = "Produce" /\ call.amount \in Nat \ {0}
      /\ call.dst \in Identity /\ 0 \in Nonces /\ LayerInv /\ ProductionInv
  BY <1>1, NonceAssumption DEF StockInv, LayerInv, Looping, TypeInv, TypeOK, CallOK, Nonces
<1>3. CASE UNCHANGED FoodItem /\ result' = "InsufficientInventory"
  <2>1. "InsufficientInventory" \notin Events
    BY DEF Events
  <2> QED BY <1>1, <1>3, <2>1, QuietStockInv DEF admin
<1>4. CASE FoodItem' = Insert(FoodItem, call.dst, 0, new) /\ call.left = 0
  <2>1. ItemOK(FoodItem, FoodTrace) /\ ItemOK(FoodItem', FoodTrace')
    BY DEF TypeInv, TypeOK
  <2>2. \A id \in Identity \ {call.dst} : FoodItem'[id] = FoodItem[id]
    BY <1>4, <2>1, InsertUntouched DEF ItemOK
  <2>3. Total(FoodItem'[call.dst]) = call.amount
    <3>1. Counted(FoodItem'[call.dst])
      BY <1>2, <2>1, LotsCounted
    <3>2. \A m \in Nonces : FoodItem'[call.dst][m] = IF m = 0 THEN new ELSE FoodItem[call.dst][m]
      BY <1>2, <1>4, <2>1, InsertFacts
    <3>3. \A m \in Nonces : FoodItem[call.dst][m].amount = 0
      <4>1. \A m \in Nonces : ~FoodItem[call.dst][m].held
        BY <1>1, <1>2 DEF SerialInv
      <4> QED BY <1>2, <2>1, <4>1 DEF ItemOK, Absent, IsLot, NoLot
    <3>4. FoodItem'[call.dst][0].amount = call.amount
      BY <1>2, <3>2, LotFacts
    <3> HIDE DEF new
    <3> QED BY <1>2, <3>1, <3>2, <3>3, <3>4, TotalSingle
  <2>4. LayerInv'
    BY <1>1, <1>2, <1>4 DEF LayerInv
  <2>5. ProductionInv'
    <3>1. \A id \in Identity \ {call.dst} : InHand(id)' = InHand(id) /\ OnFile(id)' = OnFile(id)
      BY <1>1, <2>2 DEF InHand, OnFile
    <3>2. InHand(call.dst)' = call.amount
      BY <1>1, <2>3 DEF InHand
    <3>3. \A id : OnTheSpot(id)' <=> OnTheSpot(id)
      BY <1>1 DEF OnTheSpot
    <3> QED BY <1>1, <1>2, <2>2, <3>1, <3>2, <3>3 DEF ProductionInv, admin, InHand
  <2>6. MoveInv' /\ StoringInv'
    BY <1>1, <1>2 DEF MoveInv, StoringInv
  <2> QED BY <2>4, <2>5, <2>6 DEF StockInv
<1> QED BY <1>1, <1>3, <1>4

LEMMA SettleStockInv == ASSUME Commit \/ Rollback PROVE StockInv'
BY DEF Commit, Rollback, Settle, Snapshot, storage, StockInv, LayerInv, MoveInv, StoringInv,
       ProductionInv, Looping

LEMMA NextStockInv ==
  ASSUME ~SelfMoves, TypeInv, SerialInv, NonceInv, StockInv, [Next]_vars
  PROVE  StockInv'
<1>0. TypeInv'
  BY NextTypeInv
<1>1. CASE Produce
  BY <1>1, ProduceStockInv
<1>2. CASE Trade
  BY <1>2, TradeStockInv
<1>3. CASE Transport
  BY <1>3, TransportStockInv
<1>4. CASE Store
  BY <1>4, StoreStockInv
<1>5. CASE SetGln \/ SetLicense
  <2>1. pc = "idle" /\ pc' = "return" /\ UNCHANGED <<storage, committed, call>>
    BY <1>5 DEF SetGln, SetLicense, SetAccountGln, SetManufacturerLicense, Reject, Return, Ready
  <2>2. call = NoCall
    BY <2>1 DEF StockInv, LayerInv
  <2> QED BY <2>1, <2>2, QuietStockInv DEF storage
<1>6. CASE NextMaterial
  BY <1>6, NextMaterialStockInv
<1>7. CASE ConsumeLot
  BY <1>0, <1>7, ConsumeStockInv
<1>8. CASE FinishProduce
  BY <1>0, <1>8, FinishProduceStockInv
<1>9. CASE TradeLot \/ TransportLot
  BY <1>0, <1>9, MoveLotStockInv DEF TradeLot, TransportLot
<1>10. CASE StoreLot
  BY <1>0, <1>10, StoreLotStockInv
<1>11. CASE FinishTrade \/ FinishTransport \/ FinishStore
  BY <1>11, FinishLoopStockInv
<1>12. CASE Tick \/ SkipStoredLot \/ Spin \/ UNCHANGED vars
  BY <1>12, QuietStockInv DEF Tick, SkipStoredLot, Spin, vars, storage, admin
<1>13. CASE Commit \/ Rollback
  BY <1>13, SettleStockInv
<1> QED
  BY <1>1, <1>2, <1>3, <1>4, <1>5, <1>6, <1>7, <1>8, <1>9, <1>10, <1>11, <1>12, <1>13
  DEF Next, Dispatch, Proceed, ProduceStep, TradeStep, TransportStep, StoreStep

LEMMA InitInsufficient == Init => TrulyInsufficient
BY DEF Init, Empty, TrulyInsufficient

\* A loop gives up when no lot is left to it, and every lot was one it could reach.
LEMMA NothingLeft ==
  ASSUME TypeInv, NEW id \in Identity, Dense(FoodItem, id, 0)
  PROVE  Total(FoodItem[id]) = 0
<1>1. \A m \in Nonces : ~FoodItem[id][m].held
  BY NonceAssumption DEF Dense, Nonces
<1>2. \A m \in Nonces : FoodItem[id][m].amount = 0
  BY <1>1 DEF TypeInv, TypeOK, ItemOK, Absent, IsLot, NoLot
<1> QED BY <1>2, TotalZero

LEMMA FinishInsufficient ==
  ASSUME TypeInv, NonceInv, StockInv,
         FinishTrade \/ FinishTransport \/ FinishStore \/ FinishProduce
  PROVE  TrulyInsufficient'
<1> SUFFICES ASSUME result' = "InsufficientInventory" PROVE TrulyInsufficient'
  BY DEF TrulyInsufficient
<1>1. CASE FinishTrade \/ FinishTransport
  <2>1. /\ pc \in {"trade", "transport"} /\ call.left > 0 /\ call.srcNonce = 0
        /\ UNCHANGED <<committed, call>>
    BY <1>1 DEF FinishTrade, FinishTransport, FinishLoop, Return
  <2>2. /\ call.src \in Identity /\ call.left \in Nat /\ call.amount \in Nat
        /\ call.event.kind \in {"Trade", "Transport"} /\ call # NoCall
    BY <2>1 DEF TypeInv, TypeOK, CallOK, Looping, StockInv, LayerInv, Kinds
  <2>3. Total(FoodItem[call.src]) = 0
    BY <2>1, <2>2, NothingLeft DEF NonceInv
  <2>4. InHand(call.src) + call.amount = OnFile(call.src) + call.left
    BY <2>2 DEF StockInv, MoveInv
  <2>5. OnFile(call.src) \in Nat
    BY <2>2, LotsCounted DEF OnFile, TypeInv, TypeOK
  <2>6. OnFile(call.src) < call.amount
    BY <2>1, <2>2, <2>3, <2>4, <2>5 DEF InHand
  <2> QED BY <2>1, <2>2, <2>6 DEF TrulyInsufficient, OnFile
<1>2. CASE FinishStore
  <2>1. pc = "store" /\ call.left > 0 /\ call.srcNonce = call.dstNonce /\ UNCHANGED <<committed, call>>
    BY <1>2 DEF FinishStore, Return
  <2>2. /\ call.src \in Identity /\ call.left \in Nat /\ call.amount \in Nat
        /\ call.event.kind = "Store" /\ call # NoCall /\ call.src = call.dst
        /\ call.srcNonce \in Nonces
    BY <2>1 DEF TypeInv, TypeOK, CallOK, Looping, StockInv, LayerInv, StoringInv
  <2>3. Total(Unvisited) = 0
    <3>1. Dense(FoodItem, call.src, call.srcNonce)
      BY <2>1 DEF NonceInv
    <3>2. \A m \in Nonces : ~(m < call.srcNonce) => FoodItem[call.src][m].amount = 0
      BY <2>2, <3>1 DEF Dense, TypeInv, TypeOK, ItemOK, Absent, IsLot, NoLot
    <3>3. \A m \in Nonces : Unvisited[m].amount = 0
      BY <3>2 DEF Unvisited, NoLot
    <3> QED BY <3>3, TotalZero
  <2>4. Total(Unvisited) + call.amount = OnFile(call.dst) + call.left
    BY <2>1, <2>2 DEF StockInv, StoringInv
  <2>5. OnFile(call.dst) \in Nat
    BY <2>2, LotsCounted DEF OnFile, TypeInv, TypeOK
  <2>6. OnFile(call.src) < call.amount
    BY <2>1, <2>2, <2>3, <2>4, <2>5
  <2> QED BY <2>1, <2>2, <2>6 DEF TrulyInsufficient, OnFile
<1>3. CASE FinishProduce
  <2>1. /\ pc = "produce" /\ call.left > 0 /\ call.srcNonce = 0
        /\ UNCHANGED <<FoodItem, committed, call>>
    BY <1>3 DEF FinishProduce, Return
  <2>2. call.src \in Identity /\ call.event.kind = "Produce"
    BY <2>1 DEF TypeInv, TypeOK, CallOK, Looping
  <2>3. Total(FoodItem[call.src]) = 0
    BY <2>1, <2>2, NothingLeft DEF NonceInv
  <2> QED BY <2>1, <2>2, <2>3 DEF TrulyInsufficient
<1> QED BY <1>1, <1>2, <1>3

LEMMA NextInsufficient ==
  ASSUME TypeInv, NonceInv, StockInv, TrulyInsufficient, [Next]_vars
  PROVE  TrulyInsufficient'
<1>1. CASE pc' # "return" \/ call' = NoCall
  BY <1>1 DEF TrulyInsufficient
<1>2. CASE Dispatch
  <2>1. pc = "idle" /\ (pc' # "return" \/ UNCHANGED call)
    <3>1. ASSUME NEW where \in {"trade", "transport"}, NEW src, NEW dst, NEW amount, NEW event,
                 StartMove(where, src, dst, amount, event)
          PROVE  pc' # "return" \/ UNCHANGED call
      BY <3>1 DEF StartMove, NonceOverrun
    <3>2. ASSUME NEW errors, Reject(errors) PROVE UNCHANGED call
      BY <3>2 DEF Reject
    <3>3. CASE Trade
      BY <3>1, <3>2, <3>3 DEF Trade, TradeFood, Ready
    <3>4. CASE Transport
      BY <3>1, <3>2, <3>4 DEF Transport, TransportFood, Ready
    <3>5. CASE Store
      BY <3>2, <3>5 DEF Store, StoreFood, NonceOverrun, Ready
    <3>6. CASE Produce
      BY <3>2, <3>6 DEF Produce, ProduceFood, Ready
    <3>7. CASE SetGln \/ SetLicense
      BY <3>2, <3>7 DEF SetGln, SetLicense, SetAccountGln, SetManufacturerLicense, Ready
    <3> QED BY <1>2, <3>3, <3>4, <3>5, <3>6, <3>7 DEF Dispatch
  <2> QED BY <1>1, <2>1 DEF StockInv, LayerInv
<1>3. CASE NextMaterial
  <2>1. /\ pc = "produce" /\ call.left = 0
        /\ pc' # "return" \/ UNCHANGED call
    BY <1>3 DEF NextMaterial, Reject, NonceOverrun, Return
  <2>2. call.event.kind = "Produce"
    BY <2>1 DEF TypeInv, TypeOK, CallOK, Looping
  <2>3. ~(0 > 0)
    OBVIOUS
  <2> QED BY <1>1, <2>1, <2>2, <2>3 DEF TrulyInsufficient
<1>4. CASE FinishTrade \/ FinishTransport \/ FinishStore \/ FinishProduce
  BY <1>4, FinishInsufficient
<1>5. CASE ConsumeLot \/ TradeLot \/ TransportLot \/ StoreLot
  <2>1. pc' # "return" \/ result' # "InsufficientInventory"
    BY <1>5 DEF ConsumeLot, TradeLot, TransportLot, MoveLot, StoreLot, Return
  <2> QED BY <2>1 DEF TrulyInsufficient
<1>6. CASE Commit \/ Rollback
  BY <1>1, <1>6 DEF Commit, Rollback, Settle
<1>7. CASE Tick \/ SkipStoredLot \/ Spin \/ UNCHANGED vars
  BY <1>7 DEF Tick, SkipStoredLot, Spin, vars, storage, TrulyInsufficient
<1> QED
  BY <1>2, <1>3, <1>4, <1>5, <1>6, <1>7
  DEF Next, Proceed, ProduceStep, TradeStep, TransportStep, StoreStep

LEMMA SpecStockInv ==
  ASSUME OverflowChecks, ~SelfMoves
  PROVE  Spec => [](TypeInv /\ SerialInv /\ NonceInv /\ StockInv)
<1>1. TypeInv /\ SerialInv /\ NonceInv /\ StockInv /\ [Next]_vars => NonceInv' /\ StockInv'
  BY NextNonceInv, NextStockInv
<1> QED BY <1>1, InitTypeInv, NextTypeInv, InitSerialInv, NextSerialInv, InitNonceInv, InitStockInv, PTL
        DEF Spec

\* In every state of its loop, what trade_food (lib.rs:181) or transport_food (298) has
\* taken from the lots of one identity is what it has added to those of the other:
\* no food is lost or made on the way.
THEOREM LoopsKeepAccounts ==
  ASSUME OverflowChecks, ~SelfMoves
  PROVE  Spec => []LoopAccounts
<1>1. TypeInv /\ StockInv => LoopAccounts
  <2> SUFFICES ASSUME TypeInv, StockInv, pc \in {"trade", "transport"} PROVE LoopAccounts
    BY DEF LoopAccounts
  <2>1. call # NoCall /\ call.event.kind \in {"Trade", "Transport"}
    BY DEF StockInv, LayerInv, Looping, Kinds, TypeInv, TypeOK, CallOK
  <2> QED BY <2>1 DEF StockInv, MoveInv, InHand, OnFile, LoopAccounts
<1> QED BY <1>1, SpecStockInv, PTL

\* InsufficientInventory is the truth: a trade, transport or storing that ends in it
\* asked for more than its party had on file, and a production that ends in it has
\* used up all of the material it is short of.  The loops (lib.rs:143, 207, 264, 330)
\* overlook no lot.
THEOREM InsufficiencyIsTrue ==
  ASSUME OverflowChecks, ~SelfMoves
  PROVE  Spec => []TrulyInsufficient
<1>1. TypeInv /\ NonceInv /\ StockInv /\ TrulyInsufficient /\ [Next]_vars => TrulyInsufficient'
  BY NextInsufficient
<1> QED BY <1>1, SpecStockInv, InitInsufficient, PTL DEF Spec

\* What Commit does to the committed stock: nothing, a move or a production.
LEMMA CommitOwners ==
  ASSUME TypeInv, StockInv, Commit, NEW id \in Identity,
         Total(committed'.item[id]) < Total(committed.item[id])
  PROVE  \E a \in Accounts : AccountGLN[a] = id[2]
<1>1. committed'.item[id] = FoodItem[id] /\ InHand(id) < OnFile(id)
  BY DEF Commit, Snapshot, InHand, OnFile
<1>2. InHand(id) \in Nat /\ OnFile(id) \in Nat
  BY LotsCounted DEF InHand, OnFile, TypeInv, TypeOK
<1>3. FoodItem[id] # committed.item[id] /\ ~(OnFile(id) < OnFile(id))
  BY <1>1, <1>2 DEF InHand, OnFile
<1>4. call # NoCall /\ call.left = 0 /\ call.event.kind \in Kinds /\ call.dst \in Identity
      /\ call.amount \in Nat \ {0}
  BY <1>3 DEF StockInv, LayerInv, Commit
<1>5. CASE call.event.kind \in {"Trade", "Transport"}
  <2>1. MoveInv
    BY DEF StockInv
  <2>2. id \in {call.src, call.dst}
    BY <1>3, <1>4, <1>5, <2>1 DEF MoveInv
  <2>3. id # call.dst
    <3> SUFFICES ASSUME id = call.dst PROVE FALSE
      OBVIOUS
    <3>1. InHand(id) + 0 = OnFile(id) + call.amount
      BY <1>4, <1>5, <2>1 DEF MoveInv
    <3> QED BY <1>1, <1>2, <1>4, <3>1
  <2> QED BY <1>4, <1>5, <2>1, <2>2, <2>3 DEF MoveInv
<1>6. CASE call.event.kind = "Store"
  <2>1. StoringInv
    BY DEF StockInv
  <2> QED BY <1>1, <1>3, <1>4, <1>6, <2>1 DEF StoringInv
<1>7. CASE call.event.kind = "Produce"
  <2>1. ProductionInv
    BY DEF StockInv
  <2>2. CASE id = call.dst
    BY <1>4, <1>7, <2>1, <2>2 DEF ProductionInv
  <2>3. CASE id # call.dst
    <3>1. OnTheSpot(id)
      BY <1>3, <1>4, <1>7, <2>1, <2>3 DEF ProductionInv
    <3> QED BY <1>4, <1>7, <2>1, <3>1 DEF ProductionInv, OnTheSpot
  <2> QED BY <2>2, <2>3
<1> QED BY <1>4, <1>5, <1>6, <1>7 DEF Kinds

\* What a call commits takes food only from parties whose number belongs to an
\* account (AccountGLN): no call disposes of what was sold to anyone else.
THEOREM OwnersGiveUp ==
  ASSUME OverflowChecks, ~SelfMoves
  PROVE  Spec => OnlyOwnersGiveUp
<1>1. /\ TypeInv /\ StockInv /\ [Next]_vars
      => [\A id \in Identity : Total(committed'.item[id]) < Total(committed.item[id]) =>
            \E a \in Accounts : AccountGLN[a] = id[2]]_committed
  BY CommitOwners, OnlyCommitCommits
<1> QED BY <1>1, SpecStockInv, PTL DEF OnlyOwnersGiveUp, Spec

\* Every step of the pallet is one of the ledger, or leaves it alone.
LEMMA LedgerInit == Init => Ledger!Init
<1> SUFFICES ASSUME Init PROVE Ledger!Init
  OBVIOUS
<1>1. \A id \in Identity : \A n \in Nonces : committed.item[id][n].amount = 0
  BY DEF Init, Empty, Snapshot, NoLot
<1>2. DOMAIN committed.materials = {}
  BY DEF Init, Empty, Snapshot
<1>3. \A id \in Identity : Total(committed.item[id]) = 0
  BY <1>1, TotalZero
<1> QED BY <1>2, <1>3 DEF Ledger!Init, Ledger!Identity, Identity

\* A move that is committed.
LEMMA LedgerMove ==
  ASSUME TypeInv, StockInv, Commit, call # NoCall, call.event.kind \in {"Trade", "Transport"}
  PROVE  Ledger!ChangeOwner \/ Ledger!ChangePlace
<1> DEFINE stock == [id \in Identity |-> Total(committed.item[id])]
<1>1. committed'.item = FoodItem /\ committed'.materials = FoodMaterials
  BY DEF Commit, Snapshot
<1>2. \A id \in Identity : stock[id] = OnFile(id) /\ stock'[id] = InHand(id)
  BY <1>1 DEF InHand, OnFile
<1>3. \A id \in Identity : InHand(id) \in Nat /\ OnFile(id) \in Nat
  BY LotsCounted DEF InHand, OnFile, TypeInv, TypeOK
<1>4. /\ call.left = 0 /\ call.amount \in Nat \ {0} /\ call.dst \in Identity /\ call.src \in Identity
      /\ call.src # call.dst /\ call.src[1] = call.dst[1]
      /\ call.src[3] = call.dst[3] \/ call.src[2] = call.dst[2]
      /\ InHand(call.src) + call.amount = OnFile(call.src) + 0
      /\ InHand(call.dst) + 0 = OnFile(call.dst) + call.amount
      /\ \A id \in Identity \ {call.src, call.dst} : FoodItem[id] = committed.item[id]
      /\ FoodMaterials = committed.materials
  BY DEF StockInv, LayerInv, MoveInv, Commit
<1>5. call.amount \in 1 .. stock[call.src]
  BY <1>2, <1>3, <1>4
<1>6. /\ DOMAIN stock' = Identity
      /\ stock'[call.src] = stock[call.src] - call.amount
      /\ stock'[call.dst] = stock[call.dst] + call.amount
      /\ \A id \in Identity \ {call.src, call.dst} : stock'[id] = stock[id]
  <2>1. \A id \in Identity \ {call.src, call.dst} : InHand(id) = OnFile(id)
    BY <1>4 DEF InHand, OnFile
  <2> QED BY <1>2, <1>3, <1>4, <2>1
<1>7. UNCHANGED DOMAIN committed.materials
  BY <1>1, <1>4
<1> HIDE DEF stock
<1>8. stock' = [stock EXCEPT ![call.src] = @ - call.amount, ![call.dst] = @ + call.amount]
  <2> DEFINE new == [stock EXCEPT ![call.src] = @ - call.amount, ![call.dst] = @ + call.amount]
  <2>1. DOMAIN stock = Identity /\ stock' = [id \in Identity |-> stock'[id]]
    BY DEF stock
  <2>2. DOMAIN new = Identity /\ new = [id \in Identity |-> new[id]]
    BY <2>1
  <2>3. ASSUME NEW id \in Identity PROVE new[id] = stock'[id]
    BY <1>4, <1>6, <2>1
  <2>4. stock' = new
    <3> HIDE DEF new
    <3> QED BY <2>1, <2>2, <2>3
  <2> QED BY <2>4
<1>9. Ledger!Move(call.src, call.dst, call.amount)
  BY <1>4, <1>5, <1>7, <1>8 DEF Ledger!Move, stock
<1>10. Ledger!Identity = Identity
  BY DEF Ledger!Identity, Identity
<1> QED BY <1>4, <1>5, <1>9, <1>10 DEF Ledger!ChangeOwner, Ledger!ChangePlace, stock

LEMMA LedgerMake ==
  ASSUME TypeInv, StockInv, Commit, call # NoCall, call.event.kind = "Produce"
  PROVE  \E bar \in BarCodes, o, p \in GLNs : Ledger!Make(bar, o, p)
<1> DEFINE stock == [id \in Identity |-> Total(committed.item[id])]
<1>1. committed'.item = FoodItem /\ committed'.materials = FoodMaterials
      /\ pc = "return" /\ result \in Events
  BY DEF Commit, Snapshot
<1>2. \A id \in Identity : stock[id] = OnFile(id) /\ stock'[id] = InHand(id)
  BY <1>1 DEF InHand, OnFile
<1>3. \A id \in Identity : InHand(id) \in Nat /\ OnFile(id) \in Nat
  BY LotsCounted DEF InHand, OnFile, TypeInv, TypeOK
<1>4. /\ call.amount \in Nat \ {0} /\ call.dst \in Identity
      /\ call.dst[1] \in SerialCodes => call.amount = 1
      /\ call.dst[1] \notin DOMAIN committed.materials
      /\ DOMAIN FoodMaterials = DOMAIN committed.materials \cup {call.dst[1]}
      /\ \A id \in Identity \ {call.dst} : IF OnTheSpot(id) THEN InHand(id) <= OnFile(id)
                                           ELSE FoodItem[id] = committed.item[id]
      /\ InHand(call.dst) = call.amount
  BY <1>1 DEF StockInv, LayerInv, ProductionInv
<1>5. PICK bar \in BarCodes, o \in GLNs, p \in GLNs : call.dst = <<bar, o, p>>
  BY <1>4 DEF Identity
<1>6. \A id \in Identity \ {<<bar, o, p>>} :
        IF id[2] = o /\ id[3] = p THEN stock'[id] \in 0 .. stock[id] ELSE stock'[id] = stock[id]
  <2> SUFFICES ASSUME NEW id \in Identity \ {call.dst}
               PROVE  IF OnTheSpot(id) THEN InHand(id) \in 0 .. OnFile(id) ELSE InHand(id) = OnFile(id)
    BY <1>2, <1>5 DEF OnTheSpot
  <2> QED BY <1>3, <1>4 DEF InHand, OnFile
<1>7. stock'[<<bar, o, p>>] > 0 /\ (bar \in SerialCodes => stock'[<<bar, o, p>>] = 1)
  BY <1>2, <1>4, <1>5
<1>8. bar \notin DOMAIN committed.materials
      /\ DOMAIN committed'.materials = DOMAIN committed.materials \cup {bar}
  BY <1>1, <1>4, <1>5
<1>9. DOMAIN stock' = Identity
  OBVIOUS
<1>10. Ledger!Identity = Identity
  BY DEF Ledger!Identity, Identity
<1> QED BY <1>5, <1>6, <1>7, <1>8, <1>9, <1>10 DEF Ledger!Make

LEMMA LedgerStep ==
  ASSUME TypeInv, StockInv, [Next]_vars
  PROVE  [Ledger!Next]_(Ledger!vars)
<1> DEFINE stock == [id \in Identity |-> Total(committed.item[id])]
<1>1. CASE committed' = committed
  BY <1>1 DEF Ledger!vars
<1>2. CASE Commit
  <2>1. committed'.item = FoodItem /\ committed'.materials = FoodMaterials
    BY <1>2 DEF Commit, Snapshot
  <2>2. CASE call = NoCall
    <3>1. UNCHANGED <<stock, DOMAIN committed.materials>>
      BY <2>1, <2>2 DEF StockInv, LayerInv
    <3> QED BY <3>1 DEF Ledger!vars
  <2>3. CASE call # NoCall /\ call.event.kind \in {"Trade", "Transport"}
    BY <1>2, <2>3, LedgerMove DEF Ledger!Next
  <2>4. CASE call # NoCall /\ call.event.kind = "Store"
    <3>1. \A id \in Identity : Total(committed'.item[id]) = Total(committed.item[id])
      BY <2>1, <2>4 DEF StockInv, StoringInv, InHand, OnFile
    <3>2. UNCHANGED <<stock, DOMAIN committed.materials>>
      BY <2>1, <2>4, <3>1 DEF StockInv, StoringInv
    <3> QED BY <3>2 DEF Ledger!vars
  <2>5. CASE call # NoCall /\ call.event.kind = "Produce"
    BY <1>2, <2>5, LedgerMake DEF Ledger!Next
  <2> QED BY <2>2, <2>3, <2>4, <2>5 DEF StockInv, LayerInv, Kinds
<1> QED BY <1>1, <1>2, OnlyCommitCommits

\* The pallet implements the ledger: by the sums of the committed lots, a call makes
\* a food once, at the cost of what its maker has on the spot, or changes the owner or
\* the place of some of it, never both, or leaves every sum alone.
THEOREM StockIsALedger ==
  ASSUME OverflowChecks, ~SelfMoves
  PROVE  Spec => ImplementsLedger
<1>1. TypeInv /\ StockInv /\ [Next]_vars => [Ledger!Next]_(Ledger!vars)
  BY LedgerStep
<1> QED BY <1>1, SpecStockInv, LedgerInit, PTL DEF ImplementsLedger, Ledger!Spec, Spec
=============================================================================
