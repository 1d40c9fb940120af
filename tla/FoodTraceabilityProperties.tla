---------------------- MODULE FoodTraceabilityProperties ----------------------
(***************************************************************************)
(* What the food-traceability pallet promises.                             *)
(***************************************************************************)
EXTENDS FoodTraceability

Kinds == {"Produce", "Trade", "Store", "Transport"}

Absent(lot)        == lot = NoLot
IsLot(lot, hashes) == lot.held /\ lot.amount \in Nat \ {0} /\ lot.hash \in hashes

Looping == {"produce", "trade", "store", "transport"}

(***************************************************************************)
(* The type invariant.  A lot always holds something and its hash is in    *)
(* FoodTrace; so is the parent of every trace.                             *)
(***************************************************************************)
EventOK(ev) ==
  /\ ev.kind \in Kinds
  /\ ev.time \in Nat
  /\ ev.kind = "Produce" => ev.manufacturer \in GLNs /\ ev.license \in Licenses /\ ev.shelfLife \in Nat
  /\ ev.kind = "Trade" => ev.seller \in GLNs /\ ev.buyer \in GLNs
  /\ ev.kind = "Store" => ev.warehouse \in GLNs
  /\ ev.kind = "Transport" => ev.origin \in GLNs /\ ev.destination \in GLNs

ItemOK(item, trace) ==
  /\ DOMAIN item = Identity
  /\ \A id \in Identity : DOMAIN item[id] = Nonces
  /\ \A id \in Identity : \A n \in Nonces : Absent(item[id][n]) \/ IsLot(item[id][n], DOMAIN trace)

TraceOK(trace) ==
  \A h \in DOMAIN trace :
    /\ EventOK(trace[h].event)
    /\ trace[h].event.kind = "Produce" => trace[h].parent = NoHash
    /\ trace[h].event.kind # "Produce" => trace[h].parent \in DOMAIN trace

CallOK ==
  /\ DOMAIN call = DOMAIN NoCall
  /\ call.srcNonce \in Nonces
  /\ call.dstNonce \in Nonces
  /\ call.left \in Nat
  /\ call.todo \in Seq((BarCodes \cup {Malformed}) \X Nat)
  /\ pc \in Looping => EventOK(call.event) /\ call.dst \in Identity /\ call.amount \in Nat \ {0}
  /\ pc \in Looping => /\ call.event.kind = "Produce" <=> pc = "produce"
                       /\ call.event.kind = "Store" <=> pc = "store"
  /\ pc \in Looping /\ call.left > 0 => call.src \in Identity

TypeOK ==
  /\ ItemOK(FoodItem, FoodTrace)
  /\ ItemOK(committed.item, committed.trace)
  /\ TraceOK(FoodTrace)
  /\ TraceOK(committed.trace)
  /\ AccountGLN \in [Accounts -> GLNs \cup {None}]
  /\ ManufacturerLicense \in [GLNs -> Licenses \cup {None}]
  /\ DOMAIN FoodMaterials \subseteq BarCodes
  /\ DOMAIN committed.materials \subseteq BarCodes
  /\ now \in Nat
  /\ pc \in Looping \cup {"idle", "return", "spin"}
  /\ CallOK

-----------------------------------------------------------------------------
(***************************************************************************)
(* Safety of the loops.                                                    *)
(***************************************************************************)

\* Every unwrap() of a lot in a call's loop finds one: get_max_nonce counted
\* only held lots, and the loops never step onto a nonce they emptied.
UnwrapSafe ==
  /\ pc \in {"produce", "trade", "transport"} /\ call.left > 0 /\ call.srcNonce > 0 =>
       FoodItem[call.src][call.srcNonce - 1].held
  /\ pc = "store" /\ call.left > 0 /\ call.srcNonce # call.dstNonce =>
       FoodItem[call.src][call.srcNonce].held

\* Why it is so: the nonces a loop has still to visit all hold lots.
LoopLots ==
  /\ pc \in {"produce", "trade", "transport"} /\ call.left > 0 =>
       \A m \in 0 .. (call.srcNonce - 1) : FoodItem[call.src][m].held
  /\ pc = "store" =>
       /\ call.srcNonce <= call.dstNonce
       /\ \A m \in call.srcNonce .. (call.dstNonce - 1) : FoodItem[call.src][m].held

\* lib.rs:39, "collision-avoiding nonce": the nonce a moved lot is inserted at
\* holds no lot that the insertion would destroy.
NoCollision ==
  /\ pc \in {"trade", "transport", "store"} /\ call.left > 0 => ~FoodItem[call.dst][call.dstNonce].held
  /\ pc = "produce" => ~FoodItem[call.dst][0].held

\* lib.rs:486, get_max_nonce is "the maximal nonce of the lots now owned": no lot
\* lies beyond the first free nonce, where no call would ever reach it.
MaxNonceIsMax ==
  pc = "idle" => \A id \in Identity : \A n \in Nonces :
    FoodItem[id][n].held => \A m \in 0 .. n : FoodItem[id][m].held

\* lib.rs:260-261, storing starts from the small nonces "so that the other
\* methods consume unstored lots first": below a stored lot there are only
\* stored lots.
StoredPrefix ==
  pc = "idle" => \A id \in Identity : \A n \in Nonces :
    FoodItem[id][n].held /\ IsStored(FoodItem[id][n]) =>
      \A m \in 0 .. n : FoodItem[id][m].held /\ IsStored(FoodItem[id][m])

\* A serial bar code names a single item: however often it is moved, stored or
\* tried to be produced again, one lot of amount one is all there is of it.
SerialSingle ==
  \A i, j \in Identity : \A n, m \in Nonces :
    /\ i[1] \in SerialCodes /\ FoodItem[i][n].held /\ FoodItem[j][m].held /\ i[1] = j[1]
    => i = j /\ n = m /\ FoodItem[i][n].amount = 1

(***************************************************************************)
(* Stock.                                                                  *)
(***************************************************************************)
Total(lots) ==
  LET sum[n \in 0 .. NonceMod] == IF n = 0 THEN 0 ELSE sum[n - 1] + lots[n - 1].amount
  IN  sum[NonceMod]

Unstored(id) == [n \in Nonces |-> IF FoodItem[id][n].held /\ IsStored(FoodItem[id][n])
                                  THEN NoLot ELSE FoodItem[id][n]]

\* The pallet implements the ledger: read lot by lot, the committed stock changes
\* only by making a food once, or by moving a part of it to another owner or place.
Ledger == INSTANCE FoodLedger WITH
  stock <- [id \in Identity |-> Total(committed.item[id])],
  made  <- DOMAIN committed.materials

ImplementsLedger == Ledger!Spec

\* A call that answers InsufficientInventory after its checks asked for more than
\* there was: the lots do not hide stock from the loop that looks for it.
TrulyInsufficient ==
  pc = "return" /\ result = "InsufficientInventory" /\ call # NoCall =>
    CASE call.event.kind \in {"Trade", "Transport"} -> Total(committed.item[call.src]) < call.amount
      [] call.event.kind = "Store" -> Total(committed.item[call.src]) < call.amount
      [] call.event.kind = "Produce" -> call.left > 0 => Total(FoodItem[call.src]) = 0

\* What a loop has taken from its source is what it no longer has left to take,
\* and a move has put as much down at its destination.
LoopAccounts ==
  pc \in {"trade", "transport"} /\ call.src # call.dst =>
    /\ Total(FoodItem[call.src]) + call.amount = Total(committed.item[call.src]) + call.left
    /\ Total(FoodItem[call.dst]) + call.left = Total(committed.item[call.dst]) + call.amount

\* Every material a call consumed is recorded with the chain it came from.
MaterialsRecorded ==
  pc = "return" /\ result = "FoodProduced" =>
    \A id \in Identity : \A n \in Nonces :
      LET was == committed.item[id][n]
          is  == FoodItem[id][n]
      IN  was.held /\ is.amount < was.amount =>
            /\ <<id[2], id[3]>> = <<call.dst[2], call.dst[3]>>
            /\ \E i \in DOMAIN FoodMaterials[call.dst[1]] :
                 FoodMaterials[call.dst[1]][i] = <<id[1], was.hash>>

(***************************************************************************)
(* Traces.                                                                 *)
(***************************************************************************)

\* What is on record of a food's past never changes, and nothing of it is lost.
TraceImmutable ==
  [][\A h \in DOMAIN committed.trace :
       h \in DOMAIN committed'.trace /\ committed'.trace[h] = committed.trace[h]]_committed

\* What get_trace answers for a lot, oldest event first.
History(id, n) ==
  LET trace == GetTrace(id, n)
  IN  [i \in DOMAIN trace |-> trace[Len(trace) + 1 - i]]

Place(events) ==
  LET place[i \in 1 .. Len(events)] ==
        CASE events[i].kind = "Produce" -> events[i].manufacturer
          [] events[i].kind = "Transport" -> events[i].destination
          [] OTHER -> place[i - 1]
  IN  place

\* The chain of custody: read from its production on, a lot's history leads
\* without a gap to the owner and the place the lot is filed under.  Goods leave
\* from where they were, are stored where they are, and are sold by their owner.
ChainOfCustody ==
  \A id \in Identity : \A n \in Nonces : committed.item[id][n].held =>
    LET events == History(id, n)
        place  == Place(events)
        trades == {i \in DOMAIN events : events[i].kind = "Trade"}
    IN  /\ events[1] = committed.trace[RootHash(id[1])].event
        /\ place[Len(events)] = id[3]
        /\ \A i \in 2 .. Len(events) :
             /\ events[i].kind # "Produce"
             /\ events[i].kind = "Transport" => events[i].origin = place[i - 1]
             /\ events[i].kind = "Store" => events[i].warehouse = place[i - 1]
        /\ \A i, j \in trades : i < j /\ trades \cap (i + 1) .. (j - 1) = {} => events[i].buyer = events[j].seller
        /\ \A i \in trades : trades \cap (i + 1) .. Len(events) = {} => events[i].buyer = id[2]

\* Food goes on record under the license its manufacturer holds at that moment:
\* none is recorded without one, or under one that root has replaced or withdrawn.
LicensedProduction ==
  [][\A h \in DOMAIN committed'.trace \ DOMAIN committed.trace :
       LET made == committed'.trace[h].event
       IN  made.kind = "Produce" => /\ made.license \in Licenses
                                    /\ ManufacturerLicense[made.manufacturer] = made.license]_committed

\* Stock leaves only a party that has an account: nobody disposes of what was
\* sold to a party whose account is still to be bound.
OnlyOwnersGiveUp ==
  [][\A id \in Identity : Total(committed'.item[id]) < Total(committed.item[id]) =>
       \E a \in Accounts : AccountGLN[a] = id[2]]_committed

\* Within a century, a history is in the order of time and stays within the
\* shelf life its production declared; a material was fresh when it was used.
FreshHistory ==
  MaxTime < Century =>
    /\ \A id \in Identity : \A n \in Nonces : committed.item[id][n].held =>
         LET events == History(id, n)
         IN  /\ events[Len(events)].time <= now
             /\ \A i \in 2 .. Len(events) :
                  /\ events[i - 1].time <= events[i].time
                  /\ Day(events[i].time) <= Day(events[1].time) + events[1].shelfLife
    /\ \A b \in DOMAIN committed.materials : \A i \in DOMAIN committed.materials[b] :
         LET material == committed.trace[RootHash(committed.materials[b][i][1])].event
         IN  Day(committed.trace[RootHash(b)].event.time) <= Day(material.time) + material.shelfLife

(***************************************************************************)
(* Liveness.                                                               *)
(***************************************************************************)

\* The two places where a call of the release build stays for ever.  store_food skips
\* no lot that an earlier call stored (lib.rs:270); get_max_nonce counts no further than
\* the last nonce when all of an identity's are taken (lib.rs:489-491), be it an identity
\* the call moves lots between or the one a material is taken from (lib.rs:135).
MeetsStored ==
  /\ pc = "store" /\ call.left > 0
  /\ LET lot == committed.item[call.src][call.srcNonce] IN lot.held /\ IsStored(lot)

CountsForEver == pc = "spin" /\ \E id \in Identity : Full(id)

\* A call that was begun comes to an end and settles, unless it gets to a lot that was
\* stored before it, or has to find a free nonce in an identity that has none.
CallsReturn == pc # "idle" ~> pc = "idle" \/ MeetsStored \/ CountsForEver

\* Why it does, whatever the size: an iteration takes something off what is left to
\* take, or else a material off the list.  Only the skip of a stored lot does neither.
LoopsAdvance ==
  [][pc' = pc /\ pc \in Looping =>
       \/ call'.todo = call.todo /\ call'.left < call.left
       \/ Len(call'.todo) < Len(call.todo)]_vars

\* lib.rs:267, "if already stored, skip this lot": storing comes to an end.
StoreReturns == pc = "store" ~> pc = "idle"
=============================================================================
