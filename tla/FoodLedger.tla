----------------------------- MODULE FoodLedger -----------------------------
(***************************************************************************)
(* What the pallet promises about stock, without lots, nonces, loops or    *)
(* traces: who owns how much of which food, and where.  A food is made     *)
(* once, at the cost of stock its maker has on the spot; after that a call *)
(* changes its owner or its place, never both, and none of it is lost.     *)
(***************************************************************************)
EXTENDS Integers

CONSTANTS BarCodes, SerialCodes, GLNs

Identity == BarCodes \X GLNs \X GLNs     \* bar code, owner, location

VARIABLES
  stock,    (* how much of each identity there is  *)
  made      (* the bar codes produced so far       *)

vars == <<stock, made>>

Init ==
  /\ stock = [id \in Identity |-> 0]
  /\ made = {}

Make(bar, owner, place) ==
  /\ bar \notin made
  /\ made' = made \cup {bar}
  /\ DOMAIN stock' = Identity
  /\ stock'[<<bar, owner, place>>] > 0
  /\ bar \in SerialCodes => stock'[<<bar, owner, place>>] = 1
  /\ \A id \in Identity \ {<<bar, owner, place>>} :
       IF id[2] = owner /\ id[3] = place
       THEN stock'[id] \in 0 .. stock[id]
       ELSE stock'[id] = stock[id]

Move(src, dst, amount) ==
  /\ src # dst /\ src[1] = dst[1]
  /\ amount \in 1 .. stock[src]
  /\ stock' = [stock EXCEPT ![src] = @ - amount, ![dst] = @ + amount]
  /\ UNCHANGED made

ChangeOwner == \E src, dst \in Identity : src[3] = dst[3] /\ \E n \in 1 .. stock[src] : Move(src, dst, n)
ChangePlace == \E src, dst \in Identity : src[2] = dst[2] /\ \E n \in 1 .. stock[src] : Move(src, dst, n)

Next == (\E bar \in BarCodes, o, p \in GLNs : Make(bar, o, p)) \/ ChangeOwner \/ ChangePlace

Spec == Init /\ [][Next]_vars
=============================================================================
