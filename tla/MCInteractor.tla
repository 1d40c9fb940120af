---------------------------- MODULE MCInteractor ----------------------------
(* An API of a few calls for TLC: two of the same pallet, pallets that two *)
(* types share, an optional field before another, and calls of no fields.  *)
EXTENDS Interactor

Field(type, optional) == [type |-> type, optional |-> optional]
Plain == Field("string", FALSE)

MCApi ==
  [type \in InterxType |->
     CASE type = "EXTRINSIC" ->
            [food |-> [store |-> <<Plain, Field("number", FALSE)>>, trade |-> <<Plain>>],
             sudo |-> [key |-> <<Plain>>]]
       [] type = "QUERY" -> [food |-> [lots |-> <<Plain>>], sudo |-> [key |-> <<>>]]
       [] type = "RPC" -> [food |-> [getTrace |-> <<Field("string", TRUE), Plain>>]]
       [] type = "CONSTANT" -> [system |-> [version |-> <<>>]]]
=============================================================================
