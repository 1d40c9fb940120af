------------------------------ MODULE TxParams ------------------------------
(***************************************************************************)
(* What the button makes of the parameters of its form (transformParams    *)
(* and allParamsFilled in TxButton.js).                                    *)
(*                                                                         *)
(* A parameter is a record with the JavaScript type the button looks at:   *)
(* a string, an input (an object whose member `value' is a string), a      *)
(* number, or anything else, which passes through.  The only number a form *)
(* hands over is 0, which is not the text "0".  The fields say of which    *)
(* type each parameter is and whether it is optional; the parameters may   *)
(* be fewer than the fields, and leave out some.                           *)
(***************************************************************************)
EXTENDS Naturals, FiniteSets

Zero == "number 0"
Space == " "

Null == [is |-> "null", value |-> ""]
Undefined == [is |-> "undefined", value |-> ""]

(* inputParams[ind] *)
param(inputParams, i) == IF i \in DOMAIN inputParams THEN inputParams[i] ELSE Undefined

Typed(p) == p.is \in {"string", "input"}
Trim(text) == IF text = Space THEN "" ELSE text

(* paramVal[ind] || null: the number 0 is as false as the empty text.  A   *)
(* text is converted to the type of its field.                             *)
Value(field, p) ==
  IF p.is \in {"number", "undefined"} \/ (Typed(p) /\ Trim(p.value) = "") THEN Null
  ELSE IF Typed(p) THEN [is |-> field.type, value |-> Trim(p.value)] ELSE p

(* The values in their order; an empty one is added only as null. *)
transformParams(paramFields, inputParams, emptyAsNull) ==
  LET values == [i \in DOMAIN paramFields |-> Value(paramFields[i], param(inputParams, i))]
      added  == {i \in DOMAIN paramFields : emptyAsNull \/ values[i].is # "null"}
      Place(i) == Cardinality({j \in added : j <= i})
  IN  [k \in 1 .. Cardinality(added) |-> values[CHOOSE i \in added : Place(i) = k]]

(* A blank is filled in, and so are the number 0 and what is no text. *)
allParamsFilled(paramFields, inputParams) ==
  \A i \in DOMAIN paramFields :
    LET p == param(inputParams, i)
    IN  paramFields[i].optional \/ (p.is # "undefined" /\ (Typed(p) => p.value # ""))
=============================================================================
