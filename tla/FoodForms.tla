------------------------------ MODULE FoodForms ------------------------------
(***************************************************************************)
(* The seven forms of TxSelector (FoodTraceability.js): the state they     *)
(* share, the handlers that set it, the parameters each form hands to its  *)
(* button, and, in TxParams, what the button makes of them.                *)
(*                                                                         *)
(* Most controls show the state they set.  Three do not, because they get  *)
(* no `value': the dropdown of the unit, the number of the lot, and the    *)
(* rows of the materials.  What the browser shows in them is the variable  *)
(* dom, which lives and dies with the elements on the screen; React keeps  *)
(* an element whose type and position do not change from form to form.     *)
(*                                                                         *)
(* A text is empty, a blank, or one of Texts.  Three fields hold the       *)
(* number 0 until something is typed.                                      *)
(***************************************************************************)
EXTENDS Sequences, TxParams

CONSTANTS Texts,      \* what may be typed, apart from a blank
          Pairs,      \* addresses in the dropdowns
          MaxEdits,   \* bound: edits of a behaviour
          MaxRows     \* bound: rows of materials

\* The number 0 cannot be typed: what is typed is text.
ASSUME FormsAssumption ==
  MaxEdits \in Nat /\ MaxRows \in Nat /\ Zero \notin Texts \cup Pairs

VARIABLES btnType, state, materialsArr,
          dom,           \* what the uncontrolled inputs show
          entered,       \* history: the last entry in each control of this form
          enteredRows,   \* history: the same for the rows
          edits

formVars == <<btnType, state, materialsArr, dom, entered, enteredRows, edits>>

Untouched == "-"

InitialState ==
  [rawBarCode |-> "", sscc |-> "", gln |-> "", ownerGLN |-> "", nonce |-> Zero,
   locate |-> "AccId", locateAccId |-> "", locateGLN |-> "",
   destination |-> "AccId", destinationAccId |-> "", destinationGLN |-> "",
   carrier |-> "AccId", carrierAccId |-> "", carrierGLN |-> "",
   amount |-> Zero, shelfLifeDays |-> Zero, unitChoose |-> "Portion",
   licenseChoose |-> "registration", licenseInput |-> ""]

Control == DOMAIN InitialState
AccId == [locate |-> "locateAccId", destination |-> "destinationAccId",
          carrier |-> "carrierAccId"]
GLN == [locate |-> "locateGLN", destination |-> "destinationGLN", carrier |-> "carrierGLN"]
Party == DOMAIN AccId

(* What a control offers. *)
Offers(c) ==
  IF c \in Party THEN {"AccId", "GLN"}
  ELSE IF \E p \in Party : c = AccId[p] THEN Pairs
  ELSE IF c = "unitChoose" THEN {"Portion", "Microgram", "Milliliter"}
  ELSE IF c = "licenseChoose" THEN {"registration", "cancellation"}
  ELSE IF c \in {"amount", "shelfLifeDays", "nonce"} THEN Texts \cup {"", "0"}
  ELSE Texts \cup {"", Space}

-----------------------------------------------------------------------------
(* The parameters of the forms, in the order of the call. *)

Text(c) == IF state[c] = Zero THEN [is |-> "number", value |-> Zero]
           ELSE [is |-> "string", value |-> state[c]]

Identity(p) == [is |-> "object", of |-> state[p],
                value |-> state[IF state[p] = "AccId" THEN AccId[p] ELSE GLN[p]]]

Materials == [is |-> "array", value |-> materialsArr]

License ==
  [is |-> "object", of |-> state.licenseChoose,
   value |-> IF state.licenseChoose = "registration" THEN state.licenseInput ELSE ""]

BestBlock == [is |-> "object", of |-> "BlockHash", value |-> ""]

Produce == <<Text("rawBarCode"), Identity("locate"), Text("amount"), Text("unitChoose"),
             Text("shelfLifeDays"), Materials>>
Trade == <<Text("rawBarCode"), Identity("locate"), Identity("destination"), Text("amount")>>
Store == <<Text("rawBarCode"), Identity("locate"), Text("sscc"), Text("amount")>>
Transport == <<Text("rawBarCode"), Identity("locate"), Identity("destination"),
               Identity("carrier"), Text("sscc"), Text("amount")>>
SetAccountGLN == <<Text("locateAccId"), Text("gln")>>
SetManufacturerLicense == <<Identity("locate"), License>>
QrCode == <<BestBlock, Text("rawBarCode"), Text("ownerGLN"), Text("locateGLN"), Text("nonce")>>

inputParams ==
  [produce |-> Produce, trade |-> Trade, store |-> Store, transport |-> Transport,
   setAccountGLN |-> SetAccountGLN, setManufacturerLicense |-> SetManufacturerLicense,
   qrCode |-> QrCode][btnType]

(* The controls whose entry each parameter of the pallet's call is for, in *)
(* the order of the pallet's signatures (and of the RPC's).                *)
Signature ==
  [produce |-> <<"rawBarCode", "locate", "amount", "unitChoose", "shelfLifeDays", "materials">>,
   trade |-> <<"rawBarCode", "locate", "destination", "amount">>,
   store |-> <<"rawBarCode", "locate", "sscc", "amount">>,
   transport |-> <<"rawBarCode", "locate", "destination", "carrier", "sscc", "amount">>,
   setAccountGLN |-> <<"locateAccId", "gln">>,
   setManufacturerLicense |-> <<"locate", "licenseChoose">>,
   qrCode |-> <<"at", "rawBarCode", "ownerGLN", "locateGLN", "nonce">>]
Forms == DOMAIN Signature

(* The controls on the screen: a party has one for its kind and one for    *)
(* the kind chosen, and a license is typed only to be registered.          *)
Shown(c) ==
  LET asked == {Signature[btnType][i] : i \in DOMAIN Signature[btnType]}
  IN  \/ c \in asked
      \/ \E p \in Party \cap asked : c = (IF state[p] = "AccId" THEN AccId ELSE GLN)[p]
      \/ c = "licenseInput" /\ "licenseChoose" \in asked /\ state.licenseChoose = "registration"

-----------------------------------------------------------------------------
(* The button. *)

(* The forms say `true' of each parameter: no type, and not optional. *)
paramFields == [i \in DOMAIN inputParams |-> [type |-> "string", optional |-> FALSE]]

arguments == transformParams(paramFields, inputParams, btnType # "qrCode")

-----------------------------------------------------------------------------
(* The handlers. *)

BlankRow == [bytes |-> "", u128 |-> ""]

FormsInit ==
  /\ btnType = "produce" /\ state = InitialState /\ materialsArr = <<>>
  /\ dom = [unitChoose |-> "", nonce |-> "", rows |-> [key \in 0 .. MaxRows - 1 |-> BlankRow]]
  /\ entered = [c \in Control |-> Untouched] /\ enteredRows = <<>>
  /\ edits = 0

Edits == edits < MaxEdits /\ edits' = edits + 1

(* The input at the position of the number of the lot, in the form before: *)
(* the amount, or the bar code, which a number input shows if it is one.   *)
Inherited ==
  CASE btnType \in {"trade", "store"} -> {IF state.amount \in {Zero, "", "0"} THEN "" ELSE state.amount}
    [] btnType = "transport" -> {"", Trim(state.rawBarCode)}
    [] OTHER -> {""}

(* The menu.  The elements of the old form go, with what they show. *)
setBtnType(form) ==
  /\ form # btnType
  /\ btnType' = form
  /\ \E nonce \in IF form = "qrCode" THEN Inherited ELSE {""} :
       dom' = [unitChoose |-> "", nonce |-> nonce,
               rows |-> [key \in DOMAIN dom.rows |-> BlankRow]]
  /\ entered' = [c \in Control |-> Untouched]
  /\ enteredRows' = [i \in DOMAIN enteredRows |-> [bytes |-> Untouched, u128 |-> Untouched]]
  /\ UNCHANGED <<state, materialsArr, edits>>

(* The state a control's onChange sets; a mutant with one handler copied.  *)
CopiedSetter(c) == IF c = "carrierGLN" THEN "destinationGLN" ELSE c
Setter(c) == c

Edit(c, value) ==
  /\ Shown(c) /\ Edits
  /\ state' = [state EXCEPT ![Setter(c)] = value]
  /\ dom' = IF c \in {"unitChoose", "nonce"} THEN [dom EXCEPT ![c] = value] ELSE dom
  /\ entered' = [entered EXCEPT ![c] = value]
  /\ UNCHANGED <<btnType, materialsArr, enteredRows>>

(* Mutants of the two handlers: a key that is not new, the wrong end. *)
addSameKey ==
  /\ btnType = "produce" /\ Len(materialsArr) < MaxRows /\ Edits
  /\ materialsArr' = Append(materialsArr, [key |-> 0, bytes |-> "1", u128 |-> "1"])
  /\ enteredRows' = Append(enteredRows, [bytes |-> Untouched, u128 |-> Untouched])
  /\ UNCHANGED <<btnType, state, dom, entered>>

delFirst ==
  /\ btnType = "produce" /\ materialsArr # <<>> /\ Edits
  /\ materialsArr' = Tail(materialsArr)
  /\ enteredRows' = SubSeq(enteredRows, 1, Len(enteredRows) - 1)
  /\ UNCHANGED <<btnType, state, dom, entered>>

addMaterials ==
  /\ btnType = "produce" /\ Len(materialsArr) < MaxRows /\ Edits
  /\ materialsArr' = Append(materialsArr, [key |-> Len(materialsArr), bytes |-> "1", u128 |-> "1"])
  /\ dom' = [dom EXCEPT !.rows[Len(materialsArr)] = BlankRow]
  /\ enteredRows' = Append(enteredRows, [bytes |-> Untouched, u128 |-> Untouched])
  /\ UNCHANGED <<btnType, state, entered>>

delMaterials ==
  /\ btnType = "produce" /\ materialsArr # <<>> /\ Edits
  /\ materialsArr' = SubSeq(materialsArr, 1, Len(materialsArr) - 1)
  /\ enteredRows' = SubSeq(enteredRows, 1, Len(enteredRows) - 1)
  /\ UNCHANGED <<btnType, state, dom, entered>>

(* setMaterialsArrBytes and setMaterialsArrU128 *)
setMaterials(i, column, value) ==
  /\ btnType = "produce" /\ Edits
  /\ materialsArr' = [materialsArr EXCEPT ![i][column] = value]
  /\ dom' = [dom EXCEPT !.rows[materialsArr[i].key][column] = value]
  /\ enteredRows' = [enteredRows EXCEPT ![i][column] = value]
  /\ UNCHANGED <<btnType, state, entered>>

FormsNext ==
  \/ \E form \in Forms : setBtnType(form)
  \/ \E c \in Control : \E value \in Offers(c) : Edit(c, value)
  \/ addMaterials
  \/ delMaterials
  \/ \E i \in DOMAIN materialsArr, column \in {"bytes", "u128"}, value \in Texts \cup {""} :
       setMaterials(i, column, value)

FormsSpec == FormsInit /\ [][FormsNext]_formVars

-----------------------------------------------------------------------------
(* The properties. *)

(* The rows of materials and their keys: React tells rows apart by their   *)
(* keys, so each has the key of its place, after any adding and deleting.  *)
FormsTypeOK ==
  /\ btnType \in Forms /\ edits \in 0 .. MaxEdits
  /\ DOMAIN state = Control /\ DOMAIN entered = Control
  /\ Len(materialsArr) <= MaxRows /\ DOMAIN enteredRows = DOMAIN materialsArr
  /\ \A i \in DOMAIN materialsArr : materialsArr[i].key = i - 1

(* Nothing is entered in control c of this form, or this value. *)
Agrees(c, value) == entered[c] \in {Untouched, value}

(* What the user last entered in each control of the form on the screen is *)
(* what the call carries in the place the pallet reads it from, whatever   *)
(* else was edited since and whatever the other forms left in the state    *)
(* they share.  The RPC drops what is empty, which moves the rest: it is   *)
(* held to this when nothing was dropped.  (Handlers and inputParams of    *)
(* FoodTraceability.js against the signatures in lib.rs.)                  *)
EnteredIsSent ==
  /\ btnType # "qrCode" => Len(arguments) = Len(Signature[btnType])
  /\ Len(arguments) = Len(Signature[btnType]) =>
       \A i \in DOMAIN arguments :
         LET c == Signature[btnType][i]
             sent == arguments[i]
         IN  /\ c \in Party => /\ Agrees(c, sent.of)
                               /\ Agrees((IF sent.of = "AccId" THEN AccId ELSE GLN)[c], sent.value)
             /\ c = "licenseChoose" =>
                  /\ Agrees(c, sent.of)
                  /\ sent.of = "registration" => Agrees("licenseInput", sent.value)
             /\ c = "materials" =>
                  \A r \in DOMAIN enteredRows, column \in {"bytes", "u128"} :
                    enteredRows[r][column] \in {Untouched, sent.value[r][column]}
             /\ c \in Control \ (Party \cup {"licenseChoose"}) =>
                  entered[c] = Untouched \/ sent.value = Trim(entered[c])

(* An input React does not control shows nothing or what will be sent: the *)
(* unit, every row of materials, and, once something was typed there, the  *)
(* number of the lot, which is the last argument then, however many before *)
(* it are left out.  Not so before: it may show another form's amount then *)
(* while the call carries the state's number, or none.  And a blank one    *)
(* may stand over what is held and sent.  (ShowMaterialsArr and the rows'  *)
(* handlers, FoodTraceability.js:141-180, the input of the lot's number,   *)
(* 920-927, and the dropdown of the unit.)                                 *)
ShownIsSent ==
  /\ btnType = "produce" =>
       /\ dom.unitChoose \in {"", arguments[4].value}
       /\ \A i \in DOMAIN materialsArr, column \in {"bytes", "u128"} :
            dom.rows[materialsArr[i].key][column] \in {"", arguments[6].value[i][column]}
  /\ btnType = "qrCode" /\ entered.nonce # Untouched /\ Trim(dom.nonce) # "" =>
       arguments # <<>> /\ arguments[Len(arguments)].value = Trim(dom.nonce)

(* Only empty parameters are left out of an RPC (the comment of            *)
(* transformParams, TxButton.js:278): when the button is enabled and       *)
(* nothing is blank, the call carries them all.                            *)
OnlyEmptyIsLeftOut ==
  (/\ allParamsFilled(paramFields, inputParams)
   /\ \A i \in DOMAIN inputParams : inputParams[i].is = "string" => inputParams[i].value # Space)
  => Len(arguments) = Len(inputParams)
=============================================================================
