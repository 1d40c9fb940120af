----------------------------- MODULE Interactor -----------------------------
(***************************************************************************)
(* The pallet interactor (Interactor.js): a form that calls anything the   *)
(* API offers.  The user picks a type of interaction, a pallet, a callable *)
(* and its parameters; a group of three buttons submits an extrinsic, and  *)
(* one button that the other types share submits the rest.                 *)
(*                                                                         *)
(* Api says for each type which pallets there are, which callables they    *)
(* have, and which fields the form makes of a callable's metadata.  The    *)
(* list of pallets is always that of the type.  React runs the effects of  *)
(* a render before the next event, so they are part of the handler that    *)
(* caused the render.                                                      *)
(***************************************************************************)
EXTENDS TxButton, TxParams

CONSTANTS Api,        \* [type -> [pallet -> [callable -> its fields]]]
          Texts,      \* what may be typed, apart from a blank
          MaxEdits    \* bound: choices and entries of a behaviour

InterxType == {"EXTRINSIC", "QUERY", "RPC", "CONSTANT"}
Group == {"unsigned", "signed", "sudo"}

(* The metadata's name of a type, and whether it is an Option. *)
ParamField == [type : STRING \ {"null"}, optional : BOOLEAN]

ASSUME InteractorAssumption ==
  /\ Slots = Group \cup {"single"}
  /\ DOMAIN Api = InterxType
  /\ \A type \in InterxType :
       "" \notin DOMAIN Api[type] /\ \A p \in DOMAIN Api[type] : "" \notin DOMAIN Api[type][p]
  /\ \A type \in InterxType : \A p \in DOMAIN Api[type] :
       \A c \in DOMAIN Api[type][p] : Api[type][p][c] \in Seq(ParamField)
  /\ MaxEdits \in Nat

VARIABLES interxType,
          palletRpc, callable, inputParams,    \* the form's state
          callables,      \* the list of callables
          paramFields,    \* the fields on the screen
          edits

formState == <<palletRpc, callable, inputParams>>
interactorVars == <<interxType, formState, callables, paramFields, edits>>
vars == <<contextVars, buttonVars, interactorVars>>

(* An input keeps, as a history, which field of which call it was typed    *)
(* for; the form makes a sparse array of them.                             *)
Input(i, text) == [is |-> "input", value |-> text, for |-> <<interxType, palletRpc, callable, i>>]

InteractorTypeOK ==
  /\ ContextTypeOK /\ ButtonTypeOK
  /\ interxType \in InterxType /\ edits \in 0 .. MaxEdits
  /\ DOMAIN inputParams \subseteq DOMAIN paramFields
  /\ palletRpc = "" \/ callable = "" => paramFields = <<>>
  /\ palletRpc # "" => callables = DOMAIN Api[interxType][palletRpc]

InteractorInit ==
  /\ ContextInit /\ ButtonInit
  /\ interxType = "EXTRINSIC" /\ palletRpc = "" /\ callable = "" /\ inputParams = <<>>
  /\ callables = {} /\ paramFields = <<>> /\ edits = 0

-----------------------------------------------------------------------------
(* The handlers of the form, with the effects they lead to. *)

Edits == shown /\ edits < MaxEdits /\ edits' = edits + 1

(* A mutant of updateCallables whose effect runs once only. *)
CallablesOnce ==
  callables' = IF palletRpc' \in DOMAIN Api[interxType'] /\ callables = {}
               THEN DOMAIN Api[interxType'][palletRpc'] ELSE callables

(* Without a pallet the list stays as it is. *)
updateCallables ==
  callables' = IF palletRpc' \in DOMAIN Api[interxType']
               THEN DOMAIN Api[interxType'][palletRpc'] ELSE callables

(* Without a pallet or a callable there are no fields. *)
updateParamFields ==
  paramFields' = IF palletRpc' \in DOMAIN Api[interxType']
                 THEN LET calls == Api[interxType'][palletRpc']
                      IN  IF callable' \in DOMAIN calls THEN calls[callable'] ELSE <<>>
                 ELSE <<>>

(* The buttons of an extrinsic are other elements than the one of the rest.*)
RenderButtons ==
  IF interxType' # interxType /\ "EXTRINSIC" \in {interxType, interxType'}
  THEN MountButtons ELSE UNCHANGED <<mount, unsub, sudoKey>>

(* A mutant of onInterxTypeChange that does not clear the form's state. *)
KeepFormState(type) ==
  /\ Edits /\ type # interxType
  /\ interxType' = type
  /\ UNCHANGED formState
  /\ updateCallables /\ updateParamFields /\ RenderButtons

onInterxTypeChange(type) ==
  /\ Edits /\ type # interxType
  /\ interxType' = type
  /\ palletRpc' = "" /\ callable' = "" /\ inputParams' = <<>>
  /\ updateCallables /\ updateParamFields /\ RenderButtons

(* onPalletCallableParamChange, of the three kinds of control *)
choosePallet(p) ==
  /\ Edits /\ p \in DOMAIN Api[interxType] \ {palletRpc}
  /\ palletRpc' = p /\ callable' = "" /\ inputParams' = <<>>
  /\ UNCHANGED interxType
  /\ updateCallables /\ updateParamFields /\ RenderButtons

(* A mutant of chooseCallable that keeps the inputs of the call before. *)
KeepInputs(c) ==
  /\ Edits /\ c \in callables \ {callable}
  /\ callable' = c
  /\ UNCHANGED <<interxType, palletRpc, inputParams>>
  /\ updateCallables /\ updateParamFields /\ RenderButtons

(* The list may be one of a type left before, while no pallet is chosen. *)
chooseCallable(c) ==
  /\ Edits /\ c \in callables \ {callable}
  /\ callable' = c /\ inputParams' = <<>>
  /\ UNCHANGED <<interxType, palletRpc>>
  /\ updateCallables /\ updateParamFields /\ RenderButtons

enterParam(i, text) ==
  /\ Edits /\ i \in DOMAIN paramFields
  /\ text # (IF i \in DOMAIN inputParams THEN inputParams[i].value ELSE "")
  /\ inputParams' = [j \in DOMAIN inputParams \cup {i} |->
                       IF j = i THEN Input(i, text) ELSE inputParams[j]]
  /\ UNCHANGED <<interxType, palletRpc, callable, callables, paramFields, mount, unsub, sudoKey>>

FormStep ==
  /\ \/ \E type \in InterxType : onInterxTypeChange(type)
     \/ \E p \in DOMAIN Api[interxType] : choosePallet(p)
     \/ \E c \in callables : chooseCallable(c)
     \/ \E i \in DOMAIN paramFields, text \in Texts \cup {"", Space} : enterParam(i, text)
  /\ UNCHANGED <<contextVars, subs, status>>

-----------------------------------------------------------------------------
(* The buttons. *)

(* InteractorSubmit, and TxGroupButton for an extrinsic *)
OnScreen == IF interxType = "EXTRINSIC" THEN Group ELSE {"single"}

ButtonType(slot) ==
  CASE slot = "unsigned" -> "UNSIGNED-TX"
    [] slot = "signed" -> "SIGNED-TX"
    [] slot = "sudo" -> "SUDO-TX"
    [] slot = "single" -> interxType

(* A mutant of Complete that looks at the fields that were filled only.    *)
CompleteSoFar ==
  /\ palletRpc # "" /\ callable # ""
  /\ \A i \in DOMAIN inputParams : inputParams[i].value # ""

(* A call is chosen and its parameters are there. *)
Complete == palletRpc # "" /\ callable # "" /\ allParamsFilled(paramFields, inputParams)

arguments == transformParams(paramFields, inputParams, interxType # "RPC")

ButtonStep(A) == A /\ UNCHANGED <<contextVars, interactorVars>>

Press == Complete /\ \E slot \in OnScreen : ButtonStep(transaction(slot, ButtonType(slot)))

(* A step of the context; a page that is mounted starts anew. *)
ContextStep ==
  /\ ContextNext
  /\ IF page' = page
     THEN UNCHANGED <<buttonVars, interactorVars>>
     ELSE /\ interxType' = "EXTRINSIC" /\ palletRpc' = "" /\ callable' = "" /\ inputParams' = <<>>
          /\ callables' = {} /\ paramFields' = <<>>
          /\ MountButtons /\ status' = Blank /\ UNCHANGED <<subs, edits>>

InteractorNext ==
  \/ ContextStep
  \/ FormStep
  \/ Press
  \/ ButtonStep(LoadSudoKey)
  \/ \E s \in DOMAIN subs : ButtonStep(getFromAcct(s))
  \/ \E s \in DOMAIN subs : ButtonStep(Answer(s))
  \/ \E s \in DOMAIN subs : ButtonStep(Report(s))

(* What the buttons' submissions come to is the page's question            *)
(* (FoodPage.tla); of the interactor's events none has to happen.          *)
InteractorSpec == InteractorInit /\ [][InteractorNext]_vars

-----------------------------------------------------------------------------
(* The properties of the interactor, beside those of its buttons. *)

(* A button that can be pressed calls something that exists, and asks for  *)
(* the parameters of that call, although the list of callables may be that *)
(* of a type left before.  (The effects of Interactor.js, and the resets   *)
(* of its handlers.)                                                       *)
CompleteCallExists ==
  Complete =>
    /\ palletRpc \in DOMAIN Api[interxType]
    /\ callable \in DOMAIN Api[interxType][palletRpc]
    /\ paramFields = Api[interxType][palletRpc][callable]

(* Nothing, or only blanks, was entered for field i. *)
LeftBlank(i) == Trim(param(inputParams, i).value) = ""

(* What a press hands to the API was typed for that very parameter of that *)
(* call, in its place; null stands only for an optional field left empty   *)
(* or for one filled with blanks.  An RPC leaves the nulls out, which      *)
(* moves the rest: it is held to its places when nothing was left blank,   *)
(* and to leaving out no more than that.  (inputParams in Interactor.js    *)
(* against transformParams and allParamsFilled in TxButton.js.)            *)
ArgumentsWereEntered ==
  Complete =>
    /\ Len(arguments) = Len(paramFields) =>
         \A i \in DOMAIN arguments :
           IF arguments[i] = Null
           THEN LeftBlank(i) /\ (paramFields[i].optional \/ param(inputParams, i).value = Space)
           ELSE /\ inputParams[i].for = <<interxType, palletRpc, callable, i>>
                /\ arguments[i] = [is |-> paramFields[i].type, value |-> inputParams[i].value]
    /\ Len(arguments) < Len(paramFields) =>
         interxType = "RPC" /\ \E i \in DOMAIN paramFields : LeftBlank(i)
=============================================================================
