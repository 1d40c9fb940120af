------------------------------ MODULE FoodPage ------------------------------
(***************************************************************************)
(* The page: the menu of FoodTraceability.js and the seven forms it        *)
(* chooses between, on top of the context and the button.                  *)
(*                                                                         *)
(* Every form is a <Form> whose last field holds one TxButton, and React   *)
(* tells elements apart by their position only: two forms with the button  *)
(* at the same position share one mounted button, hooks and all.  The      *)
(* status is a state of TxSelector, which all forms share.  What the forms *)
(* are filled with is left open: a press may come at any time.             *)
(***************************************************************************)
EXTENDS TxButton

CONSTANT MaxMounts   \* bound: mounts of a button by way of the menu

ASSUME PageAssumption == Slots = {"form"} /\ MaxMounts \in Nat

VARIABLE btnType

pageVars == <<contextVars, buttonVars, btnType>>

(* The index of the button's field among the fields of each form. *)
Position == [produce |-> 6, trade |-> 4, store |-> 4, transport |-> 6,
             setAccountGLN |-> 2, setManufacturerLicense |-> 2, qrCode |-> 4]
Forms == DOMAIN Position

ButtonType(form) ==
  IF form = "qrCode" THEN "RPC"
  ELSE IF form \in {"setAccountGLN", "setManufacturerLicense"} THEN "SUDO-TX" ELSE "SIGNED-TX"

PageTypeOK == ContextTypeOK /\ ButtonTypeOK /\ btnType \in Forms

PageInit == ContextInit /\ ButtonInit /\ btnType = "produce"

(* setBtnType: React keeps the button whose position does not change. *)
setBtnType(form) ==
  /\ shown /\ form # btnType
  /\ btnType' = form
  /\ IF Position[form] = Position[btnType]
     THEN UNCHANGED <<mount, unsub, sudoKey>>
     ELSE mount < MaxMounts /\ MountButtons
  /\ UNCHANGED <<contextVars, subs, status>>

(* A step of the context.  A page that is mounted starts from its first    *)
(* form, with a fresh status.                                              *)
ContextStep ==
  /\ ContextNext
  /\ IF page' = page
     THEN UNCHANGED <<buttonVars, btnType>>
     ELSE MountButtons /\ btnType' = "produce" /\ status' = Blank /\ UNCHANGED subs

ButtonStep(A) == A /\ UNCHANGED <<contextVars, btnType>>

Press == ButtonStep(transaction("form", ButtonType(btnType)))

PageNext ==
  \/ ContextStep
  \/ \E form \in Forms : setBtnType(form)
  \/ ButtonStep(LoadSudoKey)
  \/ Press
  \/ \E s \in DOMAIN subs : ButtonStep(getFromAcct(s))
  \/ \E s \in DOMAIN subs : ButtonStep(Answer(s))
  \/ \E s \in DOMAIN subs : ButtonStep(Report(s))

(* While the socket is up the API settles what it was given, and a         *)
(* subscription that is open reports.  Nothing is assumed of the user, the *)
(* extension or the socket.                                                *)
AnswerNth(s) == s \in DOMAIN subs /\ link = "up" /\ ButtonStep(Answer(s))
ReportNth(s) == s \in DOMAIN subs /\ link = "up" /\ ButtonStep(Report(s))

PageFairness ==
  /\ WF_pageVars(ContextStep /\ Connect)
  /\ WF_pageVars(ContextStep /\ Ready)
  /\ \A s \in 1 .. MaxSubmissions : WF_pageVars(AnswerNth(s)) /\ WF_pageVars(ReportNth(s))

PageSpec == PageInit /\ [][PageNext]_pageVars /\ PageFairness

-----------------------------------------------------------------------------
(* The properties of the page, beside those of its button. *)

(* The account the user picked stays picked, across lost connections and   *)
(* pages that are mounted anew.  (The effect of AccountSelector.js.)       *)
ChosenAccountKept == chosen # None => currentAccount = chosen

(* A connection is noticed: whenever the socket is up the page learns that *)
(* the API is ready, on a reconnection too, when 'ready' is not emitted,   *)
(* unless the socket is lost first.  (SubstrateContext.js:74-75.)          *)
ReconnectIsNoticed == (link = "up") ~> (apiState = "READY" \/ link = "down")
=============================================================================
