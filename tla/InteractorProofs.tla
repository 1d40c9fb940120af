-------------------------- MODULE InteractorProofs --------------------------
(***************************************************************************)
(* What the interactor's safety rests on, for any API: the invariant of    *)
(* the buttons, kept whatever the user chooses, and that of the form, in   *)
(* which the lists and fields on the screen may be stale only as long as   *)
(* no pallet is chosen.                                                    *)
(***************************************************************************)
EXTENDS Interactor, ButtonProofs, FiniteSetTheorems

(* The fields of a choice. *)
Fields(type, p, c) ==
  IF p \in DOMAIN Api[type]
  THEN LET calls == Api[type][p] IN IF c \in DOMAIN calls THEN calls[c] ELSE <<>>
  ELSE <<>>

(* Every input was typed for the field it fills, of the call on the screen. *)
InputsBelong ==
  \A i \in DOMAIN inputParams :
    inputParams[i].is = "input" /\ inputParams[i].for = <<interxType, palletRpc, callable, i>>

FormInv ==
  /\ interxType \in InterxType /\ edits \in 0 .. MaxEdits
  /\ palletRpc = "" \/ palletRpc \in DOMAIN Api[interxType]
  /\ palletRpc # "" => callables = DOMAIN Api[interxType][palletRpc]
  /\ palletRpc = "" \/ callable = "" \/ callable \in callables
  /\ paramFields = Fields(interxType, palletRpc, callable)
  /\ DOMAIN inputParams \subseteq DOMAIN paramFields
  /\ InputsBelong

InteractorInv == ContextTypeOK /\ ButtonInv /\ StatusIsLatest /\ FormInv

-----------------------------------------------------------------------------
(* The form. *)

LEMMA BoundFact == MaxEdits \in Nat
BY InteractorAssumption

LEMMA ApiFacts ==
  \A type \in InterxType :
    "" \notin DOMAIN Api[type] /\ \A p \in DOMAIN Api[type] : "" \notin DOMAIN Api[type][p]
BY InteractorAssumption

LEMMA NothingChosen ==
  /\ "EXTRINSIC" \in InterxType /\ DOMAIN <<>> = {}
  /\ \A type \in InterxType : Fields(type, "", "") = <<>>
<1>1. "EXTRINSIC" \in InterxType
  BY DEF InterxType
<1>2. DOMAIN <<>> = {}
  BY EmptySeq
<1>3. \A type \in InterxType : Fields(type, "", "") = <<>>
  BY ApiFacts DEF Fields
<1> QED BY <1>1, <1>2, <1>3

LEMMA EditsTyped ==
  ASSUME edits \in 0 .. MaxEdits, Edits
  PROVE  edits' \in 0 .. MaxEdits
<1>1. edits < MaxEdits /\ edits' = edits + 1
  BY DEF Edits
<1> QED BY <1>1, BoundFact

LEMMA FormStepInv ==
  ASSUME FormInv, FormStep
  PROVE  FormInv' /\ (MountButtons \/ UNCHANGED <<mount, unsub, sudoKey>>)
<1>1. ASSUME Edits, interxType' \in InterxType, updateCallables, updateParamFields, inputParams' = <<>>,
             palletRpc' = "" \/ palletRpc' \in DOMAIN Api[interxType'],
             \/ palletRpc' = "" \/ callable' = ""
             \/ callable' \in callables /\ palletRpc' = palletRpc /\ interxType' = interxType
      PROVE  FormInv'
  <2>1. paramFields' = Fields(interxType', palletRpc', callable')
    BY <1>1 DEF updateParamFields, Fields
  <2>2. palletRpc' # "" => callables' = DOMAIN Api[interxType'][palletRpc']
    BY <1>1 DEF updateCallables
  <2>3. palletRpc' = "" \/ callable' = "" \/ callable' \in callables'
    BY <1>1, <2>2 DEF FormInv
  <2>4. edits' \in 0 .. MaxEdits
    BY <1>1, EditsTyped DEF FormInv
  <2>5. DOMAIN inputParams' = {}
    BY <1>1, NothingChosen
  <2> QED BY <1>1, <2>1, <2>2, <2>3, <2>4, <2>5 DEF FormInv, Fields, InputsBelong
<1>2. ASSUME NEW type \in InterxType, onInterxTypeChange(type) PROVE FormInv'
  BY <1>1, <1>2 DEF onInterxTypeChange
<1>3. ASSUME NEW p \in DOMAIN Api[interxType], choosePallet(p) PROVE FormInv'
  BY <1>1, <1>3 DEF choosePallet, FormInv
<1>4. ASSUME NEW c \in callables, chooseCallable(c) PROVE FormInv'
  BY <1>1, <1>4 DEF chooseCallable, FormInv
<1>5. ASSUME NEW i \in DOMAIN paramFields, NEW text, enterParam(i, text) PROVE FormInv'
  <2>1. DOMAIN inputParams' = DOMAIN inputParams \cup {i}
    BY <1>5 DEF enterParam
  <2>2. UNCHANGED <<interxType, palletRpc, callable, callables, paramFields>>
    BY <1>5 DEF enterParam
  <2>3. edits' \in 0 .. MaxEdits
    BY <1>5, EditsTyped DEF enterParam, FormInv
  <2>4. InputsBelong'
    <3> SUFFICES ASSUME NEW j \in DOMAIN inputParams'
                 PROVE  /\ inputParams'[j].is = "input"
                        /\ inputParams'[j].for = <<interxType, palletRpc, callable, j>>
      BY <2>2 DEF InputsBelong
    <3>1. inputParams'[j] = IF j = i THEN Input(i, text) ELSE inputParams[j]
      BY <1>5, <2>1 DEF enterParam
    <3>2. Input(i, text).is = "input" /\ Input(i, text).for = <<interxType, palletRpc, callable, i>>
      BY DEF Input
    <3>3. j # i => j \in DOMAIN inputParams
      BY <2>1
    <3> QED BY <3>1, <3>2, <3>3 DEF FormInv, InputsBelong
  <2> QED BY <1>5, <2>1, <2>2, <2>3, <2>4 DEF FormInv, Fields
<1>6. MountButtons \/ UNCHANGED <<mount, unsub, sudoKey>>
  BY DEF FormStep, onInterxTypeChange, choosePallet, chooseCallable, enterParam, RenderButtons
<1> QED BY <1>2, <1>3, <1>4, <1>5, <1>6 DEF FormStep

-----------------------------------------------------------------------------
(* The invariant. *)

LEMMA InteractorInitInv == InteractorInit => InteractorInv
<1> SUFFICES ASSUME InteractorInit PROVE InteractorInv
  OBVIOUS
<1>1. /\ interxType = "EXTRINSIC" /\ palletRpc = "" /\ callable = "" /\ inputParams = <<>>
      /\ callables = {} /\ paramFields = <<>> /\ edits = 0
  BY DEF InteractorInit
<1>2. interxType \in InterxType
  BY <1>1, NothingChosen
<1>3. edits \in 0 .. MaxEdits
  <2>1. edits = 0
    BY <1>1
  <2> QED BY <2>1, BoundFact
<1>4. FormInv
  BY <1>1, <1>2, <1>3, NothingChosen DEF FormInv, InputsBelong
<1> QED BY <1>4, ContextInitTyped, ButtonInitInv DEF InteractorInit, InteractorInv

LEMMA InteractorStepInv ==
  ASSUME InteractorInv, [InteractorNext]_vars
  PROVE  InteractorInv'
<1>1. ContextTypeOK /\ ButtonInv /\ StatusIsLatest /\ FormInv
  BY DEF InteractorInv
<1>2. currentAccount \in Accounts \cup {None} /\ page \in Nat
  BY <1>1 DEF ContextTypeOK
<1>3. UNCHANGED contextVars => ContextTypeOK' /\ UNCHANGED page
  BY <1>1, ContextTyped DEF contextVars
<1>4. UNCHANGED interactorVars => FormInv'
  BY <1>1 DEF interactorVars, formState, FormInv, Fields, InputsBelong
<1>5. CASE ContextStep
  <2>1. ContextTypeOK'
    BY <1>1, <1>5, ContextTyped DEF ContextStep
  <2>2. CASE page' = page
    BY <1>1, <1>4, <1>5, <2>1, <2>2, IdleInv DEF ContextStep, InteractorInv
  <2>3. CASE page' # page
    <3>1. /\ interxType' = "EXTRINSIC" /\ palletRpc' = "" /\ callable' = "" /\ inputParams' = <<>>
          /\ paramFields' = <<>> /\ edits' = edits
          /\ MountButtons /\ status' = Blank /\ UNCHANGED subs
      BY <1>5, <2>3 DEF ContextStep
    <3>2. interxType' \in InterxType /\ Fields(interxType', palletRpc', callable') = <<>>
          /\ DOMAIN inputParams' = {}
      BY <3>1, NothingChosen DEF InterxType
    <3>3. FormInv'
      BY <1>1, <3>1, <3>2 DEF FormInv, Fields, InputsBelong
    <3> QED BY <1>1, <2>1, <3>1, <3>3, MountInvariant DEF InteractorInv
  <2> QED BY <2>2, <2>3
<1>6. CASE FormStep
  <2>1. FormInv' /\ UNCHANGED <<contextVars, subs, status>>
    BY <1>1, <1>6, FormStepInv DEF FormStep
  <2>2. CASE UNCHANGED <<mount, unsub, sudoKey>>
    BY <1>1, <1>3, <2>1, <2>2, IdleInv DEF buttonVars, InteractorInv
  <2>3. CASE MountButtons
    BY <1>1, <1>3, <2>1, <2>3, MountInvariant DEF InteractorInv
  <2> QED BY <1>1, <1>6, <2>2, <2>3, FormStepInv
<1>7. CASE ButtonStep(LoadSudoKey)
  BY <1>1, <1>3, <1>4, <1>7, LoadSudoKeyInv DEF ButtonStep, InteractorInv
<1>8. CASE Press
  <2>1. PICK slot \in OnScreen : ButtonStep(transaction(slot, ButtonType(slot)))
    BY <1>8 DEF Press
  <2>2. slot \in Slots /\ ButtonType(slot) \in Type
    BY <1>1, InteractorAssumption
    DEF OnScreen, Group, ButtonType, Type, Extrinsic, Signs, Sudo, FormInv, InterxType
  <2> QED BY <1>1, <1>2, <1>3, <1>4, <2>1, <2>2, PressInv DEF ButtonStep, InteractorInv
<1>9. ASSUME NEW s \in DOMAIN subs,
             ButtonStep(getFromAcct(s)) \/ ButtonStep(Answer(s)) \/ ButtonStep(Report(s))
      PROVE  InteractorInv'
  BY <1>1, <1>3, <1>4, <1>9, GetFromAcctInv, AnswerInv, ReportInv DEF ButtonStep, InteractorInv
<1>10. CASE UNCHANGED vars
  BY <1>1, <1>3, <1>4, <1>10, IdleInv DEF vars, InteractorInv
<1> QED BY <1>5, <1>6, <1>7, <1>8, <1>9, <1>10 DEF InteractorNext

LEMMA InteractorInvariant == InteractorSpec => []InteractorInv
<1>1. InteractorInit => InteractorInv
  BY InteractorInitInv
<1>2. InteractorInv /\ [InteractorNext]_vars => InteractorInv'
  BY InteractorStepInv
<1> QED BY <1>1, <1>2, PTL DEF InteractorSpec

-----------------------------------------------------------------------------
(* The interactor's variables keep their types and their relations: no     *)
(* input outlives its field.                                               *)
THEOREM InteractorTypeCorrect == InteractorSpec => []InteractorTypeOK
<1>1. InteractorInv => InteractorTypeOK
  <2> SUFFICES ASSUME InteractorInv PROVE InteractorTypeOK
    OBVIOUS
  <2>1. palletRpc = "" \/ callable = "" => paramFields = <<>>
    BY ApiFacts DEF InteractorInv, FormInv, Fields
  <2> QED BY <2>1 DEF InteractorInv, FormInv, InteractorTypeOK, ButtonInv
<1> QED BY <1>1, InteractorInvariant, PTL

(* A button that can be pressed calls something that the API offers, with  *)
(* the fields of that call on the screen, although the list of callables   *)
(* may be stale.  (The effects and handlers of Interactor.js.)             *)
THEOREM InteractorCalls == InteractorSpec => []CompleteCallExists
<1>1. InteractorInv => CompleteCallExists
  <2> SUFFICES ASSUME InteractorInv, palletRpc # "", callable # ""
               PROVE  /\ palletRpc \in DOMAIN Api[interxType]
                      /\ callable \in DOMAIN Api[interxType][palletRpc]
                      /\ paramFields = Api[interxType][palletRpc][callable]
    BY DEF CompleteCallExists, Complete
  <2>1. palletRpc \in DOMAIN Api[interxType] /\ callable \in DOMAIN Api[interxType][palletRpc]
    BY DEF InteractorInv, FormInv
  <2> QED BY <2>1 DEF InteractorInv, FormInv, Fields
<1> QED BY <1>1, InteractorInvariant, PTL

(* Going from a kind of call to another that shares its button loses no    *)
(* subscription.  (unsub() and setUnsub in TxButton.js.)                   *)
THEOREM InteractorOrphans == InteractorSpec => []OnlyKnownOrphans
<1>1. InteractorInv => OnlyKnownOrphans
  BY ButtonInvGives DEF InteractorInv
<1> QED BY <1>1, InteractorInvariant, PTL

(* The interactor's status is that of its latest submission, or of another *)
(* button than that one's.  (setStatus in TxButton.js.)                    *)
THEOREM InteractorStatus == InteractorSpec => []StatusIsLatest
<1>1. InteractorInv => StatusIsLatest
  BY DEF InteractorInv
<1> QED BY <1>1, InteractorInvariant, PTL

-----------------------------------------------------------------------------
(* What a press hands over. *)

\* What becomes of n parameters: all of them as they are, or fewer when an empty one
\* is left out.
LEMMA ParamsKept ==
  ASSUME NEW fields, NEW n \in Nat, DOMAIN fields = 1 .. n, NEW params, NEW emptyAsNull \in BOOLEAN
  PROVE  LET args == transformParams(fields, params, emptyAsNull)
             value(i) == Value(fields[i], param(params, i))
         IN  /\ Len(args) \in 0 .. n /\ DOMAIN args = 1 .. Len(args)
             /\ Len(args) = n => \A i \in 1 .. n : args[i] = value(i)
             /\ Len(args) < n => ~emptyAsNull /\ \E i \in 1 .. n : value(i).is = "null"
<1> DEFINE values == [i \in DOMAIN fields |-> Value(fields[i], param(params, i))]
           added == {i \in DOMAIN fields : emptyAsNull \/ values[i].is # "null"}
           Place(i) == Cardinality({j \in added : j <= i})
           args == transformParams(fields, params, emptyAsNull)
<1>1. args = [k \in 1 .. Cardinality(added) |-> values[CHOOSE i \in added : Place(i) = k]]
  BY DEF transformParams
<1>2. added \in SUBSET (1 .. n) /\ \A i \in 1 .. n : i \notin added => ~emptyAsNull /\ values[i].is = "null"
  <2> HIDE DEF values
  <2> QED BY Zenon
<1>3. \A i \in 1 .. n : values[i] = Value(fields[i], param(params, i))
  OBVIOUS
<1> HIDE DEF values, args
<1>4. IsFiniteSet(1 .. n) /\ \A i \in 0 .. n : IsFiniteSet(1 .. i) /\ Cardinality(1 .. i) = i
  BY FS_Interval
<1>5. /\ IsFiniteSet(added) /\ Cardinality(added) \in Nat /\ Cardinality(added) <= n
      /\ Cardinality(added) = n => added = 1 .. n
  <2>1. Cardinality(1 .. n) = n
    BY <1>4
  <2> HIDE DEF added
  <2> QED BY <1>2, <1>4, <2>1, FS_Subset, FS_CardinalityType
<1>6. Len(args) = Cardinality(added) /\ DOMAIN args = 1 .. Cardinality(added)
  <2> DEFINE c == Cardinality(added)
             e(k) == values[CHOOSE i \in added : Place(i) = k]
  <2>1. c \in Nat /\ args = [k \in 1 .. c |-> e(k)]
    BY <1>1, <1>5
  <2> HIDE DEF c, e
  <2> QED BY <2>1 DEF c
<1>7. ASSUME Cardinality(added) = n, NEW k \in 1 .. n PROVE args[k] = values[k]
  <2>1. added = 1 .. n
    BY <1>5, <1>7
  <2>2. ASSUME NEW i \in 1 .. n PROVE Place(i) = i
    <3>1. {j \in added : j <= i} = 1 .. i
      BY <2>1
    <3>2. i \in 0 .. n
      OBVIOUS
    <3>3. Cardinality(1 .. i) = i
      BY <1>4, <3>2
    <3> QED BY <3>1, <3>3
  <2> HIDE DEF added, Place
  <2>3. k \in added /\ Place(k) = k /\ \A i \in added : Place(i) = k => i = k
    BY <2>1, <2>2
  <2>4. (CHOOSE i \in added : Place(i) = k) = k
    BY <2>3
  <2> QED BY <1>1, <1>7, <2>4
<1>8. Cardinality(added) < n => \E i \in 1 .. n : i \notin added
  <2>1. added = 1 .. n => Cardinality(added) = n
    <3>1. Cardinality(1 .. n) = n
      BY <1>4
    <3> HIDE DEF added
    <3> QED BY <3>1
  <2>2. added # 1 .. n => \E i \in 1 .. n : i \notin added
    <3> HIDE DEF added
    <3> QED BY <1>2
  <2> HIDE DEF added
  <2> QED BY <1>5, <2>1, <2>2
<1> HIDE DEF added
<1>9. Len(args) \in 0 .. n /\ DOMAIN args = 1 .. Len(args)
  BY <1>5, <1>6
<1>10. Len(args) = n => \A i \in 1 .. n : args[i] = Value(fields[i], param(params, i))
  BY <1>3, <1>6, <1>7
<1>11. Len(args) < n => ~emptyAsNull /\ \E i \in 1 .. n : Value(fields[i], param(params, i)).is = "null"
  BY <1>2, <1>3, <1>6, <1>8
<1> QED BY <1>9, <1>10, <1>11 DEF args

LEMMA FieldsTyped ==
  ASSUME FormInv
  PROVE  paramFields \in Seq(ParamField)
<1>1. \A S : <<>> \in Seq(S)
  OBVIOUS
<1>2. palletRpc \in DOMAIN Api[interxType] /\ callable \in DOMAIN Api[interxType][palletRpc] =>
        Api[interxType][palletRpc][callable] \in Seq(ParamField)
  BY InteractorAssumption DEF FormInv
<1> QED BY <1>1, <1>2 DEF FormInv, Fields

(* What an input or its absence becomes: null, or the text as it was typed.*)
LEMMA ParamSent ==
  ASSUME FormInv, NEW i \in DOMAIN paramFields
  PROVE  LET field == paramFields[i]
             p == param(inputParams, i)
         IN  \/ Value(field, p) = Null /\ LeftBlank(i)
             \/ /\ i \in DOMAIN inputParams /\ Trim(p.value) # ""
                /\ Value(field, p) = [is |-> field.type, value |-> p.value]
                /\ p.for = <<interxType, palletRpc, callable, i>>
<1> DEFINE p == param(inputParams, i)
<1>1. CASE i \notin DOMAIN inputParams
  <2>1. p = Undefined
    BY <1>1 DEF param
  <2>2. p.is = "undefined" /\ Trim(p.value) = ""
    <3>1. Undefined.is = "undefined" /\ Undefined.value = "" /\ Trim("") = ""
      BY DEF Undefined, Trim
    <3> QED BY <2>1, <3>1
  <2> HIDE DEF p
  <2>3. Value(paramFields[i], p) = Null
    BY <2>2 DEF Value
  <2> QED BY <2>2, <2>3 DEF LeftBlank, p
<1>2. CASE i \in DOMAIN inputParams
  <2>1. p = inputParams[i]
    BY <1>2 DEF param
  <2>2. p.is = "input" /\ p.for = <<interxType, palletRpc, callable, i>>
    BY <1>2, <2>1 DEF FormInv, InputsBelong
  <2>3. Trim(p.value) = "" \/ Trim(p.value) = p.value
    BY DEF Trim
  <2> HIDE DEF p
  <2>4. CASE Trim(p.value) = ""
    <3>1. Value(paramFields[i], p) = Null
      BY <2>2, <2>4 DEF Value, Typed
    <3> QED BY <2>4, <3>1 DEF LeftBlank, p
  <2>5. CASE Trim(p.value) # ""
    <3>1. Value(paramFields[i], p) = [is |-> paramFields[i].type, value |-> p.value]
      BY <2>2, <2>3, <2>5 DEF Value, Typed
    <3> QED BY <1>2, <2>2, <2>5, <3>1 DEF p
  <2> QED BY <2>4, <2>5
<1> QED BY <1>1, <1>2

(* Each argument of a press was typed for that parameter of that call;     *)
(* what is null was left empty, or filled with blanks, and an RPC leaves   *)
(* out no more than that, for any API and any number of parameters.        *)
(* (inputParams in Interactor.js; transformParams and allParamsFilled in   *)
(* TxButton.js.)                                                           *)
THEOREM InteractorArguments == InteractorSpec => []ArgumentsWereEntered
<1>1. InteractorInv => ArgumentsWereEntered
  <2> SUFFICES ASSUME InteractorInv, Complete PROVE ArgumentsWereEntered
    BY DEF ArgumentsWereEntered
  <2>1. FormInv
    BY DEF InteractorInv
  <2> DEFINE n == Len(paramFields)
             emptyAsNull == interxType # "RPC"
  <2>2. n \in Nat /\ DOMAIN paramFields = 1 .. n /\ \A i \in 1 .. n : paramFields[i] \in ParamField
    BY <2>1, FieldsTyped
  <2>3. arguments = transformParams(paramFields, inputParams, emptyAsNull) /\ emptyAsNull \in BOOLEAN
    BY DEF arguments
  <2> HIDE DEF n, emptyAsNull
  <2>4. /\ Len(arguments) \in 0 .. n /\ DOMAIN arguments = 1 .. Len(arguments)
        /\ Len(arguments) = n =>
             \A i \in 1 .. n : arguments[i] = Value(paramFields[i], param(inputParams, i))
        /\ Len(arguments) < n =>
             /\ ~emptyAsNull
             /\ \E i \in 1 .. n : Value(paramFields[i], param(inputParams, i)).is = "null"
    BY <2>2, <2>3, ParamsKept
  <2>5. ASSUME Len(arguments) = n, NEW i \in DOMAIN arguments
        PROVE  IF arguments[i] = Null
               THEN LeftBlank(i) /\ (paramFields[i].optional \/ param(inputParams, i).value = Space)
               ELSE /\ inputParams[i].for = <<interxType, palletRpc, callable, i>>
                    /\ arguments[i] = [is |-> paramFields[i].type, value |-> inputParams[i].value]
    <3> DEFINE p == param(inputParams, i)
    <3>1. i \in DOMAIN paramFields /\ arguments[i] = Value(paramFields[i], p) /\ paramFields[i] \in ParamField
      BY <2>2, <2>4, <2>5
    <3>2. paramFields[i].optional \/ (p.is # "undefined" /\ (Typed(p) => p.value # ""))
      BY <3>1 DEF Complete, allParamsFilled
    <3>3. \/ arguments[i] = Null /\ LeftBlank(i)
          \/ /\ i \in DOMAIN inputParams /\ Trim(p.value) # ""
             /\ arguments[i] = [is |-> paramFields[i].type, value |-> p.value]
             /\ p.for = <<interxType, palletRpc, callable, i>>
      BY <2>1, <3>1, ParamSent
    <3>4. i \in DOMAIN inputParams => p = inputParams[i] /\ p.is = "input"
      BY <2>1 DEF param, FormInv, InputsBelong
    <3>5. i \notin DOMAIN inputParams => p.is = "undefined"
      BY DEF param, Undefined
    <3>6. paramFields[i].type # "null"
      BY <3>1 DEF ParamField
    <3>7. CASE arguments[i] = Null
      <4>1. arguments[i].is = "null"
        <5>1. Null.is = "null"
          BY DEF Null
        <5> QED BY <3>7, <5>1
      <4>2. LeftBlank(i)
        <5>1. arguments[i] = [is |-> paramFields[i].type, value |-> p.value] =>
                arguments[i].is = paramFields[i].type
          OBVIOUS
        <5> QED BY <3>3, <3>6, <4>1, <5>1
      <4>3. Trim(p.value) = ""
        BY <4>2 DEF LeftBlank
      <4>4. ~paramFields[i].optional => p.is = "input" /\ p.value # ""
        BY <3>2, <3>4, <3>5 DEF Typed
      <4>5. ~paramFields[i].optional => p.value = Space
        BY <4>3, <4>4 DEF Trim
      <4> QED BY <3>7, <4>2, <4>5
    <3>8. CASE arguments[i] # Null
      BY <3>3, <3>4, <3>8
    <3> QED BY <3>7, <3>8
  <2>6. ASSUME Len(arguments) < n
        PROVE  interxType = "RPC" /\ \E i \in DOMAIN paramFields : LeftBlank(i)
    <3>1. PICK i \in 1 .. n : Value(paramFields[i], param(inputParams, i)).is = "null"
      BY <2>4, <2>6
    <3>2. i \in DOMAIN paramFields /\ paramFields[i].type # "null"
      BY <2>2 DEF ParamField
    <3>3. Value(paramFields[i], param(inputParams, i)) =
            [is |-> paramFields[i].type, value |-> param(inputParams, i).value] =>
          Value(paramFields[i], param(inputParams, i)).is = paramFields[i].type
      OBVIOUS
    <3>4. LeftBlank(i)
      BY <2>1, <3>1, <3>2, <3>3, ParamSent
    <3>5. interxType = "RPC"
      BY <2>4, <2>6 DEF emptyAsNull
    <3> QED BY <3>2, <3>4, <3>5
  <2> QED BY <2>5, <2>6 DEF ArgumentsWereEntered, n
<1> QED BY <1>1, InteractorInvariant, PTL
=============================================================================
