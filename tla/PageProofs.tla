----------------------------- MODULE PageProofs -----------------------------
(***************************************************************************)
(* What the page's safety rests on, for any set of accounts and any number *)
(* of presses, mounts and lost connections: the invariant of the buttons,  *)
(* kept by every step of the context and the menu.                         *)
(***************************************************************************)
EXTENDS FoodPage, ButtonProofs

PageInv == ContextTypeOK /\ ButtonInv /\ StatusIsLatest /\ btnType \in Forms

LEMMA PageInitInv == PageInit => PageInv
<1> SUFFICES ASSUME PageInit PROVE PageInv
  OBVIOUS
<1>1. btnType \in Forms
  BY DEF PageInit, Forms, Position
<1> QED BY <1>1, ContextInitTyped, ButtonInitInv DEF PageInit, PageInv

LEMMA PageStepInv ==
  ASSUME PageInv, [PageNext]_pageVars
  PROVE  PageInv'
<1>1. ContextTypeOK /\ ButtonInv /\ StatusIsLatest /\ btnType \in Forms
  BY DEF PageInv
<1>2. currentAccount \in Accounts \cup {None} /\ page \in Nat
  BY <1>1 DEF ContextTypeOK
<1>3. "produce" \in Forms
  BY DEF Forms, Position
<1>4. UNCHANGED contextVars => ContextTypeOK' /\ UNCHANGED page
  BY <1>1, ContextTyped DEF contextVars
<1>5. CASE ContextStep
  <2>1. ContextTypeOK'
    BY <1>1, <1>5, ContextTyped DEF ContextStep
  <2>2. CASE page' = page
    BY <1>1, <1>5, <2>1, <2>2, IdleInv DEF ContextStep, PageInv
  <2>3. CASE page' # page
    BY <1>1, <1>3, <1>5, <2>1, <2>3, MountInvariant DEF ContextStep, PageInv
  <2> QED BY <2>2, <2>3
<1>6. ASSUME NEW form \in Forms, setBtnType(form) PROVE PageInv'
  <2>1. btnType' \in Forms /\ UNCHANGED <<contextVars, subs, status>>
    BY <1>6 DEF setBtnType
  <2>2. CASE UNCHANGED <<mount, unsub, sudoKey>>
    BY <1>1, <1>4, <2>1, <2>2, IdleInv DEF buttonVars, PageInv
  <2>3. CASE MountButtons
    BY <1>1, <1>4, <2>1, <2>3, MountInvariant DEF PageInv
  <2> QED BY <1>6, <2>2, <2>3 DEF setBtnType
<1>7. CASE ButtonStep(LoadSudoKey)
  BY <1>1, <1>4, <1>7, LoadSudoKeyInv DEF ButtonStep, PageInv
<1>8. CASE Press
  <2>1. "form" \in Slots /\ ButtonType(btnType) \in Type
    BY PageAssumption DEF ButtonType, Type, Extrinsic, Signs, Sudo
  <2> QED BY <1>1, <1>2, <1>4, <1>8, <2>1, PressInv DEF Press, ButtonStep, PageInv
<1>9. ASSUME NEW s \in DOMAIN subs,
             ButtonStep(getFromAcct(s)) \/ ButtonStep(Answer(s)) \/ ButtonStep(Report(s))
      PROVE  PageInv'
  BY <1>1, <1>4, <1>9, GetFromAcctInv, AnswerInv, ReportInv DEF ButtonStep, PageInv
<1>10. CASE UNCHANGED pageVars
  BY <1>1, <1>4, <1>10, IdleInv DEF pageVars, PageInv
<1> QED BY <1>5, <1>6, <1>7, <1>8, <1>9, <1>10 DEF PageNext

LEMMA PageInvariant == PageSpec => []PageInv
<1>1. PageInit => PageInv
  BY PageInitInv
<1>2. PageInv /\ [PageNext]_pageVars => PageInv'
  BY PageStepInv
<1> QED BY <1>1, <1>2, PTL DEF PageSpec

-----------------------------------------------------------------------------
(* The page's variables keep their types and their relations, the flags of *)
(* SubstrateContext.js among them.                                         *)
THEOREM PageTypeCorrect == PageSpec => []PageTypeOK
<1>1. PageInv => PageTypeOK
  BY DEF PageInv, PageTypeOK, ButtonInv
<1> QED BY <1>1, PageInvariant, PTL

(* Going from a form to another that shares its button loses no            *)
(* subscription.  (unsub() and setUnsub in TxButton.js.)                   *)
THEOREM PageOrphans == PageSpec => []OnlyKnownOrphans
<1>1. PageInv => OnlyKnownOrphans
  BY ButtonInvGives DEF PageInv
<1> QED BY <1>1, PageInvariant, PTL

(* The page's status is its latest submission's.  (setStatus in            *)
(* TxButton.js.)                                                           *)
THEOREM PageStatus == PageSpec => []StatusIsLatest
<1>1. PageInv => StatusIsLatest
  BY DEF PageInv
<1> QED BY <1>1, PageInvariant, PTL

(* A sudo call is signed by the account of the sudo key.  (isSudoer in     *)
(* TxButton.js.)                                                           *)
THEOREM PageSudo == PageSpec => []SudoSignedByKey
<1>1. PageInv => SudoSignedByKey
  BY ButtonInvGives DEF PageInv
<1> QED BY <1>1, PageInvariant, PTL

(* The account that was picked stays picked.  (AccountSelector.js.)        *)
THEOREM PageAccount == PageSpec => []ChosenAccountKept
<1>1. PageInit => ChosenAccountKept
  BY DEF PageInit, ContextInit, ChosenAccountKept
<1>2. ChosenAccountKept /\ [PageNext]_pageVars => ChosenAccountKept'
  <2> SUFFICES ASSUME ChosenAccountKept, [PageNext]_pageVars
               PROVE  ChosenAccountKept'
    OBVIOUS
  <2>1. CASE ContextNext
    BY <2>1
    DEF ContextNext, Connect, Connected, Ready, Disconnected, ConnectError, LoadAccounts,
        ExtensionsRead, KeyringLoaded, KeyringError, InitialAccount, ChooseAccount, reducerState,
        ChosenAccountKept
  <2>2. CASE UNCHANGED contextVars
    BY <2>2 DEF contextVars, reducerState, ChosenAccountKept
  <2> QED BY <2>1, <2>2 DEF PageNext, ContextStep, setBtnType, ButtonStep, Press, pageVars
<1> QED BY <1>1, <1>2, PTL DEF PageSpec
=============================================================================
