---------------------------- MODULE ButtonProofs ----------------------------
(***************************************************************************)
(* The inductive invariant of the buttons, and that every step of theirs   *)
(* preserves it, for any form: which submission a button can close, and    *)
(* which of several can still write the status.                            *)
(***************************************************************************)
EXTENDS TxButton, SequenceTheorems, TLAPS

(* A submission that has still to report, and the reasons for which no     *)
(* button can close it although its own is on the screen.                  *)
Open == Unsettled \cup {"live"}
Excused(r) == subs[r].type \in Sudo \/ subs[r].overlapped

(* Two submissions of one button. *)
Kin(r, s) == subs[r].slot = subs[s].slot /\ subs[r].mount = subs[s].mount

(* A button holds the subscription that lives. *)
HookInv ==
  \A s \in DOMAIN subs :
    subs[s].stage = "live" /\ subs[s].mount = mount => Excused(s) \/ unsub[subs[s].slot] = s

(* While a submission is on its way, no other of its button is open. *)
RivalInv ==
  \A r, s \in DOMAIN subs :
    /\ r # s /\ Kin(r, s)
    /\ subs[s].stage \in Unsettled /\ subs[r].stage \in Open
    => Excused(r)

(* A button's last press closed what it had opened before. *)
LatestInv ==
  \A r \in DOMAIN subs :
    r < Len(subs) /\ Kin(r, Len(subs)) /\ subs[r].stage \in Open => Excused(r)

KeyInv ==
  /\ sudoKey \in {None, SudoAccount}
  /\ \A s \in DOMAIN subs : subs[s].type \in Sudo =>
       subs[s].account = SudoAccount /\ subs[s].signer \in {None, SudoAccount}

MountInv == \A s \in DOMAIN subs : subs[s].mount <= mount

ButtonInv == ButtonTypeOK /\ HookInv /\ RivalInv /\ LatestInv /\ KeyInv /\ MountInv

-----------------------------------------------------------------------------
(* Facts about sequences of submissions. *)

LEMMA SubsFacts ==
  ASSUME ButtonTypeOK
  PROVE  /\ Len(subs) \in Nat /\ DOMAIN subs = 1 .. Len(subs)
         /\ subs \in [1 .. Len(subs) -> Submission]
         /\ \A s \in DOMAIN subs : subs[s] \in Submission
BY LenProperties DEF ButtonTypeOK

LEMMA AccountFacts == SudoAccount \in Accounts /\ None \notin Accounts /\ SudoAccount # None
BY ContextAssumption, ButtonAssumption

(* A submission moved on: the others are as they were, and so is the rest  *)
(* of it.                                                                  *)
Moved(s, stage, signer) ==
  /\ subs' \in Seq(Submission) /\ Len(subs') = Len(subs) /\ DOMAIN subs' = DOMAIN subs
  /\ \A r \in DOMAIN subs \ {s} : subs'[r] = subs[r]
  /\ subs'[s] = [subs[s] EXCEPT !.stage = stage, !.signer = signer]
  /\ subs'[s].stage = stage /\ subs'[s].signer = signer
  /\ subs'[s].type = subs[s].type /\ subs'[s].slot = subs[s].slot
  /\ subs'[s].mount = subs[s].mount /\ subs'[s].page = subs[s].page
  /\ subs'[s].account = subs[s].account /\ subs'[s].overlapped = subs[s].overlapped

LEMMA MovedByExcept ==
  ASSUME ButtonTypeOK, NEW s \in DOMAIN subs, NEW stage \in Stage, NEW signer \in Accounts \cup {None},
         subs' = [subs EXCEPT ![s] = [@ EXCEPT !.stage = stage, !.signer = signer]]
  PROVE  Moved(s, stage, signer)
<1> DEFINE new == [subs[s] EXCEPT !.stage = stage, !.signer = signer]
<1>1. s \in 1 .. Len(subs) /\ subs \in Seq(Submission) /\ subs[s] \in Submission
  BY SubsFacts DEF ButtonTypeOK
<1>2. /\ new \in Submission /\ new.stage = stage /\ new.signer = signer
      /\ new.type = subs[s].type /\ new.slot = subs[s].slot /\ new.mount = subs[s].mount
      /\ new.page = subs[s].page /\ new.account = subs[s].account
      /\ new.overlapped = subs[s].overlapped
  BY <1>1 DEF Submission
<1>3. subs' = [subs EXCEPT ![s] = new]
  OBVIOUS
<1> HIDE DEF new
<1>4. /\ subs' \in Seq(Submission) /\ Len(subs') = Len(subs)
      /\ \A j \in 1 .. Len(subs) : subs'[j] = IF j = s THEN new ELSE subs[j]
  BY <1>1, <1>2, <1>3, ExceptSeq
<1>5. DOMAIN subs' = DOMAIN subs
  BY <1>4, LenProperties, SubsFacts
<1>6. subs'[s] = new
  BY <1>1, <1>4
<1>7. \A r \in DOMAIN subs \ {s} : subs'[r] = subs[r]
  BY <1>4, SubsFacts
<1> QED BY <1>2, <1>4, <1>5, <1>6, <1>7 DEF Moved, new

LEMMA MovedByStage ==
  ASSUME ButtonTypeOK, NEW s \in DOMAIN subs, NEW stage \in Stage, SetStage(s, stage)
  PROVE  Moved(s, stage, subs[s].signer)
<1>1. subs[s] \in Submission
  BY SubsFacts
<1>2. subs[s].signer \in Accounts \cup {None}
      /\ [subs[s] EXCEPT !.stage = stage] = [subs[s] EXCEPT !.stage = stage, !.signer = subs[s].signer]
  BY <1>1 DEF Submission
<1>3. subs' = [subs EXCEPT ![s] = [@ EXCEPT !.stage = stage, !.signer = subs[s].signer]]
  BY <1>2 DEF SetStage
<1> QED BY <1>2, <1>3, MovedByExcept

(* Setting the status of a form. *)
LEMMA StatusTyped ==
  ASSUME ButtonTypeOK, NEW s \in DOMAIN subs, NEW text \in Text, SetStatus(s, text)
  PROVE  status' \in [by : {Nothing} \cup DOMAIN subs, text : Text]
BY DEF SetStatus, ButtonTypeOK

(* A submission that moves on, and whose button keeps it if it must. *)
LEMMA MovedInv ==
  ASSUME ButtonInv, NEW s \in DOMAIN subs, NEW stage \in Stage, NEW signer \in Accounts \cup {None},
         Moved(s, stage, signer), UNCHANGED <<mount, sudoKey>>,
         signer \in {subs[s].signer, subs[s].account},
         stage \in Unsettled => subs[s].stage \in Unsettled,
         stage = "live" => subs[s].stage \in Open,
         unsub' \in [Slots -> {Nothing} \cup DOMAIN subs],
         \A k \in Slots : unsub'[k] # unsub[k] =>
           k = subs[s].slot /\ subs[s].mount = mount /\ subs[s].stage \in Unsettled,
         stage = "live" /\ subs[s].mount = mount => Excused(s) \/ unsub'[subs[s].slot] = s,
         status' \in [by : {Nothing} \cup DOMAIN subs, text : Text]
  PROVE  ButtonInv'
<1>1. ButtonTypeOK'
  BY DEF ButtonInv, ButtonTypeOK, Moved
<1>2. /\ DOMAIN subs' = DOMAIN subs /\ Len(subs') = Len(subs)
      /\ \A r \in DOMAIN subs : /\ subs'[r].type = subs[r].type /\ subs'[r].slot = subs[r].slot
                                /\ subs'[r].mount = subs[r].mount /\ subs'[r].account = subs[r].account
                                /\ subs'[r].overlapped = subs[r].overlapped
      /\ \A r \in DOMAIN subs : r # s => subs'[r] = subs[r]
      /\ subs'[s].stage = stage /\ subs'[s].signer = signer
  BY DEF Moved
<1>3. \A r \in DOMAIN subs : subs'[r].stage \in Unsettled => subs[r].stage \in Unsettled
  BY <1>2
<1>4. \A r \in DOMAIN subs : subs'[r].stage \in Open => subs[r].stage \in Open
  BY <1>2, <1>3 DEF Open
<1>5. \A r \in DOMAIN subs : subs[r].slot \in Slots
  BY SubsFacts DEF ButtonInv, Submission
<1>6. HookInv'
  <2> SUFFICES ASSUME NEW r \in DOMAIN subs, subs'[r].stage = "live", subs'[r].mount = mount
               PROVE  Excused(r) \/ unsub'[subs[r].slot] = r
    BY <1>2 DEF HookInv, Excused
  <2>1. CASE r = s
    BY <1>2, <2>1
  <2>2. CASE r # s
    <3>1. subs[r].stage = "live" /\ subs[r].mount = mount /\ (Excused(r) \/ unsub[subs[r].slot] = r)
      BY <1>2, <2>2 DEF HookInv, ButtonInv
    <3>2. CASE unsub'[subs[r].slot] # unsub[subs[r].slot]
      <4>1. Kin(r, s) /\ subs[s].stage \in Unsettled
        BY <1>5, <3>1, <3>2 DEF Kin
      <4> QED BY <2>2, <3>1, <4>1 DEF RivalInv, ButtonInv, Open
    <3> QED BY <3>1, <3>2
  <2> QED BY <2>1, <2>2
<1>7. RivalInv'
  BY <1>2, <1>3, <1>4 DEF RivalInv, ButtonInv, Kin, Excused
<1>8. LatestInv'
  <2>1. CASE DOMAIN subs = {}
    BY <1>2, <2>1 DEF LatestInv
  <2>2. CASE DOMAIN subs # {}
    <3>1. Len(subs) \in DOMAIN subs
      BY <2>2, SubsFacts DEF ButtonInv
    <3> QED BY <1>2, <1>4, <3>1 DEF LatestInv, ButtonInv, Kin, Excused
  <2> QED BY <2>1, <2>2
<1>9. KeyInv'
  BY <1>2 DEF KeyInv, ButtonInv, Moved
<1>10. MountInv'
  BY <1>2 DEF MountInv, ButtonInv
<1> QED BY <1>1, <1>6, <1>7, <1>8, <1>9, <1>10 DEF ButtonInv

(* What a report leaves of StatusIsLatest: an excuse, or the last to speak.*)
LEMMA ReportedStatus ==
  ASSUME ButtonInv, StatusIsLatest, NEW s \in DOMAIN subs, NEW stage, NEW signer,
         Moved(s, stage, signer), UNCHANGED page, subs[s].stage \in Open,
         status' = status \/ (status'.by = s /\ subs[s].page = page)
  PROVE  StatusIsLatest'
<1>1. /\ DOMAIN subs' = DOMAIN subs /\ Len(subs') = Len(subs)
      /\ \A r \in DOMAIN subs : /\ subs'[r].type = subs[r].type /\ subs'[r].slot = subs[r].slot
                                /\ subs'[r].mount = subs[r].mount /\ subs'[r].page = subs[r].page
                                /\ subs'[r].overlapped = subs[r].overlapped
  BY DEF Moved
<1>2. status.by \in {Nothing} \cup DOMAIN subs /\ Len(subs) \in DOMAIN subs
  BY SubsFacts DEF ButtonInv, ButtonTypeOK
<1>3. CASE status' = status
  BY <1>1, <1>2, <1>3 DEF StatusIsLatest
<1>4. CASE status'.by = s /\ s < Len(subs)
  <2>1. Kin(s, Len(subs)) => Excused(s)
    BY <1>4 DEF LatestInv, ButtonInv
  <2> QED BY <1>1, <1>2, <1>4, <2>1 DEF StatusIsLatest, Kin, Excused
<1>5. CASE status'.by = s /\ ~(s < Len(subs))
  BY <1>1, <1>5 DEF StatusIsLatest
<1> QED BY <1>3, <1>4, <1>5

-----------------------------------------------------------------------------
(* The steps of a submission. *)

LEMMA HookTyped ==
  ASSUME ButtonTypeOK, NEW s \in DOMAIN subs, NEW value \in {Nothing, s},
         SetUnsub(s, value) \/ UNCHANGED unsub
  PROVE  /\ unsub' \in [Slots -> {Nothing} \cup DOMAIN subs]
         /\ \A k \in Slots : unsub'[k] # unsub[k] =>
              k = subs[s].slot /\ subs[s].mount = mount /\ SetUnsub(s, value)
         /\ SetUnsub(s, value) /\ subs[s].mount = mount => unsub'[subs[s].slot] = value
<1>1. subs[s].slot \in Slots /\ unsub \in [Slots -> {Nothing} \cup DOMAIN subs]
  BY SubsFacts DEF Submission, ButtonTypeOK
<1> QED BY <1>1 DEF SetUnsub

LEMMA GetFromAcctInv ==
  ASSUME ButtonInv, NEW s \in DOMAIN subs, getFromAcct(s)
  PROVE  /\ ButtonInv'
         /\ StatusIsLatest /\ UNCHANGED page => StatusIsLatest'
<1>1. /\ ButtonTypeOK /\ subs[s] \in Submission
      /\ subs[s].signer \in Accounts \cup {None} /\ subs[s].account \in Accounts \cup {None}
  BY SubsFacts DEF ButtonInv, Submission
<1>2. /\ subs[s].stage \in Unsettled /\ UNCHANGED <<mount, sudoKey, status>>
      /\ status' \in [by : {Nothing} \cup DOMAIN subs, text : Text]
  BY <1>1 DEF getFromAcct, Unsettled, ButtonTypeOK
<1>3. {"pending", "threw"} \subseteq Stage /\ "pending" \in Unsettled /\ Unsettled \subseteq Open
      /\ {"threw", "live"} \cap Unsettled = {} /\ "threw" # "live"
  BY DEF Stage, Unsettled, Open
<1>4. /\ unsub' \in [Slots -> {Nothing} \cup DOMAIN subs]
      /\ \A k \in Slots : unsub'[k] # unsub[k] => k = subs[s].slot /\ subs[s].mount = mount
  BY <1>1, HookTyped DEF getFromAcct
<1>5. CASE subs' = [subs EXCEPT ![s].stage = "pending", ![s].signer = subs[s].account]
  <2>1. subs' = [subs EXCEPT ![s] = [@ EXCEPT !.stage = "pending", !.signer = subs[s].account]]
    BY <1>5
  <2>2. Moved(s, "pending", subs[s].account)
    BY <1>1, <1>3, <2>1, MovedByExcept
  <2> QED BY <1>1, <1>2, <1>3, <1>4, <2>2, MovedInv, ReportedStatus
<1>6. CASE SetStage(s, "threw")
  <2>1. Moved(s, "threw", subs[s].signer)
    BY <1>1, <1>3, <1>6, MovedByStage
  <2> QED BY <1>1, <1>2, <1>3, <1>4, <2>1, MovedInv, ReportedStatus
<1> QED BY <1>5, <1>6 DEF getFromAcct

LEMMA AnswerInv ==
  ASSUME ButtonInv, NEW s \in DOMAIN subs, Answer(s)
  PROVE  /\ ButtonInv'
         /\ StatusIsLatest /\ UNCHANGED page => StatusIsLatest'
<1>1. ButtonTypeOK /\ subs[s] \in Submission /\ subs[s].signer \in Accounts \cup {None}
  BY SubsFacts DEF ButtonInv, Submission
<1>2. subs[s].stage \in Unsettled /\ UNCHANGED <<mount, sudoKey>>
  BY DEF Answer, Accepted, txErrHandler, Rejected, Unsettled
<1>3. /\ {"live", "failed", "threw"} \subseteq Stage /\ Unsettled \subseteq Open
      /\ {"live", "failed", "threw"} \cap Unsettled = {}
      /\ "failed" # "live" /\ "threw" # "live"
  BY DEF Stage, Unsettled, Open
<1>4. status' \in [by : {Nothing} \cup DOMAIN subs, text : Text]
      /\ (status' = status \/ (status'.by = s /\ subs[s].page = page))
  <2>1. CASE UNCHANGED status
    BY <1>1, <2>1 DEF ButtonTypeOK
  <2>2. CASE SetStatus(s, "failed")
    BY <1>1, <2>2, StatusTyped DEF SetStatus, Text
  <2> QED BY <2>1, <2>2 DEF Answer, Accepted, txErrHandler, Rejected
<1>5. CASE Accepted(s)
  <2>1. Moved(s, "live", subs[s].signer)
    BY <1>1, <1>3, <1>5, MovedByStage DEF Accepted
  <2>2. /\ unsub' \in [Slots -> {Nothing} \cup DOMAIN subs]
        /\ \A k \in Slots : unsub'[k] # unsub[k] => k = subs[s].slot /\ subs[s].mount = mount
        /\ subs[s].mount = mount => Excused(s) \/ unsub'[subs[s].slot] = s
    BY <1>1, <1>5, HookTyped DEF Accepted, Excused
  <2> QED BY <1>1, <1>2, <1>3, <1>4, <2>1, <2>2, MovedInv, ReportedStatus
<1>6. CASE txErrHandler(s) \/ Rejected(s)
  <2>1. PICK stage \in {"failed", "threw"} : SetStage(s, stage)
    BY <1>6 DEF txErrHandler, Rejected
  <2>2. Moved(s, stage, subs[s].signer)
    BY <1>1, <1>3, <2>1, MovedByStage
  <2>3. /\ unsub' \in [Slots -> {Nothing} \cup DOMAIN subs]
        /\ \A k \in Slots : unsub'[k] # unsub[k] => k = subs[s].slot /\ subs[s].mount = mount
    BY <1>1, <1>6, HookTyped DEF txErrHandler, Rejected
  <2> QED BY <1>1, <1>2, <1>3, <1>4, <2>2, <2>3, MovedInv, ReportedStatus
<1> QED BY <1>5, <1>6 DEF Answer

LEMMA ReportInv ==
  ASSUME ButtonInv, NEW s \in DOMAIN subs, Report(s)
  PROVE  /\ ButtonInv'
         /\ StatusIsLatest /\ UNCHANGED page => StatusIsLatest'
<1>1. ButtonTypeOK /\ subs[s] \in Submission /\ subs[s].signer \in Accounts \cup {None}
  BY SubsFacts DEF ButtonInv, Submission
<1>2. subs[s].stage = "live" /\ UNCHANGED <<mount, sudoKey, unsub>>
      /\ (UNCHANGED subs \/ SetStage(s, "done"))
      /\ \E text \in {"progress", "finalized", "error", "answer"} : SetStatus(s, text)
  BY DEF Report, txResHandler, resHandler
<1>3. {"live", "done"} \subseteq Stage /\ "live" \in Open
      /\ {"live", "done"} \cap Unsettled = {} /\ "done" # "live"
  BY DEF Stage, Unsettled, Open
<1>4. PICK text \in Text : SetStatus(s, text)
  BY <1>2 DEF Text
<1>5. status' \in [by : {Nothing} \cup DOMAIN subs, text : Text]
      /\ (status' = status \/ (status'.by = s /\ subs[s].page = page))
  <2>1. status' \in [by : {Nothing} \cup DOMAIN subs, text : Text]
    BY <1>1, <1>4, StatusTyped
  <2> QED BY <1>4, <2>1 DEF SetStatus
<1>6. PICK stage \in {"live", "done"} : Moved(s, stage, subs[s].signer)
  <2>1. CASE UNCHANGED subs
    <3>1. Moved(s, "live", subs[s].signer)
      BY <1>1, <1>2, <2>1 DEF Moved, ButtonTypeOK, Submission
    <3> QED BY <3>1
  <2>2. CASE SetStage(s, "done")
    BY <1>1, <1>3, <2>2, MovedByStage
  <2> QED BY <1>2, <2>1, <2>2
<1>7. /\ unsub' \in [Slots -> {Nothing} \cup DOMAIN subs]
      /\ \A k \in Slots : unsub'[k] = unsub[k]
      /\ subs[s].mount = mount => Excused(s) \/ unsub'[subs[s].slot] = s
  BY <1>2 DEF ButtonInv, ButtonTypeOK, HookInv
<1> QED BY <1>1, <1>2, <1>3, <1>5, <1>6, <1>7, MovedInv, ReportedStatus

-----------------------------------------------------------------------------
(* The steps of a button. *)

LEMMA LoadSudoKeyInv ==
  ASSUME ButtonInv, LoadSudoKey
  PROVE  /\ ButtonInv'
         /\ StatusIsLatest /\ UNCHANGED page => StatusIsLatest'
<1>1. UNCHANGED <<mount, unsub, subs, status>> /\ sudoKey' = SudoAccount
  BY DEF LoadSudoKey
<1>2. ButtonTypeOK'
  BY <1>1, AccountFacts DEF ButtonInv, ButtonTypeOK
<1> QED
  BY <1>1, <1>2 DEF ButtonInv, HookInv, RivalInv, LatestInv, KeyInv, MountInv, Kin, Excused, StatusIsLatest

LEMMA IdleInv ==
  ASSUME ButtonInv, UNCHANGED buttonVars
  PROVE  /\ ButtonInv'
         /\ StatusIsLatest /\ UNCHANGED page => StatusIsLatest'
BY DEF buttonVars, ButtonInv, ButtonTypeOK, HookInv, RivalInv, LatestInv, KeyInv, MountInv, Kin,
       Excused, StatusIsLatest

(* No submission was made with the new buttons. *)
LEMMA MountInvariant ==
  ASSUME ButtonInv, MountButtons, UNCHANGED subs, status' \in {status, Blank}
  PROVE  /\ ButtonInv'
         /\ StatusIsLatest /\ UNCHANGED page => StatusIsLatest'
         /\ status' = Blank => StatusIsLatest'
<1>1. /\ mount \in Nat /\ mount' = mount + 1 /\ sudoKey' = None
      /\ unsub' = [k \in Slots |-> Nothing] /\ ButtonTypeOK
      /\ \A s \in DOMAIN subs : subs[s].mount \in Nat /\ subs[s].mount <= mount
  BY SubsFacts DEF MountButtons, ButtonInv, ButtonTypeOK, MountInv, Submission
<1>2. \A s \in DOMAIN subs : subs[s].mount # mount' /\ subs[s].mount <= mount'
  BY <1>1
<1>3. Blank \in [by : {Nothing} \cup DOMAIN subs, text : Text] /\ Blank.by = Nothing
  BY DEF Blank, Text
<1>4. ButtonTypeOK'
  BY <1>1, <1>3 DEF ButtonTypeOK
<1>5. HookInv' /\ MountInv' /\ KeyInv'
  BY <1>1, <1>2 DEF HookInv, MountInv, KeyInv, ButtonInv
<1>6. RivalInv' /\ LatestInv'
  BY DEF RivalInv, LatestInv, ButtonInv, Kin, Excused
<1>7. StatusIsLatest /\ UNCHANGED page => StatusIsLatest'
  BY <1>3 DEF StatusIsLatest
<1>8. status' = Blank => StatusIsLatest'
  BY <1>3 DEF StatusIsLatest
<1> QED BY <1>4, <1>5, <1>6, <1>7, <1>8 DEF ButtonInv

(* What a press leaves of the submissions before it. *)
LEMMA PressEffect ==
  ASSUME ButtonInv, currentAccount \in Accounts \cup {None}, page \in Nat,
         NEW slot \in Slots, NEW type \in Type, transaction(slot, type)
  PROVE  LET s == Len(subs) + 1
         IN  /\ Len(subs) \in Nat /\ Len(subs') = s /\ DOMAIN subs' = DOMAIN subs \cup {s}
             /\ s \notin DOMAIN subs /\ s \in 1 .. MaxSubmissions
             /\ subs' \in Seq(Submission)
             /\ subs'[s].type = type /\ subs'[s].slot = slot /\ subs'[s].mount = mount
             /\ subs'[s].page = page /\ subs'[s].account = currentAccount
             /\ subs'[s].signer \in {None, currentAccount}
             /\ subs'[s].stage \in Unsettled \cup {"done", "threw"}
             /\ subs'[s].overlapped <=> \E r \in DOMAIN subs :
                  subs[r].slot = slot /\ subs[r].mount = mount /\ subs[r].stage \in Unsettled
             /\ \A r \in DOMAIN subs :
                  /\ subs'[r].type = subs[r].type /\ subs'[r].slot = subs[r].slot
                  /\ subs'[r].mount = subs[r].mount /\ subs'[r].page = subs[r].page
                  /\ subs'[r].account = subs[r].account /\ subs'[r].signer = subs[r].signer
                  /\ subs'[r].stage = Unsubscribe(slot, r)
                  /\ subs'[r].overlapped <=> subs[r].overlapped \/
                       (subs[r].slot = slot /\ subs[r].mount = mount /\ subs[r].stage \in Unsettled)
<1> DEFINE s == Len(subs) + 1
           during == {r \in DOMAIN subs : /\ subs[r].slot = slot /\ subs[r].mount = mount
                                         /\ subs[r].stage \in Unsettled}
           before == [r \in DOMAIN subs |->
                        [subs[r] EXCEPT !.stage = Unsubscribe(slot, r),
                                        !.overlapped = @ \/ r \in during]]
           new(stage) == [type |-> type, slot |-> slot, mount |-> mount, page |-> page,
                          stage |-> stage, account |-> currentAccount,
                          signer |-> IF type \in Signs /\ stage = "pending"
                                     THEN currentAccount ELSE None,
                          overlapped |-> during # {}]
<1>1. PICK stage \in StartsAs(type) : subs' = Append(before, new(stage))
  BY DEF transaction
<1>2. stage \in Unsettled \cup {"done", "threw"} /\ stage \in Stage
  BY DEF StartsAs, Unsettled, Stage
<1>3. /\ Len(subs) \in Nat /\ DOMAIN subs = 1 .. Len(subs) /\ mount \in Nat
      /\ \A r \in DOMAIN subs : subs[r] \in Submission
  BY SubsFacts DEF ButtonInv, ButtonTypeOK
<1>4. new(stage) \in Submission
  BY <1>2, <1>3 DEF Submission
<1>5. \A r \in DOMAIN subs : before[r] \in Submission
  <2> SUFFICES ASSUME NEW r \in DOMAIN subs PROVE before[r] \in Submission
    OBVIOUS
  <2>1. Unsubscribe(slot, r) \in Stage
    BY <1>3 DEF Unsubscribe, Stage, Submission
  <2>2. subs[r] \in Submission
    BY <1>3
  <2> HIDE DEF during
  <2> QED BY <2>1, <2>2 DEF Submission
<1>6. before \in Seq(Submission) /\ Len(before) = Len(subs)
  <2>1. before \in [1 .. Len(subs) -> Submission]
    BY <1>3, <1>5
  <2> HIDE DEF before
  <2>2. before \in Seq(Submission)
    BY <1>3, <2>1, SeqDef
  <2>3. DOMAIN before = 1 .. Len(before) /\ Len(before) \in Nat
    BY <2>2, LenProperties
  <2> QED BY <1>3, <2>1, <2>2, <2>3
<1>7. \A r \in DOMAIN subs :
        /\ before[r].type = subs[r].type /\ before[r].slot = subs[r].slot
        /\ before[r].mount = subs[r].mount /\ before[r].page = subs[r].page
        /\ before[r].account = subs[r].account /\ before[r].signer = subs[r].signer
        /\ before[r].stage = Unsubscribe(slot, r)
        /\ before[r].overlapped <=> subs[r].overlapped \/ r \in during
  <2> SUFFICES ASSUME NEW r \in DOMAIN subs
               PROVE  /\ before[r].type = subs[r].type /\ before[r].slot = subs[r].slot
                      /\ before[r].mount = subs[r].mount /\ before[r].page = subs[r].page
                      /\ before[r].account = subs[r].account /\ before[r].signer = subs[r].signer
                      /\ before[r].stage = Unsubscribe(slot, r)
                      /\ before[r].overlapped <=> subs[r].overlapped \/ r \in during
    OBVIOUS
  <2>1. subs[r] \in Submission
    BY <1>3
  <2> HIDE DEF during
  <2> QED BY <2>1 DEF Submission
<1>8. /\ new(stage).type = type /\ new(stage).slot = slot /\ new(stage).mount = mount
      /\ new(stage).page = page /\ new(stage).account = currentAccount
      /\ new(stage).signer \in {None, currentAccount} /\ new(stage).stage = stage
      /\ new(stage).overlapped <=> during # {}
  OBVIOUS
<1> HIDE DEF before, new
<1>9. /\ subs' \in Seq(Submission) /\ Len(subs') = Len(subs) + 1
      /\ \A r \in DOMAIN subs : subs'[r] = before[r]
      /\ subs'[Len(subs) + 1] = new(stage)
  BY <1>1, <1>3, <1>4, <1>6, AppendProperties
<1>10. DOMAIN subs' = DOMAIN subs \cup {s} /\ s \notin DOMAIN subs /\ s \in 1 .. MaxSubmissions
  <2>1. DOMAIN subs' = 1 .. (Len(subs) + 1)
    BY <1>9, LenProperties
  <2>2. Len(subs) < MaxSubmissions
    BY DEF transaction
  <2> QED BY <1>3, <2>1, <2>2, ButtonAssumption
<1> QED BY <1>2, <1>3, <1>7, <1>8, <1>9, <1>10

LEMMA PressInv ==
  ASSUME ButtonInv, currentAccount \in Accounts \cup {None}, page \in Nat,
         NEW slot \in Slots, NEW type \in Type, transaction(slot, type)
  PROVE  ButtonInv' /\ StatusIsLatest'
<1>0. PICK s \in Nat : s = Len(subs) + 1
  BY SubsFacts DEF ButtonInv
<1>1. /\ Len(subs) \in Nat /\ Len(subs') = s /\ DOMAIN subs' = DOMAIN subs \cup {s}
      /\ s \notin DOMAIN subs /\ s \in 1 .. MaxSubmissions /\ subs' \in Seq(Submission)
      /\ subs'[s].type = type /\ subs'[s].slot = slot /\ subs'[s].mount = mount
      /\ subs'[s].account = currentAccount /\ subs'[s].signer \in {None, currentAccount}
      /\ subs'[s].stage \in Unsettled \cup {"done", "threw"}
      /\ subs'[s].overlapped <=> \E r \in DOMAIN subs :
           subs[r].slot = slot /\ subs[r].mount = mount /\ subs[r].stage \in Unsettled
  BY <1>0, PressEffect
<1>2. \A r \in DOMAIN subs :
        /\ subs'[r].type = subs[r].type /\ subs'[r].slot = subs[r].slot
        /\ subs'[r].mount = subs[r].mount /\ subs'[r].page = subs[r].page
        /\ subs'[r].account = subs[r].account /\ subs'[r].signer = subs[r].signer
        /\ subs'[r].stage = Unsubscribe(slot, r)
        /\ subs'[r].overlapped <=> subs[r].overlapped \/
             (subs[r].slot = slot /\ subs[r].mount = mount /\ subs[r].stage \in Unsettled)
  BY <1>0, PressEffect
<1>3. /\ unsub' = [unsub EXCEPT ![slot] = Nothing] /\ UNCHANGED <<mount, sudoKey>>
      /\ status'.by = s /\ status' \in [by : {s}, text : Text]
  <2>1. /\ unsub' = [unsub EXCEPT ![slot] = Nothing] /\ UNCHANGED <<mount, sudoKey>>
        /\ status' = [by |-> s, text |-> IF type = "CONSTANT" THEN "answer" ELSE "sending"]
    BY <1>0 DEF transaction
  <2> QED BY <2>1 DEF Text
<1>4. ButtonTypeOK /\ mount \in Nat /\ \A r \in DOMAIN subs : subs[r].slot \in Slots /\ r # Nothing
  BY SubsFacts DEF ButtonInv, ButtonTypeOK, Submission, Nothing
<1>5. ButtonTypeOK'
  BY <1>1, <1>3, <1>4 DEF ButtonTypeOK
<1>6. \A r \in DOMAIN subs : /\ subs'[r].stage \in Unsettled => subs[r].stage \in Unsettled
                             /\ subs'[r].stage \in Open => subs'[r].stage = subs[r].stage
                             /\ Excused(r) => Excused(r)'
  BY <1>2 DEF Unsubscribe, Unsettled, Open, Excused
<1>7. \A r \in DOMAIN subs : subs[r].slot = slot /\ subs[r].mount = mount /\ subs'[r].stage \in Open
                             => Excused(r)'
  <2> SUFFICES ASSUME NEW r \in DOMAIN subs, subs[r].slot = slot, subs[r].mount = mount,
                      subs'[r].stage \in Open
               PROVE  Excused(r)'
    OBVIOUS
  <2>1. CASE subs[r].stage \in Unsettled
    BY <1>2, <2>1 DEF Excused
  <2>2. CASE subs[r].stage = "live"
    <3>1. unsub[slot] # r
      BY <1>2, <1>4, <2>2 DEF Unsubscribe, Open, Unsettled
    <3>2. Excused(r)
      BY <2>2, <3>1 DEF HookInv, ButtonInv
    <3> QED BY <1>6, <3>2
  <2> QED BY <1>6, <2>1, <2>2 DEF Open
<1>8. HookInv'
  <2> SUFFICES ASSUME NEW r \in DOMAIN subs', subs'[r].stage = "live", subs'[r].mount = mount
               PROVE  Excused(r)' \/ unsub'[subs'[r].slot] = r
    BY <1>3 DEF HookInv
  <2>1. r \in DOMAIN subs
    BY <1>1 DEF Unsettled
  <2>2. CASE subs[r].slot = slot
    BY <1>2, <1>7, <2>1, <2>2 DEF Open
  <2>3. CASE subs[r].slot # slot
    <3>1. unsub'[subs[r].slot] = unsub[subs[r].slot]
      BY <1>3, <1>4, <2>1, <2>3 DEF ButtonTypeOK
    <3> QED BY <1>2, <1>6, <2>1, <3>1 DEF HookInv, ButtonInv, Open
  <2> QED BY <2>2, <2>3
<1>9. LatestInv'
  <2> SUFFICES ASSUME NEW r \in DOMAIN subs, Kin(r, s)', subs'[r].stage \in Open
               PROVE  Excused(r)'
    BY <1>1 DEF LatestInv
  <2> QED BY <1>1, <1>2, <1>7 DEF Kin
<1>10. RivalInv'
  <2> SUFFICES ASSUME NEW r \in DOMAIN subs', NEW t \in DOMAIN subs', r # t, Kin(r, t)',
                      subs'[t].stage \in Unsettled, subs'[r].stage \in Open
               PROVE  Excused(r)'
    BY DEF RivalInv
  <2>1. CASE r \in DOMAIN subs /\ t \in DOMAIN subs
    <3>1. Kin(r, t) /\ subs[t].stage \in Unsettled /\ subs[r].stage \in Open
      BY <1>2, <1>6, <2>1 DEF Kin
    <3> QED BY <1>6, <2>1, <3>1 DEF RivalInv, ButtonInv
  <2>2. CASE r \in DOMAIN subs /\ t = s
    BY <1>1, <1>2, <1>7, <2>2 DEF Kin
  <2>3. CASE r = s
    <3>1. t \in DOMAIN subs
      BY <1>1, <2>3
    <3>2. subs[t].slot = slot /\ subs[t].mount = mount /\ subs[t].stage \in Unsettled
      BY <1>1, <1>2, <1>6, <2>3, <3>1 DEF Kin
    <3> QED BY <1>1, <2>3, <3>1, <3>2 DEF Excused
  <2> QED BY <1>1, <2>1, <2>2, <2>3
<1>11. KeyInv'
  <2>1. type \in Sudo => currentAccount = SudoAccount
    BY DEF transaction, Enabled, isSudoer, ButtonInv, KeyInv
  <2> QED BY <1>1, <1>2, <1>3, <2>1 DEF ButtonInv, KeyInv
<1>12. MountInv'
  BY <1>1, <1>2, <1>3, <1>4 DEF ButtonInv, MountInv
<1>13. StatusIsLatest'
  BY <1>1, <1>3 DEF StatusIsLatest
<1> QED BY <1>5, <1>8, <1>9, <1>10, <1>11, <1>12, <1>13 DEF ButtonInv

-----------------------------------------------------------------------------
(* The invariant holds of a page with no submission, and gives the         *)
(* properties.                                                             *)

LEMMA ButtonInitInv ==
  ASSUME ButtonInit
  PROVE  ButtonInv /\ StatusIsLatest
<1>1. /\ subs = <<>> /\ DOMAIN subs = {} /\ Len(subs) = 0 /\ subs \in Seq(Submission)
      /\ mount = 0 /\ sudoKey = None /\ unsub = [k \in Slots |-> Nothing] /\ status = Blank
  BY EmptySeq DEF ButtonInit
<1>2. status.by = Nothing /\ status \in [by : {Nothing} \cup DOMAIN subs, text : Text]
  BY <1>1 DEF Blank, Text
<1>3. 0 \in Nat /\ 0 <= MaxSubmissions
  BY ButtonAssumption
<1>4. ButtonTypeOK
  BY <1>1, <1>2, <1>3 DEF ButtonTypeOK
<1>5. HookInv /\ RivalInv /\ LatestInv /\ MountInv
  BY <1>1 DEF HookInv, RivalInv, LatestInv, MountInv
<1>6. KeyInv
  BY <1>1 DEF KeyInv
<1>7. StatusIsLatest
  BY <1>2 DEF StatusIsLatest
<1> QED BY <1>4, <1>5, <1>6, <1>7 DEF ButtonInv

LEMMA ButtonInvGives ==
  ASSUME ButtonInv
  PROVE  OnlyKnownOrphans /\ SudoSignedByKey
<1>1. OnlyKnownOrphans
  BY DEF ButtonInv, HookInv, OnlyKnownOrphans, Excused
<1>2. SudoSignedByKey
  BY DEF ButtonInv, KeyInv, SudoSignedByKey
<1> QED BY <1>1, <1>2

-----------------------------------------------------------------------------
(* The context under the buttons. *)

LEMMA ContextTyped ==
  ASSUME ContextTypeOK, ContextNext \/ UNCHANGED contextVars
  PROVE  ContextTypeOK'
<1>1. CASE Connect \/ Disconnected \/ ConnectError
  BY <1>1, ContextAssumption
  DEF Connect, Disconnected, ConnectError, ContextTypeOK, ApiState, KeyringState
<1>2. CASE Connected
  <2>1. page' \in Nat
    BY <1>2 DEF Connected, Mounts, ContextTypeOK
  <2>2. /\ apiState' \in ApiState /\ link' = "up"
        /\ UNCHANGED <<keyringState, currentAccount, keyringLoadAll, isReady, loading, drops, chosen>>
    BY <1>2 DEF Connected, ApiState
  <2> QED BY <2>1, <2>2 DEF ContextTypeOK
<1>3. CASE Ready
  <2>1. page' \in Nat
    BY <1>3 DEF Ready, Mounts, ContextTypeOK
  <2>2. /\ apiState' \in ApiState /\ isReady' = TRUE
        /\ UNCHANGED <<keyringState, currentAccount, keyringLoadAll, link, loading, drops, chosen>>
    BY <1>3 DEF Ready, ApiState
  <2> QED BY <2>1, <2>2 DEF ContextTypeOK
<1>4. CASE LoadAccounts
  BY <1>4 DEF LoadAccounts, ContextTypeOK, KeyringState
<1>5. CASE ExtensionsRead
  BY <1>5 DEF ExtensionsRead, reducerState, ContextTypeOK
<1>6. CASE KeyringLoaded
  <2>1. page' \in Nat
    BY <1>6 DEF KeyringLoaded, Mounts, ContextTypeOK
  <2>2. /\ loading = "chain" /\ loading' = "no" /\ keyringState' = "READY"
        /\ UNCHANGED <<apiState, currentAccount, keyringLoadAll, link, isReady, drops, chosen>>
    BY <1>6 DEF KeyringLoaded
  <2>3. keyringLoadAll = TRUE
    BY <2>2 DEF ContextTypeOK
  <2> QED BY <2>1, <2>2, <2>3 DEF ContextTypeOK, KeyringState
<1>7. CASE KeyringError
  <2>1. keyringLoadAll = TRUE
    BY <1>7 DEF KeyringError, ContextTypeOK
  <2> QED BY <1>7, <2>1 DEF KeyringError, ContextTypeOK, KeyringState
<1>8. CASE InitialAccount \/ \E a \in Accounts : ChooseAccount(a)
  BY <1>8, ContextAssumption DEF InitialAccount, ChooseAccount, ContextTypeOK
<1>9. CASE UNCHANGED contextVars
  BY <1>9 DEF contextVars, reducerState, ContextTypeOK
<1> QED BY <1>1, <1>2, <1>3, <1>4, <1>5, <1>6, <1>7, <1>8, <1>9 DEF ContextNext

LEMMA ContextInitTyped ==
  ASSUME ContextInit
  PROVE  ContextTypeOK
<1>1. /\ apiState = "null" /\ keyringState = "null" /\ currentAccount = None /\ link = "down"
      /\ keyringLoadAll = FALSE /\ isReady = FALSE /\ loading = "no"
      /\ page = 0 /\ drops = 0 /\ chosen = None
  BY DEF ContextInit
<1>2. drops \in 0 .. MaxDrops /\ page \in Nat
  BY <1>1, ContextAssumption
<1>3. apiState \in ApiState /\ keyringState \in KeyringState
  BY <1>1 DEF ApiState, KeyringState
<1> QED BY <1>1, <1>2, <1>3 DEF ContextTypeOK
=============================================================================
