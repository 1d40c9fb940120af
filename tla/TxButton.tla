------------------------------ MODULE TxButton ------------------------------
(***************************************************************************)
(* The button every form submits with (TxButton.js), in its seven types.   *)
(* A press starts an asynchronous submission; several may be on their way  *)
(* at once, and each goes on calling setStatus of the form that mounted    *)
(* the button until its subscription is closed.                            *)
(*                                                                         *)
(* A form has one button or a group of them (TxGroupButton), in Slots:     *)
(* each has hooks of its own, and the form's status is common to all.  The *)
(* buttons of a form are mounted and unmounted together.                   *)
(*                                                                         *)
(* A press runs to its first await without interruption.  A closure keeps  *)
(* the account and the parameters of the render it was made in, so a       *)
(* submission carries them in its record.  A button is known by its slot    *)
(* and the number of its mount, a form's status by the number of its page: *)
(* React ignores the setters of what it has unmounted.                     *)
(***************************************************************************)
EXTENDS SubstrateContext, Sequences

CONSTANTS Injected,         \* accounts that live in the browser extension
          SudoAccount,      \* sudo.key() on the chain
          Slots,            \* the places of a form's buttons
          RpcStreams,       \* whether an RPC may be a subscription, which answers again
          MaxSubmissions    \* bound: presses that start a submission

ASSUME ButtonAssumption ==
  /\ Injected \subseteq Accounts
  /\ SudoAccount \in Accounts
  /\ RpcStreams \in BOOLEAN
  /\ MaxSubmissions \in Nat

VARIABLES mount,     \* the mount of the buttons on the screen
          unsub,     \* a hook of each: the submission it can unsubscribe, or Nothing
          sudoKey,   \* a hook of the one that asks for it: the sudo key it has read
          subs,      \* all submissions, the latest last
          status     \* the form's status: who wrote it, and what

buttonVars == <<mount, unsub, sudoKey, subs, status>>

(* null, undefined and a promise: anything but a function *)
Nothing == 0
Blank == [by |-> Nothing, text |-> ""]

Sudo == {"SUDO-TX", "UNCHECKED-SUDO-TX"}
Signs == Sudo \cup {"SIGNED-TX"}
Extrinsic == Signs \cup {"UNSIGNED-TX"}
Type == Extrinsic \cup {"QUERY", "RPC", "CONSTANT"}
Unsettled == {"resolving", "pending"}
Stage == Unsettled \cup {"live", "stopped", "done", "failed", "threw"}
Text == {"", "sending", "progress", "finalized", "error", "failed", "answer"}

Submission == [type : Type, slot : Slots, mount : Nat, page : Nat, stage : Stage,
               account : Accounts \cup {None},    \* currentAccount in the closure
               signer : Accounts \cup {None},     \* history: who signed it
               overlapped : BOOLEAN]    \* history: pressed, or unsettled, during another

ButtonTypeOK ==
  /\ mount \in Nat
  /\ subs \in Seq(Submission) /\ Len(subs) <= MaxSubmissions
  /\ unsub \in [Slots -> {Nothing} \cup DOMAIN subs]
  /\ sudoKey \in Accounts \cup {None}
  /\ status \in [by : {Nothing} \cup DOMAIN subs, text : Text]

ButtonInit ==
  /\ mount = 0 /\ unsub = [k \in Slots |-> Nothing] /\ sudoKey = None
  /\ subs = <<>> /\ status = Blank

(* setStatus of the form the submission was made from *)
SetStatus(s, text) ==
  status' = IF shown /\ subs[s].page = page THEN [by |-> s, text |-> text] ELSE status

(* setUnsub of the button the submission was made with *)
SetUnsub(s, value) ==
  unsub' = IF subs[s].mount = mount THEN [unsub EXCEPT ![subs[s].slot] = value] ELSE unsub

SetStage(s, stage) == subs' = [subs EXCEPT ![s].stage = stage]

-----------------------------------------------------------------------------

LoadSudoKey ==
  /\ shown /\ sudoKey # SudoAccount
  /\ sudoKey' = SudoAccount
  /\ UNCHANGED <<mount, unsub, subs, status>>

isSudoer(account) == sudoKey # None /\ account = sudoKey

(* The button is not disabled (its parameters are the form's business). *)
Enabled(type) ==
  /\ shown
  /\ type \in Signs => currentAccount # None
  /\ type \in Sudo => isSudoer(currentAccount)

(* A mutant of Unsubscribe that leaves it open. *)
KeepOpen(slot, r) == subs[r].stage

(* Closing the subscription the button holds, if it holds one. *)
Unsubscribe(slot, r) ==
  IF unsub[slot] # Nothing /\ unsub[slot] = r /\ subs[r].stage = "live"
  THEN "stopped" ELSE subs[r].stage

(* Where a submission is when its press is over.  An injected account is   *)
(* asked for its signer first; a constant is read on the spot; any other   *)
(* call is encoded and handed to the API, or does not encode, and throws.  *)
StartsAs(type) ==
  IF type \in Signs /\ currentAccount \in Injected THEN {"resolving"}
  ELSE IF type = "CONSTANT" THEN {"done"} ELSE {"pending", "threw"}

(* transaction(): unsubscribe, say so, and start. *)
transaction(slot, type) ==
  /\ Enabled(type) /\ Len(subs) < MaxSubmissions
  /\ LET s == Len(subs) + 1
         during == {r \in DOMAIN subs : /\ subs[r].slot = slot /\ subs[r].mount = mount
                                        /\ subs[r].stage \in Unsettled}
     IN  \E stage \in StartsAs(type) :
           /\ subs' = Append([r \in DOMAIN subs |->
                                [subs[r] EXCEPT !.stage = Unsubscribe(slot, r),
                                                !.overlapped = @ \/ r \in during]],
                             [type |-> type, slot |-> slot, mount |-> mount, page |-> page,
                              stage |-> stage, account |-> currentAccount,
                              signer |-> IF type \in Signs /\ stage = "pending"
                                         THEN currentAccount ELSE None,
                              overlapped |-> during # {}])
           /\ status' = [by |-> s, text |-> IF type = "CONSTANT" THEN "answer" ELSE "sending"]
           /\ unsub' = [unsub EXCEPT ![slot] = Nothing]
  /\ UNCHANGED <<mount, sudoKey>>

(* A mutant of getFromAcct that looks the account up after its await. *)
getFromAcctLate(s) ==
  /\ subs[s].stage = "resolving"
  /\ \/ /\ subs' = [subs EXCEPT ![s].stage = "pending", ![s].signer = currentAccount]
        /\ IF subs[s].type \in Sudo THEN SetUnsub(s, Nothing) ELSE UNCHANGED unsub
     \/ SetStage(s, "threw") /\ UNCHANGED unsub
  /\ UNCHANGED <<mount, sudoKey, status>>

(* getFromAcct() has the extension's signer, or web3FromSource rejects, or *)
(* the call does not encode.  sudoTx and uncheckedSudoTx do not await their    *)
(* promise: they store it, and a promise is not a function.                *)
getFromAcct(s) ==
  /\ subs[s].stage = "resolving"
  /\ \/ /\ subs' = [subs EXCEPT ![s].stage = "pending", ![s].signer = subs[s].account]
        /\ IF subs[s].type \in Sudo THEN SetUnsub(s, Nothing) ELSE UNCHANGED unsub
     \/ SetStage(s, "threw") /\ UNCHANGED unsub
  /\ UNCHANGED <<mount, sudoKey, status>>

(* A mutant of Accepted in which rpc() and query() forget their setUnsub. *)
AcceptedUnkept(s) ==
  /\ subs[s].stage = "pending"
  /\ SetStage(s, "live")
  /\ IF subs[s].type \in {"SIGNED-TX", "UNSIGNED-TX"} THEN SetUnsub(s, s) ELSE UNCHANGED unsub
  /\ UNCHANGED <<mount, sudoKey, status>>

(* The API's promise resolves with the function that unsubscribes. *)
Accepted(s) ==
  /\ subs[s].stage = "pending"
  /\ SetStage(s, "live")
  /\ IF subs[s].type \in Sudo THEN UNCHANGED unsub ELSE SetUnsub(s, s)
  /\ UNCHANGED <<mount, sudoKey, status>>

(* A mutant of txErrHandler: a catch that swallows. *)
SwallowError(s) ==
  /\ subs[s].stage = "pending" /\ subs[s].type \in Extrinsic
  /\ SetStage(s, "failed")
  /\ IF subs[s].type \in Sudo THEN UNCHANGED unsub ELSE SetUnsub(s, Nothing)
  /\ UNCHANGED <<mount, sudoKey, status>>

(* It rejects: txErrHandler reports it and resolves it with undefined,     *)
(* which signedTx and unsignedTx store.                                    *)
txErrHandler(s) ==
  /\ subs[s].stage = "pending" /\ subs[s].type \in Extrinsic
  /\ SetStage(s, "failed") /\ SetStatus(s, "failed")
  /\ IF subs[s].type \in Sudo THEN UNCHANGED unsub ELSE SetUnsub(s, Nothing)
  /\ UNCHANGED <<mount, sudoKey>>

(* query() and rpc() do not catch: the rejection is reported nowhere. *)
Rejected(s) ==
  /\ subs[s].stage = "pending" /\ subs[s].type \in {"QUERY", "RPC"}
  /\ SetStage(s, "threw")
  /\ UNCHANGED <<mount, unsub, sudoKey, status>>

(* A status of the extrinsic: on its way, or in a block with its outcome.  *)
txResHandler(s) ==
  /\ subs[s].stage = "live" /\ subs[s].type \in Extrinsic
  /\ \/ \E text \in {"progress", "error"} : SetStatus(s, text) /\ UNCHANGED subs
     \/ \E text \in {"finalized", "error"} : SetStatus(s, text) /\ SetStage(s, "done")
  /\ UNCHANGED <<mount, unsub, sudoKey>>

(* queryResHandler and rpcResHandler: an answer, the last one or not. *)
resHandler(s) ==
  /\ subs[s].stage = "live" /\ subs[s].type \in {"QUERY", "RPC"}
  /\ SetStatus(s, "answer")
  /\ \/ subs[s].type # "QUERY" /\ SetStage(s, "done")
     \/ (subs[s].type = "QUERY" \/ RpcStreams) /\ UNCHANGED subs
  /\ UNCHANGED <<mount, unsub, sudoKey>>

(* The submissions' own steps, in any order. *)
Answer(s) == Accepted(s) \/ txErrHandler(s) \/ Rejected(s)
Report(s) == txResHandler(s) \/ resHandler(s)

(* New buttons in the place of the old ones: nothing is unsubscribed. *)
MountButtons ==
  mount' = mount + 1 /\ unsub' = [k \in Slots |-> Nothing] /\ sudoKey' = None

-----------------------------------------------------------------------------
(* What holds of every form that submits with these buttons. *)

(* A subscription that still reports and that no button on the screen can  *)
(* close is there for one of three reasons: it belongs to a sudo           *)
(* transaction, two presses of its button overlapped, or its button was    *)
(* unmounted.  In particular going from one form, or one kind of call, to  *)
(* another that shares its button loses no subscription.  (setUnsub in     *)
(* TxButton.js against its unsub().)                                       *)
OnlyKnownOrphans ==
  \A s \in DOMAIN subs :
    subs[s].stage = "live" /\ s # unsub[subs[s].slot] =>
      subs[s].type \in Sudo \/ subs[s].overlapped \/ subs[s].mount # mount

(* The status a user reads is about the latest submission of the page,     *)
(* unless an earlier one could not be closed for one of those reasons, or  *)
(* is another button's.                                                    *)
StatusIsLatest ==
  LET by == status.by
  IN  by # Nothing /\ by < Len(subs) /\ subs[Len(subs)].page = page =>
        \/ subs[by].type \in Sudo
        \/ subs[by].overlapped
        \/ subs[by].mount # subs[Len(subs)].mount
        \/ subs[by].slot # subs[Len(subs)].slot

(* A sudo call is signed by the account that holds the sudo key, however   *)
(* the user changes accounts, forms and connections before the extension   *)
(* answers.  (isSudoer, against the await in getFromAcct.)                 *)
SudoSignedByKey ==
  \A s \in DOMAIN subs :
    subs[s].type \in Sudo /\ subs[s].signer # None => subs[s].signer = SudoAccount

(* A transaction handed to the API does not leave "Sending..." standing:   *)
(* the API's answer, or its error, takes its place while the page and its  *)
(* socket are up.  Not said of a query or RPC that is rejected, an         *)
(* extension that refuses and a call that does not encode, all of which    *)
(* leave it standing: transaction() does not catch what they throw.        *)
SentIsReported ==
  \A s \in 1 .. MaxSubmissions :
    (/\ s \in DOMAIN subs /\ subs[s].stage = "pending" /\ subs[s].type \in Extrinsic
     /\ status = [by |-> s, text |-> "sending"])
    ~> (status # [by |-> s, text |-> "sending"] \/ ~shown \/ link = "down")
=============================================================================
