--------------------------- MODULE SendCoinsDialog ---------------------------
(***************************************************************************)
(* The send flow of src/qt/sendcoinsdialog.cpp.  The GUI thread runs one   *)
(* handler at a time, but SendConfirmationDialog::exec() runs a nested     *)
(* event loop: while the confirmation is up, its countdown timer ticks and *)
(* payment requests (handlePaymentRequest) are delivered.                  *)
(* fNewRecipientAllowed is what keeps those requests out of a send in      *)
(* progress.                                                               *)
(*                                                                         *)
(* An entry is abstracted to what SendCoinsEntry::validate and isClear     *)
(* tell apart: "clear", "good" (validates) or "bad"; cs marks a            *)
(* cold-staking entry (addEntryCS).  The RPC calls are synchronous and    *)
(* their outcome is chosen nondeterministically.                           *)
(***************************************************************************)
EXTENDS Naturals, Sequences

CONSTANTS
  MaxEntries,         \* bound on the number of recipient entries
  MaxRequests,        \* bound on the payment requests delivered
  SEND_CONFIRM_DELAY  \* seconds before the confirmation's buttons enable

ASSUME MaxEntries \in Nat \ {0} /\ MaxRequests \in Nat
ASSUME SEND_CONFIRM_DELAY \in Nat \ {0}

VARIABLES
  entries,    \* ui->entries: sequence of [v, cs]
  allowed,    \* fNewRecipientAllowed
  phase,      \* "idle", or "confirm" while confirmationDialog->exec() runs
  curTx,      \* m_current_transaction is set
  coinSel,    \* m_coin_control has selected coins
  dlg,        \* the confirmation dialog: countdown and button states
  ticks,      \* countdown ticks since exec() started
  shown,      \* the entries the open confirmation dialog was built from
  reply,      \* the button that closed the last confirmation dialog
  lastSend,   \* the button that led to the last successful sendtypeto
  requests,   \* payment requests delivered so far
  wallet      \* privateKeysDisabled, hasExternalSigner, PSBT controls

vars == <<entries, allowed, phase, curTx, coinSel, dlg, ticks, shown,
          reply, lastSend, requests, wallet>>

Entry == [v : {"clear", "good", "bad"}, cs : BOOLEAN]
ClearEntry(cs) == [v |-> "clear", cs |-> cs]
NoDialog == [secDelay |-> 0, timerOn |-> FALSE, yes |-> FALSE,
             psbt |-> FALSE, hasPsbt |-> FALSE, enableSend |-> FALSE]

(* clear(): coin control unselected, the entries replaced by one new one. *)
Cleared == /\ entries' = <<ClearEntry(FALSE)>>
           /\ curTx' = FALSE
           /\ coinSel' = FALSE

-----------------------------------------------------------------------------
(* Entry management on the GUI thread (only while no modal dialog runs). *)

AddEntry ==
  /\ phase = "idle" /\ Len(entries) < MaxEntries
  /\ entries' = Append(entries, ClearEntry(FALSE))
  /\ UNCHANGED <<allowed, phase, curTx, coinSel, dlg, ticks, shown, reply, lastSend,
                 requests, wallet>>

(* addEntryCS: a lone clear ordinary entry is replaced by the new one. *)
AddEntryCS ==
  /\ phase = "idle"
  /\ LET lone == Len(entries) = 1 /\ entries[1] = ClearEntry(FALSE) IN
     /\ lone \/ Len(entries) < MaxEntries
     /\ entries' = IF lone THEN <<ClearEntry(TRUE)>>
                   ELSE Append(entries, ClearEntry(TRUE))
  /\ UNCHANGED <<allowed, phase, curTx, coinSel, dlg, ticks, shown, reply, lastSend,
                 requests, wallet>>

(* The user edits entry i; validate() will accept it or not. *)
EditEntry(i, v) ==
  /\ phase = "idle"
  /\ entries' = [entries EXCEPT ![i].v = v]
  /\ UNCHANGED <<allowed, phase, curTx, coinSel, dlg, ticks, shown, reply, lastSend,
                 requests, wallet>>

(* Variant that removes the last entry without adding an empty one. *)
RemoveEntryNoRefill(i) ==
  /\ phase = "idle"
  /\ entries' = SubSeq(entries, 1, i - 1) \o SubSeq(entries, i + 1, Len(entries))
  /\ UNCHANGED <<allowed, phase, curTx, coinSel, dlg, ticks, shown, reply, lastSend,
                 requests, wallet>>

(* removeEntry: removing the last entry first adds an empty one. *)
RemoveEntry(i) ==
  /\ phase = "idle"
  /\ entries' = IF Len(entries) = 1 THEN <<ClearEntry(FALSE)>>
                ELSE SubSeq(entries, 1, i - 1) \o SubSeq(entries, i + 1, Len(entries))
  /\ UNCHANGED <<allowed, phase, curTx, coinSel, dlg, ticks, shown, reply, lastSend,
                 requests, wallet>>

(* The coin control dialog selects inputs. *)
SelectCoins ==
  /\ phase = "idle" /\ ~coinSel
  /\ coinSel' = TRUE
  /\ UNCHANGED <<entries, allowed, phase, curTx, dlg, ticks, shown, reply, lastSend,
                 requests, wallet>>

(* The clear button, or reject() (Escape). *)
Clear ==
  /\ phase = "idle"
  /\ Cleared
  /\ UNCHANGED <<allowed, phase, dlg, ticks, shown, reply, lastSend, requests, wallet>>

(* handlePaymentRequest -> pasteEntry: dropped unless fNewRecipientAllowed; *)
(* fills a lone clear entry, or adds one.  Delivered from the main loop or *)
(* from the confirmation's nested loop.                                    *)
HandlePaymentRequest ==
  /\ requests < MaxRequests
  /\ requests' = requests + 1
  /\ IF ~allowed THEN UNCHANGED entries
     ELSE IF Len(entries) = 1 /\ entries[1].v = "clear"
          THEN entries' = [entries EXCEPT ![1].v = "good"]
          ELSE /\ Len(entries) < MaxEntries
               /\ entries' = Append(entries, [v |-> "good", cs |-> FALSE])
  /\ UNCHANGED <<allowed, phase, curTx, coinSel, dlg, ticks, shown, reply, lastSend,
                 wallet>>

-----------------------------------------------------------------------------
(* sendButtonClicked and the confirmation dialog.                          *)

(* Variant that leaves new recipients allowed during a send. *)
BlockNewRecipientsDropped == TRUE

(* fNewRecipientAllowed = false at the start of sendButtonClicked. *)
BlockNewRecipients == FALSE

(* Variant that enables the buttons one tick early. *)
UpdateButtonsEarly(d) ==
  [d EXCEPT !.yes = d.secDelay <= 1 /\ d.enableSend,
            !.psbt = d.hasPsbt /\ d.secDelay <= 1]

(* SendConfirmationDialog::updateButtons: Yes and "Create Unsigned" stay  *)
(* disabled while secDelay > 0; then Yes follows m_enable_send.           *)
UpdateButtons(d) ==
  [d EXCEPT !.yes = d.secDelay <= 0 /\ d.enableSend,
            !.psbt = d.hasPsbt /\ d.secDelay <= 0]

(* The SendConfirmationDialog constructor and exec(): Save is added when   *)
(* PSBT controls are on or sending is impossible; the timer starts.        *)
NewConfirmation ==
  LET enableSend == ~wallet.privKeysDisabled \/ wallet.externalSigner
  IN UpdateButtons([secDelay |-> SEND_CONFIRM_DELAY, timerOn |-> TRUE,
                    yes |-> FALSE, psbt |-> FALSE,
                    hasPsbt |-> wallet.psbtControls \/ ~enableSend,
                    enableSend |-> enableSend])

(* PrepareSendText: every entry must validate; prepareTransaction; the     *)
(* buildscript RPC for cold-staking entries; the fee-only sendtypeto RPC.  *)
PrepareSendText(prepareOk, scriptOk, feeOk) ==
  CASE \E i \in 1..Len(entries) : entries[i].v # "good" -> "invalid"
    [] ~prepareOk                                       -> "prepareFailed"
    [] (\E i \in 1..Len(entries) : entries[i].cs) /\ ~scriptOk -> "rpcFailed"
    [] ~feeOk                                           -> "rpcFailed"
    [] OTHER                                            -> "ok"

(* sendButtonClicked up to the confirmation's exec(): requestUnlock, then  *)
(* PrepareSendText; only the unlock and prepareTransaction failures set    *)
(* fNewRecipientAllowed back before returning.                             *)
SendButtonClicked ==
  /\ phase = "idle"
  /\ \E unlockOk, prepareOk, scriptOk, feeOk \in BOOLEAN :
       LET out    == PrepareSendText(prepareOk, scriptOk, feeOk)
           opened == unlockOk /\ out = "ok"
       IN
       /\ allowed' = IF ~unlockOk \/ out = "prepareFailed" THEN TRUE
                     ELSE BlockNewRecipients
       /\ curTx' = (curTx \/ (unlockOk /\ out # "invalid"))
       /\ phase' = IF opened THEN "confirm" ELSE "idle"
       /\ dlg' = IF opened THEN NewConfirmation ELSE dlg
       /\ shown' = IF opened THEN entries ELSE shown
       /\ ticks' = 0
  /\ UNCHANGED <<entries, coinSel, reply, lastSend, requests, wallet>>

(* Variant of countDown that stops the timer one tick early. *)
CountDownStopsEarly ==
  /\ phase = "confirm" /\ dlg.timerOn
  /\ LET d == UpdateButtons([dlg EXCEPT !.secDelay = @ - 1])
     IN dlg' = [d EXCEPT !.timerOn = ~(d.secDelay <= 1)]
  /\ ticks' = ticks + 1
  /\ UNCHANGED <<entries, allowed, phase, curTx, coinSel, shown, reply,
                 lastSend, requests, wallet>>

(* SendConfirmationDialog::countDown, once a second in the nested loop. *)
CountDown ==
  /\ phase = "confirm" /\ dlg.timerOn
  /\ LET d == UpdateButtons([dlg EXCEPT !.secDelay = @ - 1])
     IN dlg' = [d EXCEPT !.timerOn = ~(d.secDelay <= 0)]
  /\ ticks' = ticks + 1
  /\ UNCHANGED <<entries, allowed, phase, curTx, coinSel, shown, reply,
                 lastSend, requests, wallet>>

(* exec() returns.  Anything but Yes or Save ends the send.  Yes and Save *)
(* both run the broadcasting sendtypeto RPC (the PSBT branch is commented *)
(* out); on success accept() clears the dialog and coin control.           *)
ConfirmReply(r) ==
  /\ phase = "confirm"
  /\ \/ r = "Cancel"
     \/ r = "Yes" /\ dlg.yes
     \/ r = "Save" /\ dlg.psbt
  /\ reply' = r
  /\ phase' = "idle"
  /\ allowed' = TRUE
  /\ dlg' = NoDialog
  /\ ticks' = 0
  /\ shown' = <<>>
  /\ IF r = "Cancel"
     THEN UNCHANGED <<entries, curTx, coinSel, lastSend>>
     ELSE \E ok \in BOOLEAN :
            IF ok THEN Cleared /\ lastSend' = r
            ELSE /\ curTx' = FALSE
                 /\ UNCHANGED <<entries, coinSel, lastSend>>
  /\ UNCHANGED <<requests, wallet>>

-----------------------------------------------------------------------------
Init ==
  /\ entries = <<ClearEntry(FALSE)>>
  /\ allowed = TRUE
  /\ phase = "idle"
  /\ curTx = FALSE
  /\ coinSel = FALSE
  /\ dlg = NoDialog
  /\ ticks = 0
  /\ shown = <<>>
  /\ reply = "none"
  /\ lastSend = "none"
  /\ requests = 0
  /\ wallet \in [privKeysDisabled : BOOLEAN, externalSigner : BOOLEAN,
                 psbtControls : BOOLEAN]

Next ==
  \/ AddEntry \/ AddEntryCS \/ SelectCoins \/ Clear
  \/ \E i \in 1..Len(entries) :
       RemoveEntry(i) \/ \E v \in {"clear", "good", "bad"} : EditEntry(i, v)
  \/ HandlePaymentRequest
  \/ SendButtonClicked \/ CountDown
  \/ \E r \in {"Yes", "Save", "Cancel"} : ConfirmReply(r)

(* Qt's timer fires while the nested event loop runs. *)
Spec == Init /\ [][Next]_vars /\ WF_vars(CountDown)

-----------------------------------------------------------------------------
TypeOK ==
  /\ entries \in Seq(Entry) /\ Len(entries) \in 1..MaxEntries
  /\ allowed \in BOOLEAN /\ phase \in {"idle", "confirm"}
  /\ curTx \in BOOLEAN /\ coinSel \in BOOLEAN
  /\ dlg \in [secDelay : 0..SEND_CONFIRM_DELAY, timerOn : BOOLEAN,
              yes : BOOLEAN, psbt : BOOLEAN, hasPsbt : BOOLEAN,
              enableSend : BOOLEAN]
  /\ ticks \in 0..SEND_CONFIRM_DELAY
  /\ reply \in {"none", "Yes", "Save", "Cancel"}
  /\ lastSend \in {"none", "Yes", "Save"}
  /\ requests \in 0..MaxRequests

(* While the confirmation dialog is up, the recipient entries are the     *)
(* ones it was built from: a payment request delivered by the nested      *)
(* event loop must not slip in, because the send uses the command built   *)
(* before exec() and accept() then clears whatever was pasted.            *)
ConfirmedEntriesStable == phase = "confirm" => entries = shown

(* Coins go out only after the full SEND_CONFIRM_DELAY countdown: Yes and *)
(* Save are accepted only once countDown has ticked that many times.      *)
SendOnlyAfterCountdown ==
  [][phase = "confirm" /\ phase' = "idle" /\ reply' \in {"Yes", "Save"} =>
       ticks >= SEND_CONFIRM_DELAY]_vars

(* A confirmation for a wallet that can send eventually enables Yes,      *)
(* unless the user closes it first.                                        *)
ConfirmationEnablesSend ==
  (phase = "confirm" /\ dlg.enableSend) ~> (dlg.yes \/ phase = "idle")

(* Between sends the dialog accepts new recipients: after                 *)
(* sendButtonClicked returns, by any path, fNewRecipientAllowed is true   *)
(* again, so pasteEntry does not drop payment requests.                   *)
IdleAllowsRecipients == phase = "idle" => allowed

====
