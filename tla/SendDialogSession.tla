-------------------------- MODULE SendDialogSession --------------------------
(***************************************************************************)
(* The settings side of SendCoinsDialog over its lifetimes: the            *)
(* confirmation-target round trip (SendFeeSettings) and the coin-control   *)
(* handlers (SendCoinControl) composed.  A SendCoinsDialog is constructed *)
(* with a fresh CCoinControl and widgets in their defaults, and setModel   *)
(* shows the coin-control frame when the option is on; the option itself  *)
(* lives in OptionsModel and outlives the dialog, and the coin-control    *)
(* handlers run only while a dialog exists.                                *)
(***************************************************************************)
EXTENDS Naturals

CONSTANTS
  OwnAddrs, ForeignAddrs, Garbage, NoDest,
  StoredTargets, StoredSliders, WalletTargets, MaxOpens

VARIABLES
  settings, idx, open, closedIdx, opens,
  features, frame, checked, editable, text, note, typeFrom, cc

feeVars == <<settings, idx, open, closedIdx, opens>>
dialogVars == <<frame, checked, editable, text, note, typeFrom, cc>>
vars == <<feeVars, features, dialogVars>>

FS == INSTANCE SendFeeSettings
CC == INSTANCE SendCoinControl

(* The constructor and setModel of a new dialog: the stored target is     *)
(* selected, and the coin-control widgets and m_coin_control start afresh *)
(* with the frame following the option.                                    *)
OpenDialog ==
  /\ FS!SetModel
  /\ CC!NewDialog

(* ~SendCoinsDialog stores the target; the coin-control state goes with   *)
(* the dialog.                                                             *)
CloseDialog ==
  /\ FS!Destroy
  /\ UNCHANGED <<features, dialogVars>>

SelectTarget(i) ==
  /\ FS!SelectTarget(i)
  /\ UNCHANGED <<features, dialogVars>>

(* A coin-control handler of the open dialog. *)
CoinControlStep ==
  /\ open
  /\ \/ \E t \in CC!Texts : CC!CoinControlChangeEdited(t)
     \/ CC!CoinControlChangeChecked
     \/ \E i \in CC!TypeIndexes : CC!CbxTypeFromChanged(i)
     \/ CC!CoinControlButtonClicked
     \/ CC!Clear
  /\ UNCHANGED feeVars

(* The option is switched in the options dialog: the open dialog's       *)
(* coinControlFeatureChanged runs; with no dialog only the option changes. *)
OptionChanged(on) ==
  /\ \/ open /\ CC!CoinControlFeatureChanged(on)
     \/ ~open /\ on # features /\ features' = on /\ UNCHANGED dialogVars
  /\ UNCHANGED feeVars

Init == FS!Init /\ CC!Init

Next ==
  \/ OpenDialog
  \/ CloseDialog
  \/ \E i \in 0..FS!N - 1 : SelectTarget(i)
  \/ CoinControlStep
  \/ \E on \in BOOLEAN : OptionChanged(on)

Spec == Init /\ [][Next]_vars

-----------------------------------------------------------------------------
(* The variables of both parts keep their types. *)
TypeOK == FS!TypeOK /\ CC!TypeOK

(* See SendCoinControl: a change address held in m_coin_control is the    *)
(* one the checked line edit shows, across dialogs and option changes.     *)
UsedChangeIsShown == CC!UsedChangeIsShown

(* See SendFeeSettings: the target selected when a dialog closes is       *)
(* selected again when the next dialog opens.                              *)
ConfTargetRestored == FS!ConfTargetRestored

=============================================================================
