--------------------------- MODULE SendCoinControl ---------------------------
(***************************************************************************)
(* The coin-control part of the send dialog (src/qt/sendcoinsdialog.cpp):  *)
(* the "coin control features" option, the custom change address          *)
(* checkbox and line edit, the "from" output type combo box, and the       *)
(* CCoinControl object m_coin_control they write.  PrepareSendText reads   *)
(* m_coin_control->destChange for "changeaddress" and the coin control     *)
(* dialog reads nCoinType, so what m_coin_control holds is what a send     *)
(* or a coin selection will use, whatever the widgets show.                *)
(***************************************************************************)
EXTENDS Naturals

CONSTANTS
  OwnAddrs,      \* addresses the wallet owns (ownDestination)
  ForeignAddrs,  \* valid addresses the wallet does not own
  Garbage,       \* a text that does not decode to an address
  NoDest         \* CNoDestination

Addrs == OwnAddrs \cup ForeignAddrs
Texts == {""} \cup Addrs \cup {Garbage}

(* The "from" combo box: Part, Blind, Anon; nCoinType is index + 1. *)
TypeIndexes == 0..2
PartIndex == 0

VARIABLES
  features,   \* OptionsModel::getCoinControlFeatures()
  frame,      \* ui->frameCoinControl is visible
  checked,    \* ui->checkBoxCoinControlChange
  editable,   \* ui->lineEditCoinControlChange is enabled
  text,       \* ui->lineEditCoinControlChange text
  note,       \* ui->labelCoinControlChangeLabel: "", "invalid", "unknown", "known"
  typeFrom,   \* ui->cbxTypeFrom current index
  cc          \* *m_coin_control: [destChange, coinType, selected]

vars == <<features, frame, checked, editable, text, note, typeFrom, cc>>

(* A freshly constructed CCoinControl. *)
DefaultCC == [destChange |-> NoDest, coinType |-> 1, selected |-> FALSE]

-----------------------------------------------------------------------------
(* coinControlChangeEdited(text), given the user's answer to the "not    *)
(* part of this wallet" question: the new destChange, text and note.      *)

(* Variant that keeps the previous destChange until a new one verifies. *)
ChangeEditedKeepsOld(t, yes) ==
  CASE t = ""             -> [dest |-> cc.destChange, text |-> t, note |-> ""]
    [] t \notin Addrs     -> [dest |-> cc.destChange, text |-> t, note |-> "invalid"]
    [] t \in OwnAddrs     -> [dest |-> t, text |-> t, note |-> "known"]
    [] yes                -> [dest |-> t, text |-> t, note |-> "unknown"]
    [] OTHER              -> [dest |-> cc.destChange, text |-> "", note |-> ""]

(* "Default to no change address until verified", then decode, check     *)
(* ownership, and ask before accepting a foreign address; Cancel empties  *)
(* the line edit.                                                          *)
ChangeEdited(t, yes) ==
  CASE t = ""             -> [dest |-> NoDest, text |-> t, note |-> ""]
    [] t \notin Addrs     -> [dest |-> NoDest, text |-> t, note |-> "invalid"]
    [] t \in OwnAddrs     -> [dest |-> t, text |-> t, note |-> "known"]
    [] yes                -> [dest |-> t, text |-> t, note |-> "unknown"]
    [] OTHER              -> [dest |-> NoDest, text |-> "", note |-> ""]

ApplyEdit(e) ==
  /\ cc' = [cc EXCEPT !.destChange = e.dest]
  /\ text' = e.text
  /\ note' = e.note

(* The user types in the enabled line edit (textEdited). *)
CoinControlChangeEdited(t) ==
  /\ frame /\ editable
  /\ \E yes \in BOOLEAN : ApplyEdit(ChangeEdited(t, yes))
  /\ UNCHANGED <<features, frame, checked, editable, typeFrom>>

(* The user toggles the checkbox (stateChanged): unchecking drops the    *)
(* change address, checking re-validates the text already entered.        *)
CoinControlChangeChecked ==
  /\ frame
  /\ checked' = ~checked
  /\ editable' = ~checked
  /\ IF checked
     THEN /\ cc' = [cc EXCEPT !.destChange = NoDest]
          /\ note' = ""
          /\ UNCHANGED text
     ELSE \E yes \in BOOLEAN : ApplyEdit(ChangeEdited(text, yes))
  /\ UNCHANGED <<features, frame, typeFrom>>

(* Variant that stores the combo index itself. *)
TypeFromChangedNoOffset(i) ==
  IF features THEN [cc EXCEPT !.coinType = i] ELSE cc

(* cbxTypeFromChanged: nCoinType follows the combo only while coin control *)
(* features are on.                                                       *)
TypeFromChanged(i) ==
  IF features THEN [cc EXCEPT !.coinType = i + 1] ELSE cc

(* The user picks another "from" type (currentIndexChanged). *)
CbxTypeFromChanged(i) ==
  /\ i # typeFrom
  /\ typeFrom' = i
  /\ cc' = TypeFromChanged(i)
  /\ UNCHANGED <<features, frame, checked, editable, text, note>>

(* coinControlFeatureChanged: the option is switched in the options      *)
(* dialog; switching it off replaces m_coin_control by a fresh one.       *)
CoinControlFeatureChanged(on) ==
  /\ on # features
  /\ features' = on
  /\ frame' = on
  /\ cc' = IF on THEN cc ELSE DefaultCC
  /\ UNCHANGED <<checked, editable, text, note, typeFrom>>

(* coinControlButtonClicked: the coin control dialog selects or unselects *)
(* inputs in m_coin_control.                                              *)
CoinControlButtonClicked ==
  /\ frame
  /\ \E s \in BOOLEAN : cc' = [cc EXCEPT !.selected = s]
  /\ UNCHANGED <<features, frame, checked, editable, text, note, typeFrom>>

(* clear() (after a send, or Clear/Escape): unselect all, uncheck the    *)
(* change checkbox (its stateChanged handler drops destChange), empty the *)
(* line edit, and reset the "from" type to Part (its handler runs).        *)
Clear ==
  /\ LET unselected == [cc EXCEPT !.selected = FALSE]
         unchecked  == IF checked THEN [unselected EXCEPT !.destChange = NoDest]
                       ELSE unselected
     IN cc' = IF typeFrom # PartIndex /\ features
              THEN [unchecked EXCEPT !.coinType = PartIndex + 1]
              ELSE unchecked
  /\ checked' = FALSE
  /\ editable' = IF checked THEN FALSE ELSE editable
  /\ note' = IF checked THEN "" ELSE note
  /\ text' = ""
  /\ typeFrom' = PartIndex
  /\ UNCHANGED <<features, frame>>

(* A new SendCoinsDialog: the constructor's fresh CCoinControl and the   *)
(* widgets' defaults, and setModel showing the coin-control frame when    *)
(* the option is on.                                                       *)
NewDialog ==
  /\ frame' = features
  /\ checked' = FALSE
  /\ editable' = FALSE
  /\ text' = ""
  /\ note' = ""
  /\ typeFrom' = PartIndex
  /\ cc' = DefaultCC
  /\ UNCHANGED features

Init ==
  /\ features \in BOOLEAN
  /\ frame = features
  /\ checked = FALSE
  /\ editable = FALSE
  /\ text = ""
  /\ note = ""
  /\ typeFrom = PartIndex
  /\ cc = DefaultCC

Next ==
  \/ \E t \in Texts : CoinControlChangeEdited(t)
  \/ CoinControlChangeChecked
  \/ \E i \in TypeIndexes : CbxTypeFromChanged(i)
  \/ \E on \in BOOLEAN : CoinControlFeatureChanged(on)
  \/ CoinControlButtonClicked
  \/ Clear

Spec == Init /\ [][Next]_vars

-----------------------------------------------------------------------------
TypeOK ==
  /\ features \in BOOLEAN /\ frame \in BOOLEAN
  /\ checked \in BOOLEAN /\ editable \in BOOLEAN
  /\ text \in Texts /\ note \in {"", "invalid", "unknown", "known"}
  /\ typeFrom \in TypeIndexes
  /\ cc \in [destChange : Addrs \cup {NoDest}, coinType : 1..3,
             selected : BOOLEAN]

(* A send never pays change to an address the dialog does not show: when  *)
(* m_coin_control holds a custom change address, the checkbox is checked  *)
(* and the line edit shows that address, through any sequence of edits,  *)
(* cancelled questions, unchecking, clearing and option changes.          *)
UsedChangeIsShown ==
  cc.destChange # NoDest => checked /\ text = cc.destChange

(* Conversely, a custom change address the dialog shows (frame visible,   *)
(* checkbox checked, an address in the line edit) is the one a send uses. *)
ShownChangeIsUsed ==
  (frame /\ checked /\ text \in Addrs) => cc.destChange = text

=============================================================================
