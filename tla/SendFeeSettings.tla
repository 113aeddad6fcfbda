--------------------------- MODULE SendFeeSettings ---------------------------
(***************************************************************************)
(* The confirmation-target setting of the send dialog                      *)
(* (src/qt/sendcoinsdialog.cpp): the dropdown offers the targets of        *)
(* confTargets; setModel selects the entry for the target stored in        *)
(* QSettings (migrating the pre-0.15 slider position first), and the       *)
(* destructor stores the target of the selected entry.  A dialog is        *)
(* created and destroyed with every wallet view, so the stored target      *)
(* goes through this round trip again and again.                           *)
(***************************************************************************)
EXTENDS Integers, Sequences

CONSTANTS
  StoredTargets,   \* "nConfTarget" values an earlier version may have stored
  StoredSliders,   \* "nSmartFeeSliderPosition" values of pre-0.15 settings
  WalletTargets,   \* -txconfirmtarget (wallet().getConfirmTarget())
  MaxOpens         \* bound on the dialog lifetimes explored

VARIABLES
  settings,   \* QSettings: [confTarget, slider], 0 where the key is absent
  idx,        \* ui->confTargetSelector->currentIndex()
  open,       \* a dialog exists and setModel has run
  closedIdx,  \* the index selected when the last dialog was destroyed, or -1
  opens       \* dialogs created so far

vars == <<settings, idx, open, closedIdx, opens>>

confTargets == <<2, 4, 6, 12, 24, 48, 144, 504, 1008>>
N == Len(confTargets)

(* getConfTargetForIndex: out-of-range indexes are clamped. *)
getConfTargetForIndex(index) ==
  IF index + 1 > N THEN confTargets[N]
  ELSE IF index < 0 THEN confTargets[1]
  ELSE confTargets[index + 1]

(* Variant that returns one past the last index when no target fits. *)
getIndexForConfTargetPastEnd(target) ==
  LET fit == {i \in 0..N-1 : confTargets[i + 1] >= target}
  IN IF fit = {} THEN N ELSE CHOOSE i \in fit : \A j \in fit : i <= j

(* Variant that looks for a strictly larger target. *)
getIndexForConfTargetStrict(target) ==
  LET fit == {i \in 0..N-1 : confTargets[i + 1] > target}
  IN IF fit = {} THEN N - 1 ELSE CHOOSE i \in fit : \A j \in fit : i <= j

(* getIndexForConfTarget: the first offered target at least as large, or  *)
(* the last one.                                                           *)
getIndexForConfTarget(target) ==
  LET fit == {i \in 0..N-1 : confTargets[i + 1] >= target}
  IN IF fit = {} THEN N - 1 ELSE CHOOSE i \in fit : \A j \in fit : i <= j

(* The slider migration in setModel: 25 is the old slider's range. *)
MigrateSlider(s) ==
  IF s.slider # 0 THEN [confTarget |-> 25 - s.slider, slider |-> 0] ELSE s

(* setModel on a new dialog: migrate, then select the stored target, or   *)
(* the wallet's default when none is stored.                               *)
SetModel ==
  /\ ~open
  /\ LET s == MigrateSlider(settings) IN
     /\ settings' = s
     /\ \E walletTarget \in WalletTargets :
          idx' = IF s.confTarget = 0 THEN getIndexForConfTarget(walletTarget)
                 ELSE getIndexForConfTarget(s.confTarget)
  /\ open' = TRUE
  /\ opens' = opens + 1
  /\ UNCHANGED closedIdx

(* The user picks an entry of the dropdown. *)
SelectTarget(i) ==
  /\ open
  /\ idx' = i
  /\ UNCHANGED <<settings, open, closedIdx, opens>>

(* ~SendCoinsDialog stores the selected entry's target.  The last of the *)
(* MaxOpens dialogs explored stays open.                                  *)
Destroy ==
  /\ open /\ opens < MaxOpens
  /\ settings' = [settings EXCEPT !.confTarget = getConfTargetForIndex(idx)]
  /\ closedIdx' = idx
  /\ open' = FALSE
  /\ UNCHANGED <<idx, opens>>

Init ==
  /\ settings \in [confTarget : {0} \cup StoredTargets,
                   slider : {0} \cup StoredSliders]
  /\ idx = -1
  /\ open = FALSE
  /\ closedIdx = -1
  /\ opens = 0

Next == SetModel \/ Destroy \/ \E i \in 0..N-1 : SelectTarget(i)

Spec == Init /\ [][Next]_vars

-----------------------------------------------------------------------------
TypeOK ==
  /\ settings \in [confTarget : Int, slider : Int]
  /\ idx \in -1..N-1 /\ open \in BOOLEAN
  /\ closedIdx \in -1..N-1 /\ opens \in 0..MaxOpens

(* The choice survives closing and reopening the dialog: the target the   *)
(* destructor stores makes the next setModel select the same entry, for   *)
(* whatever the settings held before.                                      *)
ConfTargetRestored ==
  [][~open /\ open' /\ closedIdx # -1 => idx' = closedIdx]_vars

====
