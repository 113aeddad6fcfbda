------------------------------ MODULE KeyLedger ------------------------------
(***************************************************************************)
(* What the address RPCs promise about the wallet's keys, without keypool, *)
(* accounts, locks or address book: each call returns at most one key,     *)
(* a key is returned at most once, either as a receiving address or as a   *)
(* change address, and a returned key stays returned.                      *)
(***************************************************************************)
CONSTANTS
  Keys      \* the keys the wallet can derive

VARIABLES
  handed,     \* keys returned as addresses so far
  receiving,  \* those of them returned as receiving addresses
  reply       \* the keys the last call returned

vars == <<handed, receiving, reply>>

(* A fresh key returned as a receiving address (getnewaddress). *)
GiveReceiving(k) ==
  /\ k \in Keys \ handed
  /\ handed' = handed \cup {k}
  /\ receiving' = receiving \cup {k}
  /\ reply' = {k}

(* A fresh key returned as a change address (getrawchangeaddress). *)
GiveChange(k) ==
  /\ k \in Keys \ handed
  /\ handed' = handed \cup {k}
  /\ reply' = {k}
  /\ UNCHANGED receiving

(* Any other call, or one that fails: no key is returned. *)
NoKey ==
  /\ reply' = {}
  /\ UNCHANGED <<handed, receiving>>

Init ==
  /\ handed = {}
  /\ receiving = {}
  /\ reply = {}

Next ==
  \/ \E k \in Keys : GiveReceiving(k) \/ GiveChange(k)
  \/ NoKey

Spec == Init /\ [][Next]_vars

=============================================================================
