----------------------------- MODULE BumpLedger -----------------------------
(***************************************************************************)
(* What the fee-bump engine promises about the wallet's transactions,      *)
(* without locks, sessions, mempool or disk: a transaction is replaced at  *)
(* most once and for good, only while neither it nor another member of    *)
(* its bump family is confirmed, and at most one member of a family ever   *)
(* confirms.  A family is the set of transactions linked by replaces_txid. *)
(***************************************************************************)
EXTENDS TLC

CONSTANTS
  Txs,      \* transaction ids
  InitTxs,  \* the wallet's transactions at start
  NoTx      \* "no transaction" marker

VARIABLES
  replacedBy,  \* id -> the transaction replacing it, or NoTx
  replaces,    \* id -> the transaction it replaces, or NoTx
  mined        \* ids confirmed in the active chain

vars == <<replacedBy, replaces, mined>>

Known == DOMAIN replacedBy

RECURSIVE Origin(_)
(* The first transaction of t's bump family. *)
Origin(t) == IF replaces[t] = NoTx THEN t ELSE Origin(replaces[t])

FamilyConfirmed(t) == \E m \in mined : Origin(m) = Origin(t)

(* A new wallet transaction that bumps nothing (an ordinary send). *)
NewTx(r) ==
  /\ r \in Txs \ Known
  /\ replacedBy' = replacedBy @@ (r :> NoTx)
  /\ replaces' = replaces @@ (r :> NoTx)
  /\ UNCHANGED mined

(* t is replaced by the new transaction r. *)
Bump(t, r) ==
  /\ t \in Known /\ r \in Txs \ Known
  /\ replacedBy[t] = NoTx
  /\ ~FamilyConfirmed(t)
  /\ replacedBy' = [u \in Known \cup {r} |->
                      IF u = t THEN r ELSE IF u = r THEN NoTx
                      ELSE replacedBy[u]]
  /\ replaces' = replaces @@ (r :> t)
  /\ UNCHANGED mined

(* t confirms; no other member of its family has. *)
Confirm(t) ==
  /\ t \in Known \ mined
  /\ ~FamilyConfirmed(t)
  /\ mined' = mined \cup {t}
  /\ UNCHANGED <<replacedBy, replaces>>

Init ==
  /\ replacedBy = [t \in InitTxs |-> NoTx]
  /\ replaces = [t \in InitTxs |-> NoTx]
  /\ mined = {}

Next ==
  \E t \in Txs : NewTx(t) \/ Confirm(t) \/ \E r \in Txs : Bump(t, r)

Spec == Init /\ [][Next]_vars

=============================================================================
