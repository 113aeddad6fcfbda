---------------------------- MODULE MCFeeBumper ----------------------------
(* Instantiation of FeeBumper for TLC: one unconfirmed wallet transaction *)
(* a spending the wallet's c1 and the foreign c4, a spare confirmed       *)
(* wallet coin c3, and two fresh ids for replacements and children.       *)
EXTENDS FeeBumper

CONSTANTS a, r1, r2, c1, c3, c4, p1, p2

MCInitIns == [t \in InitTxs |-> {c1, c4}]
(* The same transaction funded by wallet coins only (c1 and c4 both ours), *)
(* as the total-bump path requires all inputs to be mine.                 *)
MCInitInsMine == [t \in InitTxs |-> {c1, c4}]
MCMyCoinsAll == {c1, c3, c4}

MCInitChange == [t \in InitTxs |-> 1]
=============================================================================
