---------------------------- MODULE MCFeePolicy ----------------------------
(* Inputs for FeePolicy.  Sizes below and above 1000 vB (where the        *)
(* truncated old rate loses satoshis when projected back), an even and an *)
(* odd old fee, node increments below and above the wallet's 5000, and    *)
(* change values that are too small, fold into the fee as dust, or stay.  *)
EXTENDS FeePolicy

MCSizes == {225, 2000}
MCOldFees == {100, 1999}
MCRatesK == {1000, 20000}
MCNodeIncrs == {1000, 7001}
(* A node increment above the wallet's: the increment CheckFeeRate uses   *)
(* is the one the node's mempool enforces.                                *)
MCNodeIncrsAboveWallet == {7001}
MCRequiredK == {1000}
MCMaxTxFees == {1500, 10000000}
MCChangeValues == {1000, 1500, 50000}
====
