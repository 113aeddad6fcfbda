----------------------------- MODULE FeePolicy -----------------------------
(***************************************************************************)
(* The fee arithmetic of src/wallet/feebumper.cpp: the check of an         *)
(* explicit fee rate (CheckFeeRate), the estimate used when none is given  *)
(* (EstimateFeeRate) and the pricing of a total bump                       *)
(* (CreateTotalBumpTransaction: new fee, ceiling, mempool floor, shrink    *)
(* and dust folding of the change output).                                 *)
(*                                                                         *)
(* Amounts are satoshis, sizes virtual bytes, fee rates satoshis per 1000  *)
(* virtual bytes, as CFeeRate stores them.  The wallet's and node's        *)
(* settings and the sizes of the transactions are inputs from small sets.  *)
(* Each step evaluates one call on inputs it chooses and records them and  *)
(* the outcome in `last`, so the invariants below are statements about     *)
(* every evaluation over the bounded inputs.                               *)
(***************************************************************************)
EXTENDS Integers

CONSTANTS
  Sizes,          \* virtual sizes of originals and replacements
  OldFees,        \* fees paid by the original transaction
  RatesK,         \* fee rates an explicit fee_rate, the wallet's minimum rate
                  \* or the mempool floor may take
  NodeIncrs,      \* the node's -incrementalrelayfee
  RequiredK,      \* the rate behind GetRequiredFee (minrelay / mintxfee)
  MaxTxFees,      \* -maxtxfee (m_default_max_tx_fee)
  ChangeValues,   \* value of the original's single change output
  DustThreshold   \* GetDustThreshold of the change output at the discard rate

ASSUME Sizes \subseteq Nat \ {0} /\ OldFees \subseteq Nat
ASSUME DustThreshold \in Nat

VARIABLE last   \* the last evaluation: its inputs and its outcome

-----------------------------------------------------------------------------
(* CFeeRate: the constructor from a fee and a size truncates; GetFee       *)
(* rounds up.                                                              *)

(* CFeeRate(nFeePaid, num_bytes). *)
FeeRateOf(fee, size) == IF size > 0 THEN (fee * 1000) \div size ELSE 0

(* CFeeRate::GetFee(num_bytes): ceil(K * size / 1000). *)
GetFee(k, size) == IF k > 0 THEN (k * size + 999) \div 1000 ELSE 0

WALLET_INCREMENTAL_RELAY_FEE == 5000

MaxOf(x, y) == IF x >= y THEN x ELSE y

(* max(relayIncrementalFee, WALLET_INCREMENTAL_RELAY_FEE). *)
IncrementalRelayK(nodeIncr) == MaxOf(nodeIncr, WALLET_INCREMENTAL_RELAY_FEE)

-----------------------------------------------------------------------------
(* CheckFeeRate: the explicit fee_rate against the mempool floor, the      *)
(* old fee plus the increment projected at maxTxSize, the required fee     *)
(* and -maxtxfee, in that order.                                           *)
CheckFeeRate(rate, maxTxSize, oldFee, txSize, mempoolMin, nodeIncr, requiredK, maxTxFee) ==
  LET newTotal    == GetFee(rate, maxTxSize)
      oldK        == FeeRateOf(oldFee, txSize)
      minTotalFee == GetFee(oldK, maxTxSize)
                       + GetFee(IncrementalRelayK(nodeIncr), maxTxSize)
  IN CASE rate < mempoolMin                   -> "WALLET_ERROR"
       [] newTotal < minTotalFee              -> "INVALID_PARAMETER"
       [] newTotal < GetFee(requiredK, maxTxSize) -> "INVALID_PARAMETER"
       [] newTotal > maxTxFee                 -> "WALLET_ERROR"
       [] OTHER                               -> "OK"

(* Variant without the satoshi added for the truncated old rate. *)
EstimateFeeRateNoRoundUp(oldFee, txSize, nodeIncr, minRateK) ==
  MaxOf(FeeRateOf(oldFee, txSize) + IncrementalRelayK(nodeIncr), minRateK)

(* EstimateFeeRate: old rate + 1 + the larger increment, at least the     *)
(* wallet's GetMinimumFeeRate.                                            *)
EstimateFeeRate(oldFee, txSize, nodeIncr, minRateK) ==
  MaxOf(FeeRateOf(oldFee, txSize) + 1 + IncrementalRelayK(nodeIncr), minRateK)

-----------------------------------------------------------------------------
(* CreateTotalBumpTransaction's pricing.                                   *)

(* Variant that keeps GetMinimumFee's result without raising it to the    *)
(* old rate plus the increment.                                            *)
TotalBumpNewFeeNoFloor(maxNew, oldFee, txSize, minRateK, nodeIncr) ==
  LET fee0 == GetFee(minRateK, maxNew)
  IN [fee |-> fee0, k |-> FeeRateOf(fee0, maxNew)]

(* new_fee = GetMinimumFee(maxNewTxSize); if its rate is below the old    *)
(* rate + 1 + increment, the fee at that rate instead.                    *)
TotalBumpNewFee(maxNew, oldFee, txSize, minRateK, nodeIncr) ==
  LET fee0  == GetFee(minRateK, maxNew)
      k0    == FeeRateOf(fee0, maxNew)
      floor == FeeRateOf(oldFee, txSize) + 1 + IncrementalRelayK(nodeIncr)
  IN IF k0 < floor THEN [fee |-> GetFee(floor, maxNew), k |-> floor]
                   ELSE [fee |-> fee0, k |-> k0]

(* The shrunk change output: removed, its value converted to fee, when at *)
(* or below the dust threshold.                                            *)
DustFold(newFee, left) ==
  IF left <= DustThreshold THEN [fee |-> newFee + left, change |-> 0]
  ELSE [fee |-> newFee, change |-> left]

(* Variant without the check that the inputs can be signed              *)
(* (CalculateMaximumSignedTxSize returning -1).                           *)
TotalBumpNoSizeCheck(txSize, maxNew, oldFee, minRateK, nodeIncr, maxTxFee, mempoolMin, change) ==
  LET nf    == TotalBumpNewFee(maxNew, oldFee, txSize, minRateK, nodeIncr)
      delta == nf.fee - oldFee
      out   == DustFold(nf.fee, change - delta)
  IN CASE nf.fee > maxTxFee  -> [res |-> "WALLET_ERROR", fee |-> nf.fee, change |-> change]
       [] nf.k < mempoolMin  -> [res |-> "WALLET_ERROR", fee |-> nf.fee, change |-> change]
       [] delta <= 0         -> [res |-> "ASSERT", fee |-> nf.fee, change |-> change]
       [] change < delta     -> [res |-> "WALLET_ERROR", fee |-> nf.fee, change |-> change]
       [] OTHER              -> [res |-> "OK", fee |-> out.fee, change |-> out.change]

(* The result of the pricing part of CreateTotalBumpTransaction, from the *)
(* size check on.  "ASSERT" is the abort of assert(nDelta > 0).           *)
TotalBump(txSize, maxNew, oldFee, minRateK, nodeIncr, maxTxFee, mempoolMin, change) ==
  IF maxNew < 0 THEN [res |-> "INVALID_ADDRESS_OR_KEY", fee |-> 0, change |-> change]
  ELSE
  LET nf    == TotalBumpNewFee(maxNew, oldFee, txSize, minRateK, nodeIncr)
      delta == nf.fee - oldFee
      out   == DustFold(nf.fee, change - delta)
  IN CASE nf.fee > maxTxFee  -> [res |-> "WALLET_ERROR", fee |-> nf.fee, change |-> change]
       [] nf.k < mempoolMin  -> [res |-> "WALLET_ERROR", fee |-> nf.fee, change |-> change]
       [] delta <= 0         -> [res |-> "ASSERT", fee |-> nf.fee, change |-> change]
       [] change < delta     -> [res |-> "WALLET_ERROR", fee |-> nf.fee, change |-> change]
       [] OTHER              -> [res |-> "OK", fee |-> out.fee, change |-> out.change]

-----------------------------------------------------------------------------
(* The steps.                                                              *)

(* The explicit rates worth trying: the given ones and those next to the  *)
(* old rate plus the increment.                                           *)
UserRates(oldFee, txSize, nodeIncr) ==
  RatesK \cup {FeeRateOf(oldFee, txSize) + IncrementalRelayK(nodeIncr) + d :
               d \in -1..1}

(* CreateRateBumpTransaction with coin_control.m_feerate set. *)
BumpWithFeeRate ==
  \E txSize \in Sizes, maxTxSize \in Sizes, oldFee \in OldFees,
     nodeIncr \in NodeIncrs, mempoolMin \in RatesK, requiredK \in RequiredK,
     maxTxFee \in MaxTxFees :
  \E rate \in UserRates(oldFee, txSize, nodeIncr) :
    last' = [kind |-> "check", txSize |-> txSize, newSize |-> maxTxSize,
             oldFee |-> oldFee, incrK |-> IncrementalRelayK(nodeIncr),
             maxTxFee |-> maxTxFee, rate |-> rate,
             fee |-> GetFee(rate, maxTxSize), change |-> 0, left |-> 0,
             res |-> CheckFeeRate(rate, maxTxSize, oldFee, txSize, mempoolMin,
                                  nodeIncr, requiredK, maxTxFee)]

(* CreateRateBumpTransaction without a fee rate: the estimate, then       *)
(* CreateTransaction paying it at the replacement's size.                  *)
BumpWithEstimate ==
  \E txSize \in Sizes, newSize \in Sizes, oldFee \in OldFees,
     nodeIncr \in NodeIncrs, minRateK \in RatesK :
    LET rate == EstimateFeeRate(oldFee, txSize, nodeIncr, minRateK) IN
    last' = [kind |-> "estimate", txSize |-> txSize, newSize |-> newSize,
             oldFee |-> oldFee, incrK |-> IncrementalRelayK(nodeIncr),
             maxTxFee |-> 0, rate |-> rate, fee |-> GetFee(rate, newSize),
             change |-> 0, left |-> 0, res |-> "OK"]

(* CreateTotalBumpTransaction on a transaction with one change output.    *)
(* CalculateMaximumSignedTxSize may return -1.                             *)
TotalBumpStep ==
  \E txSize \in Sizes, maxNew \in Sizes \cup {-1}, oldFee \in OldFees,
     minRateK \in RatesK, nodeIncr \in NodeIncrs, maxTxFee \in MaxTxFees,
     mempoolMin \in RatesK, change \in ChangeValues :
    LET o == TotalBump(txSize, maxNew, oldFee, minRateK, nodeIncr, maxTxFee,
                       mempoolMin, change) IN
    last' = [kind |-> "total", txSize |-> txSize, newSize |-> maxNew,
             oldFee |-> oldFee, incrK |-> IncrementalRelayK(nodeIncr),
             maxTxFee |-> maxTxFee, rate |-> 0, fee |-> o.fee,
             change |-> change, left |-> o.change, res |-> o.res]

Init == last = [kind |-> "none", txSize |-> 0, newSize |-> 0, oldFee |-> 0,
                incrK |-> 0, maxTxFee |-> 0, rate |-> 0, fee |-> 0,
                change |-> 0, left |-> 0, res |-> "OK"]

Next == BumpWithFeeRate \/ BumpWithEstimate \/ TotalBumpStep

Spec == Init /\ [][Next]_last

-----------------------------------------------------------------------------
(* Amounts are never negative. *)
TypeOK ==
  last \in [kind : {"none", "check", "estimate", "total"}, txSize : Nat,
            newSize : Int, oldFee : Nat, incrK : Nat, maxTxFee : Nat,
            rate : Nat, fee : Nat, change : Nat, left : Nat,
            res : {"OK", "INVALID_ADDRESS_OR_KEY", "INVALID_PARAMETER",
                   "WALLET_ERROR", "ASSERT"}]

(* BIP125 rules 3 and 4 for the estimated rate (the comment in            *)
(* EstimateFeeRate): a replacement at least as large as the original,     *)
(* paying the estimated rate, pays the old fee plus the incremental relay *)
(* fee for its own size, although the old rate was truncated.             *)
EstimatePaysForReplacement ==
  last.kind = "estimate" /\ last.newSize >= last.txSize =>
    last.fee >= last.oldFee + GetFee(last.incrK, last.newSize)

(* CreateTotalBumpTransaction never reaches its assert(nDelta > 0) when   *)
(* the maximum signed size is at least the original's size, and a total   *)
(* bump it returns pays the old fee plus the increment at that size.      *)
TotalBumpPaysForReplacement ==
  last.kind = "total" /\ last.newSize >= last.txSize =>
    /\ last.res # "ASSERT"
    /\ last.res = "OK" =>
         last.fee >= last.oldFee + GetFee(last.incrK, last.newSize)

(* "Min total fee is old fee + relay fee" (CheckFeeRate): an explicit     *)
(* rate it accepts pays, at maxTxSize, the old fee plus the incremental   *)
(* relay fee.  When the node's increment is above the wallet's 5000, that *)
(* is also what the mempool's BIP125 rule 4 demands of the replacement.   *)
CheckFeeRatePaysOldFeePlusIncrement ==
  last.kind = "check" /\ last.res = "OK" /\ last.newSize >= last.txSize =>
    last.fee >= last.oldFee + GetFee(last.incrK, last.newSize)

(* "Check that in all cases the new fee doesn't violate maxTxFee": the    *)
(* fee of a total bump it returns is at most -maxtxfee.                   *)
TotalBumpWithinMaxTxFee ==
  last.kind = "total" /\ last.res = "OK" => last.fee <= last.maxTxFee
====
