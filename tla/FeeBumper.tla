----------------------------- MODULE FeeBumper -----------------------------
(***************************************************************************)
(* The fee-bump engine of src/wallet/feebumper.cpp, together with the      *)
(* wallet record store, the node's mempool and the chain it reads.         *)
(*                                                                         *)
(* Several callers (RPC threads, the GUI) build a replacement under        *)
(* cs_wallet (CreateRateBumpTransaction or, for a Particl wallet,          *)
(* CreateTotalBumpTransaction), release the lock, and later commit it in   *)
(* a second critical section (CommitTransaction).  Between the two, the    *)
(* chain, the mempool and other wallet operations move on.  The node can   *)
(* restart, losing in-flight bumps and the in-memory replaced_by_txid      *)
(* marks that were never written to disk.                                  *)
(*                                                                         *)
(* Amounts and fee rates are abstracted to the outcome of the pricing      *)
(* step; FeePolicy.tla models the arithmetic itself.                       *)
(***************************************************************************)
EXTENDS Integers, FiniteSets, TLC

CONSTANTS
  Txs,            \* transaction ids: the initial wallet txs and fresh ones
  InitTxs,        \* wallet transactions present at start, all in the mempool
  InitIns,        \* [InitTxs -> SUBSET BaseCoins]: their inputs
  InitChange,     \* [InitTxs -> 0..2]: their number of change outputs
  BaseCoins,      \* confirmed outpoints that exist at start
  MyCoins,        \* the ones the wallet owns (IsMine)
  Callers,        \* concurrent callers of the bump entry points
  ParticlMode,    \* TRUE: total-bump path (Particl wallet), FALSE: rate-bump
  WriteMayFail,   \* WalletBatch::WriteTx in MarkReplaced may fail
  MaxRestarts,    \* bound on node restarts
  NoTx            \* "no transaction" marker

ASSUME InitTxs \subseteq Txs /\ NoTx \notin Txs
ASSUME MyCoins \subseteq BaseCoins
ASSUME MaxRestarts \in Nat

VARIABLES
  wtx,        \* mapWallet: id -> record (inputs, signalling, change, linkage)
  diskRB,     \* replaced_by_txid as persisted in the wallet database
  chain,      \* ids of wallet transactions mined in the active chain
  mempool,    \* ids of wallet transactions in the node's mempool
  extChild,   \* txs whose payee output is spent by a non-wallet mempool tx
  sess,       \* per caller: the bump it has built and not yet committed
  restarts    \* number of node restarts so far

vars == <<wtx, diskRB, chain, mempool, extChild, sess, restarts>>

Results == {"OK", "INVALID_ADDRESS_OR_KEY", "INVALID_PARAMETER",
            "WALLET_ERROR", "MISC_ERROR"}

(* The change output of a wallet transaction, as an outpoint.             *)
Out(t) == <<"change", t>>
Coins == BaseCoins \cup {Out(t) : t \in Txs}

WtxRec == [ins : SUBSET Coins, rbf : BOOLEAN, change : 0..2,
           replaces : Txs \cup {NoTx}, replacedBy : Txs \cup {NoTx}]
Idle(t, r) == [st |-> "idle", orig |-> t, ins |-> {}, rbf |-> FALSE,
            change |-> 0, res |-> r]
SessRec == [st : {"idle", "built"}, orig : Txs \cup {NoTx},
            ins : SUBSET Coins, rbf : BOOLEAN, change : 0..2,
            res : Results \cup {"NONE", "ABANDONED"}]

Fresh == Txs \ DOMAIN wtx
NewId == CHOOSE r \in Fresh : TRUE

-----------------------------------------------------------------------------
(* Chain and mempool views the engine consumes.                            *)

SpentOnChain(c) == \E m \in chain : c \in wtx[m].ins

(* Outpoint c exists and is unspent in the chain view (on-chain only). *)
OnChainCoin(c) ==
  /\ \/ c \in BaseCoins
     \/ \E u \in chain : c = Out(u) /\ wtx[u].change > 0
  /\ ~SpentOnChain(c)

(* findCoins: the mempool-backed coins view also sees mempool outputs. *)
CoinFound(c) ==
  \/ OnChainCoin(c)
  \/ \E u \in mempool : c = Out(u) /\ wtx[u].change > 0 /\ ~SpentOnChain(c)

RECURSIVE Conflicted(_)
(* A mined transaction other than t spends one of t's inputs, or t spends *)
(* the output of a conflicted transaction (MarkConflicted recursion).     *)
Conflicted(t) ==
  \/ \E m \in chain \ {t} : wtx[m].ins \cap wtx[t].ins # {}
  \/ \E u \in DOMAIN wtx : Out(u) \in wtx[t].ins /\ Conflicted(u)

(* GetTxDepthInMainChain, with all confirmations collapsed to depth 1. *)
Depth(t) == IF t \in chain THEN 1 ELSE IF Conflicted(t) THEN -1 ELSE 0

(* CWallet::HasWalletSpend: some wallet transaction spends an output of t. *)
HasWalletSpend(t) == \E c \in DOMAIN wtx : Out(t) \in wtx[c].ins

HasDescendantsInMempool(t) ==
  t \in mempool /\ (t \in extChild \/ \E c \in mempool : Out(t) \in wtx[c].ins)

IsMineCoin(c) == c \in MyCoins \/ \E u \in DOMAIN wtx : c = Out(u)

RECURSIVE Purge(_, _)
(* Remove the transactions in gone and, transitively, their mempool       *)
(* descendants from pool.                                                 *)
Purge(pool, gone) ==
  LET left == pool \ gone
      kids == {c \in left : \E g \in gone : Out(g) \in wtx[c].ins}
  IN IF kids = {} THEN left ELSE Purge(left, kids)

(* The mempool transactions that spend one of the given inputs. *)
MempoolConflicts(ins, self) ==
  {m \in mempool \ {self} : wtx[m].ins \cap ins # {}}

-----------------------------------------------------------------------------
(* Variant without the replaced_by_txid check (a defect for comparison). *)
PreconditionChecksNoReplacedBy(t, requireMine) ==
  CASE HasWalletSpend(t)                          -> "INVALID_PARAMETER"
    [] HasDescendantsInMempool(t)                 -> "INVALID_PARAMETER"
    [] Depth(t) # 0                               -> "WALLET_ERROR"
    [] ~wtx[t].rbf                                -> "WALLET_ERROR"
    [] requireMine /\ ~\A c \in wtx[t].ins : IsMineCoin(c) -> "WALLET_ERROR"
    [] OTHER                                      -> "OK"

(* PreconditionChecks(wallet, wtx, require_mine, errors): the order of the *)
(* checks decides which Result a transaction failing several of them gets. *)
PreconditionChecks(t, requireMine) ==
  CASE HasWalletSpend(t)                          -> "INVALID_PARAMETER"
    [] HasDescendantsInMempool(t)                 -> "INVALID_PARAMETER"
    [] Depth(t) # 0                               -> "WALLET_ERROR"
    [] ~wtx[t].rbf                                -> "WALLET_ERROR"
    [] wtx[t].replacedBy # NoTx                   -> "WALLET_ERROR"
    [] requireMine /\ ~\A c \in wtx[t].ins : IsMineCoin(c) -> "WALLET_ERROR"
    [] OTHER                                      -> "OK"

(* Variant of the commit that trusts the checks made when it was built. *)
CommitChecksSkipped(t) == "OK"

(* "make sure the transaction still has no descendants and hasn't been    *)
(* mined in the meantime": the checks again, without require_mine.        *)
CommitChecks(t) == PreconditionChecks(t, FALSE)

(* TransactionCanBeBumped: the precondition checks with require_mine. *)
TransactionCanBeBumped(t) ==
  t \in DOMAIN wtx /\ PreconditionChecks(t, TRUE) = "OK"

(* new_coin_control.m_min_depth: no new unconfirmed inputs (BIP125 rule 2). *)
BuilderMinDepth == 1

(* The coins CreateTransaction may add beyond the forced ones: owned,      *)
(* unspent by any live wallet transaction, and at least BuilderMinDepth    *)
(* deep.                                                                   *)
ExtraCandidates(t) ==
  {c \in Coins :
     /\ IsMineCoin(c)
     /\ c \notin wtx[t].ins
     /\ CoinFound(c)
     /\ ~\E s \in DOMAIN wtx : c \in wtx[s].ins /\ Depth(s) >= 0
     /\ IF c \in BaseCoins THEN 1 >= BuilderMinDepth
        ELSE \E u \in DOMAIN wtx : c = Out(u) /\ Depth(u) >= BuilderMinDepth}

(* Variant where the builder may use other coins instead of the forced ones. *)
ReplacementInputsForcedLost(t, extra) == IF extra = {} THEN wtx[t].ins ELSE extra

(* All inputs of the original are force-selected; other inputs allowed. *)
ReplacementInputs(t, extra) == wtx[t].ins \cup extra

-----------------------------------------------------------------------------
(* Operations of the engine.                                               *)

Fail(p, t, r) == /\ sess' = [sess EXCEPT ![p] = Idle(t, r)]
              /\ UNCHANGED <<wtx, diskRB, chain, mempool, extChild, restarts>>

Built(p, t, ins, rbf, change) ==
  /\ sess' = [sess EXCEPT ![p] = [st |-> "built", orig |-> t, ins |-> ins,
                                  rbf |-> rbf, change |-> change, res |-> "OK"]]
  /\ UNCHANGED <<wtx, diskRB, chain, mempool, extChild, restarts>>

(* CreateRateBumpTransaction, under cs_wallet.  The harvest of inputs     *)
(* comes before the precondition checks; pricing (CheckFeeRate or          *)
(* EstimateFeeRate) and CreateTransaction may reject.                      *)
CreateRateBumpTransaction(p) ==
  /\ ~ParticlMode
  /\ sess[p].st = "idle"
  /\ \E t \in Txs, requireMine \in BOOLEAN :
       CASE t \notin DOMAIN wtx -> Fail(p, t, "INVALID_ADDRESS_OR_KEY")
         [] ~\A c \in wtx[t].ins : CoinFound(c) -> Fail(p, t, "MISC_ERROR")
         [] PreconditionChecks(t, requireMine) # "OK" ->
              Fail(p, t, PreconditionChecks(t, requireMine))
         [] OTHER ->
              \/ \E r \in {"INVALID_PARAMETER", "WALLET_ERROR"} : Fail(p, t, r)
              \/ \E extra \in {{}} \cup {{c} : c \in ExtraCandidates(t)},
                    rbf \in BOOLEAN, change \in 0..1 :
                   Built(p, t, ReplacementInputs(t, extra), rbf, change)

(* CreateTotalBumpTransaction: the same inputs, the single change output  *)
(* shrunk by the fee delta and dropped when it becomes dust.               *)
CreateTotalBumpTransaction(p) ==
  /\ ParticlMode
  /\ sess[p].st = "idle"
  /\ \E t \in Txs :
       CASE t \notin DOMAIN wtx -> Fail(p, t, "INVALID_ADDRESS_OR_KEY")
         [] PreconditionChecks(t, TRUE) # "OK" ->
              Fail(p, t, PreconditionChecks(t, TRUE))
         [] wtx[t].change # 1 -> Fail(p, t, "WALLET_ERROR")
         [] OTHER ->
              \/ \E r \in {"INVALID_ADDRESS_OR_KEY", "WALLET_ERROR"} : Fail(p, t, r)
              \/ \E rbf \in BOOLEAN, change \in 0..1 :
                   Built(p, t, wtx[t].ins, rbf, change)

(* The caller drops a built bump (SignTransaction fails, or the GUI user  *)
(* declines the confirmation).                                            *)
SignTransactionFails(p) ==
  /\ sess[p].st = "built"
  /\ Fail(p, sess[p].orig, "ABANDONED")

(* Variant of MarkReplaced that never writes the original's mark. *)
PersistCommitMarkLost(t, r, written) ==
  [u \in DOMAIN wtx \cup {r} |-> IF u = r THEN NoTx ELSE diskRB[u]]

(* Variant whose commit does not persist the new transaction's record. *)
PersistCommitNewTxLost(t, r, written) ==
  [u \in DOMAIN wtx |-> IF u = t /\ written THEN r ELSE diskRB[u]]

(* What the database holds after CWallet::CommitTransaction (the new      *)
(* record, with no replaced_by_txid) and MarkReplaced (the original's     *)
(* mark, when WriteTx succeeded).                                          *)
PersistCommit(t, r, written) ==
  [u \in DOMAIN wtx \cup {r} |->
     IF u = t /\ written THEN r ELSE IF u = r THEN NoTx ELSE diskRB[u]]

(* CommitTransaction, in a second cs_wallet section: re-run the checks,   *)
(* commit and broadcast the replacement, then MarkReplaced the original.  *)
(* Broadcast may be refused by mempool policy; the record stays.  The     *)
(* write of the original's new mark to disk may fail (non-fatal).         *)
CommitTransaction(p) ==
  /\ sess[p].st = "built"
  /\ LET t == sess[p].orig IN
     IF CommitChecks(t) # "OK"
     THEN Fail(p, t, CommitChecks(t))
     ELSE
       /\ Fresh # {}
       /\ LET r == NewId
              s == sess[p]
              valid == \A c \in s.ins : CoinFound(c)
          IN
          /\ wtx' = [u \in DOMAIN wtx \cup {r} |->
                      IF u = r THEN [ins |-> s.ins, rbf |-> s.rbf,
                                     change |-> s.change, replaces |-> t,
                                     replacedBy |-> NoTx]
                      ELSE IF u = t THEN [wtx[t] EXCEPT !.replacedBy = r]
                      ELSE wtx[u]]
          /\ \E accepted \in IF valid THEN BOOLEAN ELSE {FALSE},
                written \in IF WriteMayFail THEN BOOLEAN ELSE {TRUE} :
               /\ mempool' = IF accepted
                             THEN Purge(mempool, MempoolConflicts(s.ins, r)) \cup {r}
                             ELSE mempool
               /\ extChild' = extChild \cap mempool'
               /\ diskRB' = PersistCommit(t, r, written)
          /\ sess' = [sess EXCEPT ![p] = Idle(t, "OK")]
          /\ UNCHANGED <<chain, restarts>>

-----------------------------------------------------------------------------
(* The environment: miners, other wallets, the rest of this wallet, and   *)
(* node restarts.                                                         *)

(* Any wallet transaction was broadcast, so some miner may include it     *)
(* while its inputs are unspent on chain, even if our mempool evicted it. *)
Mine(t) ==
  /\ t \in DOMAIN wtx \ chain
  /\ \A c \in wtx[t].ins : OnChainCoin(c)
  /\ chain' = chain \cup {t}
  /\ mempool' = Purge(mempool \ {t}, MempoolConflicts(wtx[t].ins, t))
  /\ extChild' = extChild \cap mempool'
  /\ UNCHANGED <<wtx, diskRB, sess, restarts>>

(* A payee spends its output of t in the mempool (CPFP by the receiver). *)
ExternalSpend(t) ==
  /\ t \in mempool \ extChild
  /\ extChild' = extChild \cup {t}
  /\ UNCHANGED <<wtx, diskRB, chain, mempool, sess, restarts>>

(* Another wallet send spends the change of unconfirmed t (a child).  The *)
(* wallet's coin availability treats outputs of an unconfirmed tx that     *)
(* replaces or was replaced as unsafe and does not spend them.            *)
WalletSpendChange(t) ==
  /\ t \in mempool
  /\ wtx[t].change > 0
  /\ wtx[t].replaces = NoTx /\ wtx[t].replacedBy = NoTx
  /\ ~HasWalletSpend(t)
  /\ Fresh # {}
  /\ LET c == NewId IN
     /\ wtx' = wtx @@ (c :> [ins |-> {Out(t)}, rbf |-> TRUE, change |-> 1,
                             replaces |-> NoTx, replacedBy |-> NoTx])
     /\ diskRB' = diskRB @@ (c :> NoTx)
     /\ mempool' = mempool \cup {c}
  /\ UNCHANGED <<chain, extChild, sess, restarts>>

(* Restart: in-flight bumps are lost and mapWallet is reloaded from disk. *)
Restart ==
  /\ restarts < MaxRestarts
  /\ restarts' = restarts + 1
  /\ wtx' = [u \in DOMAIN wtx |-> [wtx[u] EXCEPT !.replacedBy = diskRB[u]]]
  /\ sess' = [p \in Callers |-> Idle(NoTx, "NONE")]
  /\ UNCHANGED <<diskRB, chain, mempool, extChild>>

-----------------------------------------------------------------------------
Init ==
  /\ wtx = [t \in InitTxs |-> [ins |-> InitIns[t], rbf |-> TRUE,
                               change |-> InitChange[t], replaces |-> NoTx,
                               replacedBy |-> NoTx]]
  /\ diskRB = [t \in InitTxs |-> NoTx]
  /\ chain = {}
  /\ mempool = InitTxs
  /\ extChild = {}
  /\ sess = [p \in Callers |-> Idle(NoTx, "NONE")]
  /\ restarts = 0

Next ==
  \/ \E p \in Callers :
       \/ CreateRateBumpTransaction(p)
       \/ CreateTotalBumpTransaction(p)
       \/ SignTransactionFails(p)
       \/ CommitTransaction(p)
  \/ \E t \in Txs : Mine(t) \/ ExternalSpend(t) \/ WalletSpendChange(t)
  \/ Restart

Spec == Init /\ [][Next]_vars

-----------------------------------------------------------------------------
TypeOK ==
  /\ DOMAIN wtx \subseteq Txs /\ \A t \in DOMAIN wtx : wtx[t] \in WtxRec
  /\ DOMAIN diskRB = DOMAIN wtx
  /\ chain \subseteq DOMAIN wtx /\ mempool \subseteq DOMAIN wtx
  /\ extChild \subseteq mempool
  /\ sess \in [Callers -> SessRec]
  /\ restarts \in 0..MaxRestarts

RECURSIVE Root(_)
(* The original a chain of replaces_txid links starts from. *)
Root(t) == IF wtx[t].replaces = NoTx THEN t ELSE Root(wtx[t].replaces)

(* No double payment (the comment above the forced selection in            *)
(* CreateRateBumpTransaction): two transactions descended from the same    *)
(* original by bumps, direct or chained, never both confirm.               *)
NoDoublePayment ==
  \A t1, t2 \in chain : t1 # t2 => Root(t1) # Root(t2)

(* A transaction is bumped at most once (replaced_by_txid check in        *)
(* PreconditionChecks, re-run by CommitTransaction): at most one wallet    *)
(* record names it in replaces_txid.                                      *)
BumpedAtMostOnce ==
  \A t \in DOMAIN wtx :
    Cardinality({r \in DOMAIN wtx : wtx[r].replaces = t}) <= 1

(* No wallet transaction spends the change of a transaction that has     *)
(* been replaced: such a child can never confirm once the replacement      *)
(* does.  A child may be created between a bump's build and its commit    *)
(* (cs_wallet is released in between), so this rests on CommitTransaction *)
(* re-running PreconditionChecks, and, across a restart, on the            *)
(* original's replaced_by_txid mark having reached the disk.               *)
NoChildOfReplaced ==
  \A t \in DOMAIN wtx :
    (\E r \in DOMAIN wtx : wtx[r].replaces = t) => ~HasWalletSpend(t)

-----------------------------------------------------------------------------
(* Refinement: the wallet's replaced_by_txid and replaces_txid marks and   *)
(* the mined set, seen through BumpLedger.                                 *)
Ledger == INSTANCE BumpLedger WITH
  replacedBy <- [t \in DOMAIN wtx |-> wtx[t].replacedBy],
  replaces   <- [t \in DOMAIN wtx |-> wtx[t].replaces],
  mined      <- chain

(* The engine implements the ledger: every commit is a Bump of an         *)
(* unreplaced transaction whose family has not confirmed, a mark once set  *)
(* is never lost (MarkReplaced's write and a restart's reload included),   *)
(* and mining never confirms two members of one family.                    *)
ImplementsBumpLedger == Ledger!Spec

=============================================================================
