------------------------------ MODULE AddressRPC ------------------------------
(***************************************************************************)
(* The address and keypool RPCs of src/wallet/rpc/addresses.cpp:          *)
(* getnewaddress, getrawchangeaddress, setlabel, getaddressesbylabel,     *)
(* listlabels, keypoolrefill and newkeypool.  Each call runs under         *)
(* cs_wallet and is one step: its checks in the code's order, then the    *)
(* one wallet call it makes.                                               *)
(*                                                                         *)
(* The wallet behind the RPCs is outside these sources and is modelled     *)
(* from its interface: keys are numbered in the order they are derived    *)
(* (`next`), a legacy wallet pre-generates keys into its keypool (`pool`), *)
(* a Particl wallet derives from its default account (NewKeyFromAccount), *)
(* and new receiving keys are entered in the address book with their      *)
(* label.  The wallet's kind and flags, which no RPC here changes, are    *)
(* fixed per behaviour in `w`.                                             *)
(***************************************************************************)
EXTENDS Integers, FiniteSets, TLC

CONSTANTS
  Labels,        \* label names LabelFromValue accepts
  BadLabel,      \* the label name "*", which LabelFromValue rejects
  BadType,       \* an address_type ParseOutputType rejects
  NoArg,         \* a parameter that is null
  NoCall,        \* no getnewaddress is between its two lock sections
  Foreign,       \* valid addresses the wallet does not own
  Garbage,       \* a text that is not a Particl address
  DefaultType,   \* m_default_address_type
  KeypoolSize,   \* -keypool, the size TopUpKeyPool(0) fills to
  MaxKeys        \* bound on the keys derived

OutputTypes == {"legacy", "p2sh-segwit", "bech32", "bech32m"}
Keys == 1..MaxKeys

(* Wallet configurations: a Particl HD wallet or a legacy one, with or     *)
(* without private keys, with or without an unlocked key store, and a    *)
(* Particl one with or without a default account (only Particl wallets    *)
(* have one; `account` is TRUE for the others).                           *)
Wallets ==
  {x \in [particl : BOOLEAN, legacy : BOOLEAN, privDisabled : BOOLEAN,
          account : BOOLEAN, locked : BOOLEAN] : ~x.particl => x.account}

VARIABLES
  w,       \* the wallet's kind and flags
  next,    \* the number of the next key to be derived
  pool,    \* the keypool: generated keys not yet handed out
  book,    \* the address book: address -> [label, purpose]
  issued,  \* addresses getnewaddress has returned
  changes, \* addresses getrawchangeaddress has returned
  last,    \* the RPC, result code and returned addresses of the last call
  pending, \* the label of a getnewaddress between its two lock sections
  intervened \* history: the keypool or the lock changed since `pending` was set

vars == <<w, next, pool, book, issued, changes, last, pending, intervened>>

(* The report of a call that is not getaddressinfo. *)
NoInfo == [ismine |-> FALSE, ischange |-> FALSE, labels |-> {}]

Reply(rpc, res, out) == [rpc |-> rpc, res |-> res, out |-> out, info |-> NoInfo]

(* A call that throws: nothing of the wallet changes. *)
Fail(rpc, res) ==
  /\ last' = Reply(rpc, res, {})
  /\ UNCHANGED <<w, next, pool, book, issued, changes, pending>>

(* The effective output type: the parameter when given, else the default. *)
TypeOf(typeArg) == IF typeArg = NoArg THEN DefaultType ELSE typeArg

(* The address-type checks of getnewaddress and getrawchangeaddress. *)
TypeError(typeArg) ==
  CASE typeArg = BadType -> "INVALID_ADDRESS_OR_KEY"
    [] typeArg = "bech32m" /\ w.legacy -> "INVALID_PARAMETER"
    [] OTHER -> "OK"

(* CWallet::IsMine: a key the wallet has derived. *)
IsMine(a) == a \in 1..next - 1

(* CanGetAddresses: a key in the pool, or keys can be generated. *)
CanGetAddresses == pool # {} \/ (~w.locked /\ ~w.privDisabled)

(* The oldest key of a non-empty pool. *)
OldestOf(p) == CHOOSE k \in p : \A j \in p : k <= j

(* TopUpKeyPool(size): generate keys until the pool holds `size`, when    *)
(* the key store is unlocked and has private keys.                         *)
TopUp(size) ==
  IF w.locked \/ w.privDisabled \/ Cardinality(pool) >= size
  THEN [pool |-> pool, next |-> next]
  ELSE [pool |-> pool \cup (next..next + size - Cardinality(pool) - 1),
        next |-> next + size - Cardinality(pool)]

(* ReserveKeyFromKeyPool: TopUp when the store is unlocked, giving the   *)
(* pool and the next key number after it.                                 *)
Reserve == TopUp(KeypoolSize)

-----------------------------------------------------------------------------
(* The key k handed out as a receiving address with the label: entered  *)
(* in the address book and returned.                                       *)
HandOut(k, label) ==
  /\ book' = book @@ [a \in {k} |-> [label |-> label, purpose |-> "receive"]]
  /\ issued' = issued \cup {k}
  /\ last' = Reply("getnewaddress", "OK", {k})

(* The call reaches its second lock section: the checks passed and the   *)
(* key is yet to be derived.  The RPC thread has released cs_wallet.       *)
Begin(label) ==
  /\ pending = NoCall
  /\ pending' = label
  /\ last' = Reply("getnewaddress", "PENDING", {})
  /\ UNCHANGED <<w, next, pool, book, issued, changes>>

(* Variant that derives the key before checking the address type. *)
ParticlNewAddressKeyFirst(label, typeArg, b256) ==
  CASE label = BadLabel -> Fail("getnewaddress", "INVALID_LABEL_NAME")
    [] w.privDisabled \/ ~w.account -> Fail("getnewaddress", "WALLET_ERROR")
    [] \/ TypeError(typeArg) # "OK" \/ TypeOf(typeArg) = "p2sh-segwit"
       \/ b256 /\ TypeOf(typeArg) # "legacy" ->
         /\ next \in Keys
         /\ next' = next + 1
         /\ last' = Reply("getnewaddress", "INVALID_PARAMETER", {})
         /\ UNCHANGED <<w, pool, book, issued, changes, pending>>
    [] OTHER -> Begin(label)

(* getnewaddress on a Particl wallet, up to NewKeyFromAccount: the label  *)
(* is parsed first "so we don't generate a key if there's an error", then *)
(* the address type and the Particl restrictions, then, under cs_wallet,  *)
(* private keys and the default account.                                   *)
ParticlNewAddress(label, typeArg, b256) ==
  CASE label = BadLabel -> Fail("getnewaddress", "INVALID_LABEL_NAME")
    [] TypeError(typeArg) # "OK" -> Fail("getnewaddress", TypeError(typeArg))
    [] TypeOf(typeArg) = "p2sh-segwit" -> Fail("getnewaddress", "INVALID_PARAMETER")
    [] b256 /\ TypeOf(typeArg) # "legacy" -> Fail("getnewaddress", "INVALID_PARAMETER")
    [] w.privDisabled \/ ~w.account -> Fail("getnewaddress", "WALLET_ERROR")
    [] OTHER -> Begin(label)

LegacyNewAddress(label, typeArg) ==
  CASE ~CanGetAddresses -> Fail("getnewaddress", "WALLET_ERROR")
    [] label = BadLabel -> Fail("getnewaddress", "INVALID_LABEL_NAME")
    [] TypeError(typeArg) # "OK" -> Fail("getnewaddress", TypeError(typeArg))
    [] OTHER -> Begin(label)

GetNewAddress(label, typeArg, b256) ==
  IF w.particl THEN ParticlNewAddress(label, typeArg, b256)
  ELSE LegacyNewAddress(label, typeArg)

(* The second lock section fails: the call returns the error. *)
Abort(res) ==
  /\ pending' = NoCall
  /\ last' = Reply("getnewaddress", res, {})
  /\ UNCHANGED <<w, next, pool, book, issued, changes>>

(* NewKeyFromAccount, which takes cs_wallet itself: derive the next key  *)
(* of the default account, or fail.                                        *)
ParticlDerive(ok) ==
  IF ~ok THEN Abort("WALLET_ERROR")
  ELSE /\ next \in Keys
       /\ next' = next + 1
       /\ HandOut(next, pending)
       /\ pending' = NoCall
       /\ UNCHANGED <<w, pool, changes>>

(* Variant in which the reserved key is not kept (it stays in the pool). *)
LegacyDeriveKeepsPool ==
  LET t == Reserve IN
  IF t.pool = {} THEN Abort("WALLET_KEYPOOL_RAN_OUT")
  ELSE /\ t.next <= MaxKeys + 1
       /\ pool' = t.pool
       /\ next' = t.next
       /\ HandOut(OldestOf(t.pool), pending)
       /\ pending' = NoCall
       /\ UNCHANGED <<w, changes>>

(* GetNewDestination under cs_wallet: top up the pool if the key store   *)
(* can, then keep its oldest key; an empty pool is                         *)
(* RPC_WALLET_KEYPOOL_RAN_OUT.  The state CanGetAddresses saw may be gone *)
(* by now: other calls may have drained the pool and the wallet may have   *)
(* been locked.                                                            *)
LegacyDerive ==
  LET t == Reserve IN
  IF t.pool = {} THEN Abort("WALLET_KEYPOOL_RAN_OUT")
  ELSE /\ t.next <= MaxKeys + 1
       /\ pool' = t.pool \ {OldestOf(t.pool)}
       /\ next' = t.next
       /\ HandOut(OldestOf(t.pool), pending)
       /\ pending' = NoCall
       /\ UNCHANGED <<w, changes>>

(* The second step of a getnewaddress that passed its checks. *)
DeriveNewAddress(ok) ==
  /\ pending # NoCall
  /\ IF w.particl THEN ParticlDerive(ok) ELSE LegacyDerive

(* getrawchangeaddress: a Particl wallet derives an internal key and      *)
(* ignores the address_type parameter; another wallet checks               *)
(* CanGetAddresses and the type, then takes a key from the pool.  Change  *)
(* keys are not entered in the address book.                               *)
GetRawChangeAddress(typeArg, ok) ==
  LET t == Reserve
      k == IF w.particl THEN next ELSE OldestOf(t.pool)
  IN
  CASE w.particl /\ ~ok -> Fail("getrawchangeaddress", "WALLET_ERROR")
    [] ~w.particl /\ ~CanGetAddresses -> Fail("getrawchangeaddress", "WALLET_ERROR")
    [] ~w.particl /\ TypeError(typeArg) # "OK" ->
         Fail("getrawchangeaddress", TypeError(typeArg))
    [] ~w.particl /\ t.pool = {} -> Fail("getrawchangeaddress", "WALLET_KEYPOOL_RAN_OUT")
    [] OTHER ->
         /\ k \in Keys
         /\ IF w.particl THEN /\ next' = next + 1 /\ UNCHANGED pool
            ELSE /\ t.next <= MaxKeys + 1
                 /\ pool' = t.pool \ {k}
                 /\ next' = t.next
         /\ changes' = changes \cup {k}
         /\ last' = Reply("getrawchangeaddress", "OK", {k})
         /\ UNCHANGED <<w, book, issued>>

(* Variant that stores the label without LabelFromValue's check. *)
SetLabelNoLabelCheck(addr, label) ==
  CASE addr = Garbage -> Fail("setlabel", "INVALID_ADDRESS_OR_KEY")
    [] OTHER ->
         /\ book' = [a \in DOMAIN book \cup {addr} |->
                       IF a = addr
                       THEN [label |-> label,
                             purpose |-> IF IsMine(addr) THEN "receive" ELSE "send"]
                       ELSE book[a]]
         /\ last' = Reply("setlabel", "OK", {})
         /\ UNCHANGED <<w, next, pool, issued, changes>>

(* Variant that files every address as a sending address. *)
SetLabelNoIsMine(addr, label) ==
  CASE addr = Garbage -> Fail("setlabel", "INVALID_ADDRESS_OR_KEY")
    [] label = BadLabel -> Fail("setlabel", "INVALID_LABEL_NAME")
    [] OTHER ->
         /\ book' = [a \in DOMAIN book \cup {addr} |->
                       IF a = addr THEN [label |-> label, purpose |-> "send"] ELSE book[a]]
         /\ last' = Reply("setlabel", "OK", {})
         /\ UNCHANGED <<w, next, pool, issued, changes>>

(* setlabel: decode the address, parse the label, and file it as a       *)
(* receiving address if the wallet owns it, else as a sending address.    *)
SetLabel(addr, label) ==
  CASE addr = Garbage -> Fail("setlabel", "INVALID_ADDRESS_OR_KEY")
    [] label = BadLabel -> Fail("setlabel", "INVALID_LABEL_NAME")
    [] OTHER ->
         /\ book' = [a \in DOMAIN book \cup {addr} |->
                       IF a = addr
                       THEN [label |-> label,
                             purpose |-> IF IsMine(addr) THEN "receive" ELSE "send"]
                       ELSE book[a]]
         /\ last' = Reply("setlabel", "OK", {})
         /\ UNCHANGED <<w, next, pool, issued, changes>>

(* CWallet::IsChange (ScriptIsChange): a script of the wallet's own that *)
(* has no address-book entry.                                              *)
IsChange(a) == IsMine(a) /\ a \notin DOMAIN book

(* What getaddressinfo reports for an address: whether the wallet owns  *)
(* it, whether it is change, and its address-book label.                  *)
AddressInfo(a) ==
  [ismine |-> IsMine(a), ischange |-> IsChange(a),
   labels |-> IF a \in DOMAIN book THEN {book[a].label} ELSE {}]

(* getaddressinfo: decode the address, then report on it. *)
GetAddressInfo(addr) ==
  /\ last' = IF addr = Garbage
             THEN Reply("getaddressinfo", "INVALID_ADDRESS_OR_KEY", {})
             ELSE [Reply("getaddressinfo", "OK", {}) EXCEPT !.info = AddressInfo(addr)]
  /\ UNCHANGED <<w, next, pool, book, issued, changes>>

(* The P2SH (or, with 256bit, CScriptID256) address of the multisig     *)
(* script over the wallet's key and a hex public key of another party: a script id, written as an    *)
(* integer above the key numbers.                                          *)
MultisigAddr(required, key, b256) ==
  100 + 10 * key + 2 * required + (IF b256 THEN 1 ELSE 0)

(* addmultisigaddress nrequired ["key", "<hex pubkey>"] ( label bech32 256bit     *)
(* address_type ): only for a legacy ScriptPubKeyMan; the label, then    *)
(* each key (an address must be one of the wallet's keys), the type (no   *)
(* bech32m), the redeem script (1 <= nrequired <= 2 keys); then the       *)
(* address is filed as a sending address with the label.                  *)
AddMultisigAddress(required, key, label, typeArg, b256) ==
  CASE ~w.legacy -> Fail("addmultisigaddress", "WALLET_ERROR")
    [] label = BadLabel -> Fail("addmultisigaddress", "INVALID_LABEL_NAME")
    [] ~IsMine(key) -> Fail("addmultisigaddress", "INVALID_ADDRESS_OR_KEY")
    [] typeArg = BadType \/ typeArg = "bech32m" -> Fail("addmultisigaddress", "INVALID_ADDRESS_OR_KEY")
    [] required < 1 \/ required > 2 -> Fail("addmultisigaddress", "INVALID_PARAMETER")
    [] OTHER ->
         LET a == MultisigAddr(required, key, b256) IN
         /\ book' = book @@ [x \in {a} |-> [label |-> label, purpose |-> "send"]]
         /\ last' = Reply("addmultisigaddress", "OK", {a})
         /\ UNCHANGED <<w, next, pool, issued, changes>>

(* getaddressesbylabel: every address-book entry with the label; none is *)
(* an error.                                                               *)
GetAddressesByLabel(label) ==
  LET found == {a \in DOMAIN book : book[a].label = label} IN
  CASE label = BadLabel -> Fail("getaddressesbylabel", "INVALID_LABEL_NAME")
    [] found = {} -> Fail("getaddressesbylabel", "INVALID_LABEL_NAME")
    [] OTHER -> /\ last' = Reply("getaddressesbylabel", "OK", {})
                /\ UNCHANGED <<w, next, pool, book, issued, changes>>

(* listlabels ( purpose ): reads the address book only. *)
ListLabels ==
  /\ last' = Reply("listlabels", "OK", {})
  /\ UNCHANGED <<w, next, pool, book, issued, changes>>

(* keypoolrefill ( newsize ): the private-keys check of legacy wallets    *)
(* comes before the lock, then the size, the unlock check, TopUpKeyPool, *)
(* and the check that the pool holds the size asked for.                  *)
KeypoolRefill(size) ==
  LET kp == IF size = NoArg THEN 0 ELSE size
      t  == TopUp(IF kp = 0 THEN KeypoolSize ELSE kp)
  IN
  CASE w.legacy /\ w.privDisabled -> Fail("keypoolrefill", "WALLET_ERROR")
    [] kp < 0 -> Fail("keypoolrefill", "INVALID_PARAMETER")
    [] w.locked -> Fail("keypoolrefill", "WALLET_UNLOCK_NEEDED")
    [] OTHER ->
         /\ t.next <= MaxKeys + 1
         /\ pool' = t.pool
         /\ next' = t.next
         /\ last' = Reply("keypoolrefill",
                          IF Cardinality(t.pool) < kp THEN "WALLET_ERROR" ELSE "OK", {})
         /\ UNCHANGED <<w, book, issued, changes>>

(* LegacyScriptPubKeyMan::NewKeyPool: the pool is emptied and, when the   *)
(* key store can generate keys, refilled with fresh keys.                  *)
NewKeyPoolRefill ==
  IF w.locked \/ w.privDisabled THEN [pool |-> {}, next |-> next]
  ELSE [pool |-> next..next + KeypoolSize - 1, next |-> next + KeypoolSize]

(* newkeypool: only for wallets with a legacy ScriptPubKeyMan. *)
NewKeyPool ==
  LET t == NewKeyPoolRefill IN
  CASE ~w.legacy -> Fail("newkeypool", "WALLET_ERROR")
    [] OTHER ->
         /\ t.next <= MaxKeys + 1
         /\ pool' = t.pool
         /\ next' = t.next
         /\ last' = Reply("newkeypool", "OK", {})
         /\ UNCHANGED <<w, book, issued, changes>>

-----------------------------------------------------------------------------
Init ==
  /\ w \in Wallets
  /\ next = 1
  /\ pool = {}
  /\ book = [a \in {} |-> [label |-> "", purpose |-> "send"]]
  /\ issued = {}
  /\ changes = {}
  /\ last = Reply("none", "OK", {})
  /\ pending = NoCall
  /\ intervened = FALSE

(* Parameters a wallet kind ignores are enumerated with one value: 256bit *)
(* and the NewKeyFromAccount outcome only matter to a Particl wallet, the  *)
(* change address type only to another one.                                *)
ParticlOnly(S, dflt) == IF w.particl THEN S ELSE {dflt}
OtherOnly(S, dflt) == IF w.particl THEN {dflt} ELSE S

(* walletpassphrase, walletlock and the relock timer: the key store of  *)
(* an encrypted wallet is unlocked and locked again from other threads.   *)
(* A wallet that is not encrypted is the behaviours in which neither      *)
(* step is taken.                                                          *)
LockChange ==
  /\ w' = [w EXCEPT !.locked = ~@]
  /\ last' = Reply(IF w.locked THEN "walletpassphrase" ELSE "walletlock", "OK", {})
  /\ UNCHANGED <<next, pool, book, issued, changes, pending>>

(* RPCs run on the RPC server's threads.  One getnewaddress may be        *)
(* between its two lock sections while the other calls, each one step     *)
(* under cs_wallet, run on other threads.                                   *)
Step ==
  \/ \E l \in Labels, t \in OutputTypes \cup {BadType, NoArg},
       b256 \in ParticlOnly(BOOLEAN, FALSE) : GetNewAddress(l, t, b256)
  \/ GetNewAddress(BadLabel, NoArg, FALSE)
  \/ \E ok \in ParticlOnly(BOOLEAN, TRUE) : DeriveNewAddress(ok)
  \/ LockChange
  \/ /\ \/ \E t \in OtherOnly(OutputTypes \cup {BadType, NoArg}, NoArg),
             ok \in ParticlOnly(BOOLEAN, TRUE) : GetRawChangeAddress(t, ok)
        \/ \E a \in Foreign \cup {Garbage} \cup (1..next - 1), l \in Labels \cup {BadLabel} :
             SetLabel(a, l)
        \/ \E l \in Labels \cup {BadLabel} : GetAddressesByLabel(l)
        \/ ListLabels
        \/ \E s \in {NoArg, -1, KeypoolSize + 1} : KeypoolRefill(s)
        \/ NewKeyPool
        \/ \E a \in Foreign \cup {Garbage} \cup (1..next - 1) : GetAddressInfo(a)
        \/ \E r \in {0, 2, 3}, b256 \in BOOLEAN : AddMultisigAddress(r, 1, "shop", NoArg, b256)
        \/ AddMultisigAddress(2, Garbage, "shop", NoArg, FALSE)
        \/ AddMultisigAddress(2, 1, "shop", "bech32m", FALSE)
        \/ AddMultisigAddress(2, 1, BadLabel, NoArg, FALSE)
     /\ UNCHANGED pending

(* A step of another thread, taken while a getnewaddress is between its   *)
(* lock sections, that changes the keypool or locks or unlocks the wallet. *)
Intervening == pending # NoCall /\ (pool' # pool \/ w'.locked # w.locked)

(* `intervened` is an auxiliary variable with no counterpart in the code:  *)
(* it is reset when a getnewaddress passes its checks and set by any       *)
(* intervening step until that call completes.                             *)
Next ==
  /\ Step
  /\ intervened' = (pending # NoCall /\ (intervened \/ Intervening))

Spec == Init /\ [][Next]_vars

(* The wallet without `last`: no step reads `last`, and the properties    *)
(* read only the reply of the step they judge, so states that differ only *)
(* in the previous reply have the same futures.                            *)
WalletView == <<w, next, pool, book, issued, changes, pending, intervened>>

-----------------------------------------------------------------------------
TypeOK ==
  /\ w \in Wallets /\ next \in 1..MaxKeys + 1 /\ pending \in Labels \cup {NoCall}
  /\ intervened \in BOOLEAN
  /\ pool \subseteq Keys /\ issued \subseteq Keys /\ changes \subseteq Keys
  /\ \A a \in DOMAIN book : book[a].label \in Labels /\ book[a].purpose \in {"receive", "send"}

KeyRPCs == {"getnewaddress", "getrawchangeaddress"}
WriteRPCs == KeyRPCs \cup {"setlabel", "addmultisigaddress"}

(* The comment at addresses.cpp:53, for every RPC that derives keys or    *)
(* writes the address book: a getnewaddress, getrawchangeaddress,         *)
(* setlabel or addmultisigaddress that fails has generated no key and     *)
(* written nothing: no key is derived or taken from the pool and the      *)
(* address book is untouched, whichever check fails.                      *)
FailedCallChangesNothing ==
  [][last'.rpc \in WriteRPCs /\ last'.res # "OK" =>
       UNCHANGED <<next, pool, book, issued, changes>>]_vars

(* The keys the step's call returned: those of a getnewaddress or        *)
(* getrawchangeaddress that succeeded, none for any other step.            *)
Returned == IF last.rpc \in KeyRPCs /\ last.res = "OK" THEN last.out ELSE {}

Ledger == INSTANCE KeyLedger WITH
  handed <- issued \cup changes, receiving <- issued, reply <- Returned

(* The RPCs implement KeyLedger: every step returns no key, or one key no *)
(* earlier call returned, recorded as receiving (getnewaddress) or change *)
(* (getrawchangeaddress) and never as both; handed-out keys never come   *)
(* back into the keypool across keypoolrefill, newkeypool, lock changes   *)
(* and a getnewaddress split across its two lock sections.                *)
ImplementsKeyLedger == Ledger!Spec

(* Every address getnewaddress returned stays a receiving address of the *)
(* address book, whatever labels setlabel gives it later, so              *)
(* getaddressesbylabel lists it under its current label with purpose      *)
(* "receive".                                                              *)
IssuedStayReceiving ==
  \A a \in issued : a \in DOMAIN book /\ book[a].purpose = "receive"

=============================================================================
