----------------------------- MODULE MnemonicRPC -----------------------------
(***************************************************************************)
(* The "mnemonic" RPC (src/rpc/mnemonic.cpp).  Each call is one step: the  *)
(* mode is parsed, the mode's parameters are checked in the code's order,  *)
(* and the result or the error is recorded in `last`.  "new" draws         *)
(* entropy up to MAX_DERIVE_TRIES times until the master key derived from *)
(* the mnemonic and password is valid; what it returns is remembered in   *)
(* `issued`, so that a later "decode" of the same phrase can be compared  *)
(* with it.                                                                *)
(*                                                                         *)
(* BIP39 encoding, PBKDF2 and BIP32 are abstracted: a phrase is its      *)
(* language, entropy size and entropy, a seed the pair of phrase and      *)
(* password, a master key its seed, and SetSeed gives an invalid key      *)
(* (a secret out of range) for entropy in BadEntropies.                   *)
(***************************************************************************)
EXTENDS Naturals, Sequences, FiniteSets

CONSTANTS
  Entropies,         \* values GetStrongRandBytes2 may return
  BadEntropies,      \* entropy whose seed gives an invalid CExtKey (SetSeed)
  Passwords,         \* passwords a caller may give ("" included)
  Languages,         \* languages GetLanguageOffset may select
  English,           \* mnemonic::WLL_ENGLISH
  EntropyArgs,       \* nBytesEntropy arguments: integers or NotANumber
  NotANumber,        \* an argument ParseInt32 rejects
  Garbage,           \* a phrase mnemonic::Decode rejects
  Blank,             \* the empty mnemonic argument
  MAX_DERIVE_TRIES,  \* key/mnemonic.h
  MaxNew             \* bound on the "new" results remembered

ASSUME English \in Languages /\ MAX_DERIVE_TRIES \in Nat \ {0}

VARIABLES
  issued,  \* results of "new": [phrase, password, bip44, master]
  last     \* the mode and outcome of the last call

vars == <<issued, last>>

Sizes == 16..64

(* mnemonic::Encode over nBytes of entropy, and mnemonic::ToSeed. *)
Encode(lang, size, ent) == [lang |-> lang, size |-> size, ent |-> ent]
ToSeed(phrase, pw) == <<phrase, pw>>

(* CExtKey::SetSeed followed by IsValid. *)
KeyOf(seed) == [seed |-> seed, valid |-> seed[1].ent \notin BadEntropies]

(* CExtKey58::SetKey with EXT_SECRET_KEY_BTC (bip44) or EXT_SECRET_KEY. *)
Encoded(key, bip44) ==
  [key |-> key, prefix |-> IF bip44 THEN "EXT_SECRET_KEY_BTC" ELSE "EXT_SECRET_KEY"]

Error(code) == [res |-> code]

-----------------------------------------------------------------------------
RECURSIVE DeriveLoop(_, _, _, _, _)
(* The MAX_DERIVE_TRIES loop of "new", over the entropy drawn at each try:  *)
(* it breaks at the first valid key, and after the last try it keeps the    *)
(* last phrase and key whether or not the key is valid.                     *)
DeriveLoop(draws, i, lang, size, pw) ==
  LET phrase == Encode(lang, size, draws[i])
      key    == KeyOf(ToSeed(phrase, pw))
  IN IF key.valid \/ i = Len(draws) THEN [phrase |-> phrase, key |-> key]
     ELSE DeriveLoop(draws, i + 1, lang, size, pw)

Draws == [1..MAX_DERIVE_TRIES -> Entropies]

(* Variant that lets any entropy size through. *)
NewArgsNoRange(nParams, pw, lang, nBytes, bip44) ==
  CASE nParams > 3 /\ nBytes = NotANumber -> Error("INVALID_PARAMETER")
    [] nParams > 5 -> Error("INVALID_PARAMETER")
    [] OTHER -> [res |-> "OK", pw |-> IF nParams > 1 THEN pw ELSE "",
                 lang |-> IF nParams > 2 THEN lang ELSE English,
                 size |-> IF nParams > 3 THEN nBytes ELSE 32,
                 bip44 |-> IF nParams > 4 THEN bip44 ELSE TRUE]

(* The parameters of "new" ( password language nBytesEntropy bip44 ), in   *)
(* the code's order; nParams counts the mode, and a parameter is read only *)
(* when present, else its default.                                        *)
NewArgs(nParams, pw, lang, nBytes, bip44) ==
  CASE nParams > 3 /\ nBytes = NotANumber -> Error("INVALID_PARAMETER")
    [] nParams > 3 /\ nBytes \notin Sizes -> Error("INVALID_PARAMETER")
    [] nParams > 5 -> Error("INVALID_PARAMETER")
    [] OTHER -> [res |-> "OK", pw |-> IF nParams > 1 THEN pw ELSE "",
                 lang |-> IF nParams > 2 THEN lang ELSE English,
                 size |-> IF nParams > 3 THEN nBytes ELSE 32,
                 bip44 |-> IF nParams > 4 THEN bip44 ELSE TRUE]

(* bip44 as "decode" reads it: params[3] if present, else true. *)
DecodeBip44(nParams, bip44) == IF nParams > 3 THEN bip44 ELSE TRUE

(* Variant that derives the master key from the phrase alone. *)
DecodeNoPassword(nParams, pw, phrase, bip44) ==
  LET key == KeyOf(ToSeed(phrase, "")) IN
  CASE nParams <= 2 \/ nParams > 4 \/ phrase = Blank -> Error("INVALID_PARAMETER")
    [] phrase = Garbage -> Error("INTERNAL_ERROR")
    [] ~key.valid -> Error("INVALID_PARAMETER")
    [] OTHER -> [res |-> "OK", master |-> Encoded(key, DecodeBip44(nParams, bip44)),
                 lang |-> phrase.lang]

(* "decode" password mnemonic ( bip44 ): missing password or mnemonic, too *)
(* many parameters, blank mnemonic, Decode failing, "Invalid key."; then  *)
(* the master key, with bip44 also the m/44'/BIP44ID' key, and the        *)
(* language Decode detected.                                               *)
Decode(nParams, pw, phrase, bip44) ==
  LET key == KeyOf(ToSeed(phrase, pw)) IN
  CASE nParams <= 2 \/ nParams > 4 \/ phrase = Blank -> Error("INVALID_PARAMETER")
    [] phrase = Garbage -> Error("INTERNAL_ERROR")
    [] ~key.valid -> Error("INVALID_PARAMETER")
    [] OTHER -> [res |-> "OK", master |-> Encoded(key, DecodeBip44(nParams, bip44)),
                 lang |-> phrase.lang]

-----------------------------------------------------------------------------
(* The mode argument matches none of the modes, or is missing. *)
UnknownMode ==
  /\ last' = [mode |-> "unknown", out |-> Error("INVALID_PARAMETER")]
  /\ UNCHANGED issued

(* "new": the parameters, then the derive loop, then the master key     *)
(* encoded with the bip44 or the Particl prefix.                           *)
CallNew ==
  \E nParams \in 1..6, pw \in Passwords, lang \in Languages,
    nBytes \in EntropyArgs, bip44 \in BOOLEAN, draws \in Draws :
    LET a == NewArgs(nParams, pw, lang, nBytes, bip44)
        d == DeriveLoop(draws, 1, a.lang, a.size, a.pw)
        r == [phrase |-> d.phrase, password |-> a.pw, bip44 |-> a.bip44,
              master |-> Encoded(d.key, a.bip44)]
    IN IF a.res # "OK"
       THEN last' = [mode |-> "new", out |-> a] /\ UNCHANGED issued
       ELSE /\ Cardinality(issued) < MaxNew
            /\ last' = [mode |-> "new", out |-> [res |-> "OK"]]
            /\ issued' = issued \cup {r}

(* "decode" of a blank, an undecodable, or an issued phrase. *)
CallDecode ==
  \E nParams \in 1..5, pw \in Passwords, bip44 \in BOOLEAN,
    phrase \in {Blank, Garbage} \cup {i.phrase : i \in issued} :
    /\ last' = [mode |-> "decode", args |-> <<nParams, pw, phrase, bip44>>,
                out |-> Decode(nParams, pw, phrase, bip44)]
    /\ UNCHANGED issued

(* "addchecksum" mnemonic: exactly one phrase, which AddChecksum may     *)
(* reject.                                                                 *)
CallAddChecksum ==
  \E nParams \in 1..3, ok \in BOOLEAN :
    /\ last' = [mode |-> "addchecksum",
                out |-> CASE nParams # 2 -> Error("INVALID_PARAMETER")
                          [] ~ok         -> Error("INTERNAL_ERROR")
                          [] OTHER       -> [res |-> "OK"]]
    /\ UNCHANGED issued

(* "dumpwords" ( language ) and "listlanguages" only read the word lists. *)
CallDumpWords ==
  \E nParams \in 1..2, lang \in Languages :
    /\ last' = [mode |-> "dumpwords",
                out |-> [res |-> "OK", lang |-> IF nParams > 1 THEN lang ELSE English]]
    /\ UNCHANGED issued

CallListLanguages ==
  /\ last' = [mode |-> "listlanguages", out |-> [res |-> "OK"]]
  /\ UNCHANGED issued

Init ==
  /\ issued = {}
  /\ last = [mode |-> "none", out |-> [res |-> "OK"]]

Next ==
  \/ UnknownMode
  \/ CallNew
  \/ CallDecode
  \/ CallAddChecksum
  \/ CallDumpWords
  \/ CallListLanguages

Spec == Init /\ [][Next]_vars

-----------------------------------------------------------------------------
(* Every issued phrase encodes an entropy size in [16, 64]. *)
TypeOK ==
  /\ \A i \in issued :
       /\ i.phrase.size \in Sizes /\ i.phrase.lang \in Languages
       /\ i.password \in Passwords /\ i.bip44 \in BOOLEAN
  /\ last.out.res \in {"OK", "INVALID_PARAMETER", "INTERNAL_ERROR"}

(* The phrase "new" returns is a backup of the master key it returns:     *)
(* "decode" of that phrase with the same password and the same bip44      *)
(* setting succeeds and returns the same master key.                      *)
NewDecodeRoundTrip ==
  [][last'.mode = "decode" =>
       LET a == last'.args IN
       \A i \in issued :
         (/\ a[1] \in 3..4 /\ a[3] = i.phrase /\ a[2] = i.password
          /\ DecodeBip44(a[1], a[4]) = i.bip44)
         => /\ last'.out.res = "OK"
            /\ last'.out.master = i.master]_vars

=============================================================================
