CONSTANTS
  a = a
  r1 = r1
  r2 = r2
  c1 = c1
  c3 = c3
  c4 = c4
  p1 = p1
  p2 = p2
  NoTx = NoTx
  Txs = {a, r1, r2}
  InitTxs = {a}
  InitIns <- MCInitInsMine
  InitChange <- MCInitChange
  BaseCoins = {c1, c3, c4}
  MyCoins <- MCMyCoinsAll
  Callers = {p1, p2}
  ParticlMode = TRUE
  WriteMayFail = FALSE
  MaxRestarts = 1
SPECIFICATION Spec
INVARIANT NoChildOfReplaced
INVARIANT BumpedAtMostOnce
PROPERTY ImplementsBumpLedger
