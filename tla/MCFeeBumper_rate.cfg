CONSTANTS
  a = a
  r1 = r1
  r2 = r2
  c1 = c1
  c3 = c3
  c4 = c4
  p1 = p1
  p2 = p2
  NoTx = NoTx
  Txs = {a, r1, r2}
  InitTxs = {a}
  InitIns <- MCInitIns
  InitChange <- MCInitChange
  BaseCoins = {c1, c3, c4}
  MyCoins = {c1, c3}
  Callers = {p1}
  ParticlMode = FALSE
  WriteMayFail = TRUE
  MaxRestarts = 1
SPECIFICATION Spec
INVARIANT TypeOK
INVARIANT NoDoublePayment
