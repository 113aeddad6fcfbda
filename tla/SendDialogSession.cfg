CONSTANTS
  OwnAddrs = {o1, o2}
  ForeignAddrs = {f1}
  Garbage = g
  NoDest = NoDest
  StoredTargets = {3, 6, 2000}
  StoredSliders = {1, 24, 25, 30}
  WalletTargets = {1, 6, 2000}
  MaxOpens = 3
SPECIFICATION Spec
INVARIANT TypeOK
INVARIANT UsedChangeIsShown
PROPERTY ConfTargetRestored
