CONSTANTS
  OwnAddrs = {o1, o2}
  ForeignAddrs = {f1}
  Garbage = g
  NoDest = NoDest
SPECIFICATION Spec
INVARIANT ShownChangeIsUsed
