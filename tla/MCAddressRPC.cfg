CONSTANTS
  Labels = {"", "shop"}
  BadLabel = "*"
  BadType = BadType
  NoArg = NoArg
  NoCall = NoCall
  Foreign = {f1}
  Garbage = Garbage
  DefaultType = "bech32"
  KeypoolSize = 2
  MaxKeys = 3
SPECIFICATION Spec
VIEW WalletView
INVARIANT TypeOK
INVARIANT IssuedStayReceiving
PROPERTY FailedCallChangesNothing

PROPERTY ImplementsKeyLedger
 
