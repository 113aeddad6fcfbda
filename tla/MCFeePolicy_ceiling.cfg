CONSTANTS
  Sizes <- MCSizes
  OldFees <- MCOldFees
  RatesK <- MCRatesK
  NodeIncrs <- MCNodeIncrs
  RequiredK <- MCRequiredK
  MaxTxFees <- MCMaxTxFees
  ChangeValues <- MCChangeValues
  DustThreshold = 546
SPECIFICATION Spec
INVARIANT TotalBumpWithinMaxTxFee
