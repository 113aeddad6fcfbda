CONSTANTS
  Sizes <- MCSizes
  OldFees <- MCOldFees
  RatesK <- MCRatesK
  NodeIncrs <- MCNodeIncrsAboveWallet
  RequiredK <- MCRequiredK
  MaxTxFees <- MCMaxTxFees
  ChangeValues <- MCChangeValues
  DustThreshold = 546
SPECIFICATION Spec
INVARIANT CheckFeeRatePaysOldFeePlusIncrement
