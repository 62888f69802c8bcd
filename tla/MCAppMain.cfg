SPECIFICATION Spec
CONSTANTS
  NonceLen = 1
  ValueLen = 1
  ADDRESS_LEN = 1
  TOKEN_ADDRESS_LEN = 1
  MAX_TX_LEN = 6
  MAX_MEMO_LEN = 1
  Paths <- OnePath
  PartialPath <- Partial
  Chunks <- ShortChunks
  Descriptors <- MCDescriptors
  TOKENS <- MCTokens
  AddressOf <- MCAddressOf
  Cut <- MCCut
  BlindMemo <- MCBlind
  SwapParams <- MCSwapParams
  AddressQueries <- MCAddressQueries
  AmountQueries <- MCAmountQueries
INVARIANTS
  TypeOK
  WaitingHasReview
  HashedIsSerialized
PROPERTIES
  ImplementsApproval
  ReviewedOnce
  WarnedBeforeOn
