SPECIFICATION Spec
CONSTANTS
  NonceLen = 8
  ValueLen = 8
  ADDRESS_LEN = 20
  TOKEN_ADDRESS_LEN = 32
  MAX_TX_LEN = 510
  MAX_MEMO_LEN = 465
  Paths <- OnePath
  PartialPath <- Partial
  Chunks <- LongMemo
  Descriptors <- MCDescriptors
  TOKENS <- NoTokens
  AddressOf <- MCAddressOf
  Cut <- MCCut
  BlindMemo <- MCBlind
  SwapParams <- MCSwapParams
  AddressQueries <- MCAddressQueries
  AmountQueries <- MCAmountQueries
INVARIANT MemoWithinLimit
