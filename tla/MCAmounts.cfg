SPECIFICATION TextSpec
CONSTANTS
  SCRATCH_SIZE = 4
  AMOUNT_STR_SIZE = 7
  MAX_TICKER_LEN = 3
  MAX_VALUE = 2500
  DecimalCounts <- SomeDecimals
  Tickers <- ShortTickers
  Tails <- SomeTails
  TransactionIds <- SomeIds
INVARIANTS
  LoopTypeOK
  ScratchIsDecimal
  TextIsValue
  LoopsStayInside
  LoopsWriteText
  ShownIsAmount
PROPERTIES
  DigitsDouble
CHECK_DEADLOCK FALSE
