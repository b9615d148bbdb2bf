SPECIFICATION TextSpec
CONSTANTS
  SCRATCH_SIZE = 4
  AMOUNT_STR_SIZE = 7
  MAX_TICKER_LEN = 3
  MAX_VALUE = 2500
  DecimalCounts <- SomeDecimals
  Tickers <- FullTickers
  Tails <- SomeTails
  TransactionIds <- SomeIds
INVARIANTS
  FullTickerIsShown
CHECK_DEADLOCK FALSE
