SPECIFICATION ScreensSpec
CONSTANTS
  Junk = Junk
  Zero = Zero
  None = None
  to = to
  host = host
  magic = magic
  SCRATCH_SIZE = 37
  AMOUNT_STR_SIZE = 40
  MAX_DATA_LEN = 1024
  Commands <- ScreenCommands
  Sent <- FlowRequests
INVARIANTS
  ScreenIsReview
  PairsAreReview
PROPERTIES
  IsApplication
  AnswerWasShown
  EveryCommandAnswered
