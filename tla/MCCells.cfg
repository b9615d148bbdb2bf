SPECIFICATION CellsSpec
CONSTANTS
  SIZE = 10
  Buffers <- SomeBuffers
  Widths <- SomeWidths
  Lengths <- SomeLengths
  Junk = Junk
  Zero = Zero
  None = None
  to = to
  NO_CONTEXT = NO_CONTEXT
  Jobs <- SomeJobs
  Streams <- SomeStreams
  Inputs <- SomeInputs
  SCRATCH_SIZE = 6
  AMOUNT_STR_SIZE = 8
INVARIANTS
  IntIsBits
  ValueIsBits
  AppendedIsText
  CellIsText
  CellsInStream
  TreeIsItems
  OutcomeIsInputs
CHECK_DEADLOCK FALSE
