SPECIFICATION ClientSpec
CONSTANTS
  Junk = Junk
  Zero = Zero
  None = None
  to = to
  SCRATCH_SIZE = 6
  AMOUNT_STR_SIZE = 8
  MAX_DATA_LEN = 9
  Commands <- TheirCommands
  Sent <- TheirRequests
  Programs <- SomePrograms
INVARIANTS
  SentIsSigned
PROPERTIES
  RunsEnd
