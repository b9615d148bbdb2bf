SPECIFICATION Spec
CONSTANTS
  Junk = Junk
  Zero = Zero
  None = None
  to = to
  host = host
  magic = magic
  SCRATCH_SIZE = 6
  AMOUNT_STR_SIZE = 8
  MAX_DATA_LEN = 9
  Commands <- ExtendCommands
  Sent <- OneRequest
PROPERTIES
  P2IsAsCommented
