SPECIFICATION Spec
CONSTANTS
  Junk = Junk
  Zero = Zero
  None = None
  to = to
  host = host
  magic = magic
  SCRATCH_SIZE = 6
  AMOUNT_STR_SIZE = 8
  MAX_DATA_LEN = 9
  Commands <- SessionCommands
  Sent <- OneRequest
INVARIANTS
  TypeOK
  HeaderSurvives
  BufferIsSession
  ReviewIsSession
  PayloadIsMessage
PROPERTIES
  AnswersMatch
  IsSigningDevice
