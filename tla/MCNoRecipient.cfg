SPECIFICATION Spec
CONSTANTS
  Junk = Junk
  Zero = Zero
  None = None
  to = to
  host = host
  magic = magic
  SCRATCH_SIZE = 37
  AMOUNT_STR_SIZE = 40
  MAX_DATA_LEN = 1024
  Commands <- NoRecipientCommands
  Sent <- NoRecipient
INVARIANTS
  RecipientWasRead
