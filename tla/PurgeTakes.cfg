SPECIFICATION DocumentsSpec
CONSTANTS
  Notebook = {here, there}
  Nowhere = nowhere
  MaxSession = 2
  Transcribed = {1}
  MaxAct = 2
  MaxMishap = 0
INVARIANTS PurgeTakesEveryBlock
CHECK_DEADLOCK FALSE
