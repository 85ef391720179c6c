SPECIFICATION FairDocumentsSpec
CONSTANTS
  Notebook = {here, there}
  Nowhere = nowhere
  MaxSession = 2
  Transcribed = {1}
  MaxAct = 2
  MaxMishap = 0
PROPERTIES PurgeEnds
CHECK_DEADLOCK FALSE
