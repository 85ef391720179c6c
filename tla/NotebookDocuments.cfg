SPECIFICATION DocumentsSpec
CONSTANTS
  Notebook = {here, there}
  Nowhere = nowhere
  MaxSession = 2
  Transcribed = {1}
  MaxAct = 2
  MaxMishap = 1
SYMMETRY Names
PROPERTIES MovesAreFaithful WordsStay DeletedStaysGone
CHECK_DEADLOCK FALSE
