SPECIFICATION LanesSpec
CONSTANTS
  BlockLane = {src, zh}
  Original = src
  Wording = {old, new}
  Blank = blank
  Unknown = unknown
  MaxTurn = 3
INVARIANTS MachineYields
CHECK_DEADLOCK FALSE
