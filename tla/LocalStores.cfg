SPECIFICATION KeptSpec
CONSTANTS
  Process <- TwoProcesses
  Thread <- TwoThreads
  Actor <- ThreeActors
  Key = {k, l}
  MaxFault = 1
  Vacant = vacant
  Lang = {en, zh}
  Region = {US}
  Bare = bare
  Absent = absent
  MaxKill = 1
  Caller = {c1, c2}
  MaxPack = 2
  MaxSource = 2
  Text <- TwoTexts
  Budget = 4
  MaxCall = 3
  Nothing = nothing
  Id = {a, b, c}
  Wording = {old, new}
  MaxItem = 3
  MaxStored = 3
  BlockLane = {src, zh}
  Original = src
  Blank = blank
  Unknown = unknown
  MaxTurn = 5
  Job = {j1, j2}
  MaxAttempt = 2
  MaxCrash = 1
SYMMETRY Names
INVARIANTS
  UpgradeKeepsWork ContextIsHonest KeysFollowPacks SweepSparesTheLiving
  DocumentsAreFaithful SuccessLeavesNothing ClaimsCover
PROPERTIES KeepsEveryKey
CHECK_DEADLOCK FALSE
