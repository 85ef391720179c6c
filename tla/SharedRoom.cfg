SPECIFICATION Spec
CONSTANTS
  Host = h
  Viewer = {v, w}
  MaxRoster = 2
  MaxFlap = 1
INVARIANTS
  MembersAreNotLeftOut
CHECK_DEADLOCK FALSE
