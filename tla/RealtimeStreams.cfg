SPECIFICATION RealtimeSpec
CONSTANTS
  MaxFrame = 3
  Capacity = 2
  MaxAttempt = 2
  Overlap = 1
  Lane = {c, a}
  Canonical = c
  MaxTry = 2
  MaxQueued = 1
INVARIANTS
  WordsKeepTheirPlace
  HealthIsTrue
  RoomSurvives
PROPERTIES
  EventProtocol
  DialingSettles
  TombstoneStaysDark
  StopReturns
