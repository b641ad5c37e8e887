CONSTANTS
  Keys = {k1}
  Payloads = {p1}
  Minters = {s1, s2}
  Starters = {s1, s2}
  Getters = {}
  NoId = NoId
  Idle = Idle
  Foreign = Foreign
  Overlap = TRUE
  MaxCrashes = 0
SPECIFICATION Spec
CHECK_DEADLOCK FALSE
PROPERTIES TurnAwaitsCreate
