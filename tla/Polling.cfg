CONSTANTS
  Keys = {k1}
  Payloads = {p1}
  Minters = {s1, s2}
  Starters = {s1, s2}
  Getters = {g1}
  NoId = NoId
  Idle = Idle
  Foreign = Foreign
  Overlap = FALSE
  MaxCrashes = 1
SPECIFICATION FairSpec
CHECK_DEADLOCK FALSE
INVARIANTS BaselinePrecedesRun
PROPERTIES TurnAwaitsCreate ReplacementIsSafe PollingConverges
