CONSTANTS
  Calls = {c1, c2}
  m1 = m1
  Messages = {m1}
  Known = {m1}
  Bare = Bare
  FailsAgain = TRUE
  Lags = {0, 1}
  MaxChanges = 4
  MaxReads = 3
  MaxSteps = 6
  MaxCrashes = 1
SPECIFICATION EvidenceSpec
SYMMETRY Symmetry
CONSTRAINT Bounded
CHECK_DEADLOCK FALSE
INVARIANTS RestsOnEvidence
PROPERTIES AnswersMatch OlderReadsLose FreshPrevail
