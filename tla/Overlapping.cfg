CONSTANTS
  Keys = {k1}
  Payloads = {p1, p2}
  Minters = {s1, s2}
  Starters = {s1, s2}
  Getters = {g1}
  NoId = NoId
  Idle = Idle
  Foreign = Foreign
  Overlap = TRUE
  MaxCrashes = 1
SPECIFICATION Spec
CHECK_DEADLOCK FALSE
SYMMETRY Symmetry
INVARIANTS AtMostOnce SentIsRecorded ReceiptsAreTrue AnswersAreTrue
PROPERTIES OwnRunNeverBusy ReceiptsAreStable ImplementsDelivery
