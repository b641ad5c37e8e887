CONSTANTS
  Calls = {act, see}
  Mutating = {act}
  Clients = {act, see}
  Tokens = {t1, t2}
  NoToken = NoToken
  MaxConnections = 2
  MaxRenewals = 1
SPECIFICATION SpecFromOneToken
CHECK_DEADLOCK FALSE
INVARIANTS SentOnce FailureMeansNothingRan ConnectionsAreSound
PROPERTIES CancelledSendNothing CallsEnd
