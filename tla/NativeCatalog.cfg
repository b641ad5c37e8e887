CONSTANTS
  Calls = {}
  Mutating = {}
  Readers = {r1, r2}
  Refresher = Refresher
  Clients = {Refresher}
  Tokens = {t1, t2}
  NoToken = NoToken
  MaxConnections = 3
  MaxRenewals = 1
  MaxChanges = 1
SPECIFICATION ClientSpecFromOneToken
CHECK_DEADLOCK FALSE
INVARIANTS CatalogIsCurrent
PROPERTIES ReadersEnd
