CONSTANTS
  Calls = {a1, a2, o1}
  Responders = {a1, a2}
  Sending = {o1}
  Action = Action
  Payloads = {p1, p2}
  NoCall = NoCall
  Versions = {1, 2, 3}
  MaxSwitches = 1
  MaxFaults = 1
  MaxUnderWay = 2
SPECIFICATION Spec
SYMMETRY Symmetry
CONSTRAINT Bounded
CHECK_DEADLOCK FALSE
INVARIANTS DispatchesAreHonest
PROPERTIES ReadsRecover
