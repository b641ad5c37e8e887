CONSTANTS
  Keys = {k1}
  Payloads = {p1}
  Minters = {s1, s2}
  NoId = NoId
  Unopened = Unopened
  Torn = Torn
SPECIFICATION Spec
CONSTRAINT Bounded
INVARIANTS FileIsWhole CopyIsDurable
PROPERTIES ImplementsDurable
