CONSTANTS
  Logins = {l1, l2}
  Inodes = {i1, i2, i3}
  Life = 2
  MaxTime = 4
  MaxLosses = 1
SPECIFICATION Spec
SYMMETRY Symmetry
CHECK_DEADLOCK FALSE
INVARIANTS CredentialsAreTrue
