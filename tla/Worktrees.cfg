CONSTANTS
  Jobs = {j1, j2}
SPECIFICATION Spec
INVARIANTS PreparationsAreSound
PROPERTIES PreparationsEnd
