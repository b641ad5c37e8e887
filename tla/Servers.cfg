CONSTANTS
  Requests = {r1, r2, r3}
  Note = Note
  Capacity = 2
  MaxNotes = 2
  Posts = {q0, q1, q2}
  PostSessions = {s0, s1}
  Ids = {1}
  NoPost = NoPost
  MaxSessions = 1
  q0 = q0
  s0 = s0
SPECIFICATION ProcessSpecFromOneSession
CHECK_DEADLOCK FALSE
INVARIANTS NothingIsLost ConnectionLivesWithTasks SuccessIsComplete
PROPERTIES ProcessExits
