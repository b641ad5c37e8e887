CONSTANTS
  Requests = {r0, r1, r2, r3}
  Sessions = {s0, s1}
  Ids = {1, 2}
  NoRequest = NoRequest
  MaxSessions = 1
  r0 = r0
  s0 = s0
  MaxLeaves = 1
  MaxStateless = 1
  MaxUnread = 1
SPECIFICATION SpecFromOneSession
CONSTRAINT Bounded
CHECK_DEADLOCK FALSE
SYMMETRY Symmetry
INVARIANTS SessionsAreKnown SessionsBounded NativeLivesWithCalls CutOnlyByDelete StreamsAreServed EndedIsQuiet
