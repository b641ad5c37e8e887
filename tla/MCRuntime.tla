------------------------------ MODULE MCRuntime ------------------------------
(***************************************************************************)
(* An instance of Runtime for TLC.  Over HTTP it begins where the first     *)
(* client has been told of its session, a state that ProcessSpec reaches.   *)
(***************************************************************************)
EXTENDS Runtime

CONSTANTS q0, s0  \* the first request, and the session it created

Created == INSTANCE MCHttpSessions WITH
  Requests <- Posts, Sessions <- PostSessions, NoRequest <- NoPost,
  native <- peerNative, pc <- postPc, phase <- httpPhase,
  r0 <- q0, s0 <- s0, MaxLeaves <- 0, MaxStateless <- 0, MaxUnread <- 0

ProcessInitFromOneSession ==
  /\ transport \in {"stdio", "http"} /\ exit = "none"
  /\ Init /\ Created!InitFromOneSession

ProcessSpecFromOneSession ==
  ProcessInitFromOneSession /\ [][ProcessNext]_processVars /\ StdioFairness /\ HttpFairness
=============================================================================
