------------------------------- MODULE Runtime -------------------------------
(***************************************************************************)
(* The process (rust/src/main.rs): it serves one transport, over stdio or   *)
(* over HTTP, and exits with what run_stdio or run_http returned.           *)
(***************************************************************************)
EXTENDS StdioServer

CONSTANTS Posts, PostSessions, Ids, NoPost, MaxSessions  \* of the HTTP transport

ASSUME HttpAssumption ==
  Posts \cap PostSessions = {} /\ NoPost \notin Posts /\ MaxSessions \in Nat

VARIABLES
  transport,  \* MCP_TRANSPORT
  exit,       \* how the process has ended
  shut, peerNative, sub, pending, postPc, peer, kind, id, cancelled, out, answer,
  entries, retired, minted, stale, httpPhase, gone

httpVars == <<shut, peerNative, sub, pending, postPc, peer, kind, id, cancelled, out,
              answer, entries, retired, minted, stale, httpPhase, gone>>
processVars == <<transport, exit, httpVars, vars>>

Http == INSTANCE HttpSessions WITH
  Requests <- Posts, Sessions <- PostSessions, NoRequest <- NoPost,
  native <- peerNative, pc <- postPc, phase <- httpPhase

ProcessInit ==
  /\ transport \in {"stdio", "http"} /\ exit = "none"
  /\ Init /\ Http!Init

OverStdio(A) == transport = "stdio" /\ exit = "none" /\ A /\ UNCHANGED <<transport, httpVars>>
OverHttp(A)  == transport = "http" /\ exit = "none" /\ A /\ UNCHANGED <<transport, vars>>

\* run_stdio has returned.
StdioExits ==
  /\ phase = "ended"
  /\ exit' = IF failure THEN "failure" ELSE "success"
  /\ UNCHANGED vars

\* run_http has returned.
HttpExits == httpPhase = "ended" /\ exit' = "success" /\ UNCHANGED httpVars

\* The address cannot be bound, or a connection not be accepted: run_http
\* returns at once, whatever runs.
HttpFails == httpPhase = "serving" /\ exit' = "failure" /\ UNCHANGED httpVars

ProcessNext ==
  \/ OverStdio(StdioExits \/ (Next /\ UNCHANGED exit))
  \/ OverHttp(HttpExits \/ HttpFails \/ (Http!Next /\ UNCHANGED exit))

\* Calls end, because each has a timeout; a request whose client has left is
\* read no further; five seconds pass.  Nothing is assumed of clients: one may
\* never send the rest of its request, nor read its response or standard output.
StdioFairness ==
  /\ \A r \in Requests : WF_processVars(OverStdio(Answer(r) /\ UNCHANGED exit))
  /\ WF_processVars(OverStdio(failed /\ Close /\ UNCHANGED exit))
  /\ WF_processVars(OverStdio((Flush \/ End) /\ UNCHANGED exit))
  /\ WF_processVars(OverStdio(Abandon /\ UNCHANGED exit))
  /\ WF_processVars(OverStdio(writer = "waiting" /\ Writer /\ UNCHANGED exit))
  /\ WF_processVars(OverStdio(StdioExits))

HttpFairness ==
  /\ \A r \in Posts :
       /\ WF_processVars(OverHttp(r \in gone /\ Http!Prepare(r) /\ UNCHANGED exit))
       /\ WF_processVars(OverHttp(Http!Work(r) /\ UNCHANGED exit))
       /\ WF_processVars(OverHttp(Http!StreamEnds(r) /\ UNCHANGED exit))
  /\ WF_processVars(OverHttp((Http!Joined \/ Http!Drained) /\ UNCHANGED exit))
  /\ WF_processVars(OverHttp(HttpExits))

ProcessSpec ==
  ProcessInit /\ [][ProcessNext]_processVars /\ StdioFairness /\ HttpFairness

-----------------------------------------------------------------------------
\* A process that exits with success has answered every call it admitted, to
\* the end of what its client read, but those whose client left, cancelled them
\* or ended their session, or left too much unread; and has closed every
\* connection it opened to T3.  What was left unread broke its own call, and no
\* other: a call that lost its answer silently had its session deleted.
SuccessIsComplete ==
  exit = "success" =>
    /\ \A r \in Requests : pc[r] # "new" => r \in Range(written)
    /\ native # "open"
    /\ \A p \in Posts \cup PostSessions : peerNative[p] # "open"
    /\ \A r \in Posts : postPc[r] \in {"new", "ended"} \/ r \in gone
    /\ \A r \in Http!Calls : Http!Settled(r)

\* A client that is there holds a connection: it has not sent the rest of its
\* request, or has not read the rest of its response.
HeldByClient ==
  \E r \in Posts : postPc[r] \in {"reading", "answered"} /\ r \notin gone

\* Over stdio the process exits once its input has ended or its output failed,
\* whatever its requests are at and even if its client never reads.  Over HTTP
\* it exits after a signal, whatever its requests and streams are at, unless a
\* client holds a connection for ever: the server waits for that without bound.
ProcessExits ==
  /\ phase = "draining" \/ failed ~> exit # "none"
  /\ []<>~HeldByClient => (httpPhase = "joining" ~> exit # "none")
=============================================================================
