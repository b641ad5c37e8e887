-------------------------------- MODULE Peers --------------------------------
(***************************************************************************)
(* The MCP peers of the HTTP transport (rust/src/mcp/peer.rs): the requests *)
(* a peer has admitted, its connection to T3, and the stream that carries   *)
(* its notifications.  A session has a peer that outlives its requests; a   *)
(* request outside any session has a peer of its own, named by the request. *)
(*                                                                          *)
(* One thread runs everything: what a request does between two awaits is    *)
(* one action.  Bodies are left out; a request carries one message.         *)
(***************************************************************************)
EXTENDS FiniteSets, Naturals

CONSTANTS Requests,  \* HTTP requests
          Sessions,  \* session ids, each minted once (a random UUID)
          Ids,       \* JSON-RPC request ids, chosen by the client
          NoRequest  \* nobody listens

ASSUME PeerAssumption == Requests \cap Sessions = {} /\ NoRequest \notin Requests

VARIABLES
  shut,       \* peers whose admission is closed
  native,     \* a peer's own connection to T3
  sub,        \* the request whose stream carries a peer's notifications
  pending,    \* does a peer keep a notification that no stream took?
  pc,         \* how far a request has come
  peer,       \* its peer
  kind,       \* what it is
  id,         \* its JSON-RPC id
  cancelled,  \* has its client cancelled it?
  out,        \* its output: open, finished by the gateway, failed
  answer      \* what its client is answered

peerVars == <<shut, native, sub, pending>>
requestVars == <<pc, peer, kind, id, cancelled, out, answer>>

AllPeers == Sessions \cup Requests

\* A call may need T3's tools first; progress is streamed as it comes.
Kinds == {"none", "initialize", "call", "progress", "listen"}
Running == {"start", "catalog", "call"}
\* A stream that is cut ends as if it were complete; a broken one ends in an error.
Answers == {"none", "refused", "cancelled", "error", "result", "cut", "broken", "taken"}

PeersTypeOK ==
  /\ shut \subseteq AllPeers
  /\ native \in [AllPeers -> {"none", "open", "closed"}]
  /\ sub \in [AllPeers -> Requests \cup {NoRequest}]
  /\ pending \in [AllPeers -> BOOLEAN]
  /\ pc \in [Requests -> {"new", "reading", "listening", "answered", "ended"} \cup Running]
  /\ peer \in [Requests -> AllPeers]
  /\ kind \in [Requests -> Kinds]
  /\ id \in [Requests -> Ids]
  /\ cancelled \in [Requests -> BOOLEAN]
  /\ out \in [Requests -> {"open", "finished", "failed"}]
  /\ answer \in [Requests -> Answers]

PeersInit ==
  /\ shut = {}
  /\ native = [p \in AllPeers |-> "none"]
  /\ sub = [p \in AllPeers |-> NoRequest]
  /\ pending = [p \in AllPeers |-> FALSE]
  /\ pc = [r \in Requests |-> "new"]
  /\ peer = [r \in Requests |-> r]
  /\ kind = [r \in Requests |-> "none"]
  /\ id \in [Requests -> Ids]
  /\ cancelled = [r \in Requests |-> FALSE]
  /\ out = [r \in Requests |-> "open"]
  /\ answer = [r \in Requests |-> "none"]

-----------------------------------------------------------------------------
(* Admission *)

Active(p) == {r \in Requests : peer[r] = p /\ pc[r] \in Running}

Idle(p) == Active(p) = {}

\* reserve: an id may be used again once the request that had it has ended.
Admits(p, i) == p \notin shut /\ \A r \in Active(p) : id[r] # i

\* cancel: the one active request of that peer that has the id, if any.
Named(p, i) == {r \in Active(p) : id[r] = i}

-----------------------------------------------------------------------------
(* stop, on the peers P: no more is admitted, the stream of notifications   *)
(* ends, and a connection nobody uses is closed.                            *)

\* Mutant: closing a peer closes its connection, whoever uses it.
ReleasedAtOnce(P) ==
  [p \in AllPeers |-> IF p \in P /\ native[p] = "open" THEN "closed" ELSE native[p]]

Released(P) ==
  [p \in AllPeers |->
     IF p \in P /\ native[p] = "open" /\ Idle(p) THEN "closed" ELSE native[p]]

SubStopped(P) == [p \in AllPeers |-> IF p \in P THEN NoRequest ELSE sub[p]]

PendingStopped(P) == [p \in AllPeers |-> pending[p] /\ p \notin P]

\* Which outputs end with the peers P: their streams of notifications and, if
\* they are closed rather than shut down, those of their active calls.
OutStopped(P, closeCalls) ==
  [r \in Requests |->
     IF /\ peer[r] \in P /\ out[r] = "open"
        /\ sub[peer[r]] = r \/ (closeCalls /\ r \in Active(peer[r]))
     THEN "finished" ELSE out[r]]

-----------------------------------------------------------------------------
(* A request that runs (execute_message) *)

\* Only a peer that owns its connection opens one; others borrow the gateway's.
OwnsNative(r) == peer[r] \in Sessions \/ kind[r] = "progress"

Opened(r) == IF OwnsNative(r) /\ native[peer[r]] = "none"
             THEN [native EXCEPT ![peer[r]] = "open"] ELSE native

\* Not cancelled, it asks T3 for its tools if it needs them, or is dispatched;
\* a tool is called over the peer's connection.
Execute(r) ==
  /\ pc[r] = "start" /\ ~cancelled[r]
  /\ \/ pc' = [pc EXCEPT ![r] = "call"] /\ UNCHANGED native
     \/ /\ kind[r] # "initialize"
        /\ \E step \in {"catalog", "call"} : pc' = [pc EXCEPT ![r] = step]
        /\ native' = Opened(r)
  /\ UNCHANGED <<shut, sub, pending, peer, kind, id, cancelled, out, answer>>

\* The tools are there: the call goes on, unless it was cancelled meanwhile.
Dispatch(r) ==
  /\ pc[r] = "catalog" /\ ~cancelled[r]
  /\ pc' = [pc EXCEPT ![r] = "call"]
  /\ UNCHANGED <<peerVars, peer, kind, id, cancelled, out, answer>>

\* The outcome of a request that ran.  What a call replied makes no difference.
Outcome(r) ==
  IF cancelled[r] /\ pc[r] \in {"start", "catalog"} THEN {"cancelled"}
  ELSE IF kind[r] = "initialize" THEN {"result", "error"}
  ELSE {"result"}

\* What the client is shown of answer a (Delivery::send_bytes).  A stream that
\* has ended carries none.  An answer that finds no room in the call's bounded
\* output breaks off what the client reads; those of initialize are short.
Shown(r, a) ==
  IF kind[r] = "progress" /\ out[r] # "open"
  THEN {IF out[r] = "failed" THEN "broken" ELSE "cut"}
  ELSE IF kind[r] = "initialize" \/ a = "cancelled" \/ out[r] # "open" THEN {a}
  ELSE {a, "broken"}

\* T3 reports more progress of a call than its output takes, because its client
\* does not read it: the output fails, and the call goes on.
Overflow(r) ==
  /\ pc[r] = "call" /\ kind[r] = "progress" /\ native[peer[r]] = "open"
  /\ out[r] = "open" /\ out' = [out EXCEPT ![r] = "failed"]
  /\ UNCHANGED <<peerVars, pc, peer, kind, id, cancelled, answer>>

\* May request r end now?  It is dispatched, or was cancelled before.
Ready(r) == pc[r] = "call" \/ (pc[r] \in {"start", "catalog"} /\ cancelled[r])

-----------------------------------------------------------------------------
(* Notifications *)

\* T3 says that its tools have changed: the open stream takes it, unless it is
\* full or its client has left; then it is kept for the next one.
Notify(p, gone) ==
  /\ native[p] = "open" /\ p \notin shut
  /\ \/ sub[p] # NoRequest /\ sub[p] \notin gone /\ UNCHANGED <<sub, pending, out>>
     \/ /\ sub' = [sub EXCEPT ![p] = NoRequest]
        /\ pending' = [pending EXCEPT ![p] = TRUE]
        /\ out' = IF sub[p] = NoRequest THEN out
                  ELSE [out EXCEPT ![sub[p]] = "failed"]
  /\ UNCHANGED <<shut, native, pc, peer, kind, id, cancelled, answer>>
=============================================================================
