---------------------------- MODULE HttpSessions -----------------------------
(***************************************************************************)
(* The HTTP transport: the table of sessions (rust/src/mcp/peer.rs), what   *)
(* it does with a request (mcp/http.rs, mcp.rs), and the life of the server *)
(* (run_http in runtime.rs), through to the end of draining.                *)
(*                                                                          *)
(* A request's body is awaited; then it is prepared, which admits it, in    *)
(* one step; then a worker runs it, whether or not the client is there; its *)
(* response is then written, as far and as fast as the client reads it.     *)
(***************************************************************************)
EXTENDS Peers

CONSTANT MaxSessions  \* the table's capacity (1024)

ASSUME CapacityAssumption == MaxSessions \in Nat

VARIABLES
  entries,  \* the sessions in the table
  retired,  \* sessions deleted while calls of theirs ran
  minted,   \* every session ever created
  stale,    \* sessions not touched for half an hour
  phase,    \* of the server
  gone      \* requests whose client has left

tableVars == <<entries, retired, minted, stale>>
vars == <<peerVars, requestVars, tableVars, phase, gone>>

Closing == phase # "serving"

TypeOK ==
  /\ PeersTypeOK
  /\ entries \subseteq minted /\ retired \subseteq minted /\ minted \subseteq Sessions
  /\ stale \subseteq entries
  /\ phase \in {"serving", "joining", "draining", "ended"}
  /\ gone \subseteq Requests

Init ==
  /\ PeersInit
  /\ entries = {} /\ retired = {} /\ minted = {} /\ stale = {}
  /\ phase = "serving" /\ gone = {}

-----------------------------------------------------------------------------
(* expire: runs every minute, and before the table is used *)

Expired == {s \in stale : Idle(s)}

\* Mutant: a deleted session is forgotten, though calls of it run.
RetainedIdle == {}

Retained == {s \in retired : ~Idle(s)}

\* The sweep alone (expire_sessions).
Sweep ==
  /\ ~Closing
  /\ entries' = entries \ Expired /\ stale' = stale \ Expired
  /\ retired' = Retained
  /\ shut' = shut \cup Expired
  /\ native' = Released(Expired)
  /\ sub' = SubStopped(Expired) /\ pending' = PendingStopped(Expired)
  /\ out' = OutStopped(Expired, TRUE)
  /\ UNCHANGED <<minted, pc, peer, kind, id, cancelled, answer, phase, gone>>

\* Half an hour passes since a session was touched; a closing server does not
\* look at its clock.
TimePasses(s) ==
  /\ ~Closing /\ s \in entries \ stale
  /\ stale' = stale \cup {s}
  /\ UNCHANGED <<peerVars, requestVars, entries, retired, minted, phase, gone>>

\* What is left of the table once session s was looked up and closed, if it
\* is to be closed; the expired ones are closed in any case.
Table(touched, closedToo) ==
  LET P == Expired \cup closedToo IN
  /\ entries' = entries \ P
  /\ stale' = stale \ (P \cup touched)
  /\ shut' = shut \cup P
  /\ native' = Released(P)
  /\ retired' = Retained \cup {s \in closedToo : ~Idle(s)}

\* A client uses the sessions it was told of, in or out of the table.
Announced == {s \in minted : \E r \in Requests :
                kind[r] = "initialize" /\ peer[r] = s /\ answer[r] = "result"}

Open == (entries \ Expired) \cap Announced

-----------------------------------------------------------------------------
(* prepare_http: one step, once the request has arrived *)

End(r, a) == pc' = [pc EXCEPT ![r] = "answered"] /\ answer' = [answer EXCEPT ![r] = a]

Runs(r, p, k) ==
  /\ pc' = [pc EXCEPT ![r] = "start"]
  /\ peer' = [peer EXCEPT ![r] = p]
  /\ kind' = [kind EXCEPT ![r] = k]
  /\ UNCHANGED answer

\* The streams that end with the sessions P.
Streams(P) ==
  sub' = SubStopped(P) /\ pending' = PendingStopped(P) /\ out' = OutStopped(P, TRUE)

\* The server is closing, or the request is none it takes; a stream outside
\* any session ends as it starts.
Refuse(r) ==
  /\ pc[r] = "reading" /\ End(r, "refused")
  /\ UNCHANGED <<peerVars, peer, kind, id, cancelled, out, tableVars, phase, gone>>

\* The session is not there, any more.
NotFound(r) ==
  /\ pc[r] = "reading" /\ ~Closing
  /\ End(r, "refused")
  /\ Table({}, {}) /\ Streams(Expired)
  /\ UNCHANGED <<minted, peer, kind, id, cancelled, phase, gone>>

\* A call in session s; one with an id that is in use is refused, and so is
\* one that is no message.
InSession(r, s, k) ==
  /\ pc[r] = "reading" /\ ~Closing /\ s \in Open
  /\ Table({s}, {}) /\ Streams(Expired)
  /\ \/ Admits(s, id[r]) /\ Runs(r, s, k)
     \/ End(r, "refused") /\ UNCHANGED <<peer, kind>>
  /\ UNCHANGED <<minted, id, cancelled, phase, gone>>

\* A call outside any session: its peer is its own and ends with it.
Stateless(r, k) ==
  /\ pc[r] = "reading" /\ ~Closing
  /\ Runs(r, r, k)
  /\ UNCHANGED <<peerVars, id, cancelled, out, tableVars, phase, gone>>

\* Mutant: retired sessions do not count.
FreePlacesLeft == Cardinality(entries \ Expired) < MaxSessions

FreePlaces == Cardinality(entries \ Expired) + Cardinality(Retained) < MaxSessions

\* initialize without a session creates one, if there is room.
Initialize(r, s) ==
  /\ pc[r] = "reading" /\ ~Closing /\ s \notin minted
  /\ Streams(Expired)
  /\ shut' = shut \cup Expired /\ native' = Released(Expired)
  /\ stale' = stale \ Expired /\ retired' = Retained
  /\ IF FreePlaces
     THEN /\ entries' = (entries \ Expired) \cup {s}
          /\ minted' = minted \cup {s}
          /\ Runs(r, s, "initialize")
     ELSE /\ entries' = entries \ Expired
          /\ End(r, "refused") /\ UNCHANGED <<minted, peer, kind>>
  /\ UNCHANGED <<id, cancelled, phase, gone>>

\* notifications/cancelled, for the id the message carries.
Cancel(r, s) ==
  /\ pc[r] = "reading" /\ ~Closing /\ s \in Open
  /\ Table({s}, {}) /\ Streams(Expired)
  /\ cancelled' = [q \in Requests |-> cancelled[q] \/ q \in Named(s, id[r])]
  /\ End(r, "taken")
  /\ UNCHANGED <<minted, peer, kind, id, phase, gone>>

\* DELETE: the calls of the session go on, but their streams end.
Delete(r, s) ==
  /\ pc[r] = "reading" /\ ~Closing /\ s \in Open
  /\ Table({}, {s}) /\ Streams(Expired \cup {s})
  /\ End(r, "taken")
  /\ UNCHANGED <<minted, peer, kind, id, cancelled, phase, gone>>

\* Mutant: what was kept for the next stream stays where it is.
KeptPending(s) == PendingStopped(Expired)

Taken(s) == [PendingStopped(Expired) EXCEPT ![s] = FALSE]

\* GET: the stream of a session's notifications; the one before it ends, and
\* what was kept for it is sent.
Listen(r, s) ==
  /\ pc[r] = "reading" /\ ~Closing /\ s \in Open
  /\ Table({s}, {})
  /\ sub' = [SubStopped(Expired) EXCEPT ![s] = r]
  /\ pending' = Taken(s)
  /\ out' = [q \in Requests |-> IF q = sub[s] /\ out[q] = "open"
                                THEN "finished" ELSE OutStopped(Expired, TRUE)[q]]
  /\ pc' = [pc EXCEPT ![r] = "listening"]
  /\ peer' = [peer EXCEPT ![r] = s]
  /\ kind' = [kind EXCEPT ![r] = "listen"]
  /\ UNCHANGED <<minted, id, cancelled, answer, phase, gone>>

-----------------------------------------------------------------------------
(* Running, and ending *)

\* The session of an initialize that failed is void: nobody is told of it.
Void(r, a) == kind[r] = "initialize" /\ a # "result" /\ peer[r] \in entries

\* A worker ends: the invocation is dropped, and with it, if it was the last of
\* a closed peer, the peer's connection; the session of a failed initialize is
\* deleted; the peer of a request outside sessions is closed.
Finish(r) ==
  /\ Ready(r)
  /\ \E a \in Outcome(r) : \E shown \in Shown(r, a) :
       LET last   == Active(peer[r]) = {r}
           closes == IF Void(r, a) \/ peer[r] = r THEN {peer[r]} ELSE {} IN
       /\ answer' = [answer EXCEPT ![r] = shown]
       /\ shut' = shut \cup closes
       /\ native' = IF last /\ peer[r] \in shut \cup closes /\ native[peer[r]] = "open"
                    THEN [native EXCEPT ![peer[r]] = "closed"] ELSE native
       /\ entries' = entries \ closes /\ stale' = stale \ closes
       /\ retired' = retired \cup
                       {s \in closes \cap entries : \E q \in Active(s) : q # r}
       /\ sub' = SubStopped(closes) /\ pending' = PendingStopped(closes)
       /\ out' = [OutStopped(closes, TRUE) EXCEPT ![r] =
                    IF shown = "broken" THEN "failed"
                    ELSE IF out[r] = "open" THEN "finished" ELSE out[r]]
  /\ pc' = [pc EXCEPT ![r] = "answered"]
  /\ UNCHANGED <<minted, peer, kind, id, cancelled, phase, gone>>

Run(r) == (Execute(r) \/ Dispatch(r)) /\ UNCHANGED <<tableVars, phase, gone>>

Overflows(r) == Overflow(r) /\ UNCHANGED <<tableVars, phase, gone>>

\* A stream of notifications ends: replaced, stopped, broken, left by its
\* client, or the server is closing.
StreamEnds(r) ==
  /\ pc[r] = "listening"
  /\ out[r] # "open" \/ Closing \/ r \in gone
  /\ End(r, "taken")
  /\ UNCHANGED <<peerVars, peer, kind, id, cancelled, out, tableVars, phase, gone>>

Changed(p) == Notify(p, gone) /\ UNCHANGED <<tableVars, phase, gone>>

Arrive(r) ==
  /\ phase = "serving" /\ pc[r] = "new"
  /\ pc' = [pc EXCEPT ![r] = "reading"]
  /\ UNCHANGED <<peerVars, peer, kind, id, cancelled, out, answer, tableVars, phase, gone>>

\* The connection is done with a response: its client has read all of it, or
\* has left.  Until then it is being written.
Over(r) ==
  /\ pc[r] = "answered" /\ r \notin gone
  /\ pc' = [pc EXCEPT ![r] = "ended"]
  /\ UNCHANGED <<peerVars, peer, kind, id, cancelled, out, answer, tableVars, phase, gone>>

\* The client closes its connection; what was admitted goes on.
Leave(r) ==
  /\ pc[r] \in {"reading", "listening"} \cup Running /\ r \notin gone
  /\ gone' = gone \cup {r}
  /\ UNCHANGED <<peerVars, requestVars, tableVars, phase>>

-----------------------------------------------------------------------------
(* Shutting down (run_http) *)

\* Mutant: shutting down closes the sessions as a client's DELETE does.
CloseByDeleting ==
  /\ phase = "serving" /\ phase' = "joining"
  /\ shut' = shut \cup entries /\ native' = Released(entries)
  /\ sub' = SubStopped(entries) /\ pending' = PendingStopped(entries)
  /\ out' = OutStopped(entries, TRUE)
  /\ UNCHANGED <<pc, peer, kind, id, cancelled, answer, tableVars, gone>>

\* A signal: nothing more is accepted or admitted; calls go on to their answer.
Close ==
  /\ phase = "serving" /\ phase' = "joining"
  /\ shut' = shut \cup entries /\ native' = Released(entries)
  /\ sub' = SubStopped(entries) /\ pending' = PendingStopped(entries)
  /\ out' = OutStopped(entries, FALSE)
  /\ UNCHANGED <<pc, peer, kind, id, cancelled, answer, tableVars, gone>>

\* Every connection has seen its last request through, and has written the
\* response or lost its client.  Nothing bounds the wait.
Joined ==
  /\ phase = "joining"
  /\ \A r \in Requests : pc[r] \in {"new", "ended"} \/ r \in gone
  /\ phase' = "draining"
  /\ UNCHANGED <<peerVars, requestVars, tableVars, gone>>

\* Mutant: draining does not wait for the workers of clients that have left.
DrainedOfConnections ==
  /\ phase = "draining"
  /\ phase' = "ended"
  /\ UNCHANGED <<peerVars, requestVars, tableVars, gone>>

\* Every worker has ended; the gateway may be dropped.
Drained ==
  /\ phase = "draining"
  /\ \A r \in Requests : pc[r] \in {"new", "listening", "answered", "ended"}
  /\ phase' = "ended"
  /\ UNCHANGED <<peerVars, requestVars, tableVars, gone>>

-----------------------------------------------------------------------------
Prepare(r) ==
  \/ Refuse(r) \/ NotFound(r)
  \/ \E s \in Sessions :
       \/ \E k \in {"call", "progress"} : InSession(r, s, k)
       \/ Initialize(r, s) \/ Cancel(r, s) \/ Delete(r, s) \/ Listen(r, s)
  \/ \E k \in {"call", "progress"} : Stateless(r, k)

Work(r) == Run(r) \/ Finish(r)

Next ==
  \/ \E r \in Requests :
       \/ Arrive(r) \/ Prepare(r) \/ Work(r) \/ Overflows(r)
       \/ StreamEnds(r) \/ Over(r) \/ Leave(r)
  \/ \E s \in Sessions : TimePasses(s)
  \/ \E p \in AllPeers : Changed(p)
  \/ Sweep \/ Close \/ Joined \/ Drained

Spec == Init /\ [][Next]_vars

-----------------------------------------------------------------------------
Busy(s) == ~Idle(s)

\* A session with calls is in the table, or among the retired.  (Else it would
\* not count.)
BusyAreKnown == \A s \in Sessions : Busy(s) => s \in entries \cup retired

\* Every session in the table was announced to its client, or is about to be.
SessionsAreAnnounced ==
  \A s \in entries :
    \E r \in Requests : /\ kind[r] = "initialize" /\ peer[r] = s
                        /\ pc[r] \in Running \/ answer[r] = "result"

\* No session with calls is forgotten, deleted or not, and none is left behind
\* by an initialize that failed.
SessionsAreKnown == BusyAreKnown /\ SessionsAreAnnounced

\* Whatever clients create, delete and abandon, no more sessions than the
\* table's capacity hold a connection to T3 or run calls.
SessionsBounded ==
  Cardinality({s \in Sessions : Busy(s) \/ native[s] = "open"}) <= MaxSessions

\* A call that runs keeps its peer's connection; a closed peer nobody uses has
\* none.
NativeLivesWithCalls ==
  \A p \in AllPeers :
    /\ native[p] = "open" => p \notin shut \/ ~Idle(p)
    /\ native[p] = "closed" => Idle(p)

\* An id names one request at a time: a cancellation cannot hit another one.
OneRequestPerId ==
  \A q, r \in Requests :
    q # r /\ {pc[q], pc[r]} \subseteq Running /\ peer[q] = peer[r] => id[q] # id[r]

Calls == {r \in Requests : kind[r] \in {"initialize", "call", "progress"}}

\* A call has its reply; or its stream was cut, and its session deleted; or what
\* its client reads was broken off, and its own output had failed.
Settled(r) ==
  \/ answer[r] \in {"result", "error", "cancelled"}
  \/ answer[r] = "cut" /\ kind[r] = "progress" /\ peer[r] \in minted \ entries
  \/ answer[r] = "broken" /\ kind[r] # "initialize" /\ out[r] = "failed"

\* Every call that was admitted runs or is answered, and an answer is lost in
\* two ways only: a stream of progress whose session was deleted under it ends
\* without one; and a call whose own output found no room, for its progress or
\* for its answer, ends in an error that its client sees.  A shutdown costs no
\* call its answer, nor does what a client cancels elsewhere.
CutOnlyByDelete ==
  /\ \A r \in Calls : pc[r] \in Running \/ Settled(r)
  /\ OneRequestPerId

\* A notification is not kept back from a stream that is there to take it.
StreamsAreServed ==
  \A p \in AllPeers :
    sub[p] # NoRequest => ~pending[p] /\ p \notin shut /\ out[sub[p]] = "open"

\* Once the server has ended, nothing it admitted runs, every connection it
\* opened is closed, and every session in the table refuses requests.
EndedIsQuiet ==
  phase = "ended" =>
    /\ \A p \in AllPeers : Idle(p) /\ native[p] # "open"
    /\ entries \subseteq shut
=============================================================================
