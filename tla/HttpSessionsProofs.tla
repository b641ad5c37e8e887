-------------------------- MODULE HttpSessionsProofs --------------------------
(* That sessions, calls, streams and connections live as long as they should, *)
(* for any number of requests and sessions and any capacity of the table.     *)
EXTENDS HttpSessions, FiniteSetTheorems, TLAPS

\* What a request that has not been prepared has touched: nothing; whose it is
\* then; and where one that listens, or has its answer, is.
RequestsArePlaced ==
  \A r \in Requests :
    /\ pc[r] \in {"new", "reading"} =>
         peer[r] = r /\ kind[r] = "none" /\ out[r] = "open" /\ r \notin shut
    /\ peer[r] \in minted \cup {r}
    /\ answer[r] # "none" => pc[r] \in {"answered", "ended"}
    /\ kind[r] = "listen" => pc[r] \in {"listening", "answered", "ended"}
    /\ pc[r] = "listening" => kind[r] = "listen"

\* Sessions are in the table until they are shut; only the end of the server
\* shuts those in the table.
SessionsAreSheltered ==
  /\ minted \subseteq entries \cup shut /\ shut \subseteq minted \cup Requests
  /\ IF Closing THEN entries \subseteq shut ELSE entries \cap shut = {}

\* A peer that nobody has made has no connection; and NativeLivesWithCalls,
\* where a connection is closed only with its peer.
ConnectionsAreHeld ==
  \A p \in AllPeers :
    /\ native[p] = "open" => (p \in minted \/ ~Idle(p)) /\ (p \notin shut \/ ~Idle(p))
    /\ native[p] = "closed" => p \in shut /\ Idle(p)

\* A stream belongs to the request that listens.
StreamsHaveListeners ==
  \A p \in AllPeers :
    sub[p] # NoRequest =>
      /\ kind[sub[p]] = "listen" /\ peer[sub[p]] = p
      /\ ~pending[p] /\ p \notin shut /\ out[sub[p]] = "open"

\* A stream of progress is finished under its call only in a session that was
\* deleted; and a call runs, or is settled.
CutsAreDeletions ==
  /\ \A r \in Requests :
       kind[r] = "progress" /\ pc[r] \in Running /\ out[r] = "finished"
       => peer[r] \in minted \ entries
  /\ \A r \in Calls : pc[r] \in Running \/ Settled(r)

EndedIsIdle ==
  phase = "ended" =>
    \A r \in Requests : pc[r] \in {"new", "listening", "answered", "ended"}

\* The sessions that count, whether or not they are in the table.
Counted == entries \cup Retained
CountedIsBounded == IsFiniteSet(Counted) /\ Cardinality(Counted) =< MaxSessions

IInv ==
  /\ TypeOK /\ RequestsArePlaced /\ SessionsAreSheltered /\ ConnectionsAreHeld
  /\ StreamsHaveListeners /\ CutsAreDeletions /\ OneRequestPerId /\ EndedIsIdle
  /\ SessionsAreKnown /\ CountedIsBounded

-----------------------------------------------------------------------------
LEMMA InitHolds == Init => IInv
<1> SUFFICES ASSUME Init PROVE IInv
  OBVIOUS
<1> USE DEF Init, PeersInit
<1>1. TypeOK
  BY PeerAssumption DEF TypeOK, PeersTypeOK, AllPeers, Kinds, Answers
<1>2. RequestsArePlaced /\ SessionsAreSheltered /\ StreamsHaveListeners
  BY PeerAssumption DEF RequestsArePlaced, SessionsAreSheltered, StreamsHaveListeners,
                        Closing, AllPeers
<1>3. ConnectionsAreHeld
  BY DEF ConnectionsAreHeld
<1>4. CutsAreDeletions /\ OneRequestPerId /\ EndedIsIdle
  BY DEF CutsAreDeletions, Calls, Settled, OneRequestPerId, EndedIsIdle, Running
<1>5. SessionsAreKnown
  BY DEF SessionsAreKnown, BusyAreKnown, SessionsAreAnnounced, Busy, Idle, Active, Running
<1>6. CountedIsBounded
  BY FS_EmptySet, CapacityAssumption DEF CountedIsBounded, Counted, Retained
<1> QED
  BY <1>1, <1>2, <1>3, <1>4, <1>5, <1>6 DEF IInv

(* Steps that touch no peer, and in which no call begins or ends.             *)
CalmStep ==
  \/ \E r \in Requests : Arrive(r) \/ Refuse(r) \/ StreamEnds(r) \/ Over(r) \/ Leave(r)
  \/ \E s \in Sessions : TimePasses(s)
  \/ Joined \/ Drained

LEMMA CalmKeeps == IInv /\ CalmStep => IInv'
<1> SUFFICES ASSUME IInv, CalmStep PROVE IInv'
  OBVIOUS
<1> USE DEF CalmStep, Arrive, Refuse, StreamEnds, Over, Leave, TimePasses, Joined, Drained, End,
            peerVars, requestVars, tableVars, IInv
<1>1. TypeOK'
  BY DEF TypeOK, PeersTypeOK, Answers, Running
<1>2. UNCHANGED <<peerVars, peer, kind, id, cancelled, out, entries, retired, minted>>
  OBVIOUS
<1>3. \A r \in Requests : pc'[r] \in Running <=> pc[r] \in Running
  BY DEF TypeOK, PeersTypeOK, Running
<1>4. \A p : Active(p)' = Active(p)
  BY <1>2, <1>3 DEF Active
<1>5. Closing' = Closing
  BY DEF Closing
<1>6. RequestsArePlaced' /\ SessionsAreSheltered' /\ StreamsHaveListeners'
  BY <1>5 DEF RequestsArePlaced, SessionsAreSheltered, StreamsHaveListeners, TypeOK, PeersTypeOK,
              AllPeers, Running
<1>7. ConnectionsAreHeld'
  BY <1>2, <1>4 DEF ConnectionsAreHeld, Idle
<1>8. CutsAreDeletions' /\ OneRequestPerId'
  <2>1. \A q \in Calls : answer'[q] = answer[q]
    BY DEF Calls, RequestsArePlaced, TypeOK, PeersTypeOK
  <2>2. Calls' = Calls /\ \A q \in Calls : Settled(q)' = Settled(q)
    BY <1>2, <2>1 DEF Calls, Settled
  <2> QED
    BY <1>2, <1>3, <2>2 DEF CutsAreDeletions, OneRequestPerId, Calls
<1>9. EndedIsIdle'
  BY DEF EndedIsIdle, TypeOK, PeersTypeOK
<1>10. SessionsAreKnown'
  BY <1>2, <1>3, <1>4 DEF SessionsAreKnown, BusyAreKnown, SessionsAreAnnounced, Busy, Idle,
     TypeOK, PeersTypeOK, RequestsArePlaced, Running
<1>11. CountedIsBounded'
  BY <1>2, <1>4 DEF CountedIsBounded, Counted, Retained, Idle
<1> QED
  BY <1>1, <1>6, <1>7, <1>8, <1>9, <1>10, <1>11
(* A call outside any session begins: its peer is its own.                    *)
LEMMA StatelessKeeps ==
  ASSUME IInv, NEW r \in Requests, NEW k \in {"call", "progress"}, Stateless(r, k)
  PROVE  IInv'
<1> USE DEF Stateless, Runs, peerVars, tableVars, IInv
<1>1. TypeOK'
  BY DEF TypeOK, PeersTypeOK, AllPeers, Kinds, Running
<1>2. r \notin Sessions /\ peer[r] = r /\ r \notin shut /\ out[r] = "open" /\ ~Closing
  BY PeerAssumption DEF RequestsArePlaced
<1>3. \A p : Active(p)' = IF p = r THEN {r} ELSE Active(p)
  <2>1. \A q \in Requests : peer[q] = r => q = r
    BY <1>2 DEF RequestsArePlaced, TypeOK, PeersTypeOK
  <2> QED
    BY <1>2, <2>1 DEF Active, Running, TypeOK, PeersTypeOK
<1>4. \A s \in Sessions : Idle(s)' = Idle(s)
  BY <1>2, <1>3 DEF Idle
<1>5. RequestsArePlaced' /\ SessionsAreSheltered' /\ StreamsHaveListeners'
  BY <1>2 DEF RequestsArePlaced, SessionsAreSheltered, StreamsHaveListeners, Closing, TypeOK,
              PeersTypeOK, Running, AllPeers
<1>6. ConnectionsAreHeld'
  BY <1>2, <1>3 DEF ConnectionsAreHeld, Idle
<1>7. CutsAreDeletions' /\ EndedIsIdle'
  <2>1. \A q \in Requests : q # r =>
          /\ pc'[q] = pc[q] /\ peer'[q] = peer[q] /\ kind'[q] = kind[q]
    BY DEF TypeOK, PeersTypeOK
  <2>2. pc'[r] \in Running /\ phase = "serving"
    BY <1>2 DEF Closing, Running, TypeOK, PeersTypeOK
  <2>3. \A q \in Requests : q # r => Settled(q)' = Settled(q)
    BY <2>1 DEF Settled
  <2>4. (\A q \in Calls : pc[q] \in Running \/ Settled(q))'
    BY <2>1, <2>2, <2>3 DEF CutsAreDeletions, Calls
  <2> QED
    BY <1>2, <2>1, <2>2, <2>4 DEF CutsAreDeletions, EndedIsIdle
<1>8. OneRequestPerId'
  BY <1>2 DEF OneRequestPerId, RequestsArePlaced, TypeOK, PeersTypeOK
<1>9. SessionsAreKnown'
  BY <1>2, <1>4 DEF SessionsAreKnown, BusyAreKnown, SessionsAreAnnounced, Busy, TypeOK,
     PeersTypeOK, RequestsArePlaced, Running
<1>10. CountedIsBounded'
  BY <1>4 DEF CountedIsBounded, Counted, Retained, TypeOK
<1> QED
  BY <1>1, <1>5, <1>6, <1>7, <1>8, <1>9, <1>10

(* A call goes on, over a connection that it may open, or T3's tools change.  *)
LEMMA CallKeeps ==
  ASSUME IInv, NEW r \in Requests, Run(r)
  PROVE  IInv'
<1> USE DEF Run, Execute, Dispatch, peerVars, tableVars, IInv
<1>1. TypeOK'
  BY DEF TypeOK, PeersTypeOK, AllPeers, Running, Opened
<1>2. UNCHANGED <<shut, sub, pending, peer, kind, id, cancelled, out, answer, tableVars, phase>>
  OBVIOUS
<1>3. \A q \in Requests : pc'[q] \in Running <=> pc[q] \in Running
  BY DEF TypeOK, PeersTypeOK, Running
<1>4. \A p : Active(p)' = Active(p)
  BY <1>2, <1>3 DEF Active
<1>5. pc[r] \in Running
  BY DEF Running
<1>6. RequestsArePlaced' /\ SessionsAreSheltered' /\ StreamsHaveListeners'
  BY <1>2, <1>5 DEF RequestsArePlaced, SessionsAreSheltered, StreamsHaveListeners, Closing, TypeOK,
              PeersTypeOK, AllPeers, Running
<1>7. ConnectionsAreHeld'
  <2>1. native' = native \/ (native[peer[r]] = "none" /\
                             native' = [native EXCEPT ![peer[r]] = "open"])
    BY DEF Opened
  <2>2. ~Idle(peer[r])
    BY <1>5 DEF Idle, Active
  <2> QED
    BY <1>2, <1>4, <2>1, <2>2 DEF ConnectionsAreHeld, Idle, TypeOK, PeersTypeOK
<1>8. CutsAreDeletions' /\ OneRequestPerId'
  BY <1>2, <1>3 DEF CutsAreDeletions, Calls, Settled, OneRequestPerId
<1>9. EndedIsIdle'
  BY <1>2, <1>5 DEF EndedIsIdle, TypeOK, PeersTypeOK, Running
<1>10. SessionsAreKnown'
  BY <1>2, <1>3, <1>4 DEF SessionsAreKnown, BusyAreKnown, SessionsAreAnnounced, Busy, Idle
<1>11. CountedIsBounded'
  BY <1>2, <1>4 DEF CountedIsBounded, Counted, Retained, Idle
<1> QED
  BY <1>1, <1>6, <1>7, <1>8, <1>9, <1>10, <1>11

(* A running call's own output fails: only its own answer is lost by that.    *)
LEMMA OverflowKeeps ==
  ASSUME IInv, NEW r \in Requests, Overflows(r)
  PROVE  IInv'
<1> USE DEF Overflows, Overflow, peerVars, tableVars, IInv
<1>1. TypeOK'
  BY DEF TypeOK, PeersTypeOK
<1>2. UNCHANGED <<peerVars, pc, peer, kind, id, answer, tableVars, phase>>
  OBVIOUS
<1>3. \A p : Active(p)' = Active(p)
  BY <1>2 DEF Active
<1>4. /\ kind[r] = "progress" /\ pc[r] \in Running
      /\ \A q \in Requests : out'[q] = IF q = r THEN "failed" ELSE out[q]
  BY DEF TypeOK, PeersTypeOK, Running
<1>5. RequestsArePlaced'
  BY <1>2, <1>4 DEF RequestsArePlaced, Running
<1>6. SessionsAreSheltered' /\ EndedIsIdle'
  BY <1>2 DEF SessionsAreSheltered, Closing, EndedIsIdle
<1>7. ConnectionsAreHeld'
  BY <1>2, <1>3 DEF ConnectionsAreHeld, Idle
<1>8. StreamsHaveListeners'
  BY <1>2, <1>4 DEF StreamsHaveListeners, TypeOK, PeersTypeOK
<1>9. CutsAreDeletions' /\ OneRequestPerId'
  BY <1>2, <1>4 DEF CutsAreDeletions, Calls, Settled, OneRequestPerId
<1>10. SessionsAreKnown'
  BY <1>2, <1>3 DEF SessionsAreKnown, BusyAreKnown, SessionsAreAnnounced, Busy, Idle
<1>11. CountedIsBounded'
  BY <1>2, <1>3 DEF CountedIsBounded, Counted, Retained, Idle
<1> QED
  BY <1>1, <1>5, <1>6, <1>7, <1>8, <1>9, <1>10, <1>11

LEMMA ChangedKeeps ==
  ASSUME IInv, NEW p \in AllPeers, Changed(p)
  PROVE  IInv'
<1> USE DEF Changed, Notify, tableVars, IInv
<1>1. TypeOK'
  BY DEF TypeOK, PeersTypeOK
<1>2. UNCHANGED <<shut, native, pc, peer, kind, id, answer, tableVars, phase>>
  OBVIOUS
<1>3. \A q : Active(q)' = Active(q)
  BY <1>2 DEF Active
<1>4. \A r \in Requests :
        out'[r] # out[r] => kind[r] = "listen" /\ r = sub[p] /\ out'[r] = "failed"
  BY DEF StreamsHaveListeners, TypeOK, PeersTypeOK
<1>5. RequestsArePlaced'
  BY <1>2, <1>4 DEF RequestsArePlaced
<1>6. SessionsAreSheltered' /\ EndedIsIdle'
  BY <1>2 DEF SessionsAreSheltered, Closing, EndedIsIdle
<1>7. ConnectionsAreHeld'
  BY <1>2, <1>3 DEF ConnectionsAreHeld, Idle
<1>8. StreamsHaveListeners'
  BY <1>2, <1>4 DEF StreamsHaveListeners, TypeOK, PeersTypeOK
<1>9. CutsAreDeletions' /\ OneRequestPerId'
  BY <1>2, <1>4 DEF CutsAreDeletions, Calls, Settled, OneRequestPerId
<1>10. SessionsAreKnown' /\ CountedIsBounded'
  BY <1>2, <1>3 DEF SessionsAreKnown, BusyAreKnown, SessionsAreAnnounced, Busy, Idle,
     CountedIsBounded, Counted, Retained
<1> QED
  BY <1>1, <1>5, <1>6, <1>7, <1>8, <1>9, <1>10
-----------------------------------------------------------------------------
(* Steps that look the table up: the peers P are stopped and leave it.  No    *)
(* call begins or ends; a request that was prepared is over, or listens.      *)
Closes(P) ==
  /\ ~Closing /\ UNCHANGED <<phase, minted, id>>
  /\ P \subseteq entries /\ entries' = entries \ P
  /\ shut' = shut \cup P /\ native' = Released(P)
  /\ retired' = {s \in retired \cup P : ~Idle(s)}
  /\ \A q \in Requests :
       /\ pc[q] # "reading" =>
            /\ pc'[q] = pc[q] /\ peer'[q] = peer[q]
            /\ kind'[q] = kind[q] /\ answer'[q] = answer[q]
       /\ pc[q] = "reading" =>
            /\ pc'[q] \in {"reading", "listening", "answered"}
            /\ IF pc'[q] = "listening" THEN kind'[q] = "listen" /\ peer'[q] \in minted
               ELSE kind'[q] = kind[q] /\ peer'[q] = peer[q]
            /\ answer'[q] # "none" => pc'[q] = "answered"
       /\ out'[q] # out[q] => out[q] = "open" /\ (kind[q] = "listen" \/ peer[q] \in P)

LEMMA ExpiredAreIdle == TypeOK => Expired \subseteq entries /\ \A s \in Expired : Idle(s)
BY DEF TypeOK, Expired

LEMMA StoppedTypes ==
  ASSUME TypeOK, NEW P, NEW all \in BOOLEAN
  PROVE  /\ Released(P) \in [AllPeers -> {"none", "open", "closed"}]
         /\ SubStopped(P) \in [AllPeers -> Requests \cup {NoRequest}]
         /\ PendingStopped(P) \in [AllPeers -> BOOLEAN]
         /\ OutStopped(P, all) \in [Requests -> {"open", "finished", "failed"}]
<1>1. \A p \in AllPeers : (pending[p] /\ p \notin P) \in BOOLEAN
  OBVIOUS
<1>2. PendingStopped(P) \in [AllPeers -> BOOLEAN]
  BY <1>1, Zenon DEF PendingStopped
<1> QED
  BY <1>2 DEF Released, SubStopped, OutStopped, TypeOK, PeersTypeOK

LEMMA ClosesActive ==
  ASSUME TypeOK, NEW P, Closes(P)
  PROVE  \A p : Active(p)' = Active(p)
<1> SUFFICES ASSUME NEW p, NEW r \in Requests
             PROVE  peer'[r] = p /\ pc'[r] \in Running <=> peer[r] = p /\ pc[r] \in Running
  BY DEF Active
<1> QED
  BY DEF Closes, Running

LEMMA ClosesKeeps ==
  ASSUME IInv, NEW P, Closes(P)
  PROVE  /\ RequestsArePlaced' /\ SessionsAreSheltered' /\ ConnectionsAreHeld'
         /\ CutsAreDeletions' /\ OneRequestPerId' /\ EndedIsIdle'
         /\ SessionsAreKnown' /\ CountedIsBounded'
<1> USE DEF Closes, IInv
<1>1. \A p : Active(p)' = Active(p)
  BY ClosesActive
<1>2. entries \subseteq minted /\ minted \subseteq Sessions /\ P \cap Requests = {}
  BY PeerAssumption DEF TypeOK
<1>3. RequestsArePlaced'
  BY <1>2 DEF RequestsArePlaced, TypeOK, PeersTypeOK
<1>4. SessionsAreSheltered' /\ EndedIsIdle'
  BY <1>2 DEF SessionsAreSheltered, EndedIsIdle, Closing
<1>5. ConnectionsAreHeld'
  BY <1>1 DEF ConnectionsAreHeld, Released, Idle, TypeOK, PeersTypeOK
<1>6. CutsAreDeletions'
  BY <1>2 DEF CutsAreDeletions, Calls, Settled, Running, RequestsArePlaced
<1>7. OneRequestPerId'
  BY DEF OneRequestPerId, Running
<1>8. BusyAreKnown'
  BY <1>1 DEF SessionsAreKnown, BusyAreKnown, Busy, Idle
<1>9. SessionsAreAnnounced'
  BY DEF SessionsAreKnown, SessionsAreAnnounced, RequestsArePlaced, Running
<1>10. CountedIsBounded'
  <2>1. Counted' \subseteq Counted
    BY <1>1 DEF Counted, Retained, Idle
  <2> QED
    BY <2>1, FS_Subset, FS_CardinalityType, CapacityAssumption DEF CountedIsBounded
<1> QED
  BY <1>3, <1>4, <1>5, <1>6, <1>7, <1>8, <1>9, <1>10 DEF SessionsAreKnown

LEMMA StreamsKeep ==
  ASSUME IInv, NEW P, Closes(P), Streams(P), UNCHANGED kind
  PROVE  StreamsHaveListeners'
<1> SUFFICES ASSUME NEW p \in AllPeers, sub'[p] # NoRequest
             PROVE  /\ kind'[sub'[p]] = "listen" /\ peer'[sub'[p]] = p
                    /\ ~pending'[p] /\ p \notin shut' /\ out'[sub'[p]] = "open"
  BY DEF StreamsHaveListeners, AllPeers
<1>1. p \notin P /\ sub'[p] = sub[p] /\ sub[p] \in Requests
  BY DEF Streams, SubStopped, IInv, TypeOK, PeersTypeOK
<1>2. kind[sub[p]] = "listen" /\ peer[sub[p]] = p /\ ~pending[p] /\ p \notin shut /\ out[sub[p]] = "open"
  BY <1>1 DEF IInv, StreamsHaveListeners
<1>3. pc[sub[p]] # "reading"
  BY <1>1, <1>2 DEF IInv, RequestsArePlaced
<1> QED
  BY <1>1, <1>2, <1>3, ZenonT(60) DEF Closes, Streams, PendingStopped, OutStopped
LEMMA SweepKeeps == IInv /\ Sweep => IInv'
<1> SUFFICES ASSUME IInv, Sweep PROVE IInv'
  OBVIOUS
<1> USE DEF Sweep, tableVars
<1>1. Closes(Expired)
  BY ExpiredAreIdle DEF Closes, Retained, IInv, OutStopped, RequestsArePlaced, TypeOK, PeersTypeOK
<1>2. TypeOK'
  <2>1. /\ native' \in [AllPeers -> {"none", "open", "closed"}]
        /\ sub' \in [AllPeers -> Requests \cup {NoRequest}]
        /\ pending' \in [AllPeers -> BOOLEAN]
        /\ out' \in [Requests -> {"open", "finished", "failed"}]
    BY StoppedTypes DEF IInv
  <2> QED
    BY <2>1, ExpiredAreIdle DEF IInv, TypeOK, PeersTypeOK, Retained, AllPeers
<1>3. Streams(Expired) /\ UNCHANGED kind
  BY DEF Streams
<1> QED
  BY <1>1, <1>2, <1>3, ClosesKeeps, StreamsKeep DEF IInv

(* A request that finds the table changed, and is over.                       *)
LEMMA OverKeeps ==
  ASSUME IInv, NEW r \in Requests, pc[r] = "reading", ~Closing,
         NEW touched \in SUBSET Sessions, NEW closed \in SUBSET (entries \ Expired),
         Table(touched, closed), Streams(Expired \cup closed),
         NEW a \in {"refused", "taken"}, End(r, a),
         cancelled' \in [Requests -> BOOLEAN], UNCHANGED <<minted, peer, kind, id, phase, gone>>
  PROVE  IInv'
<1> DEFINE P == Expired \cup closed
<1> USE DEF Table, End
<1>1. Closes(P)
  <2>1. P \subseteq entries
    BY ExpiredAreIdle DEF IInv
  <2>2. retired' = {s \in retired \cup P : ~Idle(s)}
    BY ExpiredAreIdle DEF Retained, IInv
  <2>3. \A q \in Requests : out'[q] # out[q] => out[q] = "open" /\ peer[q] \in P
    BY DEF Streams, OutStopped
  <2> QED
    BY <2>1, <2>2, <2>3 DEF Closes, IInv, RequestsArePlaced, TypeOK, PeersTypeOK
<1>2. TypeOK'
  <2>1. /\ native' \in [AllPeers -> {"none", "open", "closed"}]
        /\ sub' \in [AllPeers -> Requests \cup {NoRequest}]
        /\ pending' \in [AllPeers -> BOOLEAN]
        /\ out' \in [Requests -> {"open", "finished", "failed"}]
    BY StoppedTypes DEF IInv, Streams
  <2> QED
    BY <2>1, ExpiredAreIdle DEF IInv, TypeOK, PeersTypeOK, Retained, Answers, AllPeers
<1> QED
  BY <1>1, <1>2, ClosesKeeps, StreamsKeep DEF IInv

LEMMA NotFoundKeeps == ASSUME IInv, NEW r \in Requests, NotFound(r) PROVE IInv'
<1>1. cancelled' \in [Requests -> BOOLEAN]
  BY DEF NotFound, IInv, TypeOK, PeersTypeOK
<1> QED
  BY <1>1, OverKeeps DEF NotFound

LEMMA CancelKeeps ==
  ASSUME IInv, NEW r \in Requests, NEW s \in Sessions, Cancel(r, s)
  PROVE  IInv'
<1>1. cancelled' \in [Requests -> BOOLEAN]
  BY DEF Cancel, IInv, TypeOK, PeersTypeOK
<1> QED
  BY <1>1, OverKeeps DEF Cancel

LEMMA DeleteKeeps ==
  ASSUME IInv, NEW r \in Requests, NEW s \in Sessions, Delete(r, s)
  PROVE  IInv'
<1>1. cancelled' \in [Requests -> BOOLEAN]
  BY DEF Delete, IInv, TypeOK, PeersTypeOK
<1> QED
  BY <1>1, OverKeeps DEF Delete, Open

(* GET: the request is the one that listens from now on.                      *)
LEMMA ListenKeeps ==
  ASSUME IInv, NEW r \in Requests, NEW s \in Sessions, Listen(r, s)
  PROVE  IInv'
<1> USE DEF Listen, Table
<1>1. r # sub[s] /\ peer[r] = r /\ out[r] = "open" /\ r \notin Expired
  BY PeerAssumption DEF IInv, RequestsArePlaced, StreamsHaveListeners, TypeOK, PeersTypeOK,
     AllPeers, Expired
<1>2. s \in entries \ Expired /\ s \in minted
  BY DEF Open, Announced
<1>3. Closes(Expired)
  <2>1. retired' = {x \in retired \cup Expired : ~Idle(x)}
    BY ExpiredAreIdle DEF Retained, IInv
  <2>2. \A q \in Requests : out'[q] # out[q] =>
          out[q] = "open" /\ (kind[q] = "listen" \/ peer[q] \in Expired)
    BY PeerAssumption DEF OutStopped, IInv, StreamsHaveListeners, AllPeers, TypeOK, PeersTypeOK
  <2>3. \A q \in Requests :
          IF q = r THEN /\ pc[q] = "reading" /\ pc'[q] = "listening" /\ kind'[q] = "listen"
                        /\ peer'[q] = s /\ answer'[q] = "none"
          ELSE /\ pc'[q] = pc[q] /\ peer'[q] = peer[q] /\ kind'[q] = kind[q]
               /\ answer'[q] = answer[q] /\ (pc[q] = "reading" => answer[q] = "none")
    BY DEF IInv, RequestsArePlaced, TypeOK, PeersTypeOK
  <2> QED
    BY <1>2, <2>1, <2>2, <2>3, ExpiredAreIdle DEF Closes, IInv
<1>4. TypeOK'
  <2>1. Taken(s) \in [AllPeers -> BOOLEAN]
    BY StoppedTypes DEF Taken, IInv
  <2>2. native' \in [AllPeers -> {"none", "open", "closed"}]
    BY StoppedTypes DEF IInv
  <2>3. /\ SubStopped(Expired) \in [AllPeers -> Requests \cup {NoRequest}]
        /\ OutStopped(Expired, TRUE) \in [Requests -> {"open", "finished", "failed"}]
    BY StoppedTypes DEF IInv
  <2>4. /\ sub' \in [AllPeers -> Requests \cup {NoRequest}]
        /\ out' \in [Requests -> {"open", "finished", "failed"}]
    BY <2>3
  <2> QED
    BY <1>2, <2>1, <2>2, <2>4, ExpiredAreIdle DEF IInv, TypeOK, PeersTypeOK, Retained, Kinds, AllPeers
<1>5. StreamsHaveListeners'
  <2> SUFFICES ASSUME NEW p \in AllPeers, sub'[p] # NoRequest
               PROVE  /\ kind'[sub'[p]] = "listen" /\ peer'[sub'[p]] = p
                      /\ ~pending'[p] /\ p \notin shut' /\ out'[sub'[p]] = "open"
    BY DEF StreamsHaveListeners, AllPeers
  <2>1. CASE p = s
    <3>1. s \in AllPeers /\ s \notin shut' /\ sub'[s] = r /\ ~pending'[s]
      BY <1>2 DEF AllPeers, Taken, SubStopped, PendingStopped, IInv, SessionsAreSheltered
    <3>2. out'[r] = "open"
      BY <1>1 DEF OutStopped
    <3>3. kind'[r] = "listen" /\ peer'[r] = s
      BY DEF IInv, TypeOK, PeersTypeOK
    <3> QED
      BY <2>1, <3>1, <3>2, <3>3
  <2>2. CASE p # s
    <3>1. p \notin Expired /\ sub'[p] = sub[p] /\ sub[p] \in Requests
      BY <2>2 DEF SubStopped, IInv, TypeOK, PeersTypeOK
    <3>2. /\ kind[sub[p]] = "listen" /\ peer[sub[p]] = p /\ ~pending[p]
          /\ p \notin shut /\ out[sub[p]] = "open"
      BY <3>1 DEF IInv, StreamsHaveListeners
    <3>3. sub[p] # r /\ sub[p] # sub[s]
      BY <2>2, <3>1, <3>2 DEF IInv, RequestsArePlaced, StreamsHaveListeners, AllPeers
    <3> QED
      BY <2>2, <3>1, <3>2, <3>3 DEF Taken, PendingStopped, OutStopped, IInv, TypeOK, PeersTypeOK
  <2> QED
    BY <2>1, <2>2
<1> QED
  BY <1>3, <1>4, <1>5, ClosesKeeps DEF IInv
LEMMA RefusedKeeps ==
  ASSUME IInv, NEW r \in Requests, NEW s \in Sessions, NEW k, InSession(r, s, k), End(r, "refused"),
         UNCHANGED <<peer, kind>>
  PROVE  IInv'
<1>1. cancelled' \in [Requests -> BOOLEAN]
  BY DEF InSession, IInv, TypeOK, PeersTypeOK
<1> QED
  BY <1>1, OverKeeps DEF InSession

-----------------------------------------------------------------------------
(* A call of session s begins, while the expired sessions leave the table; the *)
(* session is there already, or is created.                                   *)
Begins(r, s, k) ==
  /\ ~Closing /\ UNCHANGED <<phase, id, cancelled, gone>>
  /\ pc[r] = "reading" /\ Runs(r, s, k)
  /\ entries' = (entries \ Expired) \cup {s} /\ minted' = minted \cup {s}
  /\ retired' = Retained /\ stale' \subseteq stale \ Expired
  /\ shut' = shut \cup Expired /\ native' = Released(Expired) /\ Streams(Expired)
  /\ \A q \in Active(s) : id[q] # id[r]
  /\ \/ s \in (entries \ Expired) \ shut /\ k \in {"call", "progress"}
     \/ s \notin minted /\ k = "initialize" /\ FreePlaces

LEMMA BeginsKeeps ==
  ASSUME IInv, NEW r \in Requests, NEW s \in Sessions, NEW k, Begins(r, s, k)
  PROVE  IInv'
<1> USE DEF Begins, Runs
<1>1. /\ Expired \subseteq entries /\ entries \subseteq minted /\ minted \subseteq Sessions
      /\ Expired \cap Requests = {} /\ s \notin Requests /\ s \notin Expired
  BY ExpiredAreIdle, PeerAssumption DEF IInv, TypeOK
<1>2. peer[r] = r /\ kind[r] = "none" /\ out[r] = "open" /\ s \notin shut
  BY <1>1 DEF IInv, RequestsArePlaced, SessionsAreSheltered
<1>3. \A q \in Requests :
        IF q = r THEN pc'[q] = "start" /\ peer'[q] = s /\ kind'[q] = k /\ answer'[q] = answer[q]
        ELSE /\ pc'[q] = pc[q] /\ peer'[q] = peer[q] /\ kind'[q] = kind[q]
             /\ answer'[q] = answer[q]
  BY DEF IInv, TypeOK, PeersTypeOK
<1>4. \A p : Active(p)' = IF p = s THEN Active(p) \cup {r} ELSE Active(p)
  BY <1>3 DEF Active, Running
<1>5. TypeOK'
  <2>1. /\ native' \in [AllPeers -> {"none", "open", "closed"}]
        /\ sub' \in [AllPeers -> Requests \cup {NoRequest}]
        /\ pending' \in [AllPeers -> BOOLEAN]
        /\ out' \in [Requests -> {"open", "finished", "failed"}]
    BY StoppedTypes DEF IInv, Streams
  <2> QED
    BY <1>1, <2>1 DEF IInv, TypeOK, PeersTypeOK, Retained, AllPeers, Kinds, Running
<1>6. \A q \in Requests : out'[q] # out[q] => out[q] = "open" /\ peer[q] \in Expired
  BY DEF Streams, OutStopped, IInv, TypeOK, PeersTypeOK
<1>7. RequestsArePlaced'
  BY <1>1, <1>2, <1>3, <1>6 DEF IInv, RequestsArePlaced
<1>8. SessionsAreSheltered' /\ EndedIsIdle'
  BY <1>1, <1>2 DEF IInv, SessionsAreSheltered, EndedIsIdle, Closing
<1>9. ConnectionsAreHeld'
  BY <1>1, <1>2, <1>4 DEF IInv, ConnectionsAreHeld, Released, Idle, TypeOK, PeersTypeOK
<1>10. StreamsHaveListeners'
  <2> SUFFICES ASSUME NEW p \in AllPeers, sub'[p] # NoRequest
               PROVE  /\ kind'[sub'[p]] = "listen" /\ peer'[sub'[p]] = p
                      /\ ~pending'[p] /\ p \notin shut' /\ out'[sub'[p]] = "open"
    BY DEF StreamsHaveListeners, AllPeers
  <2>1. p \notin Expired /\ sub'[p] = sub[p] /\ sub[p] \in Requests
    BY DEF Streams, SubStopped, IInv, TypeOK, PeersTypeOK
  <2>2. /\ kind[sub[p]] = "listen" /\ peer[sub[p]] = p /\ ~pending[p] /\ p \notin shut
        /\ out[sub[p]] = "open" /\ sub[p] # r
    BY <1>2, <2>1 DEF IInv, StreamsHaveListeners
  <2> QED
    BY <1>3, <1>6, <2>1, <2>2 DEF Streams, PendingStopped
<1>11. CutsAreDeletions'
  <2>1. \A q \in Requests : peer[q] \in Expired => pc[q] \notin Running
    BY ExpiredAreIdle DEF IInv, Idle, Active
  <2>2. /\ minted \subseteq minted' /\ entries' \subseteq entries \cup {s}
        /\ s \in minted => s \in entries
    BY <1>1
  <2>3. \A q \in Requests : q # r /\ Settled(q) => Settled(q)'
    BY <1>3, <1>6, <2>2 DEF Settled
  <2>4. (\A q \in Calls : pc[q] \in Running \/ Settled(q))'
    <3> SUFFICES ASSUME NEW q \in Calls' PROVE (pc[q] \in Running \/ Settled(q))'
      OBVIOUS
    <3>1. CASE q = r
      BY <1>3, <3>1 DEF Running, Calls
    <3>2. CASE q # r
      <4>1. q \in Calls
        BY <1>3, <3>2 DEF Calls
      <4> QED
        BY <1>3, <2>3, <3>2, <4>1 DEF IInv, CutsAreDeletions, Calls
    <3> QED
      BY <3>1, <3>2
  <2> QED
    BY <1>1, <1>2, <1>3, <1>6, <2>1, <2>2, <2>4 DEF IInv, CutsAreDeletions
<1>12. OneRequestPerId'
  BY <1>3 DEF IInv, OneRequestPerId, Active, Running
<1>13. BusyAreKnown'
  BY <1>1, <1>4, ExpiredAreIdle DEF IInv, SessionsAreKnown, BusyAreKnown, Busy, Idle, Retained
<1>14. SessionsAreAnnounced'
  <2> SUFFICES ASSUME NEW x \in entries'
               PROVE  \E q \in Requests : /\ kind'[q] = "initialize" /\ peer'[q] = x
                                          /\ pc'[q] \in Running \/ answer'[q] = "result"
    BY DEF SessionsAreAnnounced
  <2>1. CASE x \in entries
    <3>1. PICK q \in Requests : /\ kind[q] = "initialize" /\ peer[q] = x
                                /\ pc[q] \in Running \/ answer[q] = "result"
      BY <2>1 DEF IInv, SessionsAreKnown, SessionsAreAnnounced
    <3> QED
      BY <1>2, <1>3, <3>1
  <2>2. CASE x \notin entries
    BY <1>3, <2>2 DEF Running
  <2> QED
    BY <2>1, <2>2
<1>15. CountedIsBounded'
  <2>1. CASE s \in entries
    <3>1. Counted' \subseteq Counted
      BY <1>1, <1>4, <2>1 DEF Counted, Retained, Idle
    <3> QED
      BY <3>1, FS_Subset, FS_CardinalityType, CapacityAssumption DEF IInv, CountedIsBounded
  <2>2. CASE s \notin entries
    <3> DEFINE A == entries \ Expired
    <3>1. IsFiniteSet(A) /\ IsFiniteSet(Retained)
      BY FS_Subset DEF IInv, CountedIsBounded, Counted
    <3>2. Cardinality(A) + Cardinality(Retained) < MaxSessions
      BY <1>1, <2>2 DEF FreePlaces
    <3>3. IsFiniteSet(A \cup Retained)
      BY <3>1, FS_Union
    <3>4. Cardinality(A \cup Retained) =< Cardinality(A) + Cardinality(Retained)
      <4>1. /\ Cardinality(A \cup Retained) =
                 Cardinality(A) + Cardinality(Retained) - Cardinality(A \cap Retained)
            /\ IsFiniteSet(A \cap Retained)
        BY <3>1, FS_Union, FS_Intersection
      <4>2. /\ Cardinality(A) \in Nat /\ Cardinality(Retained) \in Nat
            /\ Cardinality(A \cap Retained) \in Nat
        BY <3>1, <4>1, FS_CardinalityType
      <4> HIDE DEF A
      <4> QED
        BY <4>1, <4>2
    <3>5. /\ IsFiniteSet((A \cup Retained) \cup {s})
          /\ Cardinality((A \cup Retained) \cup {s}) =< Cardinality(A \cup Retained) + 1
      <4>1. /\ IsFiniteSet((A \cup Retained) \cup {s})
            /\ Cardinality((A \cup Retained) \cup {s})
                 = IF s \in A \cup Retained THEN Cardinality(A \cup Retained)
                   ELSE Cardinality(A \cup Retained) + 1
        BY <3>3, FS_AddElement
      <4>2. Cardinality(A \cup Retained) \in Nat
        BY <3>3, FS_CardinalityType
      <4> HIDE DEF A
      <4> QED
        BY <4>1, <4>2
    <3>6. Counted' \subseteq (A \cup Retained) \cup {s}
      BY <1>4 DEF Counted, Retained, Idle
    <3>7. Cardinality(Counted') =< Cardinality((A \cup Retained) \cup {s}) /\ IsFiniteSet(Counted')
      BY <3>5, <3>6, FS_Subset
    <3>8. /\ Cardinality(A) \in Nat /\ Cardinality(Retained) \in Nat
          /\ Cardinality(A \cup Retained) \in Nat /\ Cardinality(Counted') \in Nat
          /\ Cardinality((A \cup Retained) \cup {s}) \in Nat
      BY <3>1, <3>3, <3>5, <3>7, FS_CardinalityType
    <3> HIDE DEF A
    <3>9. Cardinality(Counted') =< MaxSessions
      BY <3>2, <3>4, <3>5, <3>7, <3>8, CapacityAssumption
    <3> QED
      BY <3>7, <3>9 DEF CountedIsBounded
  <2> QED
    BY <2>1, <2>2
<1> QED
  BY <1>5, <1>7, <1>8, <1>9, <1>10, <1>11, <1>12, <1>13, <1>14, <1>15 DEF IInv, SessionsAreKnown

LEMMA InSessionKeeps ==
  ASSUME IInv, NEW r \in Requests, NEW s \in Sessions, NEW k \in {"call", "progress"},
         InSession(r, s, k)
  PROVE  IInv'
<1>1. CASE End(r, "refused") /\ UNCHANGED <<peer, kind>>
  BY <1>1, RefusedKeeps
<1>2. CASE Admits(s, id[r]) /\ Runs(r, s, k)
  <2>1. Begins(r, s, k)
    BY <1>2 DEF InSession, Begins, Table, Admits, Open, Announced, Retained
  <2> QED
    BY <2>1, BeginsKeeps
<1> QED
  BY <1>1, <1>2 DEF InSession

LEMMA InitializeKeeps ==
  ASSUME IInv, NEW r \in Requests, NEW s \in Sessions, Initialize(r, s)
  PROVE  IInv'
<1>1. CASE FreePlaces
  <2>1. Active(s) = {}
    BY PeerAssumption DEF Initialize, IInv, RequestsArePlaced, Active
  <2>2. Begins(r, s, "initialize")
    BY <1>1, <2>1 DEF Initialize, Begins
  <2> QED
    BY <2>2, BeginsKeeps
<1>2. CASE ~FreePlaces
  <2>1. cancelled' \in [Requests -> BOOLEAN]
    BY DEF Initialize, IInv, TypeOK, PeersTypeOK
  <2>2. Table({}, {}) /\ Streams(Expired \cup {}) /\ End(r, "refused")
    BY <1>2 DEF Initialize, Table
  <2> QED
    BY <1>2, <2>1, <2>2, OverKeeps DEF Initialize
<1> QED
  BY <1>1, <1>2
-----------------------------------------------------------------------------
(* A worker ends, and with it what it was the last to use.                    *)
LEMMA FinishKeeps ==
  ASSUME IInv, NEW r \in Requests, Finish(r)
  PROVE  IInv'
<1>0. PICK a \in Outcome(r) : \E shown \in Shown(r, a) :
        LET last   == Active(peer[r]) = {r}
            closes == IF Void(r, a) \/ peer[r] = r THEN {peer[r]} ELSE {} IN
        /\ answer' = [answer EXCEPT ![r] = shown]
        /\ shut' = shut \cup closes
        /\ native' = IF last /\ peer[r] \in shut \cup closes /\ native[peer[r]] = "open"
                     THEN [native EXCEPT ![peer[r]] = "closed"] ELSE native
        /\ entries' = entries \ closes /\ stale' = stale \ closes
        /\ retired' = retired \cup {s \in closes \cap entries : \E q \in Active(s) : q # r}
        /\ sub' = SubStopped(closes) /\ pending' = PendingStopped(closes)
        /\ out' = [OutStopped(closes, TRUE) EXCEPT ![r] =
                     IF shown = "broken" THEN "failed"
                     ELSE IF out[r] = "open" THEN "finished" ELSE out[r]]
  BY DEF Finish
<1>1. PICK shown \in Shown(r, a) :
        LET last   == Active(peer[r]) = {r}
            closes == IF Void(r, a) \/ peer[r] = r THEN {peer[r]} ELSE {} IN
        /\ answer' = [answer EXCEPT ![r] = shown]
        /\ shut' = shut \cup closes
        /\ native' = IF last /\ peer[r] \in shut \cup closes /\ native[peer[r]] = "open"
                     THEN [native EXCEPT ![peer[r]] = "closed"] ELSE native
        /\ entries' = entries \ closes /\ stale' = stale \ closes
        /\ retired' = retired \cup {s \in closes \cap entries : \E q \in Active(s) : q # r}
        /\ sub' = SubStopped(closes) /\ pending' = PendingStopped(closes)
        /\ out' = [OutStopped(closes, TRUE) EXCEPT ![r] =
                     IF shown = "broken" THEN "failed"
                     ELSE IF out[r] = "open" THEN "finished" ELSE out[r]]
  BY <1>0
<1> DEFINE closes == IF Void(r, a) \/ peer[r] = r THEN {peer[r]} ELSE {}
<1>2. /\ UNCHANGED <<minted, peer, kind, id, cancelled, phase, gone>>
      /\ pc' = [pc EXCEPT ![r] = "answered"] /\ pc[r] \in Running /\ r \in Active(peer[r])
      /\ a \in {"cancelled", "result", "error"}
  BY DEF Finish, Ready, Outcome, Running, Active
<1>3. /\ closes \subseteq {peer[r]} /\ closes \subseteq entries \cup {r}
      /\ entries \subseteq minted /\ minted \subseteq Sessions /\ peer[r] \in minted \cup {r}
      /\ r \notin minted /\ (peer[r] = r => closes = {r})
  BY PeerAssumption DEF IInv, TypeOK, RequestsArePlaced, Void
<1>4. \A q \in Requests : pc'[q] = IF q = r THEN "answered" ELSE pc[q]
  BY <1>2 DEF IInv, TypeOK, PeersTypeOK
<1>5. \A p : Active(p)' = Active(p) \ {r}
  BY <1>2, <1>4 DEF Active, Running
<1>6. \A q \in Requests : answer'[q] = IF q = r THEN shown ELSE answer[q]
  BY <1>1 DEF IInv, TypeOK, PeersTypeOK
<1>7. \A q \in Requests \ {r} : out'[q] # out[q] => out[q] = "open" /\ peer[q] \in closes
  BY <1>1 DEF OutStopped, IInv, TypeOK, PeersTypeOK
<1>8. /\ shut' = shut \cup closes /\ entries' = entries \ closes /\ stale' = stale \ closes
      /\ sub' = SubStopped(closes) /\ pending' = PendingStopped(closes)
      /\ retired' = retired \cup {s \in closes \cap entries : \E q \in Active(s) : q # r}
  BY <1>1
<1>9. native' = IF Active(peer[r]) = {r} /\ peer[r] \in shut' /\ native[peer[r]] = "open"
                THEN [native EXCEPT ![peer[r]] = "closed"] ELSE native
  BY <1>1
<1>10. out' \in [Requests -> {"open", "finished", "failed"}]
  <2>1. OutStopped(closes, TRUE) \in [Requests -> {"open", "finished", "failed"}]
    BY StoppedTypes DEF IInv
  <2> QED
    BY <1>1, <2>1 DEF IInv, TypeOK, PeersTypeOK
<1> HIDE DEF closes
<1>11. TypeOK'
  <2>1. /\ sub' \in [AllPeers -> Requests \cup {NoRequest}]
        /\ pending' \in [AllPeers -> BOOLEAN]
    BY <1>8, StoppedTypes DEF IInv
  <2>2. native' \in [AllPeers -> {"none", "open", "closed"}]
    BY <1>9 DEF IInv, TypeOK, PeersTypeOK
  <2>3. answer' \in [Requests -> Answers]
    BY <1>1, <1>2 DEF IInv, TypeOK, PeersTypeOK, Shown, Answers
  <2> QED
    BY <1>2, <1>3, <1>8, <1>10, <2>1, <2>2, <2>3 DEF IInv, TypeOK, PeersTypeOK, AllPeers
<1>12. RequestsArePlaced'
  BY <1>2, <1>3, <1>4, <1>6, <1>7, <1>8, PeerAssumption DEF IInv, RequestsArePlaced, TypeOK, Running
<1>13. SessionsAreSheltered' /\ EndedIsIdle'
  BY <1>2, <1>3, <1>4, <1>8 DEF IInv, SessionsAreSheltered, EndedIsIdle, Closing
<1>14. ConnectionsAreHeld'
  <2> SUFFICES ASSUME NEW p \in AllPeers
               PROVE  /\ native'[p] = "open" => (p \in minted \/ ~Idle(p)') /\ (p \notin shut' \/ ~Idle(p)')
                      /\ native'[p] = "closed" => p \in shut' /\ Idle(p)'
    BY <1>2 DEF ConnectionsAreHeld, AllPeers
  <2>1. CASE p # peer[r]
    <3>1. native'[p] = native[p]
      BY <1>9, <2>1 DEF IInv, TypeOK, PeersTypeOK
    <3>2. Active(p)' = Active(p)
      BY <1>5, <2>1 DEF Active
    <3>3. p \in shut' <=> p \in shut
      BY <1>3, <1>8, <2>1
    <3> QED
      BY <3>1, <3>2, <3>3 DEF IInv, ConnectionsAreHeld, Idle
  <2>2. CASE p = peer[r]
    <3>1. native[p] # "closed"
      BY <1>2, <2>2 DEF IInv, ConnectionsAreHeld, Idle
    <3>2. CASE Active(p) = {r}
      BY <1>3, <1>5, <1>8, <1>9, <2>2, <3>1, <3>2 DEF Idle, IInv, TypeOK, PeersTypeOK
    <3>3. CASE Active(p) # {r}
      BY <1>2, <1>5, <1>9, <2>2, <3>1, <3>3 DEF Idle
    <3> QED
      BY <3>2, <3>3
  <2> QED
    BY <2>1, <2>2
<1>15. StreamsHaveListeners'
  <2> SUFFICES ASSUME NEW p \in AllPeers, sub'[p] # NoRequest
               PROVE  /\ kind'[sub'[p]] = "listen" /\ peer'[sub'[p]] = p
                      /\ ~pending'[p] /\ p \notin shut' /\ out'[sub'[p]] = "open"
    BY DEF StreamsHaveListeners, AllPeers
  <2>1. p \notin closes /\ sub'[p] = sub[p] /\ sub[p] \in Requests
    BY <1>8 DEF SubStopped, IInv, TypeOK, PeersTypeOK
  <2>2. /\ kind[sub[p]] = "listen" /\ peer[sub[p]] = p /\ ~pending[p] /\ p \notin shut
        /\ out[sub[p]] = "open"
    BY <2>1 DEF IInv, StreamsHaveListeners
  <2>3. sub[p] # r
    BY <1>2, <2>1, <2>2 DEF IInv, RequestsArePlaced, Running
  <2> QED
    BY <1>2, <1>7, <1>8, <2>1, <2>2, <2>3 DEF PendingStopped
<1>16. CutsAreDeletions'
  <2>1. ASSUME NEW q \in Requests,
               kind'[q] = "progress" /\ pc'[q] \in Running /\ out'[q] = "finished"
        PROVE  peer'[q] \in minted' \ entries'
    <3>1. q # r
      BY <1>4, <2>1 DEF Running
    <3>2. CASE peer[q] \in closes
      <4>1. peer[q] # r
        BY <1>3, <3>1 DEF IInv, RequestsArePlaced
      <4> QED
        BY <1>2, <1>3, <1>8, <3>2, <4>1
    <3>3. CASE peer[q] \notin closes
      BY <1>2, <1>4, <1>7, <1>8, <2>1, <3>1, <3>3 DEF IInv, CutsAreDeletions
    <3> QED
      BY <3>2, <3>3
  <2>2. Settled(r)'
    <3>1. out[r] = "finished" /\ kind[r] = "progress" => peer[r] \in minted \ entries
      BY <1>2 DEF IInv, CutsAreDeletions
    <3>2. shown = "broken" => out'[r] = "failed"
      BY <1>1 DEF IInv, TypeOK, PeersTypeOK, OutStopped
    <3>3. \/ shown = a
          \/ shown = "broken" /\ kind[r] # "initialize"
          \/ shown = "cut" /\ kind[r] = "progress" /\ out[r] = "finished"
      BY DEF Shown, IInv, TypeOK, PeersTypeOK
    <3> QED
      BY <1>2, <1>6, <1>8, <3>1, <3>2, <3>3 DEF Settled
  <2>3. ASSUME NEW q \in Calls', q # r
        PROVE  pc'[q] \in Running \/ Settled(q)'
    <3>1. q \in Calls /\ q \in Requests /\ pc'[q] = pc[q] /\ answer'[q] = answer[q]
      BY <1>2, <1>4, <1>6, <2>3 DEF Calls
    <3>2. pc[q] \in Running \/ Settled(q)
      BY <3>1 DEF IInv, CutsAreDeletions
    <3>3. out[q] = "failed" => out'[q] = "failed"
      BY <1>7, <2>3, <3>1
    <3> QED
      BY <1>2, <1>8, <3>1, <3>2, <3>3 DEF Settled
  <2> QED
    BY <2>1, <2>2, <2>3 DEF CutsAreDeletions, Calls
<1>17. OneRequestPerId'
  BY <1>2, <1>4 DEF IInv, OneRequestPerId, Running
<1>18. BusyAreKnown'
  BY <1>3, <1>5, <1>8 DEF IInv, SessionsAreKnown, BusyAreKnown, Busy, Idle
<1>19. SessionsAreAnnounced'
  <2> SUFFICES ASSUME NEW s \in entries'
               PROVE  \E q \in Requests : /\ kind'[q] = "initialize" /\ peer'[q] = s
                                          /\ pc'[q] \in Running \/ answer'[q] = "result"
    BY DEF SessionsAreAnnounced
  <2>1. s \in entries /\ s \notin closes
    BY <1>8
  <2>2. PICK q \in Requests : /\ kind[q] = "initialize" /\ peer[q] = s
                              /\ pc[q] \in Running \/ answer[q] = "result"
    BY <2>1 DEF IInv, SessionsAreKnown, SessionsAreAnnounced
  <2>3. CASE q = r
    <3>1. a = "result"
      BY <2>1, <2>2, <2>3 DEF closes, Void
    <3> QED
      BY <1>2, <1>6, <2>2, <2>3, <3>1 DEF Shown
  <2> QED
    BY <1>2, <1>4, <1>6, <2>2, <2>3
<1>20. CountedIsBounded'
  <2>1. Counted' \subseteq Counted
    BY <1>5, <1>8 DEF Counted, Retained, Idle
  <2> QED
    BY <2>1, FS_Subset, FS_CardinalityType, CapacityAssumption DEF IInv, CountedIsBounded
<1> QED
  BY <1>11, <1>12, <1>13, <1>14, <1>15, <1>16, <1>17, <1>18, <1>19, <1>20 DEF IInv, SessionsAreKnown

(* A signal shuts every session of the table, which stays in it.              *)
LEMMA CloseKeeps == IInv /\ Close => IInv'
<1> SUFFICES ASSUME IInv, Close PROVE IInv'
  OBVIOUS
<1>1. /\ UNCHANGED <<pc, peer, kind, id, cancelled, answer, entries, retired, minted, stale, gone>>
      /\ phase = "serving" /\ phase' = "joining"
      /\ shut' = shut \cup entries /\ native' = Released(entries)
      /\ sub' = SubStopped(entries) /\ pending' = PendingStopped(entries)
      /\ out' = OutStopped(entries, FALSE)
  BY DEF Close, tableVars
<1>2. \A p : Active(p)' = Active(p)
  BY <1>1 DEF Active
<1>3. entries \subseteq minted /\ minted \subseteq Sessions /\ entries \cap Requests = {}
  BY PeerAssumption DEF IInv, TypeOK
<1>4. \A q \in Requests :
        out'[q] # out[q] => out[q] = "open" /\ sub[peer[q]] = q /\ peer[q] \in entries
  BY <1>1 DEF OutStopped, IInv, TypeOK, PeersTypeOK
<1>5. TypeOK'
  <2>1. /\ native' \in [AllPeers -> {"none", "open", "closed"}]
        /\ sub' \in [AllPeers -> Requests \cup {NoRequest}]
        /\ pending' \in [AllPeers -> BOOLEAN]
        /\ out' \in [Requests -> {"open", "finished", "failed"}]
    BY <1>1, StoppedTypes DEF IInv
  <2> QED
    BY <1>1, <1>3, <2>1 DEF IInv, TypeOK, PeersTypeOK, AllPeers
<1>6. RequestsArePlaced'
  <2> SUFFICES ASSUME NEW r \in Requests
               PROVE  /\ pc'[r] \in {"new", "reading"} =>
                           /\ peer'[r] = r /\ kind'[r] = "none"
                           /\ out'[r] = "open" /\ r \notin shut'
                      /\ peer'[r] \in minted' \cup {r}
                      /\ answer'[r] # "none" => pc'[r] \in {"answered", "ended"}
                      /\ kind'[r] = "listen" => pc'[r] \in {"listening", "answered", "ended"}
                      /\ pc'[r] = "listening" => kind'[r] = "listen"
    BY DEF RequestsArePlaced
  <2>1. /\ pc[r] \in {"new", "reading"} =>
             peer[r] = r /\ kind[r] = "none" /\ out[r] = "open" /\ r \notin shut
        /\ peer[r] \in minted \cup {r}
        /\ answer[r] # "none" => pc[r] \in {"answered", "ended"}
        /\ kind[r] = "listen" => pc[r] \in {"listening", "answered", "ended"}
        /\ pc[r] = "listening" => kind[r] = "listen"
    BY DEF IInv, RequestsArePlaced
  <2>2. r \notin entries
    BY <1>3
  <2>3. peer[r] = r => out'[r] = out[r]
    BY <1>4, <2>2
  <2> QED
    BY <1>1, <2>1, <2>2, <2>3
<1>7. SessionsAreSheltered' /\ EndedIsIdle'
  BY <1>1, <1>3 DEF IInv, SessionsAreSheltered, EndedIsIdle, Closing
<1>8. ConnectionsAreHeld'
  BY <1>1, <1>2 DEF IInv, ConnectionsAreHeld, Released, Idle, TypeOK, PeersTypeOK
<1>9. StreamsHaveListeners'
  <2> SUFFICES ASSUME NEW p \in AllPeers, sub'[p] # NoRequest
               PROVE  /\ kind'[sub'[p]] = "listen" /\ peer'[sub'[p]] = p
                      /\ ~pending'[p] /\ p \notin shut' /\ out'[sub'[p]] = "open"
    BY DEF StreamsHaveListeners, AllPeers
  <2>1. p \notin entries /\ sub'[p] = sub[p] /\ sub[p] \in Requests
    BY <1>1 DEF SubStopped, IInv, TypeOK, PeersTypeOK
  <2>2. /\ kind[sub[p]] = "listen" /\ peer[sub[p]] = p /\ ~pending[p] /\ p \notin shut
        /\ out[sub[p]] = "open"
    BY <2>1 DEF IInv, StreamsHaveListeners
  <2> QED
    BY <1>1, <1>4, <2>1, <2>2 DEF PendingStopped
<1>10. CutsAreDeletions'
  <2>1. \A q \in Requests : out'[q] # out[q] => kind[q] = "listen" /\ out[q] = "open"
    <3> SUFFICES ASSUME NEW q \in Requests, out'[q] # out[q]
                 PROVE  kind[q] = "listen" /\ out[q] = "open"
      OBVIOUS
    <3>1. peer[q] \in AllPeers /\ sub[peer[q]] = q
      BY <1>4 DEF IInv, TypeOK, PeersTypeOK
    <3> QED
      BY <1>4, <3>1, PeerAssumption DEF IInv, StreamsHaveListeners
  <2> QED
    BY <1>1, <2>1 DEF IInv, CutsAreDeletions, Calls, Settled
<1>11. OneRequestPerId' /\ SessionsAreKnown' /\ CountedIsBounded'
  BY <1>1, <1>2, ZenonT(60) DEF IInv, OneRequestPerId, SessionsAreKnown, BusyAreKnown, SessionsAreAnnounced,
     Busy, Idle, CountedIsBounded, Counted, Retained
<1> QED
  BY <1>5, <1>6, <1>7, <1>8, <1>9, <1>10, <1>11 DEF IInv

-----------------------------------------------------------------------------
LEMMA StepHolds == IInv /\ [Next]_vars => IInv'
<1> SUFFICES ASSUME IInv, [Next]_vars PROVE IInv'
  OBVIOUS
<1>1. CASE CalmStep
  BY <1>1, CalmKeeps
<1>2. ASSUME NEW r \in Requests, Prepare(r) PROVE IInv'
  BY <1>2, CalmKeeps, NotFoundKeeps, InSessionKeeps, InitializeKeeps, CancelKeeps, DeleteKeeps,
     ListenKeeps, StatelessKeeps DEF Prepare, CalmStep
<1>3. ASSUME NEW r \in Requests, Work(r) \/ Overflows(r) PROVE IInv'
  BY <1>3, CallKeeps, FinishKeeps, OverflowKeeps DEF Work
<1>4. CASE (\E p \in AllPeers : Changed(p)) \/ Sweep \/ Close
  BY <1>4, ChangedKeeps, SweepKeeps, CloseKeeps
<1>5. CASE UNCHANGED vars
  <2> USE <1>5 DEF vars, peerVars, requestVars, tableVars, IInv
  <2>1. TypeOK' /\ RequestsArePlaced' /\ SessionsAreSheltered' /\ ConnectionsAreHeld'
    BY DEF TypeOK, PeersTypeOK, RequestsArePlaced, SessionsAreSheltered, Closing,
           ConnectionsAreHeld, Idle, Active
  <2>2. StreamsHaveListeners' /\ CutsAreDeletions' /\ OneRequestPerId' /\ EndedIsIdle'
    BY DEF StreamsHaveListeners, CutsAreDeletions, Calls, Settled, OneRequestPerId, EndedIsIdle
  <2>3. SessionsAreKnown' /\ CountedIsBounded'
    BY DEF SessionsAreKnown, BusyAreKnown, SessionsAreAnnounced, Busy, Idle, Active,
           CountedIsBounded, Counted, Retained
  <2> QED
    BY <2>1, <2>2, <2>3
<1> QED
  BY <1>1, <1>2, <1>3, <1>4, <1>5 DEF Next, CalmStep

THEOREM SessionInvariant == Spec => []IInv
BY InitHolds, StepHolds, PTL DEF Spec

(* Whatever clients create, delete and abandon, no session with calls is       *)
(* forgotten, and none is left behind by an initialize that failed.           *)
THEOREM SessionsStayKnown == Spec => []SessionsAreKnown
<1>1. IInv => SessionsAreKnown
  BY DEF IInv
<1> QED
  BY <1>1, SessionInvariant, PTL

(* The table's capacity bounds the sessions that hold a connection to T3 or    *)
(* run calls, those that were deleted included.                               *)
THEOREM CapacityHolds == Spec => []SessionsBounded
<1>1. IInv => SessionsBounded
  <2> SUFFICES ASSUME IInv PROVE SessionsBounded
    OBVIOUS
  <2>1. {s \in Sessions : Busy(s) \/ native[s] = "open"} \subseteq Counted
    BY PeerAssumption DEF IInv, Counted, Retained, Busy, SessionsAreKnown, BusyAreKnown,
       ConnectionsAreHeld, SessionsAreSheltered, AllPeers
  <2> QED
    BY <2>1, FS_Subset, FS_CardinalityType, CapacityAssumption
    DEF IInv, CountedIsBounded, SessionsBounded
<1> QED
  BY <1>1, SessionInvariant, PTL

(* A call keeps its peer's connection, and a closed peer nobody uses has none. *)
THEOREM ConnectionsLive == Spec => []NativeLivesWithCalls
<1>1. IInv => NativeLivesWithCalls
  BY DEF IInv, ConnectionsAreHeld, NativeLivesWithCalls
<1> QED
  BY <1>1, SessionInvariant, PTL

(* An answer is lost silently only in a session that was deleted, and visibly  *)
(* only by the call's own output; and an id names one call at a time.         *)
THEOREM OnlyDeletesCut == Spec => []CutOnlyByDelete
<1>1. IInv => CutOnlyByDelete
  BY DEF IInv, CutsAreDeletions, CutOnlyByDelete
<1> QED
  BY <1>1, SessionInvariant, PTL

(* No notification is kept back from a stream that is there to take it.       *)
THEOREM StreamsServed == Spec => []StreamsAreServed
<1>1. IInv => StreamsAreServed
  BY DEF IInv, StreamsHaveListeners, StreamsAreServed
<1> QED
  BY <1>1, SessionInvariant, PTL

LEMMA EndedQuietly == IInv => EndedIsQuiet
<1> SUFFICES ASSUME IInv, phase = "ended"
             PROVE  /\ \A p \in AllPeers : Idle(p) /\ native[p] # "open"
                    /\ entries \subseteq shut
  BY DEF EndedIsQuiet
<1>1. entries \subseteq shut /\ minted \subseteq shut
  BY DEF IInv, SessionsAreSheltered, Closing
<1>2. ASSUME NEW p \in AllPeers PROVE Idle(p) /\ native[p] # "open"
  <2>1. Idle(p)
    BY DEF IInv, EndedIsIdle, Idle, Active, Running
  <2> QED
    BY <1>1, <2>1 DEF IInv, ConnectionsAreHeld
<1> QED
  BY <1>1, <1>2

(* Once the server has ended, nothing it admitted runs, no connection is open, *)
(* and every session in the table refuses requests.                           *)
THEOREM ServersEndQuiet == Spec => []EndedIsQuiet
BY EndedQuietly, SessionInvariant, PTL

-----------------------------------------------------------------------------
\* Once the server drains, every connection has seen its last request through,
\* or its client has left.
ConnectionsAreSeenThrough ==
  phase \in {"draining", "ended"} =>
    \A r \in Requests : pc[r] \in {"new", "ended"} \/ r \in gone

\* What a step leaves of a request: one that has ended stays so, and nothing
\* arrives at a server that closes.
Progresses ==
  /\ gone \subseteq gone'
  /\ \A q \in Requests :
       /\ pc[q] = "ended" => pc'[q] = "ended"
       /\ pc[q] = "new" /\ Closing => pc'[q] = "new"

LEMMA StepProgresses == IInv /\ [Next]_vars => Progresses
<1> SUFFICES ASSUME IInv, [Next]_vars PROVE Progresses
  OBVIOUS
<1> USE DEF Progresses, peerVars, requestVars, tableVars, Closing
<1>1. pc \in [Requests -> {"new", "reading", "listening", "answered", "ended"} \cup Running]
  BY DEF IInv, TypeOK, PeersTypeOK
<1>2. ASSUME NEW r \in Requests, Arrive(r) \/ StreamEnds(r) \/ Over(r) \/ Leave(r)
      PROVE  Progresses
  BY <1>1, <1>2 DEF Arrive, StreamEnds, Over, Leave, End
<1>3. ASSUME NEW r \in Requests, Prepare(r) PROVE Progresses
  BY <1>1, <1>3 DEF Prepare, Refuse, NotFound, InSession, Initialize, Cancel, Delete, Listen,
     Stateless, End, Runs
<1>4. ASSUME NEW r \in Requests, Work(r) \/ Overflows(r) PROVE Progresses
  BY <1>1, <1>4 DEF Work, Run, Execute, Dispatch, Finish, Ready, Running, Overflows, Overflow
<1>5. CASE \/ \E s \in Sessions : TimePasses(s)
           \/ \E p \in AllPeers : Changed(p)
           \/ Sweep \/ Close \/ Joined \/ Drained
  BY <1>5 DEF TimePasses, Changed, Notify, Sweep, Close, Joined, Drained
<1>6. CASE UNCHANGED vars
  BY <1>6 DEF vars
<1> QED
  BY <1>2, <1>3, <1>4, <1>5, <1>6 DEF Next

\* Only a join begins the draining.
LEMMA DrainingBegins ==
  ASSUME [Next]_vars, phase \notin {"draining", "ended"}, phase' \in {"draining", "ended"}
  PROVE  Joined
<1> USE DEF peerVars, requestVars, tableVars
<1>1. ASSUME NEW r \in Requests, Arrive(r) \/ StreamEnds(r) \/ Over(r) \/ Leave(r)
      PROVE  phase' = phase
  BY <1>1 DEF Arrive, StreamEnds, Over, Leave
<1>2. ASSUME NEW r \in Requests, Prepare(r) PROVE phase' = phase
  BY <1>2 DEF Prepare, Refuse, NotFound, InSession, Initialize, Cancel, Delete, Listen, Stateless
<1>3. ASSUME NEW r \in Requests, Work(r) \/ Overflows(r) PROVE phase' = phase
  BY <1>3 DEF Work, Run, Finish, Overflows
<1>4. ASSUME \/ \E s \in Sessions : TimePasses(s)
             \/ \E p \in AllPeers : Changed(p)
             \/ Sweep
      PROVE  phase' = phase
  BY <1>4 DEF TimePasses, Changed, Sweep
<1> QED
  BY <1>1, <1>2, <1>3, <1>4 DEF Next, Close, Drained, vars

LEMMA SeenThroughKeeps ==
  IInv /\ ConnectionsAreSeenThrough /\ [Next]_vars => ConnectionsAreSeenThrough'
<1> SUFFICES ASSUME IInv, ConnectionsAreSeenThrough, [Next]_vars,
                    phase' \in {"draining", "ended"}
             PROVE  ConnectionsAreSeenThrough'
  BY DEF ConnectionsAreSeenThrough
<1>1. CASE phase \in {"draining", "ended"}
  <2> SUFFICES ASSUME NEW r \in Requests
               PROVE  pc'[r] \in {"new", "ended"} \/ r \in gone'
    BY DEF ConnectionsAreSeenThrough
  <2>1. pc[r] \in {"new", "ended"} \/ r \in gone
    BY <1>1 DEF ConnectionsAreSeenThrough
  <2>2. Progresses /\ Closing
    BY <1>1, StepProgresses DEF Closing
  <2>3. gone \subseteq gone' /\ (pc[r] = "ended" => pc'[r] = "ended")
    BY <2>2 DEF Progresses
  <2>4. pc[r] = "new" => pc'[r] = "new"
    BY <2>2 DEF Progresses
  <2> QED
    BY <2>1, <2>3, <2>4
<1>2. CASE phase \notin {"draining", "ended"}
  <2>1. Joined
    BY <1>2, DrainingBegins
  <2> QED
    BY <2>1 DEF Joined, ConnectionsAreSeenThrough, requestVars
<1> QED
  BY <1>1, <1>2
=============================================================================
