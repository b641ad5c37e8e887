------------------------------- MODULE T3Client -------------------------------
(***************************************************************************)
(* The gateway's client of T3's API (rust/src/t3/http_client.rs): which     *)
(* protocol T3 speaks is discovered by a task that all who ask share, and   *)
(* cached; a read goes by the cache and checks again when T3 does not       *)
(* understand it; a dispatch discovers first, and under protocol 2 sends    *)
(* its command in parts.                                                    *)
(*                                                                          *)
(* T3 may be replaced, by one of another protocol, at any time; requests    *)
(* are answered late, refused or lost.  Nobody in the gateway cancels what  *)
(* it asks of this client.  Telemetry and the audit are left out.           *)
(***************************************************************************)
EXTENDS Naturals, Sequences, FiniteSets

CONSTANTS Calls,       \* what the gateway's clients have under way
          Sending,     \* those of them that start a turn when they dispatch
          Versions,    \* protocols T3 may speak; the gateway knows 1 and 2
          MaxSwitches  \* bound: how often T3 changes its protocol

ASSUME VersionAssumption ==
  Versions \subseteq Nat \ {0} /\ Sending \subseteq Calls /\ MaxSwitches \in Nat

VARIABLES
  speaks,     \* T3's protocol
  switches,   \* how often it has changed
  wire,       \* command parts on their way
  applied,    \* those T3 has applied
  refused,    \* and those it has refused
  cached,     \* the protocol of the cached descriptor; 0 is none
  asked,      \* T3's changes before that descriptor was asked for
  discovery,  \* the discovery task, if one is in flight
  waits,      \* the calls that wait for it
  learned,    \* what the last one that a call waited for said; 0 is a failure
  pc,         \* how far a call has come
  version,    \* the protocol it goes by
  part,       \* the part of its command it has sent last
  attempt,    \* of its read
  got,        \* what its read or its dispatch came to
  mark        \* T3's changes before anything that its read may go by was asked

t3Vars == <<speaks, switches, wire, applied, refused>>
cacheVars == <<cached, asked, discovery, waits, learned>>
readVars == <<version, part, attempt, got, mark>>
clientVars == <<t3Vars, cacheVars, pc, readVars>>

Supported == {1, 2}

Parts(c, v) ==
  IF v = 2 /\ c \in Sending THEN <<"runtime", "interaction", "message">> ELSE <<"command">>

Commands == [by : Calls, version : Supported,
             part : {"runtime", "interaction", "message", "command"}]

Command(c) == [by |-> c, version |-> version[c], part |-> Parts(c, version[c])[part[c]]]

Sent == wire \cup applied \cup refused

NoDiscovery == [state |-> "none", version |-> 0, since |-> 0]

ClientInit ==
  /\ speaks \in Versions \cap Supported /\ switches = 0
  /\ wire = {} /\ applied = {} /\ refused = {}
  /\ cached = 0 /\ asked = 0 /\ discovery = NoDiscovery /\ waits = {}
  /\ learned = [c \in Calls |-> 0]
  /\ pc = [c \in Calls |-> "idle"] /\ version = [c \in Calls |-> 0]
  /\ part = [c \in Calls |-> 0] /\ attempt = [c \in Calls |-> 0]
  /\ got = [c \in Calls |-> "none"] /\ mark = [c \in Calls |-> 0]

-----------------------------------------------------------------------------
(* get_descriptor, protocol *)

\* Call c waits for the discovery in flight, or for one it starts.
Discover(c, next) ==
  /\ pc' = [pc EXCEPT ![c] = next]
  /\ waits' = waits \cup {c}
  /\ discovery' = IF discovery # NoDiscovery THEN discovery
                  ELSE [state |-> "asked", version |-> 0, since |-> switches]
  /\ UNCHANGED <<cached, asked, learned>>

\* T3 answers the discovery.
Describe ==
  /\ discovery.state = "asked"
  /\ discovery' = [discovery EXCEPT !.state = "told", !.version = speaks]
  /\ UNCHANGED <<t3Vars, cached, asked, waits, learned, pc, readVars>>

\* The discovery is over, with version v or a failure, for all who wait.
EndDiscovery(v) ==
  /\ discovery' = NoDiscovery /\ waits' = {}
  /\ learned' = [c \in Calls |-> IF c \in waits THEN v ELSE learned[c]]
  /\ UNCHANGED <<t3Vars, pc, readVars>>

\* T3's answer arrives and is cached.
Discovered ==
  /\ discovery.state = "told"
  /\ cached' = discovery.version /\ asked' = discovery.since
  /\ EndDiscovery(discovery.version)

\* It is refused, unreadable, or late.
DiscoveryFails ==
  /\ discovery # NoDiscovery
  /\ EndDiscovery(0)
  /\ UNCHANGED <<cached, asked>>

Learned(c) == IF learned[c] \in Supported THEN learned[c] ELSE 0

\* Call c goes on.
Use(c) ==
  /\ learned' = [learned EXCEPT ![c] = 0]
  /\ UNCHANGED <<cached, asked, discovery, waits>>

-----------------------------------------------------------------------------
(* read_protocol *)

Request(c, v) ==
  /\ pc' = [pc EXCEPT ![c] = "reading"]
  /\ version' = [version EXCEPT ![c] = v]
  /\ attempt' = [attempt EXCEPT ![c] = @ + 1]
  /\ UNCHANGED got

EndRead(c, result) ==
  /\ pc' = [pc EXCEPT ![c] = "read"]
  /\ got' = [got EXCEPT ![c] = result]
  /\ version' = [version EXCEPT ![c] = 0]
  /\ attempt' = [attempt EXCEPT ![c] = 0]

\* A read begins: with the cached protocol, if there is one; one that the
\* gateway does not speak ends it at once, whatever T3 speaks now.
StartRead(c) ==
  /\ \/ /\ cached = 0
        /\ Discover(c, "learning")
        /\ UNCHANGED <<version, attempt, got>>
     \/ cached \in Supported /\ Request(c, cached) /\ UNCHANGED cacheVars
     \/ /\ cached \notin Supported \cup {0}
        /\ EndRead(c, "unsupported")
        /\ UNCHANGED cacheVars
  /\ mark' = [mark EXCEPT ![c] = IF discovery = NoDiscovery THEN switches
                                                           ELSE discovery.since]
  /\ UNCHANGED part

\* The first discovery is over.
Learn(c) ==
  /\ pc[c] = "learning" /\ c \notin waits
  /\ IF Learned(c) # 0 THEN Request(c, Learned(c))
     ELSE EndRead(c, IF learned[c] = 0 THEN "failed" ELSE "unsupported")
  /\ Use(c) /\ UNCHANGED <<t3Vars, part, mark>>

\* T3 answers a read: what it does not understand it refuses with 400, or its
\* answer cannot be understood.
Answer(c) ==
  /\ pc[c] = "reading" /\ pc' = [pc EXCEPT ![c] = "answered"]
  /\ got' = [got EXCEPT ![c] = IF version[c] = speaks THEN "read" ELSE "incompatible"]
  /\ UNCHANGED <<t3Vars, cacheVars, version, part, attempt, mark>>

\* Any other failure, of T3 or of the network, ends the read.
ReadBreaks(c) ==
  /\ pc[c] = "reading"
  /\ EndRead(c, "failed")
  /\ UNCHANGED <<t3Vars, cacheVars, part, mark>>

\* Mutant: what was cached when the read began is taken for T3's protocol.
CheckAgainCached(c) ==
  /\ IF cached = version[c] THEN EndRead(c, got[c]) ELSE Request(c, cached)
  /\ UNCHANGED cacheVars

\* T3 did not understand the first attempt: another call may have learned of
\* another protocol meanwhile; else it is discovered anew.
CheckAgain(c) ==
  \/ /\ cached = version[c]
     /\ Discover(c, "checking")
     /\ UNCHANGED <<version, attempt, got>>
  \/ cached \in Supported \ {version[c]} /\ Request(c, cached) /\ UNCHANGED cacheVars
  \/ cached \notin Supported /\ EndRead(c, got[c]) /\ UNCHANGED cacheVars

\* The answer arrives.
ReadArrives(c) ==
  /\ pc[c] = "answered"
  /\ IF got[c] = "incompatible" /\ attempt[c] = 1
     THEN CheckAgain(c) /\ UNCHANGED mark
     ELSE /\ EndRead(c, got[c]) /\ UNCHANGED cacheVars
          /\ mark' = [mark EXCEPT ![c] = 0]
  /\ UNCHANGED <<t3Vars, part>>

\* The second discovery is over: only another protocol is worth an attempt.
Checked(c) ==
  /\ pc[c] = "checking" /\ c \notin waits
  /\ IF Learned(c) \notin {0, version[c]} THEN Request(c, Learned(c)) ELSE EndRead(c, got[c])
  /\ Use(c) /\ UNCHANGED <<t3Vars, part, mark>>

Reads(c) == Learn(c) \/ Answer(c) \/ ReadBreaks(c) \/ ReadArrives(c) \/ Checked(c)

-----------------------------------------------------------------------------
(* dispatch *)

\* A dispatch always discovers; it may join a discovery of before it began.
StartDispatch(c) == Discover(c, "discovering") /\ UNCHANGED readVars

SendPart(c, v, n) ==
  /\ pc' = [pc EXCEPT ![c] = "sending"]
  /\ version' = [version EXCEPT ![c] = v]
  /\ part' = [part EXCEPT ![c] = n]
  /\ wire' = wire \cup {[by |-> c, version |-> v, part |-> Parts(c, v)[n]]}
  /\ UNCHANGED got

EndDispatch(c, result) ==
  /\ pc' = [pc EXCEPT ![c] = "dispatched"]
  /\ got' = [got EXCEPT ![c] = result]
  /\ version' = [version EXCEPT ![c] = 0]
  /\ part' = [part EXCEPT ![c] = 0]
  /\ UNCHANGED wire

\* The discovery is over: without a protocol, the command is not sent.
DispatchLearns(c) ==
  /\ pc[c] = "discovering" /\ c \notin waits
  /\ IF Learned(c) # 0 THEN SendPart(c, Learned(c), 1) ELSE EndDispatch(c, "rejected")
  /\ Use(c) /\ UNCHANGED <<speaks, switches, applied, refused, attempt, mark>>

\* A part is acknowledged: the next one is sent, or it was the last.
Acknowledged(c) ==
  /\ pc[c] = "sending" /\ Command(c) \in applied
  /\ IF part[c] < Len(Parts(c, version[c]))
     THEN SendPart(c, version[c], part[c] + 1)
     ELSE EndDispatch(c, "accepted")
  /\ UNCHANGED <<speaks, switches, applied, refused, cacheVars, attempt, mark>>

\* Mutant: a part that T3 refuses is a command that T3 refuses.
RefusalOfAll(c) == "rejected"

\* A refusal over HTTP has a status from 400 to 499; one over RPC says only
\* that this part failed.
Refusal(c) == IF version[c] = 1 THEN "rejected" ELSE "uncertain"

\* A part is refused.
Refused(c) ==
  /\ pc[c] = "sending" /\ Command(c) \in refused
  /\ EndDispatch(c, Refusal(c))
  /\ UNCHANGED <<speaks, switches, applied, refused, cacheVars, attempt, mark>>

\* No answer, or none that tells.
Unanswered(c) ==
  /\ pc[c] = "sending"
  /\ EndDispatch(c, "uncertain")
  /\ UNCHANGED <<speaks, switches, applied, refused, cacheVars, attempt, mark>>

Dispatches(c) == DispatchLearns(c) \/ Acknowledged(c) \/ Refused(c) \/ Unanswered(c)

-----------------------------------------------------------------------------
(* T3 and the network *)

Switch ==
  /\ switches < MaxSwitches /\ switches' = switches + 1
  /\ speaks' \in Versions \ {speaks}
  /\ UNCHANGED <<wire, applied, refused, cacheVars, pc, readVars>>

\* Commands whose protocol T3 speaks are applied or refused, the others refused.
\* One that is lost stays on its way.
Handle(m) ==
  /\ m \in wire /\ wire' = wire \ {m}
  /\ \/ m.version = speaks /\ applied' = applied \cup {m} /\ UNCHANGED refused
     \/ refused' = refused \cup {m} /\ UNCHANGED applied
  /\ UNCHANGED <<speaks, switches, cacheVars, pc, readVars>>

T3 == Switch \/ (\E m \in wire : Handle(m)) \/ Describe

ClientTypeOK ==
  /\ speaks \in Versions /\ switches \in 0 .. MaxSwitches
  /\ wire \subseteq Commands /\ applied \subseteq Commands /\ refused \subseteq Commands
  /\ cached \in Versions \cup {0} /\ asked \in 0 .. MaxSwitches
  /\ discovery \in [state : {"none", "asked", "told"}, version : Versions \cup {0},
                    since : 0 .. MaxSwitches]
  /\ waits \subseteq Calls
  /\ learned \in [Calls -> Versions \cup {0}]
  /\ version \in [Calls -> Supported \cup {0}]
  /\ part \in [Calls -> 0 .. 3] /\ attempt \in [Calls -> 0 .. 2]
  /\ got \in [Calls -> {"none", "read", "incompatible", "unsupported", "failed",
                        "accepted", "rejected", "uncertain"}]
  /\ mark \in [Calls -> 0 .. MaxSwitches]
=============================================================================
