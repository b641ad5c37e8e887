----------------------------- MODULE NativeCalls ----------------------------
(***************************************************************************)
(* Tool calls through the native MCP client (rust/src/t3/native_mcp.rs,    *)
(* execute; native_wire.rs, request): at most three attempts over the      *)
(* shared connection.                                                      *)
(*                                                                         *)
(* External: T3 and the network.  A message on the wire may be processed   *)
(* at any later time, or never; what T3 says it refused, it never will.    *)
(***************************************************************************)
EXTENDS NativeConnection, FiniteSets

CONSTANTS Calls,     \* tool calls
          Mutating   \* those whose tool changes state in T3

ASSUME CallAssumption == Mutating \subseteq Calls /\ Calls \subseteq Clients

VARIABLES
  attempt,    \* the attempt a call is at
  cancelled,  \* has its caller cancelled it?
  answer,     \* what its caller was told
  wire,       \* messages sent
  refused,    \* how T3 refused what a call is waiting on, if it did
  applied     \* messages T3 has processed

callVars == <<attempt, cancelled, answer, wire, refused, applied>>
linkVars == <<closed, generation, connection, connecting, conn, dirty, backoff, pc, userVars>>
vars     == <<credVars, linkVars, callVars>>

Kinds == {"rejected", "unauthorized", "forgotten", "unreachable"}

Message == [call : Calls, attempt : 1..3]
Sent(c) == {m \in wire \cup applied : m.call = c}

\* Does the message's call wait for its answer?
Awaited(c) == [call |-> c, attempt |-> attempt[c]]
Awaits(m)  == pc[m.call] = "wait" /\ m = Awaited(m.call)

Answers == {"result", "rejected", "cancelled", "unauthorized", "no_credential",
            "unavailable", "outcome_unknown"}

CallsTypeOK ==
  /\ attempt \in [Calls -> 0..3] /\ cancelled \in [Calls -> BOOLEAN]
  /\ answer \in [Calls -> Answers \cup {"none"}]
  /\ wire \subseteq Message /\ refused \in [Calls -> Kinds \cup {"none"}] /\ applied \subseteq Message

CallsInit ==
  /\ attempt = [c \in Calls |-> 0] /\ cancelled = [c \in Calls |-> FALSE]
  /\ answer = [c \in Calls |-> "none"] /\ wire = {} /\ applied = {}
  /\ refused = [c \in Calls |-> "none"]

-----------------------------------------------------------------------------
(* What an attempt leads to; cur is the current connection *)

Ends(c, result, cur) ==
  /\ answer' = [answer EXCEPT ![c] = result]
  /\ pc' = [pc EXCEPT ![c] = "done"]
  /\ using' = [using EXCEPT ![c] = 0] /\ tok' = [tok EXCEPT ![c] = NoToken]
  /\ connection' = cur
  /\ UNCHANGED <<connecting, wire>>

Send(c, token, number, cur) ==
  /\ wire' = wire \cup {[call |-> c, attempt |-> attempt'[c]]}
  /\ using' = [using EXCEPT ![c] = number] /\ tok' = [tok EXCEPT ![c] = token]
  /\ pc' = [pc EXCEPT ![c] = "wait"]
  /\ connection' = cur
  /\ UNCHANGED <<connecting, answer>>

Waits(c, token) ==
  /\ Park(c, token)
  /\ using' = [using EXCEPT ![c] = 0] /\ tok' = [tok EXCEPT ![c] = token]
  /\ UNCHANGED <<answer, wire>>

\* One turn of execute's loop, to its first await.
Attempt(c, number, cur) ==
  /\ attempt' = [attempt EXCEPT ![c] = number]
  /\ \/ cancelled[c] /\ Ends(c, "cancelled", cur)
     \/ ~cancelled[c] /\ credential = NoToken /\ Ends(c, "no_credential", cur)
     \/ /\ ~cancelled[c] /\ credential # NoToken
        /\ \/ closed /\ Ends(c, "unavailable", cur)
           \/ ~closed /\ Usable(cur, credential) /\ Send(c, credential, cur, cur)
           \/ ~closed /\ ~Usable(cur, credential) /\ Waits(c, credential)

\* Mutant: every first attempt is worth repeating.
AgainWhateverFailed(c, failure, dropped) ==
  IF attempt[c] = 1 THEN TRUE ELSE dropped /\ attempt[c] < 3

\* Is there another attempt after this failure?
Again(c, failure, dropped) ==
  IF attempt[c] = 1 THEN failure = "unprocessed" \/ c \notin Mutating
                    ELSE dropped /\ attempt[c] < 3

\* Mutant: while the connection is up, no answer means no delivery.
VerdictHopeful(c, failure) ==
  IF failure = "unknown" /\ c \in Mutating /\ ~conn[using[c]].up
  THEN "outcome_unknown" ELSE "unavailable"

Verdict(c, failure) ==
  IF failure = "unknown" /\ c \in Mutating THEN "outcome_unknown" ELSE "unavailable"

Fail(c, failure, dropped, cur) ==
  \/ /\ Again(c, failure, dropped) /\ ~cancelled[c]
     /\ Attempt(c, attempt[c] + 1, cur)
  \/ /\ ~Again(c, failure, dropped) \/ cancelled[c]
     /\ Ends(c, Verdict(c, failure), cur) /\ UNCHANGED attempt

Gives(c, result) == Ends(c, result, connection) /\ UNCHANGED attempt

-----------------------------------------------------------------------------
(* execute *)

Start(c) ==
  /\ pc[c] = "idle"
  /\ Attempt(c, 1, connection)
  /\ UNCHANGED <<conn, refused, applied>>

\* Mutant: the request is sent without asking whether it still may be.
DeliverUnasked(c, number) ==
  \/ ~conn[number].up /\ Fail(c, "unknown", FALSE, connection)
  \/ conn[number].up /\ UNCHANGED attempt /\ Send(c, tok[c], number, connection)

\* The request is sent, unless the connection was closed or the call cancelled
\* while this task was not running.
Deliver(c, number) ==
  \/ ~conn[number].up /\ Fail(c, "unknown", FALSE, connection)
  \/ conn[number].up /\ cancelled[c] /\ Gives(c, "cancelled")
  \/ /\ conn[number].up /\ ~cancelled[c]
     /\ UNCHANGED attempt /\ Send(c, tok[c], number, connection)

\* Mutant: a call takes whatever connection it is told of.
ConnectAnyway(c) == Deliver(c, using[c])

\* connect, when the connection it was told of has another token.
ConnectAgain(c) ==
  \/ closed /\ Fail(c, "unprocessed", FALSE, connection)
  \/ ~closed /\ Usable(connection, tok[c]) /\ Deliver(c, connection)
  \/ /\ ~closed /\ ~Usable(connection, tok[c])
     /\ UNCHANGED attempt /\ Waits(c, tok[c])

\* The task that opened a connection has told the call what came of it.
Opened(c) ==
  /\ pc[c] = "opened"
  /\ \/ /\ why[c] = "rejected"
        /\ Gives(c, IF cancelled[c] THEN "cancelled" ELSE "rejected")
     \/ why[c] = "unauthorized" /\ Gives(c, "unauthorized")
     \/ why[c] = "unprocessed" /\ Fail(c, "unprocessed", FALSE, connection)
     \/ why[c] = "none" /\ conn[using[c]].token = tok[c] /\ Deliver(c, using[c])
     \/ why[c] = "none" /\ conn[using[c]].token # tok[c] /\ ConnectAgain(c)
  /\ why' = [why EXCEPT ![c] = "none"]
  /\ UNCHANGED <<conn, refused, applied>>

\* T3's result arrives.
Returns(c) ==
  /\ pc[c] = "wait" /\ Awaited(c) \in applied /\ conn[using[c]].up
  /\ Gives(c, "result")
  /\ UNCHANGED <<conn, refused, applied>>

\* The news that T3 refused arrives.  A refused token and a forgotten session
\* end the connection for all (drop_if_invalid).
Refused(c, kind) ==
  /\ pc[c] = "wait" /\ refused[c] = kind /\ conn[using[c]].up
  /\ LET dropped == kind \in {"unauthorized", "forgotten"}
         cur     == IF dropped THEN Without(using[c]) ELSE connection IN
     /\ conn' = IF dropped THEN [conn EXCEPT ![using[c]].up = FALSE] ELSE conn
     /\ \/ /\ kind = "rejected"
           /\ Gives(c, IF cancelled[c] THEN "cancelled" ELSE "rejected")
        \/ /\ kind = "unauthorized"
           /\ Ends(c, "unauthorized", cur) /\ UNCHANGED attempt
        \/ kind \in {"forgotten", "unreachable"} /\ Fail(c, "unprocessed", dropped, cur)
  /\ refused' = [refused EXCEPT ![c] = "none"]
  /\ UNCHANGED applied

\* Mutant: a request has no deadline.
LostByClosing(c) ==
  /\ pc[c] = "wait" /\ ~conn[using[c]].up
  /\ Fail(c, "unknown", FALSE, connection)
  /\ refused' = [refused EXCEPT ![c] = "none"]
  /\ UNCHANGED <<conn, applied>>

\* The request times out, or its response breaks off, or the connection closes.
Lost(c) ==
  /\ pc[c] = "wait"
  /\ Fail(c, "unknown", FALSE, connection)
  /\ refused' = [refused EXCEPT ![c] = "none"]
  /\ UNCHANGED <<conn, applied>>

Call(c) ==
  /\ \/ Opened(c)
     \/ /\ Start(c) \/ Returns(c) \/ (\E kind \in Kinds : Refused(c, kind)) \/ Lost(c)
        /\ UNCHANGED why
  /\ UNCHANGED <<credVars, closed, generation, dirty, backoff, cancelled>>

Cancel(c) ==
  /\ pc[c] # "done" /\ ~cancelled[c]
  /\ cancelled' = [cancelled EXCEPT ![c] = TRUE]
  /\ UNCHANGED <<credVars, linkVars, attempt, answer, wire, refused, applied>>

-----------------------------------------------------------------------------
(* T3 *)

\* A read whose answer nobody awaits is of no consequence.
T3Processes(m) ==
  /\ m.call \in Mutating \/ Awaits(m)
  /\ wire' = wire \ {m} /\ applied' = applied \cup {m}
  /\ UNCHANGED <<credVars, linkVars, attempt, cancelled, answer, refused>>

\* It has another opinion of the message, the token or the session, or is not
\* running.  A refusal nobody awaits is a message that is never processed.
T3Refuses(m, kind) ==
  /\ Awaits(m)
  /\ wire' = wire \ {m} /\ refused' = [refused EXCEPT ![m.call] = kind]
  /\ UNCHANGED <<credVars, linkVars, attempt, cancelled, answer, applied>>

T3 == \E m \in wire : T3Processes(m) \/ \E kind \in Kinds : T3Refuses(m, kind)

-----------------------------------------------------------------------------
TypeOK == LinkTypeOK /\ CallsTypeOK

Init == LinkInit /\ CallsInit

Link == (Opening \/ Renew \/ Close) /\ UNCHANGED callVars

Next ==
  \/ Link
  \/ \E c \in Calls : Call(c) \/ Cancel(c)
  \/ T3

\* A connecting task and a call always get on: every request has a deadline.
Fairness ==
  /\ WF_vars(Opening /\ UNCHANGED callVars)
  /\ \A c \in Calls : WF_vars(Call(c))

Spec == Init /\ [][Next]_vars /\ Fairness

-----------------------------------------------------------------------------
(* Properties *)

\* execute, docs/usage.md: whatever T3 forgets, refuses or answers late, and
\* however connections come and go, at most one message of a call that changes
\* state is ever processed or may still be.
SentOnce == \A c \in Mutating : Cardinality(Sent(c)) <= 1

\* execute: unless the caller of a call that changes state is told that its
\* outcome is unknown or gets T3's result, T3 has not processed it and never will.
FailureMeansNothingRan ==
  \A c \in Mutating : answer[c] \notin {"none", "result", "outcome_unknown"} => Sent(c) = {}

\* connect, execute: while the credential is renewed and other calls open
\* connections with other tokens, a call waits only on one of its own token.
CallsUseTheirToken ==
  \A c \in Calls : pc[c] = "wait" => conn[using[c]].token = tok[c]

\* drop_if_invalid, close, connect: what the next call would use is open.
CurrentIsOpen == connection # 0 => conn[connection].up

\* connect, drop_if_invalid, close: whatever fails, is renewed or is closed
\* while calls connect, each has a connection of its own token, the next one
\* gets one that is open, and a closed client keeps none.
ConnectionsAreSound == CallsUseTheirToken /\ CurrentIsOpen /\ ClosedKeepsNothing

\* admit_send: once its caller has cancelled, a call sends nothing more.
CancelledSendNothing ==
  [][\A c \in Calls : cancelled[c] => \A m \in wire' \ wire : m.call # c]_vars

\* connect, request: every call is answered, though T3 never answers.
CallsEnd == \A c \in Calls : pc[c] # "idle" ~> pc[c] = "done"
=============================================================================
