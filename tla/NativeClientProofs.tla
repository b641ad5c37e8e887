-------------------------- MODULE NativeClientProofs -------------------------
(***************************************************************************)
(* Proofs about NativeCalls and NativeCatalog, for any number of calls,    *)
(* readers, tokens, connections, renewals and changes of T3's tools.       *)
(*                                                                         *)
(* A call that changes state has sent nothing while it connects, at most   *)
(* the message it awaits while it waits, and nothing once it knows that    *)
(* T3 refused; that is what lets it try again.  What becomes of a call is  *)
(* one of three things (Moves): it ends, it waits for a connection, or it  *)
(* sends.                                                                  *)
(*                                                                         *)
(* Of the connections (LinkInv): whoever uses one uses one that has been   *)
(* opened, whose token never changes, and while one is being opened none   *)
(* is current.  Of the catalogue (Current): what was read for the revision *)
(* that counts is as new as anything the client was told.                  *)
(***************************************************************************)
EXTENDS NativeCatalog, FiniteSetTheorems, TLAPS

Shape ==
  /\ pc \in [Clients -> {"idle", "spawned", "connect", "opened", "wait", "done"}]
  /\ attempt \in [Calls -> Nat] /\ cancelled \in [Calls -> BOOLEAN]
  /\ answer \in [Calls -> Answers \cup {"none"}]
  /\ refused \in [Calls -> Kinds \cup {"none"}]
  /\ wire \subseteq [call : Calls, attempt : Nat]
  /\ applied \subseteq [call : Calls, attempt : Nat]

\* What holds of one call that changes state.
Guarded(c) ==
  /\ pc[c] \notin {"wait", "done"} => Sent(c) = {}
  /\ pc[c] = "wait" => Sent(c) \subseteq {Awaited(c)}
  /\ refused[c] # "none" => Sent(c) = {} /\ pc[c] = "wait"
  /\ pc[c] = "done" => Sent(c) = {} \/ answer[c] \in {"result", "outcome_unknown"}
  /\ pc[c] # "done" => answer[c] = "none"
  /\ \A m, n \in Sent(c) : m = n
  /\ \A m \in wire \cap applied : m.call # c

SentInv == Shape /\ \A c \in Mutating : Guarded(c)

-----------------------------------------------------------------------------
(* What a step may make of call c *)

Ended(c, results) ==
  /\ wire' = wire /\ pc' = [pc EXCEPT ![c] = "done"]
  /\ \E result \in results : answer' = [answer EXCEPT ![c] = result]

Queued(c) ==
  wire' = wire /\ pc' = [pc EXCEPT ![c] = "connect"] /\ answer' = answer

Posted(c) ==
  /\ wire' = wire \cup {[call |-> c, attempt |-> attempt'[c]]}
  /\ pc' = [pc EXCEPT ![c] = "wait"] /\ answer' = answer

Counted(c) == attempt' = attempt \/ \E k \in Nat : attempt' = [attempt EXCEPT ![c] = k]

Moves(c) == Counted(c) /\ (Ended(c, Answers) \/ Queued(c) \/ Posted(c))

LEMMA AttemptMoves ==
  ASSUME NEW c \in Calls, NEW k \in Nat, NEW cur, Attempt(c, k, cur)
  PROVE  Moves(c)
  BY DEF Attempt, Ends, Send, Waits, Park, Moves, Counted, Ended, Queued, Posted, Answers

LEMMA FailMoves ==
  ASSUME Shape, NEW c \in Calls, NEW failure, NEW dropped, NEW cur,
         Fail(c, failure, dropped, cur)
  PROVE  Moves(c)
  <1>1. CASE Attempt(c, attempt[c] + 1, cur)
    <2>1. attempt[c] + 1 \in Nat
      BY DEF Shape
    <2> QED
      BY <1>1, <2>1, AttemptMoves
  <1>2. CASE Ends(c, Verdict(c, failure), cur) /\ UNCHANGED attempt
    BY <1>2 DEF Ends, Verdict, Moves, Counted, Ended, Answers
  <1> QED
    BY <1>1, <1>2 DEF Fail

\* A call that changes state does not try again when it knows nothing.
LEMMA UnknownEnds ==
  ASSUME NEW c \in Mutating, NEW cur, Fail(c, "unknown", FALSE, cur)
  PROVE  attempt' = attempt /\ Ended(c, {"outcome_unknown"})
  BY DEF Fail, Again, Verdict, Ends, Ended

LEMMA GivesEnds ==
  ASSUME NEW c \in Calls, NEW result \in Answers, Gives(c, result)
  PROVE  attempt' = attempt /\ Ended(c, {result})
  BY DEF Gives, Ends, Ended

LEMMA DeliverMoves ==
  ASSUME Shape, NEW c \in Calls, NEW number, Deliver(c, number)
  PROVE  Moves(c)
  <1>1. CASE Fail(c, "unknown", FALSE, connection)
    BY <1>1, FailMoves
  <1>2. CASE Gives(c, "cancelled")
    BY <1>2, GivesEnds DEF Moves, Counted, Ended, Answers
  <1>3. CASE UNCHANGED attempt /\ Send(c, tok[c], number, connection)
    BY <1>3 DEF Send, Moves, Counted, Posted
  <1> QED
    BY <1>1, <1>2, <1>3 DEF Deliver

LEMMA OpenedMoves ==
  ASSUME Shape, NEW c \in Calls, Opened(c)
  PROVE  Moves(c)
  <1>1. CASE \E result \in Answers : Gives(c, result)
    BY <1>1, GivesEnds DEF Moves, Counted, Ended
  <1>2. CASE Fail(c, "unprocessed", FALSE, connection)
    BY <1>2, FailMoves
  <1>3. CASE \E number : Deliver(c, number)
    BY <1>3, DeliverMoves
  <1>4. CASE UNCHANGED attempt /\ Waits(c, tok[c])
    BY <1>4 DEF Waits, Park, Moves, Counted, Queued
  <1>5. \/ \E result \in Answers : Gives(c, result)
        \/ Fail(c, "unprocessed", FALSE, connection)
        \/ \E number : Deliver(c, number)
        \/ UNCHANGED attempt /\ Waits(c, tok[c])
    BY DEF Opened, ConnectAgain, Answers
  <1> QED
    BY <1>1, <1>2, <1>3, <1>4, <1>5

LEMMA RefusedMoves ==
  ASSUME Shape, NEW c \in Calls, NEW kind \in Kinds, Refused(c, kind)
  PROVE  Moves(c)
  <1>1. PICK cur, dropped :
          \/ \E result \in Answers : Ends(c, result, cur) /\ UNCHANGED attempt
          \/ Fail(c, "unprocessed", dropped, cur)
    BY DEF Refused, Gives, Answers
  <1>2. CASE \E result \in Answers : Ends(c, result, cur) /\ UNCHANGED attempt
    BY <1>2 DEF Ends, Moves, Counted, Ended
  <1>3. CASE Fail(c, "unprocessed", dropped, cur)
    BY <1>3, FailMoves
  <1> QED
    BY <1>1, <1>2, <1>3

\* What every step of a call has in common.
LEMMA CallMoves ==
  ASSUME Shape, NEW c \in Calls, Call(c)
  PROVE  /\ Moves(c) /\ applied' = applied /\ cancelled' = cancelled
         /\ refused' = refused \/ refused' = [refused EXCEPT ![c] = "none"]
  <1>1. CASE Start(c)
    BY <1>1, AttemptMoves DEF Start, Call
  <1>2. CASE Opened(c)
    BY <1>2, OpenedMoves DEF Opened, Call
  <1>3. CASE Returns(c)
    <2>1. Gives(c, "result") /\ "result" \in Answers
      BY <1>3 DEF Returns, Answers
    <2> QED
      BY <1>3, <2>1, GivesEnds DEF Returns, Call, Moves, Counted, Ended
  <1>4. CASE \E kind \in Kinds : Refused(c, kind)
    BY <1>4, RefusedMoves DEF Refused, Call
  <1>5. CASE Lost(c)
    BY <1>5, FailMoves DEF Lost, Call
  <1> QED
    BY <1>1, <1>2, <1>3, <1>4, <1>5 DEF Call

\* A call that changes state sends and fails only when nothing of it is under
\* way; otherwise it ends, with T3's result or saying that it does not know.
LEMMA CallIsCareful ==
  ASSUME Shape, NEW c \in Mutating, Guarded(c), Call(c)
  PROVE  /\ refused'[c] = "none"
         /\ Sent(c) = {} \/ Ended(c, {"result", "outcome_unknown"})
  <1> c \in Calls /\ c \in Clients
    BY CallAssumption
  <1>1. CASE Start(c)
    BY <1>1 DEF Start, Guarded, Shape
  <1>2. CASE Opened(c)
    BY <1>2 DEF Opened, Guarded, Shape
  <1>3. CASE Returns(c)
    <2>1. Gives(c, "result") /\ refused' = refused /\ Awaited(c) \in Sent(c)
      BY <1>3 DEF Returns, Sent, Awaited
    <2>2. Ended(c, {"result"})
      BY <2>1, GivesEnds DEF Answers
    <2> QED
      BY <2>1, <2>2 DEF Guarded, Ended
  <1>4. CASE \E kind \in Kinds : Refused(c, kind)
    BY <1>4 DEF Refused, Guarded, Shape, Kinds
  <1>5. CASE Lost(c)
    <2>1. Ended(c, {"outcome_unknown"})
      BY <1>5, UnknownEnds DEF Lost
    <2>2. refused'[c] = "none"
      BY <1>5 DEF Lost, Shape
    <2> QED
      BY <2>1, <2>2 DEF Ended
  <1> QED
    BY <1>1, <1>2, <1>3, <1>4, <1>5 DEF Call

-----------------------------------------------------------------------------
(* The invariant *)

LEMMA MovesShape ==
  ASSUME Shape, NEW c \in Calls, Moves(c), applied' = applied, cancelled' = cancelled,
         refused' = refused \/ refused' = [refused EXCEPT ![c] = "none"]
  PROVE  Shape'
  <1> c \in Clients
    BY CallAssumption
  <1>1. attempt' \in [Calls -> Nat]
    BY DEF Shape, Moves, Counted
  <1>2. pc' \in [Clients -> {"idle", "spawned", "connect", "opened", "wait", "done"}]
    BY DEF Shape, Moves, Ended, Queued, Posted
  <1>3. answer' \in [Calls -> Answers \cup {"none"}]
    BY DEF Shape, Moves, Ended, Queued, Posted
  <1>4. wire' \subseteq [call : Calls, attempt : Nat]
    BY <1>1 DEF Shape, Moves, Ended, Queued, Posted
  <1>5. refused' \in [Calls -> Kinds \cup {"none"}]
    BY DEF Shape
  <1> QED
    BY <1>1, <1>2, <1>3, <1>4, <1>5 DEF Shape

LEMMA OwnStep ==
  ASSUME Shape, NEW c \in Mutating, Guarded(c), Call(c)
  PROVE  Guarded(c)'
  <1> c \in Calls /\ c \in Clients
    BY CallAssumption
  <1>1. /\ Moves(c) /\ applied' = applied /\ refused'[c] = "none"
        /\ Sent(c) = {} \/ Ended(c, {"result", "outcome_unknown"})
    BY CallMoves, CallIsCareful
  <1>2. answer[c] = "none"
    BY DEF Call, Start, Opened, Returns, Refused, Lost, Guarded
  <1>3. \A m \in wire' \cap applied' : m.call # c
    BY <1>1 DEF Moves, Ended, Queued, Posted, Guarded, Sent
  <1>4. CASE Ended(c, {"result", "outcome_unknown"})
    <2>1. Sent(c)' = Sent(c) /\ pc'[c] = "done" /\ answer'[c] \in {"result", "outcome_unknown"}
      BY <1>1, <1>4 DEF Ended, Sent, Shape
    <2> QED
      BY <1>1, <1>3, <2>1 DEF Guarded
  <1>5. CASE Sent(c) = {}
    <2>1. CASE Ended(c, Answers)
      <3>1. Sent(c)' = {} /\ pc'[c] = "done"
        BY <1>1, <1>5, <2>1 DEF Ended, Sent, Shape
      <3> QED
        BY <1>1, <1>3, <3>1 DEF Guarded
    <2>2. CASE Queued(c)
      <3>1. Sent(c)' = {} /\ pc'[c] = "connect" /\ answer' = answer
        BY <1>1, <1>5, <2>2 DEF Queued, Sent, Shape
      <3> QED
        BY <1>1, <1>2, <1>3, <3>1 DEF Guarded
    <2>3. CASE Posted(c)
      <3>1. Sent(c)' = {Awaited(c)'} /\ pc'[c] = "wait" /\ answer' = answer
        BY <1>1, <1>5, <2>3 DEF Posted, Sent, Awaited, Shape
      <3> QED
        BY <1>1, <1>2, <1>3, <3>1 DEF Guarded
    <2> QED
      BY <1>1, <2>1, <2>2, <2>3 DEF Moves
  <1> QED
    BY <1>1, <1>4, <1>5

LEMMA OthersStep ==
  ASSUME Shape, NEW c \in Calls, NEW d \in Mutating \ {c}, Guarded(d), Call(c)
  PROVE  Guarded(d)'
  <1> d \in Calls /\ d \in Clients /\ c \in Clients
    BY CallAssumption
  <1>1. Moves(c) /\ applied' = applied /\ refused'[d] = refused[d]
    BY CallMoves DEF Shape
  <1>2. pc'[d] = pc[d] /\ answer'[d] = answer[d] /\ attempt'[d] = attempt[d]
    BY <1>1 DEF Shape, Moves, Counted, Ended, Queued, Posted
  <1>3. Sent(d)' = Sent(d)
    BY <1>1 DEF Shape, Moves, Ended, Queued, Posted, Sent
  <1>4. \A m \in wire' \cap applied' : m.call # d
    BY <1>1 DEF Moves, Ended, Queued, Posted, Guarded
  <1> QED
    BY <1>1, <1>2, <1>3, <1>4 DEF Guarded, Awaited

LEMMA CallStep == SentInv /\ (\E c \in Calls : Call(c)) => SentInv'
  <1> SUFFICES ASSUME SentInv, NEW c \in Calls, Call(c)
               PROVE  SentInv'
    OBVIOUS
  <1>1. Shape'
    BY CallMoves, MovesShape DEF SentInv
  <1>2. ASSUME NEW d \in Mutating PROVE Guarded(d)'
    BY OwnStep, OthersStep DEF SentInv
  <1> QED
    BY <1>1, <1>2 DEF SentInv

\* Connections come and go; a client that waits for one may be told of it.
LEMMA LinkStep == SentInv /\ Link => SentInv'
  <1> SUFFICES ASSUME SentInv, Link
               PROVE  SentInv'
    OBVIOUS
  <1>1. pc' = pc \/ pc' = [x \in Clients |-> IF pc[x] = "connect" THEN "opened" ELSE pc[x]]
    BY DEF Link, Opening, OpenStarts, OpenCannotStart, OpenSucceeds, OpenFails, Tell,
           Renew, Close, SentInv, Shape
  <1>2. UNCHANGED callVars
    BY DEF Link
  <1>3. Shape'
    BY <1>1, <1>2 DEF SentInv, Shape, callVars
  <1>4. ASSUME NEW c \in Mutating PROVE Guarded(c)'
    <2> c \in Clients
      BY CallAssumption
    <2>1. \/ pc'[c] = pc[c]
          \/ pc[c] = "connect" /\ pc'[c] = "opened"
      BY <1>1
    <2> QED
      BY <1>2, <2>1 DEF SentInv, Guarded, Sent, Awaited, callVars
  <1> QED
    BY <1>3, <1>4 DEF SentInv

LEMMA CancelStep == SentInv /\ (\E c \in Calls : Cancel(c)) => SentInv'
  BY DEF Cancel, linkVars, SentInv, Shape, Guarded, Sent, Awaited

LEMMA ProcessStep == SentInv /\ (\E m \in wire : T3Processes(m)) => SentInv'
  <1> SUFFICES ASSUME SentInv, NEW m \in wire, T3Processes(m)
               PROVE  SentInv'
    OBVIOUS
  <1>1. Shape'
    BY DEF T3Processes, linkVars, SentInv, Shape
  <1>2. \A c : Sent(c)' = Sent(c)
    BY DEF T3Processes, Sent
  <1>3. ASSUME NEW c \in Mutating PROVE \A n \in wire' \cap applied' : n.call # c
    BY DEF T3Processes, SentInv, Guarded
  <1> QED
    BY <1>1, <1>2, <1>3 DEF T3Processes, linkVars, SentInv, Guarded, Awaited

LEMMA RefuseStep ==
  SentInv /\ (\E m \in wire : \E kind \in Kinds : T3Refuses(m, kind)) => SentInv'
  <1> SUFFICES ASSUME SentInv, NEW m \in wire, NEW kind \in Kinds, T3Refuses(m, kind)
               PROVE  SentInv'
    OBVIOUS
  <1>1. m.call \in Calls /\ pc[m.call] = "wait" /\ m \in Sent(m.call)
    BY DEF T3Refuses, Awaits, SentInv, Shape, Sent
  <1>2. Shape'
    BY <1>1 DEF T3Refuses, linkVars, SentInv, Shape
  <1>3. ASSUME NEW c \in Mutating PROVE Guarded(c)'
    <2> c \in Calls
      BY CallAssumption
    <2>1. CASE c = m.call
      <3>1. Sent(c) = {m}
        BY <1>1, <2>1 DEF T3Refuses, Awaits, SentInv, Guarded
      <3>2. m \notin applied
        BY <2>1 DEF SentInv, Guarded
      <3>3. Sent(c)' = {}
        BY <3>1, <3>2 DEF T3Refuses, Sent
      <3>4. pc'[c] = "wait" /\ answer'[c] = "none"
        BY <1>1, <2>1 DEF T3Refuses, linkVars, SentInv, Guarded
      <3>5. \A n \in wire' \cap applied' : n.call # c
        BY <3>3 DEF Sent
      <3> QED
        BY <3>3, <3>4, <3>5 DEF Guarded
    <2>2. CASE c # m.call
      <3>1. Sent(c)' = Sent(c) /\ refused'[c] = refused[c]
        BY <1>1, <2>2 DEF T3Refuses, Sent, SentInv, Shape
      <3>2. \A n \in wire' \cap applied' : n.call # c
        BY DEF T3Refuses, SentInv, Guarded
      <3> QED
        BY <3>1, <3>2 DEF T3Refuses, linkVars, SentInv, Guarded, Awaited
    <2> QED
      BY <2>1, <2>2
  <1> QED
    BY <1>2, <1>3 DEF SentInv

LEMMA SentInit == Init => SentInv
  BY CallAssumption DEF Init, LinkInit, CallsInit, SentInv, Shape, Guarded, Sent

LEMMA NextKeepsSent == SentInv /\ [Next]_vars => SentInv'
  <1>1. SentInv /\ UNCHANGED vars => SentInv'
    BY DEF vars, linkVars, callVars, SentInv, Shape, Guarded, Sent, Awaited
  <1> QED
    BY <1>1, LinkStep, CallStep, CancelStep, ProcessStep, RefuseStep DEF Next, T3

THEOREM SentInvariant == Spec => []SentInv
  BY SentInit, NextKeepsSent, PTL DEF Spec

LEMMA SentIsOnce == SentInv => SentOnce
  <1> SUFFICES ASSUME SentInv, NEW c \in Mutating
               PROVE  Cardinality(Sent(c)) <= 1
    BY DEF SentOnce
  <1>1. CASE Sent(c) = {}
    BY <1>1, FS_EmptySet
  <1>2. CASE Sent(c) # {}
    <2>1. PICK m : m \in Sent(c)
      BY <1>2
    <2>2. Sent(c) = {m}
      BY <2>1 DEF SentInv, Guarded
    <2>3. Cardinality({m}) = 1
      BY FS_Singleton
    <2> QED
      BY <2>2, <2>3
  <1> QED
    BY <1>1, <1>2

LEMMA NothingRan == SentInv => FailureMeansNothingRan
  BY DEF SentInv, Guarded, FailureMeansNothingRan

\* docs/usage.md: at most one message of a call that changes state is ever
\* processed, or still may be: execute tries again only when T3 says that
\* nothing ran, or is not reached at all.
THEOREM SentOnceHolds == Spec => []SentOnce
  BY SentIsOnce, SentInvariant, PTL

\* execute: a call that changes state and ends otherwise than with T3's result
\* or native_outcome_unknown has not run, and never will.
THEOREM NothingRanHolds == Spec => []FailureMeansNothingRan
  BY NothingRan, SentInvariant, PTL

LEMMA CancelledPostNothing ==
  ASSUME NEW c \in Calls, cancelled[c], Call(c)
  PROVE  wire' = wire
  <1>1. ASSUME NEW failure, NEW dropped, NEW cur, Fail(c, failure, dropped, cur)
        PROVE  wire' = wire
    BY <1>1 DEF Fail, Attempt, Ends
  <1>2. ASSUME NEW result, Gives(c, result)
        PROVE  wire' = wire
    BY <1>2 DEF Gives, Ends
  <1>3. CASE Start(c)
    BY <1>3 DEF Start, Attempt, Ends
  <1>4. CASE Opened(c)
    BY <1>1, <1>2, <1>4 DEF Opened, Deliver, ConnectAgain, Waits
  <1>5. CASE Returns(c) \/ Lost(c)
    BY <1>1, <1>2, <1>5 DEF Returns, Lost
  <1>6. CASE \E kind \in Kinds : Refused(c, kind)
    BY <1>1, <1>2, <1>6 DEF Refused, Ends
  <1> QED
    BY <1>3, <1>4, <1>5, <1>6 DEF Call

\* admit_send: once its caller has cancelled, a call sends nothing more.
THEOREM CancelledHolds == Spec => CancelledSendNothing
  <1> DEFINE Silent == \A c \in Calls : cancelled[c] => \A m \in wire' \ wire : m.call # c
  <1>1. SentInv /\ [Next]_vars => [Silent]_vars
    <2> SUFFICES ASSUME SentInv, Next
                 PROVE  Silent
      OBVIOUS
    <2>1. CASE \E d \in Calls : Call(d)
      <3> SUFFICES ASSUME NEW d \in Calls, Call(d), NEW c \in Calls, cancelled[c],
                          NEW m \in wire' \ wire
                   PROVE  m.call # c
        BY <2>1
      <3>1. c # d
        BY CancelledPostNothing
      <3>2. Moves(d)
        BY CallMoves DEF SentInv
      <3> QED
        BY <3>1, <3>2 DEF Moves, Ended, Queued, Posted
    <2>2. CASE wire' \subseteq wire
      BY <2>2
    <2> QED
      BY <2>1, <2>2 DEF Next, Link, callVars, Cancel, T3, T3Processes, T3Refuses
  <1> QED
    BY <1>1, SentInvariant, PTL DEF Spec, CancelledSendNothing

-----------------------------------------------------------------------------
(* Connections *)

\* Connection n has been opened, with that token.
Serves(n, token) == n \in 1..generation /\ conn[n].token = token

ClientsAreServed ==
  \A x \in Clients :
    /\ pc[x] = "wait" => Serves(using[x], tok[x])
    /\ pc[x] = "opened" /\ why[x] = "none" => using[x] \in 1..generation

ConnectingIsAlone ==
  /\ connection <= generation /\ connecting.number <= generation
  /\ connecting # Nobody => connection = 0

LinkInv ==
  LinkTypeOK /\ ConnectingIsAlone /\ ClientsAreServed /\ CurrentIsOpen /\ ClosedKeepsNothing

\* Where client x goes, alone, when cur is the current connection: it takes a
\* connection of its token, or waits for one, and opens none itself.
Goes(x, cur) ==
  /\ connection' \in {0, cur}
  /\ \/ connecting' = connecting
     \/ /\ connecting' \in [token : Tokens \cup {NoToken}, number : {0}]
        /\ connection' = 0
  /\ pc' \in [Clients -> {"idle", "spawned", "connect", "opened", "wait", "done"}]
  /\ tok' \in [Clients -> Tokens \cup {NoToken}]
  /\ using' \in [Clients -> 0..MaxConnections]
  /\ \A y \in Clients \ {x} : pc'[y] = pc[y] /\ tok'[y] = tok[y] /\ using'[y] = using[y]
  /\ pc'[x] # "opened"
  /\ pc'[x] = "wait" => Serves(using'[x], tok'[x])

LEMMA EndsGoes ==
  ASSUME LinkInv, NEW c \in Calls, NEW result, NEW cur, Ends(c, result, cur)
  PROVE  Goes(c, cur)
  <1>1. c \in Clients
    BY CallAssumption
  <1>2. 0 \in 0..MaxConnections
    BY TokenAssumption
  <1> QED
    BY <1>1, <1>2 DEF Ends, Goes, LinkInv, LinkTypeOK

LEMMA SendGoes ==
  ASSUME LinkInv, NEW c \in Calls, NEW token \in Tokens \cup {NoToken}, NEW number, NEW cur,
         Serves(number, token), Send(c, token, number, cur)
  PROVE  Goes(c, cur)
  <1>1. c \in Clients
    BY CallAssumption
  <1>2. number \in 0..MaxConnections
    BY TokenAssumption DEF Serves, LinkInv, LinkTypeOK
  <1> QED
    BY <1>1, <1>2 DEF Send, Goes, LinkInv, LinkTypeOK

LEMMA WaitsGoes ==
  ASSUME LinkInv, NEW c \in Calls, NEW token \in Tokens \cup {NoToken}, NEW cur, Waits(c, token)
  PROVE  Goes(c, cur)
  <1>1. c \in Clients
    BY CallAssumption
  <1>2. 0 \in 0..MaxConnections
    BY TokenAssumption
  <1> QED
    BY <1>1, <1>2 DEF Waits, Park, Goes, LinkInv, LinkTypeOK

\* A usable connection serves.
LEMMA UsableServes ==
  ASSUME LinkInv, NEW cur \in {0, connection}, NEW token, Usable(cur, token)
  PROVE  Serves(cur, token)
  BY DEF Usable, Serves, LinkInv, LinkTypeOK, ConnectingIsAlone

LEMMA AttemptGoes ==
  ASSUME LinkInv, NEW c \in Calls, NEW k, NEW cur \in {0, connection}, Attempt(c, k, cur)
  PROVE  Goes(c, cur)
  <1>1. credential \in Tokens \cup {NoToken}
    BY DEF LinkInv, LinkTypeOK
  <1> QED
    BY <1>1, EndsGoes, SendGoes, WaitsGoes, UsableServes DEF Attempt

LEMMA FailGoes ==
  ASSUME LinkInv, NEW c \in Calls, NEW failure, NEW dropped, NEW cur \in {0, connection},
         Fail(c, failure, dropped, cur)
  PROVE  Goes(c, cur)
  BY AttemptGoes, EndsGoes DEF Fail

LEMMA DeliverGoes ==
  ASSUME LinkInv, NEW c \in Calls, NEW number, Serves(number, tok[c]), Deliver(c, number)
  PROVE  Goes(c, connection)
  <1>1. tok[c] \in Tokens \cup {NoToken}
    BY CallAssumption DEF LinkInv, LinkTypeOK
  <1> QED
    BY <1>1, FailGoes, EndsGoes, SendGoes DEF Deliver, Gives

LEMMA OpenedGoes ==
  ASSUME LinkInv, NEW c \in Calls, Opened(c)
  PROVE  Goes(c, connection)
  <1>1. c \in Clients /\ tok[c] \in Tokens \cup {NoToken}
    BY CallAssumption DEF LinkInv, LinkTypeOK
  <1>2. CASE \/ \E result : Gives(c, result)
             \/ Fail(c, "unprocessed", FALSE, connection)
             \/ Waits(c, tok[c])
    BY <1>1, <1>2, EndsGoes, FailGoes, WaitsGoes DEF Gives
  <1>3. CASE why[c] = "none" /\ conn[using[c]].token = tok[c] /\ Deliver(c, using[c])
    <2>1. Serves(using[c], tok[c])
      BY <1>1, <1>3 DEF Serves, LinkInv, ClientsAreServed, Opened
    <2> QED
      BY <1>3, <2>1, DeliverGoes
  <1>4. CASE Usable(connection, tok[c]) /\ Deliver(c, connection)
    BY <1>4, UsableServes, DeliverGoes
  <1> QED
    BY <1>2, <1>3, <1>4 DEF Opened, ConnectAgain

\* What the connections have of a client's step: one may be closed under it,
\* which is not current then.
Drops(cur) ==
  \/ conn' = conn
  \/ \E n \in 1..generation : conn' = [conn EXCEPT ![n].up = FALSE] /\ cur # n

LinkMoves(x) ==
  /\ UNCHANGED <<credVars, closed, generation>>
  /\ dirty' = dirty /\ backoff' \in [token : Tokens \cup {NoToken}, rev : Nat]
  /\ \E cur \in {0, connection} : Goes(x, cur) /\ Drops(cur)
  /\ why' \in [Clients -> Troubles \cup {"none"}]
  /\ \A y \in Clients \ {x} : why'[y] = why[y]

LEMMA MovesKeepLink ==
  ASSUME LinkInv, NEW x \in Clients, LinkMoves(x)
  PROVE  LinkInv'
  <1>1. PICK cur \in {0, connection} : Goes(x, cur) /\ Drops(cur)
    BY DEF LinkMoves
  <1>2. /\ connection \in 0..MaxConnections /\ generation \in 0..MaxConnections
        /\ conn \in [Numbers -> [token : Tokens \cup {NoToken}, up : BOOLEAN]]
        /\ connecting \in [token : Tokens \cup {NoToken}, number : 0..MaxConnections]
        /\ MaxConnections \in Nat
    BY TokenAssumption DEF LinkInv, LinkTypeOK
  <1>3. 1..generation \subseteq Numbers
    BY <1>2 DEF Numbers
  <1>4. /\ conn' \in [Numbers -> [token : Tokens \cup {NoToken}, up : BOOLEAN]]
        /\ \A n \in Numbers : conn'[n].token = conn[n].token /\ (conn'[n].up => conn[n].up)
    <2>1. CASE conn' = conn
      BY <1>2, <2>1
    <2>2. CASE \E n \in 1..generation : conn' = [conn EXCEPT ![n].up = FALSE]
      <3> PICK n \in Numbers : conn' = [conn EXCEPT ![n].up = FALSE]
        BY <1>3, <2>2
      <3>1. conn' = [conn EXCEPT ![n] = [conn[n] EXCEPT !.up = FALSE]]
        OBVIOUS
      <3>2. [conn[n] EXCEPT !.up = FALSE] \in [token : Tokens \cup {NoToken}, up : BOOLEAN]
        BY <1>2
      <3> QED
        BY <1>2, <3>1, <3>2
    <2> QED
      BY <1>1, <2>1, <2>2 DEF Drops
  <1>5. connection' \in {0, connection} /\ generation' = generation /\ closed' = closed
    BY <1>1 DEF Goes, LinkMoves
  <1>6. connecting' \in [token : Tokens \cup {NoToken}, number : 0..MaxConnections]
    BY <1>1, <1>2 DEF Goes
  <1>7. LinkTypeOK'
    BY <1>1, <1>2, <1>4, <1>5, <1>6 DEF LinkInv, LinkTypeOK, LinkMoves, Goes, credVars
  <1>8. ConnectingIsAlone'
    BY <1>1, <1>2, <1>5 DEF LinkInv, ConnectingIsAlone, Goes
  <1>9. ClientsAreServed'
    <2> SUFFICES ASSUME NEW y \in Clients
                 PROVE  /\ pc'[y] = "wait" => /\ using'[y] \in 1..generation'
                                              /\ conn'[using'[y]].token = tok'[y]
                        /\ pc'[y] = "opened" /\ why'[y] = "none" => using'[y] \in 1..generation'
      BY DEF ClientsAreServed, Serves
    <2>1. pc'[y] = "wait" => Serves(using'[y], tok'[y])
      <3>1. y = x \/ (pc'[y] = pc[y] /\ tok'[y] = tok[y] /\ using'[y] = using[y])
        BY <1>1 DEF Goes
      <3> QED
        BY <1>1, <3>1 DEF Goes, LinkInv, ClientsAreServed
    <2>2. pc'[y] = "opened" => pc[y] = "opened" /\ why'[y] = why[y] /\ using'[y] = using[y]
      BY <1>1 DEF Goes, LinkMoves
    <2> QED
      BY <1>3, <1>4, <1>5, <2>1, <2>2 DEF Serves, LinkInv, ClientsAreServed
  <1>10. CurrentIsOpen'
    <2> SUFFICES ASSUME connection' # 0 PROVE conn'[connection'].up
      BY DEF CurrentIsOpen
    <2>1. connection' = cur /\ cur = connection /\ conn[connection].up
      BY <1>1 DEF Goes, LinkInv, CurrentIsOpen
    <2>2. connection \in Numbers
      BY <1>2, <2>1 DEF Numbers
    <2>3. CASE conn' = conn
      BY <2>1, <2>3
    <2>4. CASE \E n \in 1..generation : conn' = [conn EXCEPT ![n].up = FALSE] /\ cur # n
      <3> PICK n \in Numbers : conn' = [conn EXCEPT ![n].up = FALSE] /\ cur # n
        BY <1>3, <2>4
      <3> QED
        BY <1>2, <2>1, <2>2
    <2> QED
      BY <1>1, <2>3, <2>4 DEF Drops
  <1>11. ClosedKeepsNothing'
    BY <1>4, <1>5 DEF LinkInv, ClosedKeepsNothing
  <1> QED
    BY <1>7, <1>8, <1>9, <1>10, <1>11 DEF LinkInv

LEMMA CallLinks ==
  ASSUME LinkInv, NEW c \in Calls, Call(c)
  PROVE  LinkMoves(c)
  <1>1. c \in Clients
    BY CallAssumption
  <1>2. /\ UNCHANGED <<credVars, closed, generation, dirty, backoff>>
        /\ backoff \in [token : Tokens \cup {NoToken}, rev : Nat]
    BY DEF Call, LinkInv, LinkTypeOK
  <1>3. /\ why' \in [Clients -> Troubles \cup {"none"}]
        /\ \A y \in Clients \ {c} : why'[y] = why[y]
    BY <1>1 DEF Call, Opened, LinkInv, LinkTypeOK
  <1>4. \E cur \in {0, connection} : Goes(c, cur) /\ Drops(cur)
    <2>1. CASE Start(c) \/ Opened(c) \/ Returns(c) \/ Lost(c)
      <3>1. Goes(c, connection)
        BY <2>1, AttemptGoes, OpenedGoes, EndsGoes, FailGoes DEF Start, Returns, Lost, Gives
      <3>2. conn' = conn
        BY <2>1 DEF Start, Opened, Returns, Lost
      <3> QED
        BY <3>1, <3>2 DEF Drops
    <2>2. ASSUME NEW kind \in Kinds, Refused(c, kind)
          PROVE  \E cur \in {0, connection} : Goes(c, cur) /\ Drops(cur)
      <3>1. using[c] \in 1..generation
        BY <1>1, <2>2 DEF Refused, LinkInv, ClientsAreServed, Serves
      <3> DEFINE dropped == kind \in {"unauthorized", "forgotten"}
                 cur     == IF dropped THEN Without(using[c]) ELSE connection
      <3>2. cur \in {0, connection} /\ (dropped => cur # using[c])
        BY <3>1 DEF Without
      <3>3. Drops(cur)
        BY <2>2, <3>1, <3>2 DEF Refused, Drops
      <3>4. CASE Fail(c, "unprocessed", dropped, cur)
        BY <3>2, <3>3, <3>4, FailGoes
      <3>5. ASSUME NEW result, Ends(c, result, cur) PROVE Goes(c, cur)
        BY <3>5, EndsGoes
      <3> QED
        BY <2>2, <3>2, <3>3, <3>4, <3>5 DEF Refused, Gives
    <2> QED
      BY <2>1, <2>2 DEF Call
  <1> QED
    BY <1>2, <1>3, <1>4 DEF LinkMoves

\* A connection is opened, or not; those who wait are told.
LEMMA TellServes ==
  ASSUME LinkInv, NEW number \in 0..generation, NEW trouble \in Troubles \cup {"none"},
         trouble = "none" => number # 0, generation' = generation,
         \A n \in Numbers : conn'[n].token = conn[n].token, Tell(number, trouble)
  PROVE  /\ ClientsAreServed'
         /\ connecting' = Nobody
         /\ pc' \in [Clients -> {"idle", "spawned", "connect", "opened", "wait", "done"}]
         /\ tok' \in [Clients -> Tokens \cup {NoToken}]
         /\ using' \in [Clients -> 0..MaxConnections]
         /\ why' \in [Clients -> Troubles \cup {"none"}]
  <1>1. generation \in 0..MaxConnections /\ MaxConnections \in Nat
    BY TokenAssumption DEF LinkInv, LinkTypeOK
  <1>2. 1..generation \subseteq Numbers /\ number \in 0..MaxConnections
    BY <1>1 DEF Numbers
  <1>3. \A y \in Clients :
          /\ tok'[y] = tok[y]
          /\ IF pc[y] = "connect"
             THEN pc'[y] = "opened" /\ using'[y] = number /\ why'[y] = trouble
             ELSE pc'[y] = pc[y] /\ using'[y] = using[y] /\ why'[y] = why[y]
    BY DEF Tell
  <1>4. ClientsAreServed'
    BY <1>1, <1>2, <1>3 DEF LinkInv, ClientsAreServed, Serves
  <1> QED
    BY <1>2, <1>4 DEF Tell, LinkInv, LinkTypeOK

LEMMA OpeningKeepsLink == LinkInv /\ Opening => LinkInv'
  <1> SUFFICES ASSUME LinkInv, Opening PROVE LinkInv'
    OBVIOUS
  <1> USE DEF Opening, credVars, userVars
  <1>1. /\ connection \in 0..MaxConnections /\ generation \in 0..MaxConnections
        /\ conn \in [Numbers -> [token : Tokens \cup {NoToken}, up : BOOLEAN]]
        /\ connecting \in [token : Tokens \cup {NoToken}, number : 0..MaxConnections]
        /\ MaxConnections \in Nat /\ dirty \in Nat
        /\ connection <= generation /\ connecting.number <= generation
    BY TokenAssumption DEF LinkInv, LinkTypeOK, ConnectingIsAlone
  <1>2. 1..generation \subseteq Numbers
    BY <1>1 DEF Numbers
  <1>3. NoBackoff \in [token : Tokens \cup {NoToken}, rev : Nat]
        /\ Nobody \in [token : Tokens \cup {NoToken}, number : 0..MaxConnections]
        /\ Nobody.number = 0
    BY <1>1 DEF NoBackoff, Nobody
  <1>4. CASE OpenStarts
    <2> DEFINE n == generation + 1
    <2>1. /\ n \in Numbers /\ n \in 1..MaxConnections /\ generation' = n
          /\ connecting' = [connecting EXCEPT !.number = n]
          /\ conn' = [conn EXCEPT ![n] = [token |-> connecting.token, up |-> TRUE]]
          /\ UNCHANGED <<connection, pc, userVars, closed>> /\ ~closed
      BY <1>1, <1>4 DEF OpenStarts, Numbers
    <2>2. connection = 0
      BY <1>4 DEF OpenStarts, LinkInv, ConnectingIsAlone
    <2>3. LinkTypeOK'
      <3>1. conn' \in [Numbers -> [token : Tokens \cup {NoToken}, up : BOOLEAN]]
        BY <1>1, <2>1
      <3>2. connecting' \in [token : Tokens \cup {NoToken}, number : 0..MaxConnections]
        BY <1>1, <2>1
      <3>3. dirty' \in Nat /\ backoff' \in [token : Tokens \cup {NoToken}, rev : Nat]
        BY <1>1, <1>3, <1>4 DEF OpenStarts
      <3> QED
        BY <1>1, <2>1, <3>1, <3>2, <3>3 DEF LinkInv, LinkTypeOK
    <2>4. ConnectingIsAlone'
      BY <1>1, <2>1, <2>2 DEF ConnectingIsAlone
    <2>5. ClientsAreServed'
      <3>1. \A m \in 1..generation : m \in 1..generation' /\ conn'[m].token = conn[m].token
        BY <1>1, <1>2, <2>1
      <3> QED
        BY <2>1, <3>1 DEF LinkInv, ClientsAreServed, Serves
    <2>6. CurrentIsOpen' /\ ClosedKeepsNothing'
      BY <2>1, <2>2 DEF CurrentIsOpen, ClosedKeepsNothing
    <2> QED
      BY <2>3, <2>4, <2>5, <2>6 DEF LinkInv
  <1>5. CASE OpenCannotStart
    <2>1. UNCHANGED <<connection, conn, generation, dirty, backoff, closed>> /\ Tell(0, "unprocessed")
      BY <1>5 DEF OpenCannotStart
    <2>2. /\ ClientsAreServed' /\ connecting' = Nobody
          /\ pc' \in [Clients -> {"idle", "spawned", "connect", "opened", "wait", "done"}]
          /\ tok' \in [Clients -> Tokens \cup {NoToken}]
          /\ using' \in [Clients -> 0..MaxConnections]
          /\ why' \in [Clients -> Troubles \cup {"none"}]
      BY <1>1, <2>1, TellServes DEF Troubles
    <2>3. LinkTypeOK'
      BY <1>3, <2>1, <2>2 DEF LinkInv, LinkTypeOK
    <2> QED
      BY <1>1, <1>3, <2>1, <2>2, <2>3 DEF LinkInv, ConnectingIsAlone, CurrentIsOpen, ClosedKeepsNothing
  <1>6. CASE OpenSucceeds
    <2>1. /\ UNCHANGED <<conn, generation, dirty, backoff, closed>>
          /\ Tell(connecting.number, "none") /\ connecting.number # 0
          /\ connection' = IF closed THEN connection ELSE connecting.number
          /\ conn[connecting.number].up
      BY <1>6 DEF OpenSucceeds
    <2>2. /\ ClientsAreServed' /\ connecting' = Nobody
          /\ pc' \in [Clients -> {"idle", "spawned", "connect", "opened", "wait", "done"}]
          /\ tok' \in [Clients -> Tokens \cup {NoToken}]
          /\ using' \in [Clients -> 0..MaxConnections]
          /\ why' \in [Clients -> Troubles \cup {"none"}]
      BY <1>1, <2>1, TellServes
    <2>3. LinkTypeOK'
      BY <1>1, <1>3, <2>1, <2>2 DEF LinkInv, LinkTypeOK
    <2>4. connecting.number \in Numbers
      BY <1>1, <2>1 DEF Numbers
    <2> QED
      BY <1>1, <1>3, <2>1, <2>2, <2>3, <2>4
      DEF LinkInv, ConnectingIsAlone, CurrentIsOpen, ClosedKeepsNothing
  <1>7. ASSUME NEW trouble \in Troubles, OpenFails(trouble) PROVE LinkInv'
    <2> DEFINE n == connecting.number
    <2>1. /\ UNCHANGED <<connection, generation, dirty, backoff, closed>>
          /\ Tell(0, trouble) /\ n # 0 /\ n \in Numbers
          /\ conn' = [conn EXCEPT ![n].up = FALSE]
      BY <1>1, <1>7 DEF OpenFails, Numbers
    <2>2. /\ conn' \in [Numbers -> [token : Tokens \cup {NoToken}, up : BOOLEAN]]
          /\ \A m \in Numbers : conn'[m].token = conn[m].token /\ (conn'[m].up => conn[m].up)
      <3>1. conn' = [conn EXCEPT ![n] = [conn[n] EXCEPT !.up = FALSE]]
        BY <2>1
      <3>2. [conn[n] EXCEPT !.up = FALSE] \in [token : Tokens \cup {NoToken}, up : BOOLEAN]
        BY <1>1, <2>1
      <3> QED
        BY <1>1, <2>1, <3>1, <3>2
    <2>3. connection = 0
      BY <1>3, <2>1 DEF LinkInv, ConnectingIsAlone
    <2>4. /\ ClientsAreServed' /\ connecting' = Nobody
          /\ pc' \in [Clients -> {"idle", "spawned", "connect", "opened", "wait", "done"}]
          /\ tok' \in [Clients -> Tokens \cup {NoToken}]
          /\ using' \in [Clients -> 0..MaxConnections]
          /\ why' \in [Clients -> Troubles \cup {"none"}]
      BY <1>1, <2>1, <2>2, TellServes DEF Troubles
    <2>5. LinkTypeOK'
      BY <1>3, <2>1, <2>2, <2>4 DEF LinkInv, LinkTypeOK
    <2> QED
      BY <1>1, <1>3, <2>1, <2>2, <2>3, <2>4, <2>5
      DEF LinkInv, ConnectingIsAlone, CurrentIsOpen, ClosedKeepsNothing
  <1> QED
    BY <1>4, <1>5, <1>6, <1>7

LEMMA LinkKeepsLink == LinkInv /\ Link => LinkInv'
  <1> SUFFICES ASSUME LinkInv, Renew \/ Close PROVE LinkInv'
    BY OpeningKeepsLink DEF Link
  <1>1. MaxConnections \in Nat /\ MaxRenewals \in Nat
    BY TokenAssumption
  <1>2. CASE Renew
    <2> USE <1>2 DEF Renew, userVars
    <2>1. LinkTypeOK'
      BY <1>1 DEF LinkInv, LinkTypeOK
    <2> QED
      BY <2>1 DEF LinkInv, ConnectingIsAlone, ClientsAreServed, Serves, CurrentIsOpen,
                  ClosedKeepsNothing
  <1>3. CASE Close
    <2>1. /\ UNCHANGED <<credVars, generation, connecting, dirty, backoff, pc, userVars>>
          /\ closed' = TRUE /\ connection' = 0
          /\ conn' = [n \in Numbers |-> [conn[n] EXCEPT !.up = FALSE]]
      BY <1>3 DEF Close
    <2>2. generation \in 0..MaxConnections
          /\ conn \in [Numbers -> [token : Tokens \cup {NoToken}, up : BOOLEAN]]
      BY DEF LinkInv, LinkTypeOK
    <2>3. /\ conn' \in [Numbers -> [token : Tokens \cup {NoToken}, up : BOOLEAN]]
          /\ \A n \in Numbers : conn'[n].token = conn[n].token /\ ~conn'[n].up
      <3>1. \A n \in Numbers :
              [conn[n] EXCEPT !.up = FALSE] \in [token : Tokens \cup {NoToken}, up : BOOLEAN]
        BY <2>2
      <3> QED
        BY <2>1, <2>2, <3>1
    <2>4. LinkTypeOK'
      BY <1>1, <2>1, <2>3 DEF LinkInv, LinkTypeOK, credVars, userVars
    <2>5. ClientsAreServed'
      <3>1. 1..generation \subseteq Numbers
        BY <1>1, <2>2 DEF Numbers
      <3> QED
        BY <2>1, <2>3, <3>1 DEF LinkInv, ClientsAreServed, Serves, userVars
    <2> QED
      BY <2>1, <2>2, <2>3, <2>4, <2>5
      DEF LinkInv, ConnectingIsAlone, CurrentIsOpen, ClosedKeepsNothing
  <1> QED
    BY <1>2, <1>3

LEMMA RestKeepsLink == LinkInv /\ UNCHANGED <<credVars, linkVars>> => LinkInv'
  BY DEF credVars, linkVars, userVars, LinkInv, LinkTypeOK, ConnectingIsAlone, ClientsAreServed,
         Serves, CurrentIsOpen, ClosedKeepsNothing

LEMMA NextKeepsLink == LinkInv /\ [Next]_vars => LinkInv'
  <1>1. ASSUME LinkInv, NEW c \in Calls, Call(c) PROVE LinkInv'
    BY <1>1, CallAssumption, CallLinks, MovesKeepLink
  <1>2. ASSUME T3 \/ (\E c \in Calls : Cancel(c)) \/ UNCHANGED vars
        PROVE  UNCHANGED <<credVars, linkVars>>
    BY <1>2 DEF T3, T3Processes, T3Refuses, Cancel, vars
  <1> QED
    BY <1>1, <1>2, LinkKeepsLink, RestKeepsLink DEF Next

LEMMA LinkInitHolds == LinkInit => LinkInv
  <1> SUFFICES ASSUME LinkInit PROVE LinkInv
    OBVIOUS
  <1> USE TokenAssumption DEF LinkInit
  <1>1. LinkTypeOK
    <2>1. 0 \in 0..MaxConnections /\ 0 \in 0..MaxRenewals /\ 0 \in Nat
      OBVIOUS
    <2>2. /\ Nobody \in [token : Tokens \cup {NoToken}, number : 0..MaxConnections]
          /\ NoBackoff \in [token : Tokens \cup {NoToken}, rev : Nat]
      BY <2>1 DEF Nobody, NoBackoff
    <2>3. conn \in [Numbers -> [token : Tokens \cup {NoToken}, up : BOOLEAN]]
      OBVIOUS
    <2> QED
      BY <2>1, <2>2, <2>3 DEF LinkTypeOK
  <1>2. ConnectingIsAlone /\ ClientsAreServed /\ CurrentIsOpen /\ ClosedKeepsNothing
    BY DEF ConnectingIsAlone, ClientsAreServed, CurrentIsOpen, ClosedKeepsNothing, Nobody
  <1> QED
    BY <1>1, <1>2 DEF LinkInv

LEMMA LinkIsSound == LinkInv => ConnectionsAreSound
  BY CallAssumption DEF LinkInv, ConnectionsAreSound, CallsUseTheirToken, ClientsAreServed, Serves

\* connect, drop_if_invalid, close: whatever fails, is renewed or is closed
\* while calls connect, each uses a connection of its own token, the next one
\* gets one that is open, and a closed client keeps none.
THEOREM ConnectionsHold == Spec => []ConnectionsAreSound
  <1>1. Init => LinkInv
    BY LinkInitHolds DEF Init
  <1> QED
    BY <1>1, NextKeepsLink, LinkIsSound, PTL DEF Spec

-----------------------------------------------------------------------------
(* The task that reads the catalogue is a client like the calls. *)

LEMMA RefresherIsClient == Refresher \in Clients /\ Refresher \notin Calls
  BY CatalogAssumption

LEMMA ReadFailsGoes ==
  ASSUME LinkInv, NEW number, NEW revision \in Nat, ReadFails(number, revision),
         NEW cur \in {0, connection}, connection' = cur
  PROVE  /\ Goes(Refresher, cur)
         /\ backoff' \in [token : Tokens \cup {NoToken}, rev : Nat]
  <1>1. 0 \in 0..MaxConnections
    BY TokenAssumption
  <1>2. Goes(Refresher, cur)
    BY <1>1, RefresherIsClient DEF ReadFails, EndRead, Goes, LinkInv, LinkTypeOK
  <1>3. [token |-> tok[Refresher], rev |-> revision] \in [token : Tokens \cup {NoToken}, rev : Nat]
    BY RefresherIsClient DEF LinkInv, LinkTypeOK
  <1> QED
    BY <1>2, <1>3 DEF ReadFails, LinkInv, LinkTypeOK

LEMMA ListGoes ==
  ASSUME LinkInv, NEW number, Serves(number, tok[Refresher]), List(number)
  PROVE  /\ Goes(Refresher, connection) /\ conn' = conn
         /\ backoff' \in [token : Tokens \cup {NoToken}, rev : Nat]
  <1>1. dirty \in Nat
    BY DEF LinkInv, LinkTypeOK
  <1>2. CASE ReadFails(number, dirty) /\ UNCHANGED <<connection, conn>>
    BY <1>1, <1>2, ReadFailsGoes
  <1>3. CASE ~(ReadFails(number, dirty) /\ UNCHANGED <<connection, conn>>)
    <2>1. number \in 0..MaxConnections
      BY TokenAssumption DEF Serves, LinkInv, LinkTypeOK
    <2> QED
      BY <1>3, <2>1, RefresherIsClient DEF List, Goes, LinkInv, LinkTypeOK
  <1> QED
    BY <1>2, <1>3

LEMMA ConnectGoes ==
  ASSUME LinkInv, Connect
  PROVE  /\ Goes(Refresher, connection) /\ conn' = conn
         /\ backoff' \in [token : Tokens \cup {NoToken}, rev : Nat]
  <1>1. dirty \in Nat /\ tok[Refresher] \in Tokens \cup {NoToken}
    BY RefresherIsClient DEF LinkInv, LinkTypeOK
  <1>2. CASE Unconnected
    BY <1>1, <1>2, ReadFailsGoes DEF Unconnected
  <1>3. CASE Usable(connection, tok[Refresher]) /\ List(connection)
    BY <1>3, UsableServes, ListGoes
  <1>4. CASE /\ Park(Refresher, tok[Refresher])
             /\ using' = [using EXCEPT ![Refresher] = 0]
             /\ UNCHANGED <<conn, tok, backoff, catalog, rev, seen, at>>
    <2>1. 0 \in 0..MaxConnections
      BY TokenAssumption
    <2> QED
      BY <1>1, <1>4, <2>1, RefresherIsClient DEF Park, Goes, LinkInv, LinkTypeOK
  <1> QED
    BY <1>2, <1>3, <1>4 DEF Connect

LEMMA ReadLinks ==
  ASSUME LinkInv, rev \in Nat, Read
  PROVE  LinkMoves(Refresher)
  <1>1. /\ UNCHANGED <<credVars, closed, generation, dirty>>
        /\ dirty \in Nat /\ tok[Refresher] \in Tokens \cup {NoToken}
    BY RefresherIsClient DEF Read, LinkInv, LinkTypeOK
  <1>2. /\ why' \in [Clients -> Troubles \cup {"none"}]
        /\ \A y \in Clients \ {Refresher} : why'[y] = why[y]
    BY RefresherIsClient DEF Read, ReadStarts, ReadOpened, Listed, ListFails, LinkInv, LinkTypeOK
  <1>3. CASE ReadStarts
    BY <1>1, <1>2, <1>3, ConnectGoes DEF ReadStarts, LinkMoves, Drops
  <1>4. CASE ReadOpened
    <2>1. CASE Unconnected
      BY <1>1, <1>2, <2>1, ReadFailsGoes DEF Unconnected, LinkMoves, Drops
    <2>2. CASE why[Refresher] = "none" /\ conn[using[Refresher]].token = tok[Refresher]
               /\ List(using[Refresher])
      <3>1. Serves(using[Refresher], tok[Refresher])
        BY <1>4, <2>2, RefresherIsClient DEF ReadOpened, Serves, LinkInv, ClientsAreServed
      <3> QED
        BY <1>1, <1>2, <2>2, <3>1, ListGoes DEF LinkMoves, Drops
    <2>3. CASE Connect
      BY <1>1, <1>2, <2>3, ConnectGoes DEF LinkMoves, Drops
    <2> QED
      BY <1>4, <2>1, <2>2, <2>3 DEF ReadOpened
  <1>5. CASE Listed
    <2>1. backoff' \in [token : Tokens \cup {NoToken}, rev : Nat]
      BY <1>5, TokenAssumption DEF Listed, NoBackoff, LinkInv, LinkTypeOK
    <2>2. Goes(Refresher, connection)
      <3>1. 0 \in 0..MaxConnections
        BY TokenAssumption
      <3> QED
        BY <1>5, <3>1, RefresherIsClient DEF Listed, EndRead, Goes, LinkInv, LinkTypeOK
    <2> QED
      BY <1>1, <1>2, <1>5, <2>1, <2>2 DEF Listed, LinkMoves, Drops
  <1>6. ASSUME NEW dropped \in BOOLEAN, ListFails(dropped) PROVE LinkMoves(Refresher)
    <2> DEFINE n   == using[Refresher]
               cur == IF dropped THEN Without(n) ELSE connection
    <2>1. n \in 1..generation
      BY <1>6, RefresherIsClient DEF ListFails, LinkInv, ClientsAreServed, Serves
    <2>2. cur \in {0, connection} /\ (dropped => cur # n)
      BY <2>1 DEF Without
    <2>3. Drops(cur)
      BY <1>6, <2>1, <2>2 DEF ListFails, Drops
    <2>4. Goes(Refresher, cur) /\ backoff' \in [token : Tokens \cup {NoToken}, rev : Nat]
      BY <1>6, <2>2, ReadFailsGoes DEF ListFails
    <2> QED
      BY <1>1, <1>2, <2>2, <2>3, <2>4 DEF LinkMoves
  <1> QED
    BY <1>3, <1>4, <1>5, <1>6 DEF Read

LEMMA LooksKeepLink == LinkInv /\ (\E r \in Readers : Reader(r)) => LinkInv'
  <1> SUFFICES ASSUME LinkInv, NEW r \in Readers, Look(r) PROVE LinkInv'
    BY DEF Reader, Ask, Resume
  <1>1. UNCHANGED <<credVars, closed, generation, connection, connecting, conn, dirty, backoff,
                    using, why>>
    BY DEF Look
  <1>2. CASE UNCHANGED <<pc, tok>>
    BY <1>1, <1>2, RestKeepsLink DEF linkVars, userVars
  <1>3. CASE pc[Refresher] = "idle" /\ Refresh
    <2>1. Goes(Refresher, connection)
      <3>1. credential \in Tokens \cup {NoToken}
        BY DEF LinkInv, LinkTypeOK
      <3> QED
        BY <1>1, <1>3, <3>1, RefresherIsClient DEF Refresh, Goes, LinkInv, LinkTypeOK
    <2>2. LinkMoves(Refresher)
      BY <1>1, <2>1 DEF LinkMoves, Drops, LinkInv, LinkTypeOK
    <2> QED
      BY <2>2, RefresherIsClient, MovesKeepLink
  <1> QED
    BY <1>2, <1>3 DEF Look, Refresh

LEMMA TellsKeepLink ==
  LinkInv /\ (BackoffEnds \/ \E n \in Numbers, v \in 1..MaxChanges : Notice(n, v)) => LinkInv'
  <1> SUFFICES ASSUME LinkInv, BackoffEnds \/ \E n, v : Notice(n, v) PROVE LinkInv'
    OBVIOUS
  <1>1. /\ UNCHANGED <<credVars, closed, generation, connection, connecting, conn, pc, userVars>>
        /\ dirty' \in {dirty, dirty + 1} /\ backoff' \in {backoff, NoBackoff}
    BY DEF BackoffEnds, Notice
  <1>2. NoBackoff \in [token : Tokens \cup {NoToken}, rev : Nat]
    BY DEF NoBackoff
  <1>3. dirty' \in Nat /\ backoff' \in [token : Tokens \cup {NoToken}, rev : Nat]
    BY <1>1, <1>2 DEF LinkInv, LinkTypeOK
  <1>4. LinkTypeOK'
    BY <1>1, <1>3 DEF LinkInv, LinkTypeOK, credVars, userVars
  <1> QED
    BY <1>1, <1>4 DEF LinkInv, ConnectingIsAlone, ClientsAreServed, Serves, CurrentIsOpen,
                      ClosedKeepsNothing, userVars

LEMMA ClientKeepsLink == LinkInv /\ rev \in Nat /\ [ClientNext]_allVars => LinkInv'
  <1>1. ASSUME LinkInv, rev \in Nat, Read PROVE LinkInv'
    BY <1>1, ReadLinks, RefresherIsClient, MovesKeepLink
  <1>2. ASSUME CatalogExpires \/ T3Changes \/ T3Lists \/ UNCHANGED allVars
        PROVE  UNCHANGED vars
    BY <1>2 DEF CatalogExpires, T3Changes, T3Lists, allVars
  <1> QED
    BY <1>1, <1>2, NextKeepsLink, LooksKeepLink, TellsKeepLink DEF ClientNext

-----------------------------------------------------------------------------
(* The catalogue *)

\* What was read for a revision, if that is still the one that counts, is as
\* new as what the client was told.
Counts(revision, tools) == revision <= dirty /\ (revision = dirty => tools >= noticed)

CatalogCounts == catalog.number # 0 => Counts(catalog.rev, catalog.version)

ReadingCounts ==
  pc[Refresher] = "wait" => rev <= dirty /\ (seen # Unseen => Counts(rev, seen))

\* The client is told of what there was, and asks for what it was told.
NewsAreTrue ==
  /\ \A note \in notes : note[2] <= version
  /\ \A r \in Readers : told[r] <= noticed

Current == CatalogTypeOK /\ CatalogCounts /\ ReadingCounts /\ NewsAreTrue /\ CatalogIsCurrent

LEMMA CatalogInitHolds == ClientInit => LinkInv /\ Current
  <1> SUFFICES ASSUME LinkInit, CatalogInit PROVE Current
    BY LinkInitHolds DEF ClientInit, Init
  <1>1. pc[Refresher] = "idle" /\ dirty = 0 /\ backoff = NoBackoff
    BY RefresherIsClient DEF LinkInit
  <1>2. CatalogTypeOK
    <2>1. 0 \in 0..MaxConnections /\ 0 \in 0..MaxChanges /\ -1 \in -1..MaxChanges
      BY TokenAssumption, CatalogAssumption
    <2>2. NoCatalog \in [token : Tokens \cup {NoToken}, number : 0..MaxConnections,
                         rev : Nat, version : 0..MaxChanges, fresh : BOOLEAN]
      BY <2>1 DEF NoCatalog
    <2> QED
      BY <2>1, <2>2 DEF CatalogTypeOK, CatalogInit, Unseen
  <1> QED
    BY <1>1, <1>2 DEF CatalogInit, Current, CatalogCounts, ReadingCounts, NewsAreTrue,
      CatalogIsCurrent, SnapshotsAreCurrent, FailuresAreCurrent, NoCatalog

\* A step that leaves the catalogue alone: the revision goes on, and then what
\* failed is forgotten, or it stays.
LEMMA ElsewhereKeepsCurrent ==
  ASSUME LinkInv, Current, UNCHANGED catalogVars,
         \/ dirty' = dirty /\ backoff' \in {backoff, NoBackoff}
         \/ dirty' = dirty + 1 /\ backoff' = NoBackoff,
         pc'[Refresher] = "wait" => pc[Refresher] = "wait"
  PROVE  Current'
  <1> USE DEF catalogVars, readVars, t3Vars
  <1>1. dirty \in Nat /\ catalog.rev \in Nat /\ rev \in Nat
    BY DEF LinkInv, LinkTypeOK, Current, CatalogTypeOK
  <1>2. CatalogTypeOK'
    BY DEF Current, CatalogTypeOK
  <1>3. CatalogCounts' /\ ReadingCounts'
    BY <1>1 DEF Current, CatalogCounts, ReadingCounts, Counts
  <1>4. NewsAreTrue' /\ SnapshotsAreCurrent'
    BY DEF Current, NewsAreTrue, CatalogIsCurrent, SnapshotsAreCurrent
  <1>5. FailuresAreCurrent'
    BY DEF Current, CatalogIsCurrent, FailuresAreCurrent
  <1> QED
    BY <1>2, <1>3, <1>4, <1>5 DEF Current, CatalogIsCurrent

LEMMA OthersKeepCurrent ==
  LinkInv /\ Current /\ Next /\ UNCHANGED catalogVars => Current'
  <1> SUFFICES ASSUME LinkInv, Current, Next, UNCHANGED catalogVars PROVE Current'
    OBVIOUS
  <1>1. Refresher \in Clients /\ Refresher \notin Calls
    BY RefresherIsClient
  <1>2. CASE \E c \in Calls : Call(c)
    <2> PICK c \in Calls : Call(c)
      BY <1>2
    <2>1. dirty' = dirty /\ backoff' = backoff
      BY DEF Call
    <2>2. pc'[Refresher] = pc[Refresher]
      BY <1>1, CallLinks DEF LinkMoves, Goes
    <2> QED
      BY <2>1, <2>2, ElsewhereKeepsCurrent
  <1>3. CASE (\E c \in Calls : Cancel(c)) \/ T3
    <2>1. UNCHANGED linkVars
      BY <1>3 DEF Cancel, T3, T3Processes, T3Refuses
    <2> QED
      BY <2>1, ElsewhereKeepsCurrent DEF linkVars
  <1>4. CASE Link
    <2>1. \/ dirty' = dirty /\ backoff' = backoff
          \/ dirty' = dirty + 1 /\ backoff' = NoBackoff
      BY <1>4 DEF Link, Opening, OpenStarts, OpenCannotStart, OpenSucceeds, OpenFails, Renew, Close
    <2>2. pc' = pc \/ pc' = [x \in Clients |-> IF pc[x] = "connect" THEN "opened" ELSE pc[x]]
      BY <1>4 DEF Link, Opening, OpenStarts, OpenCannotStart, OpenSucceeds, OpenFails, Tell,
                  Renew, Close
    <2> QED
      BY <1>1, <2>1, <2>2, ElsewhereKeepsCurrent
  <1> QED
    BY <1>2, <1>3, <1>4 DEF Next

LEMMA LooksKeepCurrent == LinkInv /\ Current /\ (\E r \in Readers : Reader(r)) => Current'
  <1> SUFFICES ASSUME LinkInv, Current, NEW r \in Readers, Ask(r) \/ Resume(r) PROVE Current'
    BY DEF Reader
  <1>1. Look(r)
    BY DEF Ask, Resume
  <1>2. /\ dirty' = dirty /\ backoff' = backoff /\ catalog' = catalog /\ rev' = rev
        /\ seen' = seen /\ UNCHANGED t3Vars
    BY <1>1 DEF Look
  <1>3. pc'[Refresher] = "wait" => pc[Refresher] = "wait"
    BY <1>1, RefresherIsClient DEF Look, Refresh, LinkInv, LinkTypeOK
  <1>4. /\ noticed \in 0..version /\ version \in 0..MaxChanges /\ MaxChanges \in Nat
        /\ catalog.version \in 0..MaxChanges
        /\ told \in [Readers -> 0..MaxChanges] /\ shown \in [Readers -> -1..MaxChanges]
        /\ at \in [Readers -> {"ready", "refresh", "done"}]
    BY CatalogAssumption DEF Current, CatalogTypeOK
  <1>5. /\ told' \in [Readers -> 0..MaxChanges]
        /\ \A x \in Readers : told'[x] <= noticed
        /\ \A x \in Readers \ {r} : told'[x] = told[x]
    BY <1>4 DEF Ask, Resume, Current, NewsAreTrue
  <1>6. Known => catalog.version >= noticed
    BY DEF Known, Current, CatalogCounts, Counts
  <1>7. /\ at' \in [Readers -> {"ready", "refresh", "done"}]
        /\ shown' \in [Readers -> -1..MaxChanges]
        /\ \A x \in Readers \ {r} : shown'[x] = shown[x]
        /\ shown'[r] = Unseen \/ shown'[r] >= noticed
    BY <1>1, <1>4, <1>6 DEF Look, Show, Unseen
  <1>8. CatalogTypeOK'
    BY <1>2, <1>5, <1>7 DEF Current, CatalogTypeOK, t3Vars
  <1>9. SnapshotsAreCurrent'
    <2>1. told'[r] \in 0..MaxChanges /\ told'[r] <= noticed
      BY <1>5
    <2>2. shown'[r] \in -1..MaxChanges
      BY <1>7
    <2> QED
      BY <1>4, <1>5, <1>7, <2>1, <2>2 DEF Current, CatalogIsCurrent, SnapshotsAreCurrent
  <1>10. CatalogCounts' /\ ReadingCounts' /\ NewsAreTrue' /\ FailuresAreCurrent'
    BY <1>2, <1>3, <1>5 DEF Current, CatalogCounts, ReadingCounts, Counts, NewsAreTrue,
      CatalogIsCurrent, FailuresAreCurrent, t3Vars
  <1> QED
    BY <1>8, <1>9, <1>10 DEF Current, CatalogIsCurrent

\* T3 and time: tools change, a listing and a notification arrive, what was
\* read or has failed grows old.
LEMMA NewsKeepCurrent ==
  LinkInv /\ Current /\ (CatalogExpires \/ BackoffEnds \/ T3Changes \/ T3Lists) => Current'
  <1> SUFFICES ASSUME LinkInv, Current PROVE CatalogExpires \/ BackoffEnds \/ T3Changes \/ T3Lists => Current'
    OBVIOUS
  <1>1. /\ noticed \in 0..version /\ version \in 0..MaxChanges /\ MaxChanges \in Nat
        /\ notes \subseteq (Numbers \X (1..MaxChanges))
        /\ \A note \in notes : note[2] <= version
        /\ catalog \in [token : Tokens \cup {NoToken}, number : 0..MaxConnections,
                        rev : Nat, version : 0..MaxChanges, fresh : BOOLEAN]
        /\ dirty \in Nat /\ rev \in Nat
    BY CatalogAssumption DEF Current, CatalogTypeOK, NewsAreTrue, LinkInv, LinkTypeOK
  <1>2. CASE CatalogExpires
    <2>1. /\ catalog' \in [token : Tokens \cup {NoToken}, number : 0..MaxConnections,
                           rev : Nat, version : 0..MaxChanges, fresh : BOOLEAN]
          /\ catalog'.rev = catalog.rev /\ catalog'.version = catalog.version
          /\ catalog'.number = catalog.number
      BY <1>1, <1>2 DEF CatalogExpires
    <2>2. UNCHANGED <<pc, dirty, backoff, rev, seen, readVars, t3Vars>>
      BY <1>2 DEF CatalogExpires, vars, linkVars
    <2> QED
      BY <2>1, <2>2 DEF Current, CatalogTypeOK, CatalogCounts, ReadingCounts, Counts, NewsAreTrue,
        CatalogIsCurrent, SnapshotsAreCurrent, FailuresAreCurrent, readVars, t3Vars
  <1>3. CASE BackoffEnds
    BY <1>3, ElsewhereKeepsCurrent DEF BackoffEnds
  <1>4. CASE T3Changes
    <2>1. /\ version' = version + 1 /\ version' \in 0..MaxChanges /\ noticed' \in 0..version'
          /\ UNCHANGED <<pc, dirty, backoff, catalog, rev, seen, readVars, noticed>>
      BY <1>1, <1>4 DEF T3Changes, vars, linkVars
    <2>2. notes' \subseteq (Numbers \X (1..MaxChanges)) /\ \A note \in notes' : note[2] <= version'
      BY <1>1, <1>4, <2>1 DEF T3Changes
    <2> QED
      BY <2>1, <2>2 DEF Current, CatalogTypeOK, CatalogCounts, ReadingCounts, Counts, NewsAreTrue,
        CatalogIsCurrent, SnapshotsAreCurrent, FailuresAreCurrent, readVars
  <1>5. CASE T3Lists
    <2>1. /\ seen' = version /\ seen' \in -1..MaxChanges /\ seen' >= noticed
          /\ UNCHANGED <<pc, dirty, backoff, catalog, rev, readVars, t3Vars>>
      BY <1>1, <1>5 DEF T3Lists, vars, linkVars
    <2> QED
      BY <2>1 DEF Current, CatalogTypeOK, CatalogCounts, ReadingCounts, Counts, NewsAreTrue,
        CatalogIsCurrent, SnapshotsAreCurrent, FailuresAreCurrent, readVars, t3Vars
  <1> QED
    BY <1>2, <1>3, <1>4, <1>5

\* open's observer: a notification makes everything read before it too old.
LEMMA NoticesKeepCurrent ==
  LinkInv /\ Current /\ (\E n \in Numbers, v \in 1..MaxChanges : Notice(n, v)) => Current'
  <1> SUFFICES ASSUME LinkInv, Current, NEW n \in Numbers, NEW v \in 1..MaxChanges, Notice(n, v)
               PROVE  Current'
    OBVIOUS
  <1>1. /\ noticed \in 0..version /\ version \in 0..MaxChanges /\ MaxChanges \in Nat
        /\ v <= version /\ dirty \in Nat /\ rev \in Nat /\ catalog.rev \in Nat
        /\ told \in [Readers -> 0..MaxChanges]
    BY CatalogAssumption DEF Current, CatalogTypeOK, NewsAreTrue, LinkInv, LinkTypeOK, Notice
  <1>2. /\ UNCHANGED <<pc, catalog, rev, seen, readVars, version>>
        /\ notes' \subseteq notes
    BY DEF Notice
  <1>3. /\ noticed' \in 0..version /\ noticed' >= noticed
        /\ \/ dirty' = dirty /\ backoff' = backoff /\ noticed' = noticed
           \/ dirty' = dirty + 1 /\ backoff' = NoBackoff
    BY <1>1 DEF Notice
  <1>4. CatalogTypeOK'
    BY <1>2, <1>3 DEF Current, CatalogTypeOK, readVars
  <1>5. CatalogCounts' /\ ReadingCounts'
    BY <1>1, <1>2, <1>3 DEF Current, CatalogCounts, ReadingCounts, Counts
  <1>6. NewsAreTrue'
    BY <1>1, <1>2, <1>3 DEF Current, NewsAreTrue, readVars
  <1>7. CatalogIsCurrent'
    BY <1>2, <1>3 DEF Current, CatalogIsCurrent, SnapshotsAreCurrent, FailuresAreCurrent, readVars
  <1> QED
    BY <1>4, <1>5, <1>6, <1>7 DEF Current

\* What the reading task does besides: it ends, and what failed is of the
\* revision that counts; or a reading of that revision begins.
ReadOn ==
  \/ /\ UNCHANGED <<catalog, rev, seen, at, backoff>> /\ pc'[Refresher] # "wait"
  \/ /\ rev' = dirty /\ seen' = Unseen /\ UNCHANGED <<catalog, at, backoff>>
  \/ /\ EndRead /\ catalog' = catalog
     /\ backoff' = backoff \/ backoff'.rev = dirty

LEMMA ReadFailsOn ==
  ASSUME NEW number, NEW revision, ReadFails(number, revision)
  PROVE  ReadOn
  BY DEF ReadFails, ReadOn

LEMMA ConnectOn ==
  ASSUME LinkInv, Connect
  PROVE  ReadOn
  <1>1. ASSUME Park(Refresher, tok[Refresher]) PROVE pc'[Refresher] # "wait"
    BY <1>1, RefresherIsClient DEF Park, LinkInv, LinkTypeOK
  <1>2. ASSUME NEW number, List(number) PROVE ReadOn
    BY <1>2, ReadFailsOn DEF List, ReadOn
  <1> QED
    BY <1>1, <1>2, ReadFailsOn DEF Connect, Unconnected, ReadOn

LEMMA ReadGoesOn ==
  ASSUME LinkInv, Read
  PROVE  ReadOn \/ Listed
  <1>1. ASSUME NEW number, List(number) PROVE ReadOn
    BY <1>1, ReadFailsOn DEF List, ReadOn
  <1>2. CASE ReadStarts
    BY <1>2, ConnectOn DEF ReadStarts
  <1>3. CASE ReadOpened
    BY <1>1, <1>3, ConnectOn, ReadFailsOn DEF ReadOpened, Unconnected
  <1>4. CASE \E dropped \in BOOLEAN : ListFails(dropped)
    BY <1>4, ReadFailsOn DEF ListFails
  <1> QED
    BY <1>2, <1>3, <1>4 DEF Read

LEMMA ReadsKeepCurrent == LinkInv /\ Current /\ Read => Current'
  <1> SUFFICES ASSUME LinkInv, Current, Read PROVE Current'
    OBVIOUS
  <1>1. /\ UNCHANGED <<dirty, told, shown, t3Vars>>
        /\ dirty \in Nat /\ rev \in Nat /\ MaxChanges \in Nat /\ Unseen = -1
        /\ at \in [Readers -> {"ready", "refresh", "done"}]
        /\ version \in 0..MaxChanges /\ noticed \in 0..version
    BY CatalogAssumption DEF Read, LinkInv, LinkTypeOK, Current, CatalogTypeOK, Unseen
  <1>2. NewsAreTrue' /\ SnapshotsAreCurrent'
    BY <1>1 DEF Current, NewsAreTrue, CatalogIsCurrent, SnapshotsAreCurrent, t3Vars
  <1>3. EndRead => /\ at' \in [Readers -> {"ready", "refresh", "done"}]
                   /\ pc'[Refresher] = "idle" /\ rev' \in Nat /\ seen' \in -1..MaxChanges
    BY <1>1, RefresherIsClient DEF EndRead, LinkInv, LinkTypeOK
  <1>4. CASE ReadOn
    <2>1. CatalogTypeOK'
      BY <1>1, <1>3, <1>4 DEF ReadOn, Current, CatalogTypeOK, t3Vars
    <2>2. CatalogCounts'
      BY <1>1, <1>4 DEF ReadOn, Current, CatalogCounts, Counts, t3Vars
    <2>3. ReadingCounts'
      <3>1. CASE pc'[Refresher] # "wait"
        BY <3>1 DEF ReadingCounts
      <3>2. CASE rev' = dirty /\ seen' = Unseen
        BY <1>1, <3>2 DEF ReadingCounts
      <3> QED
        BY <1>3, <1>4, <3>1, <3>2 DEF ReadOn
    <2>4. FailuresAreCurrent'
      BY <1>1, <1>4 DEF ReadOn, Current, CatalogIsCurrent, FailuresAreCurrent
    <2> QED
      BY <1>2, <2>1, <2>2, <2>3, <2>4 DEF Current, CatalogIsCurrent
  <1>5. CASE Listed
    <2> DEFINE number == using[Refresher]
               read   == [token |-> tok[Refresher], number |-> number, rev |-> rev,
                          version |-> seen, fresh |-> TRUE]
    <2>1. /\ pc[Refresher] = "wait" /\ seen # Unseen /\ EndRead
          /\ catalog' \in {catalog, read} /\ backoff' \in {backoff, NoBackoff}
      BY <1>5 DEF Listed, Answered, ReadAs
    <2>2. seen \in 0..MaxChanges /\ Counts(rev, seen)
      BY <1>1, <2>1 DEF Current, CatalogTypeOK, ReadingCounts
    <2>3. read \in [token : Tokens \cup {NoToken}, number : 0..MaxConnections,
                    rev : Nat, version : 0..MaxChanges, fresh : BOOLEAN]
      BY <1>1, <2>2, RefresherIsClient DEF LinkInv, LinkTypeOK
    <2>4. CatalogTypeOK'
      BY <1>1, <1>3, <2>1, <2>3 DEF Current, CatalogTypeOK, t3Vars
    <2>5. CatalogCounts' /\ ReadingCounts'
      BY <1>1, <1>3, <2>1, <2>2 DEF Current, CatalogCounts, ReadingCounts, Counts, t3Vars
    <2>6. FailuresAreCurrent'
      BY <1>1, <2>1 DEF Current, CatalogIsCurrent, FailuresAreCurrent
    <2> QED
      BY <1>2, <2>4, <2>5, <2>6 DEF Current, CatalogIsCurrent
  <1> QED
    BY <1>4, <1>5, ReadGoesOn

LEMMA ClientKeepsCurrent == LinkInv /\ Current /\ [ClientNext]_allVars => LinkInv' /\ Current'
  <1>1. LinkInv /\ Current /\ UNCHANGED allVars => Current'
    BY ElsewhereKeepsCurrent DEF allVars, vars, linkVars
  <1>2. Current => rev \in Nat
    BY DEF Current, CatalogTypeOK
  <1> QED
    BY <1>1, <1>2, ClientKeepsLink, OthersKeepCurrent, LooksKeepCurrent, NewsKeepCurrent,
       NoticesKeepCurrent, ReadsKeepCurrent DEF ClientNext

THEOREM CatalogInvariant == ClientSpec => [](LinkInv /\ Current)
  BY CatalogInitHolds, ClientKeepsCurrent, PTL DEF ClientSpec

\* snapshot, open: neither tools nor a failure that a reader is given are older
\* than what T3 had told the client before, whatever was being read, had failed
\* or was kept at that time.
THEOREM CatalogIsCurrentHolds == ClientSpec => []CatalogIsCurrent
  <1>1. Current => CatalogIsCurrent
    BY DEF Current
  <1> QED
    BY <1>1, CatalogInvariant, PTL

\* connect: the task that reads the catalogue spoils no call's connection, and
\* is given one of its own token like them.
THEOREM SharedConnectionsHold == ClientSpec => []ConnectionsAreSound
  BY LinkIsSound, CatalogInvariant, PTL

\* What is nothing to the calls.
LEMMA ElsewhereKeepsSent ==
  ASSUME SentInv, UNCHANGED callVars, \A c \in Calls : pc'[c] = pc[c],
         pc' \in [Clients -> {"idle", "spawned", "connect", "opened", "wait", "done"}]
  PROVE  SentInv'
  <1>1. Shape'
    BY DEF SentInv, Shape, callVars
  <1> QED
    BY <1>1, CallAssumption DEF callVars, SentInv, Guarded, Sent, Awaited

LEMMA ClientKeepsSent ==
  SentInv /\ LinkInv /\ Current /\ [ClientNext]_allVars => SentInv'
  <1> SUFFICES ASSUME SentInv, LinkInv, Current, ClientNext \/ UNCHANGED allVars
               PROVE  SentInv'
    OBVIOUS
  <1>1. pc \in [Clients -> {"idle", "spawned", "connect", "opened", "wait", "done"}]
    BY DEF LinkInv, LinkTypeOK
  <1>2. Refresher \in Clients /\ Refresher \notin Calls /\ Calls \subseteq Clients
    BY RefresherIsClient, CallAssumption
  <1>3. CASE Read
    <2>1. LinkMoves(Refresher) /\ UNCHANGED callVars
      BY <1>3, ReadLinks DEF Read, Current, CatalogTypeOK
    <2> QED
      BY <1>2, <2>1, ElsewhereKeepsSent DEF LinkMoves, Goes
  <1>4. ASSUME NEW r \in Readers, Reader(r) PROVE SentInv'
    <2>1. /\ UNCHANGED callVars
          /\ pc' = pc \/ pc' = [pc EXCEPT ![Refresher] = "spawned"]
      BY <1>4 DEF Reader, Ask, Resume, Look, Refresh
    <2> QED
      BY <1>1, <1>2, <2>1, ElsewhereKeepsSent
  <1>5. CASE \/ CatalogExpires \/ BackoffEnds \/ T3Changes \/ T3Lists \/ UNCHANGED allVars
             \/ \E n \in Numbers, v \in 1..MaxChanges : Notice(n, v)
    <2>1. pc' = pc /\ UNCHANGED callVars
      BY <1>5 DEF CatalogExpires, BackoffEnds, T3Changes, T3Lists, Notice, allVars, vars, linkVars
    <2> QED
      BY <1>1, <2>1, ElsewhereKeepsSent
  <1> QED
    BY <1>3, <1>4, <1>5, NextKeepsSent DEF ClientNext

\* execute: sharing the connection with the task that reads the catalogue
\* lets no call send twice or misjudge what became of its message.
THEOREM SharingSendsOnce == ClientSpec => [](SentOnce /\ FailureMeansNothingRan)
  <1>1. ClientInit => SentInv
    BY SentInit DEF ClientInit
  <1> QED
    BY <1>1, SentIsOnce, NothingRan, CatalogInitHolds, ClientKeepsCurrent, ClientKeepsSent, PTL
    DEF ClientSpec
=============================================================================
