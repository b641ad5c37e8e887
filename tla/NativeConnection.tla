-------------------------- MODULE NativeConnection --------------------------
(***************************************************************************)
(* The connection the native MCP client shares among its users             *)
(* (rust/src/t3/native_mcp.rs): tool calls and the task that reads the     *)
(* catalogue.  One task opens it for all who wait; a user whose token is   *)
(* another one waits again.                                                *)
(*                                                                         *)
(* One thread runs everything: an action is what a task does from one      *)
(* await to the next.  A connection is named by its generation.            *)
(***************************************************************************)
EXTENDS Integers

CONSTANTS Clients,         \* tool calls and the refreshing task
          Tokens,          \* access tokens
          NoToken,         \* no usable credential is stored
          MaxConnections,  \* bound: after that many, T3 cannot be reached
          MaxRenewals      \* bound: changes of the stored credential

Numbers == 1..MaxConnections

ASSUME TokenAssumption ==
  NoToken \notin Tokens /\ MaxConnections \in Nat /\ MaxRenewals \in Nat

VARIABLES
  credential, renewals,  \* the stored credential, and how often it changed
  closed,                \* has the client been closed?
  generation,            \* connections opened so far
  connection,            \* the current one, or 0
  connecting,            \* the task that opens one: its token and generation
  conn,                  \* of every connection: its token, and is it open?
  dirty,                 \* the revision of what is known of T3's tools
  backoff,               \* the token whose last catalogue read failed, if any;
                         \* history: the revision that read was of
  pc,                    \* where a client is suspended
  tok,                   \* the token it works with
  using,                 \* the connection it got, or 0
  why                    \* why it got none

credVars == <<credential, renewals>>
userVars == <<tok, using, why>>

Nobody    == [token |-> NoToken, number |-> 0]  \* nothing is connecting
NoBackoff == [token |-> NoToken, rev |-> 0]

Troubles == {"rejected", "unauthorized", "unprocessed"}

LinkTypeOK ==
  /\ credential \in Tokens \cup {NoToken} /\ renewals \in 0..MaxRenewals
  /\ closed \in BOOLEAN /\ generation \in 0..MaxConnections
  /\ connection \in 0..MaxConnections
  /\ connecting \in [token : Tokens \cup {NoToken}, number : 0..MaxConnections]
  /\ conn \in [Numbers -> [token : Tokens \cup {NoToken}, up : BOOLEAN]]
  /\ dirty \in Nat /\ backoff \in [token : Tokens \cup {NoToken}, rev : Nat]
  /\ pc \in [Clients -> {"idle", "spawned", "connect", "opened", "wait", "done"}]
  /\ tok \in [Clients -> Tokens \cup {NoToken}]
  /\ using \in [Clients -> 0..MaxConnections]
  /\ why \in [Clients -> Troubles \cup {"none"}]

LinkInit ==
  /\ credential \in Tokens /\ renewals = 0 /\ closed = FALSE
  /\ generation = 0 /\ connection = 0 /\ connecting = Nobody
  /\ conn = [n \in Numbers |-> [token |-> NoToken, up |-> FALSE]]
  /\ dirty = 0 /\ backoff = NoBackoff
  /\ pc = [x \in Clients |-> "idle"] /\ tok = [x \in Clients |-> NoToken]
  /\ using = [x \in Clients |-> 0] /\ why = [x \in Clients |-> "none"]

-----------------------------------------------------------------------------
(* connect: what a client finds when the current connection is cur *)

Usable(cur, token) == cur # 0 /\ conn[cur].token = token

\* The client waits for whichever task is connecting, or starts one.
Park(x, token) ==
  /\ connection' = 0
  /\ connecting' = IF connecting = Nobody THEN [token |-> token, number |-> 0]
                                          ELSE connecting
  /\ pc' = [pc EXCEPT ![x] = "connect"]

\* What is current once n was dropped (drop_if_invalid).
Without(n) == IF connection = n THEN 0 ELSE connection

\* The connecting task ends: all who wait for it are told the same.
Tell(number, trouble) ==
  /\ connecting' = Nobody
  /\ pc' = [x \in Clients |-> IF pc[x] = "connect" THEN "opened" ELSE pc[x]]
  /\ using' = [x \in Clients |-> IF pc[x] = "connect" THEN number ELSE using[x]]
  /\ why' = [x \in Clients |-> IF pc[x] = "connect" THEN trouble ELSE why[x]]
  /\ UNCHANGED tok

-----------------------------------------------------------------------------
(* open *)

OpenStarts ==
  /\ connecting # Nobody /\ connecting.number = 0 /\ generation < MaxConnections
  /\ ~closed
  /\ LET n == generation + 1 IN
     /\ generation' = n
     /\ connecting' = [connecting EXCEPT !.number = n]
     /\ conn' = [conn EXCEPT ![n] = [token |-> connecting.token, up |-> TRUE]]
  /\ dirty' = dirty + 1 /\ backoff' = NoBackoff
  /\ UNCHANGED <<connection, pc, userVars>>

\* The client is closed, or the bound is reached.
OpenCannotStart ==
  /\ connecting # Nobody /\ connecting.number = 0
  /\ closed \/ generation = MaxConnections
  /\ Tell(0, "unprocessed")
  /\ UNCHANGED <<connection, conn, generation, dirty, backoff>>

OpenSucceeds ==
  /\ connecting.number # 0 /\ conn[connecting.number].up
  /\ connection' = IF closed THEN connection ELSE connecting.number
  /\ Tell(connecting.number, "none")
  /\ UNCHANGED <<conn, generation, dirty, backoff>>

\* T3 refuses, is not there, or the connection was closed meanwhile.
OpenFails(trouble) ==
  /\ connecting.number # 0
  /\ conn[connecting.number].up \/ trouble = "unprocessed"
  /\ conn' = [conn EXCEPT ![connecting.number].up = FALSE]
  /\ Tell(0, trouble)
  /\ UNCHANGED <<connection, generation, dirty, backoff>>

Opening ==
  /\ OpenStarts \/ OpenCannotStart \/ OpenSucceeds
       \/ \E trouble \in Troubles : OpenFails(trouble)
  /\ UNCHANGED <<credVars, closed>>

-----------------------------------------------------------------------------
\* The user logs in again, or the credential expires.
Renew ==
  /\ renewals < MaxRenewals
  /\ renewals' = renewals + 1
  /\ credential' \in (Tokens \cup {NoToken}) \ {credential}
  /\ UNCHANGED <<closed, generation, connection, connecting, conn, dirty, backoff,
                 pc, userVars>>

Close ==
  /\ ~closed
  /\ closed' = TRUE
  /\ connection' = 0
  /\ conn' = [n \in Numbers |-> [conn[n] EXCEPT !.up = FALSE]]
  /\ UNCHANGED <<credVars, generation, connecting, dirty, backoff, pc, userVars>>

\* Once closed, the client keeps nothing open: neither what it had nor what a
\* task was opening meanwhile.
ClosedKeepsNothing == closed => connection = 0 /\ \A n \in Numbers : ~conn[n].up
=============================================================================
