---------------------------- MODULE PendingActions ----------------------------
(***************************************************************************)
(* Answering what an agent asks (pending_action_respond in                  *)
(* rust/src/gateway.rs), through the journal's receipts and the client of   *)
(* T3, while other calls list pending actions and start turns, T3 changes   *)
(* its protocol and the gateway crashes.                                    *)
(*                                                                          *)
(* The responders share one idempotency key.  Starting a turn is modelled   *)
(* from where thread_send has its receipt (see TaskStart).                  *)
(***************************************************************************)
EXTENDS T3Client

CONSTANTS Responders,  \* the calls that answer; the others list, or start a turn
          Action,      \* the responders' idempotency key
          Payloads,    \* what a responder may answer
          NoCall,
          MaxFaults    \* bound: how often T3 is replaced or the gateway crashes

ASSUME CallAssumption ==
  /\ Calls = Responders \cup Sending /\ Responders \cap Sending = {}
  /\ NoCall \notin Calls /\ Action \notin Calls

VARIABLES
  receipts,  \* the journal's, in memory and in its file
  payload,   \* what each responder answers
  held,      \* the status in a call's copy of its receipt
  answer,    \* what each responder has answered: a status, or an error
  crashes

actionVars == <<receipts, payload, held, answer, crashes>>
allVars == <<clientVars, actionVars>>

Keys == {Action} \cup Sending
Key(c) == IF c \in Sending THEN c ELSE Action

NoReceipt == [status |-> "none", by |-> NoCall, payload |-> NoCall]
NewReceipt(c) ==
  [status |-> "prepared", by |-> c, payload |-> IF c \in Sending THEN NoCall ELSE payload[c]]

Init ==
  /\ ClientInit
  /\ receipts = [k \in Keys |-> NoReceipt]
  /\ payload \in [Responders -> Payloads]
  /\ held = [c \in Calls |-> "none"] /\ answer = [c \in Responders |-> "none"]
  /\ crashes = 0

\* Call c is over; a responder answers a.
Finish(c, a) ==
  /\ pc' = [pc EXCEPT ![c] = "done"]
  /\ answer' = [d \in Responders |-> IF d = c THEN a ELSE answer[d]]
  /\ got' = [got EXCEPT ![c] = "none"] /\ mark' = [mark EXCEPT ![c] = 0]
  /\ held' = [held EXCEPT ![c] = "none"]
  /\ UNCHANGED <<version, part, attempt>>

\* Call c asks for the environment; what it has read or sent is used.
AskEnvironment(c) ==
  /\ Discover(c, "environment")
  /\ got' = [got EXCEPT ![c] = "none"] /\ mark' = [mark EXCEPT ![c] = 0]
  /\ UNCHANGED <<version, part, attempt>>

-----------------------------------------------------------------------------
(* pending_action_respond *)

\* begin finds the key taken: another input conflicts; a receipt that is not
\* settled is reconciled, which reads its thread, though only for other kinds
\* of command does that settle it.
Reuse(c) ==
  LET r == receipts[Action] IN
  \/ r.payload # payload[c] /\ Finish(c, "error") /\ UNCHANGED cacheVars
  \/ /\ r.payload = payload[c]
     /\ held' = [held EXCEPT ![c] = r.status]
     /\ IF r.status \in {"accepted", "rejected"}
        THEN AskEnvironment(c)
        ELSE StartRead(c)
     /\ UNCHANGED answer

Respond(c) ==
  /\ pc[c] = "idle"
  /\ \/ receipts[Action].status # "none" /\ Reuse(c)
     \/ /\ receipts[Action].status = "none"
        /\ pc' = [pc EXCEPT ![c] = "scope"]
        /\ UNCHANGED <<cacheVars, readVars, held, answer>>
  /\ UNCHANGED <<t3Vars, receipts, payload, crashes>>

\* begin, which looks the key up again.
Begin(c) ==
  \/ /\ receipts[Action].status = "none"
     /\ receipts' = [receipts EXCEPT ![Action] = NewReceipt(c)]
     /\ StartDispatch(c)
     /\ UNCHANGED <<held, answer>>
  \/ receipts[Action].status # "none" /\ Reuse(c) /\ UNCHANGED receipts

\* The credential may operate, or it may not.
Scope(c) ==
  /\ pc[c] = "scope"
  /\ \/ Begin(c)
     \/ Finish(c, "error") /\ UNCHANGED <<cacheVars, receipts>>
  /\ UNCHANGED <<t3Vars, payload, crashes>>

-----------------------------------------------------------------------------
(* The end of every call *)

\* dispatch_new writes what its dispatch came to; if that fails, so does the
\* call, and the receipt stays prepared.
Settle(c) ==
  /\ pc[c] = "dispatched"
  /\ \/ /\ receipts' = [receipts EXCEPT ![Key(c)].status = got[c]]
        /\ held' = [held EXCEPT ![c] = got[c]]
        /\ AskEnvironment(c) /\ UNCHANGED answer
     \/ Finish(c, "error") /\ UNCHANGED <<receipts, cacheVars>>
  /\ UNCHANGED <<t3Vars, payload, crashes>>

\* After its read, a call that reconciles or lists asks for the environment; a
\* list needs what it read, the others do not.
Resume(c) ==
  /\ pc[c] = "read"
  /\ IF c \in Responders \/ (held[c] = "none" /\ got[c] = "read")
     THEN AskEnvironment(c) /\ UNCHANGED <<held, answer>>
     ELSE Finish(c, "error") /\ UNCHANGED cacheVars
  /\ UNCHANGED <<t3Vars, receipts, payload, crashes>>

\* Whether or not it has the environment, a responder answers, and a turn that
\* was accepted is read for its settings; a list fails without it.
Conclude(c) ==
  /\ pc[c] = "environment" /\ c \notin waits
  /\ \/ /\ c \in Sending /\ held[c] = "accepted"
        /\ StartRead(c) /\ UNCHANGED <<held, answer>>
     \/ /\ c \in Responders \/ held[c] # "accepted"
        /\ Finish(c, held[c]) /\ Use(c)
  /\ UNCHANGED <<t3Vars, receipts, payload, crashes>>

\* pending_actions_list
List(c) ==
  /\ pc[c] = "idle" /\ StartRead(c)
  /\ UNCHANGED <<t3Vars, actionVars>>

\* thread_send begins its receipt.
SendTurn(c) ==
  /\ pc[c] = "idle"
  /\ receipts' = [receipts EXCEPT ![c] = NewReceipt(c)]
  /\ StartDispatch(c)
  /\ UNCHANGED <<t3Vars, payload, held, answer, crashes>>

\* The gateway is killed and starts again: receipts that were prepared are
\* uncertain now, and the client has discovered nothing yet.
Crash ==
  /\ crashes + switches < MaxFaults /\ crashes' = crashes + 1
  /\ receipts' = [k \in Keys |-> IF receipts[k].status = "prepared"
                                 THEN [receipts[k] EXCEPT !.status = "uncertain"]
                                 ELSE receipts[k]]
  /\ cached' = 0 /\ asked' = 0 /\ discovery' = NoDiscovery /\ waits' = {}
  /\ learned' = [c \in Calls |-> 0]
  /\ pc' = [c \in Calls |-> IF pc[c] = "idle" THEN "idle" ELSE "done"]
  /\ version' = [c \in Calls |-> 0] /\ part' = version' /\ attempt' = version'
  /\ mark' = version'
  /\ got' = [c \in Calls |-> "none"] /\ held' = got'
  /\ UNCHANGED <<t3Vars, payload, answer>>

-----------------------------------------------------------------------------
Next ==
  \/ \E c \in Responders : Respond(c) \/ Scope(c)
  \/ \E c \in Sending : List(c) \/ SendTurn(c)
  \/ \E c \in Calls : Settle(c) \/ Resume(c) \/ Conclude(c)
  \/ Crash
  \/ /\ \/ \E c \in Calls : Reads(c) \/ Dispatches(c)
        \/ Discovered \/ DiscoveryFails
        \/ T3 /\ crashes + switches' =< MaxFaults
     /\ UNCHANGED actionVars

Spec == Init /\ [][Next]_allVars

TypeOK ==
  /\ ClientTypeOK
  /\ receipts \in [Keys -> [status : {"none", "prepared", "uncertain", "accepted", "rejected"},
                            by : Calls \cup {NoCall}, payload : Payloads \cup {NoCall}]]
  /\ payload \in [Responders -> Payloads]

-----------------------------------------------------------------------------
(* Properties *)

Of(c) == {m \in Sent : m.by = c}

\* However calls overlap, and wherever the gateway crashes, one call sends the
\* command of a key, and the parts of a turn one after the other.
OneSends ==
  /\ \A m \in Sent : receipts[Key(m.by)].by = m.by
  /\ \A m \in Sent : m.part = "message" =>
       {"runtime", "interaction"} \subseteq {n.part : n \in {n \in applied : n.by = m.by}}

\* A receipt is accepted only when T3 has applied all of the command, in
\* whichever protocol it was sent, and rejected only when T3 has applied no
\* part of it and never will; an answer that says so is as true.
DispatchesAreHonest ==
  /\ OneSends
  /\ \A k \in Keys :
       LET r == receipts[k] IN
       /\ r.status = "accepted" =>
            \E v \in Supported : \A n \in DOMAIN Parts(r.by, v) :
              [by |-> r.by, version |-> v, part |-> Parts(r.by, v)[n]] \in applied
       /\ r.status = "rejected" => \A m \in wire \cup applied : m.by # r.by
  /\ \A c \in Responders :
       answer[c] \in {"accepted", "rejected"} => answer[c] = receipts[Action].status

\* A read that T3 does not understand is not the fault of what was cached when
\* it began: T3 changed its protocol under it, or under a discovery in flight
\* then, or speaks one that the gateway does not, or could not be asked again.
\* The exception is a cached protocol that the gateway does not speak.  It fails
\* reads at once, and wrongly so when T3 has changed since it was asked for:
\* only the next discovery that some call asks for corrects it.
ReadsRecover ==
  [][\A c \in Calls : pc[c] # "read" /\ pc'[c] = "read" =>
       /\ got'[c] = "incompatible" =>
            \/ switches > mark[c] \/ speaks \notin Supported
            \/ pc[c] = "checking" /\ learned[c] = 0
       /\ got'[c] = "unsupported" =>
            \/ speaks \notin Supported
            \/ switches > IF pc[c] = "learning" THEN mark[c] ELSE asked]_allVars
=============================================================================
