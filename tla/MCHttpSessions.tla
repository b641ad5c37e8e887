---------------------------- MODULE MCHttpSessions ----------------------------
(***************************************************************************)
(* Small instances of the HTTP transport.  The larger one begins where a    *)
(* first session has been created and announced: a state of Spec, reached   *)
(* by Arrive, Initialize, Execute and Finish of the first request.  Two of  *)
(* the others have one id; if there are two ids, the third has the other.   *)
(***************************************************************************)
EXTENDS HttpSessions, TLC

CONSTANTS r0, s0,    \* the first request, and the session it created
          MaxLeaves,  \* clients that leave before they have their response
          MaxStateless, \* calls outside any session
          MaxUnread \* responses at a time that their clients have not read

Symmetry == Permutations(Requests \ {r0}) \cup Permutations(Sessions \ {s0})

InitFromOneSession ==
  /\ shut = {} /\ native = [p \in AllPeers |-> "none"]
  /\ sub = [p \in AllPeers |-> NoRequest] /\ pending = [p \in AllPeers |-> FALSE]
  /\ pc = [r \in Requests |-> IF r = r0 THEN "ended" ELSE "new"]
  /\ peer = [r \in Requests |-> IF r = r0 THEN s0 ELSE r]
  /\ kind = [r \in Requests |-> IF r = r0 THEN "initialize" ELSE "none"]
  /\ \E r \in Requests \ {r0} :
       id = [q \in Requests |-> IF q = r THEN Cardinality(Ids) ELSE 1]
  /\ cancelled = [r \in Requests |-> FALSE]
  /\ out = [r \in Requests |-> IF r = r0 THEN "finished" ELSE "open"]
  /\ answer = [r \in Requests |-> IF r = r0 THEN "result" ELSE "none"]
  /\ entries = {s0} /\ minted = {s0} /\ retired = {} /\ stale = {}
  /\ phase = "serving" /\ gone = {}

Bounded ==
  /\ Cardinality(gone) <= MaxLeaves
  /\ Cardinality({r \in Requests : peer[r] = r /\ kind[r] # "none"}) <= MaxStateless
  /\ Cardinality({r \in Requests : pc[r] = "answered"} \ gone) <= MaxUnread

SpecFromOneSession == InitFromOneSession /\ [][Next]_vars
=============================================================================
