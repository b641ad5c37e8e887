------------------------------ MODULE GitCommands ------------------------------
(***************************************************************************)
(* How the gateway runs a git command (run_command in rust/src/git/mod.rs): *)
(* one thread reads each of its pipes to the end, while a loop kills it when *)
(* its time is over or its output is not understood, and waits for all three. *)
(*                                                                          *)
(* A command that cannot be started is one that breaks at once.  The thread *)
(* that reads stderr, which only drains it, ends with the one that reads    *)
(* stdout; errors of the pipes themselves, and the audit, are left out.     *)
(***************************************************************************)
EXTENDS Naturals, FiniteSets

CONSTANTS Jobs  \* what runs git commands, one at a time each

VARIABLES proc  \* the command of each job

\* What may be run.  Fetching and checking out start helpers, which hold the
\* pipes of the command and are not killed with it.
Spawning == {"fetch", "add", "add -b"}
Commands == {"get-url", "base", "show-ref", "verify", "inspect"} \cup Spawning

NoProcess == [cmd |-> "none", child |-> "none", unread |-> FALSE, helper |-> FALSE,
              reader |-> "ended", failed |-> FALSE, timed |-> FALSE]

Processes == [cmd : Commands \cup {"none"},
              child : {"none", "running", "zero", "other", "broken", "killed"},
              unread : BOOLEAN, helper : BOOLEAN, reader : {"reading", "ended"},
              failed : BOOLEAN, timed : BOOLEAN]

Runs(j) == proc[j].child = "running"
Alive(j) == Runs(j) \/ proc[j].helper

Set(j, p) == proc' = [proc EXCEPT ![j] = p]

Launch(j, cmd) ==
  Set(j, [NoProcess EXCEPT !.cmd = cmd, !.child = "running", !.reader = "reading"])

\* The command fills its pipe; a full pipe blocks it.  Only inspections print
\* as much, or anything their caller may not understand.
Emit(j) == /\ Runs(j) /\ proc[j].cmd = "inspect" /\ ~proc[j].unread
           /\ Set(j, [proc[j] EXCEPT !.unread = TRUE])

\* It starts a helper, or that ends.
Spawn(j) == /\ Runs(j) /\ proc[j].cmd \in Spawning /\ ~proc[j].helper
            /\ Set(j, [proc[j] EXCEPT !.helper = TRUE])
HelperEnds(j) == proc[j].helper /\ Set(j, [proc[j] EXCEPT !.helper = FALSE])

\* It ends: with zero, with the other code its caller accepts, or broken.
Exit(j, code) == Runs(j) /\ Set(j, [proc[j] EXCEPT !.child = code])

\* The reader takes what was printed, which the caller may not understand;
\* what follows is read and ignored.
Read(j) ==
  /\ proc[j].unread
  /\ \E bad \in BOOLEAN : Set(j, [proc[j] EXCEPT !.unread = FALSE, !.failed = @ \/ bad])

\* The pipe is at its end once nobody holds it open.
ReaderEnds(j) ==
  /\ proc[j].reader = "reading" /\ ~proc[j].unread /\ ~Alive(j)
  /\ Set(j, [proc[j] EXCEPT !.reader = "ended"])

Killed(p) == IF p.child = "running" THEN [p EXCEPT !.child = "killed"] ELSE p

\* Mutant: the time is noted, and the command left to end.
Noted(p) == [p EXCEPT !.timed = TRUE]

Late(p) == Killed([p EXCEPT !.timed = TRUE])

\* The time is over before the loop has seen all three end.
Ended(j) == ~Runs(j) /\ proc[j].reader = "ended"
TimeOut(j) == ~Ended(j) /\ ~proc[j].timed /\ Set(j, Late(proc[j]))

\* What was printed is not understood.
Reject(j) == proc[j].failed /\ Runs(j) /\ Set(j, Killed(proc[j]))

\* What a command that has ended came to.
Accepts(cmd) == {"zero"} \cup (IF cmd \in {"get-url", "show-ref"} THEN {"other"} ELSE {})
Result(j) ==
  LET p == proc[j] IN
  IF p.failed \/ p.timed \/ p.child \notin Accepts(p.cmd) THEN "failed" ELSE p.child
===============================================================================
