------------------------------- MODULE Worktrees -------------------------------
(***************************************************************************)
(* Preparing a managed worktree (rust/src/git/worktree_manager.rs): calls   *)
(* for one path share one preparation, through a cell in a table; nobody's  *)
(* leaving stops it.  Inspections run git beside it.                       *)
(*                                                                          *)
(* One path of one project, as preparations of others share nothing but     *)
(* git's own locks.  The commands of verify_existing only read, and nobody  *)
(* here changes what they read: they are one command.  Validating the       *)
(* branch changes nothing: only its outcome is modelled.                    *)
(***************************************************************************)
EXTENDS GitCommands

\* A job is a call of prepare, or one of status, diff or compare, and then
\* another.
ASSUME JobAssumption == IsFiniteSet(Jobs)

VARIABLES
  disk,     \* what is at the path; what is foreign may be on another branch
  branch,   \* does the project have the worktree's branch
  pending,  \* the cell the table has for the path; 0 is none
  cells,    \* what the preparation of each cell has come to
  held,     \* the cell each call holds; 0 is none
  stage,    \* where each call is
  dropped,  \* calls whose client has left
  answer    \* the worktree each call has answered last; it may have none

manager == <<pending, cells, held, stage, dropped, answer>>
vars == <<proc, disk, branch, manager>>

\* Cells are used again once nobody has them.
Cells == 1 .. Cardinality(Jobs) + 1

Running == {"stat", "get-url", "fetch", "base", "show-ref", "add", "add -b", "recheck", "verify"}
Stages == {"idle", "waiting", "leaving", "inspecting"} \cup Running

Init ==
  /\ proc = [j \in Jobs |-> NoProcess]
  /\ disk \in {"absent", "foreign", "whole"} /\ branch \in BOOLEAN
  /\ disk = "whole" => branch
  /\ pending = 0 /\ cells = [k \in Cells |-> "unset"]
  /\ held = [c \in Jobs |-> 0] /\ stage = [j \in Jobs |-> "idle"]
  /\ dropped = {} /\ answer = [c \in Jobs |-> "none"]

-----------------------------------------------------------------------------
(* prepare *)

Go(j, s) == stage' = [stage EXCEPT ![j] = s]

Unused == CHOOSE k \in Cells : k # pending /\ \A c \in Jobs : held[c] # k

\* A call joins the preparation in the table, or puts a new one there.  A
\* workspace, branch or key that is not valid is an error at once.
Join(c) ==
  /\ stage[c] = "idle"
  /\ LET k == IF pending # 0 THEN pending ELSE Unused IN
     /\ pending' = k
     /\ cells' = IF pending # 0 THEN cells ELSE [cells EXCEPT ![k] = "unset"]
     /\ held' = [held EXCEPT ![c] = k]
  /\ Go(c, "waiting") /\ answer' = [answer EXCEPT ![c] = "none"]
  /\ UNCHANGED <<proc, disk, branch, dropped>>

Invalid(c) ==
  /\ stage[c] = "idle" /\ answer' = [answer EXCEPT ![c] = "none"]
  /\ UNCHANGED <<proc, disk, branch, pending, cells, held, stage, dropped>>

InFlight(k) == \E c \in Jobs : held[c] = k /\ stage[c] \in Running

\* Of those who hold a cell that is not set, one prepares; the others wait.
Prepare(c) ==
  /\ stage[c] = "waiting" /\ cells[held[c]] = "unset" /\ ~InFlight(held[c])
  /\ Go(c, "stat")
  /\ UNCHANGED <<proc, disk, branch, pending, cells, held, dropped, answer>>

Share(c) ==
  /\ stage[c] = "waiting" /\ cells[held[c]] # "unset"
  /\ Go(c, "leaving")
  /\ UNCHANGED <<proc, disk, branch, pending, cells, held, dropped, answer>>

\* Mutant: whatever the table has for the path is removed.
RemainingNone(c) == 0

\* A call removes its own preparation from the table, and no other.
Remaining(c) == IF pending = held[c] THEN 0 ELSE pending

Leave(c) ==
  /\ stage[c] = "leaving" /\ pending' = Remaining(c)
  /\ answer' = [answer EXCEPT ![c] = IF c \notin dropped /\ cells[held[c]] # "failed"
                                     THEN cells[held[c]] ELSE "none"]
  /\ held' = [held EXCEPT ![c] = 0] /\ dropped' = dropped \ {c}
  /\ Go(c, "idle")
  /\ UNCHANGED <<proc, disk, branch, cells>>

\* The client of a call leaves: what is left of the call goes on.
Drop(c) ==
  /\ held[c] # 0 /\ dropped' = dropped \cup {c}
  /\ UNCHANGED <<proc, disk, branch, pending, cells, held, stage, answer>>

-----------------------------------------------------------------------------
(* prepare_once *)

\* The preparation of call c has come to r, for all who hold its cell.
Conclude(c, r) ==
  /\ cells' = [cells EXCEPT ![held[c]] = r]
  /\ Go(c, "leaving")
  /\ proc' = [proc EXCEPT ![c] = NoProcess]

\* The next command of call c.
Execute(c, s) ==
  /\ Go(c, s) /\ UNCHANGED cells
  /\ Launch(c, IF s = "recheck" THEN "verify" ELSE s)

Others == <<disk, branch, pending, held, dropped, answer>>

\* What exists is verified; else the path's parent is created and the branch is
\* resolved, from the origin if the call asks for that.
Stat(c) ==
  /\ stage[c] = "stat"
  /\ \/ disk # "absent" /\ Execute(c, "recheck")
     \/ disk = "absent" /\ \E s \in {"get-url", "base"} : Execute(c, s)
     \/ Conclude(c, "failed")
  /\ UNCHANGED Others

After(s, code) ==
  CASE s = "get-url"  -> IF code = "zero" THEN "fetch" ELSE "base"
    [] s = "fetch"    -> "base"
    [] s = "base"     -> "show-ref"
    [] s = "show-ref" -> IF code = "zero" THEN "add" ELSE "add -b"
    [] OTHER          -> "verify"

\* A command is over.
Proceed(c) ==
  /\ stage[c] \in Running \ {"stat"} /\ Ended(c)
  /\ LET r == Result(c) IN
     IF r = "failed" THEN Conclude(c, "failed")
     ELSE IF stage[c] = "verify" THEN Conclude(c, "created")
     ELSE IF stage[c] = "recheck" THEN Conclude(c, "found")
     ELSE Execute(c, After(stage[c], r))
  /\ UNCHANGED Others

Inspect(j) ==
  /\ stage[j] = "idle" /\ Go(j, "inspecting") /\ Launch(j, "inspect")
  /\ UNCHANGED <<cells, Others>>

Inspected(j) ==
  /\ stage[j] = "inspecting" /\ Ended(j) /\ Go(j, "idle")
  /\ proc' = [proc EXCEPT ![j] = NoProcess]
  /\ UNCHANGED <<cells, Others>>

-----------------------------------------------------------------------------
(* git, and whoever else uses the disk *)

Adding(j) == proc[j].cmd \in {"add", "add -b"} /\ Runs(j)

\* git worktree add: the branch, if it is to be created, then the checkout.
Work(j) ==
  /\ Adding(j) /\ UNCHANGED <<proc, manager>>
  /\ \/ proc[j].cmd = "add -b" /\ ~branch /\ branch' = TRUE /\ UNCHANGED disk
     \/ branch /\ disk = "absent" /\ disk' = "half" /\ UNCHANGED branch

\* A command can succeed, and what it leaves if it does.
Succeeds(j, code) ==
  CASE proc[j].cmd = "show-ref" -> (code = "zero") = branch
    [] proc[j].cmd = "verify"   -> code = "zero" /\ disk \in {"whole", "torn", "half"}
    [] Adding(j)                -> code = "zero" /\ disk = "half"
    [] OTHER                    -> TRUE

\* A command ends.  An add that breaks takes back its checkout.
Finish(j) ==
  /\ \/ \E code \in Accepts(proc[j].cmd) :
          /\ Succeeds(j, code) /\ Exit(j, code)
          /\ disk' = IF Adding(j) THEN "whole" ELSE disk
     \/ /\ Exit(j, "broken")
        /\ disk' = IF Adding(j) /\ disk = "half" THEN "absent" ELSE disk
  /\ UNCHANGED <<branch, manager>>

\* A command is killed: half a checkout stays, torn.
Kill(j) ==
  /\ TimeOut(j) \/ Reject(j)
  /\ disk' = IF Adding(j) /\ disk = "half" THEN "torn" ELSE disk
  /\ UNCHANGED <<branch, manager>>

Pipes(j) ==
  /\ Emit(j) \/ Spawn(j) \/ HelperEnds(j) \/ Read(j) \/ ReaderEnds(j)
  /\ UNCHANGED <<disk, branch, manager>>

\* Somebody else creates a directory at the path.
Occupy ==
  /\ disk = "absent" /\ disk' = "foreign"
  /\ UNCHANGED <<proc, branch, manager>>

-----------------------------------------------------------------------------
CallStep(c) == Prepare(c) \/ Share(c) \/ Leave(c) \/ Stat(c) \/ Proceed(c)

Next ==
  \/ \E c \in Jobs : Join(c) \/ Invalid(c) \/ CallStep(c) \/ Drop(c)
  \/ \E j \in Jobs : Inspect(j) \/ Inspected(j)
  \/ \E j \in Jobs : Work(j) \/ Finish(j) \/ Kill(j) \/ Pipes(j)
  \/ Occupy

\* The loop and its threads run, and so do the calls.  Nothing is assumed of
\* git, nor of the helpers it starts.
Fairness ==
  /\ \A j \in Jobs :
       /\ WF_vars(CallStep(j)) /\ WF_vars(Inspected(j))
       /\ WF_vars(Kill(j))
       /\ WF_vars((Read(j) \/ ReaderEnds(j)) /\ UNCHANGED <<disk, branch, manager>>)

Spec == Init /\ [][Next]_vars /\ Fairness

TypeOK ==
  /\ proc \in [Jobs -> Processes]
  /\ disk \in {"absent", "foreign", "half", "torn", "whole"} /\ branch \in BOOLEAN
  /\ pending \in Cells \cup {0} /\ cells \in [Cells -> {"unset", "failed", "found", "created"}]
  /\ held \in [Jobs -> Cells \cup {0}] /\ stage \in [Jobs -> Stages]
  /\ dropped \subseteq Jobs /\ answer \in [Jobs -> {"none", "found", "created"}]

-----------------------------------------------------------------------------
(* Properties *)

\* However many calls ask, leave and ask again, one preparation at a time works
\* on the path, and no git that changes the project outlives its preparation.
OneAtATime ==
  /\ \A c, d \in Jobs : stage[c] \in Running /\ stage[d] \in Running => c = d
  /\ \A c \in Jobs :
       Alive(c) /\ proc[c].cmd \in Spawning => stage[c] = proc[c].cmd /\ ~Ended(c)

\* The table keeps a preparation only for calls that are under way, so that one
\* that failed can be tried again.
NothingLeaks == pending # 0 => \E c \in Jobs : held[c] = pending

\* A call that says a worktree is prepared is right, whoever prepared it: a
\* directory of somebody else, another branch, or half a checkout is an error.
\* The exception is what a killed add leaves, which a later call takes for a
\* worktree; the call whose add was killed does not.
PreparationsAreSound ==
  /\ OneAtATime /\ NothingLeaks
  /\ \A c \in Jobs :
       /\ answer[c] = "created" => disk = "whole"
       /\ answer[c] = "found" => disk \in {"whole", "torn"}

\* A call waits for a helper, which only git could end: of its own command, or
\* of anybody's if it waits for a preparation.
HeldUp(j) == \E i \in Jobs : proc[i].helper /\ (stage[j] = "inspecting" => i = j)

\* Every preparation and every inspection ends, whatever git does and whoever
\* leaves, or a helper that git has left holds its pipes for ever: the deadline
\* kills git only, and the wait for its pipes has no bound.  An inspection is
\* held up by no helper but its own.
PreparationsEnd ==
  \A j \in Jobs : stage[j] # "idle" ~> stage[j] = "idle" \/ []HeldUp(j)
===============================================================================
