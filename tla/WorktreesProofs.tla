---------------------------- MODULE WorktreesProofs ----------------------------
(* That PreparationsAreSound holds of Worktrees, for any finite set of calls   *)
(* and inspections.                                                            *)
EXTENDS Worktrees, FiniteSetTheorems, TLAPS

\* What git runs is what the call has come to; it starts with a reader, which
\* ends last.
CommandsFollow ==
  \A j \in Jobs :
    /\ stage[j] \in {"stat", "idle", "waiting", "leaving"} => proc[j] = NoProcess
    /\ stage[j] \in Running \ {"stat"} =>
         proc[j].cmd = IF stage[j] = "recheck" THEN "verify" ELSE stage[j]
    /\ stage[j] = "inspecting" => proc[j].cmd = "inspect"
    /\ proc[j].reader = "ended" => ~Runs(j) /\ ~proc[j].helper

\* Calls that prepare or wait hold a cell, and only the cell in the table is not
\* set.
CellsAreHeld ==
  /\ \A c \in Jobs :
       /\ held[c] = 0 <=> stage[c] \in {"idle", "inspecting"}
       /\ stage[c] \in Running => cells[held[c]] = "unset"
       /\ stage[c] = "leaving" => cells[held[c]] # "unset"
       /\ held[c] # 0 /\ cells[held[c]] = "unset" => held[c] = pending
  /\ dropped \subseteq {c \in Jobs : held[c] # 0}

\* Half a checkout is there only while git adds it, and a worktree that was
\* added or verified is there to stay.
DiskIsKnown ==
  /\ disk = "half" => \E j \in Jobs : Adding(j)
  /\ \A j \in Jobs :
       /\ proc[j].cmd \in {"add", "add -b"} /\ proc[j].child = "zero" => disk = "whole"
       /\ proc[j].cmd = "verify" /\ proc[j].child = "zero" => disk \in {"whole", "torn"}
       /\ stage[j] = "verify" => disk = "whole"

\* So is what a cell or an answer says.
ResultsAreTrue ==
  \A c \in Jobs :
    /\ held[c] # 0 =>
         /\ cells[held[c]] = "created" => disk = "whole"
         /\ cells[held[c]] = "found" => disk \in {"whole", "torn"}
    /\ answer[c] = "created" => disk = "whole"
    /\ answer[c] = "found" => disk \in {"whole", "torn"}

\* No two calls prepare at once, and git is done before its call goes on.
OnePrepares == \A c, d \in Jobs : stage[c] \in Running /\ stage[d] \in Running => c = d
GitIsAwaited ==
  \A c \in Jobs :
    Alive(c) /\ proc[c].cmd \in Spawning => stage[c] = proc[c].cmd /\ ~Ended(c)

IInv ==
  /\ TypeOK /\ CommandsFollow /\ CellsAreHeld /\ DiskIsKnown /\ ResultsAreTrue
  /\ OnePrepares /\ NothingLeaks

-----------------------------------------------------------------------------
\* The stages without a command.
Quiet == {"stat", "idle", "waiting", "leaving"}

LEMMA InitHolds == Init => IInv
<1> SUFFICES ASSUME Init PROVE IInv
  OBVIOUS
<1> USE DEF Init
<1>1. NoProcess \in Processes
  BY DEF NoProcess, Processes
<1>2. TypeOK
  BY <1>1 DEF TypeOK, Stages
<1>3. CommandsFollow
  BY DEF CommandsFollow, NoProcess, Running, Runs
<1>4. CellsAreHeld /\ DiskIsKnown /\ ResultsAreTrue
  BY DEF CellsAreHeld, DiskIsKnown, ResultsAreTrue, NoProcess, Running
<1>5. OnePrepares /\ NothingLeaks
  BY DEF OnePrepares, NothingLeaks, Running
<1> QED
  BY <1>2, <1>3, <1>4, <1>5 DEF IInv

(* What the invariant is for: git is awaited because its reader ends last.    *)
LEMMA InvariantSuffices == IInv => PreparationsAreSound
<1> SUFFICES ASSUME IInv PROVE PreparationsAreSound
  OBVIOUS
<1>1. GitIsAwaited
  <2> SUFFICES ASSUME NEW c \in Jobs, Alive(c), proc[c].cmd \in Spawning
               PROVE  stage[c] = proc[c].cmd /\ ~Ended(c)
    BY DEF GitIsAwaited
  <2>1. ~Ended(c)
    BY DEF IInv, CommandsFollow, Alive, Ended
  <2>2. stage[c] \in Stages
    BY DEF IInv, TypeOK
  <2> QED
    <3>1. CASE stage[c] \in {"stat", "idle", "waiting", "leaving"}
      <4>1. proc[c] = NoProcess
        BY <3>1 DEF IInv, CommandsFollow
      <4> QED
        BY <4>1 DEF NoProcess, Spawning
    <3>2. CASE stage[c] \in Running \ {"stat"}
      BY <3>2, <2>1 DEF IInv, CommandsFollow, Spawning
    <3>3. CASE stage[c] = "inspecting"
      BY <3>3 DEF IInv, CommandsFollow, Spawning
    <3> QED
      BY <2>2, <3>1, <3>2, <3>3 DEF Stages
<1> QED
  BY <1>1 DEF IInv, GitIsAwaited, OnePrepares, PreparationsAreSound, OneAtATime, ResultsAreTrue

(* A step of a call that has no command leaves git, and what git does, alone. *)
LEMMA GitIsLeftAlone ==
  ASSUME IInv, NEW c \in Jobs, proc' = proc, disk' = disk,
         stage[c] \in Quiet => stage'[c] \in Quiet,
         stage[c] \notin Quiet => stage'[c] = stage[c],
         \A d \in Jobs \ {c} : stage'[d] = stage[d]
  PROVE  CommandsFollow' /\ DiskIsKnown'
<1>1. ASSUME NEW d \in Jobs
      PROVE  /\ stage'[d] \in {"stat", "idle", "waiting", "leaving"} => proc[d] = NoProcess
             /\ stage'[d] \in Running \ {"stat"} =>
                  proc[d].cmd = IF stage'[d] = "recheck" THEN "verify" ELSE stage'[d]
             /\ stage'[d] = "inspecting" => proc[d].cmd = "inspect"
             /\ proc[d].reader = "ended" => ~Runs(d) /\ ~proc[d].helper
             /\ stage'[d] = "verify" => disk = "whole"
  <2>1. stage'[d] = stage[d] \/ (stage[d] \in Quiet /\ stage'[d] \in Quiet)
    OBVIOUS
  <2>2. CASE stage'[d] = stage[d]
    BY <2>2 DEF IInv, CommandsFollow, DiskIsKnown
  <2>3. CASE stage[d] \in Quiet /\ stage'[d] \in Quiet
    BY <2>3 DEF IInv, CommandsFollow, Quiet, Running
  <2> QED
    BY <2>1, <2>2, <2>3
<1>2. CommandsFollow'
  BY <1>1 DEF CommandsFollow, Runs
<1>3. DiskIsKnown'
  BY <1>1 DEF IInv, DiskIsKnown, Adding, Runs
<1> QED
  BY <1>2, <1>3

(* There are more cells than jobs, so that a call finds one that is free.     *)
LEMMA CellIsUnused ==
  ASSUME held \in [Jobs -> Cells \cup {0}], pending = 0
  PROVE  Unused \in Cells /\ Unused # 0 /\ \A c \in Jobs : held[c] # Unused
<1> DEFINE Used == {held[c] : c \in Jobs}
           n == Cardinality(Jobs)
<1>1. n \in Nat
  BY JobAssumption, FS_CardinalityType
<1>2. IsFiniteSet(Used) /\ Cardinality(Used) =< n /\ Cardinality(Used) \in Nat
  <2>1. held \in Surjection(Jobs, Used)
    BY DEF Surjection
  <2> QED
    BY <2>1, JobAssumption, FS_CardinalityType, FS_Surjection
<1> HIDE DEF n
<1>3. Cardinality(1 .. n + 1) = n + 1
  <2>1. 1 \in Int /\ n + 1 \in Int /\ ~(1 > n + 1) /\ (n + 1) - 1 + 1 = n + 1
    BY <1>1
  <2> QED
    BY ONLY <2>1, FS_Interval
<1>4. ~(1 .. n + 1 \subseteq Used)
  <2>1. ASSUME 1 .. n + 1 \subseteq Used
        PROVE  Cardinality(1 .. n + 1) =< Cardinality(Used)
    BY <1>2, <2>1, FS_Subset
  <2> QED
    BY <1>1, <1>2, <1>3, <2>1
<1>5. \E k \in Cells : k # pending /\ \A c \in Jobs : held[c] # k
  BY <1>1, <1>4 DEF Cells, n
<1> QED
  BY <1>1, <1>5 DEF Unused, Cells, n

(* A call joins the preparation under way, or starts one with a free cell.    *)
LEMMA JoinHolds ==
  ASSUME IInv, NEW c \in Jobs, Join(c)
  PROVE  IInv'
<1> DEFINE k == IF pending # 0 THEN pending ELSE Unused
<1>1. TypeOK
  BY DEF IInv
<1>2. k \in Cells /\ k # 0 /\ (pending = 0 => \A d \in Jobs : held[d] # k)
  <2>1. 0 \notin Cells
    BY JobAssumption, FS_CardinalityType DEF Cells
  <2> QED
    BY <1>1, <2>1, CellIsUnused DEF TypeOK
<1>3. /\ pending' = k /\ held' = [held EXCEPT ![c] = k]
      /\ cells' = IF pending # 0 THEN cells ELSE [cells EXCEPT ![k] = "unset"]
      /\ stage[c] = "idle" /\ stage' = [stage EXCEPT ![c] = "waiting"]
      /\ answer' = [answer EXCEPT ![c] = "none"]
      /\ UNCHANGED <<proc, disk, branch, dropped>>
  BY DEF Join, Go
<1>4. pending # 0 => k = pending /\ \E d \in Jobs : held[d] = k
  BY DEF IInv, NothingLeaks
<1> HIDE DEF k
<1>5. TypeOK'
  BY <1>1, <1>2, <1>3 DEF TypeOK, Stages
<1>6. /\ \A d \in Jobs : held[d] # 0 => cells'[held[d]] = cells[held[d]]
      /\ \A d \in Jobs \ {c} : stage'[d] = stage[d] /\ held'[d] = held[d]
      /\ \A d \in Jobs : answer'[d] \in {answer[d], "none"}
      /\ stage'[c] = "waiting" /\ held'[c] = k
  BY <1>1, <1>2, <1>3 DEF TypeOK
<1>7. CommandsFollow' /\ DiskIsKnown'
  BY <1>3, <1>6, GitIsLeftAlone DEF Quiet
<1>8. CellsAreHeld'
  <2>1. ASSUME NEW d \in Jobs \ {c}
        PROVE  /\ held'[d] = 0 <=> stage'[d] \in {"idle", "inspecting"}
               /\ stage'[d] \in Running => cells'[held'[d]] = "unset"
               /\ stage'[d] = "leaving" => cells'[held'[d]] # "unset"
               /\ held'[d] # 0 /\ cells'[held'[d]] = "unset" => held'[d] = pending'
    <3>1. /\ held[d] = 0 <=> stage[d] \in {"idle", "inspecting"}
          /\ stage[d] \in Running => cells[held[d]] = "unset"
          /\ stage[d] = "leaving" => cells[held[d]] # "unset"
          /\ held[d] # 0 /\ cells[held[d]] = "unset" => held[d] = pending
      BY DEF IInv, CellsAreHeld
    <3>2. stage'[d] = stage[d] /\ held'[d] = held[d]
          /\ (held[d] # 0 => cells'[held[d]] = cells[held[d]])
      BY <1>6
    <3>3. pending # 0 => pending' = pending
      BY <1>3, <1>4
    <3> QED
      BY <3>1, <3>2, <3>3 DEF Running
  <2>2. stage'[c] = "waiting" /\ held'[c] = k /\ k # 0 /\ pending' = k
    BY <1>2, <1>3, <1>6
  <2>3. dropped' \subseteq {d \in Jobs : held'[d] # 0}
    BY <1>2, <1>3, <1>6 DEF IInv, CellsAreHeld
  <2> QED
    BY <2>1, <2>2, <2>3 DEF CellsAreHeld, Running
<1>9. ResultsAreTrue'
  <2>1. /\ cells'[k] = "created" => disk = "whole"
        /\ cells'[k] = "found" => disk \in {"whole", "torn"}
    <3>1. CASE pending = 0
      BY <1>1, <1>2, <1>3, <3>1 DEF TypeOK
    <3>2. CASE pending # 0
      <4>1. cells' = cells
        BY <1>3, <3>2
      <4>2. PICK d \in Jobs : held[d] = k
        BY <1>4, <3>2
      <4> QED
        BY <1>2, <4>1, <4>2 DEF IInv, ResultsAreTrue
    <3> QED
      BY <3>1, <3>2
  <2>2. disk' = disk
    BY <1>3
  <2> QED
    BY <1>6, <2>1, <2>2 DEF IInv, ResultsAreTrue
<1>10. OnePrepares' /\ NothingLeaks'
  BY <1>3, <1>6 DEF IInv, OnePrepares, NothingLeaks, Running
<1> QED
  BY <1>5, <1>7, <1>8, <1>9, <1>10 DEF IInv

(* Calls that prepare, share, fail at once or lose their client keep their    *)
(* cells as they are.                                                         *)
LEMMA CallHolds ==
  ASSUME IInv, NEW c \in Jobs, Invalid(c) \/ Prepare(c) \/ Share(c) \/ Drop(c)
  PROVE  IInv'
<1> USE DEF Invalid, Prepare, Share, Drop, Go
<1>1. TypeOK
  BY DEF IInv
<1>2. TypeOK'
  BY <1>1 DEF TypeOK, Stages, Running
<1>3. /\ proc' = proc /\ disk' = disk /\ pending' = pending /\ held' = held /\ cells' = cells
      /\ \A d \in Jobs \ {c} : stage'[d] = stage[d]
      /\ \A d \in Jobs : answer'[d] \in {answer[d], "none"}
      /\ \/ stage'[c] = stage[c]
         \/ /\ stage[c] = "waiting" /\ stage'[c] = "stat"
            /\ cells[held[c]] = "unset" /\ ~InFlight(held[c])
         \/ stage[c] = "waiting" /\ stage'[c] = "leaving" /\ cells[held[c]] # "unset"
      /\ dropped' \subseteq dropped \cup {d \in {c} : held[d] # 0}
  BY <1>1 DEF TypeOK
<1>4. CommandsFollow' /\ DiskIsKnown'
  BY <1>3, GitIsLeftAlone DEF Quiet
<1>5. CellsAreHeld'
  <2>1. ASSUME NEW d \in Jobs
        PROVE  /\ held[d] = 0 <=> stage'[d] \in {"idle", "inspecting"}
               /\ stage'[d] \in Running => cells[held[d]] = "unset"
               /\ stage'[d] = "leaving" => cells[held[d]] # "unset"
               /\ held[d] # 0 /\ cells[held[d]] = "unset" => held[d] = pending
    <3>1. CASE stage'[d] = stage[d]
      BY <3>1 DEF IInv, CellsAreHeld
    <3>2. CASE stage'[d] # stage[d]
      BY <1>3, <3>2 DEF IInv, CellsAreHeld, Running
    <3> QED
      BY <3>1, <3>2
  <2>2. dropped' \subseteq {d \in Jobs : held[d] # 0}
    BY <1>3 DEF IInv, CellsAreHeld
  <2> QED
    BY <1>3, <2>1, <2>2 DEF CellsAreHeld
<1>6. ResultsAreTrue' /\ NothingLeaks'
  BY <1>3 DEF IInv, ResultsAreTrue, NothingLeaks
<1>7. OnePrepares'
  <2>1. ASSUME NEW d \in Jobs \ {c}, stage[d] \in Running, stage[c] = "waiting",
               cells[held[c]] = "unset", ~InFlight(held[c])
        PROVE  FALSE
    <3>1. held[c] # 0 /\ held[d] # 0 /\ cells[held[d]] = "unset"
      BY <2>1 DEF IInv, CellsAreHeld, Running
    <3>2. held[c] = pending /\ held[d] = pending
      BY <2>1, <3>1 DEF IInv, CellsAreHeld
    <3> QED
      BY <2>1, <3>2 DEF InFlight
  <2>2. ASSUME NEW d \in Jobs, NEW e \in Jobs, d # e, stage'[d] \in Running, stage'[e] \in Running
        PROVE  FALSE
    <3>1. stage'[c] = stage[c] \/ stage'[c] \notin Running
          \/ (stage[c] = "waiting" /\ cells[held[c]] = "unset" /\ ~InFlight(held[c]))
      BY <1>3 DEF Running
    <3> QED
      BY <1>3, <2>1, <2>2, <3>1 DEF IInv, OnePrepares
  <2> QED
    BY <2>2 DEF OnePrepares
<1> QED
  BY <1>2, <1>4, <1>5, <1>6, <1>7 DEF IInv

(* A call that leaves takes its own preparation out of the table; all who     *)
(* share it have its result.                                                  *)
LEMMA LeaveHolds ==
  ASSUME IInv, NEW c \in Jobs, Leave(c)
  PROVE  IInv'
<1> USE DEF Leave, Go
<1>1. TypeOK
  BY DEF IInv
<1>2. /\ proc' = proc /\ disk' = disk /\ cells' = cells
      /\ pending' = IF pending = held[c] THEN 0 ELSE pending
      /\ \A d \in Jobs \ {c} : stage'[d] = stage[d] /\ held'[d] = held[d] /\ answer'[d] = answer[d]
      /\ stage[c] = "leaving" /\ stage'[c] = "idle" /\ held'[c] = 0
      /\ answer'[c] \in {cells[held[c]], "none"}
      /\ dropped' = dropped \ {c}
  BY <1>1 DEF TypeOK, Remaining
<1>3. held[c] # 0 /\ cells[held[c]] # "unset"
  BY <1>2 DEF IInv, CellsAreHeld
<1>4. TypeOK'
  <2>1. held[c] \in Cells /\ cells[held[c]] \in {"failed", "found", "created"}
    BY <1>1, <1>3 DEF TypeOK
  <2>2. answer' \in [Jobs -> {"none", "found", "created"}]
    BY <1>1, <2>1 DEF TypeOK
  <2> QED
    BY <1>1, <1>2, <2>2 DEF TypeOK, Stages
<1>5. CommandsFollow' /\ DiskIsKnown'
  BY <1>2, GitIsLeftAlone DEF Quiet
<1>6. CellsAreHeld'
  <2>1. ASSUME NEW d \in Jobs \ {c}
        PROVE  /\ held[d] = 0 <=> stage[d] \in {"idle", "inspecting"}
               /\ stage[d] \in Running => cells[held[d]] = "unset"
               /\ stage[d] = "leaving" => cells[held[d]] # "unset"
               /\ held[d] # 0 /\ cells[held[d]] = "unset" => held[d] = pending
    BY DEF IInv, CellsAreHeld
  <2>2. ASSUME NEW d \in Jobs \ {c}, held[d] # 0, cells[held[d]] = "unset"
        PROVE  held[d] = pending'
    BY <1>2, <1>3, <2>1, <2>2
  <2>3. dropped' \subseteq {d \in Jobs : held'[d] # 0}
    BY <1>2 DEF IInv, CellsAreHeld
  <2>4. ASSUME NEW d \in Jobs
        PROVE  /\ held'[d] = 0 <=> stage'[d] \in {"idle", "inspecting"}
               /\ stage'[d] \in Running => cells[held'[d]] = "unset"
               /\ stage'[d] = "leaving" => cells[held'[d]] # "unset"
               /\ held'[d] # 0 /\ cells[held'[d]] = "unset" => held'[d] = pending'
    <3>1. CASE d = c
      BY <1>2, <3>1 DEF Running
    <3>2. CASE d # c
      <4>1. d \in Jobs \ {c} /\ stage'[d] = stage[d] /\ held'[d] = held[d]
        BY <1>2, <3>2
      <4> QED
        BY <2>1, <2>2, <4>1
    <3> QED
      BY <3>1, <3>2
  <2> QED
    BY <1>2, <2>3, <2>4 DEF CellsAreHeld
<1>7. ResultsAreTrue'
  <2>1. ASSUME NEW d \in Jobs
        PROVE  /\ held'[d] # 0 =>
                    /\ cells[held'[d]] = "created" => disk = "whole"
                    /\ cells[held'[d]] = "found" => disk \in {"whole", "torn"}
               /\ answer'[d] = "created" => disk = "whole"
               /\ answer'[d] = "found" => disk \in {"whole", "torn"}
    <3>1. CASE d = c
      BY <1>2, <1>3, <3>1 DEF IInv, ResultsAreTrue
    <3>2. CASE d # c
      BY <1>2, <3>2 DEF IInv, ResultsAreTrue
    <3> QED
      BY <3>1, <3>2
  <2> QED
    BY <1>2, <2>1 DEF ResultsAreTrue
<1>8. OnePrepares'
  <2>1. \A d \in Jobs : stage'[d] \in Running => stage[d] \in Running
    BY <1>2 DEF Running
  <2> QED
    BY <2>1 DEF IInv, OnePrepares
<1>9. NothingLeaks'
  <2> SUFFICES ASSUME pending' # 0 PROVE \E d \in Jobs : held'[d] = pending'
    BY DEF NothingLeaks
  <2>1. pending' = pending /\ pending # held[c]
    BY <1>2
  <2>2. PICK d \in Jobs : held[d] = pending
    BY <2>1 DEF IInv, NothingLeaks
  <2> QED
    BY <1>2, <2>1, <2>2
<1> QED
  BY <1>4, <1>5, <1>6, <1>7, <1>8, <1>9 DEF IInv

-----------------------------------------------------------------------------
LEMMA NothingRuns ==
  /\ NoProcess \in Processes
  /\ NoProcess.cmd = "none" /\ NoProcess.child = "none"
  /\ ~NoProcess.helper /\ ~NoProcess.unread
  BY DEF NoProcess, Processes

(* A call runs its next command.                                              *)
LEMMA ExecuteHolds ==
  ASSUME IInv, NEW c \in Jobs, NEW s \in Running \ {"stat"},
         stage[c] \in Running, ~Runs(c), Execute(c, s), UNCHANGED Others,
         s = "verify" => disk = "whole"
  PROVE  IInv'
<1> DEFINE cmd == IF s = "recheck" THEN "verify" ELSE s
           p == [NoProcess EXCEPT !.cmd = cmd, !.child = "running", !.reader = "reading"]
<1>1. TypeOK
  BY DEF IInv
<1>2. cmd \in Commands
  BY DEF Running, Commands, Spawning
<1>3. /\ p \in Processes /\ p.cmd = cmd /\ p.child = "running" /\ p.reader = "reading"
  BY <1>2 DEF Processes, NoProcess
<1> HIDE DEF p
<1>4. proc' = [proc EXCEPT ![c] = p] /\ stage' = [stage EXCEPT ![c] = s]
  BY DEF Execute, Go, Launch, Set, p
<1>5. TypeOK'
  BY <1>1, <1>3, <1>4 DEF TypeOK, Stages, Execute, Others
<1>6. /\ \A d \in Jobs \ {c} : proc'[d] = proc[d] /\ stage'[d] = stage[d]
      /\ proc'[c] = p /\ stage'[c] = s
      /\ disk' = disk /\ pending' = pending /\ held' = held /\ cells' = cells
      /\ answer' = answer /\ dropped' = dropped
  BY <1>1, <1>4 DEF TypeOK, Execute, Others
<1>7. CommandsFollow'
  <2>1. ASSUME NEW d \in Jobs
        PROVE  /\ stage'[d] \in {"stat", "idle", "waiting", "leaving"} => proc'[d] = NoProcess
               /\ stage'[d] \in Running \ {"stat"} =>
                    proc'[d].cmd = IF stage'[d] = "recheck" THEN "verify" ELSE stage'[d]
               /\ stage'[d] = "inspecting" => proc'[d].cmd = "inspect"
               /\ proc'[d].reader = "ended" => proc'[d].child # "running" /\ ~proc'[d].helper
    <3>1. CASE d = c
      BY <1>3, <1>6, <3>1 DEF Running
    <3>2. CASE d # c
      BY <1>6, <3>2 DEF IInv, CommandsFollow, Runs
    <3> QED
      BY <3>1, <3>2
  <2> QED
    BY <2>1 DEF CommandsFollow, Runs
<1>8. DiskIsKnown'
  <2>1. ASSUME NEW d \in Jobs
        PROVE  /\ proc'[d].cmd \in {"add", "add -b"} /\ proc'[d].child = "zero" => disk = "whole"
               /\ proc'[d].cmd = "verify" /\ proc'[d].child = "zero" => disk \in {"whole", "torn"}
               /\ stage'[d] = "verify" => disk = "whole"
    <3>1. CASE d = c
      BY <1>3, <1>6, <3>1
    <3>2. CASE d # c
      BY <1>6, <3>2 DEF IInv, DiskIsKnown
    <3> QED
      BY <3>1, <3>2
  <2>2. disk = "half" => \E j \in Jobs \ {c} : proc[j].cmd \in {"add", "add -b"} /\ proc[j].child = "running"
    BY DEF IInv, DiskIsKnown, Adding, Runs
  <2> QED
    BY <1>6, <2>1, <2>2 DEF DiskIsKnown, Adding, Runs
<1>9. CellsAreHeld'
  <2>1. ASSUME NEW d \in Jobs
        PROVE  /\ held[d] = 0 <=> stage'[d] \in {"idle", "inspecting"}
               /\ stage'[d] \in Running => cells[held[d]] = "unset"
               /\ stage'[d] = "leaving" => cells[held[d]] # "unset"
               /\ held[d] # 0 /\ cells[held[d]] = "unset" => held[d] = pending
    <3>1. CASE d = c
      BY <1>6, <3>1 DEF IInv, CellsAreHeld, Running
    <3>2. CASE d # c
      BY <1>6, <3>2 DEF IInv, CellsAreHeld
    <3> QED
      BY <3>1, <3>2
  <2> QED
    BY <1>6, <2>1 DEF IInv, CellsAreHeld
<1>10. ResultsAreTrue' /\ NothingLeaks'
  BY <1>6 DEF IInv, ResultsAreTrue, NothingLeaks
<1>11. OnePrepares'
  <2>1. \A d \in Jobs : stage'[d] \in Running => stage[d] \in Running
    BY <1>6
  <2> QED
    BY <2>1 DEF IInv, OnePrepares
<1> QED
  BY <1>5, <1>7, <1>8, <1>9, <1>10, <1>11 DEF IInv

(* A call concludes its preparation, for all who hold the cell.               *)
LEMMA ConcludeHolds ==
  ASSUME IInv, NEW c \in Jobs, NEW r \in {"failed", "found", "created"},
         stage[c] \in Running, ~Runs(c), Conclude(c, r), UNCHANGED Others,
         r = "created" => disk = "whole", r = "found" => disk \in {"whole", "torn"}
  PROVE  IInv'
<1>1. TypeOK
  BY DEF IInv
<1>2. held[c] \in Cells /\ cells[held[c]] = "unset" /\ held[c] = pending
  BY <1>1 DEF IInv, CellsAreHeld, TypeOK, Running
<1>3. /\ cells' = [cells EXCEPT ![held[c]] = r] /\ stage' = [stage EXCEPT ![c] = "leaving"]
      /\ proc' = [proc EXCEPT ![c] = NoProcess]
  BY DEF Conclude, Go
<1>4. TypeOK'
  BY <1>1, <1>2, <1>3, NothingRuns DEF TypeOK, Stages, Others
<1>5. /\ \A d \in Jobs \ {c} : proc'[d] = proc[d] /\ stage'[d] = stage[d]
      /\ proc'[c] = NoProcess /\ stage'[c] = "leaving"
      /\ disk' = disk /\ pending' = pending /\ held' = held /\ cells'[pending] = r
      /\ answer' = answer /\ dropped' = dropped
      /\ \A d \in Jobs : held[d] # 0 /\ held[d] # pending => cells'[held[d]] = cells[held[d]]
  BY <1>1, <1>2, <1>3 DEF TypeOK, Others
<1>6. CommandsFollow'
  <2>1. ASSUME NEW d \in Jobs
        PROVE  /\ stage'[d] \in {"stat", "idle", "waiting", "leaving"} => proc'[d] = NoProcess
               /\ stage'[d] \in Running \ {"stat"} =>
                    proc'[d].cmd = IF stage'[d] = "recheck" THEN "verify" ELSE stage'[d]
               /\ stage'[d] = "inspecting" => proc'[d].cmd = "inspect"
               /\ proc'[d].reader = "ended" => proc'[d].child # "running" /\ ~proc'[d].helper
    <3>1. CASE d = c
      BY <1>5, <3>1, NothingRuns DEF Running
    <3>2. CASE d # c
      BY <1>5, <3>2 DEF IInv, CommandsFollow, Runs
    <3> QED
      BY <3>1, <3>2
  <2> QED
    BY <2>1 DEF CommandsFollow, Runs
<1>7. DiskIsKnown'
  <2>1. ASSUME NEW d \in Jobs
        PROVE  /\ proc'[d].cmd \in {"add", "add -b"} /\ proc'[d].child = "zero" => disk = "whole"
               /\ proc'[d].cmd = "verify" /\ proc'[d].child = "zero" => disk \in {"whole", "torn"}
               /\ stage'[d] = "verify" => disk = "whole"
    <3>1. CASE d = c
      BY <1>5, <3>1, NothingRuns
    <3>2. CASE d # c
      BY <1>5, <3>2 DEF IInv, DiskIsKnown
    <3> QED
      BY <3>1, <3>2
  <2>2. disk = "half" => \E j \in Jobs \ {c} : proc[j].cmd \in {"add", "add -b"} /\ proc[j].child = "running"
    BY DEF IInv, DiskIsKnown, Adding, Runs
  <2> QED
    BY <1>5, <2>1, <2>2 DEF DiskIsKnown, Adding, Runs
<1>8. \A d \in Jobs \ {c} : stage[d] \notin Running
  BY DEF IInv, OnePrepares
<1>9. CellsAreHeld'
  <2>1. ASSUME NEW d \in Jobs
        PROVE  /\ held[d] = 0 <=> stage'[d] \in {"idle", "inspecting"}
               /\ stage'[d] \in Running => cells'[held[d]] = "unset"
               /\ stage'[d] = "leaving" => cells'[held[d]] # "unset"
               /\ held[d] # 0 /\ cells'[held[d]] = "unset" => held[d] = pending
    <3>1. CASE d = c
      BY <1>2, <1>5, <3>1 DEF IInv, CellsAreHeld, Running
    <3>2. CASE d # c
      <4>1. stage'[d] = stage[d] /\ stage[d] \notin Running
        BY <1>5, <1>8, <3>2
      <4>2. CASE held[d] = pending
        BY <1>2, <1>5, <4>1, <4>2 DEF IInv, CellsAreHeld
      <4>3. CASE held[d] # pending
        BY <1>5, <4>1, <4>3 DEF IInv, CellsAreHeld
      <4> QED
        BY <4>2, <4>3
    <3> QED
      BY <3>1, <3>2
  <2> QED
    BY <1>5, <2>1 DEF IInv, CellsAreHeld
<1>10. ResultsAreTrue' /\ NothingLeaks'
  BY <1>5 DEF IInv, ResultsAreTrue, NothingLeaks
<1>11. OnePrepares'
  <2>1. \A d \in Jobs : stage'[d] \in Running => stage[d] \in Running
    BY <1>5 DEF Running
  <2> QED
    BY <2>1 DEF IInv, OnePrepares
<1> QED
  BY <1>4, <1>6, <1>7, <1>9, <1>10, <1>11 DEF IInv

(* The path is looked at.                                                     *)
LEMMA StatHolds ==
  ASSUME IInv, NEW c \in Jobs, Stat(c)
  PROVE  IInv'
<1>1. stage[c] = "stat" /\ stage[c] \in Running /\ UNCHANGED Others
  BY DEF Stat, Running
<1>2. ~Runs(c)
  BY <1>1, NothingRuns DEF IInv, CommandsFollow, Runs
<1>3. ASSUME NEW s \in {"recheck", "get-url", "base"}, Execute(c, s)
      PROVE  IInv'
  <2>1. s \in Running \ {"stat"} /\ s # "verify"
    BY DEF Running
  <2> QED
    BY <1>1, <1>2, <1>3, <2>1, ExecuteHolds
<1>4. CASE Conclude(c, "failed")
  BY <1>1, <1>2, <1>4, ConcludeHolds
<1> QED
  BY <1>3, <1>4 DEF Stat

(* A command is over.  Nobody else prepares, so that no checkout is half done *)
(* when this one is taken for a worktree.                                     *)
LEMMA ProceedHolds ==
  ASSUME IInv, NEW c \in Jobs, Proceed(c)
  PROVE  IInv'
<1>1. stage[c] \in Running \ {"stat"} /\ ~Runs(c) /\ UNCHANGED Others
  BY DEF Proceed, Ended
<1>2. stage[c] = "verify" => disk = "whole"
  BY DEF IInv, DiskIsKnown
<1>3. CASE Conclude(c, "failed")
  BY <1>1, <1>3, ConcludeHolds
<1>4. CASE stage[c] = "verify" /\ Conclude(c, "created")
  BY <1>1, <1>2, <1>4, ConcludeHolds
<1>5. CASE Result(c) # "failed" /\ stage[c] = "recheck" /\ Conclude(c, "found")
  <2>1. proc[c].cmd = "verify"
    BY <1>5, <1>1 DEF IInv, CommandsFollow
  <2>2. proc[c].child = "zero"
    BY <1>5, <2>1 DEF Result, Accepts
  <2>3. disk \in {"whole", "torn"}
    BY <2>1, <2>2 DEF IInv, DiskIsKnown
  <2> QED
    BY <1>1, <1>5, <2>3, ConcludeHolds
<1>6. CASE /\ Result(c) # "failed" /\ stage[c] \notin {"verify", "recheck"}
           /\ Execute(c, After(stage[c], Result(c)))
  <2>1. After(stage[c], Result(c)) \in Running \ {"stat"}
    BY <1>1, <1>6 DEF After, Running
  <2>2. ASSUME After(stage[c], Result(c)) = "verify"
        PROVE  disk = "whole"
    <3>1. stage[c] \in {"add", "add -b"}
      BY <1>1, <1>6, <2>2 DEF After, Running
    <3>2. proc[c].cmd = stage[c]
      BY <1>1, <3>1 DEF IInv, CommandsFollow
    <3>3. proc[c].child = "zero"
      BY <1>6, <3>1, <3>2 DEF Result, Accepts
    <3> QED
      BY <3>1, <3>2, <3>3 DEF IInv, DiskIsKnown
  <2> QED
    BY <1>1, <1>6, <2>1, <2>2, ExecuteHolds
<1> QED
  BY <1>3, <1>4, <1>5, <1>6 DEF Proceed

-----------------------------------------------------------------------------
(* git works at a stage of a call.                                            *)
LEMMA StageOfCommand ==
  ASSUME IInv, NEW j \in Jobs, proc[j].cmd \in {"add", "add -b", "verify"}
  PROVE  stage[j] \in Running
<1>1. stage[j] \in Stages
  BY DEF IInv, TypeOK
<1>2. stage[j] \notin {"stat", "idle", "waiting", "leaving"}
  BY NothingRuns DEF IInv, CommandsFollow
<1>3. stage[j] # "inspecting"
  BY DEF IInv, CommandsFollow
<1> QED
  BY <1>1, <1>2, <1>3 DEF Stages

(* A step of git keeps the invariant if it keeps what is on disk known.       *)
LEMMA GitStepHolds ==
  ASSUME IInv, UNCHANGED manager,
         branch' \in BOOLEAN, disk' \in {"absent", "foreign", "half", "torn", "whole"},
         proc' \in [Jobs -> Processes],
         \A d \in Jobs : /\ proc'[d].cmd = proc[d].cmd
                         /\ proc[d] = NoProcess => proc'[d] = NoProcess
                         /\ proc'[d].reader = "ended" =>
                              proc'[d].child # "running" /\ ~proc'[d].helper,
         disk \in {"whole", "torn"} => disk' = disk,
         DiskIsKnown'
  PROVE  IInv'
<1>1. TypeOK'
  BY DEF IInv, TypeOK, manager
<1>2. CommandsFollow'
  BY DEF IInv, CommandsFollow, Runs, manager
<1>3. CellsAreHeld' /\ OnePrepares' /\ NothingLeaks'
  BY DEF IInv, CellsAreHeld, OnePrepares, NothingLeaks, manager
<1>4. ResultsAreTrue'
  BY DEF IInv, ResultsAreTrue, manager
<1> QED
  BY <1>1, <1>2, <1>3, <1>4 DEF IInv

(* Printing, helpers and readers change nothing on disk; the reader ends when *)
(* the command and its helper have.                                           *)
LEMMA PipesHolds ==
  ASSUME IInv, NEW j \in Jobs, Pipes(j)
  PROVE  IInv'
<1>1. proc \in [Jobs -> Processes] /\ proc[j] \in Processes
  BY DEF IInv, TypeOK
<1>2. PICK p : /\ proc' = [proc EXCEPT ![j] = p] /\ p \in Processes
               /\ p.cmd = proc[j].cmd /\ p.child = proc[j].child /\ proc[j] # NoProcess
               /\ p.reader = "ended" => p.child # "running" /\ ~p.helper
  <2> USE DEF Set, Runs
  <2>0. proc[j].reader = "ended" => proc[j].child # "running" /\ ~proc[j].helper
    BY DEF IInv, CommandsFollow
  <2>1. CASE Emit(j)
    <3> DEFINE q == [proc[j] EXCEPT !.unread = TRUE]
    <3>1. /\ q \in Processes /\ q.cmd = proc[j].cmd /\ q.child = proc[j].child
          /\ q.reader = proc[j].reader /\ q.helper = proc[j].helper
      BY <1>1 DEF Processes
    <3>2. proc' = [proc EXCEPT ![j] = q] /\ proc[j] # NoProcess
      BY <2>1 DEF Emit, NoProcess
    <3> HIDE DEF q
    <3> QED
      BY <1>1, <2>0, <2>1, <3>1, <3>2 DEF Emit, Alive
  <2>2. CASE Spawn(j)
    <3> DEFINE q == [proc[j] EXCEPT !.helper = TRUE]
    <3>1. /\ q \in Processes /\ q.cmd = proc[j].cmd /\ q.child = proc[j].child
          /\ q.reader = proc[j].reader /\ q.helper
      BY <1>1 DEF Processes
    <3>2. proc' = [proc EXCEPT ![j] = q] /\ proc[j] # NoProcess
      BY <2>2 DEF Spawn, NoProcess
    <3> HIDE DEF q
    <3> QED
      BY <1>1, <2>0, <2>2, <3>1, <3>2 DEF Spawn, Alive
  <2>3. CASE HelperEnds(j)
    <3> DEFINE q == [proc[j] EXCEPT !.helper = FALSE]
    <3>1. /\ q \in Processes /\ q.cmd = proc[j].cmd /\ q.child = proc[j].child
          /\ q.reader = proc[j].reader /\ q.helper = FALSE
      BY <1>1 DEF Processes
    <3>2. proc' = [proc EXCEPT ![j] = q] /\ proc[j] # NoProcess
      BY <2>3 DEF HelperEnds, NoProcess
    <3> HIDE DEF q
    <3> QED
      BY <1>1, <2>0, <2>3, <3>1, <3>2 DEF HelperEnds, Alive
  <2>4. CASE Read(j)
    <3>0. PICK bad \in BOOLEAN :
            Set(j, [proc[j] EXCEPT !.unread = FALSE, !.failed = @ \/ bad])
      BY <2>4 DEF Read
    <3> DEFINE q == [proc[j] EXCEPT !.unread = FALSE, !.failed = @ \/ bad]
    <3>1. /\ q \in Processes /\ q.cmd = proc[j].cmd /\ q.child = proc[j].child
          /\ q.reader = proc[j].reader /\ q.helper = proc[j].helper
      BY <1>1, <3>0 DEF Processes
    <3>2. proc' = [proc EXCEPT ![j] = q] /\ proc[j] # NoProcess
      <4>1. proc[j].unread
        BY <2>4 DEF Read
      <4>2. proc[j] # NoProcess
        BY <4>1, NothingRuns
      <4> QED
        BY <3>0, <4>2
    <3> HIDE DEF q
    <3> QED
      BY <1>1, <2>0, <2>4, <3>1, <3>2 DEF Read, Alive
  <2>5. CASE ReaderEnds(j)
    <3> DEFINE q == [proc[j] EXCEPT !.reader = "ended"]
    <3>1. /\ q \in Processes /\ q.cmd = proc[j].cmd /\ q.child = proc[j].child
          /\ q.reader = "ended" /\ q.helper = proc[j].helper
      BY <1>1 DEF Processes
    <3>2. proc' = [proc EXCEPT ![j] = q] /\ proc[j] # NoProcess
      BY <2>5 DEF ReaderEnds, NoProcess
    <3> HIDE DEF q
    <3> QED
      BY <1>1, <2>0, <2>5, <3>1, <3>2 DEF ReaderEnds, Alive
  <2> QED
    BY <2>1, <2>2, <2>3, <2>4, <2>5 DEF Pipes
<1>3. \A d \in Jobs \ {j} : proc'[d] = proc[d]
  BY <1>1, <1>2
<1>4. proc'[j] = p
  BY <1>1, <1>2
<1>5. proc' \in [Jobs -> Processes]
  BY <1>1, <1>2
<1>6. DiskIsKnown'
  <2>1. disk' = disk /\ stage' = stage
    BY DEF Pipes, manager
  <2>2. \A d \in Jobs : proc'[d].cmd = proc[d].cmd /\ proc'[d].child = proc[d].child
    BY <1>2, <1>3, <1>4
  <2> QED
    BY <2>1, <2>2 DEF IInv, DiskIsKnown, Adding, Runs
<1>7. \A d \in Jobs : /\ proc'[d].cmd = proc[d].cmd
                      /\ proc[d] = NoProcess => proc'[d] = NoProcess
                      /\ proc'[d].reader = "ended" =>
                           proc'[d].child # "running" /\ ~proc'[d].helper
  BY <1>2, <1>3, <1>4 DEF IInv, CommandsFollow, Runs
<1>8. /\ branch' \in BOOLEAN /\ disk' \in {"absent", "foreign", "half", "torn", "whole"}
      /\ disk' = disk /\ UNCHANGED manager
  BY DEF IInv, TypeOK, Pipes
<1> QED
  BY <1>5, <1>6, <1>7, <1>8, GitStepHolds

(* Adding begins a checkout, and nobody else works on the path.               *)
LEMMA WorkHolds ==
  ASSUME IInv, NEW j \in Jobs, Work(j)
  PROVE  IInv'
<1>1. /\ proc' = proc /\ UNCHANGED manager /\ Adding(j)
      /\ disk' \in {disk, "half"} /\ (disk' # disk => disk = "absent") /\ branch' \in BOOLEAN
  BY DEF Work, IInv, TypeOK
<1>2. \A d \in Jobs : /\ proc[d].child = "zero" /\ proc[d].cmd \in {"add", "add -b"} => disk' = "whole"
                      /\ proc[d].child = "zero" /\ proc[d].cmd = "verify" => disk' \in {"whole", "torn"}
                      /\ stage[d] = "verify" => disk' = "whole"
  BY <1>1 DEF IInv, DiskIsKnown
<1>3. DiskIsKnown'
  BY <1>1, <1>2 DEF DiskIsKnown, Adding, Runs, manager
<1>4. proc' \in [Jobs -> Processes]
  BY <1>1 DEF IInv, TypeOK
<1>5. disk' \in {"absent", "foreign", "half", "torn", "whole"}
  BY <1>1 DEF IInv, TypeOK
<1>6. \A d \in Jobs : proc'[d].reader = "ended" => proc'[d].child # "running" /\ ~proc'[d].helper
  BY <1>1 DEF IInv, CommandsFollow, Runs
<1> QED
  BY <1>1, <1>3, <1>4, <1>5, <1>6, GitStepHolds

(* A command ends.  One that verified did not see half a checkout: whoever    *)
(* adds one prepares, and so does who verifies.                               *)
LEMMA FinishHolds ==
  ASSUME IInv, NEW j \in Jobs, Finish(j)
  PROVE  IInv'
<1>1. proc \in [Jobs -> Processes] /\ proc[j] \in Processes /\ proc[j].child = "running"
  BY DEF IInv, TypeOK, Finish, Exit, Runs
<1>2. PICK code \in {"zero", "other", "broken"} :
        /\ proc' = [proc EXCEPT ![j] = [proc[j] EXCEPT !.child = code]]
        /\ code # "broken" => /\ code \in Accepts(proc[j].cmd) /\ Succeeds(j, code)
                              /\ disk' = IF Adding(j) THEN "whole" ELSE disk
        /\ code = "broken" => disk' = IF Adding(j) /\ disk = "half" THEN "absent" ELSE disk
  <2>1. Accepts(proc[j].cmd) \subseteq {"zero", "other"}
    BY DEF Accepts
  <2>2. CASE \E code \in Accepts(proc[j].cmd) :
               /\ Succeeds(j, code) /\ Exit(j, code)
               /\ disk' = IF Adding(j) THEN "whole" ELSE disk
    BY <2>1, <2>2 DEF Exit, Set
  <2>3. CASE /\ Exit(j, "broken")
             /\ disk' = IF Adding(j) /\ disk = "half" THEN "absent" ELSE disk
    BY <2>3 DEF Exit, Set
  <2> QED
    BY <2>2, <2>3 DEF Finish
<1> DEFINE p == [proc[j] EXCEPT !.child = code]
<1>3. /\ p \in Processes /\ p.cmd = proc[j].cmd /\ p.child = code
      /\ p.reader = proc[j].reader /\ p.helper = proc[j].helper
  BY <1>1 DEF Processes
<1>4. proc' = [proc EXCEPT ![j] = p]
  BY <1>2
<1> HIDE DEF p
<1>5. /\ proc' \in [Jobs -> Processes] /\ proc'[j] = p
      /\ \A d \in Jobs \ {j} : proc'[d] = proc[d]
  BY <1>1, <1>3, <1>4
<1>6. \A d \in Jobs : /\ proc'[d].cmd = proc[d].cmd
                      /\ proc[d] = NoProcess => proc'[d] = NoProcess
                      /\ proc'[d].reader = "ended" =>
                           proc'[d].child # "running" /\ ~proc'[d].helper
  BY <1>1, <1>2, <1>3, <1>5, NothingRuns DEF IInv, CommandsFollow, Runs
<1>7. UNCHANGED manager /\ branch' \in BOOLEAN
  BY DEF Finish, IInv, TypeOK
<1>8. /\ disk' \in {"absent", "foreign", "half", "torn", "whole"}
      /\ disk \in {"whole", "torn"} => disk' = disk
      /\ Adding(j) => disk' # "half"
      /\ ~Adding(j) => disk' = disk
      /\ Adding(j) /\ code = "zero" => disk' = "whole"
  <2>1. CASE Adding(j) /\ code # "broken"
    <3>1. proc[j].cmd \notin {"show-ref", "verify"}
      BY <2>1 DEF Adding
    <3>2. disk = "half"
      BY <1>2, <2>1, <3>1 DEF Succeeds
    <3> QED
      BY <1>2, <2>1, <3>2
  <2>2. CASE Adding(j) /\ code = "broken"
    BY <1>2, <2>2 DEF IInv, TypeOK
  <2>3. CASE ~Adding(j)
    BY <1>2, <2>3 DEF IInv, TypeOK
  <2> QED
    BY <2>1, <2>2, <2>3
<1>9. ASSUME code = "zero", proc[j].cmd = "verify"
      PROVE  disk' \in {"whole", "torn"}
  <2>1. disk \in {"whole", "torn", "half"}
    BY <1>2, <1>9 DEF Succeeds
  <2>2. disk # "half"
    <3>1. ASSUME NEW i \in Jobs, Adding(i) PROVE FALSE
      <4>1. i # j
        BY <1>9, <3>1 DEF Adding
      <4>2. stage[i] \in Running /\ stage[j] \in Running
        BY <1>9, <3>1, StageOfCommand DEF Adding
      <4> QED
        BY <4>1, <4>2 DEF IInv, OnePrepares
    <3> QED
      BY <3>1 DEF IInv, DiskIsKnown
  <2> QED
    BY <1>8, <1>9, <2>1, <2>2 DEF Adding
<1>10. DiskIsKnown'
  <2>1. ASSUME disk' = "half"
        PROVE  \E i \in Jobs : proc'[i].cmd \in {"add", "add -b"} /\ proc'[i].child = "running"
    <3>1. disk = "half" /\ ~Adding(j)
      BY <1>8, <2>1
    <3>2. PICK i \in Jobs : Adding(i)
      BY <3>1 DEF IInv, DiskIsKnown
    <3> QED
      BY <1>5, <3>1, <3>2 DEF Adding, Runs
  <2>2. ASSUME NEW d \in Jobs
        PROVE  /\ proc'[d].cmd \in {"add", "add -b"} /\ proc'[d].child = "zero" => disk' = "whole"
               /\ proc'[d].cmd = "verify" /\ proc'[d].child = "zero" => disk' \in {"whole", "torn"}
               /\ stage[d] = "verify" => disk' = "whole"
    <3>1. stage[d] = "verify" => disk' = "whole"
      BY <1>8 DEF IInv, DiskIsKnown
    <3>2. CASE d # j
      BY <1>5, <1>8, <3>1, <3>2 DEF IInv, DiskIsKnown
    <3>3. CASE d = j
      BY <1>1, <1>3, <1>5, <1>8, <1>9, <3>1, <3>3 DEF Adding, Runs
    <3> QED
      BY <3>2, <3>3
  <2> QED
    BY <1>7, <2>1, <2>2 DEF DiskIsKnown, Adding, Runs, manager
<1> QED
  BY <1>5, <1>6, <1>7, <1>8, <1>10, GitStepHolds

(* A command is killed, and what it was adding stays as it is.                *)
LEMMA KillHolds ==
  ASSUME IInv, NEW j \in Jobs, Kill(j)
  PROVE  IInv'
<1>1. proc \in [Jobs -> Processes] /\ proc[j] \in Processes
  BY DEF IInv, TypeOK
<1>2. PICK p \in Processes :
        /\ proc' = [proc EXCEPT ![j] = p] /\ proc[j] # NoProcess
        /\ p.cmd = proc[j].cmd /\ p.reader = proc[j].reader /\ p.helper = proc[j].helper
        /\ p.child = IF Runs(j) THEN "killed" ELSE proc[j].child
  <2>1. ASSUME NEW q \in Processes
        PROVE  /\ Killed(q) \in Processes /\ Killed(q).cmd = q.cmd
               /\ Killed(q).reader = q.reader /\ Killed(q).helper = q.helper
               /\ Killed(q).child = IF q.child = "running" THEN "killed" ELSE q.child
    BY DEF Killed, Processes
  <2>2. CASE TimeOut(j)
    <3> DEFINE q == [proc[j] EXCEPT !.timed = TRUE]
    <3>1. /\ q \in Processes /\ q.cmd = proc[j].cmd /\ q.child = proc[j].child
          /\ q.reader = proc[j].reader /\ q.helper = proc[j].helper
      BY <1>1 DEF Processes
    <3>2. proc' = [proc EXCEPT ![j] = Killed(q)]
      BY <2>2 DEF TimeOut, Set, Late
    <3>3. proc[j] # NoProcess
      BY <2>2 DEF TimeOut, Ended, Runs, NoProcess
    <3> HIDE DEF q
    <3>4. /\ Killed(q) \in Processes /\ Killed(q).cmd = proc[j].cmd
          /\ Killed(q).reader = proc[j].reader /\ Killed(q).helper = proc[j].helper
          /\ Killed(q).child = IF Runs(j) THEN "killed" ELSE proc[j].child
      BY <2>1, <3>1 DEF Runs
    <3> QED
      BY <3>2, <3>3, <3>4
  <2>3. CASE Reject(j)
    BY <1>1, <2>1, <2>3, NothingRuns DEF Reject, Set, Runs
  <2> QED
    BY <2>2, <2>3 DEF Kill
<1>3. /\ proc' \in [Jobs -> Processes] /\ proc'[j] = p
      /\ \A d \in Jobs \ {j} : proc'[d] = proc[d]
  BY <1>1, <1>2
<1>4. /\ UNCHANGED manager /\ branch' \in BOOLEAN
      /\ disk' = IF Adding(j) /\ disk = "half" THEN "torn" ELSE disk
  BY DEF Kill, IInv, TypeOK
<1>5. disk' \in {"absent", "foreign", "half", "torn", "whole"}
  BY <1>4 DEF IInv, TypeOK
<1>6. \A d \in Jobs : /\ proc'[d].cmd = proc[d].cmd
                      /\ proc[d] = NoProcess => proc'[d] = NoProcess
                      /\ proc'[d].reader = "ended" =>
                           proc'[d].child # "running" /\ ~proc'[d].helper
  BY <1>2, <1>3 DEF IInv, CommandsFollow, Runs
<1>7. \A d \in Jobs : proc'[d].child = "zero" => proc[d].child = "zero"
  BY <1>2, <1>3
<1>8. DiskIsKnown'
  <2>1. ASSUME disk' = "half"
        PROVE  \E i \in Jobs : proc'[i].cmd \in {"add", "add -b"} /\ proc'[i].child = "running"
    <3>1. disk = "half" /\ ~Adding(j)
      BY <1>4, <2>1
    <3>2. PICK i \in Jobs : Adding(i)
      BY <3>1 DEF IInv, DiskIsKnown
    <3> QED
      BY <1>3, <3>1, <3>2 DEF Adding, Runs
  <2>2. disk \in {"whole", "torn"} => disk' = disk
    BY <1>4
  <2>3. ASSUME NEW d \in Jobs
        PROVE  /\ proc'[d].cmd \in {"add", "add -b"} /\ proc'[d].child = "zero" => disk' = "whole"
               /\ proc'[d].cmd = "verify" /\ proc'[d].child = "zero" => disk' \in {"whole", "torn"}
               /\ stage[d] = "verify" => disk' = "whole"
    BY <1>6, <1>7, <2>2 DEF IInv, DiskIsKnown
  <2> QED
    BY <1>4, <2>1, <2>3 DEF DiskIsKnown, Adding, Runs, manager
<1> QED
  BY <1>3, <1>4, <1>5, <1>6, <1>8, GitStepHolds

(* Somebody else takes the path.                                              *)
LEMMA OccupyHolds ==
  ASSUME IInv, Occupy
  PROVE  IInv'
<1>1. /\ proc' = proc /\ UNCHANGED manager /\ branch' = branch
      /\ disk = "absent" /\ disk' = "foreign"
  BY DEF Occupy
<1>2. DiskIsKnown'
  BY <1>1 DEF IInv, DiskIsKnown, Adding, Runs, manager
<1>3. proc' \in [Jobs -> Processes] /\ branch' \in BOOLEAN
  BY <1>1 DEF IInv, TypeOK
<1>4. \A d \in Jobs : proc'[d].reader = "ended" => proc'[d].child # "running" /\ ~proc'[d].helper
  BY <1>1 DEF IInv, CommandsFollow, Runs
<1> QED
  BY <1>1, <1>2, <1>3, <1>4, GitStepHolds

(* An inspection begins and ends, and takes no part in what calls prepare.    *)
LEMMA InspectHolds ==
  ASSUME IInv, NEW j \in Jobs, Inspect(j) \/ Inspected(j)
  PROVE  IInv'
<1>1. TypeOK
  BY DEF IInv
<1>2. PICK p \in Processes, s \in {"idle", "inspecting"} :
        /\ proc' = [proc EXCEPT ![j] = p] /\ stage' = [stage EXCEPT ![j] = s]
        /\ stage[j] \in {"idle", "inspecting"} /\ proc[j].cmd \in {"none", "inspect"}
        /\ s = "idle" => p = NoProcess
        /\ s = "inspecting" => p.cmd = "inspect" /\ p.child = "running" /\ p.reader = "reading"
  <2>1. CASE Inspect(j)
    <3> DEFINE p == [NoProcess EXCEPT !.cmd = "inspect", !.child = "running", !.reader = "reading"]
    <3>1. p \in Processes /\ p.cmd = "inspect" /\ p.child = "running" /\ p.reader = "reading"
      BY DEF NoProcess, Processes, Commands
    <3>2. stage[j] = "idle" /\ proc[j] = NoProcess
      BY <2>1 DEF Inspect, IInv, CommandsFollow
    <3>3. proc' = [proc EXCEPT ![j] = p] /\ stage' = [stage EXCEPT ![j] = "inspecting"]
      BY <2>1 DEF Inspect, Go, Launch, Set
    <3> HIDE DEF p
    <3> QED
      BY <3>1, <3>2, <3>3, NothingRuns
  <2>2. CASE Inspected(j)
    BY <2>2, NothingRuns DEF Inspected, Go, IInv, CommandsFollow
  <2> QED
    BY <2>1, <2>2
<1>3. /\ UNCHANGED <<disk, branch, pending, cells, held, dropped, answer>>
      /\ proc'[j] = p /\ stage'[j] = s
      /\ \A d \in Jobs \ {j} : proc'[d] = proc[d] /\ stage'[d] = stage[d]
  BY <1>1, <1>2 DEF Inspect, Inspected, Others, TypeOK
<1>4. TypeOK'
  BY <1>1, <1>2, <1>3 DEF TypeOK, Stages
<1>5. p.child \in {"none", "running"} /\ p.cmd \in {"none", "inspect"}
      /\ (p.reader = "ended" => p.child # "running" /\ ~p.helper)
  BY <1>2, NothingRuns
<1>6. CommandsFollow'
  <2>1. ASSUME NEW d \in Jobs
        PROVE  /\ stage'[d] \in {"stat", "idle", "waiting", "leaving"} => proc'[d] = NoProcess
               /\ stage'[d] \in Running \ {"stat"} =>
                    proc'[d].cmd = IF stage'[d] = "recheck" THEN "verify" ELSE stage'[d]
               /\ stage'[d] = "inspecting" => proc'[d].cmd = "inspect"
               /\ proc'[d].reader = "ended" => proc'[d].child # "running" /\ ~proc'[d].helper
    <3>1. CASE d = j
      <4>1. s = "idle" \/ s = "inspecting"
        OBVIOUS
      <4> QED
        BY <1>2, <1>3, <1>5, <3>1, <4>1 DEF Running
    <3>2. CASE d # j
      BY <1>3, <3>2 DEF IInv, CommandsFollow, Runs
    <3> QED
      BY <3>1, <3>2
  <2> QED
    BY <2>1 DEF CommandsFollow, Runs
<1>7. DiskIsKnown'
  <2>1. ASSUME NEW d \in Jobs
        PROVE  /\ proc'[d].cmd \in {"add", "add -b"} /\ proc'[d].child = "zero" => disk = "whole"
               /\ proc'[d].cmd = "verify" /\ proc'[d].child = "zero" => disk \in {"whole", "torn"}
               /\ stage'[d] = "verify" => disk = "whole"
    <3>1. CASE d = j
      BY <1>2, <1>3, <1>5, <3>1
    <3>2. CASE d # j
      BY <1>3, <3>2 DEF IInv, DiskIsKnown
    <3> QED
      BY <3>1, <3>2
  <2>2. disk = "half" => \E i \in Jobs \ {j} : proc[i].cmd \in {"add", "add -b"} /\ proc[i].child = "running"
    BY <1>2 DEF IInv, DiskIsKnown, Adding, Runs
  <2> QED
    BY <1>3, <2>1, <2>2 DEF DiskIsKnown, Adding, Runs
<1>8. \A d \in Jobs : stage'[d] = stage[d] \/ {stage[d], stage'[d]} \subseteq {"idle", "inspecting"}
  BY <1>2, <1>3
<1>9. CellsAreHeld'
  <2>1. ASSUME NEW d \in Jobs
        PROVE  /\ held[d] = 0 <=> stage'[d] \in {"idle", "inspecting"}
               /\ stage'[d] \in Running => cells[held[d]] = "unset"
               /\ stage'[d] = "leaving" => cells[held[d]] # "unset"
               /\ held[d] # 0 /\ cells[held[d]] = "unset" => held[d] = pending
    BY <1>8 DEF IInv, CellsAreHeld, Running
  <2> QED
    BY <1>3, <2>1 DEF IInv, CellsAreHeld
<1>10. ResultsAreTrue' /\ NothingLeaks'
  BY <1>3 DEF IInv, ResultsAreTrue, NothingLeaks
<1>11. OnePrepares'
  <2>1. \A d \in Jobs : stage'[d] \in Running => stage[d] \in Running
    BY <1>8 DEF Running
  <2> QED
    BY <2>1 DEF IInv, OnePrepares
<1> QED
  BY <1>4, <1>6, <1>7, <1>9, <1>10, <1>11 DEF IInv

-----------------------------------------------------------------------------
(* Every step keeps the invariant.                                            *)
LEMMA StepHolds == IInv /\ [Next]_vars => IInv'
<1> SUFFICES ASSUME IInv, [Next]_vars PROVE IInv'
  OBVIOUS
<1>1. CASE UNCHANGED vars
  <2>1. UNCHANGED manager /\ proc' = proc /\ disk' = disk /\ branch' = branch
    BY <1>1 DEF vars
  <2>2. TypeOK'
    BY <2>1 DEF manager, IInv, TypeOK
  <2>3. CommandsFollow' /\ DiskIsKnown'
    BY <2>1 DEF manager, IInv, CommandsFollow, DiskIsKnown, Adding, Runs
  <2>4. CellsAreHeld'
    BY <2>1 DEF manager, IInv, CellsAreHeld
  <2>5. ResultsAreTrue' /\ OnePrepares' /\ NothingLeaks'
    BY <2>1 DEF manager, IInv, ResultsAreTrue, OnePrepares, NothingLeaks
  <2> QED
    BY <2>2, <2>3, <2>4, <2>5 DEF IInv
<1>2. ASSUME NEW c \in Jobs, Join(c) \/ Invalid(c) \/ CallStep(c) \/ Drop(c)
      PROVE  IInv'
  <2>1. CASE Join(c)
    BY <2>1, JoinHolds
  <2>2. CASE Invalid(c) \/ Prepare(c) \/ Share(c) \/ Drop(c)
    BY <2>2, CallHolds
  <2>3. CASE Leave(c)
    BY <2>3, LeaveHolds
  <2>4. CASE Stat(c)
    BY <2>4, StatHolds
  <2>5. CASE Proceed(c)
    BY <2>5, ProceedHolds
  <2> QED
    BY <1>2, <2>1, <2>2, <2>3, <2>4, <2>5 DEF CallStep
<1>3. ASSUME NEW j \in Jobs,
             Inspect(j) \/ Inspected(j) \/ Work(j) \/ Finish(j) \/ Kill(j) \/ Pipes(j)
      PROVE  IInv'
  <2>1. CASE Inspect(j) \/ Inspected(j)
    BY <2>1, InspectHolds
  <2>2. CASE Work(j) \/ Finish(j)
    BY <2>2, WorkHolds, FinishHolds
  <2>3. CASE Kill(j) \/ Pipes(j)
    BY <2>3, KillHolds, PipesHolds
  <2> QED
    BY <1>3, <2>1, <2>2, <2>3
<1>4. CASE Occupy
  BY <1>4, OccupyHolds
<1> QED
  BY <1>1, <1>2, <1>3, <1>4 DEF Next

(* However many calls prepare one worktree, fail, leave and ask again, beside *)
(* any number of inspections, one of them works on the path at a time, its    *)
(* git is done before it goes on, what failed can be tried again, and a call  *)
(* that says a worktree is prepared is right.                                 *)
THEOREM PreparationsHold == Spec => []PreparationsAreSound
<1>1. Spec => []IInv
  BY InitHolds, StepHolds, PTL DEF Spec
<1> QED
  BY <1>1, InvariantSuffices, PTL
================================================================================
