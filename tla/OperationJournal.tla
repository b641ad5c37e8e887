-------------------------- MODULE OperationJournal --------------------------
(***************************************************************************)
(* The operation journal (rust/src/operations/journal.rs): a copy in       *)
(* memory behind a mutex, and a file that persist replaces by writing a    *)
(* temporary file and renaming it.  An operation computes a candidate from *)
(* the copy, persists it, and only then makes it the copy.  Every file     *)
(* operation may fail, and the process may die between any two.  What the  *)
(* temporary file holds is of no interest: its name is never reused.       *)
(*                                                                         *)
(* External: the file system renames atomically, and what was renamed      *)
(* survives the death of the process (not of the machine: nothing is       *)
(* synced).                                                                *)
(***************************************************************************)
EXTENDS Receipts

CONSTANTS Unopened,  \* the copy before the file was read
          Torn       \* a file that holds part of a journal

VARIABLES copy,       \* the journal in memory, or Unopened
          file,       \* what the journal's file holds
          step,       \* the next step of the operation holding the mutex
          candidate   \* what that operation is about to write

vars == <<copy, file, step, candidate>>

Books == [ops : Ops, tasks : Tasks]

\* The two markers are no content a journal can have.
ASSUME JournalAssumption == Unopened \notin Books /\ Torn \notin Books

NewBook == [ops |-> NoOps, tasks |-> NoTasks]

Steps == {"idle", "create", "write", "rename", "assign"}

\* What an operation is about to write, what the file holds and what memory
\* holds are journals the validators accept (valid_operation, valid_task).
TypeOK ==
  /\ copy \in Books \cup {Unopened}
  /\ file \in Books \cup {Torn}
  /\ step \in Steps
  /\ candidate \in Books

\* No file yet: the journal is empty.
Init ==
  /\ copy = Unopened
  /\ file = NewBook
  /\ step = "idle"
  /\ candidate = NewBook

-----------------------------------------------------------------------------
(* Opening: state() and init_state *)

HasPrepared(ops) == \E k \in Keys, d \in Kinds : ops[k][d].status = "prepared"

\* Mutant: recovery stays in memory until the next operation writes.
LoadLazily ==
  /\ step = "idle" /\ copy = Unopened
  /\ candidate' = [file EXCEPT !.ops = Recovered(@)]
  /\ step' = "assign"
  /\ UNCHANGED <<copy, file>>

\* The first use reads the file and recovers it; only a change is persisted.
Load ==
  /\ step = "idle" /\ copy = Unopened
  /\ candidate' = [file EXCEPT !.ops = Recovered(@)]
  /\ step' = IF HasPrepared(file.ops) THEN "create" ELSE "assign"
  /\ UNCHANGED <<copy, file>>

-----------------------------------------------------------------------------
(* The operations: a candidate is computed from the copy and persisted. *)

\* Mutant: the record is changed in the copy itself, and then persisted.
ProposeInPlace(new) ==
  /\ step = "idle" /\ copy # Unopened
  /\ candidate' = new
  /\ step' = "create"
  /\ copy' = new
  /\ UNCHANGED file

Propose(new) ==
  /\ step = "idle" /\ copy # Unopened
  /\ candidate' = new
  /\ step' = "create"
  /\ UNCHANGED <<copy, file>>

Begin(k, d, p, m, t) ==
  /\ copy.ops[k][d].status = "none"
  /\ Propose([copy EXCEPT !.ops[k][d] = NewReceipt(p, m, t)])

BeginTask(k, p) ==
  /\ copy.tasks[k].stage = "none"
  /\ Propose([copy EXCEPT !.tasks[k] = NewTask(p)])

Update(k, d, s) ==
  /\ copy.ops[k][d].status # "none"
  /\ Propose([copy EXCEPT !.ops[k][d].status = s])

UpdateTaskStage(k, s, t, r) ==
  /\ copy.tasks[k].stage # "none"
  /\ Propose([copy EXCEPT !.tasks[k].stage = s, !.tasks[k].thread = t,
                          !.tasks[k].run = r])

UpdateTaskBaseline(k, a) ==
  /\ copy.tasks[k].stage # "none"
  /\ Propose([copy EXCEPT !.tasks[k].baseline = a])

\* A projection that changes nothing is not written.
RefreshTask(k) ==
  /\ copy.tasks[k].stage # "none"
  /\ LET task == Refreshed(copy.tasks[k], copy.ops[k]) IN
     /\ task # copy.tasks[k]
     /\ Propose([copy EXCEPT !.tasks[k] = task])

-----------------------------------------------------------------------------
(* persist, and what follows it *)

CreateTemp ==
  /\ step = "create"
  /\ step' = "write"
  /\ UNCHANGED <<copy, file, candidate>>

\* Mutant: the journal's own file is opened and overwritten.
WriteInPlace ==
  /\ step = "write"
  /\ file' = IF file = Torn THEN candidate ELSE Torn
  /\ step' = IF file = Torn THEN "rename" ELSE "write"
  /\ UNCHANGED <<copy, candidate>>

WriteTemp ==
  /\ step = "write"
  /\ step' = "rename"
  /\ UNCHANGED <<copy, file, candidate>>

Rename ==
  /\ step = "rename"
  /\ file' = candidate
  /\ step' = "assign"
  /\ UNCHANGED <<copy, candidate>>

\* Any of the three fails: the temporary file is removed and the caller gets
\* the error; an open journal keeps its copy, one being opened stays unopened.
PersistFails ==
  /\ step \in {"create", "write", "rename"}
  /\ step' = "idle"
  /\ UNCHANGED <<copy, file, candidate>>

Assign ==
  /\ step = "assign"
  /\ copy' = candidate
  /\ step' = "idle"
  /\ UNCHANGED <<file, candidate>>

\* The process dies; the next one starts with an unopened journal.
Crash ==
  /\ copy # Unopened \/ step # "idle"
  /\ copy' = Unopened
  /\ step' = "idle"
  /\ UNCHANGED <<file, candidate>>

-----------------------------------------------------------------------------
Persist == CreateTemp \/ WriteTemp \/ Rename \/ PersistFails \/ Assign

Operation ==
  /\ copy # Unopened
  /\ \E k \in Keys :
       \/ \E d \in Kinds, p \in Payloads, m, t \in Minters : Begin(k, d, p, m, t)
       \/ \E p \in Payloads : BeginTask(k, p)
       \/ \E d \in Kinds, s \in Statuses \ {"prepared"} : Update(k, d, s)
       \/ \E s \in Stages, t, r \in Ids : UpdateTaskStage(k, s, t, r)
       \/ \E a \in Baselines \ {"none"} : UpdateTaskBaseline(k, a)
       \/ RefreshTask(k)

Next == Load \/ Operation \/ Persist \/ Crash

Spec == Init /\ [][Next]_vars

-----------------------------------------------------------------------------
\* A crash at any point leaves a complete journal behind: persist never
\* writes to the journal's own file.
FileIsWhole == file # Torn

\* What callers read from memory is what a crash would leave: an operation
\* that failed to persist leaves no trace in the copy.
CopyIsDurable ==
  copy # Unopened /\ step # "assign" => copy = file

Durable == INSTANCE DurableJournal WITH book <- file, open <- copy # Unopened

\* The journal implements the atomic durable one: the rename is the instant
\* at which an operation takes effect.
ImplementsDurable == Durable!Spec
=============================================================================
