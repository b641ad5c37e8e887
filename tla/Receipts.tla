------------------------------ MODULE Receipts ------------------------------
(***************************************************************************)
(* The data of the operation journal (rust/src/operations/journal.rs) and  *)
(* the pure rules that map one journal content to the next.  A task is     *)
(* started under one idempotency key; the journal derives from it one key  *)
(* for the thread.create receipt and one for the thread.turn.start         *)
(* receipt, so a receipt is addressed here by the task's key and a kind.   *)
(*                                                                         *)
(* A fresh identifier (operation, command, thread, run, message id) is a   *)
(* random UUID minted by one call: it is identified with that call, a      *)
(* member of Minters.  Titles, settings, timestamps, sequence numbers and  *)
(* error texts are left out: no property here tells them apart.            *)
(***************************************************************************)
CONSTANTS Keys,      \* task idempotency keys
          Payloads,  \* payload hashes of task inputs
          Minters,   \* the calls that may mint identifiers
          NoId       \* an identifier or hash that is not there

ASSUME IdAssumption == NoId \notin Minters /\ NoId \notin Payloads

Kinds    == {"create", "turn"}
Pending  == {"prepared", "uncertain"}
Settled  == {"accepted", "rejected"}
Statuses == Pending \cup Settled

Stages == {"prepared", "rejected", "thread_create_uncertain", "thread_created",
           "dispatch_rejected", "dispatch_uncertain", "run_accepted"}

Baselines == {"none", "unavailable", "early", "late"}

Ids == Minters \cup {NoId}

\* A receipt of status "none" is one the journal does not hold.
Receipt == [status  : Statuses \cup {"none"},
            payload : Payloads \cup {NoId},
            by      : Ids,
            thread  : Ids]

NoReceipt == [status |-> "none", payload |-> NoId, by |-> NoId, thread |-> NoId]

\* A task of stage "none" is one the journal does not hold.
Task == [stage    : Stages \cup {"none"},
         payload  : Payloads \cup {NoId},
         thread   : Ids,
         run      : Ids,
         baseline : Baselines]

NoTask == [stage |-> "none", payload |-> NoId, thread |-> NoId,
           run |-> NoId, baseline |-> "none"]

NoOps   == [k \in Keys |-> [d \in Kinds |-> NoReceipt]]
NoTasks == [k \in Keys |-> NoTask]

Ops   == [Keys -> [Kinds -> Receipt]]
Tasks == [Keys -> Task]

-----------------------------------------------------------------------------
\* begin, on a key the journal does not hold yet.
NewReceipt(payload, by, thread) ==
  [status |-> "prepared", payload |-> payload, by |-> by, thread |-> thread]

\* begin, on a key the journal holds: another payload hash is a conflict.
Conflicts(receipt, payload, thread) ==
  receipt.payload # payload \/ receipt.thread # thread

\* begin_task, on a key the journal does not hold yet.
NewTask(payload) == [NoTask EXCEPT !.stage = "prepared", !.payload = payload]

\* Mutant: prepared receipts are dropped when the journal is opened.
RecoveredByDropping(ops) ==
  [k \in Keys |-> [d \in Kinds |->
     IF ops[k][d].status = "prepared" THEN NoReceipt ELSE ops[k][d]]]

\* init_state: a command whose outcome was never recorded becomes uncertain.
Recovered(ops) ==
  [k \in Keys |-> [d \in Kinds |->
     IF ops[k][d].status = "prepared"
     THEN [ops[k][d] EXCEPT !.status = "uncertain"]
     ELSE ops[k][d]]]

\* Mutant: a dispatched turn counts as an accepted one.
StageOfOptimist(stored, create, turn) ==
  CASE turn.status \in Pending \cup {"accepted"}              -> "run_accepted"
    [] turn.status = "rejected"                               -> "dispatch_rejected"
    [] turn.status = "none" /\ create.status = "accepted"     -> "thread_created"
    [] turn.status = "none" /\ create.status \in Pending      -> "thread_create_uncertain"
    [] turn.status = "none" /\ create.status = "rejected"     -> "rejected"
    [] OTHER                                                  -> stored

\* refresh_task: the stage of a task, from its two receipts.
StageOf(stored, create, turn) ==
  CASE turn.status = "accepted"                               -> "run_accepted"
    [] turn.status \in Pending                                -> "dispatch_uncertain"
    [] turn.status = "rejected"                               -> "dispatch_rejected"
    [] turn.status = "none" /\ create.status = "accepted"     -> "thread_created"
    [] turn.status = "none" /\ create.status \in Pending      -> "thread_create_uncertain"
    [] turn.status = "none" /\ create.status = "rejected"     -> "rejected"
    [] OTHER                                                  -> stored

\* refresh_task: the projection keeps every id the task has and fills the
\* missing ones from the receipts.
Refreshed(task, ops) ==
  [task EXCEPT
     !.stage  = StageOf(task.stage, ops["create"], ops["turn"]),
     !.thread = IF @ = NoId THEN ops["create"].thread ELSE @,
     !.run    = IF @ = NoId THEN ops["turn"].by ELSE @]
=============================================================================
