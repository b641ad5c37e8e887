------------------------------ MODULE TaskStart -----------------------------
(***************************************************************************)
(* t3_task_start and t3_task_get (rust/src/gateway/task.rs) over the       *)
(* operation journal and T3 (rust/src/gateway.rs: dispatch_new, reconcile).*)
(*                                                                         *)
(* The gateway runs on one thread: what a call does between two awaits is  *)
(* one action, and calls interleave only where they await T3 or Git.  pc   *)
(* names the await a call is suspended at.  The journal is durable and its *)
(* operations are atomic here; module OperationJournal shows that the file *)
(* protocol provides this.  T3 and the network between it and the gateway  *)
(* are external: a command may be applied late, be refused or be lost, and *)
(* its answer may be lost.                                                 *)
(***************************************************************************)
EXTENDS Receipts, Naturals

CONSTANTS Starters,    \* t3_task_start calls, each with a fresh identity
          Getters,     \* clients that poll t3_task_get
          Idle,        \* a thread with no running turn
          Foreign,     \* a turn started outside the gateway
          Overlap,     \* may a client call again before a start call ended?
          MaxCrashes   \* bound on gateway crashes

ASSUME CallAssumption ==
  /\ Minters = Starters
  /\ Starters \cap Getters = {}
  /\ Idle \notin Starters /\ Foreign \notin Starters /\ Idle # Foreign
  /\ Overlap \in BOOLEAN
  /\ MaxCrashes \in Nat

VARIABLES
  tasks,     \* the journal's task records, by key
  ops,       \* the journal's receipts, by key and kind
  pc,        \* the await a call is suspended at
  kind,      \* the child operation a call is working on
  key,       \* input: the task's idempotency key
  payload,   \* input: the hash of the task's input
  held,      \* the status in the record a call holds across an await
  answer,    \* the task stage, or the error, a call answered with
  wire,      \* commands on their way to T3
  applied,   \* commands T3 applied
  refused,   \* commands T3 refused with a definitive error
  lost,      \* commands that never reached T3
  running,   \* T3: the turn each thread is running
  crashes

journal == <<tasks, ops>>
calls   == <<pc, kind, key, payload, held, answer>>
t3      == <<wire, applied, refused, lost, running>>
vars    == <<journal, calls, t3, crashes>>

Calls == Starters \cup Getters

PCs == {"idle", "scope", "prepare", "dispatch", "wait", "reconcile", "result",
        "baseline", "done"}

Answers == Stages \cup {"none", "conflict", "error", "crashed"}

Command == [kind : Kinds, by : Starters, thread : Ids]

CommandOf(receipt, d) == [kind |-> d, by |-> receipt.by, thread |-> receipt.thread]

Sent == wire \cup applied \cup refused \cup lost

\* Journal records stay within what their validators accept, whatever the
\* calls patch into them.
TypeOK ==
  /\ tasks \in Tasks /\ ops \in Ops
  /\ pc \in [Calls -> PCs]
  /\ kind \in [Calls -> Kinds]
  /\ key \in [Calls -> Keys]
  /\ payload \in [Starters -> Payloads]
  /\ held \in [Calls -> Statuses \cup {"none"}]
  /\ answer \in [Calls -> Answers]
  /\ wire \subseteq Command /\ applied \subseteq Command
  /\ refused \subseteq Command /\ lost \subseteq Command
  /\ running \in [Starters -> Starters \cup {Idle, Foreign}]
  /\ crashes \in 0..MaxCrashes

Init ==
  /\ tasks = NoTasks /\ ops = NoOps
  /\ pc = [c \in Calls |-> "idle"]
  /\ kind = [c \in Calls |-> "create"]
  /\ key \in [Calls -> Keys]
  /\ payload \in [Starters -> Payloads]
  /\ held = [c \in Calls |-> "none"]
  /\ answer = [c \in Calls |-> "none"]
  /\ wire = {} /\ applied = {} /\ refused = {} /\ lost = {}
  /\ running = [t \in Starters |-> Idle]
  /\ crashes = 0

-----------------------------------------------------------------------------
(* What a call does with itself when an action ends. *)

Suspend(c, where, d, status) ==
  /\ pc'   = [pc EXCEPT ![c] = where]
  /\ kind' = [kind EXCEPT ![c] = d]
  /\ held' = [held EXCEPT ![c] = status]
  /\ UNCHANGED <<key, payload, answer>>

Finish(c, what) ==
  /\ pc'     = [pc EXCEPT ![c] = "done"]
  /\ answer' = [answer EXCEPT ![c] = what]
  /\ UNCHANGED <<kind, key, payload, held>>

\* task_detail without reconciliation: the projected stage is the answer.
FinishWithStage(c, stored) ==
  LET k == key[c] IN
  Finish(c, StageOf(stored, ops[k]["create"], ops[k]["turn"]))

SetStatus(c, d, status) ==
  ops' = [ops EXCEPT ![key[c]][d].status = status]

\* begin found the key: a conflict, or the existing record to reconcile.
Reuse(c, d) ==
  LET receipt == ops[key[c]][d]
      thread  == ops[key[c]]["create"].thread IN
  IF Conflicts(receipt, payload[c], thread)
  THEN Finish(c, "conflict")
  ELSE Suspend(c, IF receipt.status \in Settled THEN "result" ELSE "reconcile",
               d, receipt.status)

\* thread_create and thread_send up to their first await.
EnterChild(c, d) ==
  IF ops[key[c]][d].status = "none" THEN Suspend(c, "prepare", d, "none")
                                    ELSE Reuse(c, d)

\* Mutant: the record returned as reused is dispatched again under new ids.
BeginAnew(c, d, thread) ==
  /\ ops' = [ops EXCEPT ![key[c]][d] = NewReceipt(payload[c], c, thread)]
  /\ Suspend(c, "dispatch", d, "prepared")

\* begin with fresh ids, and the branch on whether the record was reused.
Begin(c, d, thread) ==
  IF ops[key[c]][d].status = "none"
  THEN /\ ops' = [ops EXCEPT ![key[c]][d] = NewReceipt(payload[c], c, thread)]
       /\ Suspend(c, "dispatch", d, "prepared")
  ELSE Reuse(c, d) /\ UNCHANGED ops

-----------------------------------------------------------------------------
(* t3_task_start *)

\* A client calls; without Overlap it waits for its previous call to end.
Call(c) ==
  /\ pc[c] = "idle"
  /\ Overlap \/ \A s \in Starters : pc[s] \in {"idle", "done"}
  /\ Suspend(c, "scope", "create", "none")
  /\ UNCHANGED <<journal, t3, crashes>>

\* The scope check passed: begin_task, then thread_create up to its await.
\* (The early return for a turn receipt without a create receipt cannot be
\* taken: TurnFollowsCreate, of ReceiptsAreTrue.)
BeginTask(c) ==
  /\ pc[c] = "scope"
  /\ LET task == tasks[key[c]] IN
     \/ /\ task.stage = "none"
        /\ tasks' = [tasks EXCEPT ![key[c]] = NewTask(payload[c])]
        /\ EnterChild(c, "create")
     \/ /\ task.stage # "none" /\ task.payload = payload[c]
        /\ EnterChild(c, "create")
        /\ UNCHANGED tasks
     \/ /\ task.stage # "none" /\ task.payload # payload[c]
        /\ Finish(c, "conflict")
        /\ UNCHANGED tasks
  /\ UNCHANGED <<ops, t3, crashes>>

\* Scope, shell, model selection and environment are in order: thread_create
\* mints the thread's id and writes the receipt before anything is sent.
BeginCreate(c) ==
  /\ pc[c] = "prepare" /\ kind[c] = "create"
  /\ Begin(c, "create", c)
  /\ UNCHANGED <<tasks, t3, crashes>>

\* project_not_found or model_selection_required: the task is rejected.
RefuseInput(c) ==
  /\ pc[c] = "prepare" /\ kind[c] = "create"
  /\ tasks' = [tasks EXCEPT ![key[c]].stage = "rejected"]
  /\ FinishWithStage(c, "rejected")
  /\ UNCHANGED <<ops, t3, crashes>>

\* The managed worktree is prepared, protocol discovery answered: the command
\* leaves the gateway.
Send(c) ==
  /\ pc[c] = "dispatch"
  /\ wire' = wire \cup {CommandOf(ops[key[c]][kind[c]], kind[c])}
  /\ Suspend(c, "wait", kind[c], "prepared")
  /\ UNCHANGED <<journal, applied, refused, lost, running, crashes>>

\* The worktree or protocol discovery failed: nothing is sent and the receipt
\* is rejected.
NotSent(c) ==
  /\ pc[c] = "dispatch"
  /\ SetStatus(c, kind[c], "rejected")
  /\ Suspend(c, "result", kind[c], "rejected")
  /\ UNCHANGED <<tasks, t3, crashes>>

\* Mutant: an error without a definitive answer counts as a refusal.
OutcomesGuessed(command) ==
  {"rejected"} \cup {s \in {"accepted"} : command \in applied}

\* What dispatch_new may learn of a command it sent: any error that is not a
\* 4xx answer, a timeout among them, says nothing about what T3 did.
Outcomes(command) ==
  {"uncertain"} \cup {s \in {"accepted"} : command \in applied}
                \cup {s \in {"rejected"} : command \in refused}

\* dispatch_new returns: its outcome overwrites the receipt's status.
Reply(c) ==
  /\ pc[c] = "wait"
  /\ \E status \in Outcomes(CommandOf(ops[key[c]][kind[c]], kind[c])) :
       /\ SetStatus(c, kind[c], status)
       /\ Suspend(c, "result", kind[c], status)
  /\ UNCHANGED <<tasks, t3, crashes>>

\* Mutant: only a rejected creation stops the start; an uncertain one goes on.
FinishCreateUncertain(c) ==
  /\ pc[c] = "result" /\ kind[c] = "create"
  /\ IF held[c] = "rejected"
     THEN /\ tasks' = [tasks EXCEPT ![key[c]].stage = "rejected"]
          /\ FinishWithStage(c, "rejected")
     ELSE /\ tasks' = [tasks EXCEPT ![key[c]].stage = "thread_created"]
          /\ IF tasks[key[c]].baseline = "none"
             THEN Suspend(c, "baseline", "create", held[c])
             ELSE EnterChild(c, "turn")
  /\ UNCHANGED <<ops, t3, crashes>>

\* Mutant: every retry takes the baseline again.
FinishCreateRebased(c) ==
  /\ pc[c] = "result" /\ kind[c] = "create" /\ held[c] = "accepted"
  /\ tasks' = [tasks EXCEPT ![key[c]].stage = "thread_created"]
  /\ Suspend(c, "baseline", "create", held[c])
  /\ UNCHANGED <<ops, t3, crashes>>

\* thread_create answered: the task's stage and thread, then the turn.
FinishCreate(c) ==
  /\ pc[c] = "result" /\ kind[c] = "create"
  /\ LET k     == key[c]
         stage == CASE held[c] = "accepted"  -> "thread_created"
                    [] held[c] = "uncertain" -> "thread_create_uncertain"
                    [] OTHER                 -> "rejected"
     IN
     /\ tasks' = [tasks EXCEPT ![k].stage = stage,
                               ![k].thread = ops[k]["create"].thread]
     /\ IF held[c] # "accepted" THEN FinishWithStage(c, stage)
        ELSE IF tasks[k].baseline = "none"
             THEN Suspend(c, "baseline", "create", held[c])
             ELSE EnterChild(c, "turn")
  /\ UNCHANGED <<ops, t3, crashes>>

\* git_status returned: the baseline is late when the task's own run was in T3
\* before the gateway looked at the workspace.
TakeBaseline(c) ==
  /\ pc[c] = "baseline"
  /\ LET k    == key[c]
         seen == IF CommandOf(ops[k]["turn"], "turn") \in applied
                 THEN "late" ELSE "early"
     IN \E baseline \in {"unavailable", seen} :
          tasks' = [tasks EXCEPT ![k].baseline = baseline]
  /\ EnterChild(c, "turn")
  /\ UNCHANGED <<ops, t3, crashes>>

ThreadExists(t) == [kind |-> "create", by |-> t, thread |-> t] \in applied

\* Mutant: the key is not looked up again after the thread was read.
BeginTurnUnchecked(c) ==
  /\ pc[c] = "prepare" /\ kind[c] = "turn"
  /\ LET k      == key[c]
         thread == ops[k]["create"].thread IN
     /\ ThreadExists(thread)
     /\ IF running[thread] # Idle
        THEN /\ tasks' = [tasks EXCEPT ![k].stage = "rejected"]
             /\ FinishWithStage(c, "rejected")
             /\ UNCHANGED ops
        ELSE /\ Begin(c, "turn", thread)
             /\ UNCHANGED tasks
  /\ UNCHANGED <<t3, crashes>>

\* thread_send has read the thread.  It looks the key up again, for a call
\* that began the turn meanwhile; only then may a running turn refuse it.
BeginTurn(c) ==
  /\ pc[c] = "prepare" /\ kind[c] = "turn"
  /\ LET k      == key[c]
         thread == ops[k]["create"].thread IN
     /\ ThreadExists(thread)
     /\ \/ /\ ops[k]["turn"].status # "none"
           /\ Reuse(c, "turn")
           /\ UNCHANGED <<tasks, ops>>
        \/ /\ ops[k]["turn"].status = "none" /\ running[thread] # Idle
           /\ tasks' = [tasks EXCEPT ![k].stage = "rejected"]
           /\ FinishWithStage(c, "rejected")
           /\ UNCHANGED ops
        \/ /\ ops[k]["turn"].status = "none" /\ running[thread] = Idle
           /\ Begin(c, "turn", thread)
           /\ UNCHANGED tasks
  /\ UNCHANGED <<t3, crashes>>

\* thread_send answered: the task's stage and run.
FinishTurn(c) ==
  /\ pc[c] = "result" /\ kind[c] = "turn"
  /\ LET k     == key[c]
         stage == CASE held[c] = "accepted"  -> "run_accepted"
                    [] held[c] = "uncertain" -> "dispatch_uncertain"
                    [] OTHER                 -> "dispatch_rejected"
     IN
     /\ tasks' = [tasks EXCEPT ![k].stage = stage,
                               ![k].run   = ops[k]["turn"].by]
     /\ FinishWithStage(c, stage)
  /\ UNCHANGED <<ops, t3, crashes>>

\* A read of T3 fails, or the thread is not readable, before anything was
\* begun: the error is returned and the task is left as it is.
ReadFails(c) ==
  /\ pc[c] \in {"scope", "prepare"}
  /\ Finish(c, "error")
  /\ UNCHANGED <<journal, t3, crashes>>

\* What reconcile looks for in T3: the thread itself, or the message in it.
Visible(c) ==
  CommandOf(ops[key[c]][kind[c]], kind[c]) \in applied

\* The journal cannot be written: the call returns the error, and what was
\* about to be recorded is not.
JournalFails(c) ==
  /\ pc[c] \in PCs \ {"idle", "done"}
  /\ pc[c] = "reconcile" => c \in Getters \/ Visible(c)
  /\ Finish(c, "error")
  /\ UNCHANGED <<journal, t3, crashes>>

-----------------------------------------------------------------------------
(* t3_task_get, and reconcile, which both tools use *)

\* A client polls a task that exists.
GetTask(g) ==
  /\ pc[g] \in {"idle", "done"}
  /\ tasks[key[g]].stage # "none"
  /\ Suspend(g, "scope", "create", "none")
  /\ UNCHANGED <<journal, t3, crashes>>

\* refresh_task with persist: the projection is stored and is the answer.
Refresh(g, newOps) ==
  LET k == key[g]
      task == Refreshed(tasks[k], newOps[k]) IN
  /\ tasks' = [tasks EXCEPT ![k] = task]
  /\ Finish(g, task.stage)

\* Mutant: only prepared receipts are reconciled, not uncertain ones.
ReadTaskPrepared(g) ==
  /\ pc[g] = "scope"
  /\ LET create == ops[key[g]]["create"].status
         turn   == ops[key[g]]["turn"].status IN
     IF "prepared" \in {create, turn}
     THEN /\ Suspend(g, "reconcile", IF create = "prepared" THEN "create" ELSE "turn", turn)
          /\ UNCHANGED tasks
     ELSE Refresh(g, ops)
  /\ UNCHANGED <<ops, t3, crashes>>

\* task_summary reads both receipts once, before it awaits anything.
ReadTask(g) ==
  /\ pc[g] = "scope"
  /\ LET create == ops[key[g]]["create"].status
         turn   == ops[key[g]]["turn"].status IN
     \/ /\ create \in Pending
        /\ Suspend(g, "reconcile", "create", turn)
        /\ UNCHANGED tasks
     \/ /\ create \notin Pending /\ turn \in Pending
        /\ Suspend(g, "reconcile", "turn", turn)
        /\ UNCHANGED tasks
     \/ /\ create \notin Pending /\ turn \notin Pending
        /\ Refresh(g, ops)
  /\ UNCHANGED <<ops, t3, crashes>>

\* What follows reconcile: a start call goes on to its child's result, a poll
\* to the turn it read as pending, or to the refreshed task.
AfterReconcile(c, status, newOps) ==
  \/ /\ c \in Starters
     /\ Suspend(c, "result", kind[c], status)
     /\ UNCHANGED tasks
  \/ /\ c \in Getters /\ kind[c] = "create" /\ held[c] \in Pending
     /\ Suspend(c, "reconcile", "turn", held[c])
     /\ UNCHANGED tasks
  \/ /\ c \in Getters /\ ~(kind[c] = "create" /\ held[c] \in Pending)
     /\ Refresh(c, newOps)

\* T3 shows the effect of the command: the receipt is accepted.
Reconcile(c) ==
  /\ pc[c] = "reconcile" /\ Visible(c)
  /\ SetStatus(c, kind[c], "accepted")
  /\ AfterReconcile(c, "accepted",
       [ops EXCEPT ![key[c]][kind[c]].status = "accepted"])
  /\ UNCHANGED <<t3, crashes>>

\* Mutant: a receipt T3 does not show is stored as uncertain.
ReconcileToUncertain(c) ==
  /\ pc[c] = "reconcile"
  /\ SetStatus(c, kind[c], "uncertain")
  /\ AfterReconcile(c, held[c],
       [ops EXCEPT ![key[c]][kind[c]].status = "uncertain"])
  /\ UNCHANGED <<t3, crashes>>

\* T3 cannot be read, or does not show it: the record stays as it was read.
ReconcileInVain(c) ==
  /\ pc[c] = "reconcile"
  /\ AfterReconcile(c, held[c], ops)
  /\ UNCHANGED <<ops, t3, crashes>>

-----------------------------------------------------------------------------
(* T3 and the network *)

T3Applies(m) ==
  /\ m \in wire
  /\ m.kind = "turn" => ThreadExists(m.thread)
  /\ wire' = wire \ {m}
  /\ applied' = applied \cup {m}
  /\ running' = IF m.kind = "turn" /\ running[m.thread] = Idle
                THEN [running EXCEPT ![m.thread] = m.by] ELSE running
  /\ UNCHANGED <<journal, calls, refused, lost, crashes>>

T3Refuses(m) ==
  /\ m \in wire
  /\ wire' = wire \ {m}
  /\ refused' = refused \cup {m}
  /\ UNCHANGED <<journal, calls, applied, lost, running, crashes>>

Lose(m) ==
  /\ m \in wire
  /\ wire' = wire \ {m}
  /\ lost' = lost \cup {m}
  /\ UNCHANGED <<journal, calls, applied, refused, running, crashes>>

\* Another client starts a turn in a thread; any turn ends.
ForeignTurn(t) ==
  /\ ThreadExists(t) /\ running[t] = Idle
  /\ running' = [running EXCEPT ![t] = Foreign]
  /\ UNCHANGED <<journal, calls, wire, applied, refused, lost, crashes>>

TurnEnds(t) ==
  /\ running[t] # Idle
  /\ running' = [running EXCEPT ![t] = Idle]
  /\ UNCHANGED <<journal, calls, wire, applied, refused, lost, crashes>>

\* The gateway process dies and is started again: every call in progress is
\* gone, and opening the journal recovers the prepared receipts.
CrashAndRestart ==
  /\ crashes < MaxCrashes
  /\ crashes' = crashes + 1
  /\ ops' = Recovered(ops)
  /\ pc' = [c \in Calls |-> IF pc[c] = "idle" THEN "idle" ELSE "done"]
  /\ answer' = [c \in Calls |->
       IF pc[c] \in {"idle", "done"} THEN answer[c] ELSE "crashed"]
  /\ UNCHANGED <<tasks, kind, key, payload, held, t3>>

-----------------------------------------------------------------------------
Start(c) ==
  \/ BeginTask(c) \/ BeginCreate(c) \/ RefuseInput(c)
  \/ Send(c) \/ NotSent(c) \/ Reply(c) \/ FinishCreate(c)
  \/ TakeBaseline(c) \/ BeginTurn(c) \/ FinishTurn(c)
  \/ ReadFails(c) \/ JournalFails(c)
  \/ Reconcile(c) \/ ReconcileInVain(c)

Poll(g) ==
  \/ ReadTask(g) \/ Reconcile(g) \/ ReconcileInVain(g) \/ JournalFails(g)

T3Step ==
  \/ \E m \in wire : T3Applies(m) \/ T3Refuses(m) \/ Lose(m)
  \/ \E t \in Starters : ForeignTurn(t) \/ TurnEnds(t)

Next ==
  \/ \E c \in Starters : Call(c) \/ Start(c)
  \/ \E g \in Getters : GetTask(g) \/ Poll(g)
  \/ T3Step
  \/ CrashAndRestart

Spec == Init /\ [][Next]_vars

-----------------------------------------------------------------------------
(* Safety *)

KeyOf(command) == key[command.by]

\* However often a start is retried, overlapped or interrupted by a crash, at
\* most one thread.create and one thread.turn.start per idempotency key ever
\* leave the gateway (begin's reused flag, task.rs:749 and :986).
AtMostOnce ==
  \A a, b \in Sent : KeyOf(a) = KeyOf(b) /\ a.kind = b.kind => a = b

\* A command is only ever sent under a receipt that is already durable and
\* names its ids, so no crash leaves an effect in T3 that a retry cannot find.
SentIsRecorded ==
  \A m \in Sent : CommandOf(ops[KeyOf(m)][m.kind], m.kind) = m

\* Accepted means that T3 applied the command, rejected that it never will.
StatusesAreTrue ==
  \A k \in Keys, d \in Kinds :
    LET m == CommandOf(ops[k][d], d) IN
    /\ ops[k][d].status = "accepted" => m \in applied
    /\ ops[k][d].status = "rejected" => m \notin wire \cup applied

\* The instruction is only sent to the thread the same task created, and only
\* when that thread is in T3.
TurnFollowsCreate ==
  /\ \A m \in Sent : m.kind = "turn" =>
       /\ m.thread \in Starters /\ key[m.thread] = KeyOf(m)
       /\ ThreadExists(m.thread)
  /\ \A k \in Keys :
       ops[k]["create"].status = "none" => ops[k]["turn"].status = "none"

\* The ids in the task record, which clients are given, are those of its
\* receipts.
TaskIdsMatch ==
  \A k \in Keys :
    /\ tasks[k].thread \in {NoId, ops[k]["create"].by}
    /\ tasks[k].run \in {NoId, ops[k]["turn"].by}

\* What the journal keeps of a task tells the truth about T3 (dispatch_new and
\* reconcile), about the thread the turn went to, and about its own receipts.
ReceiptsAreTrue == StatusesAreTrue /\ TurnFollowsCreate /\ TaskIdsMatch

\* A task that begin_task admitted never conflicts with its own child
\* receipts: the child payloads follow from the task's payload.
NoChildConflict ==
  \A c \in Starters :
    answer[c] = "conflict" => tasks[key[c]].payload # payload[c]

\* What a call answers about a task is true of T3: a run it reports accepted
\* is there, one it reports rejected never will be, and a conflict is one.
AnswersAreTrue ==
  /\ \A c \in Calls :
       LET k    == key[c]
           turn == CommandOf(ops[k]["turn"], "turn") IN
       /\ answer[c] = "run_accepted" => turn \in applied
       /\ answer[c] = "thread_created" => ThreadExists(ops[k]["create"].by)
       /\ answer[c] = "dispatch_rejected" =>
            ops[k]["turn"].status = "rejected" /\ turn \notin wire \cup applied
  /\ NoChildConflict

\* The id under which T3 applied each task's command of a kind.
Delivered(d) ==
  [k \in Keys |-> IF CommandOf(ops[k][d], d) \in applied THEN ops[k][d].by ELSE NoId]

T3Threads    == Delivered("create")
T3Runs       == Delivered("turn")
RefusedTasks == {k \in Keys : \E d \in Kinds : ops[k][d].status = "rejected"}

Delivery == INSTANCE TaskDelivery WITH
  task <- key, thread <- T3Threads, run <- T3Runs, refused <- RefusedTasks,
  said <- answer

\* The two tools together deliver each task once and tell what is so, however
\* calls overlap, commands are lost or late, and the gateway crashes.
ImplementsDelivery == Delivery!Spec

\* A start call is never refused as thread_busy because of the run its own
\* task started: the key is looked up again after the thread was read.
OwnRunNeverBusy ==
  [][\A c \in Starters :
       /\ pc[c] = "prepare" /\ kind[c] = "turn"
       /\ pc'[c] = "done" /\ answer'[c] \in Stages
       => running[ops[key[c]]["create"].by] = Foreign]_vars

\* A rejected receipt stays rejected and every receipt keeps its ids, whatever
\* stale copy of it a slower call still holds.
ReceiptsAreStable ==
  [][\A k \in Keys, d \in Kinds :
       ops[k][d].status # "none" =>
         /\ CommandOf(ops'[k][d], d) = CommandOf(ops[k][d], d)
         /\ ops'[k][d].payload = ops[k][d].payload
         /\ ops'[k][d] = ops[k][d] \/ ops'[k][d].status \notin {"none", "prepared"}
         /\ ops[k][d].status = "rejected" => ops'[k][d].status = "rejected"]_vars

\* "The gateway never advances to the turn while thread creation is uncertain"
\* (docs/usage.md:116): the create receipt is accepted when the turn begins.
TurnAwaitsCreate ==
  [][\A k \in Keys :
       ops[k]["turn"].status = "none" /\ ops'[k]["turn"].status # "none"
       => ops[k]["create"].status = "accepted"]_vars

\* The review baseline is captured only after T3 accepted the selected
\* workspace (docs/usage.md:120), and, when calls do not overlap, before T3 has
\* the run whose work it is compared with.
BaselinePrecedesRun ==
  \A k \in Keys :
    /\ tasks[k].baseline # "none" => ThreadExists(ops[k]["create"].by)
    /\ tasks[k].baseline # "late"

\* An answer of "rejected", which tells the client to start a new task under a
\* new key, means that nothing of this task is in T3 or on its way there.
ReplacementIsSafe ==
  [][\A c \in Starters :
       answer[c] # "rejected" /\ answer'[c] = "rejected"
       => \A m \in wire \cup applied : KeyOf(m) # key[c]]_vars

-----------------------------------------------------------------------------
(* Liveness *)

\* Every await of a call is bounded by a timeout (http_client.rs, git/mod.rs),
\* so a call that waits goes on.  That clients keep polling, and that T3 shows
\* a poll the thread again and again, is an assumption about them.
Fairness ==
  /\ \A c \in Starters : WF_vars(Start(c))
  /\ \A g \in Getters :
       /\ WF_vars(GetTask(g)) /\ WF_vars(Poll(g))
       /\ SF_vars(ReadTask(g)) /\ SF_vars(Reconcile(g))

FairSpec == Spec /\ Fairness

\* Once T3 has the instruction, polling settles on run_accepted, whatever
\* answers were lost and wherever the gateway crashed.
PollingConverges ==
  \A k \in Keys :
    <>[](CommandOf(ops[k]["turn"], "turn") \in applied
         => tasks[k].stage = "run_accepted")
=============================================================================
