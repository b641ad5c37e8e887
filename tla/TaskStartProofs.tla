-------------------------- MODULE TaskStartProofs ---------------------------
(***************************************************************************)
(* Proofs about TaskStart, for every number of calls, keys, payloads and   *)
(* crashes.                                                                *)
(*                                                                         *)
(*   Core:  types, and that a command leaves the gateway at most once per  *)
(*          task and kind, under a receipt that names it;                  *)
(*   Truth: what the journal records and what calls answer is true of T3,  *)
(*          whether or not calls overlap;                                  *)
(*   Alone: what holds besides for clients that do not overlap calls.      *)
(*                                                                         *)
(* Core is shown along what a step does to receipts and commands.  Quiet   *)
(* steps do nothing, others begin a receipt, send its command, or set its  *)
(* status.  The invariant is shown for each class, and then every action   *)
(* to be in one.  Truth has three layers: the ledger (receipts against     *)
(* T3), the task records (against their receipts), and where each start    *)
(* call stands (against both).                                             *)
(***************************************************************************)
EXTENDS TaskStart, TLAPS

-----------------------------------------------------------------------------
(* The rules of Receipts map journal content to journal content. *)

LEMMA StageOfType ==
  ASSUME NEW stored \in Stages \cup {"none"}, NEW create \in Receipt,
         NEW turn \in Receipt
  PROVE  StageOf(stored, create, turn) \in Stages \cup {"none"}
  BY DEF StageOf, Receipt, Stages, Pending, Statuses, Settled

LEMMA NewReceiptType ==
  ASSUME NEW p \in Payloads, NEW by \in Ids, NEW thread \in Ids
  PROVE  NewReceipt(p, by, thread) \in Receipt
  BY DEF NewReceipt, Receipt, Statuses, Pending

LEMMA RefreshedType ==
  ASSUME NEW task \in Task, NEW pair \in [Kinds -> Receipt]
  PROVE  Refreshed(task, pair) \in Task
  <1>1. pair["create"] \in Receipt /\ pair["turn"] \in Receipt
    BY DEF Kinds
  <1>2. StageOf(task.stage, pair["create"], pair["turn"]) \in Stages \cup {"none"}
    BY <1>1, StageOfType DEF Task
  <1>3. QED
    BY <1>1, <1>2 DEF Refreshed, Task, Receipt

LEMMA RecoveredType ==
  ASSUME NEW o \in Ops
  PROVE  Recovered(o) \in Ops
  <1>1. ASSUME NEW k \in Keys, NEW d \in Kinds
        PROVE  (IF o[k][d].status = "prepared"
                THEN [o[k][d] EXCEPT !.status = "uncertain"]
                ELSE o[k][d]) \in Receipt
    <2>1. o[k][d] \in Receipt
      BY DEF Ops
    <2>2. QED
      BY <2>1 DEF Receipt, Statuses, Pending
  <1>2. QED
    BY <1>1 DEF Recovered, Ops

-----------------------------------------------------------------------------
(* Types: one lemma for each way a call ends an action, then one step per   *)
(* action.                                                                  *)

\* A call that sends does so under the receipt it minted itself, which nobody
\* else sends under or rejects, and only once.
SendersOwnReceipts ==
  \A c \in Calls :
    /\ pc[c] \in {"dispatch", "wait"} =>
         ops[key[c]][kind[c]].by = c /\ ops[key[c]][kind[c]].status # "rejected"
    /\ pc[c] = "dispatch" =>
         /\ ops[key[c]][kind[c]].status = "prepared"
         /\ CommandOf(ops[key[c]][kind[c]], kind[c]) \notin Sent

-----------------------------------------------------------------------------
\* The types of what only calls change.
CallTypes ==
  /\ pc \in [Calls -> PCs]
  /\ kind \in [Calls -> Kinds]
  /\ key \in [Calls -> Keys]
  /\ payload \in [Starters -> Payloads]
  /\ held \in [Calls -> Statuses \cup {"none"}]
  /\ answer \in [Calls -> Answers]

LEMMA SuspendTypes ==
  ASSUME CallTypes, NEW c \in Calls, NEW where \in PCs, NEW d \in Kinds,
         NEW status \in Statuses \cup {"none"}, Suspend(c, where, d, status)
  PROVE  CallTypes'
  BY DEF CallTypes, Suspend

LEMMA FinishTypes ==
  ASSUME CallTypes, NEW c \in Calls, NEW what \in Answers, Finish(c, what)
  PROVE  CallTypes'
  BY DEF CallTypes, Finish, PCs

LEMMA CommandOfType ==
  ASSUME NEW receipt \in Receipt, NEW d \in Kinds, receipt.by \in Starters
  PROVE  CommandOf(receipt, d) \in Command
  BY DEF CommandOf, Command, Receipt

LEMMA ReuseTypes ==
  ASSUME TypeOK, NEW c \in Calls, NEW d \in Kinds, Reuse(c, d)
  PROVE  CallTypes'
  <1>1. CallTypes
    BY DEF TypeOK, CallTypes
  <1>2. ops[key[c]][d] \in Receipt
    BY DEF TypeOK, Ops
  <1>3. CASE Finish(c, "conflict")
    BY <1>1, <1>3, FinishTypes DEF Answers
  <1>4. CASE Suspend(c, IF ops[key[c]][d].status \in Settled
                        THEN "result" ELSE "reconcile", d, ops[key[c]][d].status)
    <2>1. ops[key[c]][d].status \in Statuses \cup {"none"}
      BY <1>2 DEF Receipt
    <2>2. (IF ops[key[c]][d].status \in Settled THEN "result" ELSE "reconcile") \in PCs
      BY DEF PCs
    <2>3. QED
      BY <1>1, <1>4, <2>1, <2>2, SuspendTypes
  <1>5. QED
    BY <1>3, <1>4 DEF Reuse

LEMMA EnterChildTypes ==
  ASSUME TypeOK, NEW c \in Calls, NEW d \in Kinds, EnterChild(c, d)
  PROVE  CallTypes'
  <1>1. CallTypes
    BY DEF TypeOK, CallTypes
  <1>2. CASE Suspend(c, "prepare", d, "none")
    BY <1>1, <1>2, SuspendTypes DEF PCs
  <1>3. QED
    BY <1>2, ReuseTypes DEF EnterChild

LEMMA BeginTypes ==
  ASSUME TypeOK, NEW c \in Starters, NEW d \in Kinds, NEW thread \in Ids,
         Begin(c, d, thread)
  PROVE  CallTypes' /\ ops' \in Ops
  <1>1. c \in Calls /\ CallTypes /\ payload[c] \in Payloads /\ c \in Ids
    BY CallAssumption DEF TypeOK, CallTypes, Calls, Ids
  <1>2. CASE ops[key[c]][d].status = "none"
    <2> DEFINE receipt == NewReceipt(payload[c], c, thread)
    <2>1. receipt \in Receipt
      BY <1>1, NewReceiptType
    <2>2. ops' = [ops EXCEPT ![key[c]][d] = receipt]
          /\ Suspend(c, "dispatch", d, "prepared")
      BY <1>2 DEF Begin
    <2> HIDE DEF receipt
    <2>3. ops \in [Keys -> [Kinds -> Receipt]]
      BY DEF TypeOK, Ops
    <2>4. ops' \in Ops
      BY <2>1, <2>2, <2>3 DEF Ops
    <2>5. QED
      BY <1>1, <2>2, <2>4, SuspendTypes DEF PCs, Statuses, Pending
  <1>3. CASE ops[key[c]][d].status # "none"
    BY <1>1, <1>3, ReuseTypes DEF Begin, TypeOK
  <1>4. QED
    BY <1>2, <1>3

LEMMA SetStatusType ==
  ASSUME TypeOK, NEW c \in Calls, NEW d \in Kinds, NEW status \in Statuses,
         SetStatus(c, d, status)
  PROVE  ops' \in Ops
  <1>1. key[c] \in Keys /\ ops[key[c]][d] \in Receipt
    BY DEF TypeOK, Ops
  <1>2. [ops[key[c]][d] EXCEPT !.status = status] \in Receipt
    BY <1>1 DEF Receipt
  <1>3. QED
    BY <1>1, <1>2 DEF SetStatus, TypeOK, Ops

LEMMA FinishWithStageTypes ==
  ASSUME TypeOK, NEW c \in Calls, NEW stored \in Stages \cup {"none"},
         FinishWithStage(c, stored)
  PROVE  CallTypes'
  <1>1. StageOf(stored, ops[key[c]]["create"], ops[key[c]]["turn"])
          \in Stages \cup {"none"}
    BY StageOfType DEF TypeOK, Ops, Kinds
  <1>2. QED
    BY <1>1, FinishTypes DEF FinishWithStage, TypeOK, CallTypes, Answers

LEMMA RefreshTypes ==
  ASSUME TypeOK, NEW c \in Calls, NEW newOps \in Ops, Refresh(c, newOps)
  PROVE  CallTypes' /\ tasks' \in Tasks
  <1> DEFINE task == Refreshed(tasks[key[c]], newOps[key[c]])
  <1>1. task \in Task
    BY RefreshedType DEF TypeOK, Ops, Tasks
  <1>2. tasks' = [tasks EXCEPT ![key[c]] = task] /\ Finish(c, task.stage)
    BY DEF Refresh
  <1>3. task.stage \in Answers
    BY <1>1 DEF Task, Answers
  <1> HIDE DEF task
  <1>4. QED
    BY <1>1, <1>2, <1>3, FinishTypes DEF TypeOK, CallTypes, Tasks

LEMMA AfterReconcileTypes ==
  ASSUME TypeOK, NEW c \in Calls, NEW status \in Statuses \cup {"none"},
         NEW newOps \in Ops, AfterReconcile(c, status, newOps)
  PROVE  CallTypes' /\ tasks' \in Tasks
  <1>1. CallTypes /\ kind[c] \in Kinds /\ held[c] \in Statuses \cup {"none"}
    BY DEF TypeOK, CallTypes
  <1>2. CASE Suspend(c, "result", kind[c], status) /\ UNCHANGED tasks
    BY <1>1, <1>2, SuspendTypes DEF PCs, TypeOK
  <1>3. CASE Suspend(c, "reconcile", "turn", held[c]) /\ UNCHANGED tasks
    BY <1>1, <1>3, SuspendTypes DEF PCs, TypeOK, Kinds
  <1>4. CASE Refresh(c, newOps)
    BY <1>4, RefreshTypes
  <1>5. QED
    BY <1>2, <1>3, <1>4 DEF AfterReconcile

\* A patch of a task's stage and ids, or of its baseline.
LEMMA TaskPatchTypes ==
  ASSUME TypeOK, NEW k \in Keys, NEW stage \in Stages, NEW t \in Ids,
         NEW b \in Baselines
  PROVE  /\ [tasks EXCEPT ![k].stage = stage] \in Tasks
         /\ [tasks EXCEPT ![k].stage = stage, ![k].thread = t] \in Tasks
         /\ [tasks EXCEPT ![k].stage = stage, ![k].run = t] \in Tasks
         /\ [tasks EXCEPT ![k].baseline = b] \in Tasks
  <1>1. tasks \in [Keys -> Task] /\ tasks[k] \in Task
    BY DEF TypeOK, Tasks
  <1>2. [tasks[k] EXCEPT !.stage = stage] \in Task
    BY <1>1 DEF Task
  <1>3. [tasks[k] EXCEPT !.baseline = b] \in Task
    BY <1>1 DEF Task
  <1>4. [[tasks[k] EXCEPT !.stage = stage] EXCEPT !.thread = t] \in Task
    BY <1>1 DEF Task
  <1>5. [[tasks[k] EXCEPT !.stage = stage] EXCEPT !.run = t] \in Task
    BY <1>1 DEF Task
  <1>6. QED
    BY <1>1, <1>2, <1>3, <1>4, <1>5 DEF Tasks

\* The types of what only T3 and the network change.
T3Types ==
  /\ wire \subseteq Command /\ applied \subseteq Command
  /\ refused \subseteq Command /\ lost \subseteq Command
  /\ running \in [Starters -> Starters \cup {Idle, Foreign}]

Typed == /\ tasks \in Tasks /\ ops \in Ops /\ CallTypes /\ T3Types
         /\ crashes \in 0..MaxCrashes

LEMMA TypeOKParts == (TypeOK <=> Typed) /\ (TypeOK <=> Typed)'
  BY DEF TypeOK, Typed, CallTypes, T3Types

LEMMA InitTypes == Init => TypeOK
  <1> SUFFICES ASSUME Init PROVE TypeOK
    OBVIOUS
  <1>1. NoReceipt \in Receipt /\ NoTask \in Task
    BY DEF NoReceipt, Receipt, NoTask, Task, Ids, Baselines
  <1>2. tasks \in Tasks /\ ops \in Ops
    BY <1>1 DEF Init, NoTasks, NoOps, Tasks, Ops
  <1>3. CallTypes /\ T3Types /\ crashes \in 0..MaxCrashes
    BY CallAssumption DEF Init, CallTypes, T3Types, PCs, Kinds, Answers
  <1>4. QED
    BY <1>2, <1>3, TypeOKParts DEF Typed

LEMMA ReconcileTypes ==
  ASSUME TypeOK, NEW c \in Calls, Reconcile(c)
  PROVE  TypeOK'
  <1>1. kind[c] \in Kinds /\ T3Types /\ crashes \in 0..MaxCrashes
    BY TypeOKParts DEF Typed, CallTypes
  <1>2. ops' \in Ops
    BY <1>1, SetStatusType DEF Reconcile, Statuses, Settled
  <1>3. AfterReconcile(c, "accepted", ops')
    BY DEF Reconcile, SetStatus
  <1>4. CallTypes' /\ tasks' \in Tasks
    <2>1. ASSUME NEW newOps \in Ops, AfterReconcile(c, "accepted", newOps)
          PROVE  CallTypes' /\ tasks' \in Tasks
      BY <2>1, AfterReconcileTypes DEF Statuses, Settled
    <2>2. QED
      BY <1>2, <1>3, <2>1
  <1>5. QED
    BY <1>1, <1>2, <1>4, TypeOKParts DEF Typed, Reconcile, t3, T3Types

LEMMA ReconcileInVainTypes ==
  ASSUME TypeOK, NEW c \in Calls, ReconcileInVain(c)
  PROVE  TypeOK'
  <1>1. /\ ops \in Ops /\ held[c] \in Statuses \cup {"none"}
        /\ T3Types /\ crashes \in 0..MaxCrashes
    BY TypeOKParts DEF Typed, CallTypes
  <1>2. CallTypes' /\ tasks' \in Tasks
    BY <1>1, AfterReconcileTypes DEF ReconcileInVain
  <1>3. QED
    BY <1>1, <1>2, TypeOKParts DEF Typed, ReconcileInVain, t3, T3Types

\* Every step of a start call keeps the types.
LEMMA StartTypes ==
  ASSUME TypeOK, SendersOwnReceipts, NEW c \in Starters, Start(c)
  PROVE  TypeOK'
  <1> USE DEF journal, t3
  <1>1. /\ c \in Calls /\ c \in Ids /\ key[c] \in Keys /\ kind[c] \in Kinds
        /\ held[c] \in Statuses \cup {"none"}
        /\ payload[c] \in Payloads
    BY CallAssumption DEF TypeOK, Calls, Ids
  <1>2. /\ tasks \in Tasks /\ ops \in Ops /\ CallTypes /\ T3Types
        /\ crashes \in 0..MaxCrashes
    BY TypeOKParts DEF Typed
  <1>3. /\ ops[key[c]][kind[c]] \in Receipt
        /\ ops[key[c]]["create"] \in Receipt /\ ops[key[c]]["turn"] \in Receipt
    BY <1>1, <1>2 DEF Ops, Kinds
  <1>4. "create" \in Kinds /\ "turn" \in Kinds
    BY DEF Kinds
  <1>5. CASE BeginTask(c)
    <2>1. CallTypes' /\ ops' \in Ops /\ T3Types' /\ crashes' \in 0..MaxCrashes
      BY <1>1, <1>2, <1>4, <1>5, EnterChildTypes, FinishTypes
      DEF BeginTask, Answers, T3Types
    <2>2. tasks' \in Tasks
      <3>1. NewTask(payload[c]) \in Task
        BY <1>1 DEF NewTask, NoTask, Task, Stages, Ids, Baselines
      <3>2. tasks' = tasks \/ tasks' = [tasks EXCEPT ![key[c]] = NewTask(payload[c])]
        BY <1>5 DEF BeginTask
      <3>3. QED
        BY <1>1, <1>2, <3>1, <3>2 DEF Tasks
    <2>3. QED
      BY <2>1, <2>2, TypeOKParts DEF Typed
  <1>6. CASE BeginCreate(c)
    BY <1>1, <1>2, <1>4, <1>6, BeginTypes, TypeOKParts DEF Typed, BeginCreate, T3Types
  <1>7. CASE RefuseInput(c)
    BY <1>1, <1>2, <1>7, TaskPatchTypes, FinishWithStageTypes, TypeOKParts
    DEF Typed, RefuseInput, T3Types, Stages, Ids, Baselines
  <1>8. CASE Send(c)
    <2>1. CommandOf(ops[key[c]][kind[c]], kind[c]) \in Command
      BY <1>1, <1>3, <1>8, CommandOfType DEF Send, SendersOwnReceipts
    <2>2. T3Types' /\ tasks' \in Tasks /\ ops' \in Ops /\ crashes' \in 0..MaxCrashes
      BY <1>2, <1>8, <2>1 DEF Send, T3Types
    <2>3. CallTypes'
      BY <1>1, <1>2, <1>8, SuspendTypes DEF Send, PCs, Statuses, Pending
    <2>4. QED
      BY <2>2, <2>3, TypeOKParts DEF Typed
  <1>9. CASE NotSent(c)
    <2>1. ops' \in Ops
      BY <1>1, <1>9, SetStatusType DEF NotSent, Statuses, Settled
    <2>2. CallTypes'
      BY <1>1, <1>2, <1>9, SuspendTypes DEF NotSent, PCs, Statuses, Settled
    <2>3. QED
      BY <1>2, <1>9, <2>1, <2>2, TypeOKParts DEF Typed, NotSent, T3Types
  <1>10. CASE Reply(c)
    <2>1. PICK status \in Outcomes(CommandOf(ops[key[c]][kind[c]], kind[c])) :
            SetStatus(c, kind[c], status) /\ Suspend(c, "result", kind[c], status)
      BY <1>10 DEF Reply
    <2>2. status \in Statuses
      BY <2>1 DEF Outcomes, Statuses, Pending, Settled
    <2>3. ops' \in Ops
      BY <1>1, <2>1, <2>2, SetStatusType
    <2>4. CallTypes'
      BY <1>1, <1>2, <2>1, <2>2, SuspendTypes DEF PCs
    <2>5. QED
      BY <1>2, <1>10, <2>3, <2>4, TypeOKParts DEF Typed, Reply, T3Types
  <1>11. CASE FinishCreate(c)
    <2> DEFINE stage == CASE held[c] = "accepted"  -> "thread_created"
                          [] held[c] = "uncertain" -> "thread_create_uncertain"
                          [] OTHER                 -> "rejected"
    <2>1. stage \in Stages
      BY DEF Stages
    <2>2. /\ tasks' = [tasks EXCEPT ![key[c]].stage = stage,
                                   ![key[c]].thread = ops[key[c]]["create"].thread]
          /\ \/ FinishWithStage(c, stage)
             \/ Suspend(c, "baseline", "create", held[c])
             \/ EnterChild(c, "turn")
          /\ UNCHANGED <<ops, t3, crashes>>
      BY <1>11 DEF FinishCreate
    <2> HIDE DEF stage
    <2>3. ops[key[c]]["create"].thread \in Ids /\ "none" \in Baselines
      BY <1>3 DEF Receipt, Baselines
    <2>4. tasks' \in Tasks
      BY <1>1, <2>1, <2>2, <2>3, TaskPatchTypes
    <2>5. CallTypes'
      BY <1>1, <1>2, <1>4, <2>1, <2>2, FinishWithStageTypes, SuspendTypes,
         EnterChildTypes DEF PCs
    <2>6. QED
      BY <1>2, <2>2, <2>4, <2>5, TypeOKParts DEF Typed, T3Types
  <1>12. CASE TakeBaseline(c)
    <2>1. PICK b \in Baselines : tasks' = [tasks EXCEPT ![key[c]].baseline = b]
      BY <1>12 DEF TakeBaseline, Baselines
    <2>2. tasks' \in Tasks
      BY <1>1, <2>1, TaskPatchTypes DEF Stages
    <2>3. QED
      BY <1>1, <1>2, <1>4, <1>12, <2>2, EnterChildTypes, TypeOKParts
      DEF Typed, TakeBaseline, T3Types
  <1>13. CASE BeginTurn(c)
    <2> DEFINE thread == ops[key[c]]["create"].thread
    <2>1. thread \in Ids
      BY <1>3 DEF Receipt
    <2>2. CASE Reuse(c, "turn") /\ UNCHANGED <<tasks, ops>>
      BY <1>1, <1>2, <1>4, <1>13, <2>2, ReuseTypes, TypeOKParts DEF Typed, BeginTurn, T3Types
    <2>3. CASE /\ tasks' = [tasks EXCEPT ![key[c]].stage = "rejected"]
               /\ FinishWithStage(c, "rejected") /\ UNCHANGED ops
      BY <1>1, <1>2, <1>13, <2>3, TaskPatchTypes, FinishWithStageTypes, TypeOKParts
      DEF Typed, BeginTurn, T3Types, Stages, Ids, Baselines
    <2>4. CASE Begin(c, "turn", thread) /\ UNCHANGED tasks
      BY <1>1, <1>2, <1>4, <1>13, <2>1, <2>4, BeginTypes, TypeOKParts
      DEF Typed, BeginTurn, T3Types
    <2>5. QED
      BY <1>13, <2>2, <2>3, <2>4 DEF BeginTurn
  <1>14. CASE FinishTurn(c)
    <2> DEFINE stage == CASE held[c] = "accepted"  -> "run_accepted"
                          [] held[c] = "uncertain" -> "dispatch_uncertain"
                          [] OTHER                 -> "dispatch_rejected"
    <2>1. stage \in Stages
      BY DEF Stages
    <2>2. /\ tasks' = [tasks EXCEPT ![key[c]].stage = stage,
                                   ![key[c]].run = ops[key[c]]["turn"].by]
          /\ FinishWithStage(c, stage)
          /\ UNCHANGED <<ops, t3, crashes>>
      BY <1>14 DEF FinishTurn
    <2> HIDE DEF stage
    <2>3. ops[key[c]]["turn"].by \in Ids /\ "none" \in Baselines
      BY <1>3 DEF Receipt, Baselines
    <2>4. QED
      BY <1>1, <1>2, <2>1, <2>2, <2>3, TaskPatchTypes, FinishWithStageTypes,
         TypeOKParts DEF Typed, T3Types
  <1>15. CASE ReadFails(c)
    BY <1>1, <1>2, <1>15, FinishTypes, TypeOKParts DEF Typed, ReadFails, T3Types, Answers
  <1>16. CASE JournalFails(c)
    BY <1>1, <1>2, <1>16, FinishTypes, TypeOKParts DEF Typed, JournalFails, T3Types, Answers
  <1>17. CASE Reconcile(c)
    BY <1>1, <1>17, ReconcileTypes
  <1>18. CASE ReconcileInVain(c)
    BY <1>1, <1>18, ReconcileInVainTypes
  <1>19. QED
    BY <1>5, <1>6, <1>7, <1>8, <1>9, <1>10, <1>11, <1>12, <1>13, <1>14, <1>15,
       <1>16, <1>17, <1>18 DEF Start

\* Every step keeps the types.
LEMMA NextTypes ==
  ASSUME TypeOK, SendersOwnReceipts, [Next]_vars
  PROVE  TypeOK'
  <1> USE DEF journal, t3
  <1>1. /\ tasks \in Tasks /\ ops \in Ops /\ CallTypes /\ T3Types
        /\ crashes \in 0..MaxCrashes
    BY TypeOKParts DEF Typed
  <1>2. "create" \in Kinds /\ "scope" \in PCs
    BY DEF Kinds, PCs
  <1>3. ASSUME NEW c \in Starters, Call(c)
        PROVE  TypeOK'
    BY <1>1, <1>2, <1>3, SuspendTypes, TypeOKParts DEF Typed, Call, Calls, T3Types
  <1>4. ASSUME NEW g \in Getters, GetTask(g)
        PROVE  TypeOK'
    BY <1>1, <1>2, <1>4, SuspendTypes, TypeOKParts DEF Typed, GetTask, Calls, T3Types
  <1>5. ASSUME NEW g \in Getters, ReadTask(g)
        PROVE  TypeOK'
    <2>1. g \in Calls /\ ops[key[g]]["turn"].status \in Statuses \cup {"none"}
      BY <1>1 DEF Calls, CallTypes, Ops, Receipt, Kinds
    <2>2. CASE UNCHANGED tasks /\ (\E d \in Kinds :
                 Suspend(g, "reconcile", d, ops[key[g]]["turn"].status))
      BY <1>1, <1>5, <2>1, <2>2, SuspendTypes, TypeOKParts
      DEF Typed, ReadTask, T3Types, PCs
    <2>3. CASE Refresh(g, ops)
      BY <1>1, <1>5, <2>1, <2>3, RefreshTypes, TypeOKParts DEF Typed, ReadTask, T3Types
    <2>4. QED
      BY <1>5, <2>2, <2>3 DEF ReadTask, Kinds
  <1>6. ASSUME NEW g \in Getters, Poll(g)
        PROVE  TypeOK'
    BY <1>1, <1>5, <1>6, ReconcileTypes, ReconcileInVainTypes, FinishTypes, TypeOKParts
    DEF Typed, Poll, Calls, JournalFails, T3Types, Answers
  <1>7. ASSUME NEW m \in wire, T3Applies(m) \/ T3Refuses(m) \/ Lose(m)
        PROVE  TypeOK'
    <2>1. m \in Command /\ m.by \in Starters /\ m.thread \in Ids
      BY <1>1 DEF T3Types, Command
    <2>2. T3Types'
      BY <1>1, <1>7, <2>1 DEF T3Types, T3Applies, T3Refuses, Lose
    <2>3. QED
      BY <1>1, <1>7, <2>2, TypeOKParts
      DEF Typed, T3Applies, T3Refuses, Lose, calls, CallTypes
  <1>8. ASSUME NEW t \in Starters, ForeignTurn(t) \/ TurnEnds(t)
        PROVE  TypeOK'
    BY <1>1, <1>8, TypeOKParts DEF Typed, ForeignTurn, TurnEnds, calls, CallTypes, T3Types
  <1>9. CASE CrashAndRestart
    <2>1. ops' \in Ops /\ tasks' \in Tasks /\ T3Types'
      BY <1>1, <1>9, RecoveredType DEF CrashAndRestart, T3Types
    <2>2. CallTypes'
      BY <1>1, <1>9 DEF CrashAndRestart, CallTypes, PCs, Answers
    <2>3. crashes' \in 0..MaxCrashes
      BY <1>1, <1>9, CallAssumption DEF CrashAndRestart
    <2>4. QED
      BY <2>1, <2>2, <2>3, TypeOKParts DEF Typed
  <1>10. CASE UNCHANGED vars
    BY <1>10 DEF vars, calls, TypeOK, Calls
  <1>11. QED
    BY <1>3, <1>4, <1>6, <1>7, <1>8, <1>9, <1>10, StartTypes DEF Next, T3Step

-----------------------------------------------------------------------------
(* The inductive invariant *)

\* A receipt that is there was minted by a call of its key.
ReceiptOwners ==
  \A k \in Keys, d \in Kinds :
    /\ ops[k][d].status = "none" => ops[k][d] = NoReceipt
    /\ ops[k][d].status # "none" => ops[k][d].by \in Starters /\ key[ops[k][d].by] = k

\* A call that works on a receipt finds it in the journal.
HoldsReceipt(c) ==
  /\ pc[c] \in {"dispatch", "wait", "reconcile", "result"} =>
       ops[key[c]][kind[c]].status # "none"
  /\ c \in Getters => pc[c] \in {"idle", "scope", "reconcile", "done"}
  /\ c \in Getters /\ pc[c] = "reconcile" /\ held[c] \in Pending =>
       ops[key[c]]["turn"].status # "none"

CallsHoldReceipts == \A c \in Calls : HoldsReceipt(c)

\* The inductive invariant behind AtMostOnce.
Core == /\ TypeOK /\ ReceiptOwners /\ CallsHoldReceipts /\ SendersOwnReceipts
        /\ SentIsRecorded

-----------------------------------------------------------------------------
(* The four classes of steps *)

Frame(c) ==
  /\ \A e \in Calls \ {c} : pc'[e] = pc[e] /\ kind'[e] = kind[e] /\ held'[e] = held[e]
  /\ UNCHANGED key
  /\ HoldsReceipt(c)'

Quiet(c) ==
  /\ Frame(c)
  /\ ops' = ops /\ Sent' = Sent
  /\ pc'[c] \notin {"dispatch", "wait"}

Begins(c) ==
  /\ Frame(c)
  /\ Sent' = Sent
  /\ c \in Starters
  /\ pc'[c] = "dispatch"
  /\ \E r \in Receipt :
       /\ r.status = "prepared" /\ r.by = c
       /\ ops[key[c]][kind'[c]].status = "none"
       /\ ops' = [ops EXCEPT ![key[c]][kind'[c]] = r]

Sends(c) ==
  /\ Frame(c)
  /\ ops' = ops
  /\ Sent' = Sent \cup {CommandOf(ops[key[c]][kind[c]], kind[c])}
  /\ pc[c] = "dispatch" /\ pc'[c] = "wait" /\ kind'[c] = kind[c]

SetsStatus(c) ==
  /\ Frame(c)
  /\ Sent' = Sent
  /\ pc'[c] \notin {"dispatch", "wait"}
  /\ \E s \in Statuses :
       /\ ops' = [ops EXCEPT ![key[c]][kind[c]].status = s]
       /\ ops[key[c]][kind[c]].status # "none"
       /\ \/ pc[c] \in {"dispatch", "wait"}
          \/ /\ s = "accepted"
             /\ CommandOf(ops[key[c]][kind[c]], kind[c]) \in Sent

-----------------------------------------------------------------------------
LEMMA QuietKeepsCore ==
  ASSUME Core, TypeOK', NEW c \in Calls, Quiet(c)
  PROVE  Core'
  <1>1. ReceiptOwners'
    BY DEF Core, Quiet, Frame, ReceiptOwners
  <1>2. CallsHoldReceipts'
    BY DEF Core, Quiet, Frame, CallsHoldReceipts, HoldsReceipt
  <1>3. SendersOwnReceipts'
    BY DEF Core, Quiet, Frame, SendersOwnReceipts
  <1>4. SentIsRecorded'
    BY DEF Core, Quiet, Frame, SentIsRecorded, KeyOf
  <1>5. QED
    BY <1>1, <1>2, <1>3, <1>4 DEF Core

LEMMA SendsKeepsCore ==
  ASSUME Core, TypeOK', NEW c \in Calls, Sends(c)
  PROVE  Core'
  <1> DEFINE own == ops[key[c]][kind[c]]
  <1>1. own.by = c /\ kind[c] \in Kinds /\ key[c] \in Keys
    BY DEF Core, Sends, SendersOwnReceipts, TypeOK
  <1>2. ReceiptOwners'
    BY DEF Core, Sends, Frame, ReceiptOwners
  <1>3. CallsHoldReceipts'
    BY DEF Core, Sends, Frame, CallsHoldReceipts, HoldsReceipt
  <1>4. SendersOwnReceipts'
    <2>1. SUFFICES ASSUME NEW e \in Calls
                   PROVE  /\ pc'[e] \in {"dispatch", "wait"} =>
                               /\ ops[key[e]][kind'[e]].by = e
                               /\ ops[key[e]][kind'[e]].status # "rejected"
                          /\ pc'[e] = "dispatch" =>
                               /\ ops[key[e]][kind'[e]].status = "prepared"
                               /\ CommandOf(ops[key[e]][kind'[e]], kind'[e]) \notin Sent'
      BY DEF Sends, Frame, SendersOwnReceipts, CommandOf
    <2>2. CASE e = c
      BY <2>2 DEF Core, Sends, SendersOwnReceipts
    <2>3. CASE e # c
      BY <1>1, <2>3 DEF Core, Sends, Frame, SendersOwnReceipts, CommandOf
    <2>4. QED
      BY <2>2, <2>3
  <1>5. SentIsRecorded'
    BY <1>1 DEF Core, Sends, Frame, SentIsRecorded, KeyOf, CommandOf
  <1>6. QED
    BY <1>2, <1>3, <1>4, <1>5 DEF Core

\* What a patch of one receipt does to each receipt.
LEMMA PatchedOps ==
  ASSUME NEW o \in Ops, NEW k \in Keys, NEW d \in Kinds, NEW r \in Receipt,
         NEW j \in Keys, NEW e \in Kinds
  PROVE  [o EXCEPT ![k][d] = r][j][e] = IF j = k /\ e = d THEN r ELSE o[j][e]
  BY DEF Ops

LEMMA PatchedStatus ==
  ASSUME NEW o \in Ops, NEW k \in Keys, NEW d \in Kinds, NEW s \in Statuses,
         NEW j \in Keys, NEW e \in Kinds
  PROVE  LET new == [o EXCEPT ![k][d].status = s][j][e] IN
         /\ new.status = IF j = k /\ e = d THEN s ELSE o[j][e].status
         /\ new.by = o[j][e].by /\ new.thread = o[j][e].thread
         /\ new.payload = o[j][e].payload
         /\ j # k \/ e # d => new = o[j][e]
  <1>1. o[j][e] \in Receipt /\ o[k][d] \in Receipt
    BY DEF Ops
  <1> DEFINE r == [o[k][d] EXCEPT !.status = s]
  <1>2. /\ r \in Receipt /\ r.status = s /\ r.by = o[k][d].by
        /\ r.thread = o[k][d].thread /\ r.payload = o[k][d].payload
    BY <1>1 DEF Receipt
  <1>3. [o EXCEPT ![k][d].status = s] = [o EXCEPT ![k][d] = r]
    BY DEF Ops
  <1> HIDE DEF r
  <1>4. [o EXCEPT ![k][d] = r][j][e] = IF j = k /\ e = d THEN r ELSE o[j][e]
    BY <1>2, PatchedOps
  <1>5. QED
    BY <1>2, <1>3, <1>4

LEMMA BeginsKeepsCore ==
  ASSUME Core, TypeOK', NEW c \in Calls, Begins(c)
  PROVE  Core'
  <1>1. PICK r \in Receipt :
          /\ r.status = "prepared" /\ r.by = c
          /\ ops[key[c]][kind'[c]].status = "none"
          /\ ops' = [ops EXCEPT ![key[c]][kind'[c]] = r]
    BY DEF Begins
  <1>2. /\ key[c] \in Keys /\ kind'[c] \in Kinds /\ ops \in Ops
        /\ c \in Starters /\ c # NoId /\ Sent \subseteq Command
    BY IdAssumption, CallAssumption DEF Core, TypeOK, Begins, Sent
  <1>3. \A k \in Keys, d \in Kinds :
          ops'[k][d] = IF k = key[c] /\ d = kind'[c] THEN r ELSE ops[k][d]
    BY <1>1, <1>2, PatchedOps
  <1>4. ReceiptOwners'
    BY <1>1, <1>2, <1>3 DEF Core, Begins, Frame, ReceiptOwners
  <1>5. CallsHoldReceipts'
    <2>1. \A k \in Keys, d \in Kinds : ops[k][d].status # "none" => ops'[k][d].status # "none"
      BY <1>1, <1>3
    <2>2. SUFFICES ASSUME NEW e \in Calls, e # c PROVE HoldsReceipt(e)'
      BY DEF Begins, Frame, CallsHoldReceipts
    <2>3. key[e] \in Keys /\ kind[e] \in Kinds /\ "turn" \in Kinds
      BY DEF Core, TypeOK, Kinds
    <2>4. QED
      BY <2>1, <2>2, <2>3 DEF Core, Begins, Frame, CallsHoldReceipts, HoldsReceipt
  <1>6. \A m \in Sent : KeyOf(m) # key[c] \/ m.kind # kind'[c]
    <2>1. SUFFICES ASSUME NEW m \in Sent, KeyOf(m) = key[c], m.kind = kind'[c]
                   PROVE  FALSE
      OBVIOUS
    <2>2. ops[key[c]][kind'[c]].by = m.by
      BY <2>1 DEF Core, SentIsRecorded, CommandOf
    <2>3. ops[key[c]][kind'[c]].by = NoId
      BY <1>1, <1>2 DEF Core, ReceiptOwners, NoReceipt
    <2>4. m.by \in Starters
      BY <1>2 DEF Command
    <2>5. QED
      BY <2>2, <2>3, <2>4, IdAssumption, CallAssumption
  <1>7. SentIsRecorded'
    <2>1. SUFFICES ASSUME NEW m \in Sent
                   PROVE  CommandOf(ops'[KeyOf(m)][m.kind], m.kind) = m
      BY DEF Begins, Frame, SentIsRecorded, KeyOf, CommandOf
    <2>2. KeyOf(m) \in Keys /\ m.kind \in Kinds
      BY <1>2 DEF Core, TypeOK, KeyOf, Command, Calls
    <2>3. QED
      BY <1>3, <1>6, <2>2 DEF Core, SentIsRecorded
  <1>8. SendersOwnReceipts'
    <2>1. ASSUME NEW e \in Calls, e # c, pc[e] \in {"dispatch", "wait"}
          PROVE  /\ key[e] \in Keys /\ kind[e] \in Kinds
                 /\ ops'[key[e]][kind[e]] = ops[key[e]][kind[e]]
      BY <1>1, <1>3, <2>1 DEF Core, TypeOK, CallsHoldReceipts, HoldsReceipt
    <2>2. ASSUME NEW e \in Calls, e # c
          PROVE  pc'[e] = pc[e] /\ kind'[e] = kind[e] /\ key'[e] = key[e]
      BY <2>2 DEF Begins, Frame
    <2>3. ops'[key[c]][kind'[c]] = r
      BY <1>2, <1>3
    <2>4. CommandOf(r, kind'[c]) \notin Sent
      BY <1>1, <1>2, <1>6 DEF CommandOf, KeyOf
    <2>5. pc'[c] = "dispatch" /\ key' = key /\ Sent' = Sent /\ SendersOwnReceipts
      BY DEF Core, Begins, Frame
    <2>6. ASSUME NEW e \in Calls
          PROVE  /\ pc'[e] \in {"dispatch", "wait"} =>
                      /\ ops'[key[e]][kind'[e]].by = e
                      /\ ops'[key[e]][kind'[e]].status # "rejected"
                 /\ pc'[e] = "dispatch" =>
                      /\ ops'[key[e]][kind'[e]].status = "prepared"
                      /\ CommandOf(ops'[key[e]][kind'[e]], kind'[e]) \notin Sent
      <3>1. CASE e = c
        BY <1>1, <2>3, <2>4, <3>1
      <3>2. CASE e # c
        BY <2>1, <2>2, <2>5, <3>2 DEF SendersOwnReceipts
      <3>3. QED
        BY <3>1, <3>2
    <2>7. QED
      BY <2>5, <2>6 DEF SendersOwnReceipts, CommandOf
  <1>9. QED
    BY <1>4, <1>5, <1>7, <1>8 DEF Core

LEMMA SetsStatusKeepsCore ==
  ASSUME Core, TypeOK', NEW c \in Calls, SetsStatus(c)
  PROVE  Core'
  <1> DEFINE own == ops[key[c]][kind[c]]
  <1>1. PICK s \in Statuses :
          /\ ops' = [ops EXCEPT ![key[c]][kind[c]].status = s]
          /\ own.status # "none"
          /\ \/ pc[c] \in {"dispatch", "wait"}
             \/ s = "accepted" /\ CommandOf(own, kind[c]) \in Sent
    BY DEF SetsStatus
  <1>2. /\ key[c] \in Keys /\ kind[c] \in Kinds /\ ops \in Ops
        /\ Sent \subseteq Command /\ s # "none"
    BY DEF Core, TypeOK, Sent, Statuses, Pending, Settled
  <1>3. \A k \in Keys, d \in Kinds :
          /\ ops'[k][d].status = IF k = key[c] /\ d = kind[c] THEN s ELSE ops[k][d].status
          /\ ops'[k][d].by = ops[k][d].by /\ ops'[k][d].thread = ops[k][d].thread
          /\ k # key[c] \/ d # kind[c] => ops'[k][d] = ops[k][d]
    BY <1>1, <1>2, PatchedStatus
  <1>4. ReceiptOwners'
    <2>1. key' = key /\ ReceiptOwners
      BY DEF SetsStatus, Frame, Core
    <2>2. ASSUME NEW k \in Keys, NEW d \in Kinds
          PROVE  /\ ops'[k][d].status = "none" => ops'[k][d] = NoReceipt
                 /\ ops'[k][d].status # "none" =>
                      ops'[k][d].by \in Starters /\ key[ops'[k][d].by] = k
      <3>1. CASE k = key[c] /\ d = kind[c]
        <4>1. ops'[k][d].status # "none" /\ ops'[k][d].by = ops[k][d].by
          BY <1>2, <1>3, <3>1
        <4>2. ops[k][d].status # "none"
          BY <1>1, <3>1
        <4>3. QED
          BY <2>1, <4>1, <4>2 DEF ReceiptOwners
      <3>2. CASE k # key[c] \/ d # kind[c]
        BY <1>3, <2>1, <3>2 DEF ReceiptOwners
      <3>3. QED
        BY <3>1, <3>2
    <2>3. QED
      BY <2>1, <2>2 DEF ReceiptOwners
  <1>5. CallsHoldReceipts'
    <2>1. \A k \in Keys, d \in Kinds : ops[k][d].status # "none" => ops'[k][d].status # "none"
      BY <1>2, <1>3
    <2>2. SUFFICES ASSUME NEW e \in Calls, e # c PROVE HoldsReceipt(e)'
      BY DEF SetsStatus, Frame, CallsHoldReceipts
    <2>3. key[e] \in Keys /\ kind[e] \in Kinds /\ "turn" \in Kinds
      BY DEF Core, TypeOK, Kinds
    <2>4. QED
      BY <2>1, <2>2, <2>3 DEF Core, SetsStatus, Frame, CallsHoldReceipts, HoldsReceipt
  <1>6. SentIsRecorded'
    <2>1. SUFFICES ASSUME NEW m \in Sent
                   PROVE  CommandOf(ops'[KeyOf(m)][m.kind], m.kind) = m
      BY DEF SetsStatus, Frame, SentIsRecorded, KeyOf, CommandOf
    <2>2. KeyOf(m) \in Keys /\ m.kind \in Kinds
      BY <1>2 DEF Core, TypeOK, KeyOf, Command, Calls
    <2>3. QED
      BY <1>3, <2>2 DEF Core, SentIsRecorded, CommandOf
  <1>7. SendersOwnReceipts'
    <2>1. ASSUME NEW e \in Calls, e # c, pc[e] \in {"dispatch", "wait"}
          PROVE  /\ ops'[key[e]][kind[e]].by = e
                 /\ ops'[key[e]][kind[e]].status # "rejected"
                 /\ pc[e] = "dispatch" =>
                      /\ ops'[key[e]][kind[e]].status = "prepared"
                      /\ CommandOf(ops'[key[e]][kind[e]], kind[e]) \notin Sent
      <3>1. key[e] \in Keys /\ kind[e] \in Kinds
        BY DEF Core, TypeOK
      <3>2. CASE key[e] # key[c] \/ kind[e] # kind[c]
        BY <1>3, <2>1, <3>1, <3>2 DEF Core, SendersOwnReceipts
      <3>3. CASE key[e] = key[c] /\ kind[e] = kind[c]
        <4>1. own.by = e
          BY <2>1, <3>3 DEF Core, SendersOwnReceipts
        <4>2. s = "accepted" /\ CommandOf(own, kind[c]) \in Sent
          BY <1>1, <2>1, <4>1 DEF Core, SendersOwnReceipts
        <4>3. pc[e] # "dispatch"
          BY <3>3, <4>2 DEF Core, SendersOwnReceipts
        <4>4. QED
          BY <1>3, <3>1, <3>3, <4>1, <4>2, <4>3
      <3>4. QED
        BY <3>2, <3>3
    <2>2. ASSUME NEW e \in Calls, e # c
          PROVE  pc'[e] = pc[e] /\ kind'[e] = kind[e] /\ key'[e] = key[e]
      BY <2>2 DEF SetsStatus, Frame
    <2>3. Sent' = Sent /\ pc'[c] \notin {"dispatch", "wait"}
      BY DEF SetsStatus
    <2>4. QED
      BY <2>1, <2>2, <2>3 DEF SendersOwnReceipts, CommandOf
  <1>8. QED
    BY <1>4, <1>5, <1>6, <1>7 DEF Core

-----------------------------------------------------------------------------
(* Every action is in a class. *)

Others(c) ==
  \A e \in Calls \ {c} : pc'[e] = pc[e] /\ kind'[e] = kind[e] /\ held'[e] = held[e]

LEMMA SuspendFrame ==
  ASSUME TypeOK, NEW c \in Calls, NEW where, NEW d, NEW status,
         Suspend(c, where, d, status)
  PROVE  /\ Others(c) /\ UNCHANGED key
         /\ pc'[c] = where /\ kind'[c] = d /\ held'[c] = status
  BY DEF TypeOK, Suspend, Others

LEMMA FinishIsQuiet ==
  ASSUME TypeOK, NEW c \in Calls, NEW what, Finish(c, what),
         ops' = ops, Sent' = Sent
  PROVE  Quiet(c)
  BY DEF TypeOK, Finish, Quiet, Frame, HoldsReceipt

LEMMA FinishWithStageIsQuiet ==
  ASSUME TypeOK, NEW c \in Calls, NEW stage, FinishWithStage(c, stage),
         ops' = ops, Sent' = Sent
  PROVE  Quiet(c)
  BY FinishIsQuiet DEF FinishWithStage

LEMMA ReuseIsQuiet ==
  ASSUME TypeOK, NEW c \in Starters, NEW d \in Kinds, Reuse(c, d),
         ops[key[c]][d].status # "none", ops' = ops, Sent' = Sent
  PROVE  Quiet(c)
  <1>1. c \in Calls /\ c \notin Getters
    BY CallAssumption DEF Calls
  <1>2. CASE Finish(c, "conflict")
    BY <1>1, <1>2, FinishIsQuiet
  <1>3. CASE \E where \in {"result", "reconcile"} :
               Suspend(c, where, d, ops[key[c]][d].status)
    <2>1. /\ Others(c) /\ UNCHANGED key
          /\ pc'[c] \in {"result", "reconcile"} /\ kind'[c] = d
      BY <1>1, <1>3, SuspendFrame
    <2>2. QED
      BY <1>1, <2>1 DEF Quiet, Frame, HoldsReceipt, Others
  <1>4. QED
    BY <1>2, <1>3 DEF Reuse

LEMMA SuspendIsQuiet ==
  ASSUME TypeOK, NEW c \in Starters, NEW where \in {"scope", "prepare", "baseline"},
         NEW d, NEW status, Suspend(c, where, d, status), ops' = ops, Sent' = Sent
  PROVE  Quiet(c)
  <1>1. c \in Calls /\ c \notin Getters
    BY CallAssumption DEF Calls
  <1>2. QED
    BY <1>1, SuspendFrame DEF Quiet, Frame, HoldsReceipt, Others

LEMMA EnterChildIsQuiet ==
  ASSUME TypeOK, NEW c \in Starters, NEW d \in Kinds, EnterChild(c, d),
         ops' = ops, Sent' = Sent
  PROVE  Quiet(c)
  BY ReuseIsQuiet, SuspendIsQuiet DEF EnterChild

LEMMA BeginIsClassed ==
  ASSUME TypeOK, NEW c \in Starters, NEW d \in Kinds, NEW thread \in Ids,
         Begin(c, d, thread), Sent' = Sent
  PROVE  Quiet(c) \/ Begins(c)
  <1>1. c \in Calls /\ c \notin Getters /\ c \in Ids /\ payload[c] \in Payloads
        /\ key[c] \in Keys /\ ops \in Ops
    BY CallAssumption DEF Calls, Ids, TypeOK
  <1>2. CASE ops[key[c]][d].status = "none"
    <2> DEFINE r == NewReceipt(payload[c], c, thread)
    <2>1. r \in Receipt
      BY <1>1, NewReceiptType
    <2>2. r.status = "prepared" /\ r.by = c
      BY DEF NewReceipt
    <2>3. ops' = [ops EXCEPT ![key[c]][d] = r] /\ Suspend(c, "dispatch", d, "prepared")
      BY <1>2 DEF Begin
    <2> HIDE DEF r
    <2>4. /\ Others(c) /\ UNCHANGED key /\ pc'[c] = "dispatch" /\ kind'[c] = d
      BY <1>1, <2>3, SuspendFrame
    <2>5. ops'[key[c]][d] = r
      BY <1>1, <2>1, <2>3, PatchedOps
    <2>6. Frame(c)
      BY <1>1, <2>2, <2>4, <2>5 DEF Frame, HoldsReceipt, Others
    <2>7. QED
      BY <1>2, <2>1, <2>2, <2>3, <2>4, <2>6 DEF Begins
  <1>3. CASE ops[key[c]][d].status # "none"
    BY <1>3, ReuseIsQuiet DEF Begin
  <1>4. QED
    BY <1>2, <1>3

LEMMA SetStatusEffect ==
  ASSUME TypeOK, NEW c \in Calls, NEW d \in Kinds, NEW s \in Statuses,
         SetStatus(c, d, s)
  PROVE  ops'[key[c]][d].status = s
  <1> DEFINE r == [ops[key[c]][d] EXCEPT !.status = s]
  <1>1. ops \in Ops /\ key[c] \in Keys /\ ops[key[c]][d] \in Receipt
    BY DEF TypeOK, Ops
  <1>2. r \in Receipt /\ r.status = s
    BY <1>1 DEF Receipt
  <1>3. ops' = [ops EXCEPT ![key[c]][d] = r]
    BY <1>1 DEF SetStatus, Ops
  <1> HIDE DEF r
  <1>4. ops'[key[c]][d] = r
    BY <1>1, <1>2, <1>3, PatchedOps
  <1>5. QED
    BY <1>2, <1>4

\* Setting the status of the receipt a call works on, and going on elsewhere.
LEMMA SetStatusIsClassed ==
  ASSUME TypeOK, NEW c \in Calls, NEW s \in Statuses, HoldsReceipt(c),
         SetStatus(c, kind[c], s), Sent' = Sent, Frame(c),
         pc[c] \in {"dispatch", "wait", "reconcile"},
         pc'[c] \notin {"dispatch", "wait"},
         pc[c] = "reconcile" =>
           s = "accepted" /\ CommandOf(ops[key[c]][kind[c]], kind[c]) \in Sent
  PROVE  SetsStatus(c)
  BY DEF SetsStatus, SetStatus, HoldsReceipt

Classed(c) == Quiet(c) \/ Begins(c) \/ Sends(c) \/ SetsStatus(c)

\* Reconcile of either tool: the receipt is in the journal before and after.
LEMMA ReconcileIsClassed ==
  ASSUME Core, NEW c \in Calls, Reconcile(c)
  PROVE  SetsStatus(c)
  <1> DEFINE own == ops[key[c]][kind[c]]
  <1>1. /\ pc[c] = "reconcile" /\ CommandOf(own, kind[c]) \in Sent
        /\ SetStatus(c, kind[c], "accepted") /\ Sent' = Sent
    BY DEF Reconcile, Visible, Sent, t3
  <1>2. /\ TypeOK /\ HoldsReceipt(c) /\ "accepted" \in Statuses
        /\ ops \in Ops /\ key[c] \in Keys /\ kind[c] \in Kinds /\ "turn" \in Kinds
    BY DEF Core, CallsHoldReceipts, Statuses, Settled, TypeOK, Kinds
  <1>3. \A k \in Keys, d \in Kinds :
          ops[k][d].status # "none" => ops'[k][d].status # "none"
    BY <1>1, <1>2, PatchedStatus DEF SetStatus
  <1>4. Frame(c) /\ pc'[c] \notin {"dispatch", "wait"}
    <2>1. CASE c \in Starters /\ Suspend(c, "result", kind[c], "accepted")
      <3>1. /\ Others(c) /\ UNCHANGED key /\ pc'[c] = "result" /\ kind'[c] = kind[c]
        BY <1>2, <2>1, SuspendFrame
      <3>2. QED
        BY <1>1, <1>2, <1>3, <2>1, <3>1, CallAssumption
        DEF Frame, Others, HoldsReceipt
    <2>2. CASE c \in Getters /\ held[c] \in Pending /\ Suspend(c, "reconcile", "turn", held[c])
      <3>1. /\ Others(c) /\ UNCHANGED key /\ pc'[c] = "reconcile" /\ kind'[c] = "turn"
        BY <1>2, <2>2, SuspendFrame
      <3>2. QED
        BY <1>1, <1>2, <1>3, <2>2, <3>1 DEF Frame, Others, HoldsReceipt
    <2>3. CASE \E what : Finish(c, what)
      BY <1>2, <2>3 DEF TypeOK, Finish, Frame, HoldsReceipt
    <2>4. QED
      BY <2>1, <2>2, <2>3 DEF Reconcile, AfterReconcile, Refresh
  <1>5. QED
    BY <1>1, <1>2, <1>4, SetStatusIsClassed

LEMMA ReconcileInVainIsClassed ==
  ASSUME Core, NEW c \in Calls, ReconcileInVain(c)
  PROVE  Quiet(c)
  <1>1. /\ pc[c] = "reconcile" /\ ops' = ops /\ Sent' = Sent
        /\ TypeOK /\ HoldsReceipt(c)
    BY DEF Core, CallsHoldReceipts, ReconcileInVain, Sent, t3
  <1>2. CASE c \in Starters /\ Suspend(c, "result", kind[c], held[c])
    <2>1. /\ Others(c) /\ UNCHANGED key /\ pc'[c] = "result" /\ kind'[c] = kind[c]
      BY <1>1, <1>2, SuspendFrame
    <2>2. QED
      BY <1>1, <1>2, <2>1, CallAssumption DEF Quiet, Frame, Others, HoldsReceipt
  <1>3. CASE c \in Getters /\ held[c] \in Pending /\ Suspend(c, "reconcile", "turn", held[c])
    <2>1. /\ Others(c) /\ UNCHANGED key /\ pc'[c] = "reconcile" /\ kind'[c] = "turn"
      BY <1>1, <1>3, SuspendFrame
    <2>2. QED
      BY <1>1, <1>3, <2>1 DEF Quiet, Frame, Others, HoldsReceipt
  <1>4. CASE \E what : Finish(c, what)
    BY <1>1, <1>4, FinishIsQuiet
  <1>5. QED
    BY <1>2, <1>3, <1>4 DEF ReconcileInVain, AfterReconcile, Refresh

\* Every action of a start call is in a class.
LEMMA StartIsClassed ==
  ASSUME Core, NEW c \in Starters, Start(c)
  PROVE  Classed(c)
  <1> USE DEF t3, Sent
  <1>1. /\ c \in Calls /\ c \notin Getters /\ TypeOK /\ HoldsReceipt(c)
        /\ key[c] \in Keys /\ kind[c] \in Kinds /\ "create" \in Kinds /\ "turn" \in Kinds
    BY CallAssumption DEF Calls, Core, CallsHoldReceipts, TypeOK, Kinds
  <1>2. CASE BeginTask(c)
    BY <1>1, <1>2, EnterChildIsQuiet, FinishIsQuiet DEF BeginTask, Classed
  <1>3. CASE BeginCreate(c)
    BY <1>1, <1>3, BeginIsClassed, CallAssumption DEF BeginCreate, Classed, Ids
  <1>4. CASE RefuseInput(c)
    BY <1>1, <1>4, FinishWithStageIsQuiet DEF RefuseInput, Classed
  <1>5. CASE Send(c)
    <2>1. /\ Others(c) /\ UNCHANGED <<key, ops>> /\ pc'[c] = "wait" /\ kind'[c] = kind[c]
      BY <1>1, <1>5, SuspendFrame DEF Send, journal
    <2>2. Frame(c)
      BY <1>1, <1>5, <2>1 DEF Frame, Others, HoldsReceipt, Send
    <2>3. QED
      BY <1>5, <2>1, <2>2 DEF Send, Sends, Classed
  <1>6. CASE NotSent(c)
    <2>1. /\ Others(c) /\ UNCHANGED key /\ pc'[c] = "result" /\ kind'[c] = kind[c]
      BY <1>1, <1>6, SuspendFrame DEF NotSent
    <2>2. "rejected" \in Statuses /\ ops'[key[c]][kind[c]].status = "rejected"
      BY <1>1, <1>6, SetStatusEffect DEF NotSent, Statuses, Settled
    <2>3. Frame(c)
      BY <1>1, <2>1, <2>2 DEF Frame, Others, HoldsReceipt
    <2>4. SetsStatus(c)
      BY <1>1, <1>6, <2>1, <2>2, <2>3, SetStatusIsClassed DEF NotSent
    <2>5. QED
      BY <2>4 DEF Classed
  <1>7. CASE Reply(c)
    <2>1. PICK status \in Outcomes(CommandOf(ops[key[c]][kind[c]], kind[c])) :
            SetStatus(c, kind[c], status) /\ Suspend(c, "result", kind[c], status)
      BY <1>7 DEF Reply
    <2>2. status \in Statuses /\ status # "none"
      BY <2>1 DEF Outcomes, Statuses, Pending, Settled
    <2>3. /\ Others(c) /\ UNCHANGED key /\ pc'[c] = "result" /\ kind'[c] = kind[c]
      BY <1>1, <2>1, SuspendFrame
    <2>4. ops'[key[c]][kind[c]].status = status
      BY <1>1, <2>1, <2>2, SetStatusEffect
    <2>5. Frame(c)
      BY <1>1, <2>2, <2>3, <2>4 DEF Frame, Others, HoldsReceipt
    <2>6. SetsStatus(c)
      BY <1>1, <1>7, <2>1, <2>2, <2>3, <2>5, SetStatusIsClassed DEF Reply
    <2>7. QED
      BY <2>6 DEF Classed
  <1>8. CASE FinishCreate(c)
    <2> DEFINE stage == CASE held[c] = "accepted"  -> "thread_created"
                          [] held[c] = "uncertain" -> "thread_create_uncertain"
                          [] OTHER                 -> "rejected"
    <2>1. /\ \/ FinishWithStage(c, stage)
             \/ Suspend(c, "baseline", "create", held[c])
             \/ EnterChild(c, "turn")
          /\ ops' = ops /\ Sent' = Sent
      BY <1>8 DEF FinishCreate
    <2> HIDE DEF stage
    <2>2. QED
      BY <1>1, <2>1, FinishWithStageIsQuiet, SuspendIsQuiet, EnterChildIsQuiet DEF Classed
  <1>9. CASE TakeBaseline(c)
    BY <1>1, <1>9, EnterChildIsQuiet DEF TakeBaseline, Classed
  <1>10. CASE BeginTurn(c)
    <2> DEFINE thread == ops[key[c]]["create"].thread
    <2>1. thread \in Ids
      BY <1>1 DEF TypeOK, Ops, Receipt
    <2>2. /\ \/ Reuse(c, "turn") /\ ops[key[c]]["turn"].status # "none" /\ ops' = ops
             \/ FinishWithStage(c, "rejected") /\ ops' = ops
             \/ Begin(c, "turn", thread)
          /\ Sent' = Sent
      BY <1>10 DEF BeginTurn
    <2> HIDE DEF thread
    <2>3. QED
      BY <1>1, <2>1, <2>2, ReuseIsQuiet, FinishWithStageIsQuiet, BeginIsClassed DEF Classed
  <1>11. CASE FinishTurn(c)
    <2>1. (\E stage : FinishWithStage(c, stage)) /\ ops' = ops /\ Sent' = Sent
      BY <1>11 DEF FinishTurn
    <2>2. QED
      BY <1>1, <2>1, FinishWithStageIsQuiet DEF Classed
  <1>12. CASE ReadFails(c) \/ JournalFails(c)
    BY <1>1, <1>12, FinishIsQuiet DEF ReadFails, JournalFails, Classed, journal
  <1>13. CASE Reconcile(c) \/ ReconcileInVain(c)
    BY <1>1, <1>13, ReconcileIsClassed, ReconcileInVainIsClassed DEF Classed
  <1>14. QED
    BY <1>2, <1>3, <1>4, <1>5, <1>6, <1>7, <1>8, <1>9, <1>10, <1>11, <1>12, <1>13
    DEF Start

\* A step that touches no call and no receipt.
LEMMA T3KeepsCore ==
  ASSUME Core, TypeOK', UNCHANGED <<journal, calls>>, Sent' = Sent
  PROVE  Core'
  <1> USE DEF journal, calls
  <1>1. ReceiptOwners' /\ CallsHoldReceipts' /\ SendersOwnReceipts' /\ SentIsRecorded'
    BY SMTT(30) DEF Core, ReceiptOwners, CallsHoldReceipts, HoldsReceipt, SendersOwnReceipts,
           SentIsRecorded, KeyOf, CommandOf
  <1>2. QED
    BY <1>1 DEF Core

LEMMA RecoveredReceipts ==
  ASSUME NEW o \in Ops, NEW k \in Keys, NEW d \in Kinds
  PROVE  LET new == Recovered(o)[k][d] IN
         /\ new.status = IF o[k][d].status = "prepared" THEN "uncertain" ELSE o[k][d].status
         /\ new.by = o[k][d].by /\ new.thread = o[k][d].thread
         /\ new.payload = o[k][d].payload
         /\ o[k][d].status = "none" => new = o[k][d]
  <1>1. o[k][d] \in Receipt
    BY DEF Ops
  <1>2. QED
    BY <1>1 DEF Recovered, Receipt

LEMMA CrashKeepsCore ==
  ASSUME Core, TypeOK', CrashAndRestart
  PROVE  Core'
  <1>1. /\ \A c \in Calls : pc'[c] \in {"idle", "done"}
        /\ key' = key /\ ops' = Recovered(ops) /\ Sent' = Sent
    BY DEF CrashAndRestart, t3, Sent
  <1>2. ops \in Ops /\ Sent \subseteq Command
    BY DEF Core, TypeOK, Sent
  <1>3. ReceiptOwners'
    BY <1>1, <1>2, RecoveredReceipts DEF Core, ReceiptOwners
  <1>4. SentIsRecorded'
    <2>1. SUFFICES ASSUME NEW m \in Sent
                   PROVE  CommandOf(ops'[KeyOf(m)][m.kind], m.kind) = m
      BY <1>1 DEF SentIsRecorded, KeyOf, CommandOf
    <2>2. KeyOf(m) \in Keys /\ m.kind \in Kinds
      BY <1>2 DEF Core, TypeOK, KeyOf, Command, Calls
    <2>3. QED
      BY <1>1, <1>2, <2>2, RecoveredReceipts DEF Core, SentIsRecorded, CommandOf
  <1>5. CallsHoldReceipts' /\ SendersOwnReceipts'
    BY <1>1 DEF CallsHoldReceipts, HoldsReceipt, SendersOwnReceipts
  <1>6. QED
    BY <1>3, <1>4, <1>5 DEF Core

LEMMA CoreInit == Init => Core
  <1> SUFFICES ASSUME Init PROVE Core
    OBVIOUS
  <1>1. TypeOK
    BY InitTypes
  <1>2. ReceiptOwners
    BY DEF Init, NoOps, ReceiptOwners, NoReceipt
  <1>3. CallsHoldReceipts /\ SendersOwnReceipts
    BY DEF Init, CallsHoldReceipts, HoldsReceipt, SendersOwnReceipts
  <1>4. SentIsRecorded
    BY DEF Init, SentIsRecorded, Sent
  <1>5. QED
    BY <1>1, <1>2, <1>3, <1>4 DEF Core

LEMMA CoreNext == Core /\ [Next]_vars => Core'
  <1> SUFFICES ASSUME Core, [Next]_vars PROVE Core'
    OBVIOUS
  <1>1. TypeOK /\ TypeOK'
    BY NextTypes DEF Core
  <1>2. ASSUME NEW c \in Calls, Classed(c)
        PROVE  Core'
    BY <1>1, <1>2, QuietKeepsCore, BeginsKeepsCore, SendsKeepsCore, SetsStatusKeepsCore
    DEF Classed
  <1>3. ASSUME NEW c \in Starters, Call(c) \/ Start(c)
        PROVE  Core'
    <2>1. CASE Call(c)
      BY <1>1, <1>2, <2>1, SuspendIsQuiet DEF Call, Classed, Calls, journal, t3, Sent
    <2>2. CASE Start(c)
      BY <1>2, <2>2, StartIsClassed DEF Calls
    <2>3. QED
      BY <1>3, <2>1, <2>2
  <1>4. ASSUME NEW g \in Getters, GetTask(g) \/ Poll(g)
        PROVE  Core'
    <2>1. g \in Calls /\ g \notin Starters
      BY CallAssumption DEF Calls
    <2>2. CASE GetTask(g)
      <3>1. /\ Others(g) /\ UNCHANGED <<key, ops>> /\ Sent' = Sent /\ pc'[g] = "scope"
        BY <1>1, <2>1, <2>2, SuspendFrame DEF GetTask, journal, t3, Sent
      <3>2. QED
        BY <1>2, <2>1, <3>1 DEF Classed, Quiet, Frame, Others, HoldsReceipt
    <2>3. CASE ReadTask(g)
      <3>1. ops' = ops /\ Sent' = Sent
        BY <2>3 DEF ReadTask, t3, Sent
      <3>2. CASE \E d \in Kinds :
                   /\ Suspend(g, "reconcile", d, ops[key[g]]["turn"].status)
                   /\ ops[key[g]][d].status \in Pending
        <4>1. PICK d \in Kinds :
                /\ Suspend(g, "reconcile", d, ops[key[g]]["turn"].status)
                /\ ops[key[g]][d].status \in Pending
          BY <3>2
        <4>2. /\ Others(g) /\ UNCHANGED key /\ pc'[g] = "reconcile" /\ kind'[g] = d
              /\ held'[g] = ops[key[g]]["turn"].status
          BY <1>1, <2>1, <4>1, SuspendFrame
        <4>3. QED
          BY <1>2, <2>1, <3>1, <4>1, <4>2
          DEF Classed, Quiet, Frame, Others, HoldsReceipt, Pending
      <3>3. CASE Refresh(g, ops)
        BY <1>1, <1>2, <2>1, <3>1, <3>3, FinishIsQuiet DEF Refresh, Classed
      <3>4. QED
        BY <2>3, <3>2, <3>3 DEF ReadTask, Kinds
    <2>4. CASE JournalFails(g)
      BY <1>1, <1>2, <2>1, <2>4, FinishIsQuiet DEF JournalFails, Classed, journal, t3, Sent
    <2>5. CASE Reconcile(g) \/ ReconcileInVain(g)
      BY <1>2, <2>1, <2>5, ReconcileIsClassed, ReconcileInVainIsClassed DEF Classed
    <2>6. QED
      BY <1>4, <2>2, <2>3, <2>4, <2>5 DEF Poll
  <1>5. CASE T3Step
    BY <1>1, <1>5, T3KeepsCore
    DEF T3Step, T3Applies, T3Refuses, Lose, ForeignTurn, TurnEnds, Sent
  <1>6. CASE CrashAndRestart
    BY <1>1, <1>6, CrashKeepsCore
  <1>7. CASE UNCHANGED vars
    BY <1>1, <1>7, T3KeepsCore DEF vars, t3, Sent
  <1>8. QED
    BY <1>3, <1>4, <1>5, <1>6, <1>7 DEF Next

-----------------------------------------------------------------------------
\* The invariant holds in every state.
THEOREM CoreInvariant == Spec => []Core
  BY CoreInit, CoreNext, PTL DEF Spec

\* Every variable of the gateway keeps its type.
THEOREM TypeCorrect == Spec => []TypeOK
  <1>1. Core => TypeOK
    BY DEF Core
  <1>2. QED
    BY <1>1, CoreInvariant, PTL

\* No command leaves the gateway but under a durable receipt with its ids.
THEOREM EveryCommandRecorded == Spec => []SentIsRecorded
  <1>1. Core => SentIsRecorded
    BY DEF Core
  <1>2. QED
    BY <1>1, CoreInvariant, PTL

\* However many calls retry, overlap or are cut off by crashes, at most one
\* command of each kind leaves the gateway for each idempotency key.
THEOREM AtMostOnceHolds == Spec => []AtMostOnce
  <1>1. Core => AtMostOnce
    <2>1. SUFFICES ASSUME SentIsRecorded, NEW a \in Sent, NEW b \in Sent,
                          KeyOf(a) = KeyOf(b), a.kind = b.kind
                   PROVE  a = b
      BY DEF Core, AtMostOnce
    <2>2. QED
      BY <2>1 DEF SentIsRecorded
  <1>2. QED
    BY <1>1, CoreInvariant, PTL

-----------------------------------------------------------------------------
(* The ledger *)

\* A command is in one place at a time.
SettledOnce ==
  /\ wire \cap (applied \cup refused \cup lost) = {}
  /\ applied \cap (refused \cup lost) = {}

\* A receipt names the thread its task created, a turn only one that T3 has.
ReceiptThreads ==
  \A k \in Keys :
    /\ ops[k]["create"].status # "none" => ops[k]["create"].thread = ops[k]["create"].by
    /\ ops[k]["turn"].status # "none" =>
         /\ ops[k]["turn"].thread = ops[k]["create"].thread
         /\ ThreadExists(ops[k]["create"].thread)

\* A run of the gateway's in T3 is there because its command was applied.
RunsAreApplied ==
  \A t \in Starters :
    running[t] \in Starters => [kind |-> "turn", by |-> running[t], thread |-> t] \in applied

Ledger == SettledOnce /\ StatusesAreTrue /\ ReceiptThreads /\ RunsAreApplied

\* The receipt a call works on, and the command under it.
Own(c) == ops[key[c]][kind[c]]
OwnCommand(c) == CommandOf(Own(c), kind[c])

CallStep(c) ==
  \/ c \in Starters /\ (Call(c) \/ Start(c))
  \/ c \in Getters /\ (GetTask(c) \/ Poll(c))

\* A call's step keeps receipts and T3, mints a receipt, learns the outcome of
\* its command, or is Send.
Mints(c) ==
  /\ c \in Starters
  /\ pc[c] = "prepare"
  /\ \E thread \in Ids :
       /\ Own(c).status = "none"
       /\ ops' = [ops EXCEPT ![key[c]][kind[c]] = NewReceipt(payload[c], c, thread)]
       /\ kind[c] = "create" => thread = c
       /\ kind[c] = "turn" =>
            thread = ops[key[c]]["create"].thread /\ ThreadExists(thread)
       /\ Suspend(c, "dispatch", kind[c], "prepared")
  /\ UNCHANGED <<tasks, t3>>

Learns(c) ==
  /\ \E s \in Statuses \ {"prepared"} :
       /\ SetStatus(c, kind[c], s)
       /\ Own(c).status # "none"
       /\ s = "accepted" => OwnCommand(c) \in applied
       /\ s = "rejected" => OwnCommand(c) \notin wire \cup applied
       /\ Own(c).status = "rejected" => s = "rejected"
  /\ UNCHANGED t3

Effect(c) == UNCHANGED <<ops, t3>> \/ Mints(c) \/ Learns(c) \/ Send(c)

LEMMA OwnTypes ==
  ASSUME Core, NEW c \in Calls
  PROVE  /\ key[c] \in Keys /\ kind[c] \in Kinds /\ Own(c) \in Receipt /\ ops \in Ops
         /\ ops[key[c]]["create"] \in Receipt /\ ops[key[c]]["turn"] \in Receipt
  BY DEF Core, TypeOK, Ops, Kinds, Own

LEMMA LearnsByReconcile ==
  ASSUME Core, Ledger, NEW c \in Calls, Reconcile(c)
  PROVE  Learns(c)
  <1>1. key[c] \in Keys /\ kind[c] \in Kinds /\ Own(c).status # "none"
    BY OwnTypes DEF Core, CallsHoldReceipts, HoldsReceipt, Own, Reconcile
  <1>2. OwnCommand(c) \in applied /\ SetStatus(c, kind[c], "accepted") /\ UNCHANGED t3
    BY DEF Reconcile, Visible, OwnCommand, Own
  <1>3. Own(c).status # "rejected"
    BY <1>1, <1>2 DEF Ledger, StatusesAreTrue, OwnCommand, Own
  <1>4. QED
    BY <1>1, <1>2, <1>3 DEF Learns, Statuses, Settled, Pending

LEMMA LearnsByReply ==
  ASSUME Core, Ledger, NEW c \in Calls, Reply(c)
  PROVE  Learns(c)
  <1>1. /\ Own(c).status # "none" /\ Own(c).status # "rejected"
    BY DEF Core, CallsHoldReceipts, HoldsReceipt, SendersOwnReceipts, Own, Reply
  <1>2. PICK s \in Outcomes(OwnCommand(c)) : SetStatus(c, kind[c], s)
    BY DEF Reply, OwnCommand, Own
  <1>3. /\ s \in Statuses \ {"prepared"}
        /\ s = "accepted" => OwnCommand(c) \in applied
        /\ s = "rejected" => OwnCommand(c) \in refused
    BY <1>2 DEF Outcomes, Statuses, Settled, Pending
  <1>4. OwnCommand(c) \in refused => OwnCommand(c) \notin wire \cup applied
    BY DEF Ledger, SettledOnce
  <1>5. QED
    BY <1>1, <1>2, <1>3, <1>4 DEF Learns, Reply

LEMMA MintsByBegin ==
  ASSUME Core, NEW c \in Starters, pc[c] = "prepare", NEW thread \in Ids,
         Begin(c, kind[c], thread), UNCHANGED <<tasks, t3>>,
         kind[c] = "create" => thread = c,
         kind[c] = "turn" => thread = ops[key[c]]["create"].thread /\ ThreadExists(thread)
  PROVE  UNCHANGED <<ops, t3>> \/ Mints(c)
  <1>1. CASE Own(c).status = "none"
    BY <1>1 DEF Begin, Mints, Own
  <1>2. CASE Own(c).status # "none"
    BY <1>2 DEF Begin, Own
  <1>3. QED
    BY <1>1, <1>2

LEMMA StartEffect ==
  ASSUME Core, Ledger, NEW c \in Starters, Start(c)
  PROVE  Effect(c)
  <1>1. c \in Calls /\ c \in Ids
    BY CallAssumption DEF Calls, Ids
  <1>2. CASE BeginTask(c) \/ RefuseInput(c) \/ FinishCreate(c) \/ TakeBaseline(c)
             \/ FinishTurn(c) \/ ReadFails(c) \/ JournalFails(c) \/ ReconcileInVain(c)
    BY <1>2 DEF BeginTask, RefuseInput, FinishCreate, TakeBaseline, FinishTurn,
                ReadFails, JournalFails, ReconcileInVain, Effect, journal
  <1>3. CASE BeginCreate(c)
    BY <1>1, <1>3, MintsByBegin DEF BeginCreate, Effect
  <1>4. CASE BeginTurn(c)
    <2> DEFINE thread == ops[key[c]]["create"].thread
    <2>1. thread \in Ids
      BY <1>1, OwnTypes DEF Receipt
    <2>2. /\ pc[c] = "prepare" /\ kind[c] = "turn" /\ ThreadExists(thread) /\ UNCHANGED t3
          /\ UNCHANGED ops \/ (Begin(c, "turn", thread) /\ UNCHANGED tasks)
      BY <1>4 DEF BeginTurn
    <2>3. QED
      BY <2>1, <2>2, MintsByBegin DEF Effect
  <1>5. CASE NotSent(c)
    <2>1. /\ Own(c).status # "none" /\ Own(c).status # "rejected"
          /\ OwnCommand(c) \notin Sent
      BY <1>1, <1>5 DEF Core, CallsHoldReceipts, HoldsReceipt, SendersOwnReceipts,
                        Own, OwnCommand, NotSent
    <2>2. Learns(c)
      BY <1>5, <2>1 DEF Learns, NotSent, Sent, Statuses, Settled, Pending
    <2>3. QED
      BY <2>2 DEF Effect
  <1>6. QED
    BY <1>1, <1>2, <1>3, <1>4, <1>5, LearnsByReply, LearnsByReconcile DEF Start, Effect

LEMMA CallEffect ==
  ASSUME Core, Ledger, NEW c \in Calls, CallStep(c)
  PROVE  Effect(c)
  <1>1. CASE c \in Starters /\ Start(c)
    BY <1>1, StartEffect
  <1>2. CASE Call(c) \/ GetTask(c)
    BY <1>2 DEF Call, GetTask, journal, Effect
  <1>3. CASE Poll(c)
    BY <1>3, LearnsByReconcile
    DEF Poll, ReadTask, ReconcileInVain, JournalFails, journal, Effect
  <1>4. QED
    BY <1>1, <1>2, <1>3 DEF CallStep

-----------------------------------------------------------------------------
(* What no step takes back *)

\* A receipt that is there keeps its ids, never becomes prepared again and
\* stays rejected; a command that was applied stays applied.
ReceiptKept(k, d) ==
  ops[k][d].status # "none" =>
    /\ ops'[k][d].by = ops[k][d].by /\ ops'[k][d].thread = ops[k][d].thread
    /\ ops'[k][d].payload = ops[k][d].payload
    /\ ops'[k][d].status # "none"
    /\ ops'[k][d] = ops[k][d] \/ ops'[k][d].status # "prepared"
    /\ ops[k][d].status = "rejected" => ops'[k][d].status = "rejected"

Kept == /\ applied \subseteq applied' /\ UNCHANGED <<key, payload>>
        /\ \A k \in Keys, d \in Kinds : ReceiptKept(k, d)

LEMMA CallKeepsInputs ==
  ASSUME NEW c \in Calls, CallStep(c)
  PROVE  UNCHANGED <<key, payload>>
  BY DEF CallStep, Call, Start, GetTask, Poll, BeginTask, BeginCreate, RefuseInput,
         Send, NotSent, Reply, FinishCreate, TakeBaseline, BeginTurn, FinishTurn,
         ReadFails, JournalFails, Reconcile, ReconcileInVain, ReadTask, AfterReconcile,
         Refresh, FinishWithStage, EnterChild, Begin, Reuse, Suspend, Finish

\* The receipts after a receipt was minted.
LEMMA MintedOps ==
  ASSUME Core, NEW c \in Calls, Mints(c)
  PROVE  /\ c \in Starters /\ Own(c).status = "none"
         /\ \E thread \in Ids :
              /\ kind[c] = "create" => thread = c
              /\ kind[c] = "turn" =>
                   thread = ops[key[c]]["create"].thread /\ ThreadExists(thread)
              /\ \A k \in Keys, d \in Kinds :
                   ops'[k][d] = IF k = key[c] /\ d = kind[c]
                                THEN NewReceipt(payload[c], c, thread) ELSE ops[k][d]
  <1>1. c \in Starters /\ c \in Ids /\ payload[c] \in Payloads /\ Own(c).status = "none"
    BY CallAssumption DEF Mints, Ids, Core, TypeOK
  <1>2. PICK thread \in Ids :
          /\ ops' = [ops EXCEPT ![key[c]][kind[c]] = NewReceipt(payload[c], c, thread)]
          /\ kind[c] = "create" => thread = c
          /\ kind[c] = "turn" =>
               thread = ops[key[c]]["create"].thread /\ ThreadExists(thread)
    BY DEF Mints
  <1>3. NewReceipt(payload[c], c, thread) \in Receipt
    BY <1>1, NewReceiptType
  <1>4. \A k \in Keys, d \in Kinds :
          ops'[k][d] = IF k = key[c] /\ d = kind[c]
                       THEN NewReceipt(payload[c], c, thread) ELSE ops[k][d]
    BY <1>2, <1>3, OwnTypes, PatchedOps
  <1>5. QED
    BY <1>1, <1>2, <1>4

\* The receipts after an outcome was learnt.
LEMMA LearntOps ==
  ASSUME Core, NEW c \in Calls, Learns(c)
  PROVE  /\ Own(c).status # "none"
         /\ \E s \in Statuses \ {"prepared"} :
              /\ s = "accepted" => OwnCommand(c) \in applied
              /\ s = "rejected" => OwnCommand(c) \notin wire \cup applied
              /\ Own(c).status = "rejected" => s = "rejected"
              /\ \A k \in Keys, d \in Kinds :
                   /\ ops'[k][d].status =
                        IF k = key[c] /\ d = kind[c] THEN s ELSE ops[k][d].status
                   /\ ops'[k][d].by = ops[k][d].by
                   /\ ops'[k][d].thread = ops[k][d].thread
                   /\ ops'[k][d].payload = ops[k][d].payload
                   /\ k # key[c] \/ d # kind[c] => ops'[k][d] = ops[k][d]
  <1>1. PICK s \in Statuses \ {"prepared"} :
          /\ SetStatus(c, kind[c], s)
          /\ s = "accepted" => OwnCommand(c) \in applied
          /\ s = "rejected" => OwnCommand(c) \notin wire \cup applied
          /\ Own(c).status = "rejected" => s = "rejected"
    BY DEF Learns
  <1>2. \A k \in Keys, d \in Kinds :
          /\ ops'[k][d].status =
               IF k = key[c] /\ d = kind[c] THEN s ELSE ops[k][d].status
          /\ ops'[k][d].by = ops[k][d].by
          /\ ops'[k][d].thread = ops[k][d].thread
          /\ ops'[k][d].payload = ops[k][d].payload
          /\ k # key[c] \/ d # kind[c] => ops'[k][d] = ops[k][d]
    BY <1>1, OwnTypes, PatchedStatus DEF SetStatus
  <1>3. QED
    BY <1>1, <1>2 DEF Learns

LEMMA EffectKeeps ==
  ASSUME Core, Ledger, NEW c \in Calls, CallStep(c)
  PROVE  Kept
  <1>1. UNCHANGED <<key, payload>>
    BY CallKeepsInputs
  <1>2. CASE UNCHANGED <<ops, t3>>
    BY <1>1, <1>2 DEF Kept, ReceiptKept, t3
  <1>3. CASE Mints(c)
    <2>1. \A k \in Keys, d \in Kinds :
            ops[k][d].status = "none" \/ ops'[k][d] = ops[k][d]
      BY <1>3, MintedOps DEF Own
    <2>2. QED
      BY <1>1, <1>3, <2>1 DEF Kept, ReceiptKept, Mints, t3
  <1>4. CASE Learns(c)
    <2>1. PICK s \in Statuses \ {"prepared"} :
            /\ Own(c).status = "rejected" => s = "rejected"
            /\ \A k \in Keys, d \in Kinds :
                 /\ ops'[k][d].status =
                      IF k = key[c] /\ d = kind[c] THEN s ELSE ops[k][d].status
                 /\ ops'[k][d].by = ops[k][d].by
                 /\ ops'[k][d].thread = ops[k][d].thread
                 /\ ops'[k][d].payload = ops[k][d].payload
                 /\ k # key[c] \/ d # kind[c] => ops'[k][d] = ops[k][d]
      BY <1>4, LearntOps
    <2>2. s # "none" /\ s # "prepared"
      BY DEF Statuses, Settled, Pending
    <2>3. \A k \in Keys, d \in Kinds : ReceiptKept(k, d)
      BY <2>1, <2>2 DEF ReceiptKept, Own
    <2>4. QED
      BY <1>1, <1>4, <2>3 DEF Kept, Learns, t3
  <1>5. CASE Send(c)
    BY <1>1, <1>5 DEF Kept, ReceiptKept, Send, journal
  <1>6. QED
    BY <1>2, <1>3, <1>4, <1>5, CallEffect DEF Effect

LEMMA CrashKeeps ==
  ASSUME Core, CrashAndRestart
  PROVE  Kept
  <1>1. ops \in Ops /\ ops' = Recovered(ops) /\ UNCHANGED <<key, payload, t3>>
    BY DEF Core, TypeOK, CrashAndRestart
  <1>2. ASSUME NEW k \in Keys, NEW d \in Kinds
        PROVE  ReceiptKept(k, d)
    <2>1. ops'[k][d] = IF ops[k][d].status = "prepared"
                       THEN [ops[k][d] EXCEPT !.status = "uncertain"] ELSE ops[k][d]
      BY <1>1 DEF Recovered
    <2>2. ops[k][d] \in Receipt
      BY <1>1 DEF Ops
    <2>3. QED
      BY <2>1, <2>2 DEF ReceiptKept, Receipt
  <1>3. QED
    BY <1>1, <1>2 DEF Kept, t3

\* Every step keeps them.
LEMMA NextKeeps ==
  ASSUME Core, Ledger, [Next]_vars
  PROVE  Kept
  <1>1. CASE \E c \in Calls : CallStep(c)
    BY <1>1, EffectKeeps
  <1>2. CASE T3Step
    <2>1. ops' = ops /\ UNCHANGED <<key, payload>> /\ applied \subseteq applied'
      BY <1>2 DEF T3Step, T3Applies, T3Refuses, Lose, ForeignTurn, TurnEnds, journal, calls
    <2>2. QED
      BY <2>1 DEF Kept, ReceiptKept
  <1>3. CASE UNCHANGED vars
    BY <1>3 DEF vars, journal, calls, t3, Kept, ReceiptKept
  <1>4. QED
    BY <1>1, <1>2, <1>3, CrashKeeps DEF Next, CallStep, Calls

-----------------------------------------------------------------------------
(* The ledger is an invariant. *)

LEMMA CommandFields ==
  ASSUME NEW m \in Command
  PROVE  m = [kind |-> m.kind, by |-> m.by, thread |-> m.thread]
  BY DEF Command

\* A command determines the receipt it was sent under.
LEMMA CommandsDiffer ==
  ASSUME Core, NEW k \in Keys, NEW d \in Kinds, NEW j \in Keys, NEW e \in Kinds,
         ops[k][d].status # "none", ops[j][e].status # "none",
         CommandOf(ops[k][d], d) = CommandOf(ops[j][e], e)
  PROVE  k = j /\ d = e
  BY DEF Core, ReceiptOwners, CommandOf

\* An id in a receipt means that the receipt is there.
LEMMA MintedIsThere ==
  ASSUME Core, NEW k \in Keys, NEW d \in Kinds, ops[k][d].by \in Starters
  PROVE  ops[k][d].status # "none"
  BY IdAssumption, CallAssumption DEF Core, ReceiptOwners, NoReceipt

\* A command T3 applied was minted, by a call of the receipt's key.
LEMMA AppliedIsMinted ==
  ASSUME Core, NEW k \in Keys, NEW d \in Kinds, CommandOf(ops[k][d], d) \in applied
  PROVE  ops[k][d].status # "none" /\ ops[k][d].by \in Starters
  <1>1. ops[k][d].by \in Starters
    BY DEF Core, TypeOK, Command, CommandOf
  <1>2. QED
    BY <1>1, MintedIsThere

\* A thread that exists has a minter, so NoId is none.
LEMMA ThreadIsMinted ==
  ASSUME Core, NEW t, ThreadExists(t)
  PROVE  t \in Starters
  BY DEF Core, TypeOK, ThreadExists, Command

LEMMA MintsKeepsLedger ==
  ASSUME Core, Ledger, NEW c \in Calls, Mints(c)
  PROVE  Ledger'
  <1>1. UNCHANGED <<wire, applied, refused, lost, running>>
    BY DEF Mints, t3
  <1>2. PICK thread \in Ids :
          /\ kind[c] = "create" => thread = c
          /\ kind[c] = "turn" =>
               thread = ops[key[c]]["create"].thread /\ ThreadExists(thread)
          /\ \A k \in Keys, d \in Kinds :
               ops'[k][d] = IF k = key[c] /\ d = kind[c]
                            THEN NewReceipt(payload[c], c, thread) ELSE ops[k][d]
    BY MintedOps
  <1>3. StatusesAreTrue'
    BY <1>1, <1>2 DEF Ledger, StatusesAreTrue, NewReceipt, CommandOf
  <1>4. ReceiptThreads'
    <2>1. SUFFICES ASSUME NEW k \in Keys
                   PROVE  /\ ops'[k]["create"].status # "none" =>
                               ops'[k]["create"].thread = ops'[k]["create"].by
                          /\ ops'[k]["turn"].status # "none" =>
                               /\ ops'[k]["turn"].thread = ops'[k]["create"].thread
                               /\ ThreadExists(ops'[k]["create"].thread)
      BY <1>1 DEF ReceiptThreads, ThreadExists
    <2>2. "create" \in Kinds /\ "turn" \in Kinds /\ kind[c] \in Kinds
      BY OwnTypes DEF Kinds
    <2>3. CASE k # key[c]
      BY <1>2, <2>2, <2>3 DEF Ledger, ReceiptThreads
    <2>4. CASE k = key[c] /\ kind[c] = "create"
      <3>1. ops[k]["create"] = NoReceipt
        BY <2>4, OwnTypes, MintedOps DEF Core, ReceiptOwners, Own
      <3>2. ~ThreadExists(ops[k]["create"].thread)
        BY <3>1, ThreadIsMinted, IdAssumption, CallAssumption DEF NoReceipt
      <3>3. ops'[k]["turn"].status = "none"
        BY <1>2, <2>2, <2>4, <3>2 DEF Ledger, ReceiptThreads
      <3>4. QED
        BY <1>2, <2>2, <2>4, <3>3 DEF NewReceipt
    <2>5. CASE k = key[c] /\ kind[c] = "turn"
      BY <1>2, <2>2, <2>5 DEF Ledger, ReceiptThreads, NewReceipt
    <2>6. QED
      BY <2>2, <2>3, <2>4, <2>5 DEF Kinds
  <1>5. QED
    BY <1>1, <1>3, <1>4 DEF Ledger, SettledOnce, RunsAreApplied

LEMMA LearnsKeepsLedger ==
  ASSUME Core, Ledger, NEW c \in Calls, Learns(c)
  PROVE  Ledger'
  <1>1. UNCHANGED <<wire, applied, refused, lost, running>>
    BY DEF Learns, t3
  <1>2. PICK s \in Statuses \ {"prepared"} :
          /\ s = "accepted" => OwnCommand(c) \in applied
          /\ s = "rejected" => OwnCommand(c) \notin wire \cup applied
          /\ \A k \in Keys, d \in Kinds :
               /\ ops'[k][d].status =
                    IF k = key[c] /\ d = kind[c] THEN s ELSE ops[k][d].status
               /\ ops'[k][d].by = ops[k][d].by
               /\ ops'[k][d].thread = ops[k][d].thread
    BY LearntOps
  <1>3. StatusesAreTrue'
    BY <1>1, <1>2 DEF Ledger, StatusesAreTrue, CommandOf, OwnCommand, Own
  <1>4. \A k \in Keys, d \in Kinds : ops'[k][d].status = "none" <=> ops[k][d].status = "none"
    BY <1>2, LearntOps DEF Own, Statuses, Pending, Settled
  <1>5. ReceiptThreads'
    BY <1>1, <1>2, <1>4 DEF Ledger, ReceiptThreads, ThreadExists, Kinds
  <1>6. QED
    BY <1>1, <1>3, <1>5 DEF Ledger, SettledOnce, RunsAreApplied

LEMMA SendKeepsLedger ==
  ASSUME Core, Ledger, NEW c \in Calls, Send(c)
  PROVE  Ledger'
  <1>1. /\ wire' = wire \cup {OwnCommand(c)}
        /\ UNCHANGED <<ops, applied, refused, lost, running>>
    BY DEF Send, OwnCommand, Own, journal
  <1>2. OwnCommand(c) \notin Sent /\ Own(c).status = "prepared"
    BY DEF Core, SendersOwnReceipts, OwnCommand, Own, Send
  <1>3. SettledOnce'
    BY <1>1, <1>2 DEF Ledger, SettledOnce, Sent
  <1>4. StatusesAreTrue'
    <2>1. SUFFICES ASSUME NEW k \in Keys, NEW d \in Kinds, ops[k][d].status = "rejected"
                   PROVE  CommandOf(ops[k][d], d) # OwnCommand(c)
      BY <1>1 DEF Ledger, StatusesAreTrue, CommandOf
    <2>2. QED
      BY <1>2, <2>1, CommandsDiffer, OwnTypes DEF OwnCommand, Own
  <1>5. QED
    BY <1>1, <1>3, <1>4 DEF Ledger, ReceiptThreads, RunsAreApplied, ThreadExists

LEMMA T3StepKeepsLedger ==
  ASSUME Core, Ledger, T3Step
  PROVE  Ledger'
  <1>1. ops' = ops /\ wire \subseteq Command /\ wire' \cup applied' \subseteq wire \cup applied
        /\ applied \subseteq applied'
    BY DEF T3Step, T3Applies, T3Refuses, Lose, ForeignTurn, TurnEnds, journal, Core, TypeOK
  <1>2. StatusesAreTrue' /\ ReceiptThreads'
    BY <1>1 DEF Ledger, StatusesAreTrue, ReceiptThreads, ThreadExists, CommandOf
  <1>3. SettledOnce'
    BY DEF T3Step, T3Applies, T3Refuses, Lose, ForeignTurn, TurnEnds, Ledger, SettledOnce
  <1>4. RunsAreApplied'
    <2>1. CASE \E m \in wire : T3Applies(m)
      <3>1. PICK m \in wire : T3Applies(m)
        BY <2>1
      <3>2. /\ m \in Command /\ m \in applied' /\ running \in [Starters -> Starters \cup {Idle, Foreign}]
            /\ running' = running \/ (m.kind = "turn" /\ running' = [running EXCEPT ![m.thread] = m.by])
        BY <1>1, <3>1 DEF T3Applies, Core, TypeOK
      <3>3. m = [kind |-> m.kind, by |-> m.by, thread |-> m.thread]
        BY <3>2, CommandFields
      <3>4. QED
        BY <1>1, <3>2, <3>3 DEF Ledger, RunsAreApplied
    <2>2. CASE \E m \in wire : T3Refuses(m) \/ Lose(m)
      BY <2>2 DEF T3Refuses, Lose, Ledger, RunsAreApplied
    <2>3. CASE \E t \in Starters : ForeignTurn(t) \/ TurnEnds(t)
      <3>1. PICK t \in Starters : ForeignTurn(t) \/ TurnEnds(t)
        BY <2>3
      <3>2. /\ applied' = applied /\ running \in [Starters -> Starters \cup {Idle, Foreign}]
            /\ \E new \in {Idle, Foreign} : running' = [running EXCEPT ![t] = new]
        BY <3>1 DEF ForeignTurn, TurnEnds, Core, TypeOK
      <3>3. QED
        BY <3>2, CallAssumption DEF Ledger, RunsAreApplied
    <2>4. QED
      BY <2>1, <2>2, <2>3 DEF T3Step
  <1>5. QED
    BY <1>2, <1>3, <1>4 DEF Ledger

LEMMA CrashKeepsLedger ==
  ASSUME Core, Ledger, CrashAndRestart
  PROVE  Ledger'
  <1>1. ops \in Ops /\ ops' = Recovered(ops)
        /\ UNCHANGED <<wire, applied, refused, lost, running>>
    BY DEF Core, TypeOK, CrashAndRestart, t3
  <1>2. \A k \in Keys, d \in Kinds :
          /\ ops'[k][d].status = IF ops[k][d].status = "prepared" THEN "uncertain"
                                 ELSE ops[k][d].status
          /\ ops'[k][d].by = ops[k][d].by /\ ops'[k][d].thread = ops[k][d].thread
    BY <1>1, RecoveredReceipts
  <1>3. StatusesAreTrue'
    BY <1>1, <1>2 DEF Ledger, StatusesAreTrue, CommandOf
  <1>4. ReceiptThreads'
    BY <1>1, <1>2 DEF Ledger, ReceiptThreads, ThreadExists, Kinds
  <1>5. QED
    BY <1>1, <1>3, <1>4 DEF Ledger, SettledOnce, RunsAreApplied

LEMMA LedgerInit == Init => Ledger
  BY CallAssumption DEF Init, NoOps, NoReceipt, Ledger, SettledOnce, StatusesAreTrue,
     ReceiptThreads, RunsAreApplied, Kinds

LEMMA LedgerNext ==
  ASSUME Core, Ledger, [Next]_vars
  PROVE  Ledger'
  <1>1. ASSUME UNCHANGED <<ops, t3>>
        PROVE  Ledger'
    BY <1>1 DEF t3, Ledger, SettledOnce, StatusesAreTrue, ReceiptThreads, RunsAreApplied,
                ThreadExists, CommandOf
  <1>2. CASE \E c \in Calls : CallStep(c)
    BY <1>1, <1>2, CallEffect, MintsKeepsLedger, LearnsKeepsLedger, SendKeepsLedger DEF Effect
  <1>3. CASE UNCHANGED vars
    BY <1>1, <1>3 DEF vars, journal
  <1>4. QED
    BY <1>2, <1>3, T3StepKeepsLedger, CrashKeepsLedger DEF Next, CallStep, Calls

-----------------------------------------------------------------------------
(* The task records *)

\* A task record has the payload of its receipts, and a stage past preparation
\* only once its thread was begun; its baseline was taken in a thread T3 has,
\* before the turn was begun.
TaskRecords ==
  \A k \in Keys :
    /\ \A d \in Kinds : ops[k][d].status # "none" =>
         tasks[k].stage # "none" /\ ops[k][d].payload = tasks[k].payload
    /\ ops[k]["create"].status = "none" => tasks[k].stage \in {"none", "prepared", "rejected"}
    /\ ops[k]["turn"].status # "none" => tasks[k].baseline # "none"
    /\ tasks[k].baseline # "none" => ThreadExists(ops[k]["create"].by)

\* Where a start call stands: what it holds across its await is still true.
Standing(c) ==
  /\ pc[c] \notin {"idle", "scope", "done"} =>
       tasks[key[c]].stage # "none" /\ tasks[key[c]].payload = payload[c]
  /\ pc[c] = "reconcile" => held[c] \in Pending
  /\ pc[c] = "result" /\ held[c] = "accepted" => OwnCommand(c) \in applied
  /\ pc[c] = "baseline" => ThreadExists(ops[key[c]]["create"].by)
  /\ pc[c] = "prepare" /\ kind[c] = "turn" => tasks[key[c]].baseline # "none"
  /\ answer[c] = "conflict" =>
       tasks[key[c]].stage # "none" /\ tasks[key[c]].payload # payload[c]

Truth == /\ Ledger /\ TaskRecords /\ TaskIdsMatch
         /\ \A c \in Starters : Standing(c)

\* A call's step keeps the task, admits it, patches what it learnt of its
\* child operations, or records the baseline.
Admits(c) ==
  /\ tasks[key[c]].stage = "none"
  /\ tasks' = [tasks EXCEPT ![key[c]] = NewTask(payload[c])]

Patches(c) ==
  \E t \in Task :
    LET k == key[c] old == tasks[k] IN
    /\ tasks' = [tasks EXCEPT ![k] = t]
    /\ t.payload = old.payload /\ t.baseline = old.baseline
    /\ t.stage = "none" => old.stage = "none"
    /\ ops'[k]["create"].status = "none" => t.stage \in {old.stage, "rejected"}
    /\ t.thread \in {old.thread, ops'[k]["create"].thread}
    /\ t.run \in {old.run, ops'[k]["turn"].by}

Rebases(c) ==
  /\ pc[c] = "baseline" /\ ops' = ops
  /\ \E b \in Baselines \ {"none"} :
       /\ tasks' = [tasks EXCEPT ![key[c]].baseline = b]
       /\ b = "late" => CommandOf(ops[key[c]]["turn"], "turn") \in applied

TaskEffect(c) == UNCHANGED tasks \/ Admits(c) \/ Patches(c) \/ Rebases(c)

\* StageOf answers with the stored stage only when there is no receipt.
LEMMA StageOfCases ==
  ASSUME NEW stored, NEW create \in Receipt, NEW turn \in Receipt
  PROVE  LET stage == StageOf(stored, create, turn) IN
         /\ stage # stored => stage \in Stages
         /\ turn.status # "none" \/ create.status # "none" =>
              /\ stage \in Stages
              /\ stage = "run_accepted" <=> turn.status = "accepted"
              /\ stage = "dispatch_rejected" <=> turn.status = "rejected"
              /\ stage = "thread_created" <=>
                   turn.status = "none" /\ create.status = "accepted"
              /\ stage = "rejected" <=>
                   turn.status = "none" /\ create.status = "rejected"
         /\ turn.status = "none" /\ create.status = "none" => stage = stored
  BY DEF StageOf, Receipt, Statuses, Pending, Settled, Stages

\* A patch of one task.
LEMMA PatchedTask ==
  ASSUME tasks \in Tasks, NEW k \in Keys, NEW t \in Task,
         tasks' = [tasks EXCEPT ![k] = t]
  PROVE  tasks'[k] = t /\ \A j \in Keys \ {k} : tasks'[j] = tasks[j]
  BY DEF Tasks

LEMMA RefreshPatches ==
  ASSUME Core, NEW c \in Calls, NEW newOps \in Ops, Refresh(c, newOps), ops' = newOps,
         newOps[key[c]]["create"].status = "none" => newOps[key[c]]["turn"].status = "none"
  PROVE  Patches(c)
  <1> DEFINE old    == tasks[key[c]]
             create == newOps[key[c]]["create"]
             turn   == newOps[key[c]]["turn"]
             t      == Refreshed(old, newOps[key[c]])
  <1>1. /\ key[c] \in Keys /\ old \in Task /\ newOps[key[c]] \in [Kinds -> Receipt]
        /\ create \in Receipt /\ turn \in Receipt
    BY DEF Core, TypeOK, Tasks, Ops, Kinds
  <1>2. t \in Task
    BY <1>1, RefreshedType
  <1>3. /\ t.payload = old.payload /\ t.baseline = old.baseline
        /\ t.stage = StageOf(old.stage, create, turn)
        /\ t.thread \in {old.thread, create.thread} /\ t.run \in {old.run, turn.by}
    BY <1>1 DEF Refreshed, Task
  <1>4. /\ t.stage = "none" => old.stage = "none"
        /\ create.status = "none" => t.stage = old.stage
    BY <1>1, <1>3, StageOfCases DEF Stages
  <1>5. tasks' = [tasks EXCEPT ![key[c]] = t]
    BY DEF Refresh
  <1> HIDE DEF t
  <1>6. QED
    BY <1>2, <1>3, <1>4, <1>5 DEF Patches

LEMMA StagePatches ==
  ASSUME Core, NEW c \in Calls, NEW stage \in Stages,
         tasks' = [tasks EXCEPT ![key[c]].stage = stage],
         stage = "rejected" \/ ops'[key[c]]["create"].status # "none"
  PROVE  Patches(c)
  <1> DEFINE t == [tasks[key[c]] EXCEPT !.stage = stage]
  <1>1. key[c] \in Keys /\ tasks[key[c]] \in Task /\ tasks \in [Keys -> Task]
    BY DEF Core, TypeOK, Tasks
  <1>2. /\ t \in Task /\ tasks' = [tasks EXCEPT ![key[c]] = t]
        /\ t.payload = tasks[key[c]].payload /\ t.baseline = tasks[key[c]].baseline
        /\ t.stage = stage /\ t.thread = tasks[key[c]].thread /\ t.run = tasks[key[c]].run
    BY <1>1 DEF Task
  <1>3. stage # "none"
    BY DEF Stages
  <1> HIDE DEF t
  <1>4. QED
    BY <1>2, <1>3 DEF Patches

\* FinishCreate and FinishTurn: the stage and one id.
LEMMA ResultPatches ==
  ASSUME Core, NEW c \in Calls, NEW stage \in Stages, ops' = ops,
         ops[key[c]]["create"].status # "none",
         \/ tasks' = [tasks EXCEPT ![key[c]].stage = stage,
                                   ![key[c]].thread = ops[key[c]]["create"].thread]
         \/ tasks' = [tasks EXCEPT ![key[c]].stage = stage,
                                   ![key[c]].run = ops[key[c]]["turn"].by]
  PROVE  Patches(c)
  <1> DEFINE t == tasks'[key[c]]
  <1>1. /\ key[c] \in Keys /\ tasks[key[c]] \in Task /\ tasks \in [Keys -> Task]
        /\ ops[key[c]]["create"].thread \in Ids /\ ops[key[c]]["turn"].by \in Ids
    BY OwnTypes DEF Core, TypeOK, Tasks, Receipt
  <1>2. /\ t \in Task /\ tasks' = [tasks EXCEPT ![key[c]] = t]
        /\ t.payload = tasks[key[c]].payload /\ t.baseline = tasks[key[c]].baseline
        /\ t.stage = stage
        /\ t.thread \in {tasks[key[c]].thread, ops[key[c]]["create"].thread}
        /\ t.run \in {tasks[key[c]].run, ops[key[c]]["turn"].by}
    <2>1. CASE tasks' = [tasks EXCEPT ![key[c]].stage = stage,
                                      ![key[c]].thread = ops[key[c]]["create"].thread]
      <3> DEFINE r == [[tasks[key[c]] EXCEPT !.stage = stage]
                         EXCEPT !.thread = ops[key[c]]["create"].thread]
      <3>1. tasks' = [tasks EXCEPT ![key[c]] = r]
        BY <1>1, <2>1
      <3>2. /\ r \in Task /\ r.payload = tasks[key[c]].payload
            /\ r.baseline = tasks[key[c]].baseline /\ r.stage = stage
            /\ r.thread = ops[key[c]]["create"].thread /\ r.run = tasks[key[c]].run
        BY <1>1 DEF Task
      <3> HIDE DEF r
      <3>3. QED
        BY <1>1, <3>1, <3>2
    <2>2. CASE tasks' = [tasks EXCEPT ![key[c]].stage = stage,
                                      ![key[c]].run = ops[key[c]]["turn"].by]
      <3> DEFINE r == [[tasks[key[c]] EXCEPT !.stage = stage]
                         EXCEPT !.run = ops[key[c]]["turn"].by]
      <3>1. tasks' = [tasks EXCEPT ![key[c]] = r]
        BY <1>1, <2>2
      <3>2. /\ r \in Task /\ r.payload = tasks[key[c]].payload
            /\ r.baseline = tasks[key[c]].baseline /\ r.stage = stage
            /\ r.thread = tasks[key[c]].thread /\ r.run = ops[key[c]]["turn"].by
        BY <1>1 DEF Task
      <3> HIDE DEF r
      <3>3. QED
        BY <1>1, <3>1, <3>2
    <2>3. QED
      BY <2>1, <2>2
  <1>3. stage # "none"
    BY DEF Stages
  <1> HIDE DEF t
  <1>4. QED
    BY <1>2, <1>3 DEF Patches

\* A task whose turn was begun has begun its thread.
LEMMA TurnHasCreate ==
  ASSUME Core, Ledger, NEW k \in Keys, ops[k]["turn"].status # "none"
  PROVE  ops[k]["create"].status # "none"
  <1>1. ThreadExists(ops[k]["create"].thread)
    BY DEF Ledger, ReceiptThreads
  <1>2. ops[k]["create"].thread # NoId
    BY <1>1, ThreadIsMinted, IdAssumption, CallAssumption
  <1>3. QED
    BY <1>2 DEF Core, ReceiptOwners, NoReceipt, Kinds

CreateFirst ==
  \A k \in Keys : ops[k]["turn"].status # "none" => ops[k]["create"].status # "none"

LEMMA CreatesComeFirst ==
  /\ Core /\ Ledger => CreateFirst
  /\ (Core /\ Ledger => CreateFirst)'
  <1>1. Core /\ Ledger => CreateFirst
    BY TurnHasCreate DEF CreateFirst
  <1>2. QED
    BY <1>1, PTL

LEMMA ReconcileTask ==
  ASSUME Core, Ledger, Core', Ledger', NEW c \in Calls, Reconcile(c) \/ ReconcileInVain(c)
  PROVE  TaskEffect(c)
  <1>1. PICK status : AfterReconcile(c, status, ops')
    BY DEF Reconcile, ReconcileInVain, SetStatus
  <1>2. CASE UNCHANGED tasks
    BY <1>2 DEF TaskEffect
  <1>3. CASE Refresh(c, ops')
    <2>1. ops' \in Ops /\ key[c] \in Keys
      BY DEF Core, TypeOK
    <2>2. ops'[key[c]]["create"].status = "none" => ops'[key[c]]["turn"].status = "none"
      BY <2>1, CreatesComeFirst DEF CreateFirst
    <2>3. ASSUME NEW newOps \in Ops, Refresh(c, newOps), ops' = newOps,
                 newOps[key[c]]["create"].status = "none" => newOps[key[c]]["turn"].status = "none"
          PROVE  Patches(c)
      BY <2>3, RefreshPatches
    <2>4. QED
      BY <1>3, <2>1, <2>2, <2>3 DEF TaskEffect
  <1>4. QED
    BY <1>1, <1>2, <1>3 DEF AfterReconcile

LEMMA StartTask ==
  ASSUME Core, Ledger, Core', Ledger', NEW c \in Starters, Start(c)
  PROVE  TaskEffect(c)
  <1>1. /\ c \in Calls /\ "rejected" \in Stages
        /\ ops[key[c]]["turn"].status # "none" => ops[key[c]]["create"].status # "none"
    BY OwnTypes, CreatesComeFirst DEF Calls, Stages, CreateFirst
  <1>2. CASE BeginTask(c)
    BY <1>2 DEF BeginTask, TaskEffect, Admits
  <1>3. CASE BeginCreate(c) \/ Send(c) \/ NotSent(c) \/ Reply(c) \/ ReadFails(c)
             \/ JournalFails(c)
    BY <1>3 DEF BeginCreate, Send, NotSent, Reply, ReadFails, JournalFails, journal,
                TaskEffect
  <1>4. CASE RefuseInput(c) \/ BeginTurn(c)
    BY <1>1, <1>4, StagePatches DEF RefuseInput, BeginTurn, TaskEffect
  <1>5. CASE FinishCreate(c)
    <2> DEFINE stage == CASE held[c] = "accepted"  -> "thread_created"
                          [] held[c] = "uncertain" -> "thread_create_uncertain"
                          [] OTHER                 -> "rejected"
    <2>1. stage \in Stages
      BY DEF Stages
    <2>2. /\ tasks' = [tasks EXCEPT ![key[c]].stage = stage,
                                   ![key[c]].thread = ops[key[c]]["create"].thread]
          /\ ops' = ops /\ pc[c] = "result" /\ kind[c] = "create"
      BY <1>5 DEF FinishCreate
    <2> HIDE DEF stage
    <2>3. ops[key[c]]["create"].status # "none"
      BY <1>1, <2>2 DEF Core, CallsHoldReceipts, HoldsReceipt
    <2>4. QED
      BY <1>1, <2>1, <2>2, <2>3, ResultPatches DEF TaskEffect
  <1>6. CASE TakeBaseline(c)
    <2>1. PICK b \in {"unavailable",
                      IF CommandOf(ops[key[c]]["turn"], "turn") \in applied
                      THEN "late" ELSE "early"} :
            tasks' = [tasks EXCEPT ![key[c]].baseline = b]
      BY <1>6 DEF TakeBaseline
    <2>2. b \in Baselines \ {"none"}
      BY DEF Baselines
    <2>3. b = "late" => CommandOf(ops[key[c]]["turn"], "turn") \in applied
      OBVIOUS
    <2>4. QED
      BY <1>6, <2>1, <2>2, <2>3 DEF TaskEffect, Rebases, TakeBaseline
  <1>7. CASE FinishTurn(c)
    <2> DEFINE stage == CASE held[c] = "accepted"  -> "run_accepted"
                          [] held[c] = "uncertain" -> "dispatch_uncertain"
                          [] OTHER                 -> "dispatch_rejected"
    <2>1. stage \in Stages
      BY DEF Stages
    <2>2. /\ tasks' = [tasks EXCEPT ![key[c]].stage = stage,
                                   ![key[c]].run = ops[key[c]]["turn"].by]
          /\ ops' = ops /\ pc[c] = "result" /\ kind[c] = "turn"
      BY <1>7 DEF FinishTurn
    <2> HIDE DEF stage
    <2>3. ops[key[c]]["create"].status # "none"
      BY <1>1, <2>2 DEF Core, CallsHoldReceipts, HoldsReceipt
    <2>4. QED
      BY <1>1, <2>1, <2>2, <2>3, ResultPatches DEF TaskEffect
  <1>8. QED
    BY <1>1, <1>2, <1>3, <1>4, <1>5, <1>6, <1>7, ReconcileTask DEF Start

LEMMA CallTask ==
  ASSUME Core, Ledger, Core', Ledger', NEW c \in Calls, CallStep(c)
  PROVE  TaskEffect(c)
  <1>1. CASE c \in Starters /\ Start(c)
    BY <1>1, StartTask
  <1>2. CASE Call(c) \/ GetTask(c) \/ JournalFails(c)
    BY <1>2 DEF Call, GetTask, JournalFails, journal, TaskEffect
  <1>3. CASE ReadTask(c)
    <2>1. CASE Refresh(c, ops) /\ ops' = ops
      BY <2>1, RefreshPatches, OwnTypes, CreatesComeFirst DEF CreateFirst, TaskEffect
    <2>2. QED
      BY <1>3, <2>1 DEF ReadTask, TaskEffect
  <1>4. QED
    BY <1>1, <1>2, <1>3, ReconcileTask DEF CallStep, Poll

\* An admitted task keeps its payload, and a baseline is never forgotten.
TasksKept ==
  \A k \in Keys :
    /\ tasks[k].stage # "none" =>
         tasks'[k].stage # "none" /\ tasks'[k].payload = tasks[k].payload
    /\ tasks[k].baseline # "none" => tasks'[k].baseline # "none"

\* A call's step on its own task; it touches no other.
LEMMA OwnTask ==
  ASSUME Core, NEW c \in Calls, TaskEffect(c)
  PROVE  LET k == key[c] old == tasks[k] new == tasks'[k] IN
         /\ \A j \in Keys \ {k} : tasks'[j] = tasks[j]
         /\ \/ new = old
            \/ /\ old.stage = "none" /\ new.stage = "prepared" /\ new.payload = payload[c]
               /\ new.thread = NoId /\ new.run = NoId /\ new.baseline = "none"
            \/ /\ new.payload = old.payload /\ new.baseline = old.baseline
               /\ new.stage = "none" => old.stage = "none"
               /\ ops'[k]["create"].status = "none" => new.stage \in {old.stage, "rejected"}
               /\ new.thread \in {old.thread, ops'[k]["create"].thread}
               /\ new.run \in {old.run, ops'[k]["turn"].by}
            \/ /\ pc[c] = "baseline" /\ ops' = ops
               /\ new.stage = old.stage /\ new.payload = old.payload
               /\ new.thread = old.thread /\ new.run = old.run
               /\ new.baseline # "none"
               /\ new.baseline = "late" => CommandOf(ops[k]["turn"], "turn") \in applied
  <1>1. key[c] \in Keys /\ tasks \in Tasks /\ tasks \in [Keys -> Task] /\ tasks[key[c]] \in Task
    BY DEF Core, TypeOK, Tasks
  <1>2. CASE UNCHANGED tasks
    BY <1>2
  <1>3. CASE Admits(c)
    <2>1. /\ tasks'[key[c]] = NewTask(payload[c]) /\ tasks[key[c]].stage = "none"
          /\ \A j \in Keys \ {key[c]} : tasks'[j] = tasks[j]
      BY <1>1, <1>3 DEF Admits
    <2>2. QED
      BY <2>1 DEF NewTask, NoTask
  <1>4. CASE Patches(c)
    BY <1>1, <1>4, PatchedTask DEF Patches
  <1>5. CASE Rebases(c)
    <2>1. PICK b \in Baselines \ {"none"} :
            /\ tasks' = [tasks EXCEPT ![key[c]].baseline = b]
            /\ b = "late" => CommandOf(ops[key[c]]["turn"], "turn") \in applied
      BY <1>5 DEF Rebases
    <2>2. \A j \in Keys \ {key[c]} : tasks'[j] = tasks[j]
      BY <1>1, <2>1
    <2>3. tasks'[key[c]] = [tasks[key[c]] EXCEPT !.baseline = b]
      BY <1>1, <2>1
    <2>4. LET old == tasks[key[c]] new == tasks'[key[c]] IN
          /\ new.stage = old.stage /\ new.payload = old.payload
          /\ new.thread = old.thread /\ new.run = old.run /\ new.baseline = b
      BY <1>1, <2>3 DEF Task
    <2>5. pc[c] = "baseline" /\ ops' = ops /\ b # "none"
      BY <1>5 DEF Rebases
    <2>6. QED
      BY <2>1, <2>2, <2>4, <2>5
  <1>6. QED
    BY <1>2, <1>3, <1>4, <1>5 DEF TaskEffect

LEMMA TaskEffectKeeps ==
  ASSUME Core, TaskRecords, NEW c \in Calls, TaskEffect(c)
  PROVE  TasksKept
  <1>1. ASSUME NEW k \in Keys, tasks[k].baseline # "none"
        PROVE  tasks[k].stage # "none"
    <2>1. ThreadExists(ops[k]["create"].by)
      BY <1>1 DEF TaskRecords
    <2>2. ops[k]["create"].by \in Starters
      BY <2>1, ThreadIsMinted
    <2>3. ops[k]["create"].status # "none"
      BY <2>2, MintedIsThere DEF Kinds
    <2>4. QED
      BY <2>3 DEF TaskRecords, Kinds
  <1>2. QED
    BY <1>1, OwnTask DEF TasksKept

\* Applied commands keep their receipts.
LEMMA AppliedStays ==
  ASSUME Core, Kept, NEW k \in Keys
  PROVE  /\ \A d \in Kinds : CommandOf(ops[k][d], d) \in applied =>
              CommandOf(ops'[k][d], d) \in applied'
         /\ ThreadExists(ops[k]["create"].by) => ThreadExists(ops[k]["create"].by)'
  <1>1. ASSUME NEW d \in Kinds, CommandOf(ops[k][d], d) \in applied
        PROVE  CommandOf(ops'[k][d], d) \in applied'
    BY <1>1, AppliedIsMinted DEF Kept, ReceiptKept, CommandOf
  <1>2. ASSUME ThreadExists(ops[k]["create"].by)
        PROVE  ThreadExists(ops[k]["create"].by)'
    <2>1. ops[k]["create"].by \in Starters
      BY <1>2, ThreadIsMinted
    <2>2. ops[k]["create"].status # "none"
      BY <2>1, MintedIsThere DEF Kinds
    <2>3. QED
      BY <1>2, <2>2 DEF Kept, ReceiptKept, ThreadExists, Kinds
  <1>3. QED
    BY <1>1, <1>2

\* A create receipt, or none, has equal thread and minter.
ThreadsAreBy == \A k \in Keys : ops[k]["create"].thread = ops[k]["create"].by

LEMMA ThreadIsBy ==
  /\ Core /\ Ledger => ThreadsAreBy
  /\ (Core /\ Ledger => ThreadsAreBy)'
  <1>1. Core /\ Ledger => ThreadsAreBy
    <2>1. SUFFICES ASSUME ReceiptOwners, ReceiptThreads, NEW k \in Keys
                   PROVE  ops[k]["create"].thread = ops[k]["create"].by
      BY DEF Core, Ledger, ThreadsAreBy
    <2>2. CASE ops[k]["create"].status = "none"
      BY <2>1, <2>2 DEF ReceiptOwners, NoReceipt, Kinds
    <2>3. QED
      BY <2>1, <2>2 DEF ReceiptThreads
  <1>2. QED
    BY <1>1, PTL

\* The minters of a task's receipts, as far as there are any, stay.
LEMMA MintersStay ==
  ASSUME Core, Kept, NEW k \in Keys, NEW d \in Kinds
  PROVE  ops[k][d].by \in {NoId, ops'[k][d].by}
  BY DEF Core, ReceiptOwners, NoReceipt, Kept, ReceiptKept

\* A step that touches no task and mints nothing.
LEMMA IdleKeepsRecords ==
  ASSUME Core, Ledger, TaskRecords, TaskIdsMatch, Kept, tasks' = tasks,
         \A k \in Keys, d \in Kinds : ops'[k][d].status # "none" => ops[k][d].status # "none"
  PROVE  TaskRecords' /\ TaskIdsMatch'
  <1>1. ASSUME NEW k \in Keys
        PROVE  /\ \A d \in Kinds : ops'[k][d].status # "none" =>
                    tasks[k].stage # "none" /\ ops'[k][d].payload = tasks[k].payload
               /\ ops'[k]["create"].status = "none" => tasks[k].stage \in {"none", "prepared", "rejected"}
               /\ ops'[k]["turn"].status # "none" => tasks[k].baseline # "none"
    BY DEF TaskRecords, Kept, ReceiptKept, Kinds
  <1>2. ASSUME NEW k \in Keys, tasks[k].baseline # "none"
        PROVE  ThreadExists(ops[k]["create"].by)'
    BY <1>2, AppliedStays DEF TaskRecords
  <1>3. TaskRecords'
    BY <1>1, <1>2 DEF TaskRecords, ThreadExists
  <1>4. TaskIdsMatch'
    BY MintersStay DEF TaskIdsMatch, Kinds
  <1>5. QED
    BY <1>3, <1>4

\* Minting a receipt, from where the call stands.
LEMMA MintKeepsRecords ==
  ASSUME Core, Truth, Kept, NEW c \in Calls, Mints(c)
  PROVE  TaskRecords' /\ TaskIdsMatch'
  <1>1. /\ c \in Starters /\ pc[c] = "prepare" /\ UNCHANGED <<tasks, applied>>
        /\ Own(c).status = "none" /\ key[c] \in Keys /\ kind[c] \in Kinds
    BY OwnTypes, MintedOps DEF Mints, t3
  <1>2. PICK thread \in Ids :
          \A k \in Keys, d \in Kinds :
            ops'[k][d] = IF k = key[c] /\ d = kind[c]
                         THEN NewReceipt(payload[c], c, thread) ELSE ops[k][d]
    BY MintedOps
  <1>3. /\ tasks[key[c]].stage # "none" /\ tasks[key[c]].payload = payload[c]
        /\ kind[c] = "turn" => tasks[key[c]].baseline # "none"
    BY <1>1 DEF Truth, Standing
  <1>4. ASSUME NEW k \in Keys
        PROVE  /\ \A d \in Kinds : ops'[k][d].status # "none" =>
                    tasks[k].stage # "none" /\ ops'[k][d].payload = tasks[k].payload
               /\ ops'[k]["create"].status = "none" => tasks[k].stage \in {"none", "prepared", "rejected"}
               /\ ops'[k]["turn"].status # "none" => tasks[k].baseline # "none"
    <2>1. \A d \in Kinds : ops'[k][d].status # "none" =>
            tasks[k].stage # "none" /\ ops'[k][d].payload = tasks[k].payload
      BY <1>2, <1>3 DEF Truth, TaskRecords, NewReceipt
    <2>2. ops'[k]["create"].status = "none" => ops[k]["create"].status = "none"
      BY DEF Kept, ReceiptKept, Kinds
    <2>3. ops'[k]["turn"].status # "none" => tasks[k].baseline # "none"
      BY <1>2, <1>3 DEF Truth, TaskRecords, Kinds
    <2>4. QED
      BY <2>1, <2>2, <2>3 DEF Truth, TaskRecords
  <1>5. ASSUME NEW k \in Keys, tasks[k].baseline # "none"
        PROVE  ThreadExists(ops[k]["create"].by)'
    BY <1>5, AppliedStays DEF Truth, TaskRecords
  <1>6. TaskRecords'
    BY <1>1, <1>4, <1>5 DEF TaskRecords, ThreadExists
  <1>7. TaskIdsMatch'
    BY <1>1, MintersStay DEF Truth, TaskIdsMatch, Kinds
  <1>8. QED
    BY <1>6, <1>7

LEMMA CallKeepsRecords ==
  ASSUME Core, Truth, Core', Ledger', Kept, TasksKept,
         NEW c \in Calls, Effect(c), TaskEffect(c)
  PROVE  TaskRecords' /\ TaskIdsMatch'
  <1>1. CASE Mints(c)
    BY <1>1, MintKeepsRecords
  <1>2. CASE ~Mints(c)
    <2>1. \A k \in Keys, d \in Kinds : ops'[k][d].status # "none" => ops[k][d].status # "none"
      BY <1>2, LearntOps DEF Effect, Send, journal, Own
    <2>2. \A k \in Keys : ops'[k]["create"].thread = ops'[k]["create"].by
      BY ThreadIsBy DEF ThreadsAreBy
    <2>3. ASSUME NEW k \in Keys
          PROVE  \/ tasks'[k] = tasks[k]
                 \/ /\ tasks'[k].stage \in {tasks[k].stage, "prepared", "rejected"}
                       \/ ops'[k]["create"].status # "none"
                    /\ tasks'[k].baseline \in {tasks[k].baseline, "none"}
                       \/ ThreadExists(ops[k]["create"].by)
                    /\ tasks'[k].thread \in {NoId, tasks[k].thread, ops'[k]["create"].thread}
                    /\ tasks'[k].run \in {NoId, tasks[k].run, ops'[k]["turn"].by}
      <3>1. pc[c] = "baseline" => ThreadExists(ops[key[c]]["create"].by)
        BY DEF Truth, Standing, Core, CallsHoldReceipts, HoldsReceipt, Calls
      <3>2. CASE k # key[c]
        BY <3>2, OwnTask
      <3>3. CASE k = key[c]
        BY <3>1, <3>3, OwnTask
      <3>4. QED
        BY <3>2, <3>3
    <2>4. ASSUME NEW k \in Keys
          PROVE  /\ \A d \in Kinds : ops'[k][d].status # "none" =>
                      tasks'[k].stage # "none" /\ ops'[k][d].payload = tasks'[k].payload
                 /\ ops'[k]["turn"].status # "none" => tasks'[k].baseline # "none"
      BY <2>1 DEF Truth, TaskRecords, Kept, ReceiptKept, TasksKept, Kinds
    <2>5. ASSUME NEW k \in Keys, ops'[k]["create"].status = "none"
          PROVE  tasks'[k].stage \in {"none", "prepared", "rejected"}
      <3>1. ops[k]["create"].status = "none"
        BY <2>5 DEF Kept, ReceiptKept, Kinds
      <3>2. QED
        BY <2>3, <2>5, <3>1 DEF Truth, TaskRecords
    <2>6. ASSUME NEW k \in Keys, tasks'[k].baseline # "none"
          PROVE  ThreadExists(ops[k]["create"].by)'
      <3>1. ThreadExists(ops[k]["create"].by)
        BY <2>3, <2>6 DEF Truth, TaskRecords
      <3>2. QED
        BY <3>1, AppliedStays
    <2>7. TaskRecords'
      BY <2>4, <2>5, <2>6 DEF TaskRecords, ThreadExists
    <2>8. TaskIdsMatch'
      BY <2>2, <2>3, MintersStay DEF Truth, TaskIdsMatch, Kinds
    <2>9. QED
      BY <2>7, <2>8
  <1>3. QED
    BY <1>1, <1>2

-----------------------------------------------------------------------------
(* Where start calls stand *)

\* What a task's own call meets in its child receipts is never a conflict.
LEMMA NoChildConflicts ==
  ASSUME Core, Ledger, TaskRecords, NEW c \in Starters, NEW d \in Kinds,
         ops[key[c]][d].status # "none", tasks[key[c]].payload = payload[c]
  PROVE  ~Conflicts(ops[key[c]][d], payload[c], ops[key[c]]["create"].thread)
  <1>1. key[c] \in Keys
    BY OwnTypes DEF Calls
  <1>2. ops[key[c]][d].payload = payload[c]
    BY <1>1 DEF TaskRecords
  <1>3. ops[key[c]][d].thread = ops[key[c]]["create"].thread
    BY <1>1 DEF Ledger, ReceiptThreads, Kinds
  <1>4. QED
    BY <1>2, <1>3 DEF Conflicts

LEMMA ReuseGoes ==
  ASSUME Core, Ledger, TaskRecords, NEW c \in Starters, NEW d \in Kinds, Reuse(c, d),
         ops[key[c]][d].status # "none", tasks[key[c]].payload = payload[c]
  PROVE  \/ Suspend(c, "result", d, ops[key[c]][d].status)
         \/ /\ ops[key[c]][d].status \in Pending
            /\ Suspend(c, "reconcile", d, ops[key[c]][d].status)
  <1>1. ops[key[c]][d] \in Receipt
    BY DEF Core, TypeOK, Ops, Calls
  <1>2. ops[key[c]][d].status \in Settled \/ ops[key[c]][d].status \in Pending
    BY <1>1 DEF Receipt, Statuses
  <1>3. QED
    BY <1>2, NoChildConflicts DEF Reuse

LEMMA EnterChildGoes ==
  ASSUME Core, Ledger, TaskRecords, NEW c \in Starters, NEW d \in Kinds, EnterChild(c, d),
         ops[key[c]][d].status # "none" => tasks[key[c]].payload = payload[c]
  PROVE  \/ Suspend(c, "prepare", d, "none")
         \/ Suspend(c, "result", d, ops[key[c]][d].status)
         \/ /\ ops[key[c]][d].status \in Pending
            /\ Suspend(c, "reconcile", d, ops[key[c]][d].status)
  BY ReuseGoes DEF EnterChild

\* A conflict once answered stays one.
LEMMA ConflictStays ==
  ASSUME Kept, TasksKept, NEW c \in Starters, key[c] \in Keys, answer[c] = "conflict",
         tasks[key[c]].stage # "none", tasks[key[c]].payload # payload[c]
  PROVE  tasks'[key'[c]].stage # "none" /\ tasks'[key'[c]].payload # payload'[c]
  BY DEF Kept, TasksKept

LEMMA SuspendStands ==
  ASSUME Core, Truth, Kept, TasksKept, NEW c \in Starters, NEW where, NEW d \in Kinds,
         NEW status, Suspend(c, where, d, status),
         where \notin {"idle", "scope", "done"} =>
           tasks'[key[c]].stage # "none" /\ tasks'[key[c]].payload = payload[c],
         where = "reconcile" => status \in Pending,
         where = "result" /\ status = "accepted" =>
           CommandOf(ops'[key[c]][d], d) \in applied',
         where = "baseline" => ThreadExists(ops[key[c]]["create"].by),
         where = "prepare" /\ d = "turn" => tasks'[key[c]].baseline # "none"
  PROVE  Standing(c)'
  <1>1. c \in Calls /\ key[c] \in Keys /\ TypeOK
    BY OwnTypes DEF Calls, Core
  <1>2. /\ pc'[c] = where /\ kind'[c] = d /\ held'[c] = status /\ answer' = answer
        /\ UNCHANGED <<key, payload>>
    BY <1>1, SuspendFrame DEF Suspend
  <1>3. answer[c] = "conflict" =>
          tasks'[key[c]].stage # "none" /\ tasks'[key[c]].payload # payload[c]
    BY <1>1, <1>2, ConflictStays DEF Truth, Standing
  <1>4. where = "baseline" => ThreadExists(ops[key[c]]["create"].by)'
    BY <1>1, <1>2, AppliedStays
  <1>5. QED
    BY <1>2, <1>3, <1>4 DEF Standing, OwnCommand, Own, CommandOf, ThreadExists

LEMMA FinishStands ==
  ASSUME Core, Kept, NEW c \in Starters, NEW what, Finish(c, what),
         what = "conflict" =>
           tasks'[key[c]].stage # "none" /\ tasks'[key[c]].payload # payload[c]
  PROVE  Standing(c)'
  <1>1. pc'[c] = "done" /\ answer'[c] = what /\ UNCHANGED <<key, payload>>
    BY DEF Finish, Core, TypeOK, Calls
  <1>2. QED
    BY <1>1 DEF Standing

\* A call that did not move stands where it stood.
LEMMA OthersStand ==
  ASSUME Core, Truth, Kept, TasksKept, NEW e \in Starters,
         pc'[e] = pc[e], kind'[e] = kind[e], held'[e] = held[e], answer'[e] = answer[e]
  PROVE  Standing(e)'
  <1>1. key[e] \in Keys /\ kind[e] \in Kinds /\ UNCHANGED <<key, payload>> /\ Standing(e)
    BY OwnTypes DEF Calls, Kept, Truth
  <1>2. answer[e] = "conflict" =>
          tasks'[key[e]].stage # "none" /\ tasks'[key[e]].payload # payload[e]
    BY <1>1, ConflictStays DEF Standing
  <1>3. OwnCommand(e) \in applied => CommandOf(ops'[key[e]][kind[e]], kind[e]) \in applied'
    BY <1>1, AppliedStays DEF OwnCommand, Own
  <1>4. ThreadExists(ops[key[e]]["create"].by) => ThreadExists(ops[key[e]]["create"].by)'
    BY <1>1, AppliedStays
  <1>5. /\ tasks[key[e]].stage # "none" =>
             tasks'[key[e]].stage # "none" /\ tasks'[key[e]].payload = tasks[key[e]].payload
        /\ tasks[key[e]].baseline # "none" => tasks'[key[e]].baseline # "none"
    BY <1>1 DEF TasksKept
  <1>6. QED
    BY <1>1, <1>2, <1>3, <1>4, <1>5 DEF Standing, OwnCommand, Own, CommandOf, ThreadExists

\* Going on to a child operation, by either way into it.
LEMMA ChildStands ==
  ASSUME Core, Truth, Kept, TasksKept, UNCHANGED <<ops, t3>>,
         NEW c \in Starters, NEW d \in Kinds,
         EnterChild(c, d) \/ (ops[key[c]][d].status # "none" /\ Reuse(c, d)),
         ops[key[c]][d].status # "none" => tasks[key[c]].payload = payload[c],
         tasks'[key[c]].stage # "none", tasks'[key[c]].payload = payload[c],
         d = "turn" => tasks'[key[c]].baseline # "none"
  PROVE  Standing(c)'
  <1>1. /\ key[c] \in Keys /\ Ledger /\ TaskRecords
        /\ ops[key[c]][d].status = "accepted" => CommandOf(ops[key[c]][d], d) \in applied
    BY OwnTypes DEF Calls, Truth, Ledger, StatusesAreTrue
  <1>2. \/ Suspend(c, "prepare", d, "none")
        \/ Suspend(c, "result", d, ops[key[c]][d].status)
        \/ /\ ops[key[c]][d].status \in Pending
           /\ Suspend(c, "reconcile", d, ops[key[c]][d].status)
    BY <1>1, EnterChildGoes, ReuseGoes
  <1>3. CASE Suspend(c, "prepare", d, "none")
    BY <1>3, SuspendStands
  <1>4. CASE Suspend(c, "result", d, ops[key[c]][d].status)
    BY <1>1, <1>4, SuspendStands DEF t3
  <1>5. CASE /\ ops[key[c]][d].status \in Pending
             /\ Suspend(c, "reconcile", d, ops[key[c]][d].status)
    BY <1>5, SuspendStands
  <1>6. QED
    BY <1>2, <1>3, <1>4, <1>5

LEMMA FinishWithStageStands ==
  ASSUME Core, Kept, NEW c \in Starters, NEW stage \in Stages, FinishWithStage(c, stage)
  PROVE  Standing(c)'
  <1> DEFINE what == StageOf(stage, ops[key[c]]["create"], ops[key[c]]["turn"])
  <1>1. what \in Stages \cup {"none"}
    BY OwnTypes, StageOfType DEF Calls
  <1>2. Finish(c, what)
    BY DEF FinishWithStage
  <1>3. what # "conflict"
    BY <1>1 DEF Stages
  <1> HIDE DEF what
  <1>4. QED
    BY <1>2, <1>3, FinishStands

\* Beginning a child operation, or finding it begun.
LEMMA BeginStands ==
  ASSUME Core, Truth, Kept, TasksKept, tasks' = tasks, UNCHANGED t3,
         NEW c \in Starters, pc[c] = "prepare", NEW thread,
         Begin(c, kind[c], thread)
  PROVE  Standing(c)'
  <1>1. /\ key[c] \in Keys /\ kind[c] \in Kinds
        /\ tasks[key[c]].stage # "none" /\ tasks[key[c]].payload = payload[c]
        /\ kind[c] = "turn" => tasks[key[c]].baseline # "none"
    BY OwnTypes DEF Calls, Truth, Standing
  <1>2. CASE Suspend(c, "dispatch", kind[c], "prepared")
    BY <1>1, <1>2, SuspendStands
  <1>3. CASE ops[key[c]][kind[c]].status # "none" /\ Reuse(c, kind[c]) /\ ops' = ops
    BY <1>1, <1>3, ChildStands
  <1>4. QED
    BY <1>2, <1>3 DEF Begin

LEMMA StartStands ==
  ASSUME Core, Truth, Kept, TasksKept, NEW c \in Starters, Call(c) \/ Start(c)
  PROVE  Standing(c)'
  <1>1. /\ c \in Calls /\ key[c] \in Keys /\ kind[c] \in Kinds /\ Standing(c)
        /\ Ledger /\ TaskRecords /\ tasks \in Tasks /\ tasks \in [Keys -> Task]
        /\ "create" \in Kinds /\ "turn" \in Kinds /\ "rejected" \in Stages
    BY OwnTypes DEF Calls, Truth, Kinds, Stages, Core, TypeOK, Tasks
  <1>2. pc[c] \notin {"idle", "scope", "done"} =>
          /\ tasks[key[c]].stage # "none" /\ tasks[key[c]].payload = payload[c]
          /\ tasks'[key[c]].stage # "none" /\ tasks'[key[c]].payload = payload[c]
    BY <1>1 DEF Standing, TasksKept
  <1>3. CASE Call(c)
    BY <1>1, <1>3, SuspendStands DEF Call
  <1>4. CASE BeginTask(c)
    <2>1. UNCHANGED <<ops, t3>>
      BY <1>4 DEF BeginTask
    <2>2. CASE /\ tasks[key[c]].stage = "none" /\ EnterChild(c, "create")
               /\ tasks' = [tasks EXCEPT ![key[c]] = NewTask(payload[c])]
      <3>1. tasks'[key[c]].stage # "none" /\ tasks'[key[c]].payload = payload[c]
        BY <1>1, <2>2 DEF NewTask, NoTask
      <3>2. ops[key[c]]["create"].status = "none"
        BY <1>1, <2>2 DEF TaskRecords
      <3>3. QED
        BY <1>1, <2>1, <2>2, <3>1, <3>2, ChildStands
    <2>3. CASE /\ tasks[key[c]].stage # "none" /\ tasks[key[c]].payload = payload[c]
               /\ EnterChild(c, "create") /\ tasks' = tasks
      BY <1>1, <2>1, <2>3, ChildStands
    <2>4. CASE /\ tasks[key[c]].stage # "none" /\ tasks[key[c]].payload # payload[c]
               /\ Finish(c, "conflict") /\ tasks' = tasks
      BY <2>4, FinishStands
    <2>5. QED
      BY <1>4, <2>2, <2>3, <2>4 DEF BeginTask
  <1>5. CASE BeginCreate(c)
    BY <1>5, <1>1, BeginStands DEF BeginCreate
  <1>6. CASE RefuseInput(c)
    BY <1>1, <1>6, FinishWithStageStands DEF RefuseInput
  <1>7. CASE Send(c)
    BY <1>1, <1>2, <1>7, SuspendStands DEF Send
  <1>8. CASE NotSent(c)
    BY <1>1, <1>2, <1>8, SuspendStands DEF NotSent
  <1>9. CASE Reply(c)
    <2>1. PICK s \in Outcomes(OwnCommand(c)) : Suspend(c, "result", kind[c], s)
      BY <1>9 DEF Reply, OwnCommand, Own
    <2>2. s = "accepted" => OwnCommand(c) \in applied
      BY <2>1 DEF Outcomes
    <2>3. s = "accepted" => CommandOf(ops'[key[c]][kind[c]], kind[c]) \in applied'
      BY <1>1, <2>2, AppliedStays DEF OwnCommand, Own
    <2>4. QED
      BY <1>1, <1>2, <1>9, <2>1, <2>3, SuspendStands DEF Reply
  <1>10. CASE FinishCreate(c)
    <2> DEFINE stage == CASE held[c] = "accepted"  -> "thread_created"
                          [] held[c] = "uncertain" -> "thread_create_uncertain"
                          [] OTHER                 -> "rejected"
    <2>1. stage \in Stages
      BY DEF Stages
    <2>2. /\ pc[c] = "result" /\ kind[c] = "create" /\ UNCHANGED <<ops, t3>>
          /\ \/ FinishWithStage(c, stage)
             \/ /\ held[c] = "accepted" /\ tasks[key[c]].baseline = "none"
                /\ Suspend(c, "baseline", "create", held[c])
             \/ tasks[key[c]].baseline # "none" /\ EnterChild(c, "turn")
      BY <1>10 DEF FinishCreate
    <2> HIDE DEF stage
    <2>3. held[c] = "accepted" => ThreadExists(ops[key[c]]["create"].by)
      BY <1>1, <2>2, ThreadIsBy, Zenon
      DEF Standing, OwnCommand, Own, CommandOf, ThreadExists, ThreadsAreBy
    <2>4. CASE FinishWithStage(c, stage)
      BY <2>1, <2>4, FinishWithStageStands
    <2>5. CASE held[c] = "accepted" /\ Suspend(c, "baseline", "create", held[c])
      BY <1>1, <1>2, <2>2, <2>3, <2>5, SuspendStands
    <2>6. CASE tasks[key[c]].baseline # "none" /\ EnterChild(c, "turn")
      <3>1. tasks'[key[c]].baseline # "none"
        BY <1>1, <2>6 DEF TasksKept
      <3>2. QED
        BY <1>1, <1>2, <2>2, <2>6, <3>1, ChildStands
    <2>7. QED
      BY <2>2, <2>4, <2>5, <2>6
  <1>11. CASE TakeBaseline(c)
    <2>1. PICK b \in {"unavailable",
                      IF CommandOf(ops[key[c]]["turn"], "turn") \in applied
                      THEN "late" ELSE "early"} :
            tasks' = [tasks EXCEPT ![key[c]].baseline = b]
      BY <1>11 DEF TakeBaseline
    <2>2. tasks'[key[c]].baseline # "none"
      <3>1. tasks'[key[c]] = [tasks[key[c]] EXCEPT !.baseline = b] /\ tasks[key[c]] \in Task
        BY <1>1, <2>1
      <3>2. QED
        BY <3>1 DEF Task
    <2>3. QED
      BY <1>1, <1>2, <1>11, <2>2, ChildStands DEF TakeBaseline
  <1>12. CASE BeginTurn(c)
    <2>1. CASE ops[key[c]]["turn"].status # "none" /\ Reuse(c, "turn") /\ tasks' = tasks
               /\ ops' = ops
      <3>1. tasks[key[c]].baseline # "none" /\ UNCHANGED t3
        BY <1>1, <1>12 DEF Standing, BeginTurn
      <3>2. QED
        BY <1>1, <1>2, <1>12, <2>1, <3>1, ChildStands DEF BeginTurn
    <2>2. CASE FinishWithStage(c, "rejected")
      BY <1>1, <2>2, FinishWithStageStands
    <2>3. CASE \E thread : Begin(c, "turn", thread) /\ tasks' = tasks
      BY <1>12, <2>3, BeginStands DEF BeginTurn
    <2>4. QED
      BY <1>12, <2>1, <2>2, <2>3 DEF BeginTurn
  <1>13. CASE FinishTurn(c)
    <2> DEFINE stage == CASE held[c] = "accepted"  -> "run_accepted"
                          [] held[c] = "uncertain" -> "dispatch_uncertain"
                          [] OTHER                 -> "dispatch_rejected"
    <2>1. stage \in Stages
      BY DEF Stages
    <2>2. FinishWithStage(c, stage)
      BY <1>13 DEF FinishTurn
    <2> HIDE DEF stage
    <2>3. QED
      BY <2>1, <2>2, FinishWithStageStands
  <1>14. CASE ReadFails(c) \/ JournalFails(c)
    BY <1>14, FinishStands DEF ReadFails, JournalFails
  <1>15. CASE Reconcile(c)
    <2>1. Suspend(c, "result", kind[c], "accepted") /\ pc[c] = "reconcile"
          /\ OwnCommand(c) \in applied
      BY <1>15, CallAssumption DEF Reconcile, AfterReconcile, Visible, OwnCommand, Own
    <2>2. CommandOf(ops'[key[c]][kind[c]], kind[c]) \in applied'
      BY <1>1, <2>1, AppliedStays DEF OwnCommand, Own
    <2>3. QED
      BY <1>1, <1>2, <2>1, <2>2, SuspendStands
  <1>16. CASE ReconcileInVain(c)
    <2>1. Suspend(c, "result", kind[c], held[c]) /\ pc[c] = "reconcile"
      BY <1>16, CallAssumption DEF ReconcileInVain, AfterReconcile
    <2>2. held[c] # "accepted"
      BY <1>1, <2>1 DEF Standing, Pending
    <2>3. QED
      BY <1>1, <1>2, <2>1, <2>2, SuspendStands
  <1>17. QED
    BY <1>3, <1>4, <1>5, <1>6, <1>7, <1>8, <1>9, <1>10, <1>11, <1>12, <1>13, <1>14,
       <1>15, <1>16 DEF Start

\* A call's step moves no other call.
LEMMA CallMovesAlone ==
  ASSUME Core, NEW c \in Calls, CallStep(c), NEW e \in Calls, e # c
  PROVE  pc'[e] = pc[e] /\ kind'[e] = kind[e] /\ held'[e] = held[e] /\ answer'[e] = answer[e]
  <1>1. ASSUME NEW where, NEW d, NEW status, Suspend(c, where, d, status)
        PROVE  pc'[e] = pc[e] /\ kind'[e] = kind[e] /\ held'[e] = held[e] /\ answer'[e] = answer[e]
    BY <1>1 DEF Suspend, Core, TypeOK
  <1>2. ASSUME NEW what, Finish(c, what)
        PROVE  pc'[e] = pc[e] /\ kind'[e] = kind[e] /\ held'[e] = held[e] /\ answer'[e] = answer[e]
    BY <1>2 DEF Finish, Core, TypeOK
  <1>3. \/ \E where, d, status : Suspend(c, where, d, status)
        \/ \E what : Finish(c, what)
    <2>1. ASSUME NEW d, EnterChild(c, d) \/ Reuse(c, d) \/ (\E thread : Begin(c, d, thread))
          PROVE  \/ \E where, dd, status : Suspend(c, where, dd, status)
                 \/ \E what : Finish(c, what)
      BY <2>1, Zenon DEF EnterChild, Reuse, Begin
    <2>2. ASSUME NEW status, NEW newOps, AfterReconcile(c, status, newOps)
          PROVE  \/ \E where, d, st : Suspend(c, where, d, st)
                 \/ \E what : Finish(c, what)
      BY <2>2, Zenon DEF AfterReconcile, Refresh
    <2>3. CASE BeginTask(c) \/ BeginCreate(c) \/ FinishCreate(c) \/ TakeBaseline(c) \/ BeginTurn(c)
      BY <2>1, <2>3, Zenon DEF BeginTask, BeginCreate, FinishCreate, TakeBaseline, BeginTurn,
                               FinishWithStage
    <2>4. CASE RefuseInput(c) \/ Send(c) \/ NotSent(c) \/ Reply(c) \/ FinishTurn(c)
               \/ ReadFails(c) \/ JournalFails(c) \/ Call(c) \/ GetTask(c)
      BY <2>4, Zenon DEF RefuseInput, Send, NotSent, Reply, FinishTurn, ReadFails, JournalFails,
                         Call, GetTask, FinishWithStage
    <2>5. CASE Reconcile(c) \/ ReconcileInVain(c)
      BY <2>2, <2>5, Zenon DEF Reconcile, ReconcileInVain
    <2>6. CASE ReadTask(c)
      BY <2>6, Zenon DEF ReadTask, Refresh
    <2>7. QED
      BY <2>3, <2>4, <2>5, <2>6, Zenon DEF CallStep, Start, Poll
  <1>4. QED
    BY <1>1, <1>2, <1>3

LEMMA TruthInit == Init => Truth
  <1> SUFFICES ASSUME Init PROVE Truth
    OBVIOUS
  <1>1. TaskRecords /\ TaskIdsMatch
    BY DEF Init, NoOps, NoReceipt, NoTasks, NoTask, TaskRecords, TaskIdsMatch, Kinds
  <1>2. \A c \in Starters : Standing(c)
    BY DEF Init, Standing, Calls
  <1>3. QED
    BY <1>1, <1>2, LedgerInit DEF Truth

LEMMA TruthNext ==
  ASSUME Core, Truth, [Next]_vars
  PROVE  Truth'
  <1>1. Core' /\ Ledger /\ Ledger' /\ TaskRecords /\ TaskIdsMatch /\ Kept
    BY CoreNext, LedgerNext, NextKeeps DEF Truth
  <1>2. ASSUME NEW c \in Calls, CallStep(c)
        PROVE  Truth'
    <2>1. TaskEffect(c) /\ Effect(c)
      BY <1>1, <1>2, CallTask, CallEffect
    <2>2. TasksKept
      BY <1>1, <2>1, TaskEffectKeeps
    <2>3. TaskRecords' /\ TaskIdsMatch'
      BY <1>1, <2>1, <2>2, CallKeepsRecords
    <2>4. ASSUME NEW e \in Starters
          PROVE  Standing(e)'
      <3>1. CASE e = c
        <4>1. Call(c) \/ Start(c)
          BY <1>2, <3>1, CallAssumption DEF CallStep
        <4>2. QED
          BY <1>1, <2>2, <3>1, <4>1, StartStands
      <3>2. CASE e # c
        <4>1. e \in Calls
          BY DEF Calls
        <4>2. pc'[e] = pc[e] /\ kind'[e] = kind[e] /\ held'[e] = held[e] /\ answer'[e] = answer[e]
          BY <1>2, <3>2, <4>1, CallMovesAlone
        <4>3. QED
          BY <1>1, <2>2, <4>2, OthersStand
      <3>3. QED
        BY <3>1, <3>2
    <2>5. QED
      BY <1>1, <2>3, <2>4 DEF Truth
  <1>3. ASSUME UNCHANGED <<journal, calls>>
        PROVE  Truth'
    <2>1. tasks' = tasks /\ ops' = ops /\ TasksKept
      BY <1>3 DEF journal, TasksKept
    <2>2. TaskRecords' /\ TaskIdsMatch'
      BY <1>1, <2>1, IdleKeepsRecords
    <2>3. \A e \in Starters : Standing(e)'
      BY <1>1, <1>3, <2>1, OthersStand DEF calls
    <2>4. QED
      BY <1>1, <2>2, <2>3 DEF Truth
  <1>4. CASE T3Step \/ UNCHANGED vars
    BY <1>3, <1>4 DEF T3Step, T3Applies, T3Refuses, Lose, ForeignTurn, TurnEnds, vars, calls
  <1>5. CASE CrashAndRestart
    <2>1. tasks' = tasks /\ TasksKept /\ ops \in Ops /\ ops' = Recovered(ops) /\ UNCHANGED <<key, payload>>
      BY <1>5 DEF CrashAndRestart, TasksKept, Core, TypeOK
    <2>2. \A k \in Keys, d \in Kinds : ops'[k][d].status # "none" => ops[k][d].status # "none"
      BY <2>1, RecoveredReceipts
    <2>3. TaskRecords' /\ TaskIdsMatch'
      BY <1>1, <2>1, <2>2, IdleKeepsRecords
    <2>4. ASSUME NEW e \in Starters
          PROVE  Standing(e)'
      <3>1. pc'[e] \in {"idle", "done"} /\ answer'[e] \in {answer[e], "crashed"}
        BY <1>5 DEF CrashAndRestart, Calls
      <3>2. QED
        BY <2>1, <3>1 DEF Truth, Standing
    <2>5. QED
      BY <1>1, <2>3, <2>4 DEF Truth
  <1>6. QED
    BY <1>2, <1>4, <1>5 DEF Next, CallStep, Calls

THEOREM TruthInvariant == Spec => [](Core /\ Truth)
  <1>1. Init => Core /\ Truth
    BY CoreInit, TruthInit
  <1>2. Core /\ Truth /\ [Next]_vars => (Core /\ Truth)'
    BY CoreNext, TruthNext
  <1>3. QED
    BY <1>1, <1>2, PTL DEF Spec

-----------------------------------------------------------------------------
(* What calls answer *)

\* A stage projected from a task's receipts tells the truth about T3.
Telling(k, stage) ==
  /\ stage = "run_accepted" => CommandOf(ops[k]["turn"], "turn") \in applied
  /\ stage = "thread_created" => ThreadExists(ops[k]["create"].by)
  /\ stage = "dispatch_rejected" => ops[k]["turn"].status = "rejected"

StoredStages == {"none", "prepared", "rejected"}

Projections ==
  \A k \in Keys, stored \in Stages \cup {"none"} :
    LET stage == StageOf(stored, ops[k]["create"], ops[k]["turn"]) IN
    ops[k]["create"].status # "none" \/ stored \in StoredStages =>
      /\ Telling(k, stage)
      /\ stage = "rejected" => \A m \in wire \cup applied : KeyOf(m) # k

LEMMA ProjectionsTell ==
  /\ Core /\ Ledger => Projections
  /\ (Core /\ Ledger => Projections)'
  <1>1. ASSUME Core, Ledger, NEW k \in Keys, NEW stored \in Stages \cup {"none"},
               ops[k]["create"].status # "none" \/ stored \in StoredStages
        PROVE  LET stage == StageOf(stored, ops[k]["create"], ops[k]["turn"]) IN
               /\ Telling(k, stage)
               /\ stage = "rejected" => \A m \in wire \cup applied : KeyOf(m) # k
    <2> DEFINE create == ops[k]["create"]
               turn   == ops[k]["turn"]
               stage  == StageOf(stored, create, turn)
    <2>1. /\ create \in Receipt /\ turn \in Receipt
          /\ turn.status # "none" => create.status # "none"
      BY <1>1, CreatesComeFirst DEF Core, TypeOK, Ops, Kinds, CreateFirst
    <2>2. /\ create.status # "none" =>
               /\ stage = "run_accepted" <=> turn.status = "accepted"
               /\ stage = "dispatch_rejected" <=> turn.status = "rejected"
               /\ stage = "thread_created" <=> turn.status = "none" /\ create.status = "accepted"
               /\ stage = "rejected" <=> turn.status = "none" /\ create.status = "rejected"
          /\ create.status = "none" => stage \in StoredStages
      BY <1>1, <2>1, StageOfCases
    <2>3. /\ turn.status = "accepted" => CommandOf(turn, "turn") \in applied
          /\ create.status = "accepted" => CommandOf(create, "create") \in applied
          /\ create.status = "rejected" => CommandOf(create, "create") \notin wire \cup applied
          /\ create.thread = create.by
      BY <1>1, ThreadIsBy DEF Ledger, StatusesAreTrue, Kinds, ThreadsAreBy
    <2>4. create.status = "accepted" => ThreadExists(create.by)
      BY <2>3 DEF CommandOf, ThreadExists
    <2>5. ASSUME turn.status = "none", create.status \in {"none", "rejected"},
                 NEW m \in wire \cup applied, KeyOf(m) = k
          PROVE  FALSE
      <3>1. m \in Sent /\ m \in Command
        BY <1>1 DEF Core, TypeOK, Sent
      <3>2. CommandOf(ops[k][m.kind], m.kind) = m /\ m.kind \in Kinds /\ m.by \in Starters
        BY <1>1, <2>5, <3>1 DEF Core, SentIsRecorded, Command
      <3>3. ops[k][m.kind].by = m.by
        BY <3>2 DEF CommandOf
      <3>4. ops[k][m.kind].status # "none"
        BY <1>1, <3>2, <3>3, MintedIsThere
      <3>5. m.kind = "create" /\ create.status = "rejected"
        BY <2>5, <3>2, <3>4 DEF Kinds
      <3>6. QED
        BY <2>3, <2>5, <3>2, <3>5
    <2> HIDE DEF create, turn, stage
    <2>6. stage = "rejected" => \A m \in wire \cup applied : KeyOf(m) # k
      BY <2>1, <2>2, <2>5
    <2>7. /\ stage = "run_accepted" => CommandOf(turn, "turn") \in applied
          /\ stage = "thread_created" => ThreadExists(create.by)
          /\ stage = "dispatch_rejected" => turn.status = "rejected"
      BY <2>2, <2>3, <2>4 DEF StoredStages
    <2>8. QED
      BY <2>6, <2>7 DEF create, turn, stage, Telling
  <1>2. Core /\ Ledger => Projections
    BY <1>1 DEF Projections
  <1>3. QED
    BY <1>2, PTL

\* The answer a call ends with is an error, a conflict or a projection.
Ends(c) ==
  \/ answer' = answer
  \/ \E what \in {"conflict", "error"} : answer' = [answer EXCEPT ![c] = what]
  \/ \E stored \in Stages \cup {"none"} :
       /\ answer' = [answer EXCEPT ![c] =
                       StageOf(stored, ops'[key[c]]["create"], ops'[key[c]]["turn"])]
       /\ ops'[key[c]]["create"].status # "none" \/ stored \in StoredStages

LEMMA FinishWithStageEnds ==
  ASSUME NEW c \in Calls, NEW stage \in Stages, FinishWithStage(c, stage), ops' = ops,
         stage = "rejected" \/ ops[key[c]]["create"].status # "none"
  PROVE  Ends(c)
  BY DEF FinishWithStage, Finish, Ends, StoredStages

LEMMA ChildEnds ==
  ASSUME NEW c \in Calls, NEW d,
         EnterChild(c, d) \/ Reuse(c, d) \/ (\E thread : Begin(c, d, thread))
  PROVE  Ends(c)
  BY DEF EnterChild, Reuse, Begin, Suspend, Finish, Ends

LEMMA RefreshEnds ==
  ASSUME Core, TaskRecords, Kept, NEW c \in Calls, NEW newOps, Refresh(c, newOps), ops' = newOps
  PROVE  Ends(c)
  <1>1. key[c] \in Keys /\ tasks[key[c]] \in Task
    BY DEF Core, TypeOK, Tasks
  <1>2. answer' = [answer EXCEPT ![c] = StageOf(tasks[key[c]].stage, ops'[key[c]]["create"],
                                                ops'[key[c]]["turn"])]
    BY <1>1 DEF Refresh, Finish, Refreshed, Task
  <1>3. ops'[key[c]]["create"].status # "none" \/ tasks[key[c]].stage \in StoredStages
    BY <1>1 DEF Kept, ReceiptKept, TaskRecords, StoredStages, Kinds
  <1>4. tasks[key[c]].stage \in Stages \cup {"none"}
    BY <1>1 DEF Task
  <1>5. QED
    BY <1>2, <1>3, <1>4 DEF Ends

LEMMA CallEnds ==
  ASSUME Core, Ledger, TaskRecords, Kept, NEW c \in Calls, CallStep(c)
  PROVE  Ends(c)
  <1>1. key[c] \in Keys /\ "rejected" \in Stages
    BY OwnTypes DEF Stages
  <1>2. CASE BeginTask(c)
    BY <1>2, ChildEnds DEF BeginTask, Finish, Ends
  <1>3. CASE BeginCreate(c) \/ TakeBaseline(c)
    BY <1>3, ChildEnds DEF BeginCreate, TakeBaseline
  <1>4. CASE RefuseInput(c)
    BY <1>1, <1>4, FinishWithStageEnds DEF RefuseInput
  <1>5. CASE Send(c) \/ NotSent(c) \/ Reply(c) \/ Call(c) \/ GetTask(c)
    BY <1>5 DEF Send, NotSent, Reply, Call, GetTask, Suspend, Ends
  <1>6. CASE FinishCreate(c)
    <2> DEFINE stage == CASE held[c] = "accepted"  -> "thread_created"
                          [] held[c] = "uncertain" -> "thread_create_uncertain"
                          [] OTHER                 -> "rejected"
    <2>1. stage \in Stages
      BY DEF Stages
    <2>2. /\ pc[c] = "result" /\ kind[c] = "create" /\ ops' = ops
          /\ \/ FinishWithStage(c, stage)
             \/ Suspend(c, "baseline", "create", held[c])
             \/ EnterChild(c, "turn")
      BY <1>6 DEF FinishCreate
    <2> HIDE DEF stage
    <2>3. ops[key[c]]["create"].status # "none"
      BY <2>2 DEF Core, CallsHoldReceipts, HoldsReceipt
    <2>4. QED
      BY <2>1, <2>2, <2>3, FinishWithStageEnds, ChildEnds DEF Suspend, Ends
  <1>7. CASE BeginTurn(c)
    BY <1>1, <1>7, FinishWithStageEnds, ChildEnds DEF BeginTurn
  <1>8. CASE FinishTurn(c)
    <2> DEFINE stage == CASE held[c] = "accepted"  -> "run_accepted"
                          [] held[c] = "uncertain" -> "dispatch_uncertain"
                          [] OTHER                 -> "dispatch_rejected"
    <2>1. stage \in Stages
      BY DEF Stages
    <2>2. /\ pc[c] = "result" /\ kind[c] = "turn" /\ ops' = ops /\ FinishWithStage(c, stage)
      BY <1>8 DEF FinishTurn
    <2> HIDE DEF stage
    <2>3. ops[key[c]]["create"].status # "none"
      BY <1>1, <2>2, TurnHasCreate DEF Core, CallsHoldReceipts, HoldsReceipt
    <2>4. QED
      BY <2>1, <2>2, <2>3, FinishWithStageEnds
  <1>9. CASE ReadFails(c) \/ JournalFails(c)
    BY <1>9 DEF ReadFails, JournalFails, Finish, Ends
  <1>10. CASE Reconcile(c) \/ ReconcileInVain(c)
    <2>1. (\E status : AfterReconcile(c, status, ops'))
      BY <1>10 DEF Reconcile, ReconcileInVain, SetStatus
    <2>2. ASSUME NEW newOps, Refresh(c, newOps), ops' = newOps
          PROVE  Ends(c)
      BY <2>2, RefreshEnds
    <2>3. QED
      BY <2>1, <2>2 DEF AfterReconcile, Suspend, Ends
  <1>11. CASE ReadTask(c)
    <2>1. CASE Refresh(c, ops) /\ ops' = ops
      BY <2>1, RefreshEnds
    <2>2. QED
      BY <1>11, <2>1 DEF ReadTask, Suspend, Ends
  <1>12. QED
    BY <1>2, <1>3, <1>4, <1>5, <1>6, <1>7, <1>8, <1>9, <1>10, <1>11
    DEF CallStep, Start, Poll

AnswersTell == \A c \in Calls : Telling(key[c], answer[c])

\* An answer that did not change is still true.
LEMMA TellingStays ==
  ASSUME Core, Kept, NEW e \in Calls, Telling(key[e], answer[e]), answer'[e] = answer[e]
  PROVE  Telling(key[e], answer[e])'
  <1>1. key[e] \in Keys /\ key' = key
    BY OwnTypes DEF Kept
  <1>2. answer[e] = "run_accepted" => CommandOf(ops'[key[e]]["turn"], "turn") \in applied'
    BY <1>1, AppliedStays DEF Telling, Kinds
  <1>3. answer[e] = "thread_created" =>
          [kind |-> "create", by |-> ops'[key[e]]["create"].by,
           thread |-> ops'[key[e]]["create"].by] \in applied'
    BY <1>1, AppliedStays DEF Telling, ThreadExists
  <1>4. answer[e] = "dispatch_rejected" => ops'[key[e]]["turn"].status = "rejected"
    BY <1>1 DEF Telling, Kept, ReceiptKept, Kinds
  <1>5. QED
    BY <1>1, <1>2, <1>3, <1>4 DEF Telling, ThreadExists, CommandOf

LEMMA AnswersNext ==
  ASSUME Core, Truth, AnswersTell, [Next]_vars
  PROVE  AnswersTell'
  <1>1. /\ Core' /\ Ledger' /\ Kept /\ Ledger /\ TaskRecords /\ key' = key
        /\ answer \in [Calls -> Answers]
    BY CoreNext, TruthNext, NextKeeps DEF Truth, Kept, Core, TypeOK
  <1>2. ASSUME NEW c \in Calls, CallStep(c), NEW e \in Calls
        PROVE  Telling(key[e], answer[e])'
    <2>1. CASE answer'[e] = answer[e]
      BY <1>1, <2>1, TellingStays DEF AnswersTell
    <2>2. CASE e = c /\ answer'[c] \in {"conflict", "error"}
      BY <2>2 DEF Telling
    <2>3. CASE e = c /\ \E stored \in Stages \cup {"none"} :
                 /\ answer'[c] = StageOf(stored, ops'[key[c]]["create"], ops'[key[c]]["turn"])
                 /\ ops'[key[c]]["create"].status # "none" \/ stored \in StoredStages
      <3>1. Projections' /\ key[c] \in Keys
        BY <1>1, ProjectionsTell, OwnTypes
      <3>2. QED
        BY <1>1, <2>3, <3>1 DEF Projections, Telling, ThreadExists, CommandOf
    <2>4. QED
      BY <1>1, <1>2, <2>1, <2>2, <2>3, CallEnds DEF Ends
  <1>3. CASE T3Step \/ UNCHANGED vars
    <2>1. answer' = answer
      BY <1>3 DEF T3Step, T3Applies, T3Refuses, Lose, ForeignTurn, TurnEnds, vars, calls
    <2>2. QED
      BY <1>1, <2>1, TellingStays DEF AnswersTell
  <1>4. CASE CrashAndRestart
    <2>1. \A e \in Calls : answer'[e] \in {answer[e], "crashed"}
      BY <1>4 DEF CrashAndRestart
    <2>2. ASSUME NEW e \in Calls
          PROVE  Telling(key[e], answer[e])'
      <3>1. CASE answer'[e] = answer[e]
        BY <1>1, <3>1, TellingStays DEF AnswersTell
      <3>2. CASE answer'[e] = "crashed"
        BY <3>2 DEF Telling
      <3>3. QED
        BY <2>1, <3>1, <3>2
    <2>3. QED
      BY <2>2 DEF AnswersTell
  <1>5. QED
    BY <1>2, <1>3, <1>4 DEF Next, CallStep, Calls, AnswersTell

-----------------------------------------------------------------------------
(* What holds of every behaviour *)

\* Accepted and rejected in the journal are facts about T3, a turn only went to
\* the thread of its own task, and a task record has the ids of its receipts.
THEOREM ReceiptsTellTheTruth == Spec => []ReceiptsAreTrue
  <1>1. Core /\ Truth => ReceiptsAreTrue
    <2>1. SUFFICES ASSUME Core, Truth PROVE TurnFollowsCreate
      BY DEF ReceiptsAreTrue, Truth, Ledger
    <2>2. ASSUME NEW m \in Sent, m.kind = "turn"
          PROVE  /\ m.thread \in Starters /\ key[m.thread] = KeyOf(m)
                 /\ ThreadExists(m.thread)
      <3>1. m \in Command /\ KeyOf(m) \in Keys /\ m.by \in Starters
        BY <2>1 DEF Core, TypeOK, Sent, Command, KeyOf, Calls
      <3>2. CommandOf(ops[KeyOf(m)]["turn"], "turn") = m
        BY <2>1, <2>2 DEF Core, SentIsRecorded
      <3>3. ops[KeyOf(m)]["turn"].by = m.by /\ ops[KeyOf(m)]["turn"].thread = m.thread
        BY <3>2 DEF CommandOf
      <3>4. ops[KeyOf(m)]["turn"].status # "none"
        BY <2>1, <3>1, <3>3, MintedIsThere DEF Kinds
      <3>5. /\ m.thread = ops[KeyOf(m)]["create"].thread /\ ThreadExists(m.thread)
            /\ ops[KeyOf(m)]["create"].status # "none"
        BY <2>1, <3>1, <3>3, <3>4, TurnHasCreate DEF Truth, Ledger, ReceiptThreads
      <3>6. m.thread = ops[KeyOf(m)]["create"].by
        BY <2>1, <3>1, <3>5 DEF Truth, Ledger, ReceiptThreads
      <3>7. QED
        BY <2>1, <3>1, <3>5, <3>6 DEF Core, ReceiptOwners, Kinds
    <2>3. QED
      BY <2>1, <2>2, CreatesComeFirst DEF TurnFollowsCreate, CreateFirst, Truth
  <1>2. QED
    BY <1>1, TruthInvariant, PTL

\* What a call answered stays true of T3, and a conflict it answered is one.
THEOREM AnswersTellTheTruth == Spec => []AnswersAreTrue
  <1>1. Init => AnswersTell
    BY DEF Init, AnswersTell, Telling
  <1>2. Core /\ Truth /\ AnswersTell /\ [Next]_vars => AnswersTell'
    BY AnswersNext
  <1>3. Core /\ Truth /\ AnswersTell => AnswersAreTrue
    BY OwnTypes DEF AnswersAreTrue, AnswersTell, Telling, NoChildConflict, Truth, Standing,
       Ledger, StatusesAreTrue, Kinds
  <1>4. QED
    BY <1>1, <1>2, <1>3, TruthInvariant, PTL DEF Spec

\* No step gives a receipt other ids or takes a rejection back.
THEOREM ReceiptsStayStable == Spec => ReceiptsAreStable
  <1>1. Core /\ Truth /\ [Next]_vars =>
          [\A k \in Keys, d \in Kinds :
             ops[k][d].status # "none" =>
               /\ CommandOf(ops'[k][d], d) = CommandOf(ops[k][d], d)
               /\ ops'[k][d].payload = ops[k][d].payload
               /\ ops'[k][d] = ops[k][d] \/ ops'[k][d].status \notin {"none", "prepared"}
               /\ ops[k][d].status = "rejected" => ops'[k][d].status = "rejected"]_vars
    BY NextKeeps DEF Truth, Kept, ReceiptKept, CommandOf
  <1>2. QED
    BY <1>1, TruthInvariant, PTL DEF Spec, ReceiptsAreStable

\* The steps of a start call that waits for its thread to be read.
LEMMA BeforeTurn ==
  ASSUME NEW c \in Starters, Call(c) \/ Start(c), pc[c] = "prepare", kind[c] = "turn"
  PROVE  BeginTurn(c) \/ ReadFails(c) \/ JournalFails(c)
  BY DEF Call, Start, BeginTask, BeginCreate, RefuseInput, Send, NotSent, Reply,
         FinishCreate, TakeBaseline, FinishTurn, Reconcile, ReconcileInVain

\* A thread that runs a turn of the gateway's runs the one its task has.
LEMMA OwnRunIsKnown ==
  ASSUME Core, Ledger, NEW k \in Keys, ops[k]["turn"].status = "none",
         ThreadExists(ops[k]["create"].thread)
  PROVE  running[ops[k]["create"].thread] \in {Idle, Foreign}
  <1> DEFINE t == ops[k]["create"].thread
             m == [kind |-> "turn", by |-> running[t], thread |-> t]
  <1>1. t \in Starters /\ t = ops[k]["create"].by /\ running[t] \in Starters \cup {Idle, Foreign}
    BY ThreadIsMinted, ThreadIsBy DEF ThreadsAreBy, Core, TypeOK
  <1>2. ops[k]["create"].status # "none"
    BY <1>1, MintedIsThere DEF Kinds
  <1>3. key[t] = k
    BY <1>1, <1>2 DEF Core, ReceiptOwners, Kinds
  <1>4. ASSUME running[t] \in Starters
        PROVE  FALSE
    <2>1. m \in applied
      BY <1>1, <1>4 DEF Ledger, RunsAreApplied
    <2>2. m \in Sent /\ key[running[t]] \in Keys
      BY <1>4, <2>1 DEF Sent, Core, TypeOK, Calls
    <2>3. CommandOf(ops[key[running[t]]]["turn"], "turn") = m
      BY <2>2 DEF Core, SentIsRecorded, KeyOf
    <2>4. /\ ops[key[running[t]]]["turn"].by = running[t]
          /\ ops[key[running[t]]]["turn"].thread = t
      BY <2>3 DEF CommandOf
    <2>5. ops[key[running[t]]]["turn"].status # "none"
      BY <1>4, <2>2, <2>4, MintedIsThere DEF Kinds
    <2>6. /\ ops[key[running[t]]]["create"].status # "none"
          /\ ops[key[running[t]]]["create"].thread = t
      BY <2>2, <2>4, <2>5, TurnHasCreate DEF Ledger, ReceiptThreads
    <2>7. ops[key[running[t]]]["create"].by = t
      BY <2>2, <2>6 DEF Ledger, ReceiptThreads
    <2>8. key[t] = key[running[t]]
      BY <2>2, <2>6, <2>7 DEF Core, ReceiptOwners, Kinds
    <2>9. QED
      BY <1>3, <2>5, <2>8
  <1>5. QED
    BY <1>1, <1>4

\* However calls overlap, a task is not refused as busy for its own run.
THEOREM OwnRunIsNeverBusy == Spec => OwnRunNeverBusy
  <1>1. ASSUME Core, Truth, [Next]_vars, NEW c \in Starters,
               pc[c] = "prepare", kind[c] = "turn", pc'[c] = "done", answer'[c] \in Stages
        PROVE  running[ops[key[c]]["create"].by] = Foreign
    <2>1. c \in Calls /\ key[c] \in Keys /\ answer \in [Calls -> Answers] /\ Ledger
      BY <1>1 DEF Calls, Core, TypeOK, Truth
    <2>2. ~CrashAndRestart
      BY <1>1, <2>1 DEF CrashAndRestart, Stages
    <2>3. ~T3Step /\ ~(UNCHANGED vars)
      BY <1>1 DEF T3Step, T3Applies, T3Refuses, Lose, ForeignTurn, TurnEnds, vars, calls
    <2>4. ~\E e \in Calls \ {c} : CallStep(e)
      BY <1>1, <2>1, CallMovesAlone
    <2>5. CallStep(c)
      BY <1>1, <2>2, <2>3, <2>4 DEF Next, CallStep, Calls
    <2>6. BeginTurn(c) \/ ReadFails(c) \/ JournalFails(c)
      BY <1>1, <2>5, BeforeTurn, CallAssumption DEF CallStep
    <2>7. ~ReadFails(c) /\ ~JournalFails(c)
      BY <1>1, <2>1 DEF ReadFails, JournalFails, Finish, Stages
    <2>8. ASSUME Reuse(c, "turn") \/ (\E thread : Begin(c, "turn", thread))
          PROVE  FALSE
      <3>1. \/ Finish(c, "conflict")
            \/ \E where \in {"result", "reconcile", "dispatch"} : \E status :
                 Suspend(c, where, "turn", status)
        BY <2>8, Zenon DEF Reuse, Begin
      <3>2. ~Finish(c, "conflict")
        BY <1>1, <2>1 DEF Finish, Stages
      <3>3. QED
        BY <1>1, <2>1, <3>1, <3>2, SuspendFrame DEF Core
    <2>9. /\ ops[key[c]]["turn"].status = "none"
          /\ ThreadExists(ops[key[c]]["create"].thread)
          /\ running[ops[key[c]]["create"].thread] # Idle
      BY <2>6, <2>7, <2>8 DEF BeginTurn
    <2>10. QED
      BY <1>1, <2>1, <2>9, OwnRunIsKnown, ThreadIsBy DEF ThreadsAreBy
  <1>2. Core /\ Truth /\ [Next]_vars =>
          [\A c \in Starters :
             /\ pc[c] = "prepare" /\ kind[c] = "turn"
             /\ pc'[c] = "done" /\ answer'[c] \in Stages
             => running[ops[key[c]]["create"].by] = Foreign]_vars
    BY <1>1
  <1>3. QED
    BY <1>2, TruthInvariant, PTL DEF Spec, OwnRunNeverBusy

\* Whether or not calls overlap, a start is answered with rejected only while
\* nothing of its task is in T3 or on its way there.
THEOREM RejectionIsSafe == Spec => ReplacementIsSafe
  <1>1. ASSUME Core, Truth, [Next]_vars, NEW c \in Starters,
               answer[c] # "rejected", answer'[c] = "rejected", NEW m \in wire \cup applied
        PROVE  KeyOf(m) # key[c]
    <2>1. /\ c \in Calls /\ key[c] \in Keys /\ answer \in [Calls -> Answers]
          /\ Ledger /\ TaskRecords /\ Kept /\ Core' /\ Ledger'
      BY <1>1, CoreNext, TruthNext, NextKeeps DEF Calls, Core, TypeOK, Truth
    <2>2. ~CrashAndRestart
      BY <1>1, <2>1 DEF CrashAndRestart
    <2>3. ~T3Step /\ ~(UNCHANGED vars)
      BY <1>1 DEF T3Step, T3Applies, T3Refuses, Lose, ForeignTurn, TurnEnds, vars, calls
    <2>4. ~\E e \in Calls \ {c} : CallStep(e)
      BY <1>1, <2>1, CallMovesAlone
    <2>5. CallStep(c)
      BY <1>1, <2>2, <2>3, <2>4 DEF Next, CallStep, Calls
    <2>6. PICK stored \in Stages \cup {"none"} :
            /\ answer'[c] = StageOf(stored, ops'[key[c]]["create"], ops'[key[c]]["turn"])
            /\ ops'[key[c]]["create"].status # "none" \/ stored \in StoredStages
      BY <1>1, <2>1, <2>5, CallEnds DEF Ends
    <2>7. \A n \in wire' \cup applied' : key'[n.by] # key[c]
      BY <1>1, <2>1, <2>6, ProjectionsTell DEF Projections, KeyOf
    <2>8. wire \subseteq wire' /\ applied \subseteq applied' /\ key' = key
      BY <1>1, <2>1, <2>5, CallEffect DEF Kept, Effect, Mints, Learns, Send, t3
    <2>9. QED
      BY <1>1, <2>7, <2>8 DEF KeyOf
  <1>2. Core /\ Truth /\ [Next]_vars =>
          [\A c \in Starters :
             answer[c] # "rejected" /\ answer'[c] = "rejected"
             => \A m \in wire \cup applied : KeyOf(m) # key[c]]_vars
    BY <1>1
  <1>3. QED
    BY <1>2, TruthInvariant, PTL DEF Spec, ReplacementIsSafe

-----------------------------------------------------------------------------
(* The refinement: T3 and the receipts are the abstract delivery. *)

LEMMA DeliveredIds ==
  ASSUME Core
  PROVE  /\ \A k \in Keys :
              /\ T3Threads[k] # NoId <=> CommandOf(ops[k]["create"], "create") \in applied
              /\ T3Runs[k] # NoId <=> CommandOf(ops[k]["turn"], "turn") \in applied
         /\ \A k \in Keys, id \in Starters :
              T3Threads[k] = id \/ T3Runs[k] = id => key[id] = k
  <1>1. ASSUME NEW k \in Keys, NEW d \in Kinds, CommandOf(ops[k][d], d) \in applied
        PROVE  ops[k][d].by # NoId /\ key[ops[k][d].by] = k
    BY <1>1, AppliedIsMinted, IdAssumption, CallAssumption DEF Core, ReceiptOwners
  <1>2. NoId \notin Starters /\ "create" \in Kinds /\ "turn" \in Kinds
    BY IdAssumption, CallAssumption DEF Kinds
  <1>3. QED
    BY <1>1, <1>2 DEF T3Threads, T3Runs, Delivered

\* A task that was refused anything has no run and no command under way.
RefusalsAreFinal ==
  \A k \in RefusedTasks :
    /\ CommandOf(ops[k]["turn"], "turn") \notin applied
    /\ \A m \in wire : KeyOf(m) # k

LEMMA RefusalIsFinal ==
  /\ Core /\ Ledger => RefusalsAreFinal
  /\ (Core /\ Ledger => RefusalsAreFinal)'
  <1>1. ASSUME Core, Ledger, NEW k \in RefusedTasks
        PROVE  /\ CommandOf(ops[k]["turn"], "turn") \notin applied
               /\ \A m \in wire : KeyOf(m) # k
    <2>1. PICK d \in Kinds : k \in Keys /\ ops[k][d].status = "rejected"
      BY <1>1 DEF RefusedTasks
    <2>2. CommandOf(ops[k][d], d) \notin wire \cup applied
      BY <1>1, <2>1 DEF Ledger, StatusesAreTrue
    <2>3. ASSUME ops[k]["turn"].status # "none"
          PROVE  CommandOf(ops[k]["create"], "create") \in applied
      BY <1>1, <2>1, <2>3, ThreadIsBy
      DEF Ledger, ReceiptThreads, ThreadsAreBy, ThreadExists, CommandOf
    <2>4. CommandOf(ops[k]["turn"], "turn") \notin applied
      BY <1>1, <2>1, <2>2, <2>3, AppliedIsMinted DEF Kinds
    <2>5. ASSUME NEW m \in wire, KeyOf(m) = k
          PROVE  FALSE
      <3>1. m \in Command /\ m \notin applied /\ CommandOf(ops[k][m.kind], m.kind) = m
        BY <1>1, <2>5 DEF Core, TypeOK, SentIsRecorded, Sent, Ledger, SettledOnce
      <3>2. m.kind \in Kinds /\ ops[k][m.kind].by \in Starters
        BY <1>1, <3>1 DEF Command, CommandOf
      <3>3. ops[k][m.kind].status # "none" /\ m.kind # d
        BY <1>1, <2>1, <2>2, <2>5, <3>1, <3>2, MintedIsThere
      <3>4. CASE d = "create"
        BY <1>1, <2>2, <2>3, <3>2, <3>3, <3>4 DEF Kinds
      <3>5. CASE d = "turn"
        BY <1>1, <2>1, <2>3, <3>1, <3>2, <3>3, <3>5 DEF Kinds
      <3>6. QED
        BY <1>1, <2>1, <3>4, <3>5 DEF Kinds
    <2>6. QED
      BY <1>1, <2>4, <2>5
  <1>2. Core /\ Ledger => RefusalsAreFinal
    BY <1>1 DEF RefusalsAreFinal
  <1>3. QED
    BY <1>2, PTL

\* A step that applies nothing delivers nothing.
LEMMA NothingDelivered ==
  ASSUME Core, Core', Kept, applied' = applied,
         \A k \in Keys, d \in Kinds :
           ops[k][d].status = "none" /\ ops'[k][d].status # "none"
           => CommandOf(ops'[k][d], d) \notin applied
  PROVE  T3Threads' = T3Threads /\ T3Runs' = T3Runs
  <1>1. ASSUME NEW k \in Keys, NEW d \in Kinds
        PROVE  /\ CommandOf(ops'[k][d], d) \in applied' <=> CommandOf(ops[k][d], d) \in applied
               /\ CommandOf(ops[k][d], d) \in applied => ops'[k][d].by = ops[k][d].by
    <2>1. CASE ops[k][d].status # "none"
      BY <2>1 DEF Kept, ReceiptKept, CommandOf
    <2>2. CASE ops[k][d].status = "none" /\ ops'[k][d].status = "none"
      BY <2>2 DEF Core, ReceiptOwners
    <2>3. CASE ops[k][d].status = "none" /\ ops'[k][d].status # "none"
      BY <2>3, AppliedIsMinted
    <2>4. QED
      BY <2>1, <2>2, <2>3
  <1>2. "create" \in Kinds /\ "turn" \in Kinds
    BY DEF Kinds
  <1>3. QED
    BY <1>1, <1>2 DEF T3Threads, T3Runs, Delivered

\* T3 applies a command: the thread or the run of its task.
LEMMA AppliesDelivers ==
  ASSUME Core, Ledger, NEW m \in wire, T3Applies(m)
  PROVE  \E k \in Keys : Delivery!CreateThread(k) \/ Delivery!StartRun(k)
  <1> DEFINE k == KeyOf(m)
  <1>1. /\ m \in Command /\ m \notin applied /\ k \in Keys
        /\ m.kind \in Kinds /\ m.by \in Starters
    BY DEF Core, TypeOK, Ledger, SettledOnce, Command, KeyOf, Calls
  <1>2. CommandOf(ops[k][m.kind], m.kind) = m /\ ops[k][m.kind].by = m.by
    BY <1>1 DEF Core, SentIsRecorded, Sent, CommandOf
  <1>3. /\ applied' = applied \cup {m}
        /\ UNCHANGED <<key, ops, answer>> /\ RefusedTasks' = RefusedTasks
    BY DEF T3Applies, journal, calls, RefusedTasks
  <1>4. k \notin RefusedTasks
    BY <1>1, RefusalIsFinal DEF RefusalsAreFinal
  <1>5. ASSUME NEW j \in Keys, NEW d \in Kinds, j # k \/ d # m.kind
        PROVE  CommandOf(ops[j][d], d) # m
    <2>1. ASSUME CommandOf(ops[j][d], d) = m
          PROVE  FALSE
      <3>1. d = m.kind /\ ops[j][d].by = m.by
        BY <2>1 DEF CommandOf
      <3>2. QED
        BY <1>1, <1>5, <3>1, MintedIsThere DEF Core, ReceiptOwners, KeyOf
    <2>2. QED
      BY <2>1
  <1>6. \A j \in Keys \ {k} : T3Threads[j] # m.by /\ T3Runs[j] # m.by
    BY <1>1, DeliveredIds DEF KeyOf
  <1> HIDE DEF k
  <1>7. CASE m.kind = "create"
    <2>1. T3Runs' = T3Runs
      BY <1>3, <1>5, <1>7 DEF T3Runs, Delivered, Kinds
    <2>2. T3Threads' = [T3Threads EXCEPT ![k] = m.by]
      BY <1>1, <1>2, <1>3, <1>5, <1>7 DEF T3Threads, Delivered, Kinds
    <2>3. T3Threads[k] = NoId
      BY <1>1, <1>2, <1>7, DeliveredIds
    <2>4. \A j \in Keys : T3Threads[j] # m.by
      BY <1>1, <1>6, <2>3, IdAssumption, CallAssumption
    <2>5. QED
      BY <1>1, <1>3, <1>4, <2>1, <2>2, <2>3, <2>4, CallAssumption DEF Delivery!CreateThread
  <1>8. CASE m.kind = "turn"
    <2>1. T3Threads' = T3Threads
      BY <1>3, <1>5, <1>8 DEF T3Threads, Delivered, Kinds
    <2>2. T3Runs' = [T3Runs EXCEPT ![k] = m.by]
      BY <1>1, <1>2, <1>3, <1>5, <1>8 DEF T3Runs, Delivered, Kinds
    <2>3. T3Runs[k] = NoId
      BY <1>1, <1>2, <1>8, DeliveredIds
    <2>4. \A j \in Keys : T3Runs[j] # m.by
      BY <1>1, <1>6, <2>3, IdAssumption, CallAssumption
    <2>5. T3Threads[k] # NoId
      <3>1. ops[k]["turn"].status # "none"
        BY <1>1, <1>2, <1>8, MintedIsThere
      <3>2. CommandOf(ops[k]["create"], "create") \in applied
        BY <1>1, <3>1, ThreadIsBy DEF Ledger, ReceiptThreads, ThreadsAreBy, ThreadExists, CommandOf
      <3>3. QED
        BY <1>1, <3>2, DeliveredIds
    <2>6. QED
      BY <1>1, <1>3, <1>4, <2>1, <2>2, <2>3, <2>4, <2>5, CallAssumption DEF Delivery!StartRun
  <1>9. QED
    BY <1>1, <1>7, <1>8 DEF Kinds

\* A projection of a task's receipts is an answer the delivery allows.
AnswersHold ==
  \A k \in Keys, stored \in Stages \cup {"none"} :
    LET stage == StageOf(stored, ops[k]["create"], ops[k]["turn"]) IN
    ops[k]["create"].status # "none" \/ stored \in StoredStages =>
      /\ stage = "thread_created"    => T3Threads[k] # NoId
      /\ stage = "run_accepted"      => T3Runs[k] # NoId
      /\ stage = "dispatch_rejected" => k \in RefusedTasks /\ T3Threads[k] # NoId
      /\ stage = "rejected"          => T3Threads[k] = NoId

LEMMA ProjectionsHold ==
  /\ Core /\ Ledger => AnswersHold
  /\ (Core /\ Ledger => AnswersHold)'
  <1>1. ASSUME Core, Ledger, NEW k \in Keys, NEW stored \in Stages \cup {"none"},
               ops[k]["create"].status # "none" \/ stored \in StoredStages
        PROVE  LET stage == StageOf(stored, ops[k]["create"], ops[k]["turn"]) IN
               /\ stage = "thread_created"    => T3Threads[k] # NoId
               /\ stage = "run_accepted"      => T3Runs[k] # NoId
               /\ stage = "dispatch_rejected" => k \in RefusedTasks /\ T3Threads[k] # NoId
               /\ stage = "rejected"          => T3Threads[k] = NoId
    <2> DEFINE stage == StageOf(stored, ops[k]["create"], ops[k]["turn"])
    <2>1. /\ Telling(k, stage)
          /\ stage = "rejected" => \A m \in wire \cup applied : KeyOf(m) # k
      BY <1>1, ProjectionsTell DEF Projections
    <2> HIDE DEF stage
    <2>2. ops[k]["create"].thread = ops[k]["create"].by
      BY <1>1, ThreadIsBy DEF ThreadsAreBy
    <2>3. stage = "thread_created" => T3Threads[k] # NoId
      BY <1>1, <2>1, <2>2, DeliveredIds DEF Telling, ThreadExists, CommandOf
    <2>4. stage = "run_accepted" => T3Runs[k] # NoId
      BY <1>1, <2>1, DeliveredIds DEF Telling
    <2>5. ASSUME stage = "dispatch_rejected"
          PROVE  k \in RefusedTasks /\ T3Threads[k] # NoId
      <3>1. ops[k]["turn"].status = "rejected"
        BY <2>1, <2>5 DEF Telling
      <3>2. ThreadExists(ops[k]["create"].thread)
        BY <1>1, <3>1 DEF Ledger, ReceiptThreads
      <3>3. QED
        BY <1>1, <2>2, <3>1, <3>2, DeliveredIds
        DEF RefusedTasks, Kinds, ThreadExists, CommandOf
    <2>6. stage = "rejected" => T3Threads[k] = NoId
      <3>1. CommandOf(ops[k]["create"], "create") \in applied =>
              KeyOf(CommandOf(ops[k]["create"], "create")) = k
        BY <1>1, AppliedIsMinted DEF Core, ReceiptOwners, KeyOf, CommandOf, Kinds
      <3>2. QED
        BY <1>1, <2>1, <3>1, DeliveredIds
    <2>7. QED
      BY <2>3, <2>4, <2>5, <2>6 DEF stage
  <1>2. Core /\ Ledger => AnswersHold
    BY <1>1 DEF AnswersHold
  <1>3. QED
    BY <1>2, PTL

\* A call that answers records nothing, or what it just found in T3.
LEMMA AnswersRecord ==
  ASSUME NEW c \in Calls, CallStep(c), answer' # answer
  PROVE  ops' = ops \/ Reconcile(c)
  BY DEF CallStep, Call, GetTask, Start, Poll, BeginTask, BeginCreate, RefuseInput, Send,
         NotSent, Reply, FinishCreate, TakeBaseline, BeginTurn, FinishTurn, ReadFails,
         JournalFails, ReconcileInVain, ReadTask, Begin, Suspend, journal

LEMMA AnswersRefuseNothing ==
  ASSUME Core, Ledger, NEW c \in Calls, CallStep(c), answer' # answer
  PROVE  RefusedTasks' = RefusedTasks
  <1>1. CASE Reconcile(c)
    <2>1. Own(c).status # "rejected" /\ Learns(c)
      BY <1>1, LearnsByReconcile
      DEF Reconcile, Visible, Own, Ledger, StatusesAreTrue, Core, TypeOK
    <2>2. \A k \in Keys, d \in Kinds :
            ops'[k][d].status = IF k = key[c] /\ d = kind[c] THEN "accepted"
                                                            ELSE ops[k][d].status
      BY <1>1 DEF Reconcile, SetStatus, Core, TypeOK, Ops, Receipt
    <2>3. QED
      BY <2>1, <2>2 DEF RefusedTasks, Own
  <1>2. QED
    BY <1>1, AnswersRecord DEF RefusedTasks

\* A call's step delivers nothing.
LEMMA CallDeliversNothing ==
  ASSUME Core, Core', Ledger, Kept, NEW c \in Calls, CallStep(c)
  PROVE  T3Threads' = T3Threads /\ T3Runs' = T3Runs
  <1>1. Effect(c) /\ applied' = applied
    BY CallEffect DEF Effect, Mints, Learns, Send, t3
  <1>2. ASSUME NEW k \in Keys, NEW d \in Kinds,
               ops[k][d].status = "none", ops'[k][d].status # "none"
        PROVE  CommandOf(ops'[k][d], d) \notin applied
    <2>1. Mints(c)
      BY <1>1, <1>2, LearntOps DEF Effect, Send, journal, Own
    <2>2. PICK thread \in Ids : ops'[k][d] = NewReceipt(payload[c], c, thread)
      BY <1>2, <2>1, MintedOps
    <2>3. k = key[c] /\ c \in Starters
      BY <1>2, <2>1, MintedOps
    <2>4. ASSUME CommandOf(ops'[k][d], d) \in applied
          PROVE  FALSE
      <3> DEFINE m == CommandOf(ops'[k][d], d)
      <3>1. m \in Sent /\ m.by = c /\ m.kind = d
        BY <2>2, <2>4 DEF Sent, CommandOf, NewReceipt
      <3>2. CommandOf(ops[k][d], d) = m
        BY <2>3, <3>1 DEF Core, SentIsRecorded, KeyOf
      <3>3. ops[k][d].by = c
        BY <3>1, <3>2 DEF CommandOf
      <3>4. QED
        BY <1>2, <2>3, <3>3, MintedIsThere
    <2>5. QED
      BY <2>4
  <1>3. QED
    BY <1>1, <1>2, NothingDelivered

LEMMA CallDelivers ==
  ASSUME Core, Truth, Core', Ledger', Kept, NEW c \in Calls, CallStep(c)
  PROVE  \/ Delivery!Tell
         \/ \E k \in Keys : Delivery!Refuse(k)
         \/ UNCHANGED <<key, T3Threads, T3Runs, RefusedTasks, answer>>
  <1>1. /\ Ledger /\ TaskRecords /\ key' = key /\ key[c] \in Keys /\ kind[c] \in Kinds
        /\ T3Threads' = T3Threads /\ T3Runs' = T3Runs
        /\ answer \in [Calls -> Answers] /\ answer' \in [Calls -> Answers]
    BY CallDeliversNothing, OwnTypes DEF Truth, Kept, Core, TypeOK
  <1>2. CASE answer' # answer
    <2>1. RefusedTasks' = RefusedTasks
      BY <1>1, <1>2, AnswersRefuseNothing
    <2>2. ASSUME NEW e \in Calls, answer'[e] # answer[e]
          PROVE  Delivery!Holds(key[e], answer'[e])
      <3>1. CASE answer'[e] \in {"conflict", "error"}
        BY <3>1 DEF Delivery!Holds
      <3>2. CASE \E stored \in Stages \cup {"none"} :
                   /\ answer'[e] = StageOf(stored, ops'[key[e]]["create"], ops'[key[e]]["turn"])
                   /\ ops'[key[e]]["create"].status # "none" \/ stored \in StoredStages
        <4>1. AnswersHold' /\ key[e] \in Keys
          BY ProjectionsHold, OwnTypes
        <4>2. QED
          BY <1>1, <2>1, <3>2, <4>1 DEF AnswersHold, Delivery!Holds
      <3>3. QED
        BY <1>1, <2>2, <3>1, <3>2, CallEnds DEF Ends
    <2>3. QED
      BY <1>1, <2>1, <2>2 DEF Delivery!Tell
  <1>3. CASE answer' = answer /\ RefusedTasks' = RefusedTasks
    BY <1>1, <1>3
  <1>4. CASE answer' = answer /\ RefusedTasks' # RefusedTasks
    <2>1. PICK k \in RefusedTasks' : k \notin RefusedTasks
      BY <1>1, <1>4 DEF Kept, ReceiptKept, RefusedTasks
    <2>2. Learns(c)
      <3>1. ASSUME Mints(c)
            PROVE  \A j \in Keys, d \in Kinds :
                     ops'[j][d].status = "rejected" => ops[j][d].status = "rejected"
        <4>1. PICK thread \in Ids : \A j \in Keys, d \in Kinds :
                ops'[j][d] = IF j = key[c] /\ d = kind[c]
                             THEN NewReceipt(payload[c], c, thread) ELSE ops[j][d]
          BY <3>1, MintedOps
        <4>2. NewReceipt(payload[c], c, thread).status = "prepared"
          BY DEF NewReceipt
        <4>3. QED
          BY <4>1, <4>2
      <3>2. ~Mints(c)
        BY <2>1, <3>1 DEF RefusedTasks
      <3>3. ops' # ops
        BY <1>4 DEF RefusedTasks
      <3>4. QED
        BY <1>1, <3>2, <3>3, CallEffect DEF Effect, Send, journal
    <2>3. k = key[c] /\ RefusedTasks' = RefusedTasks \cup {k}
      <3>1. \A j \in Keys \ {key[c]}, d \in Kinds : ops'[j][d].status = ops[j][d].status
        BY <2>2, LearntOps
      <3>2. \A j \in RefusedTasks : j \in RefusedTasks'
        BY <1>1 DEF Kept, ReceiptKept, RefusedTasks
      <3>3. QED
        BY <2>1, <3>1, <3>2 DEF RefusedTasks
    <2>4. CommandOf(ops'[k]["turn"], "turn") \notin applied'
      BY <2>1, RefusalIsFinal DEF RefusalsAreFinal
    <2>5. T3Runs[k] = NoId
      BY <1>1, <2>3, <2>4 DEF T3Runs, Delivered
    <2>6. QED
      BY <1>1, <1>4, <2>3, <2>5 DEF Delivery!Refuse
  <1>5. QED
    BY <1>2, <1>3, <1>4

LEMMA NextDelivers ==
  ASSUME Core, Truth, [Next]_vars
  PROVE  [Delivery!Next]_<<key, T3Threads, T3Runs, RefusedTasks, answer>>
  <1>1. Core' /\ Ledger' /\ Kept /\ Ledger /\ ops \in Ops
    BY CoreNext, TruthNext, NextKeeps DEF Truth, Core, TypeOK
  <1>2. CASE \E c \in Calls : CallStep(c)
    BY <1>1, <1>2, CallDelivers DEF Delivery!Next
  <1>3. CASE \E m \in wire : T3Applies(m)
    BY <1>1, <1>3, AppliesDelivers DEF Delivery!Next
  <1>4. CASE \/ \E m \in wire : T3Refuses(m) \/ Lose(m)
             \/ \E t \in Starters : ForeignTurn(t) \/ TurnEnds(t)
             \/ UNCHANGED vars
    <2>1. UNCHANGED <<key, ops, applied, answer>>
      BY <1>4 DEF T3Refuses, Lose, ForeignTurn, TurnEnds, vars, journal, calls, t3
    <2>2. QED
      BY <2>1 DEF T3Threads, T3Runs, Delivered, RefusedTasks
  <1>5. CASE CrashAndRestart
    <2>1. /\ key' = key /\ applied' = applied /\ ops' = Recovered(ops)
          /\ answer' \in [Calls -> Answers]
          /\ \A e \in Calls : answer'[e] \in {answer[e], "crashed"}
      BY <1>1, <1>5 DEF CrashAndRestart, t3, Core, TypeOK
    <2>2. \A k \in Keys, d \in Kinds :
            /\ ops'[k][d].status = "none" <=> ops[k][d].status = "none"
            /\ ops'[k][d].status = "rejected" <=> ops[k][d].status = "rejected"
      BY <1>1, <2>1, RecoveredReceipts
    <2>3. T3Threads' = T3Threads /\ T3Runs' = T3Runs
      BY <1>1, <2>1, <2>2, NothingDelivered
    <2>4. RefusedTasks' = RefusedTasks
      BY <2>2 DEF RefusedTasks
    <2>5. \A e \in Calls : answer'[e] # answer[e] => Delivery!Holds(key[e], answer'[e])
      BY <2>1 DEF Delivery!Holds
    <2>6. QED
      BY <2>1, <2>3, <2>4, <2>5 DEF Delivery!Next, Delivery!Tell
  <1>6. QED
    BY <1>2, <1>3, <1>4, <1>5 DEF Next, T3Step, CallStep, Calls

LEMMA InitDelivers == Init => Delivery!Init
  <1> SUFFICES ASSUME Init PROVE Delivery!Init
    OBVIOUS
  <1>1. \A k \in Keys, d \in Kinds : ops[k][d].status = "none" /\ applied = {}
    BY DEF Init, NoOps, NoReceipt
  <1>2. QED
    BY <1>1 DEF Init, Delivery!Init, T3Threads, T3Runs, Delivered, RefusedTasks, Kinds

\* The start and the poll, with every overlap, loss and crash, deliver each task
\* as TaskDelivery says: at most one thread and one run of its own, none after
\* a refusal, and answers that tell what is so.
THEOREM TaskStartDelivers == Spec => ImplementsDelivery
  BY InitDelivers, NextDelivers, TruthInvariant, PTL
  DEF Spec, ImplementsDelivery, Delivery!Spec

-----------------------------------------------------------------------------
(* Clients that wait for a start call to end before they call again *)

Active(c) == pc[c] \notin {"idle", "done"}

Solo == \A c, e \in Starters : Active(c) /\ Active(e) => c = e

\* The call that is past its thread's creation holds what the receipt says.
Careful(c) ==
  /\ pc[c] = "baseline" => tasks[key[c]].baseline = "none"
  /\ \/ pc[c] = "result" /\ kind[c] = "create" /\ held[c] = "accepted"
     \/ pc[c] = "baseline"
     \/ pc[c] = "prepare" /\ kind[c] = "turn"
     => ops[key[c]]["create"].status = "accepted"

Alone == /\ Solo
         /\ \A c \in Starters : Careful(c)
         /\ \A k \in Keys : tasks[k].baseline # "late"

LEMMA SuspendIsCareful ==
  ASSUME Core, NEW c \in Starters, NEW where, NEW d, NEW status, Suspend(c, where, d, status),
         where = "baseline" => tasks'[key[c]].baseline = "none",
         \/ where = "result" /\ d = "create" /\ status = "accepted"
         \/ where = "baseline"
         \/ where = "prepare" /\ d = "turn"
         => ops'[key[c]]["create"].status = "accepted"
  PROVE  Careful(c)'
  <1>1. /\ pc'[c] = where /\ kind'[c] = d /\ held'[c] = status /\ key' = key
    BY SuspendFrame DEF Core, Calls
  <1>2. QED
    BY <1>1 DEF Careful

LEMMA FinishIsCareful ==
  ASSUME Core, NEW c \in Starters, NEW what, Finish(c, what)
  PROVE  Careful(c)'
  <1>1. pc'[c] = "done"
    BY DEF Finish, Core, TypeOK, Calls
  <1>2. QED
    BY <1>1 DEF Careful

LEMMA ChildIsCareful ==
  ASSUME Core, ops' = ops, NEW c \in Starters, NEW d \in Kinds, EnterChild(c, d) \/ Reuse(c, d),
         d = "turn" => ops[key[c]]["create"].status = "accepted"
  PROVE  Careful(c)'
  <1>1. CASE Suspend(c, "prepare", d, "none")
    BY <1>1, SuspendIsCareful
  <1>2. CASE Reuse(c, d)
    <2>1. CASE Finish(c, "conflict")
      BY <2>1, FinishIsCareful
    <2>2. CASE \E where \in {"result", "reconcile"} :
                 Suspend(c, where, d, ops[key[c]][d].status)
      BY <2>2, SuspendIsCareful
    <2>3. QED
      BY <1>2, <2>1, <2>2 DEF Reuse
  <1>3. QED
    BY <1>1, <1>2 DEF EnterChild

LEMMA StartIsCareful ==
  ASSUME Core, Truth, NEW c \in Starters, Careful(c), Call(c) \/ Start(c)
  PROVE  Careful(c)'
  <1>1. /\ c \in Calls /\ key[c] \in Keys /\ kind[c] \in Kinds /\ Standing(c) /\ ops \in Ops
        /\ tasks \in [Keys -> Task] /\ "create" \in Kinds /\ "turn" \in Kinds
    BY OwnTypes DEF Calls, Truth, Kinds, Core, TypeOK, Tasks
  <1>2. CASE Call(c) \/ Send(c) \/ NotSent(c)
    BY <1>2, SuspendIsCareful DEF Call, Send, NotSent
  <1>3. CASE BeginTask(c)
    BY <1>1, <1>3, ChildIsCareful, FinishIsCareful DEF BeginTask
  <1>4. CASE BeginCreate(c)
    BY <1>1, <1>4, ChildIsCareful, SuspendIsCareful DEF BeginCreate, Begin
  <1>5. CASE RefuseInput(c) \/ FinishTurn(c) \/ ReadFails(c) \/ JournalFails(c)
    BY <1>5, FinishIsCareful DEF RefuseInput, FinishTurn, ReadFails, JournalFails,
                                 FinishWithStage
  <1>6. CASE Reply(c)
    <2>1. PICK s \in Outcomes(OwnCommand(c)) :
            SetStatus(c, kind[c], s) /\ Suspend(c, "result", kind[c], s)
      BY <1>6 DEF Reply, OwnCommand, Own
    <2>2. s \in Statuses
      BY <2>1 DEF Outcomes, Statuses, Pending, Settled
    <2>3. ops'[key[c]][kind[c]].status = s
      BY <1>1, <2>1, <2>2, SetStatusEffect DEF Core
    <2>4. QED
      BY <2>1, <2>3, SuspendIsCareful
  <1>7. CASE FinishCreate(c)
    <2>1. /\ pc[c] = "result" /\ kind[c] = "create" /\ ops' = ops
          /\ \/ \E what : Finish(c, what)
             \/ /\ held[c] = "accepted" /\ tasks[key[c]].baseline = "none"
                /\ Suspend(c, "baseline", "create", held[c])
             \/ held[c] = "accepted" /\ EnterChild(c, "turn")
      BY <1>7, Zenon DEF FinishCreate, FinishWithStage
    <2>2. tasks'[key[c]].baseline = tasks[key[c]].baseline
      <3>1. PICK stage, thread :
              tasks'[key[c]] = [[tasks[key[c]] EXCEPT !.stage = stage] EXCEPT !.thread = thread]
        BY <1>1, <1>7 DEF FinishCreate
      <3>2. tasks[key[c]] \in Task
        BY <1>1
      <3>3. QED
        BY <3>1, <3>2 DEF Task
    <2>3. held[c] = "accepted" => ops[key[c]]["create"].status = "accepted"
      BY <2>1 DEF Careful
    <2>4. QED
      BY <1>1, <2>1, <2>2, <2>3, FinishIsCareful, SuspendIsCareful, ChildIsCareful
  <1>8. CASE TakeBaseline(c)
    BY <1>1, <1>8, ChildIsCareful DEF TakeBaseline, Careful
  <1>9. CASE BeginTurn(c)
    <2>1. pc[c] = "prepare" /\ kind[c] = "turn" /\ ops[key[c]]["create"].status = "accepted"
      BY <1>9 DEF BeginTurn, Careful
    <2>2. CASE \E thread : Suspend(c, "dispatch", "turn", "prepared")
      BY <2>2, SuspendIsCareful
    <2>3. CASE Reuse(c, "turn") /\ ops' = ops
      BY <1>1, <2>1, <2>3, ChildIsCareful
    <2>4. CASE \E what : Finish(c, what)
      BY <2>4, FinishIsCareful
    <2>5. QED
      BY <1>9, <2>2, <2>3, <2>4, Zenon DEF BeginTurn, Begin, FinishWithStage
  <1>10. CASE Reconcile(c)
    <2>1. SetStatus(c, kind[c], "accepted") /\ Suspend(c, "result", kind[c], "accepted")
      BY <1>10, CallAssumption DEF Reconcile, AfterReconcile
    <2>2. ops'[key[c]][kind[c]].status = "accepted"
      BY <1>1, <2>1, SetStatusEffect DEF Core, Statuses, Settled
    <2>3. QED
      BY <2>1, <2>2, SuspendIsCareful
  <1>11. CASE ReconcileInVain(c)
    <2>1. Suspend(c, "result", kind[c], held[c]) /\ pc[c] = "reconcile"
      BY <1>11, CallAssumption DEF ReconcileInVain, AfterReconcile
    <2>2. held[c] # "accepted"
      BY <1>1, <2>1 DEF Standing, Pending
    <2>3. QED
      BY <2>1, <2>2, SuspendIsCareful
  <1>12. QED
    BY <1>2, <1>3, <1>4, <1>5, <1>6, <1>7, <1>8, <1>9, <1>10, <1>11 DEF Start

\* A poll takes no acceptance back and no baseline.
LEMMA PollIsHarmless ==
  ASSUME Core, NEW g \in Getters, GetTask(g) \/ Poll(g)
  PROVE  \A k \in Keys : ops[k]["create"].status = "accepted" =>
           ops'[k]["create"].status = "accepted"
  <1>1. key[g] \in Keys /\ kind[g] \in Kinds /\ ops \in Ops /\ "accepted" \in Statuses
    BY OwnTypes DEF Calls, Statuses, Settled
  <1>2. ops' = ops \/ SetStatus(g, kind[g], "accepted")
    BY DEF GetTask, Poll, ReadTask, Reconcile, ReconcileInVain, JournalFails, journal
  <1>3. CASE SetStatus(g, kind[g], "accepted")
    <2>1. ASSUME NEW k \in Keys
          PROVE  ops'[k]["create"].status \in {"accepted", ops[k]["create"].status}
      BY <1>1, <1>3, PatchedStatus DEF SetStatus, Kinds
    <2>2. QED
      BY <2>1
  <1>4. QED
    BY <1>2, <1>3

LEMMA AloneNext ==
  ASSUME ~Overlap, Core, Truth, Alone, [Next]_vars
  PROVE  Alone'
  <1>1. /\ Core' /\ Truth' /\ Ledger /\ TaskRecords /\ Kept /\ key' = key
        /\ Ledger' /\ pc \in [Calls -> PCs]
    BY CoreNext, TruthNext, NextKeeps DEF Truth, Kept, Core, TypeOK
  <1>2. ASSUME NEW c \in Calls, CallStep(c)
        PROVE  Alone'
    <2>1. TaskEffect(c)
      BY <1>1, <1>2, CallTask
    <2>2. \A e \in Calls \ {c} :
            pc'[e] = pc[e] /\ kind'[e] = kind[e] /\ held'[e] = held[e]
      BY <1>2, CallMovesAlone
    <2>3. ASSUME NEW k \in Keys, tasks'[k].baseline = "late"
          PROVE  FALSE
      <3>1. /\ k = key[c] /\ pc[c] = "baseline"
            /\ CommandOf(ops[k]["turn"], "turn") \in applied
        BY <2>1, <2>3, OwnTask DEF Alone
      <3>2. ops[k]["turn"].status # "none"
        BY <3>1, AppliedIsMinted DEF Kinds
      <3>3. c \in Starters
        BY <3>1 DEF Core, CallsHoldReceipts, HoldsReceipt, Calls
      <3>4. tasks[k].baseline = "none"
        BY <3>1, <3>3 DEF Alone, Careful
      <3>5. QED
        BY <1>1, <3>2, <3>4 DEF TaskRecords
    <2>4. CASE c \in Starters /\ (Call(c) \/ Start(c))
      <3>1. \A e \in Starters \ {c} : ~Active(e) /\ pc'[e] = pc[e] /\ pc[e] \in {"idle", "done"}
        <4>1. ASSUME NEW e \in Starters \ {c}
              PROVE  pc[e] \in {"idle", "done"}
          <5>1. CASE Call(c)
            BY <5>1 DEF Call
          <5>2. CASE Start(c)
            <6>1. Active(c)
              BY <5>2 DEF Start, Active, BeginTask, BeginCreate, RefuseInput, Send, NotSent,
                 Reply, FinishCreate, TakeBaseline, BeginTurn, FinishTurn, ReadFails,
                 JournalFails, Reconcile, ReconcileInVain
            <6>2. QED
              BY <2>4, <6>1 DEF Alone, Solo, Active
          <5>3. QED
            BY <2>4, <5>1, <5>2
        <4>2. QED
          BY <2>2, <4>1 DEF Active, Calls
      <3>2. Solo'
        BY <3>1 DEF Solo, Active
      <3>3. ASSUME NEW e \in Starters
            PROVE  Careful(e)'
        <4>1. CASE e = c
          BY <2>4, <4>1, StartIsCareful DEF Alone
        <4>2. CASE e # c
          BY <3>1, <4>2 DEF Careful
        <4>3. QED
          BY <4>1, <4>2
      <3>4. QED
        BY <2>3, <3>2, <3>3 DEF Alone
    <2>5. CASE c \in Getters /\ (GetTask(c) \/ Poll(c))
      <3>1. \A e \in Starters :
              e \in Calls /\ pc'[e] = pc[e] /\ kind'[e] = kind[e] /\ held'[e] = held[e]
        BY <2>2, <2>5, CallAssumption DEF Calls
      <3>2. Solo'
        BY <3>1 DEF Alone, Solo, Active
      <3>3. pc[c] # "baseline"
        BY <2>5 DEF Core, CallsHoldReceipts, HoldsReceipt
      <3>4. \A k \in Keys : tasks[k].baseline = "none" => tasks'[k].baseline = "none"
        BY <2>1, <3>3, OwnTask
      <3>5. ASSUME NEW e \in Starters
            PROVE  Careful(e)'
        <4>1. Careful(e) /\ key[e] \in Keys
          BY <3>1, OwnTypes DEF Alone
        <4>2. QED
          BY <1>1, <2>5, <3>1, <3>4, <4>1, PollIsHarmless DEF Careful
      <3>6. QED
        BY <2>3, <3>2, <3>5 DEF Alone
    <2>6. QED
      BY <1>2, <2>4, <2>5 DEF CallStep
  <1>3. CASE T3Step \/ UNCHANGED vars
    <2>1. UNCHANGED <<tasks, ops, pc, kind, held, key>>
      BY <1>3 DEF T3Step, T3Applies, T3Refuses, Lose, ForeignTurn, TurnEnds, vars, calls, journal
    <2>2. QED
      BY <2>1 DEF Alone, Solo, Active, Careful
  <1>4. CASE CrashAndRestart
    <2>1. /\ \A e \in Starters : pc'[e] \in {"idle", "done"}
          /\ tasks' = tasks
      BY <1>4 DEF CrashAndRestart, Calls
    <2>2. QED
      BY <2>1 DEF Alone, Solo, Active, Careful
  <1>5. QED
    BY <1>2, <1>3, <1>4 DEF Next, CallStep, Calls

LEMMA AloneInit == Init => Alone
  <1> SUFFICES ASSUME Init PROVE Alone
    OBVIOUS
  <1>1. \A c \in Starters : pc[c] = "idle"
    BY DEF Init, Calls
  <1>2. \A k \in Keys : tasks[k].baseline # "late"
    BY DEF Init, NoTasks, NoTask
  <1>3. QED
    BY <1>1, <1>2 DEF Alone, Solo, Active, Careful

LEMMA AloneInvariant ==
  ASSUME ~Overlap
  PROVE  Spec => [](Core /\ Truth /\ Alone)
  <1>1. Core /\ Truth /\ Alone /\ [Next]_vars => Alone'
    BY AloneNext
  <1>2. QED
    BY <1>1, AloneInit, TruthInvariant, PTL DEF Spec

\* For clients that do not overlap their calls, the review baseline is taken in
\* a thread that T3 has and before T3 has the task's run.
THEOREM BaselineComesFirst ==
  ASSUME ~Overlap
  PROVE  Spec => []BaselinePrecedesRun
  <1>1. Core /\ Truth /\ Alone => BaselinePrecedesRun
    BY DEF Alone, Truth, TaskRecords, BaselinePrecedesRun
  <1>2. QED
    BY <1>1, AloneInvariant, PTL

\* For clients that do not overlap their calls, the turn is only begun once the
\* thread's creation is recorded as accepted.
THEOREM TurnAwaitsItsThread ==
  ASSUME ~Overlap
  PROVE  Spec => TurnAwaitsCreate
  <1>1. ASSUME Core, Truth, Alone, [Next]_vars, NEW k \in Keys,
               ops[k]["turn"].status = "none", ops'[k]["turn"].status # "none"
        PROVE  ops[k]["create"].status = "accepted"
    <2>1. ops \in Ops /\ Ledger
      BY <1>1 DEF Core, TypeOK, Truth
    <2>2. ~CrashAndRestart
      BY <1>1, <2>1, RecoveredReceipts DEF CrashAndRestart, Kinds
    <2>3. ~T3Step /\ ~(UNCHANGED vars)
      BY <1>1 DEF T3Step, T3Applies, T3Refuses, Lose, ForeignTurn, TurnEnds, vars, journal
    <2>4. PICK c \in Calls : CallStep(c)
      BY <1>1, <2>2, <2>3 DEF Next, CallStep, Calls
    <2>5. Mints(c)
      BY <1>1, <2>1, <2>4, CallEffect, LearntOps DEF Effect, Send, journal, Own, Kinds
    <2>6. k = key[c] /\ kind[c] = "turn"
      BY <1>1, <2>5, MintedOps DEF Kinds
    <2>7. QED
      BY <1>1, <2>5, <2>6 DEF Mints, Alone, Careful
  <1>2. Core /\ Truth /\ Alone /\ [Next]_vars =>
          [\A k \in Keys :
             ops[k]["turn"].status = "none" /\ ops'[k]["turn"].status # "none"
             => ops[k]["create"].status = "accepted"]_vars
    BY <1>1
  <1>3. QED
    BY <1>2, AloneInvariant, PTL DEF Spec, TurnAwaitsCreate
=============================================================================
