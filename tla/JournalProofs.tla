--------------------------- MODULE JournalProofs ---------------------------
(***************************************************************************)
(* The journal's properties, for every set of keys, payloads and minters.  *)
(* The invariant says what the operation holding the mutex is about to     *)
(* write: a recovery of the file, or one operation applied to the file;    *)
(* and, once renamed, exactly what the file holds.                         *)
(*                                                                         *)
(* The second half is about FailureEvidence, for any number of calls,      *)
(* reads, changes and crashes: what the rules on orders and rows yield,    *)
(* whether recording a view turns the row (Turns), and that the row always *)
(* rests on a view it agrees with (EvidenceInv).                           *)
(***************************************************************************)
EXTENDS OperationJournal, FailureEvidence, TLAPS

-----------------------------------------------------------------------------
(* The rules of Receipts map journal content to journal content. *)

LEMMA NewReceiptType ==
  ASSUME NEW p \in Payloads, NEW by \in Ids, NEW thread \in Ids
  PROVE  NewReceipt(p, by, thread) \in Receipt
  BY DEF NewReceipt, Receipt, Statuses, Pending

LEMMA StageOfType ==
  ASSUME NEW stored \in Stages \cup {"none"}, NEW create \in Receipt,
         NEW turn \in Receipt
  PROVE  StageOf(stored, create, turn) \in Stages \cup {"none"}
  BY DEF StageOf, Receipt, Stages, Pending, Statuses, Settled

LEMMA RefreshedType ==
  ASSUME NEW task \in Task, NEW pair \in [Kinds -> Receipt]
  PROVE  Refreshed(task, pair) \in Task
  <1>1. pair["create"] \in Receipt /\ pair["turn"] \in Receipt
    BY DEF Kinds
  <1>2. StageOf(task.stage, pair["create"], pair["turn"]) \in Stages \cup {"none"}
    BY <1>1, StageOfType DEF Task
  <1>3. QED
    BY <1>1, <1>2 DEF Refreshed, Task, Receipt

LEMMA RecoveredType ==
  ASSUME NEW o \in Ops
  PROVE  Recovered(o) \in Ops
  <1>1. ASSUME NEW k \in Keys, NEW d \in Kinds
        PROVE  (IF o[k][d].status = "prepared"
                THEN [o[k][d] EXCEPT !.status = "uncertain"]
                ELSE o[k][d]) \in Receipt
    <2>1. o[k][d] \in Receipt
      BY DEF Ops
    <2>2. QED
      BY <2>1 DEF Receipt, Statuses, Pending
  <1>2. QED
    BY <1>1 DEF Recovered, Ops

\* What was recovered holds no prepared receipt, and a content without one is
\* its own recovery.
LEMMA RecoveredIsStable ==
  ASSUME NEW o \in Ops, \A k \in Keys, d \in Kinds : o[k][d].status # "prepared"
  PROVE  Recovered(o) = o
  <1>1. o = [k \in Keys |-> [d \in Kinds |-> o[k][d]]]
    BY DEF Ops
  <1>2. QED
    BY <1>1 DEF Recovered

LEMMA RecoveredHasNoPrepared ==
  ASSUME NEW o \in Ops, NEW k \in Keys, NEW d \in Kinds
  PROVE  Recovered(o)[k][d].status # "prepared"
  <1>1. o[k][d] \in Receipt
    BY DEF Ops
  <1>2. QED
    BY <1>1 DEF Recovered, Receipt

-----------------------------------------------------------------------------

\* Before the rename, writing the candidate is one abstract step.
CandidateFits ==
  step \in {"create", "write", "rename"} =>
    IF copy = Unopened
    THEN candidate = [file EXCEPT !.ops = Recovered(@)]
    ELSE Durable!Writes(file, candidate)

\* After it, memory is about to be given what the file holds.
AssignsTheFile ==
  step = "assign" =>
    /\ candidate = file
    /\ copy = Unopened => ~HasPrepared(file.ops)

JournalInv ==
  TypeOK /\ FileIsWhole /\ CopyIsDurable /\ CandidateFits /\ AssignsTheFile

-----------------------------------------------------------------------------
LEMMA NewBookType == NewBook \in Books
  BY DEF NewBook, Books, NoOps, NoTasks, Ops, Tasks, NoReceipt, NoTask,
         Receipt, Task, Ids, Baselines

\* The abstract journal is stated over the same data.
LEMMA SameData ==
  /\ Durable!NewBook = NewBook
  /\ \A o : Durable!Recovered(o) = Recovered(o)
  /\ \A o : Durable!Prepared(o) = HasPrepared(o)
  /\ \A task, pair : Durable!Refreshed(task, pair) = Refreshed(task, pair)
  BY DEF Durable!NewBook, NewBook, Durable!Recovered, Recovered,
         Durable!Prepared, HasPrepared, Durable!Refreshed, Refreshed,
         Durable!StageOf, StageOf, Durable!Pending, Pending, Durable!NoOps, NoOps,
         Durable!NoTasks, NoTasks, Durable!NoReceipt, NoReceipt, Durable!NoTask,
         NoTask, Durable!Kinds, Kinds

LEMMA BookParts ==
  ASSUME NEW b \in Books, NEW k \in Keys, NEW d \in Kinds
  PROVE  b.ops \in Ops /\ b.tasks \in Tasks /\ b.ops[k] \in [Kinds -> Receipt]
         /\ b.ops[k][d] \in Receipt
  BY DEF Books, Ops, Tasks

LEMMA TaskPart ==
  ASSUME NEW b \in Books, NEW k \in Keys
  PROVE  b.tasks[k] \in Task
  BY DEF Books, Tasks

LEMMA PatchedTaskBook ==
  ASSUME NEW b \in Books, NEW k \in Keys, NEW task \in Task
  PROVE  [b EXCEPT !.tasks[k] = task] \in Books
  <1> DEFINE new == [b.tasks EXCEPT ![k] = task]
  <1>1. new \in Tasks
    BY DEF Books, Tasks
  <1>2. [b EXCEPT !.tasks = new] \in Books
    <2> HIDE DEF new
    <2> QED BY <1>1 DEF Books
  <1>3. QED
    BY <1>2

LEMMA PatchedReceiptBook ==
  ASSUME NEW b \in Books, NEW k \in Keys, NEW d \in Kinds, NEW made \in Receipt
  PROVE  [b EXCEPT !.ops[k][d] = made] \in Books
  <1> DEFINE pair == [b.ops[k] EXCEPT ![d] = made]
             new == [b.ops EXCEPT ![k] = pair]
  <1>1. pair \in [Kinds -> Receipt]
    BY BookParts
  <1>2. new \in Ops
    <2> HIDE DEF pair
    <2> QED BY <1>1, BookParts DEF Ops
  <1>3. [b EXCEPT !.ops = new] \in Books
    <2> HIDE DEF new
    <2> QED BY <1>2 DEF Books
  <1>4. QED
    BY <1>3

LEMMA RecoveredBook ==
  ASSUME NEW b \in Books
  PROVE  /\ [b EXCEPT !.ops = Recovered(@)] \in Books
         /\ ~HasPrepared([b EXCEPT !.ops = Recovered(@)].ops)
         /\ ~HasPrepared(b.ops) => [b EXCEPT !.ops = Recovered(@)] = b
  <1> DEFINE new == Recovered(b.ops)
  <1>1. b.ops \in Ops
    BY DEF Books
  <1>2. new \in Ops
    BY <1>1, RecoveredType
  <1>3. \A k \in Keys, d \in Kinds : new[k][d].status # "prepared"
    BY <1>1, RecoveredHasNoPrepared
  <1>4. ~HasPrepared(b.ops) => new = b.ops
    BY <1>1, RecoveredIsStable DEF HasPrepared
  <1> HIDE DEF new
  <1>5. [b EXCEPT !.ops = new] \in Books /\ [b EXCEPT !.ops = new].ops = new
    BY <1>2 DEF Books
  <1>6. new = b.ops => [b EXCEPT !.ops = new] = b
    BY DEF Books
  <1>7. ~HasPrepared(new)
    BY <1>3 DEF HasPrepared
  <1>8. /\ [b EXCEPT !.ops = new] \in Books
        /\ ~HasPrepared([b EXCEPT !.ops = new].ops)
        /\ ~HasPrepared(b.ops) => [b EXCEPT !.ops = new] = b
    BY <1>4, <1>5, <1>6, <1>7
  <1>9. QED
    BY <1>8 DEF new

-----------------------------------------------------------------------------
(* Every operation proposes a journal that one abstract write reaches. *)

\* What an operation leaves for persist to do.
Proposed ==
  /\ candidate' \in Books /\ Durable!Writes(copy, candidate')
  /\ step = "idle" /\ step' = "create" /\ copy # Unopened
  /\ UNCHANGED <<copy, file>>

LEMMA OpenedCopy == ASSUME TypeOK, copy # Unopened PROVE copy \in Books
  BY DEF TypeOK

LEMMA BeginProposes ==
  ASSUME TypeOK, NEW k \in Keys, NEW d \in Kinds, NEW p \in Payloads,
         NEW m \in Minters, NEW t \in Minters, Begin(k, d, p, m, t)
  PROVE  Proposed
  <1> DEFINE made == NewReceipt(p, m, t)
  <1>1. made \in Receipt
    BY NewReceiptType DEF Ids
  <1>2. /\ copy \in Books /\ copy.ops[k][d].status = "none"
        /\ candidate' = [copy EXCEPT !.ops[k][d] = made]
        /\ made = Durable!NewReceipt(p, m, t) /\ d \in Durable!Kinds
    BY OpenedCopy DEF Begin, Propose, NewReceipt, Durable!NewReceipt, Kinds, Durable!Kinds
  <1> HIDE DEF made
  <1>3. candidate' \in Books
    BY <1>1, <1>2, PatchedReceiptBook
  <1>4. Durable!Begins(copy, candidate')
    BY <1>2 DEF Durable!Begins
  <1>5. QED
    BY <1>3, <1>4 DEF Proposed, Durable!Writes, Begin, Propose

LEMMA BeginTaskProposes ==
  ASSUME TypeOK, NEW k \in Keys, NEW p \in Payloads, BeginTask(k, p)
  PROVE  Proposed
  <1> DEFINE task == NewTask(p)
  <1>1. task \in Task
    BY DEF NewTask, NoTask, Task, Stages, Ids, Baselines
  <1>2. /\ copy \in Books /\ copy.tasks[k].stage = "none"
        /\ candidate' = [copy EXCEPT !.tasks[k] = task]
        /\ task = Durable!NewTask(p)
    BY OpenedCopy DEF BeginTask, Propose, NewTask, Durable!NewTask, NoTask, Durable!NoTask
  <1> HIDE DEF task
  <1>3. candidate' \in Books
    BY <1>1, <1>2, PatchedTaskBook
  <1>4. Durable!BeginsTask(copy, candidate')
    BY <1>2 DEF Durable!BeginsTask
  <1>5. QED
    BY <1>3, <1>4 DEF Proposed, Durable!Writes, BeginTask, Propose

LEMMA UpdateProposes ==
  ASSUME TypeOK, NEW k \in Keys, NEW d \in Kinds,
         NEW s \in Statuses \ {"prepared"}, Update(k, d, s)
  PROVE  Proposed
  <1> DEFINE made == [copy.ops[k][d] EXCEPT !.status = s]
  <1>1. copy \in Books /\ copy.ops[k][d].status # "none"
    BY OpenedCopy DEF Update, Propose
  <1>2. made \in Receipt
    BY <1>1, BookParts DEF Receipt
  <1>3. candidate' = [copy EXCEPT !.ops[k][d].status = s]
    BY DEF Update, Propose
  <1>4. candidate' = [copy EXCEPT !.ops[k][d] = made]
    BY <1>3
  <1> HIDE DEF made
  <1>5. candidate' \in Books
    BY <1>1, <1>2, <1>4, PatchedReceiptBook
  <1>6. d \in Durable!Kinds /\ s \in Durable!Statuses \ {"prepared"}
    BY DEF Kinds, Durable!Kinds, Statuses, Durable!Statuses, Pending,
           Durable!Pending, Settled, Durable!Settled
  <1>7. Durable!Updates(copy, candidate')
    BY <1>1, <1>3, <1>6 DEF Durable!Updates
  <1>8. QED
    BY <1>5, <1>7 DEF Proposed, Durable!Writes, Update, Propose

LEMMA UpdateTaskStageProposes ==
  ASSUME TypeOK, NEW k \in Keys, NEW s \in Stages, NEW t \in Ids, NEW r \in Ids,
         UpdateTaskStage(k, s, t, r)
  PROVE  Proposed
  <1> DEFINE task == [copy.tasks[k] EXCEPT !.stage = s, !.thread = t, !.run = r]
  <1>1. copy \in Books /\ copy.tasks[k].stage # "none"
    BY OpenedCopy DEF UpdateTaskStage, Propose
  <1>2. task \in Task
    BY <1>1, TaskPart DEF Task
  <1>3. candidate' = [copy EXCEPT !.tasks[k].stage = s, !.tasks[k].thread = t,
                                  !.tasks[k].run = r]
    BY DEF UpdateTaskStage, Propose
  <1>4. copy.tasks \in [Keys -> Task] /\ copy \in [ops : Ops, tasks : Tasks]
    BY <1>1 DEF Books, Tasks
  <1>5. candidate' = [copy EXCEPT !.tasks[k] = task]
    BY <1>3, <1>4
  <1> HIDE DEF task
  <1>6. candidate' \in Books
    BY <1>1, <1>2, <1>5, PatchedTaskBook
  <1>7. s \in Durable!Stages /\ t \in Durable!Ids /\ r \in Durable!Ids
    BY DEF Stages, Durable!Stages, Ids, Durable!Ids
  <1>8. Durable!UpdatesTask(copy, candidate')
    BY <1>1, <1>3, <1>7 DEF Durable!UpdatesTask
  <1>9. QED
    BY <1>6, <1>8 DEF Proposed, Durable!Writes, UpdateTaskStage, Propose

LEMMA UpdateTaskBaselineProposes ==
  ASSUME TypeOK, NEW k \in Keys, NEW a \in Baselines \ {"none"},
         UpdateTaskBaseline(k, a)
  PROVE  Proposed
  <1> DEFINE task == [copy.tasks[k] EXCEPT !.baseline = a]
  <1>1. copy \in Books /\ copy.tasks[k].stage # "none"
    BY OpenedCopy DEF UpdateTaskBaseline, Propose
  <1>2. task \in Task
    BY <1>1, TaskPart DEF Task
  <1>3. candidate' = [copy EXCEPT !.tasks[k].baseline = a]
    BY DEF UpdateTaskBaseline, Propose
  <1>4. candidate' = [copy EXCEPT !.tasks[k] = task]
    BY <1>3
  <1> HIDE DEF task
  <1>5. candidate' \in Books
    BY <1>1, <1>2, <1>4, PatchedTaskBook
  <1>6. a \in Durable!Baselines \ {"none"}
    BY DEF Baselines, Durable!Baselines
  <1>7. Durable!UpdatesTask(copy, candidate')
    BY <1>1, <1>3, <1>6 DEF Durable!UpdatesTask
  <1>8. QED
    BY <1>5, <1>7 DEF Proposed, Durable!Writes, UpdateTaskBaseline, Propose

LEMMA RefreshTaskProposes ==
  ASSUME TypeOK, NEW k \in Keys, RefreshTask(k)
  PROVE  Proposed
  <1> DEFINE task == Refreshed(copy.tasks[k], copy.ops[k])
  <1>1. copy \in Books /\ copy.tasks[k].stage # "none"
    BY OpenedCopy DEF RefreshTask, Propose
  <1>2. copy.tasks[k] \in Task /\ copy.ops[k] \in [Kinds -> Receipt]
    BY <1>1, BookParts DEF Books, Ops, Tasks
  <1>3. task \in Task
    BY <1>2, RefreshedType
  <1>4. task = Durable!Refreshed(copy.tasks[k], copy.ops[k])
    BY SameData
  <1>5. candidate' = [copy EXCEPT !.tasks[k] = task]
    BY DEF RefreshTask, Propose
  <1> HIDE DEF task
  <1>6. candidate' \in Books
    BY <1>1, <1>3, <1>5, PatchedTaskBook
  <1>7. Durable!RefreshesTask(copy, candidate')
    BY <1>1, <1>4, <1>5 DEF Durable!RefreshesTask
  <1>8. QED
    BY <1>6, <1>7 DEF Proposed, Durable!Writes, RefreshTask, Propose

LEMMA OperationProposes ==
  ASSUME TypeOK, Operation
  PROVE  Proposed
  BY BeginProposes, BeginTaskProposes, UpdateProposes, UpdateTaskStageProposes,
     UpdateTaskBaselineProposes, RefreshTaskProposes DEF Operation

-----------------------------------------------------------------------------
(* Every step keeps the invariant. *)

LEMMA InitJournalInv == Init => JournalInv
  BY NewBookType, JournalAssumption
  DEF Init, JournalInv, TypeOK, Steps, FileIsWhole, CopyIsDurable, CandidateFits,
      AssignsTheFile

LEMMA LoadKeepsInv ==
  ASSUME JournalInv, Load
  PROVE  JournalInv'
  <1> DEFINE new == [file EXCEPT !.ops = Recovered(@)]
  <1>1. file \in Books
    BY DEF JournalInv, TypeOK, FileIsWhole
  <1>2. new \in Books /\ (~HasPrepared(file.ops) => new = file)
    BY <1>1, RecoveredBook
  <1>3. /\ copy = Unopened /\ copy' = copy /\ file' = file /\ candidate' = new
        /\ step' = IF HasPrepared(file.ops) THEN "create" ELSE "assign"
    BY DEF Load
  <1> HIDE DEF new
  <1>4. TypeOK' /\ FileIsWhole' /\ CopyIsDurable'
    BY <1>2, <1>3 DEF JournalInv, TypeOK, Steps, FileIsWhole, CopyIsDurable
  <1>5. CandidateFits'
    BY <1>3 DEF CandidateFits, new
  <1>6. AssignsTheFile'
    BY <1>2, <1>3 DEF AssignsTheFile
  <1>7. QED
    BY <1>4, <1>5, <1>6 DEF JournalInv

LEMMA OperationKeepsInv ==
  ASSUME JournalInv, Operation
  PROVE  JournalInv'
  <1>1. Proposed
    BY OperationProposes DEF JournalInv
  <1>2. copy = file
    BY <1>1 DEF JournalInv, CopyIsDurable, Proposed
  <1>3. TypeOK' /\ FileIsWhole' /\ CopyIsDurable' /\ AssignsTheFile'
    BY <1>1 DEF JournalInv, Proposed, TypeOK, Steps, FileIsWhole, CopyIsDurable,
                AssignsTheFile
  <1>4. Durable!Writes(file, candidate)'
    BY <1>1, <1>2 DEF Proposed
  <1>5. CandidateFits'
    BY <1>1, <1>4 DEF CandidateFits, Proposed
  <1>6. QED
    BY <1>3, <1>5 DEF JournalInv

LEMMA WritingKeepsInv ==
  ASSUME JournalInv, CreateTemp \/ WriteTemp
  PROVE  JournalInv'
  <1>1. /\ step \in {"create", "write"} /\ step' \in {"write", "rename"}
        /\ copy' = copy /\ file' = file /\ candidate' = candidate
    BY DEF CreateTemp, WriteTemp
  <1>2. CandidateFits'
    BY <1>1 DEF JournalInv, CandidateFits
  <1>3. QED
    BY <1>1, <1>2 DEF JournalInv, TypeOK, Steps, FileIsWhole, CopyIsDurable,
                      AssignsTheFile

LEMMA RenameKeepsInv ==
  ASSUME JournalInv, Rename
  PROVE  JournalInv'
  <1> DEFINE new == [file EXCEPT !.ops = Recovered(@)]
  <1>1. file \in Books /\ candidate \in Books
    BY DEF JournalInv, TypeOK, FileIsWhole
  <1>2. ~HasPrepared(new.ops)
    BY <1>1, RecoveredBook
  <1>3. copy = Unopened => candidate = new
    BY DEF JournalInv, CandidateFits, Rename
  <1>4. /\ step' = "assign" /\ copy' = copy /\ file' = candidate
        /\ candidate' = candidate
    BY DEF Rename
  <1> HIDE DEF new
  <1>5. AssignsTheFile'
    BY <1>2, <1>3, <1>4 DEF AssignsTheFile
  <1>6. TypeOK' /\ FileIsWhole' /\ CopyIsDurable' /\ CandidateFits'
    BY <1>1, <1>4, JournalAssumption
    DEF JournalInv, TypeOK, Steps, FileIsWhole, CopyIsDurable, CandidateFits
  <1>7. QED
    BY <1>5, <1>6 DEF JournalInv

LEMMA PersistFailsKeepsInv ==
  ASSUME JournalInv, PersistFails
  PROVE  JournalInv'
  BY DEF JournalInv, PersistFails, TypeOK, Steps, FileIsWhole, CopyIsDurable,
         CandidateFits, AssignsTheFile

LEMMA AssignKeepsInv ==
  ASSUME JournalInv, Assign
  PROVE  JournalInv'
  BY DEF JournalInv, Assign, TypeOK, Steps, FileIsWhole, CopyIsDurable,
         CandidateFits, AssignsTheFile

LEMMA CrashKeepsInv ==
  ASSUME JournalInv, Crash
  PROVE  JournalInv'
  BY DEF JournalInv, Crash, TypeOK, Steps, FileIsWhole, CopyIsDurable,
         CandidateFits, AssignsTheFile

LEMMA StutterKeepsInv ==
  ASSUME JournalInv, UNCHANGED vars
  PROVE  JournalInv'
  <1>1. copy' = copy /\ file' = file /\ step' = step /\ candidate' = candidate
    BY DEF vars
  <1>2. CandidateFits'
    BY <1>1 DEF JournalInv, CandidateFits
  <1>3. QED
    BY <1>1, <1>2 DEF JournalInv, TypeOK, FileIsWhole, CopyIsDurable, AssignsTheFile

LEMMA NextKeepsInv == JournalInv /\ [Next]_vars => JournalInv'
  BY LoadKeepsInv, OperationKeepsInv, WritingKeepsInv, RenameKeepsInv,
     PersistFailsKeepsInv, AssignKeepsInv, CrashKeepsInv, StutterKeepsInv
  DEF Next, Persist

THEOREM JournalInvariant == Spec => []JournalInv
  BY InitJournalInv, NextKeepsInv, PTL DEF Spec

\* A crash at any point leaves a complete journal in the file.
THEOREM FileAlwaysWhole == Spec => []FileIsWhole
  <1>1. JournalInv => FileIsWhole
    BY DEF JournalInv
  <1>2. QED
    BY <1>1, JournalInvariant, PTL

\* Outside the instant between the rename and the assignment, what callers read
\* from memory is what the file holds.
THEOREM CopyAlwaysDurable == Spec => []CopyIsDurable
  <1>1. JournalInv => CopyIsDurable
    BY DEF JournalInv
  <1>2. QED
    BY <1>1, JournalInvariant, PTL

-----------------------------------------------------------------------------
(* The refinement: the rename is the abstract step. *)

LEMMA InitImplements == Init => Durable!Init
  BY SameData DEF Init, Durable!Init

LEMMA RenameImplements ==
  ASSUME JournalInv, Rename
  PROVE  Durable!Recover \/ Durable!Write
  <1>1. CASE copy = Unopened
    <2>1. file' = [file EXCEPT !.ops = Recovered(@)] /\ copy' = copy
      BY <1>1 DEF JournalInv, CandidateFits, Rename
    <2>2. file' = [file EXCEPT !.ops = Durable!Recovered(@)]
      BY <2>1, SameData
    <2>3. QED
      BY <1>1, <2>1, <2>2 DEF Durable!Recover
  <1>2. CASE copy # Unopened
    <2>1. Durable!Writes(file, file') /\ copy' = copy
      BY <1>2 DEF JournalInv, CandidateFits, Rename
    <2>2. QED
      BY <1>2, <2>1 DEF Durable!Write
  <1>3. QED
    BY <1>1, <1>2

\* Handing a new journal to memory opens it, or is invisible.
LEMMA AssignImplements ==
  ASSUME JournalInv, Assign
  PROVE  Durable!Open \/ UNCHANGED <<file, copy # Unopened>>
  <1>1. copy' # Unopened /\ file' = file
    BY JournalAssumption DEF JournalInv, TypeOK, Assign
  <1>2. copy = Unopened => ~Durable!Prepared(file.ops)
    BY SameData DEF JournalInv, AssignsTheFile, Assign
  <1>3. QED
    BY <1>1, <1>2 DEF Durable!Open

LEMMA CrashImplements ==
  ASSUME Crash
  PROVE  Durable!Crash \/ UNCHANGED <<file, copy # Unopened>>
  BY DEF Crash, Durable!Crash

LEMMA OtherStepsInvisible ==
  ASSUME JournalInv,
         Load \/ Operation \/ CreateTemp \/ WriteTemp \/ PersistFails
         \/ UNCHANGED vars
  PROVE  UNCHANGED <<file, copy # Unopened>>
  <1>1. file' = file /\ copy' = copy
    BY OperationProposes
    DEF JournalInv, Proposed, Load, CreateTemp, WriteTemp, PersistFails, vars
  <1>2. QED
    BY <1>1

LEMMA NextImplements ==
  JournalInv /\ [Next]_vars => [Durable!Next]_<<file, copy # Unopened>>
  BY RenameImplements, AssignImplements, CrashImplements, OtherStepsInvisible
  DEF Next, Persist, Durable!Next

\* Every operation on the journal takes effect at the rename, at once and
\* durably, or not at all; and it is recovered before it is used again.
THEOREM JournalImplementsDurable == Spec => ImplementsDurable
  BY InitImplements, NextImplements, JournalInvariant, PTL
  DEF Spec, ImplementsDurable, Durable!Spec

-----------------------------------------------------------------------------
(* Evidence of a failure: what T3 said, and what is retained of it *)

States == {"running", "failed", "recovered"}

Facts ==
  [state : {"failed"}, shown : [shell : Failures, full : Failures],
   seq : Nat \ {0}, version : {1, 2}, era : Nat]
    \cup [state : {"running", "recovered"}, shown : {NothingFailed},
          seq : Nat \ {0}, version : {1, 2}, era : Nat]

\* The orders of reads that have started, and the rows that rest on them.
OrdersBy(time) == {o \in Orders : o.era <= o.started /\ o.started <= time}

RowsBy(time) ==
  {NoRow} \cup [state : {"failed"}, failure : Failures, order : OrdersBy(time)]
          \cup [state : {"recovered"}, order : OrdersBy(time)]

MaybeFailure == Failures \cup {NoFailure}

\* What a call has read and remembers.
Readings(time, length) ==
  [kind : {"list", "run", "get"}, step : {1}, started : 0..time, seen : 0..length,
   record : MaybeFailure]
    \cup [kind : {"list"}, step : {2}, started : 0..time, seen : 0..length,
          shell : States, order : Orders]
    \cup [kind : {"get"}, step : {2}, started : 0..time, seen : 0..length,
          full : 1..length, fullStarted : 0..time]

EvidenceTypes ==
  /\ history \in Seq(Facts) /\ Len(history) >= 1 /\ Now.seq <= Len(history)
  /\ clock \in 0..MaxReads /\ latest \in 0..clock /\ crashes \in 0..MaxCrashes
  /\ call \in [Calls -> {Idle} \cup Readings(clock, Len(history))]
  /\ row \in RowsBy(clock) /\ receipt \in MaybeFailure
  /\ saved \in [row : RowsBy(clock), receipt : MaybeFailure]
  /\ answer \in MaybeFailure
  /\ basis \in [seen : 0..Len(history), started : 0..clock]

\* A restart finds what memory had, but for when the reads started.
SavedMatches == saved.receipt = receipt /\ ~Differ(row, saved.row)

\* A receipt's failure that a call remembers was retained, and what is retained
\* is never forgotten.
RecordsMatch ==
  \A c \in Calls :
    call[c] # Idle /\ call[c].step = 1 /\ call[c].record # NoFailure => row # NoRow

EvidenceInv == EvidenceTypes /\ SavedMatches /\ RecordsMatch /\ RestsOnEvidence

LEMMA FailureIsSome == NoFailure \notin Failures
  BY DEF Failures, NoFailure, None, Range, Sources

LEMMA RowParts ==
  ASSUME NEW time \in Nat, NEW r \in RowsBy(time)
  PROVE  /\ r.state \in {None, "failed", "recovered"} /\ (r = NoRow <=> r.state = None)
         /\ r # NoRow => r.order \in OrdersBy(time)
         /\ r.state = "failed" => r.failure \in Failures
         /\ Kept(r) \in MaybeFailure /\ (Kept(r) # NoFailure <=> r.state = "failed")
  BY FailureIsSome DEF RowsBy, NoRow, None, Kept, MaybeFailure

LEMMA WithEraBy ==
  ASSUME NEW time \in Nat, NEW r \in RowsBy(time), NEW o \in OrdersBy(time)
  PROVE  /\ WithEra(o, r) \in OrdersBy(time)
         /\ \E e \in Nat : WithEra(o, r) = [o EXCEPT !.era = e]
  <1>1. r # NoRow => r.order \in OrdersBy(time)
    BY RowParts
  <1>2. \A e \in Nat : e <= o.started => [o EXCEPT !.era = e] \in OrdersBy(time)
    BY DEF OrdersBy, Orders
  <1>3. o = [o EXCEPT !.era = o.era] /\ o.era \in Nat /\ o.started \in Nat
    BY DEF OrdersBy, Orders
  <1>4. r # NoRow => r.order.era \in Nat
    BY <1>1 DEF OrdersBy, Orders
  <1>5. \E e \in Nat : e <= o.started /\ WithEra(o, r) = [o EXCEPT !.era = e]
    <2>1. CASE WithEra(o, r) = o
      BY <1>3, <2>1 DEF OrdersBy
    <2>2. CASE r # NoRow /\ ~(o.started < r.order.era) /\ WithEra(o, r) = [o EXCEPT !.era = r.order.era]
      BY <1>3, <1>4, <2>2
    <2>3. CASE WithEra(o, r) = [o EXCEPT !.era = o.started]
      BY <1>3, <2>3
    <2> QED
      BY <2>1, <2>2, <2>3 DEF WithEra
  <1> QED
    BY <1>2, <1>5

LEMMA MergedFailure ==
  ASSUME NEW old \in Failures, NEW new \in Failures, NEW same
  PROVE  Merged(old, new, same) \in Failures
  BY DEF Merged, Failures

LEMMA RetainedBy ==
  ASSUME NEW time \in Nat, NEW r \in RowsBy(time), NEW known \in MaybeFailure,
         NEW f \in Failures, NEW given \in OrdersBy(time)
  PROVE  /\ Retained(r, known, f, given)
              \in [state : {"failed"}, failure : Failures, order : OrdersBy(time)]
         /\ Retained(r, known, f, given).state = "failed"
  <1> DEFINE o == WithEra(given, r)
             old == IF r.state = "failed" THEN r.failure ELSE known
             has == old # NoFailure
             rt  == Retained(r, known, f, given)
  <1>1. o \in OrdersBy(time)
    BY WithEraBy
  <1>2. r # NoRow => r.order \in OrdersBy(time)
    BY RowParts
  <1>3. has => old \in Failures
    BY RowParts DEF MaybeFailure
  <1>4. \A same : has => Merged(old, f, same) \in Failures
    BY <1>3, MergedFailure
  <1>5. rt.failure \in Failures
    BY <1>3, <1>4 DEF Retained
  <1>6. \A id \in Identities : [o EXCEPT !.id = id] \in OrdersBy(time)
    BY <1>1 DEF OrdersBy, Orders
  <1>7. /\ o.started \in Nat /\ o.started <= time
        /\ r # NoRow => r.order.started \in Nat /\ r.order.started <= time /\ r.order.id \in Identities
        /\ None \in Identities
    BY <1>1, <1>2 DEF OrdersBy, Orders, Identities
  <1> DEFINE kept       == r # NoRow
             cmp        == CompareOrders(o, r.order)
             stale      == kept /\ cmp = LT
             newer      == kept /\ cmp = GT
             sameReason == o.id # None /\ kept /\ o.id = r.order.id
             v2         == o.version = 2
             shell      == o.scope = "shell"
             laterV1    == /\ newer /\ has /\ old.source = f.source
                           /\ \/ f.source \in {"activity", "message"}
                              \/ f.source = "session" /\ (~shell \/ ~sameReason)
             matching   == /\ shell /\ has /\ sameReason /\ old.message = f.message
                           /\ v2 \/ (f.source = "session" /\ old.source = "session")
             unbound    == v2 /\ shell /\ f.source = "turn" /\ has
             replaces   == v2 \/ laterV1 \/ (newer /\ o.version # r.order.version)
             failure    == IF has /\ (stale \/ unbound \/ matching) THEN old
                           ELSE IF replaces \/ ~has THEN f ELSE Merged(old, f, sameReason)
             keepsOld   == \/ has /\ (stale \/ unbound)
                           \/ /\ ~matching /\ ~replaces /\ has /\ PrefersExisting(old, f)
                              /\ ~(sameReason /\ old.message = f.message)
             cand       == IF keepsOld THEN [o EXCEPT !.id = IF kept THEN r.order.id ELSE None] ELSE o
             next       == IF \/ ~kept
                              \/ ~stale /\ (unbound \/ matching \/ failure = f)
                           THEN cand ELSE r.order
             latest1    == IF next.started > r.order.started THEN next.started ELSE r.order.started
             started    == IF ~kept \/ ~SameEra(next, r.order) THEN next.started
                           ELSE IF matching /\ SameEra(o, next) /\ o.started > latest1 THEN o.started
                           ELSE latest1
  <1>8. rt = [state |-> "failed", failure |-> failure, order |-> [next EXCEPT !.started = started]]
    BY DEF Retained
  <1> HIDE DEF keepsOld, matching, unbound, stale, failure, rt
  <1>9. next \in OrdersBy(time) /\ started \in Nat /\ next.started <= started /\ started <= time
    <2>1. cand \in OrdersBy(time)
      BY <1>1, <1>6, <1>7
    <2>2. next \in OrdersBy(time)
      BY <1>2, <2>1
    <2> HIDE DEF cand, next
    <2>3. next.started \in Nat /\ next.started <= time
      BY <2>2 DEF OrdersBy, Orders
    <2> QED
      BY <1>7, <2>2, <2>3
  <1> HIDE DEF next, started
  <1>11. rt.order \in OrdersBy(time)
    BY <1>8, <1>9 DEF OrdersBy, Orders
  <1>13. rt \in [state : {"failed"}, failure : Failures, order : OrdersBy(time)] /\ rt.state = "failed"
    BY <1>5, <1>8, <1>11
  <1> QED
    BY <1>13 DEF rt

LEMMA ClearedBy ==
  ASSUME NEW time \in Nat, NEW r \in RowsBy(time), NEW given \in OrdersBy(time)
  PROVE  /\ Cleared(r, given) \in RowsBy(time)
         /\ \/ Cleared(r, given) = r /\ r # NoRow
            \/ /\ Cleared(r, given).state = "recovered"
               /\ r = NoRow \/ CompareOrders(WithEra(given, r), r.order) # LT
  <1> DEFINE o == WithEra(given, r)
  <1>1. o \in OrdersBy(time)
    BY WithEraBy
  <1>2. r # NoRow => r.order \in OrdersBy(time)
    BY RowParts
  <1>3. CASE r # NoRow /\ CompareOrders(o, r.order) = LT
    BY <1>3 DEF Cleared
  <1>4. CASE ~(r # NoRow /\ CompareOrders(o, r.order) = LT)
    <2> DEFINE order == IF /\ r # NoRow /\ SameEra(o, r.order)
                           /\ r.order.started > o.started
                        THEN [o EXCEPT !.started = r.order.started] ELSE o
    <2>1. Cleared(r, given) = [state |-> "recovered", order |-> order]
      BY <1>4 DEF Cleared
    <2>2. order \in OrdersBy(time)
      <3>1. ASSUME r # NoRow, r.order.started > o.started
            PROVE  [o EXCEPT !.started = r.order.started] \in OrdersBy(time)
        BY <1>1, <1>2, <3>1 DEF OrdersBy, Orders
      <3> QED
        BY <1>1, <3>1
    <2> HIDE DEF order
    <2> QED
      BY <1>4, <2>1, <2>2 DEF RowsBy
  <1> QED
    BY <1>3, <1>4

LEMMA ReadingParts ==
  ASSUME NEW time, NEW length, NEW x \in Readings(time, length)
  PROVE  /\ x # Idle /\ x.step \in {1, 2} /\ x.started \in 0..time /\ x.seen \in 0..length
         /\ x.step = 1 => x.record \in MaybeFailure
         /\ x.step = 2 /\ x.kind = "list" => x.order \in Orders /\ x.shell \in States
         /\ x.kind = "run" => x.step = 1
         /\ x.step = 2 /\ x.kind = "get" => x.full \in 1..length /\ x.fullStarted \in 0..time
  BY DEF Readings, Idle

LEMMA ReadingsGrow ==
  ASSUME NEW t \in Nat, NEW u \in Nat, NEW k \in Nat, NEW l \in Nat, t <= u, k <= l
  PROVE  Readings(t, k) \subseteq Readings(u, l)
  <1>1. 0..t \subseteq 0..u /\ 0..k \subseteq 0..l /\ 1..k \subseteq 1..l
    OBVIOUS
  <1> QED
    BY <1>1 DEF Readings

LEMMA RowsGrow ==
  ASSUME NEW t \in Nat, NEW u \in Nat, t <= u
  PROVE  RowsBy(t) \subseteq RowsBy(u) /\ OrdersBy(t) \subseteq OrdersBy(u)
  <1>1. OrdersBy(t) \subseteq OrdersBy(u)
    BY DEF OrdersBy, Orders
  <1> QED
    BY <1>1 DEF RowsBy

LEMMA Counted ==
  ASSUME EvidenceTypes
  PROVE  clock \in Nat /\ Len(history) \in Nat /\ MaxReads \in Nat /\ MaxCrashes \in Nat
  BY KnownAssumption DEF EvidenceTypes

\* What a read shows.
LEMMA SeenFacts ==
  ASSUME EvidenceTypes, NEW seen \in 1..Len(history), NEW scope \in {"shell", "full"}
  PROVE  /\ history[seen] \in Facts /\ history[seen].state \in States
         /\ history[seen].state = "failed" => history[seen].shown[scope] \in Failures
         /\ history[seen].shown[scope] \in MaybeFailure
         /\ View(seen, scope).state = history[seen].state
         /\ View(seen, scope).failure = history[seen].shown[scope]
  <1>1. history[seen] \in Facts
    BY DEF EvidenceTypes
  <1> QED
    BY <1>1 DEF Facts, States, NothingFailed, MaybeFailure, View

LEMMA OrderOfBy ==
  ASSUME EvidenceTypes, NEW seen \in 1..Len(history), NEW scope \in {"shell", "full"},
         NEW started \in 0..clock
  PROVE  OrderOf(seen, scope, started) \in OrdersBy(clock)
  <1> DEFINE failure == history[seen].shown[scope]
             id      == IF failure = NoFailure THEN None ELSE failure.message
  <1>1. /\ history[seen].version \in {1, 2} /\ history[seen].seq \in Nat
        /\ failure \in MaybeFailure /\ clock \in Nat
    BY SeenFacts, Counted DEF Facts
  <1>2. id \in Identities
    BY <1>1 DEF MaybeFailure, Failures, Identities
  <1>3. OrderOf(seen, scope, started) =
          [version |-> history[seen].version, scope |-> scope, seq |-> history[seen].seq,
           started |-> started, era |-> 0, id |-> id]
    BY DEF OrderOf
  <1> HIDE DEF id
  <1> QED
    BY <1>1, <1>2, <1>3 DEF OrdersBy, Orders

-----------------------------------------------------------------------------
(* What recording makes of the row and the receipt *)

\* The row turns only to what the view says, if the view's order admits it, and
\* what recovered leaves no failure on the receipt.
Turns(after, state, order) ==
  /\ after.row \in RowsBy(clock) /\ after.receipt \in MaybeFailure
  /\ after.receipt # NoFailure => after.row.state = "failed"
  /\ after.row.state # row.state =>
       /\ after.row.state = state
       /\ row = NoRow \/ CompareOrders(WithEra(order, row), row.order) # LT
  /\ row # NoRow => after.row # NoRow

LEMMA NothingTurns ==
  ASSUME EvidenceInv, NEW state, NEW order
  PROVE  Turns([row |-> row, receipt |-> receipt], state, order)
  BY DEF Turns, EvidenceInv, EvidenceTypes, RestsOnEvidence, ReceiptMatches

LEMMA RetainingTurns ==
  ASSUME EvidenceInv, NEW failure \in Failures, NEW order \in OrdersBy(clock),
         NEW bound \in BOOLEAN, NEW state, state = "failed" \/ row.state = "failed"
  PROVE  Turns(AfterRetaining(failure, order, bound), state, order)
  <1> DEFINE new == Retained(row, receipt, failure, order)
  <1>1. clock \in Nat /\ row \in RowsBy(clock) /\ receipt \in MaybeFailure
    BY Counted DEF EvidenceInv, EvidenceTypes
  <1>2. CASE Refused(row, order)
    BY <1>2, NothingTurns DEF AfterRetaining
  <1>3. CASE ~Refused(row, order)
    <2>1. new \in [state : {"failed"}, failure : Failures, order : OrdersBy(clock)]
      BY <1>1, RetainedBy
    <2>2. AfterRetaining(failure, order, bound)
            = [row |-> new, receipt |-> IF bound THEN new.failure ELSE receipt]
      BY <1>3 DEF AfterRetaining
    <2> HIDE DEF new
    <2>3. new \in RowsBy(clock) /\ new.state = "failed" /\ new # NoRow /\ new.failure \in MaybeFailure
      BY <2>1 DEF RowsBy, NoRow, None, MaybeFailure
    <2>4. row.state # "failed" =>
            row = NoRow \/ CompareOrders(WithEra(order, row), row.order) # LT
      BY <1>1, <1>3, RowParts DEF Refused, LT, GT
    <2> QED
      BY <1>1, <2>2, <2>3, <2>4 DEF Turns
  <1> QED
    BY <1>2, <1>3

LEMMA ClearingTurns ==
  ASSUME EvidenceInv, NEW order \in OrdersBy(clock)
  PROVE  Turns(AfterClearing(order), "recovered", order)
  <1> DEFINE new == Cleared(row, order)
  <1>1. clock \in Nat /\ row \in RowsBy(clock) /\ receipt \in MaybeFailure
        /\ (receipt # NoFailure => row.state = "failed")
    BY Counted DEF EvidenceInv, EvidenceTypes, RestsOnEvidence, ReceiptMatches
  <1>2. AfterClearing(order)
          = [row |-> new, receipt |-> IF Differ(row, new) THEN NoFailure ELSE receipt]
    BY DEF AfterClearing
  <1>3. /\ new \in RowsBy(clock)
        /\ \/ new = row /\ row # NoRow
           \/ /\ new.state = "recovered"
              /\ row = NoRow \/ CompareOrders(WithEra(order, row), row.order) # LT
    BY <1>1, ClearedBy
  <1> HIDE DEF new
  <1>4. new.state # row.state => Differ(row, new)
    BY DEF Differ
  <1>5. new # NoRow
    BY <1>3 DEF NoRow, None
  <1>6. (IF Differ(row, new) THEN NoFailure ELSE receipt) \in MaybeFailure
    BY <1>1 DEF MaybeFailure
  <1> QED
    BY <1>1, <1>2, <1>3, <1>4, <1>5, <1>6 DEF Turns

LEMMA ViewTurns ==
  ASSUME EvidenceInv, NEW view, NEW order \in OrdersBy(clock), NEW bound \in BOOLEAN,
         view.state = "failed" => view.failure \in Failures
  PROVE  Turns(AfterView(view, order, bound), view.state, order)
  <1>1. CASE view.state = "recovered"
    BY <1>1, ClearingTurns DEF AfterView
  <1>2. CASE view.state = "failed"
    BY <1>2, RetainingTurns DEF AfterView
  <1>3. CASE view.state \notin {"recovered", "failed"}
    BY <1>3, NothingTurns DEF AfterView
  <1> QED
    BY <1>1, <1>2, <1>3

\* A view that shows no failure confirms the one that is retained.
LEMMA ConfirmingTurns ==
  ASSUME EvidenceInv, NEW order \in OrdersBy(clock), NEW bound \in BOOLEAN, NEW state,
         Kept(row) # NoFailure
  PROVE  Turns(AfterRetaining(Kept(row), order, bound), state, order)
  <1>1. Kept(row) \in Failures /\ row.state = "failed"
    BY Counted, RowParts DEF EvidenceInv, EvidenceTypes, MaybeFailure
  <1> QED
    BY <1>1, RetainingTurns

\* What one recording does to the journal, whoever records.
LEMMA RecordingKeeps ==
  ASSUME EvidenceInv, NEW after, NEW seen \in 1..Len(history), NEW started \in 0..clock, NEW order,
         Turns(after, history[seen].state, order), Put(after), Rests(seen, started, order),
         history' = history
  PROVE  /\ row' = after.row /\ row' \in RowsBy(clock) /\ receipt' \in MaybeFailure
         /\ saved' \in [row : RowsBy(clock), receipt : MaybeFailure]
         /\ basis' \in [seen : 0..Len(history), started : 0..clock]
         /\ SavedMatches' /\ RestsOnEvidence'
         /\ row # NoRow => row' # NoRow
  <1>1. row' = after.row /\ receipt' = after.receipt
    BY DEF Put, Save
  <1>2. saved' = IF Differ(row, row') \/ receipt # receipt'
                 THEN [row |-> row', receipt |-> receipt'] ELSE saved
    BY <1>1 DEF Put, Save
  <1>3. /\ row \in RowsBy(clock) /\ saved \in [row : RowsBy(clock), receipt : MaybeFailure]
        /\ basis \in [seen : 0..Len(history), started : 0..clock] /\ clock \in Nat
        /\ Len(history) \in Nat
    BY Counted DEF EvidenceInv, EvidenceTypes
  <1>4. /\ row' \in RowsBy(clock) /\ receipt' \in MaybeFailure /\ (row # NoRow => row' # NoRow)
        /\ receipt' # NoFailure => row'.state = "failed"
        /\ row'.state # row.state =>
             /\ row'.state = history[seen].state
             /\ row = NoRow \/ CompareOrders(WithEra(order, row), row.order) # LT
    BY <1>1 DEF Turns
  <1>5. saved' \in [row : RowsBy(clock), receipt : MaybeFailure]
    BY <1>2, <1>3, <1>4
  <1>6. basis' \in [seen : 0..Len(history), started : 0..clock]
    BY <1>3 DEF Rests
  <1>7. SavedMatches'
    <2>1. \A r \in RowsBy(clock) : r = NoRow <=> r.state = None
      BY <1>3, RowParts
    <2>2. CASE Differ(row, row') \/ receipt # receipt'
      BY <1>2, <2>2 DEF SavedMatches, Differ
    <2>3. CASE ~(Differ(row, row') \/ receipt # receipt')
      <3>1. saved' = saved /\ receipt' = receipt
        BY <1>2, <2>3
      <3>2. ~Differ(row, saved.row) /\ saved.receipt = receipt
        BY DEF EvidenceInv, SavedMatches
      <3>3. ~Differ(row', saved.row)
        BY <1>3, <1>4, <2>1, <2>3, <3>2 DEF Differ
      <3> QED
        BY <3>1, <3>2, <3>3 DEF SavedMatches
    <2> QED
      BY <2>2, <2>3
  <1>8. RestsOnEvidence'
    <2>1. \A r \in RowsBy(clock) : /\ r.state \in {None, "failed", "recovered"}
                                   /\ (r = NoRow <=> r.state = None)
      BY <1>3, RowParts
    <2>2. row # NoRow => basis.seen # 0 /\ row.state = history[basis.seen].state
      BY DEF EvidenceInv, RestsOnEvidence
    <2>3. row' # NoRow => basis'.seen # 0 /\ row'.state = history'[basis'.seen].state
      <3>1. CASE basis' = [seen |-> seen, started |-> started] /\ row'.state = history[seen].state
        BY <3>1
      <3>2. CASE basis' = basis /\ row'.state = row.state
        BY <1>3, <1>4, <2>1, <2>2, <3>2
      <3>3. CASE row'.state # row.state
        <4>1. row'.state # "running"
          BY <1>4, <2>1 DEF None
        <4>2. basis' = [seen |-> seen, started |-> started]
          BY <1>4, <3>3, <4>1 DEF Rests
        <4> QED
          BY <1>4, <3>3, <4>2
      <3> QED
        BY <3>1, <3>2, <3>3 DEF Rests
    <2> QED
      BY <1>4, <2>3 DEF RestsOnEvidence, ReceiptMatches
  <1> QED
    BY <1>1, <1>4, <1>5, <1>6, <1>7, <1>8

\* What a step that records has to show besides.
LEMMA CallsKeep ==
  ASSUME EvidenceInv, NEW c \in Calls, clock' \in {clock, clock + 1}, clock' <= MaxReads,
         NEW x \in {Idle} \cup Readings(clock', Len(history)), call' = [call EXCEPT ![c] = x],
         x = Idle \/ x.step = 2 \/ (x.record # NoFailure => row # NoRow),
         row # NoRow => row' # NoRow, history' = history,
         latest' \in 0..clock', crashes' = crashes, answer' \in MaybeFailure,
         row' \in RowsBy(clock), receipt' \in MaybeFailure,
         saved' \in [row : RowsBy(clock), receipt : MaybeFailure],
         basis' \in [seen : 0..Len(history), started : 0..clock],
         SavedMatches', RestsOnEvidence'
  PROVE  EvidenceInv'
  <1>1. clock \in Nat /\ Len(history) \in Nat /\ MaxReads \in Nat /\ clock' \in Nat /\ clock <= clock'
    BY Counted DEF EvidenceInv
  <1>2. Readings(clock, Len(history)) \subseteq Readings(clock', Len(history))
    BY <1>1, ReadingsGrow
  <1>3. call' \in [Calls -> {Idle} \cup Readings(clock', Len(history))]
    BY <1>2 DEF EvidenceInv, EvidenceTypes
  <1>4. RowsBy(clock) \subseteq RowsBy(clock')
    BY <1>1, RowsGrow
  <1>5. EvidenceTypes'
    BY <1>1, <1>3, <1>4 DEF EvidenceInv, EvidenceTypes, Now
  <1>6. RecordsMatch'
    <2>1. \A y : y \in Readings(clock, Len(history)) => y # Idle /\ y.step \in {1, 2}
      BY ReadingParts
    <2> SUFFICES ASSUME NEW d \in Calls, call'[d] # Idle, call'[d].step = 1,
                        call'[d].record # NoFailure
                 PROVE  row' # NoRow
      BY DEF RecordsMatch
    <2>2. CASE d = c
      BY <2>2 DEF EvidenceInv, EvidenceTypes
    <2>3. CASE d # c
      BY <2>3 DEF EvidenceInv, EvidenceTypes, RecordsMatch
    <2> QED
      BY <2>2, <2>3
  <1> QED
    BY <1>5, <1>6 DEF EvidenceInv

\* A step that records nothing.
LEMMA JournalRests ==
  ASSUME EvidenceInv, UNCHANGED <<history, journal, basis>>
  PROVE  /\ row' = row /\ row' \in RowsBy(clock) /\ receipt' \in MaybeFailure
         /\ saved' \in [row : RowsBy(clock), receipt : MaybeFailure]
         /\ basis' \in [seen : 0..Len(history), started : 0..clock]
         /\ SavedMatches' /\ RestsOnEvidence'
  BY DEF journal, EvidenceInv, EvidenceTypes, SavedMatches, RestsOnEvidence, ReceiptMatches

\* Where a call is that has an answer.
LEMMA ArrivedParts ==
  ASSUME EvidenceTypes, NEW c \in Calls, NEW kind, NEW stage, Arrived(c, kind, stage)
  PROVE  /\ call[c] \in Readings(clock, Len(history)) /\ call[c].kind = kind /\ call[c].step = stage
         /\ call[c].seen \in 1..Len(history) /\ call[c].started \in 0..clock
  <1>1. call[c] \in Readings(clock, Len(history))
    BY DEF Arrived, EvidenceTypes
  <1>2. Len(history) \in Nat
    BY Counted
  <1> QED
    BY <1>1, <1>2, ReadingParts DEF Arrived

LEMMA StartKeeps == ASSUME EvidenceInv, NEW c \in Calls, Start(c) PROVE EvidenceInv'
  <1>1. PICK kind \in {"list", "run", "get"} :
          call' = [call EXCEPT ![c] = [kind |-> kind, step |-> 1, started |-> clock + 1,
                                       seen |-> 0, record |-> receipt]]
    BY DEF Start
  <1> DEFINE x == [kind |-> kind, step |-> 1, started |-> clock + 1, seen |-> 0, record |-> receipt]
  <1>2. clock \in Nat /\ Len(history) \in Nat /\ receipt \in MaybeFailure /\ clock' = clock + 1
        /\ MaxReads \in Nat /\ clock < MaxReads /\ latest \in 0..clock
    BY Counted DEF EvidenceInv, EvidenceTypes, Start
  <1>3. x \in Readings(clock', Len(history)) /\ x.step = 1 /\ x.record = receipt
    BY <1>2 DEF Readings
  <1>4. receipt # NoFailure => row # NoRow
    BY DEF EvidenceInv, RestsOnEvidence, ReceiptMatches, NoRow, None
  <1>5. UNCHANGED <<history, journal, answer, basis, latest, crashes>>
    BY DEF Start
  <1>6. answer' \in MaybeFailure /\ latest' \in 0..clock'
    BY <1>2, <1>5 DEF EvidenceInv, EvidenceTypes
  <1>7. call' = [call EXCEPT ![c] = x] /\ clock' <= MaxReads
    BY <1>1, <1>2
  <1> HIDE DEF x
  <1> QED
    BY <1>2, <1>3, <1>4, <1>5, <1>6, <1>7, JournalRests, CallsKeep

LEMMA ServeKeeps == ASSUME EvidenceInv, NEW c \in Calls, Serve(c) PROVE EvidenceInv'
  <1>1. PICK lag \in Nat : lag < Now.seq /\ call' = [call EXCEPT ![c].seen = Len(history) - lag]
    <2>1. PICK lag \in IF Scope(c) = "shell" THEN Lags ELSE {0} :
            lag < Now.seq /\ call' = [call EXCEPT ![c].seen = Len(history) - lag]
      BY DEF Serve
    <2>2. lag \in Nat
      BY KnownAssumption
    <2> QED
      BY <2>1, <2>2
  <1> DEFINE x == [call[c] EXCEPT !.seen = Len(history) - lag]
  <1>2. /\ clock \in Nat /\ Len(history) \in Nat /\ clock' = clock /\ clock <= MaxReads
        /\ MaxReads \in Nat /\ Now.seq <= Len(history) /\ Now.seq \in Nat
    <2>1. Len(history) \in 1..Len(history) /\ history \in Seq(Facts)
      BY Counted DEF EvidenceInv, EvidenceTypes
    <2>2. Now \in Facts
      BY <2>1 DEF Now
    <2> QED
      BY <2>2, Counted DEF EvidenceInv, EvidenceTypes, Serve, Facts
  <1>3. call[c] \in Readings(clock, Len(history))
    BY DEF EvidenceInv, EvidenceTypes, Serve
  <1>4. Len(history) - lag \in 0..Len(history)
    BY <1>1, <1>2
  <1>5. /\ x \in Readings(clock, Len(history)) /\ x.step = call[c].step
        /\ x.step = 1 => x.record = call[c].record
    <2> DEFINE now  == call[c]
               seen == Len(history) - lag
    <2> HIDE DEF now
    <2>1. CASE now \in [kind : {"list", "run", "get"}, step : {1}, started : 0..clock,
                        seen : 0..Len(history), record : MaybeFailure]
      <3>1. now = [kind |-> now.kind, step |-> 1, started |-> now.started, seen |-> now.seen,
                   record |-> now.record]
        BY <2>1
      <3> QED
        BY <1>4, <2>1, <3>1 DEF Readings, now
    <2>2. CASE now \in [kind : {"list"}, step : {2}, started : 0..clock, seen : 0..Len(history),
                        shell : States, order : Orders]
      BY <1>4, <2>2 DEF Readings, now
    <2>3. CASE now \in [kind : {"get"}, step : {2}, started : 0..clock, seen : 0..Len(history),
                        full : 1..Len(history), fullStarted : 0..clock]
      BY <1>4, <2>3, SMTT(30) DEF Readings, now
    <2> QED
      BY <1>3, <2>1, <2>2, <2>3 DEF Readings, now
  <1>7. call' = [call EXCEPT ![c] = x]
    BY <1>1
  <1>8. x.step = 2 \/ (x.record # NoFailure => row # NoRow)
    BY <1>3, <1>5, ReadingParts DEF EvidenceInv, RecordsMatch, Serve
  <1>9. UNCHANGED <<history, journal, answer, basis, latest, crashes>>
        /\ answer' \in MaybeFailure /\ latest' \in 0..clock'
    BY <1>2 DEF Serve, EvidenceInv, EvidenceTypes
  <1> HIDE DEF x
  <1> QED
    BY <1>2, <1>5, <1>7, <1>8, <1>9, JournalRests, CallsKeep

LEMMA GetShellKeeps == ASSUME EvidenceInv, NEW c \in Calls, GetShell(c) PROVE EvidenceInv'
  <1> DEFINE x == [kind |-> "get", step |-> 2, started |-> clock + 1, seen |-> 0,
                   full |-> call[c].seen, fullStarted |-> call[c].started]
  <1>1. clock \in Nat /\ Len(history) \in Nat /\ clock' = clock + 1 /\ clock' <= MaxReads
    BY Counted DEF EvidenceInv, GetShell
  <1>2. call[c].seen \in 1..Len(history) /\ call[c].started \in 0..clock
    BY ArrivedParts DEF EvidenceInv, GetShell
  <1>3. x \in Readings(clock', Len(history)) /\ x.step = 2
    BY <1>1, <1>2 DEF Readings
  <1>4. call' = [call EXCEPT ![c] = x]
    BY DEF GetShell
  <1>5. UNCHANGED <<history, journal, answer, basis, latest, crashes>>
        /\ answer' \in MaybeFailure /\ latest' \in 0..clock'
    BY <1>1 DEF GetShell, EvidenceInv, EvidenceTypes
  <1> HIDE DEF x
  <1> QED
    BY <1>1, <1>3, <1>4, <1>5, JournalRests, CallsKeep

LEMMA ObserveShellKeeps == ASSUME EvidenceInv, NEW c \in Calls, ObserveShell(c) PROVE EvidenceInv'
  <1> DEFINE now   == call[c]
             view  == View(now.seen, "shell")
             given == OrderOf(now.seen, "shell", now.started)
             after == AfterView(view, given, FALSE)
             order == WithEra(given, IF HasRecovered(view) THEN after.row ELSE row)
             x     == [kind |-> "list", step |-> 2, started |-> clock + 1, seen |-> 0,
                       shell |-> view.state, order |-> order]
  <1>1. EvidenceTypes /\ clock \in Nat /\ Len(history) \in Nat /\ clock' = clock + 1
        /\ clock' <= MaxReads
    BY Counted DEF EvidenceInv, ObserveShell
  <1>2. now.seen \in 1..Len(history) /\ now.started \in 0..clock
    BY <1>1, ArrivedParts DEF ObserveShell
  <1>3. given \in OrdersBy(clock)
    BY <1>1, <1>2, OrderOfBy
  <1>4. /\ view.state = history[now.seen].state /\ view.state \in States
        /\ view.state = "failed" => view.failure \in Failures
    BY <1>1, <1>2, SeenFacts
  <1> HIDE DEF view, given
  <1>5. Turns(after, history[now.seen].state, given)
    BY <1>3, <1>4, ViewTurns
  <1>6. order \in Orders
    BY <1>1, <1>3, <1>5, WithEraBy DEF Turns, OrdersBy, EvidenceInv, EvidenceTypes
  <1> HIDE DEF order
  <1>7. x \in Readings(clock', Len(history)) /\ x.step = 2
    BY <1>1, <1>4, <1>6 DEF Readings
  <1>8. /\ call' = [call EXCEPT ![c] = x] /\ Put(after) /\ Rests(now.seen, now.started, given)
        /\ Recorded(now.started) /\ UNCHANGED <<history, answer, crashes>>
    BY DEF ObserveShell, view, given, order
  <1> HIDE DEF x, after, now
  <1>9. latest' \in 0..clock' /\ answer' \in MaybeFailure
    BY <1>1, <1>2, <1>8 DEF Recorded, EvidenceInv, EvidenceTypes
  <1> QED
    BY <1>1, <1>2, <1>5, <1>7, <1>8, <1>9, RecordingKeeps, CallsKeep

\* What a call that ends has to show.
LEMMA FinishingKeeps ==
  ASSUME EvidenceInv, NEW c \in Calls, NEW said \in MaybeFailure, Finish(c, said), clock' = clock,
         NEW after, NEW seen \in 1..Len(history), NEW started \in 0..clock, NEW order,
         Turns(after, history[seen].state, order), Put(after), Rests(seen, started, order),
         NEW time \in 0..clock, Recorded(time), UNCHANGED <<history, crashes>>
  PROVE  EvidenceInv'
  <1>1. clock \in Nat /\ clock <= MaxReads /\ latest' \in 0..clock'
    BY Counted DEF EvidenceInv, EvidenceTypes, Recorded
  <1>2. call' = [call EXCEPT ![c] = Idle] /\ answer' = said
    BY DEF Finish
  <1> QED
    BY <1>1, <1>2, RecordingKeeps, CallsKeep

LEMMA WithEraTwice ==
  ASSUME NEW time \in Nat, NEW r \in RowsBy(time), NEW o \in OrdersBy(time)
  PROVE  WithEra(WithEra(o, r), r) = WithEra(o, r)
  <1>1. PICK e \in Nat : WithEra(o, r) = [o EXCEPT !.era = e]
    BY WithEraBy
  <1>2. o \in Orders /\ o.started \in Nat
    BY DEF OrdersBy, Orders
  <1>3. \A e1, e2 \in Nat : [[o EXCEPT !.era = e1] EXCEPT !.era = e2] = [o EXCEPT !.era = e2]
    BY <1>2 DEF Orders
  <1>4. /\ WithEra(o, r).started = o.started /\ WithEra(o, r).version = o.version
        /\ WithEra(o, r).era = e
    BY <1>1, <1>2 DEF Orders
  <1>5. r # NoRow => r.order.era \in Nat
    BY RowParts DEF OrdersBy, Orders
  <1>6. CASE WithEra(o, r) = o
    BY <1>6
  <1>7. CASE /\ r # NoRow /\ ~(o.started < r.order.era) /\ o.version = r.order.version
             /\ WithEra(o, r) = [o EXCEPT !.era = r.order.era]
    BY <1>2, <1>3, <1>4, <1>5, <1>7 DEF WithEra
  <1>8. CASE /\ r # NoRow /\ ~(o.started < r.order.era) /\ o.version # r.order.version
             /\ o.started > r.order.started /\ WithEra(o, r) = [o EXCEPT !.era = o.started]
    BY <1>2, <1>3, <1>4, <1>5, <1>8, ZenonT(60) DEF WithEra
  <1> QED
    BY <1>6, <1>7, <1>8 DEF WithEra

\* What ends up in the row after a full read, and the answer.
FullRead(c, after) ==
  /\ Turns(after, history[call[c].seen].state, OrderOf(call[c].seen, "full", call[c].started))
  /\ Kept(after.row) \in MaybeFailure

LEMMA ObserveFullReads ==
  ASSUME EvidenceInv, NEW c \in Calls, ObserveFull(c)
  PROVE  \E after : FullRead(c, after) /\ Put(after) /\ Finish(c, Kept(after.row))
  <1> DEFINE now   == call[c]
             view  == View(now.seen, "full")
             given == OrderOf(now.seen, "full", now.started)
             order == WithEra(given, row)
             after == IF StaleFull(c, order) THEN [row |-> row, receipt |-> receipt]
                      ELSE AfterView(view, order, FALSE)
  <1>1. EvidenceTypes /\ clock \in Nat /\ row \in RowsBy(clock)
    BY Counted DEF EvidenceInv, EvidenceTypes
  <1>2. now.seen \in 1..Len(history) /\ now.started \in 0..clock
    BY <1>1, ArrivedParts DEF ObserveFull
  <1>3. given \in OrdersBy(clock)
    BY <1>1, <1>2, OrderOfBy
  <1>4. /\ view.state = history[now.seen].state
        /\ view.state = "failed" => view.failure \in Failures
    BY <1>1, <1>2, SeenFacts
  <1>5. Put(after) /\ Finish(c, Kept(after.row))
    BY DEF ObserveFull
  <1> HIDE DEF view, given
  <1>6. order \in OrdersBy(clock) /\ WithEra(order, row) = WithEra(given, row)
    BY <1>1, <1>3, WithEraBy, WithEraTwice
  <1>7. Turns(after, view.state, order)
    <2>1. CASE StaleFull(c, order)
      BY <2>1, NothingTurns
    <2>2. CASE ~StaleFull(c, order)
      BY <1>4, <1>6, <2>2, ViewTurns
    <2> QED
      BY <2>1, <2>2
  <1> HIDE DEF after, order
  <1>8. Turns(after, history[now.seen].state, given)
    BY <1>4, <1>6, <1>7 DEF Turns
  <1>9. Kept(after.row) \in MaybeFailure
    BY <1>1, <1>8, RowParts DEF Turns
  <1> QED
    BY <1>5, <1>8, <1>9 DEF FullRead, given

LEMMA ObserveFullKeeps == ASSUME EvidenceInv, NEW c \in Calls, ObserveFull(c) PROVE EvidenceInv'
  <1>1. PICK after : FullRead(c, after) /\ Put(after) /\ Finish(c, Kept(after.row))
    BY ObserveFullReads
  <1>2. call[c].seen \in 1..Len(history) /\ call[c].started \in 0..clock
    BY ArrivedParts DEF EvidenceInv, ObserveFull
  <1>3. /\ Rests(call[c].seen, call[c].started, OrderOf(call[c].seen, "full", call[c].started))
        /\ Recorded(call[c].started) /\ UNCHANGED <<history, clock, crashes>>
    BY DEF ObserveFull
  <1> QED
    BY <1>1, <1>2, <1>3, FinishingKeeps DEF FullRead

LEMMA ObserveRunReads ==
  ASSUME EvidenceInv, NEW c \in Calls, ObserveRun(c)
  PROVE  \E after : FullRead(c, after) /\ Put(after) /\ Finish(c, Kept(after.row))
  <1> DEFINE now   == call[c]
             view  == View(now.seen, "full")
             given == OrderOf(now.seen, "full", now.started)
             after == IF view.state = "running" /\ Kept(row) # NoFailure
                      THEN AfterRetaining(Kept(row), given, TRUE) ELSE AfterView(view, given, TRUE)
  <1>1. EvidenceTypes /\ clock \in Nat /\ row \in RowsBy(clock)
    BY Counted DEF EvidenceInv, EvidenceTypes
  <1>2. now.seen \in 1..Len(history) /\ now.started \in 0..clock /\ now.step = 1 /\ now # Idle
    BY <1>1, ArrivedParts, ReadingParts DEF ObserveRun
  <1>3. given \in OrdersBy(clock)
    BY <1>1, <1>2, OrderOfBy
  <1>4. /\ view.state = history[now.seen].state
        /\ view.state = "failed" => view.failure \in Failures
    BY <1>1, <1>2, SeenFacts
  <1>5. Put(after) /\ Finish(c, Reported(now.record, after, HasRecovered(view)))
    BY DEF ObserveRun
  <1> HIDE DEF view, given
  <1>6. Turns(after, view.state, given)
    BY <1>3, <1>4, ViewTurns, ConfirmingTurns
  <1> HIDE DEF after
  <1>7. Kept(after.row) \in MaybeFailure /\ after.row \in RowsBy(clock)
    BY <1>1, <1>6, RowParts DEF Turns
  <1>8. now.record # NoFailure => after.row # NoRow
    BY <1>2, <1>6 DEF Turns, EvidenceInv, RecordsMatch
  <1>9. Reported(now.record, after, HasRecovered(view)) = Kept(after.row)
    <2>1. CASE Kept(after.row) # NoFailure
      BY <2>1 DEF Reported
    <2>2. CASE Kept(after.row) = NoFailure
      <3>1. after.row.state \in {None, "recovered"} /\ (after.row = NoRow <=> after.row.state = None)
        BY <1>1, <1>7, <2>2, RowParts
      <3> QED
        BY <1>8, <2>2, <3>1 DEF Reported, None
    <2> QED
      BY <2>1, <2>2
  <1> QED
    BY <1>4, <1>5, <1>6, <1>7, <1>9 DEF FullRead, given

LEMMA ObserveRunKeeps == ASSUME EvidenceInv, NEW c \in Calls, ObserveRun(c) PROVE EvidenceInv'
  <1>1. PICK after : FullRead(c, after) /\ Put(after) /\ Finish(c, Kept(after.row))
    BY ObserveRunReads
  <1>2. call[c].seen \in 1..Len(history) /\ call[c].started \in 0..clock
    BY ArrivedParts DEF EvidenceInv, ObserveRun
  <1>3. /\ Rests(call[c].seen, call[c].started, OrderOf(call[c].seen, "full", call[c].started))
        /\ Recorded(call[c].started) /\ UNCHANGED <<history, clock, crashes>>
    BY DEF ObserveRun
  <1> QED
    BY <1>1, <1>2, <1>3, FinishingKeeps DEF FullRead

\* select_observation shows one of the two views, with a reason if it failed.
LEMMA SelectedParts ==
  ASSUME EvidenceTypes, NEW full \in 1..Len(history), NEW shell \in 1..Len(history),
         NEW fullOrder \in OrdersBy(clock), NEW shellOrder \in OrdersBy(clock)
  PROVE  LET chosen == Selected(full, fullOrder, shell, shellOrder) IN
         /\ chosen.seen \in {full, shell} /\ chosen.state = history[chosen.seen].state
         /\ chosen.state = "failed" => chosen.failure \in Failures
         /\ chosen.order \in OrdersBy(clock)
  <1> DEFINE fromFull   == FromFull(fullOrder, shellOrder)
             source     == IF fromFull THEN full ELSE shell
             fullSays   == IF Failed(history[source]) THEN history[full].shown.full ELSE NoFailure
             shellSays  == history[source].shown.shell
             newerShell == /\ ~fromFull
                           /\ \/ shellOrder.version = 2 \/ ~SameEra(fullOrder, shellOrder)
                              \/ fullSays.source = "session" /\ shellSays.source = "session"
                           /\ CompareOrders(shellOrder, fullOrder) = GT
             keepFull   == shellOrder.version = 2 /\ shellSays.source = "turn" /\ fullSays # NoFailure
             sameReason == /\ fullSays # NoFailure /\ fullOrder.id = shellOrder.id
                           /\ fullSays.message = shellSays.message
             rest       == IF fullSays.source = "turn" /\ fullOrder.version # 2 /\ shellSays # NoFailure
                           THEN [failure |-> shellSays, order |-> shellOrder]
                           ELSE [failure |-> IF fullSays # NoFailure THEN fullSays ELSE shellSays,
                                 order |-> IF fullSays # NoFailure \/ fromFull
                                           THEN fullOrder ELSE shellOrder]
             says       == IF newerShell /\ shellSays # NoFailure
                           THEN [failure |-> IF keepFull \/ sameReason THEN fullSays ELSE shellSays,
                                 order |-> IF keepFull THEN [shellOrder EXCEPT !.id = fullOrder.id]
                                           ELSE shellOrder]
                           ELSE rest
             chosen     == Selected(full, fullOrder, shell, shellOrder)
  <1>1. source \in {full, shell} /\ source \in 1..Len(history)
    OBVIOUS
  <1>2. chosen = [seen |-> source, state |-> history[source].state,
                  failure |-> says.failure, order |-> says.order]
    BY DEF Selected
  <1>3. /\ fullSays \in MaybeFailure /\ shellSays \in MaybeFailure
        /\ history[source].state = "failed" => shellSays \in Failures
    <2>1. history[full].shown.full \in MaybeFailure /\ shellSays \in MaybeFailure
      BY <1>1, SeenFacts
    <2>2. history[source].state = "failed" => shellSays \in Failures
      BY <1>1, SeenFacts
    <2> QED
      BY <2>1, <2>2 DEF MaybeFailure
  <1>4. [shellOrder EXCEPT !.id = fullOrder.id] \in OrdersBy(clock)
    BY DEF OrdersBy, Orders
  <1> HIDE DEF fromFull, source, fullSays, shellSays, newerShell
  <1>5. rest.order \in OrdersBy(clock) /\ says.order \in OrdersBy(clock)
    BY <1>4
  <1>6. shellSays \in Failures => says.failure \in Failures
    BY <1>3, FailureIsSome DEF MaybeFailure
  <1> HIDE DEF says, chosen
  <1> QED
    BY <1>1, <1>2, <1>3, <1>5, <1>6 DEF chosen

LEMMA ObserveGetReads ==
  ASSUME EvidenceInv, NEW c \in Calls, ObserveGet(c)
  PROVE  \E after, seen, started, order :
           /\ seen \in 1..Len(history) /\ started \in 0..clock
           /\ Turns(after, history[seen].state, order) /\ Put(after) /\ Rests(seen, started, order)
           /\ Finish(c, Kept(after.row)) /\ Kept(after.row) \in MaybeFailure
  <1> DEFINE now    == call[c]
             fullOrder  == WithEra(OrderOf(now.full, "full", now.fullStarted), row)
             shellOrder == WithEra(OrderOf(now.seen, "shell", now.started), row)
             chosen == Selected(now.full, fullOrder, now.seen, shellOrder)
             after  == IF chosen.state = "running" /\ Kept(row) # NoFailure
                       THEN AfterRetaining(Kept(row), chosen.order, FALSE)
                       ELSE AfterView(chosen, chosen.order, FALSE)
             started == IF chosen.seen = now.seen THEN now.started ELSE now.fullStarted
  <1>1. EvidenceTypes /\ clock \in Nat /\ row \in RowsBy(clock)
    BY Counted DEF EvidenceInv, EvidenceTypes
  <1>2. /\ now.seen \in 1..Len(history) /\ now.started \in 0..clock
        /\ now.full \in 1..Len(history) /\ now.fullStarted \in 0..clock
    <2>1. Arrived(c, "get", 2)
      BY DEF ObserveGet
    <2>2. /\ now.seen \in 1..Len(history) /\ now.started \in 0..clock
          /\ now \in Readings(clock, Len(history)) /\ now.kind = "get" /\ now.step = 2
      BY <1>1, <2>1, ArrivedParts
    <2> QED
      BY <2>2, ReadingParts
  <1>3. Put(after) /\ Finish(c, Kept(after.row)) /\ Rests(chosen.seen, started, chosen.order)
    BY DEF ObserveGet
  <1>4. fullOrder \in OrdersBy(clock) /\ shellOrder \in OrdersBy(clock)
    BY <1>1, <1>2, OrderOfBy, WithEraBy
  <1> HIDE DEF fullOrder, shellOrder
  <1>5. /\ chosen.seen \in {now.full, now.seen} /\ chosen.state = history[chosen.seen].state
        /\ chosen.state = "failed" => chosen.failure \in Failures
        /\ chosen.order \in OrdersBy(clock)
    BY <1>1, <1>2, <1>4, SelectedParts
  <1> HIDE DEF chosen
  <1>6. Turns(after, chosen.state, chosen.order)
    BY <1>5, ViewTurns, ConfirmingTurns
  <1> HIDE DEF after
  <1>7. Kept(after.row) \in MaybeFailure
    BY <1>1, <1>6, RowParts DEF Turns
  <1> QED
    BY <1>2, <1>3, <1>5, <1>6, <1>7

LEMMA ObserveGetKeeps == ASSUME EvidenceInv, NEW c \in Calls, ObserveGet(c) PROVE EvidenceInv'
  <1>1. PICK after, seen, started, order :
           /\ seen \in 1..Len(history) /\ started \in 0..clock
           /\ Turns(after, history[seen].state, order) /\ Put(after) /\ Rests(seen, started, order)
           /\ Finish(c, Kept(after.row)) /\ Kept(after.row) \in MaybeFailure
    BY ObserveGetReads
  <1>2. call[c].started \in 0..clock /\ Recorded(call[c].started) /\ UNCHANGED <<history, clock, crashes>>
    BY ArrivedParts DEF EvidenceInv, ObserveGet
  <1> QED
    BY <1>1, <1>2, FinishingKeeps

LEMMA RunUnavailableKeeps == ASSUME EvidenceInv, NEW c \in Calls, RunUnavailable(c) PROVE EvidenceInv'
  <1>1. /\ call' = [call EXCEPT ![c] = Idle] /\ answer' \in {Kept(row), receipt}
        /\ UNCHANGED <<history, clock, journal, basis, latest, crashes>>
    BY DEF RunUnavailable, Finish
  <1>2. answer' \in MaybeFailure /\ latest' \in 0..clock' /\ clock' <= MaxReads
    BY <1>1, Counted, RowParts DEF EvidenceInv, EvidenceTypes
  <1> QED
    BY <1>1, <1>2, JournalRests, CallsKeep

LEMMA FailKeeps == ASSUME EvidenceInv, NEW c \in Calls, Fail(c) PROVE EvidenceInv'
  <1>1. /\ call' = [call EXCEPT ![c] = Idle]
        /\ UNCHANGED <<history, clock, journal, answer, basis, latest, crashes>>
    BY DEF Fail
  <1>2. answer' \in MaybeFailure /\ latest' \in 0..clock' /\ clock' <= MaxReads
    BY <1>1, Counted DEF EvidenceInv, EvidenceTypes
  <1> QED
    BY <1>1, <1>2, JournalRests, CallsKeep

LEMMA RestartKeeps == EvidenceInv /\ Restart => EvidenceInv'
  <1> SUFFICES ASSUME EvidenceInv, Restart PROVE EvidenceInv'
    OBVIOUS
  <1>1. /\ row' = saved.row /\ receipt' = receipt /\ call' = [c \in Calls |-> Idle]
        /\ UNCHANGED <<history, clock, saved, answer, basis, latest>>
        /\ crashes < MaxCrashes /\ crashes' = crashes + 1
    BY DEF Restart, EvidenceInv, SavedMatches
  <1>2. EvidenceTypes'
    BY <1>1, Counted DEF EvidenceInv, EvidenceTypes, Now
  <1>3. row'.state = row.state /\ (row' = NoRow <=> row = NoRow)
    <2>1. row'.state = row.state
      BY <1>1 DEF EvidenceInv, SavedMatches, Differ
    <2>2. row \in RowsBy(clock) /\ row' \in RowsBy(clock) /\ clock \in Nat
      BY <1>1, Counted DEF EvidenceInv, EvidenceTypes
    <2> QED
      BY <2>1, <2>2, RowParts
  <1>4. SavedMatches' /\ RecordsMatch'
    BY <1>1 DEF EvidenceInv, SavedMatches, RecordsMatch, Differ
  <1>5. RestsOnEvidence'
    BY <1>1, <1>3 DEF EvidenceInv, RestsOnEvidence, ReceiptMatches
  <1> QED
    BY <1>2, <1>4, <1>5 DEF EvidenceInv

\* What T3 will say next does not change what it said.
LEMMA TurnMoves ==
  ASSUME EvidenceInv, NEW fact \in Facts, history' = Append(history, fact), fact.seq <= Len(history) + 1,
         UNCHANGED <<clock, call, journal, answer, basis, latest, crashes>>
  PROVE  EvidenceInv'
  <1>1. /\ history \in Seq(Facts) /\ Len(history) \in Nat /\ clock \in Nat
        /\ basis \in [seen : 0..Len(history), started : 0..clock]
    BY Counted DEF EvidenceInv, EvidenceTypes
  <1>2. /\ history' \in Seq(Facts) /\ Len(history') = Len(history) + 1
        /\ history'[Len(history')] = fact
        /\ \A i \in 1..Len(history) : history'[i] = history[i]
    BY <1>1
  <1>3. Readings(clock, Len(history)) \subseteq Readings(clock, Len(history'))
    BY <1>1, <1>2, ReadingsGrow
  <1>4. EvidenceTypes'
    BY <1>1, <1>2, <1>3 DEF EvidenceInv, EvidenceTypes, Now, journal
  <1>5. RestsOnEvidence'
    BY <1>1, <1>2 DEF EvidenceInv, RestsOnEvidence, ReceiptMatches, journal
  <1> QED
    BY <1>4, <1>5 DEF EvidenceInv, SavedMatches, RecordsMatch, journal

LEMMA ReportsFail ==
  ASSUME NEW version \in {1, 2}
  PROVE  Reports(version) \subseteq [shell : Failures, full : Failures]
  <1>1. ASSUME NEW source \in {"turn", "session", "item", "activity"},
               NEW message \in Messages \cup {Bare}
        PROVE  Report(source, message) \in Failures
    BY DEF Report, Failures, Range, Sources
  <1> QED
    BY <1>1 DEF Reports

LEMMA T3Keeps == EvidenceInv /\ (Change \/ Switch) => EvidenceInv'
  <1> SUFFICES ASSUME EvidenceInv, Change \/ Switch PROVE EvidenceInv'
    OBVIOUS
  <1>1. Now \in Facts /\ Now.seq \in Nat /\ Now.seq <= Len(history) /\ Len(history) \in Nat
        /\ Now.version \in {1, 2} /\ Now.era \in Nat /\ Len(history) >= 1
    <2>1. Len(history) \in 1..Len(history) /\ history \in Seq(Facts)
      BY Counted DEF EvidenceInv, EvidenceTypes
    <2>2. Now \in Facts
      BY <2>1 DEF Now
    <2> QED
      BY <2>2, Counted DEF EvidenceInv, EvidenceTypes, Facts
  <1>2. CASE Change
    <2>1. PICK state \in {"failed", "recovered"}, shown \in Reports(Now.version) \cup {NothingFailed} :
            /\ (state = "failed") = (shown # NothingFailed)
            /\ history' = Append(history, [state |-> state, shown |-> shown, seq |-> Now.seq + 1,
                                           version |-> Now.version, era |-> Now.era])
      BY <1>2 DEF Change
    <2>2. [state |-> state, shown |-> shown, seq |-> Now.seq + 1, version |-> Now.version,
           era |-> Now.era] \in Facts
      BY <1>1, <2>1, ReportsFail DEF Facts
    <2> QED
      BY <1>1, <1>2, <2>1, <2>2, TurnMoves DEF Change
  <1>3. CASE Switch
    <2>1. PICK shown \in IF Failed(Now) THEN Reports(3 - Now.version) ELSE {NothingFailed} :
            history' = Append(history, [state |-> Now.state, shown |-> shown, seq |-> 1,
                                        version |-> 3 - Now.version, era |-> Now.era + 1])
      BY <1>3 DEF Switch
    <2>2. 3 - Now.version \in {1, 2}
      BY <1>1
    <2>3. [state |-> Now.state, shown |-> shown, seq |-> 1, version |-> 3 - Now.version,
           era |-> Now.era + 1] \in Facts
      BY <1>1, <2>1, <2>2, ReportsFail DEF Facts, Failed
    <2> QED
      BY <1>1, <1>3, <2>1, <2>3, TurnMoves DEF Switch
  <1> QED
    BY <1>2, <1>3

LEMMA EvidenceInitHolds == EvidenceInit => EvidenceInv
  <1> SUFFICES ASSUME EvidenceInit PROVE EvidenceInv
    OBVIOUS
  <1>1. PICK v \in {1, 2} :
          history = <<[state |-> "running", shown |-> NothingFailed, seq |-> 1, version |-> v, era |-> 1]>>
    BY DEF EvidenceInit
  <1>2. history \in Seq(Facts) /\ Len(history) = 1 /\ Now.seq = 1
    BY <1>1 DEF Facts, Now
  <1>3. NoRow \in RowsBy(clock) /\ NoFailure \in MaybeFailure
    BY DEF RowsBy, MaybeFailure
  <1>4. EvidenceTypes
    BY <1>2, <1>3, KnownAssumption DEF EvidenceTypes, EvidenceInit
  <1>5. SavedMatches /\ RecordsMatch /\ RestsOnEvidence
    BY DEF EvidenceInit, SavedMatches, Differ, RecordsMatch, RestsOnEvidence, ReceiptMatches, NoRow, None
  <1> QED
    BY <1>4, <1>5 DEF EvidenceInv

LEMMA EvidenceNextKeeps == EvidenceInv /\ [EvidenceNext]_evidenceVars => EvidenceInv'
  <1>1. ASSUME EvidenceInv, UNCHANGED evidenceVars PROVE EvidenceInv'
    BY <1>1 DEF evidenceVars, EvidenceInv, EvidenceTypes, SavedMatches, RecordsMatch, RestsOnEvidence,
      ReceiptMatches, Now
  <1> QED
    BY <1>1, StartKeeps, ServeKeeps, GetShellKeeps, ObserveShellKeeps, ObserveFullKeeps, ObserveRunKeeps,
       ObserveGetKeeps, RunUnavailableKeeps, FailKeeps, RestartKeeps, T3Keeps DEF EvidenceNext

THEOREM EvidenceInvariant == EvidenceSpec => []EvidenceInv
  BY EvidenceInitHolds, EvidenceNextKeeps, PTL DEF EvidenceSpec

\* journal.rs:664 and 884: however reads overlap, T3 changes its protocol and the
\* gateway restarts, the journal says failed or recovered as T3 did in a view
\* that was admitted, and the run's receipt agrees.
THEOREM RestsOnEvidenceHolds == EvidenceSpec => []RestsOnEvidence
  <1>1. EvidenceInv => RestsOnEvidence
    BY DEF EvidenceInv
  <1> QED
    BY <1>1, EvidenceInvariant, PTL

\* Every variable of the retained evidence has its type; an era begins no later
\* than the read that is retained, and no read starts after the clock.
THEOREM EvidenceTyped == EvidenceSpec => []EvidenceTypeOK
  <1>1. EvidenceInv => EvidenceTypeOK
    <2> SUFFICES ASSUME EvidenceInv PROVE EvidenceTypeOK
      OBVIOUS
    <2>1. clock \in Nat
      BY Counted DEF EvidenceInv
    <2>2. RowsBy(clock) \subseteq {NoRow} \cup Rows
      BY DEF RowsBy, Rows, OrdersBy
    <2>3. row # NoRow => row.order.started <= clock /\ row.order.era <= row.order.started
      BY <2>1, RowParts DEF EvidenceInv, EvidenceTypes, OrdersBy
    <2> QED
      BY <2>2, <2>3 DEF EvidenceInv, EvidenceTypes, EvidenceTypeOK, MaybeFailure
  <1> QED
    BY <1>1, EvidenceInvariant, PTL

\* run.rs:120, thread.rs:90, gateway.rs:1400: a call that finishes reports what
\* the journal holds then, not what it held when the call began.
THEOREM AnswersMatchHold == EvidenceSpec => AnswersMatch
  <1> DEFINE Matches == answer' # answer => answer' = Kept(row')
  <1>1. EvidenceInv /\ [EvidenceNext]_evidenceVars => [Matches]_evidenceVars
    <2> SUFFICES ASSUME EvidenceInv, EvidenceNext PROVE Matches
      OBVIOUS
    <2>1. ASSUME NEW c \in Calls, ObserveFull(c) \/ ObserveRun(c) \/ ObserveGet(c) PROVE Matches
      <3>1. PICK after : Put(after) /\ Finish(c, Kept(after.row))
        BY <2>1, ObserveFullReads, ObserveRunReads, ObserveGetReads
      <3> QED
        BY <3>1 DEF Put, Save, Finish
    <2>2. ASSUME NEW c \in Calls, RunUnavailable(c) PROVE Matches
      <3>1. answer' = (IF Kept(row) # NoFailure THEN Kept(row) ELSE receipt) /\ row' = row
        BY <2>2 DEF RunUnavailable, Finish, journal
      <3>2. Kept(row) = NoFailure => receipt = NoFailure
        BY Counted, RowParts DEF EvidenceInv, EvidenceTypes, RestsOnEvidence, ReceiptMatches
      <3> QED
        BY <3>1, <3>2
    <2>3. CASE answer' = answer
      BY <2>3
    <2> QED
      BY <2>1, <2>2, <2>3 DEF EvidenceNext, Change, Switch, Restart, Start, Serve, GetShell, ObserveShell, Fail
  <1> QED
    BY <1>1, EvidenceInvariant, PTL DEF EvidenceSpec, AnswersMatch
=============================================================================
