--------------------------- MODULE DurableJournal ---------------------------
(***************************************************************************)
(* What the operation journal promises its callers: every operation takes  *)
(* effect at one instant and at once durably, or not at all, and the       *)
(* journal is opened again, with every prepared receipt made uncertain,    *)
(* before anything is read from it or written to it after a crash.         *)
(***************************************************************************)
EXTENDS Receipts

VARIABLES book,  \* the durable content: receipts and tasks
          open   \* may the journal be used?

NewBook == [ops |-> NoOps, tasks |-> NoTasks]

Prepared(ops) == \E k \in Keys, d \in Kinds : ops[k][d].status = "prepared"

Init == book = NewBook /\ open = FALSE

-----------------------------------------------------------------------------
(* The operations, as relations between two contents. *)

Begins(b, new) ==
  \E k \in Keys, d \in Kinds, p \in Payloads, m, t \in Minters :
    /\ b.ops[k][d].status = "none"
    /\ new = [b EXCEPT !.ops[k][d] = NewReceipt(p, m, t)]

BeginsTask(b, new) ==
  \E k \in Keys, p \in Payloads :
    /\ b.tasks[k].stage = "none"
    /\ new = [b EXCEPT !.tasks[k] = NewTask(p)]

\* update finds the receipt by its operation id and patches its status.
Updates(b, new) ==
  \E k \in Keys, d \in Kinds, s \in Statuses \ {"prepared"} :
    /\ b.ops[k][d].status # "none"
    /\ new = [b EXCEPT !.ops[k][d].status = s]

\* update_task patches the stage and the ids, or the baseline.
UpdatesTask(b, new) ==
  \E k \in Keys :
    /\ b.tasks[k].stage # "none"
    /\ \/ \E s \in Stages, t, r \in Ids :
            new = [b EXCEPT !.tasks[k].stage = s, !.tasks[k].thread = t,
                            !.tasks[k].run = r]
       \/ \E a \in Baselines \ {"none"} :
            new = [b EXCEPT !.tasks[k].baseline = a]

RefreshesTask(b, new) ==
  \E k \in Keys :
    /\ b.tasks[k].stage # "none"
    /\ new = [b EXCEPT !.tasks[k] = Refreshed(@, b.ops[k])]

Writes(b, new) ==
  \/ Begins(b, new) \/ BeginsTask(b, new) \/ Updates(b, new)
  \/ UpdatesTask(b, new) \/ RefreshesTask(b, new)

-----------------------------------------------------------------------------
Write == open /\ Writes(book, book') /\ UNCHANGED open

Recover ==
  /\ ~open
  /\ book' = [book EXCEPT !.ops = Recovered(@)]
  /\ UNCHANGED open

Open == ~open /\ ~Prepared(book.ops) /\ open' = TRUE /\ UNCHANGED book

Crash == open /\ open' = FALSE /\ UNCHANGED book

Next == Write \/ Recover \/ Open \/ Crash

Spec == Init /\ [][Next]_<<book, open>>
=============================================================================
