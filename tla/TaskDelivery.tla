---------------------------- MODULE TaskDelivery -----------------------------
(***************************************************************************)
(* What t3_task_start and t3_task_get promise together, for each task key: *)
(* T3 gets one thread of its own and then, in it, one run, unless a        *)
(* refusal came first, which is final; and calls only tell what is so.     *)
(***************************************************************************)
CONSTANTS Keys,     \* task idempotency keys
          Minters,  \* what may be the id of a thread or a run
          NoId,     \* an id that is not there
          Calls,    \* starts and polls
          Answers   \* what they may answer

VARIABLES task,     \* the task a call is about
          thread,   \* T3: the thread each task has
          run,      \* T3: and the run in it
          refused,  \* the tasks that were refused a thread or a run
          said      \* what each call last answered

Init ==
  /\ task \in [Calls -> Keys]
  /\ thread = [k \in Keys |-> NoId] /\ run = [k \in Keys |-> NoId]
  /\ refused = {}
  /\ said = [c \in Calls |-> "none"]

\* T3 creates the thread of a task, which no other task has.
CreateThread(k) ==
  /\ k \notin refused /\ thread[k] = NoId
  /\ \E id \in Minters :
       /\ \A j \in Keys : thread[j] # id
       /\ thread' = [thread EXCEPT ![k] = id]
  /\ UNCHANGED <<task, run, refused, said>>

\* T3 starts the run of a task.
StartRun(k) ==
  /\ k \notin refused /\ thread[k] # NoId /\ run[k] = NoId
  /\ \E id \in Minters :
       /\ \A j \in Keys : run[j] # id
       /\ run' = [run EXCEPT ![k] = id]
  /\ UNCHANGED <<task, thread, refused, said>>

\* A task without a run never gets one.
Refuse(k) ==
  /\ run[k] = NoId
  /\ refused' = refused \cup {k}
  /\ UNCHANGED <<task, thread, run, said>>

\* May a call about task k answer so?
Holds(k, what) ==
  /\ what = "thread_created"    => thread[k] # NoId
  /\ what = "run_accepted"      => run[k] # NoId
  /\ what = "dispatch_rejected" => k \in refused /\ thread[k] # NoId
  /\ what = "rejected"          => thread[k] = NoId

\* Calls answer, or a crash ends them.
Tell ==
  /\ said' \in [Calls -> Answers]
  /\ \A c \in Calls : said'[c] # said[c] => Holds(task[c], said'[c])
  /\ UNCHANGED <<task, thread, run, refused>>

Next == Tell \/ \E k \in Keys : CreateThread(k) \/ StartRun(k) \/ Refuse(k)

Spec == Init /\ [][Next]_<<task, thread, run, refused, said>>
=============================================================================
