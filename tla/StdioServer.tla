----------------------------- MODULE StdioServer -----------------------------
(***************************************************************************)
(* The stdio transport (stdio_messages in rust/src/runtime.rs): a reader    *)
(* that admits messages line by line, a task per message, and a writer that *)
(* takes frames from one bounded queue (mcp/output.rs) and puts them on     *)
(* standard output, through to the end of the process.                      *)
(*                                                                          *)
(* The reader's client may close its end of either pipe, or stop reading.   *)
(* The queue is bounded by frames and by bytes; a frame has one unit here.  *)
(***************************************************************************)
EXTENDS FiniteSets, Naturals, Sequences, SequencesExt

CONSTANTS Requests,  \* requests the client sends, each once
          Note,      \* a notification that T3's tools have changed
          Capacity,  \* frames the queue takes
          MaxNotes   \* bound: notifications

ASSUME CapacityAssumption ==
  Capacity \in Nat \ {0} /\ Note \notin Requests /\ MaxNotes \in Nat

VARIABLES
  phase,    \* of the reader: reading, draining, flushing, ended
  pc,       \* of each request's task
  queue,    \* frames handed over, not yet taken by the writer
  sender,   \* may frames be handed over?
  failed,   \* the output has failed: closed under the writer, or overflowed
  writer,   \* what the writer does; it holds at most one frame
  frame,
  written,  \* frames on standard output, whole
  native,   \* the peer's connection to T3
  failure,  \* the error that run_stdio returns
  order,    \* the frames handed over, in order
  notes     \* notifications so far

outputVars == <<queue, sender, failed, order>>
writerVars == <<writer, frame, written>>
vars == <<phase, pc, outputVars, writerVars, native, failure, notes>>

Frames == Requests \cup {Note}

TypeOK ==
  /\ phase \in {"reading", "draining", "flushing", "ended"}
  /\ pc \in [Requests -> {"new", "running", "ended"}]
  /\ queue \in Seq(Frames) /\ Len(queue) <= Capacity
  /\ sender \in BOOLEAN /\ failed \in BOOLEAN /\ failure \in BOOLEAN
  /\ writer \in {"starting", "waiting", "writing", "done", "broken"}
  /\ frame \in Seq(Frames) /\ Len(frame) = (IF writer = "writing" THEN 1 ELSE 0)
  /\ written \in Seq(Frames) /\ order \in Seq(Frames)
  /\ native \in {"none", "open", "closed"}
  /\ notes \in 0 .. MaxNotes

Init ==
  /\ phase = "reading" /\ pc = [r \in Requests |-> "new"]
  /\ queue = <<>> /\ sender = TRUE /\ failed = FALSE /\ order = <<>>
  /\ writer = "starting" /\ frame = <<>> /\ written = <<>>
  /\ native = "none" /\ failure = FALSE /\ notes = 0

-----------------------------------------------------------------------------
(* The queue (Delivery::send_bytes): a frame that finds no room ends it *)

HandOver(f) ==
  IF ~sender THEN UNCHANGED outputVars
  ELSE IF Len(queue) < Capacity
  THEN queue' = Append(queue, f) /\ order' = Append(order, f) /\ UNCHANGED <<sender, failed>>
  ELSE sender' = FALSE /\ failed' = TRUE /\ UNCHANGED <<queue, order>>

-----------------------------------------------------------------------------
(* The reader *)

Running == {r \in Requests : pc[r] = "running"}

\* A line is read and its request admitted, in the order of the input; a line
\* that is no message is logged and skipped, one that never ends is dropped.
Read(r) ==
  /\ phase = "reading" /\ pc[r] = "new"
  /\ pc' = [pc EXCEPT ![r] = "running"]
  /\ UNCHANGED <<phase, outputVars, writerVars, native, failure, notes>>

\* The task of a request opens the peer's connection, if it needs T3.
Connect(r) ==
  /\ r \in Running /\ native = "none"
  /\ native' = "open"
  /\ UNCHANGED <<phase, pc, outputVars, writerVars, failure, notes>>

\* Mutant: the connection goes with the reader's close, whoever uses it.
ConnectionAtOnce(left) == IF native = "open" THEN "closed" ELSE native

\* The peer is closed and nobody runs any more: so is its connection.
Connection(left) == IF native = "open" /\ left = {} THEN "closed" ELSE native

\* A task ends with its answer.
Answer(r) ==
  /\ r \in Running
  /\ HandOver(r)
  /\ pc' = [pc EXCEPT ![r] = "ended"]
  /\ native' = IF phase = "reading" THEN native ELSE Connection(Running \ {r})
  /\ UNCHANGED <<phase, writerVars, failure, notes>>

\* Closing: the end of the input, a signal, an error of the input, or a failed
\* output.  The peer is closed: it takes no notification to the output any
\* more, but what runs goes on and may answer.
Stop(error) ==
  /\ phase = "reading" /\ phase' = "draining"
  /\ failure' = error
  /\ native' = Connection(Running)
  /\ UNCHANGED <<pc, outputVars, writerVars, notes>>

Close == \E error \in BOOLEAN : Stop(error)

\* The peer of the process tells its client of changed tools while it is open.
Notify ==
  /\ native = "open" /\ phase = "reading" /\ notes < MaxNotes
  /\ notes' = notes + 1
  /\ HandOver(Note)
  /\ UNCHANGED <<phase, pc, writerVars, native, failure>>

\* Mutant: the queue is finished when the input ends, not when the tasks have.
FlushAtOnce ==
  /\ phase = "draining" /\ phase' = "flushing"
  /\ sender' = FALSE
  /\ UNCHANGED <<pc, queue, failed, order, writerVars, native, failure, notes>>

\* Every task has ended: the writer gets no more.
Flush ==
  /\ phase = "draining" /\ Running = {}
  /\ phase' = "flushing"
  /\ sender' = FALSE
  /\ UNCHANGED <<pc, queue, failed, order, writerVars, native, failure, notes>>

\* The writer has ended; its error is the session's, unless there was one.
End ==
  /\ phase = "flushing" /\ writer \in {"done", "broken"}
  /\ phase' = "ended"
  /\ failure' = (failure \/ writer = "broken")
  /\ UNCHANGED <<pc, outputVars, writerVars, native, notes>>

\* Mutant: only a writer that holds no frame is aborted.
AbandonIfIdle ==
  /\ phase = "flushing" /\ writer \in {"starting", "waiting"}
  /\ phase' = "ended" /\ writer' = "broken" /\ frame' = <<>>
  /\ failed' = TRUE /\ failure' = TRUE
  /\ UNCHANGED <<pc, queue, sender, order, written, native, notes>>

\* The writer has not ended within five seconds: it is aborted.
Abandon ==
  /\ phase = "flushing" /\ writer \notin {"done", "broken"}
  /\ phase' = "ended" /\ writer' = "broken" /\ frame' = <<>>
  /\ failed' = TRUE /\ failure' = TRUE
  /\ UNCHANGED <<pc, queue, sender, order, written, native, notes>>

-----------------------------------------------------------------------------
(* The writer *)

Idle == UNCHANGED <<phase, pc, native, failure, notes>>

\* Standard output is set up not to block, and registered.
SetUp ==
  /\ writer = "starting" /\ writer' = "waiting"
  /\ UNCHANGED <<frame, written, outputVars>> /\ Idle

\* The next frame, unless the output has failed: what is queued is lost then.
Take ==
  /\ writer = "waiting" /\ ~failed /\ queue # <<>>
  /\ queue' = Tail(queue) /\ frame' = <<Head(queue)>> /\ writer' = "writing"
  /\ UNCHANGED <<sender, failed, order, written>> /\ Idle

\* The frame is out, whole.
Written ==
  /\ writer = "writing" /\ ~failed
  /\ written' = written \o frame /\ frame' = <<>> /\ writer' = "waiting"
  /\ UNCHANGED outputVars /\ Idle

\* Standard output is closed, or could not be set up: the output fails, and
\* the writer ends.
Breaks ==
  /\ writer \in {"starting", "writing"} \/ (writer = "waiting" /\ failed)
  /\ writer' = "broken" /\ frame' = <<>>
  /\ sender' = FALSE /\ failed' = TRUE
  /\ UNCHANGED <<queue, order, written>> /\ Idle

\* Nothing is queued and no more is to come.
Done ==
  /\ writer = "waiting" /\ ~failed /\ ~sender /\ queue = <<>>
  /\ writer' = "done"
  /\ UNCHANGED <<frame, written, outputVars>> /\ Idle

Writer == SetUp \/ Take \/ Written \/ Breaks \/ Done

-----------------------------------------------------------------------------
Next ==
  \/ \E r \in Requests : Read(r) \/ Connect(r) \/ Answer(r)
  \/ Close \/ Notify \/ Flush \/ End \/ Abandon
  \/ Writer

Spec == Init /\ [][Next]_vars

-----------------------------------------------------------------------------
\* Answers leave in the order they were handed over, none twice, none skipped:
\* a broken output ends them, it leaves no gap.
WrittenInOrder == IsPrefix(written, order)

\* A task is never kept waiting by a client that does not read: an answer that
\* finds the queue full makes the output fail, and an answer is then missing
\* only with a failure.  No frame is dropped while the output goes on.
OnlyFailureDrops ==
  \A r \in Requests : pc[r] = "ended" /\ ~failed => r \in Range(order)

\* When the session ends without an error, every request that was read has its
\* answer on standard output, also those whose answer came after the input had
\* ended; and until then answers leave in order, without a gap.
NothingIsLost ==
  /\ phase = "ended" /\ ~failure =>
       \A r \in Requests : pc[r] # "new" => r \in Range(written)
  /\ WrittenInOrder /\ OnlyFailureDrops

\* A request in progress keeps its connection, after the input has ended too;
\* when the process ends, none is open.
ConnectionLivesWithTasks ==
  /\ native = "closed" => Running = {}
  /\ phase \in {"flushing", "ended"} => native # "open"
=============================================================================
