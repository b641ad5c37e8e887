---------------------------- MODULE RuntimeProofs ----------------------------
(***************************************************************************)
(* What a process promises when it exits with success, for any number of   *)
(* requests, any capacity of the queue and of the table of sessions.       *)
(* Over stdio the invariant says where every frame handed over is; over    *)
(* HTTP it is that of HttpSessionsProofs, whose steps are those of Runtime's *)
(* instance of HttpSessions.                                               *)
(***************************************************************************)
EXTENDS Runtime, SequenceTheorems, TLAPS

\* What the writer has taken.
Taken == written \o frame

\* Frames that were handed over are on the output, with the writer or in the
\* queue, in that order, as long as the output has not failed; a failed one
\* keeps what it wrote.
FramesAreKept ==
  /\ WrittenInOrder /\ OnlyFailureDrops
  /\ ~failed => order = Taken \o queue

\* Only the reader's end, and a failure, keep frames from being handed over;
\* the reader ends after the tasks, and without an error after the writer.
EndsAreOrdered ==
  /\ failed => ~sender
  /\ ~sender /\ ~failed => phase \in {"flushing", "ended"}
  /\ phase \in {"flushing", "ended"} => Running = {} /\ ~sender
  /\ writer = "done" => ~failed /\ ~sender /\ queue = <<>>
  /\ phase = "ended" /\ ~failure => writer = "done"

\* The connection goes when the reader has stopped and the last task has ended.
ConnectionIsHeld ==
  /\ native = "closed" => phase # "reading" /\ Running = {}
  /\ phase # "reading" /\ Running = {} => native # "open"

StdioInv == TypeOK /\ FramesAreKept /\ EndsAreOrdered /\ ConnectionIsHeld

-----------------------------------------------------------------------------
(* Prefixes and ranges                                                     *)

LEMMA ConcatExtends ==
  ASSUME NEW S, NEW s \in Seq(S), NEW t \in Seq(S)
  PROVE  IsPrefix(s, s \o t)
<1>1. Len(s \o t) = Len(s) + Len(t) /\ \A i \in 1 .. Len(s) : (s \o t)[i] = s[i]
  BY ConcatProperties
<1>2. Len(s) \in Nat /\ Len(t) \in Nat
  OBVIOUS
<1>3. SubSeq(s, 1, Len(s)) = SubSeq(s \o t, 1, Len(s))
  BY <1>1, <1>2
<1> QED
  BY <1>1, <1>2, <1>3 DEF IsPrefix

LEMMA AppendExtends ==
  ASSUME NEW S, NEW s \in Seq(S), NEW t \in Seq(S), NEW e \in S, IsPrefix(s, t)
  PROVE  IsPrefix(s, Append(t, e))
<1>1. Len(Append(t, e)) = Len(t) + 1 /\ \A i \in 1 .. Len(t) : Append(t, e)[i] = t[i]
  OBVIOUS
<1>2. Len(s) \in Nat /\ Len(t) \in Nat /\ Len(s) =< Len(t)
  BY DEF IsPrefix
<1>3. SubSeq(t, 1, Len(s)) = SubSeq(Append(t, e), 1, Len(s))
  BY <1>1, <1>2
<1> QED
  BY <1>1, <1>2, <1>3 DEF IsPrefix

LEMMA AppendRange ==
  ASSUME NEW S, NEW s \in Seq(S), NEW e \in S
  PROVE  Range(s) \cup {e} \subseteq Range(Append(s, e))
<1>1. DOMAIN s = 1 .. Len(s) /\ DOMAIN Append(s, e) = 1 .. Len(s) + 1
  OBVIOUS
<1>2. Append(s, e)[Len(s) + 1] = e /\ \A i \in 1 .. Len(s) : Append(s, e)[i] = s[i]
  OBVIOUS
<1>3. Len(s) \in Nat
  OBVIOUS
<1> QED
  BY <1>1, <1>2, <1>3 DEF Range

LEMMA HeadFirst ==
  ASSUME NEW S, NEW s \in Seq(S), s # <<>>
  PROVE  s = <<Head(s)>> \o Tail(s)
  OBVIOUS

-----------------------------------------------------------------------------
LEMMA StdioInit == Init => StdioInv
<1> SUFFICES ASSUME Init PROVE StdioInv
  OBVIOUS
<1> USE DEF Init
<1>1. TypeOK
  <2>1. <<>> \in Seq(Frames) /\ Len(<<>>) = 0 /\ 0 \in 0 .. MaxNotes /\ 0 =< Capacity
        /\ writer # "writing"
    BY EmptySeq, CapacityAssumption
  <2>2. /\ queue \in Seq(Frames) /\ Len(queue) =< Capacity
        /\ frame \in Seq(Frames) /\ Len(frame) = (IF writer = "writing" THEN 1 ELSE 0)
        /\ written \in Seq(Frames) /\ order \in Seq(Frames) /\ notes \in 0 .. MaxNotes
    BY <2>1
  <2> QED
    BY <2>2 DEF TypeOK
<1>2. FramesAreKept
  <2>1. IsPrefix(<<>>, <<>>)
    BY DEF IsPrefix
  <2>2. <<>> = (<<>> \o <<>>) \o <<>>
    OBVIOUS
  <2>3. OnlyFailureDrops
    BY DEF OnlyFailureDrops
  <2> QED
    BY <2>1, <2>2, <2>3 DEF FramesAreKept, WrittenInOrder, Taken
<1>3. EndsAreOrdered /\ ConnectionIsHeld
  BY DEF EndsAreOrdered, ConnectionIsHeld
<1> QED
  BY <1>1, <1>2, <1>3 DEF StdioInv

(* A frame is handed over, or lost with the output.                        *)
LEMMA HandOverKeeps ==
  ASSUME StdioInv, NEW f \in Frames, HandOver(f), UNCHANGED <<writerVars, phase>>
  PROVE  /\ queue' \in Seq(Frames) /\ Len(queue') =< Capacity /\ order' \in Seq(Frames)
         /\ sender' \in BOOLEAN /\ failed' \in BOOLEAN
         /\ WrittenInOrder'
         /\ ~failed' => order' = Taken \o queue'
         /\ ~failed' => Range(order) \subseteq Range(order') /\ ~failed
         /\ ~failed' /\ sender => f \in Range(order')
         /\ failed' => ~sender'
         /\ ~sender' /\ ~failed' => ~sender
         /\ sender' => sender
         /\ ~sender => UNCHANGED outputVars
<1> USE DEF StdioInv, TypeOK, HandOver, outputVars, writerVars
<1>0. failed => ~sender
  BY DEF EndsAreOrdered
<1>1. CASE ~sender
  BY <1>1 DEF FramesAreKept, WrittenInOrder, EndsAreOrdered
<1>2. CASE sender /\ ~(Len(queue) < Capacity)
  <2>1. sender' = FALSE /\ failed' = TRUE /\ UNCHANGED <<queue, order>>
    BY <1>2
  <2> QED
    BY <1>0, <1>2, <2>1 DEF FramesAreKept, WrittenInOrder
<1>3. CASE sender /\ Len(queue) < Capacity
  <2>1. queue' = Append(queue, f) /\ order' = Append(order, f) /\ UNCHANGED <<sender, failed>>
    BY <1>3
  <2>2. Len(queue') = Len(queue) + 1 /\ queue' \in Seq(Frames) /\ order' \in Seq(Frames)
    BY <2>1
  <2>3. WrittenInOrder'
    BY <2>1, AppendExtends DEF FramesAreKept, WrittenInOrder
  <2>4. ASSUME ~failed PROVE order' = Taken \o queue'
    <3>1. Taken \in Seq(Frames) /\ queue \in Seq(Frames)
      BY DEF Taken
    <3>2. Append(Taken \o queue, f) = Taken \o Append(queue, f)
      <4> HIDE DEF StdioInv, TypeOK, HandOver, outputVars, writerVars
      <4> QED
        BY <3>1
    <3>3. order = Taken \o queue
      BY <2>4 DEF FramesAreKept
    <3> QED
      BY <2>1, <3>2, <3>3, Zenon
  <2>5. Range(order) \cup {f} \subseteq Range(order')
    BY <2>1, AppendRange
  <2>6. Len(queue') =< Capacity /\ sender' = sender /\ failed' = failed /\ ~failed
    BY <1>3, <2>1, <2>2, CapacityAssumption DEF EndsAreOrdered
  <2> QED
    BY <1>3, <2>2, <2>3, <2>4, <2>5, <2>6
<1> QED
  BY <1>1, <1>2, <1>3, CapacityAssumption

(* A task reads, connects, answers.                                        *)
LEMMA TasksKeep ==
  ASSUME StdioInv, NEW r \in Requests, Read(r) \/ Connect(r)
  PROVE  StdioInv'
<1> USE DEF Read, Connect, outputVars, writerVars
<1>1. TypeOK'
  BY DEF StdioInv, TypeOK
<1>2. UNCHANGED <<phase, queue, sender, failed, order, writer, frame, written, failure>>
  OBVIOUS
<1>3. \A q \in Requests : pc'[q] = "ended" <=> pc[q] = "ended"
  BY DEF StdioInv, TypeOK, Running
<1>4. FramesAreKept'
  BY <1>2, <1>3 DEF StdioInv, FramesAreKept, WrittenInOrder, OnlyFailureDrops, Taken
<1>5. r \in Running' \/ phase = "reading"
  BY DEF Running
<1>6. phase # "reading" => pc' = pc /\ Running' = Running /\ r \in Running
  BY DEF Running
<1>7. EndsAreOrdered'
  BY <1>2, <1>6 DEF StdioInv, EndsAreOrdered
<1>8. ConnectionIsHeld'
  BY <1>2, <1>6 DEF StdioInv, ConnectionIsHeld
<1> QED
  BY <1>1, <1>4, <1>7, <1>8 DEF StdioInv

LEMMA AnswerKeeps ==
  ASSUME StdioInv, NEW r \in Requests, Answer(r)
  PROVE  StdioInv'
<1> USE DEF Answer
<1>1. r \in Frames /\ HandOver(r) /\ UNCHANGED <<writerVars, phase>>
  BY DEF Frames
<1>2. /\ queue' \in Seq(Frames) /\ Len(queue') =< Capacity /\ order' \in Seq(Frames)
      /\ sender' \in BOOLEAN /\ failed' \in BOOLEAN
      /\ WrittenInOrder'
      /\ ~failed' => order' = Taken \o queue'
      /\ ~failed' => Range(order) \subseteq Range(order') /\ ~failed
      /\ ~failed' /\ sender => r \in Range(order')
      /\ failed' => ~sender'
      /\ ~sender' /\ ~failed' => ~sender
      /\ sender' => sender
      /\ ~sender => UNCHANGED outputVars
  BY <1>1, HandOverKeeps
<1>3. UNCHANGED <<phase, writer, frame, written, failure, notes, Taken>>
  BY DEF writerVars, Taken
<1>4. pc' = [pc EXCEPT ![r] = "ended"] /\ pc \in [Requests -> {"new", "running", "ended"}]
  BY DEF StdioInv, TypeOK
<1>5. r \in Running /\ Running' = Running \ {r}
  BY <1>4 DEF Running
<1>6. phase \notin {"flushing", "ended"}
  BY <1>5 DEF StdioInv, EndsAreOrdered
<1>7. native' = IF phase = "reading" THEN native ELSE Connection(Running \ {r})
  OBVIOUS
<1>8. TypeOK'
  BY <1>2, <1>3, <1>4, <1>7 DEF StdioInv, TypeOK, Connection
<1>9. OnlyFailureDrops'
  BY <1>2, <1>4, <1>6 DEF StdioInv, FramesAreKept, OnlyFailureDrops, EndsAreOrdered
<1>10. FramesAreKept'
  BY <1>2, <1>3, <1>9 DEF FramesAreKept
<1>11. EndsAreOrdered'
  BY <1>2, <1>3, <1>6 DEF StdioInv, EndsAreOrdered, outputVars
<1>12. ConnectionIsHeld'
  BY <1>3, <1>5, <1>7 DEF StdioInv, ConnectionIsHeld, Connection
<1> QED
  BY <1>8, <1>10, <1>11, <1>12 DEF StdioInv

LEMMA NotifyKeeps == StdioInv /\ Notify => StdioInv'
<1> SUFFICES ASSUME StdioInv, Notify PROVE StdioInv'
  OBVIOUS
<1> USE DEF Notify
<1>1. Note \in Frames /\ HandOver(Note) /\ UNCHANGED <<writerVars, phase>>
  BY DEF Frames
<1>2. /\ queue' \in Seq(Frames) /\ Len(queue') =< Capacity /\ order' \in Seq(Frames)
      /\ sender' \in BOOLEAN /\ failed' \in BOOLEAN
      /\ WrittenInOrder'
      /\ ~failed' => order' = Taken \o queue'
      /\ ~failed' => Range(order) \subseteq Range(order') /\ ~failed
      /\ failed' => ~sender'
      /\ ~sender' /\ ~failed' => ~sender
      /\ sender' => sender
      /\ ~sender => UNCHANGED outputVars
  BY <1>1, HandOverKeeps
<1>3. UNCHANGED <<phase, pc, native, writer, frame, written, failure, Taken, Running>>
  BY DEF writerVars, Taken, Running
<1>4. TypeOK'
  <2>1. notes' \in 0 .. MaxNotes
    BY CapacityAssumption DEF StdioInv, TypeOK
  <2> QED
    BY <1>2, <1>3, <2>1 DEF StdioInv, TypeOK
<1>5. FramesAreKept'
  BY <1>2, <1>3 DEF StdioInv, FramesAreKept, OnlyFailureDrops
<1>6. EndsAreOrdered' /\ ConnectionIsHeld'
  BY <1>2, <1>3 DEF StdioInv, EndsAreOrdered, ConnectionIsHeld, outputVars
<1> QED
  BY <1>4, <1>5, <1>6 DEF StdioInv

(* The reader stops, finishes the queue once every task has ended, and ends. *)
LEMMA ReaderKeeps == StdioInv /\ (Close \/ Flush \/ End \/ Abandon) => StdioInv'
<1> SUFFICES ASSUME StdioInv, Close \/ Flush \/ End \/ Abandon PROVE StdioInv'
  OBVIOUS
<1> USE DEF Close, Stop, Flush, End, Abandon, outputVars, writerVars
<1>1. TypeOK'
  <2>1. CASE Abandon
    BY <2>1, EmptySeq DEF StdioInv, TypeOK
  <2>2. CASE Close
    BY <2>2 DEF StdioInv, TypeOK, Connection
  <2> QED
    BY <2>1, <2>2 DEF StdioInv, TypeOK
<1>2. UNCHANGED <<pc, queue, order, written, Running>>
  BY DEF Running
<1>3. failed' \/ UNCHANGED <<failed, frame, Taken>>
  BY DEF Taken
<1>4. FramesAreKept'
  <2> HIDE DEF Close, Stop, Flush, End, Abandon
  <2>1. WrittenInOrder'
    BY <1>2 DEF StdioInv, FramesAreKept, WrittenInOrder
  <2>2. failed' \/ OnlyFailureDrops'
    BY <1>2, <1>3 DEF StdioInv, FramesAreKept, OnlyFailureDrops
  <2> QED
    BY <1>2, <1>3, <2>1, <2>2 DEF StdioInv, FramesAreKept, OnlyFailureDrops
<1>5. EndsAreOrdered'
  <2>1. CASE Close
    BY <2>1, <1>2 DEF StdioInv, EndsAreOrdered
  <2>2. CASE Flush
    BY <2>2, <1>2 DEF StdioInv, EndsAreOrdered, TypeOK
  <2>3. CASE End
    BY <2>3, <1>2 DEF StdioInv, EndsAreOrdered, TypeOK
  <2>4. CASE Abandon
    BY <2>4, <1>2 DEF StdioInv, EndsAreOrdered
  <2> QED
    BY <2>1, <2>2, <2>3, <2>4
<1>6. ConnectionIsHeld'
  BY <1>2 DEF StdioInv, ConnectionIsHeld, Connection
<1> QED
  BY <1>1, <1>4, <1>5, <1>6 DEF StdioInv

(* The writer takes a frame, writes it, breaks or ends.                    *)
LEMMA TakeKeeps == StdioInv /\ Take => StdioInv'
<1> SUFFICES ASSUME StdioInv, Take PROVE StdioInv'
  OBVIOUS
<1> USE DEF Take, Idle
<1>1. /\ queue \in Seq(Frames) /\ queue # <<>> /\ written \in Seq(Frames) /\ frame = <<>>
      /\ order = Taken \o queue /\ Len(queue) =< Capacity
  BY DEF StdioInv, TypeOK, FramesAreKept
<1>2. /\ queue = <<Head(queue)>> \o Tail(queue) /\ Head(queue) \in Frames
      /\ Tail(queue) \in Seq(Frames) /\ Len(Tail(queue)) =< Capacity
  BY <1>1, HeadFirst, HeadTailProperties, CapacityAssumption
<1>3. order' = Taken' \o queue'
  <2> HIDE DEF Take, Idle
  <2>1. Taken = written
    BY <1>1, ConcatEmptySeq DEF Taken
  <2>2. written \o (<<Head(queue)>> \o Tail(queue)) = (written \o <<Head(queue)>>) \o Tail(queue)
    BY <1>1, <1>2, ConcatAssociative, SMTT(30)
  <2>3. order = (written \o <<Head(queue)>>) \o Tail(queue)
    BY <1>1, <1>2, <2>1, <2>2
  <2>4. order' = order /\ written' = written /\ frame' = <<Head(queue)>> /\ queue' = Tail(queue)
    BY DEF Take
  <2> QED
    BY <2>3, <2>4 DEF Taken
<1>4. TypeOK'
  BY <1>2 DEF StdioInv, TypeOK
<1>5. FramesAreKept'
  BY <1>3 DEF StdioInv, FramesAreKept, WrittenInOrder, OnlyFailureDrops
<1>6. EndsAreOrdered' /\ ConnectionIsHeld'
  BY DEF StdioInv, EndsAreOrdered, ConnectionIsHeld, Running
<1> QED
  BY <1>4, <1>5, <1>6 DEF StdioInv

LEMMA WrittenKeeps == StdioInv /\ Written => StdioInv'
<1> SUFFICES ASSUME StdioInv, Written PROVE StdioInv'
  OBVIOUS
<1> USE DEF Written, Idle, outputVars
<1>1. queue \in Seq(Frames) /\ Taken \in Seq(Frames) /\ order = Taken \o queue
  BY DEF StdioInv, TypeOK, FramesAreKept, Taken
<1>2. written' = Taken /\ Taken' = Taken
  <2>1. written' = Taken /\ frame' = <<>>
    BY DEF Taken
  <2> QED
    BY <1>1, <2>1, ConcatEmptySeq DEF Taken
<1>3. IsPrefix(Taken, Taken \o queue)
  BY <1>1, ConcatExtends
<1>4. TypeOK'
  BY <1>1, <1>2, EmptySeq DEF StdioInv, TypeOK
<1>5. FramesAreKept'
  BY <1>1, <1>2, <1>3 DEF StdioInv, FramesAreKept, WrittenInOrder, OnlyFailureDrops
<1>6. EndsAreOrdered' /\ ConnectionIsHeld'
  BY DEF StdioInv, EndsAreOrdered, ConnectionIsHeld, Running
<1> QED
  BY <1>4, <1>5, <1>6 DEF StdioInv

LEMMA WriterKeeps == StdioInv /\ (SetUp \/ Breaks \/ Done) => StdioInv'
<1> SUFFICES ASSUME StdioInv, SetUp \/ Breaks \/ Done PROVE StdioInv'
  OBVIOUS
<1> USE DEF SetUp, Breaks, Done, Idle, outputVars
<1>1. TypeOK'
  <2>1. CASE Breaks
    BY <2>1, EmptySeq DEF StdioInv, TypeOK
  <2>2. CASE SetUp \/ Done
    BY <2>2 DEF StdioInv, TypeOK
  <2> QED
    BY <2>1, <2>2
<1>2. UNCHANGED <<phase, pc, native, failure, queue, order, written, Running>>
  BY DEF Running
<1>3. failed' \/ UNCHANGED <<failed, Taken>>
  BY DEF Taken
<1>4. FramesAreKept'
  <2> HIDE DEF SetUp, Breaks, Done
  <2>1. WrittenInOrder'
    BY <1>2 DEF StdioInv, FramesAreKept, WrittenInOrder
  <2>2. failed' \/ OnlyFailureDrops'
    BY <1>2, <1>3 DEF StdioInv, FramesAreKept, OnlyFailureDrops
  <2> QED
    BY <1>2, <1>3, <2>1, <2>2 DEF StdioInv, FramesAreKept, OnlyFailureDrops
<1>5. EndsAreOrdered' /\ ConnectionIsHeld'
  <2>1. CASE Breaks
    BY <1>2, <2>1 DEF StdioInv, EndsAreOrdered, ConnectionIsHeld
  <2>2. CASE SetUp \/ Done
    BY <1>2, <2>2 DEF StdioInv, EndsAreOrdered, ConnectionIsHeld
  <2> QED
    BY <2>1, <2>2
<1> QED
  BY <1>1, <1>4, <1>5 DEF StdioInv

LEMMA StdioStep == StdioInv /\ [Next]_vars => StdioInv'
<1> SUFFICES ASSUME StdioInv, [Next]_vars PROVE StdioInv'
  OBVIOUS
<1>1. CASE UNCHANGED vars
  <2> USE <1>1 DEF vars, outputVars, writerVars, StdioInv
  <2>1. TypeOK'
    BY DEF TypeOK
  <2>2. FramesAreKept'
    BY DEF FramesAreKept, WrittenInOrder, OnlyFailureDrops, Taken
  <2>3. EndsAreOrdered' /\ ConnectionIsHeld'
    BY DEF EndsAreOrdered, ConnectionIsHeld, Running
  <2> QED
    BY <2>1, <2>2, <2>3
<1>2. CASE Next
  BY <1>2, TasksKeep, AnswerKeeps, NotifyKeeps, ReaderKeeps, TakeKeeps, WrittenKeeps, WriterKeeps
  DEF Next, Writer
<1> QED
  BY <1>1, <1>2

-----------------------------------------------------------------------------
(* Runtime's instance of HttpSessions takes the steps that HttpSessionsProofs *)
(* is about.                                                                *)
Server == INSTANCE HttpSessionsProofs WITH
  Requests <- Posts, Sessions <- PostSessions, NoRequest <- NoPost,
  native <- peerNative, pc <- postPc, phase <- httpPhase

LEMMA SameInit == Http!Init => Server!Init
  BY DEF Http!Init, Server!Init, Http!PeersInit, Server!PeersInit,
         Http!AllPeers, Server!AllPeers

LEMMA SameSteps ==
  /\ \A r : Http!Refuse(r) => Server!Refuse(r)
  /\ \A r : Http!NotFound(r) => Server!NotFound(r)
  /\ \A r, s, k : Http!InSession(r, s, k) => Server!InSession(r, s, k)
  /\ \A r, s : Http!Initialize(r, s) => Server!Initialize(r, s)
  /\ \A r, s : Http!Cancel(r, s) => Server!Cancel(r, s)
  /\ \A r, s : Http!Delete(r, s) => Server!Delete(r, s)
  /\ \A r, s : Http!Listen(r, s) => Server!Listen(r, s)
  /\ \A r, k : Http!Stateless(r, k) => Server!Stateless(r, k)
  /\ \A r : Http!Run(r) => Server!Run(r)
  /\ \A r : Http!Finish(r) => Server!Finish(r)
  /\ \A r : Http!Arrive(r) => Server!Arrive(r)
  /\ \A r : Http!StreamEnds(r) => Server!StreamEnds(r)
  /\ \A r : Http!Leave(r) => Server!Leave(r)
  /\ \A s : Http!TimePasses(s) => Server!TimePasses(s)
  /\ \A p : Http!Changed(p) => Server!Changed(p)
  /\ Http!Sweep => Server!Sweep
  /\ Http!Close => Server!Close
  /\ Http!Joined => Server!Joined
  /\ Http!Drained => Server!Drained
  /\ \A r : Http!Over(r) => Server!Over(r)
  /\ \A r : Http!Overflows(r) => Server!Overflows(r)
<1> USE DEF Http!Cardinality, Server!Cardinality, Http!peerVars, Server!peerVars,
            Http!requestVars, Server!requestVars, Http!AllPeers, Server!AllPeers,
            Http!Running, Server!Running, Http!Active, Server!Active, Http!Idle,
            Server!Idle, Http!Admits, Server!Admits, Http!Named, Server!Named,
            Http!Released, Server!Released, Http!SubStopped, Server!SubStopped,
            Http!PendingStopped, Server!PendingStopped, Http!OutStopped,
            Server!OutStopped, Http!OwnsNative, Server!OwnsNative, Http!Opened,
            Server!Opened, Http!Execute, Server!Execute, Http!Dispatch, Server!Dispatch,
            Http!Outcome, Server!Outcome, Http!Shown, Server!Shown, Http!Ready,
            Server!Ready, Http!Notify, Server!Notify, Http!tableVars, Server!tableVars,
            Http!Closing, Server!Closing, Http!Expired, Server!Expired, Http!Retained,
            Server!Retained, Http!Table, Server!Table, Http!Announced, Server!Announced,
            Http!Open, Server!Open, Http!End, Server!End, Http!Runs, Server!Runs,
            Http!Streams, Server!Streams, Http!FreePlaces, Server!FreePlaces, Http!Taken,
            Server!Taken, Http!Void, Server!Void, Http!Refuse, Server!Refuse,
            Http!NotFound, Server!NotFound, Http!InSession, Server!InSession,
            Http!Initialize, Server!Initialize, Http!Cancel, Server!Cancel, Http!Delete,
            Server!Delete, Http!Listen, Server!Listen, Http!Stateless, Server!Stateless,
            Http!Run, Server!Run, Http!Finish, Server!Finish, Http!Arrive, Server!Arrive,
            Http!StreamEnds, Server!StreamEnds, Http!Leave, Server!Leave,
            Http!TimePasses, Server!TimePasses, Http!Changed, Server!Changed, Http!Sweep,
            Server!Sweep, Http!Close, Server!Close, Http!Joined, Server!Joined,
            Http!Drained, Server!Drained, Http!Over, Server!Over, Http!Overflow,
            Server!Overflow, Http!Overflows, Server!Overflows
<1>1. \A r : Http!Refuse(r) => Server!Refuse(r)
  BY Zenon
<1>2. \A r : Http!NotFound(r) => Server!NotFound(r)
  BY Zenon
<1>3. ASSUME NEW r, NEW s, NEW k, Http!InSession(r, s, k) PROVE Server!InSession(r, s, k)
  BY <1>3, Zenon
<1>4. \A r, s : Http!Initialize(r, s) => Server!Initialize(r, s)
  BY ZenonT(40)
<1>5. \A r, s : Http!Cancel(r, s) => Server!Cancel(r, s)
  BY Zenon
<1>6. \A r, s : Http!Delete(r, s) => Server!Delete(r, s)
  BY ZenonT(40)
<1>7. \A r, s : Http!Listen(r, s) => Server!Listen(r, s)
  BY ZenonT(40)
<1>8. \A r, k : Http!Stateless(r, k) => Server!Stateless(r, k)
  BY Zenon
<1>9. \A r : Http!Run(r) => Server!Run(r)
  BY Zenon
<1>10. \A r : Http!Finish(r) => Server!Finish(r)
  BY Zenon
<1>11. \A r : Http!Arrive(r) => Server!Arrive(r)
  BY Zenon
<1>12. \A r : Http!StreamEnds(r) => Server!StreamEnds(r)
  BY Zenon
<1>13. \A r : Http!Leave(r) => Server!Leave(r)
  BY Zenon
<1>14. \A s : Http!TimePasses(s) => Server!TimePasses(s)
  BY Zenon
<1>15. \A p : Http!Changed(p) => Server!Changed(p)
  BY Zenon
<1>16. Http!Sweep => Server!Sweep
  BY Zenon
<1>17. Http!Close => Server!Close
  BY Zenon
<1>18. Http!Joined => Server!Joined
  BY Zenon
<1>19. Http!Drained => Server!Drained
  BY Zenon
<1>20. \A r : Http!Over(r) => Server!Over(r)
  BY Zenon
<1>21. \A r : Http!Overflows(r) => Server!Overflows(r)
  BY Zenon
<1> QED
  BY <1>1, <1>2, <1>3, <1>4, <1>5, <1>6, <1>7, <1>8, <1>9, <1>10, <1>11, <1>12, <1>13, <1>14,
     <1>15, <1>16, <1>17, <1>18, <1>19, <1>20, <1>21

LEMMA SameNext == [Http!Next]_httpVars => [Server!Next]_(Server!vars)
  BY SameSteps, Zenon
  DEF Http!Next, Server!Next, Http!Prepare, Server!Prepare, Http!Work, Server!Work,
      Http!AllPeers, Server!AllPeers, Server!vars, Server!peerVars, Server!requestVars,
      Server!tableVars, httpVars

-----------------------------------------------------------------------------
(* The process                                                             *)

\* The transport that is not served rests, and success is a served transport's
\* end.
OneTransport ==
  /\ transport \in {"stdio", "http"}
  /\ transport = "stdio" =>
       /\ \A p \in Posts \cup PostSessions : peerNative[p] = "none"
       /\ \A r \in Posts : postPc[r] = "new" /\ answer[r] = "none"
  /\ transport = "http" => native = "none" /\ \A r \in Requests : pc[r] = "new"
  /\ exit = "success" =>
       \/ transport = "stdio" /\ phase = "ended" /\ ~failure
       \/ transport = "http" /\ httpPhase = "ended"

ProcessInv ==
  StdioInv /\ Server!IInv /\ Server!ConnectionsAreSeenThrough /\ OneTransport

LEMMA ServerAssumption ==
  Posts \cap PostSessions = {} /\ NoPost \notin Posts /\ MaxSessions \in Nat
  BY HttpAssumption

LEMMA ProcessInitHolds == ProcessInit => ProcessInv
<1> SUFFICES ASSUME ProcessInit PROVE ProcessInv
  OBVIOUS
<1>1. StdioInv
  BY StdioInit DEF ProcessInit
<1>2. Server!Init
  BY SameInit DEF ProcessInit
<1>3. Server!IInv
  BY <1>2, Server!InitHolds, ServerAssumption
<1>4. Server!ConnectionsAreSeenThrough
  BY <1>2 DEF Server!Init, Server!ConnectionsAreSeenThrough
<1>5. OneTransport
  BY DEF ProcessInit, Init, Http!Init, Http!PeersInit, Http!AllPeers, OneTransport
<1> QED
  BY <1>1, <1>3, <1>4, <1>5 DEF ProcessInv

LEMMA ServerStep ==
  ASSUME Server!IInv, Server!ConnectionsAreSeenThrough, [Http!Next]_httpVars
  PROVE  Server!IInv' /\ Server!ConnectionsAreSeenThrough'
<1>1. [Server!Next]_(Server!vars)
  BY SameNext
<1>2. Server!IInv'
  BY <1>1, Server!StepHolds, ServerAssumption
<1>3. Server!ConnectionsAreSeenThrough'
  BY <1>1, Server!SeenThroughKeeps, ServerAssumption
<1> QED
  BY <1>2, <1>3

\* A step of the process is one of the transport it serves.
LEMMA OneServes ==
  ASSUME [ProcessNext]_processVars
  PROVE  /\ [Next]_vars /\ [Http!Next]_httpVars /\ transport' = transport
         /\ transport = "stdio" \/ UNCHANGED vars
         /\ transport = "http" \/ UNCHANGED httpVars
  BY Zenon
  DEF ProcessNext, OverStdio, OverHttp, processVars, StdioExits, HttpExits, HttpFails

\* A process succeeds when its transport has ended, and takes no step then.
LEMMA Successes ==
  ASSUME [ProcessNext]_processVars, exit' = "success"
  PROVE  /\ UNCHANGED <<phase, failure, httpPhase>>
         /\ \/ exit = "success"
            \/ transport = "stdio" /\ phase = "ended" /\ ~failure
            \/ transport = "http" /\ httpPhase = "ended"
<1>1. CASE UNCHANGED processVars
  BY <1>1 DEF processVars, httpVars, vars
<1>2. CASE OverStdio(StdioExits \/ (Next /\ UNCHANGED exit))
  <2>1. exit = "none" /\ StdioExits /\ transport = "stdio" /\ UNCHANGED <<transport, httpVars>>
    BY <1>2 DEF OverStdio
  <2> QED
    BY <2>1 DEF StdioExits, httpVars, vars
<1>3. CASE OverHttp(HttpExits \/ HttpFails \/ (Http!Next /\ UNCHANGED exit))
  <2>1. exit = "none" /\ (HttpExits \/ HttpFails) /\ transport = "http" /\ UNCHANGED vars
    BY <1>3 DEF OverHttp
  <2> QED
    BY <2>1 DEF HttpExits, HttpFails, httpVars, vars
<1> QED
  BY <1>1, <1>2, <1>3 DEF ProcessNext

LEMMA ProcessStepHolds == ProcessInv /\ [ProcessNext]_processVars => ProcessInv'
<1> SUFFICES ASSUME ProcessInv, [ProcessNext]_processVars PROVE ProcessInv'
  OBVIOUS
<1>1. StdioInv'
  BY OneServes, StdioStep DEF ProcessInv
<1>2. Server!IInv' /\ Server!ConnectionsAreSeenThrough'
  BY OneServes, ServerStep DEF ProcessInv
<1>3. OneTransport'
  <2>1. transport' = transport /\ transport \in {"stdio", "http"}
    BY OneServes DEF ProcessInv, OneTransport
  <2>2. CASE transport = "stdio"
    <3>1. UNCHANGED <<peerNative, postPc, answer>>
      BY <2>2, OneServes DEF httpVars
    <3> QED
      BY <2>1, <2>2, <3>1, Successes DEF ProcessInv, OneTransport
  <2>3. CASE transport = "http"
    <3>1. UNCHANGED <<native, pc>>
      BY <2>3, OneServes DEF vars
    <3> QED
      BY <2>1, <2>3, <3>1, Successes DEF ProcessInv, OneTransport
  <2> QED
    BY <2>1, <2>2, <2>3
<1> QED
  BY <1>1, <1>2, <1>3 DEF ProcessInv

THEOREM ProcessInvariant == ProcessSpec => []ProcessInv
BY ProcessInitHolds, ProcessStepHolds, PTL DEF ProcessSpec

\* A reader that ended without an error ended after the tasks and the writer.
LEMMA EndedIsWritten == StdioInv => NothingIsLost
<1> SUFFICES ASSUME StdioInv, phase = "ended", ~failure, NEW r \in Requests, pc[r] # "new"
             PROVE  r \in Range(written)
  BY DEF StdioInv, FramesAreKept, NothingIsLost
<1>1. Running = {} /\ writer = "done" /\ ~failed /\ queue = <<>>
  BY DEF StdioInv, EndsAreOrdered
<1>2. pc[r] = "ended"
  BY <1>1 DEF Running, StdioInv, TypeOK
<1>3. r \in Range(order)
  BY <1>1, <1>2 DEF StdioInv, FramesAreKept, OnlyFailureDrops
<1>4. frame = <<>> /\ written \in Seq(Frames)
  BY <1>1 DEF StdioInv, TypeOK
<1>5. order = written
  <2>1. Taken = written
    BY <1>4, ConcatEmptySeq DEF Taken
  <2>2. order = written \o <<>>
    BY <1>1, <2>1 DEF StdioInv, FramesAreKept
  <2> QED
    BY <1>4, <2>2, ConcatEmptySeq
<1> QED
  BY <1>3, <1>5

(* Over stdio every request that was read has its answer on the output when    *)
(* the session ends without an error, and answers leave in order until then.  *)
THEOREM StdioLosesNothing == ProcessSpec => []NothingIsLost
<1>1. ProcessInv => NothingIsLost
  BY EndedIsWritten DEF ProcessInv
<1> QED
  BY <1>1, ProcessInvariant, PTL

(* A request in progress keeps its connection to T3, also after the input has  *)
(* ended, and the process ends with none open.                                *)
THEOREM ConnectionOutlivesTasks == ProcessSpec => []ConnectionLivesWithTasks
<1>1. ProcessInv => ConnectionLivesWithTasks
  BY DEF ProcessInv, StdioInv, EndsAreOrdered, ConnectionIsHeld, ConnectionLivesWithTasks
<1> QED
  BY <1>1, ProcessInvariant, PTL

(* A process that exits with success has answered every call it admitted, in  *)
(* full to a client that stayed, and holds no connection.  A lost answer is    *)
(* one whose session was deleted, or whose own output had failed.             *)
THEOREM SuccessMeansComplete == ProcessSpec => []SuccessIsComplete
<1>1. ASSUME ProcessInv PROVE SuccessIsComplete
  <2> SUFFICES ASSUME exit = "success"
               PROVE  /\ \A r \in Requests : pc[r] # "new" => r \in Range(written)
                      /\ native # "open"
                      /\ \A p \in Posts \cup PostSessions : peerNative[p] # "open"
                      /\ \A r \in Posts : postPc[r] \in {"new", "ended"} \/ r \in gone
                      /\ \A r \in Http!Calls : Http!Settled(r)
    BY DEF SuccessIsComplete
  <2>1. CASE transport = "stdio" /\ phase = "ended" /\ ~failure
    <3>1. \A r \in Requests : pc[r] # "new" => r \in Range(written)
      BY <1>1, <2>1, EndedIsWritten DEF ProcessInv, NothingIsLost
    <3>2. native # "open"
      BY <1>1, <2>1 DEF ProcessInv, StdioInv, EndsAreOrdered, ConnectionIsHeld
    <3>3. \A r \in Posts : postPc[r] = "new" /\ kind[r] = "none"
      BY <1>1, <2>1 DEF ProcessInv, OneTransport, Server!IInv, Server!RequestsArePlaced
    <3>4. Http!Calls = {}
      BY <3>3 DEF Http!Calls
    <3> QED
      BY <1>1, <2>1, <3>1, <3>2, <3>3, <3>4 DEF ProcessInv, OneTransport
  <2>2. CASE transport = "http" /\ httpPhase = "ended"
    <3>1. \A p \in Posts \cup PostSessions : peerNative[p] # "open"
      BY <1>1, <2>2, Server!EndedQuietly, ServerAssumption
      DEF ProcessInv, Server!EndedIsQuiet, Server!AllPeers
    <3>2. \A r \in Posts : postPc[r] \in {"new", "ended"} \/ r \in gone
      BY <1>1, <2>2 DEF ProcessInv, Server!ConnectionsAreSeenThrough
    <3>3. \A r \in Server!Calls : postPc[r] \in Server!Running \/ Server!Settled(r)
      BY <1>1 DEF ProcessInv, Server!IInv, Server!CutsAreDeletions
    <3>4. \A r \in Server!Calls : Server!Settled(r)
      BY <1>1, <2>2, <3>3
      DEF ProcessInv, Server!IInv, Server!EndedIsIdle, Server!Running, Server!Calls
    <3>5. \A r \in Http!Calls : Http!Settled(r)
      BY <3>4 DEF Http!Calls, Http!Settled, Server!Calls, Server!Settled
    <3> QED
      BY <1>1, <2>2, <3>1, <3>2, <3>5 DEF ProcessInv, OneTransport
  <2> QED
    BY <1>1, <2>1, <2>2 DEF ProcessInv, OneTransport
<1> QED
  BY <1>1, ProcessInvariant, PTL
=============================================================================
