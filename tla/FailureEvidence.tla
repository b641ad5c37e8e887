---------------------------- MODULE FailureEvidence ----------------------------
(***************************************************************************)
(* How overlapping reads of one turn become what the journal keeps of it.   *)
(* T3 moves the turn through `history`; a call reads T3 once or twice, its  *)
(* answer is a view of a past state, and other calls answer, the gateway    *)
(* crashes or T3 changes protocol before the call records what it saw       *)
(* (rust/src/gateway.rs, gateway/task/run.rs and thread.rs).                *)
(*                                                                          *)
(* Three calls read the turn: a thread list in full detail (a shell, then   *)
(* the thread), a run's status (the thread), and thread get (the thread,    *)
(* then a shell).  A shell shows less of a failure than the thread does.    *)
(* T3's sequence begins anew where its protocol changes, as in the tests    *)
(* (journal_tests.rs:998), and it changes again only once something of the  *)
(* protocol in between has been recorded: an era nobody saw has no boundary *)
(* to compare with.                                                         *)
(***************************************************************************)
EXTENDS Evidence, FiniteSets

CONSTANTS Calls,        \* what the clients have under way
          Known,        \* the messages whose category is known
          FailsAgain,   \* may a turn fail that had recovered?
          Lags,         \* the changes a shell may be behind by
          MaxChanges,   \* of the turn and of the protocol
          MaxReads,     \* reads of T3
          MaxCrashes

ASSUME KnownAssumption ==
  Known \subseteq Messages /\ Lags \subseteq Nat /\ MaxReads \in Nat /\ MaxCrashes \in Nat

VARIABLES
  history,  \* what T3 said of the turn, oldest first
  clock,    \* when the last read started
  call,     \* each call, where it is
  row,      \* the journal's row in memory
  receipt,  \* and the failure the run's receipt has
  saved,    \* both as the file has them
  answer,   \* what the last call to finish said
  basis,    \* the place in history the row rests on
  latest,   \* when the latest read that was recorded started
  crashes

journal == <<row, receipt, saved>>
evidenceVars == <<history, clock, call, row, receipt, saved, answer, basis, latest, crashes>>

-----------------------------------------------------------------------------
(* T3 *)

Failed(h) == h.state = "failed"
HasRecovered(h) == h.state = "recovered"

Now == history[Len(history)]

Report(source, message) == [source |-> source, known |-> message \in Known, message |-> message]

\* What a shell and a thread can show of one failure.
Reports(version) ==
  {[shell |-> Report("turn", Bare), full |-> Report("turn", Bare)]}
    \cup {[shell |-> s, full |-> f] :
            s \in {Report("turn", Bare)} \cup {Report("session", m) : m \in Messages},
            f \in {Report(IF version = 2 THEN "item" ELSE "activity", m) : m \in Messages}}

NothingFailed == [shell |-> NoFailure, full |-> NoFailure]

\* The turn moves on.
Change ==
  /\ Len(history) < MaxChanges
  /\ \E state \in {"failed", "recovered"},
        shown \in Reports(Now.version) \cup {NothingFailed} :
       /\ (state = "failed") = (shown # NothingFailed)
       /\ HasRecovered(Now) => FailsAgain /\ state = "failed"
       /\ history' = Append(history, [state |-> state, shown |-> shown, seq |-> Now.seq + 1,
                                      version |-> Now.version, era |-> Now.era])
  /\ UNCHANGED <<clock, call, journal, answer, basis, latest, crashes>>

\* T3 speaks the other protocol from now on.
Switch ==
  /\ Len(history) < MaxChanges
  /\ basis.seen # 0 /\ history[basis.seen].era = Now.era
  /\ \E shown \in IF Failed(Now) THEN Reports(3 - Now.version) ELSE {NothingFailed} :
       history' = Append(history, [state |-> Now.state, shown |-> shown, seq |-> 1,
                                   version |-> 3 - Now.version, era |-> Now.era + 1])
  /\ UNCHANGED <<clock, call, journal, answer, basis, latest, crashes>>

-----------------------------------------------------------------------------
(* Reading T3 *)

Idle == [kind |-> "idle"]

First(kind) == IF kind = "list" THEN "shell" ELSE "full"
Second(kind) == IF kind = "list" THEN "full" ELSE "shell"

Scope(c) == IF call[c].step = 1 THEN First(call[c].kind) ELSE Second(call[c].kind)

\* A call starts, and with it its first read.  The run's receipt is taken
\* before the read.
Start(c) ==
  /\ call[c] = Idle /\ clock < MaxReads
  /\ \E kind \in {"list", "run", "get"} :
       call' = [call EXCEPT ![c] = [kind |-> kind, step |-> 1, started |-> clock + 1,
                                    seen |-> 0, record |-> receipt]]
  /\ clock' = clock + 1
  /\ UNCHANGED <<history, journal, answer, basis, latest, crashes>>

\* T3 answers a read with the state it is in; a shell may lag behind, but
\* not by a protocol.  The answer takes its time.
Serve(c) ==
  /\ call[c] # Idle /\ call[c].seen = 0
  /\ \E lag \in IF Scope(c) = "shell" THEN Lags ELSE {0} :
       /\ lag < Now.seq
       /\ call' = [call EXCEPT ![c].seen = Len(history) - lag]
  /\ UNCHANGED <<history, clock, journal, answer, basis, latest, crashes>>

Arrived(c, kind, step) ==
  call[c] # Idle /\ call[c].kind = kind /\ call[c].step = step /\ call[c].seen # 0

View(seen, scope) ==
  [state |-> history[seen].state, failure |-> history[seen].shown[scope]]

\* The order of a read, before the journal gives it an era.
OrderOf(seen, scope, started) ==
  LET failure == history[seen].shown[scope] IN
  [version |-> history[seen].version, scope |-> scope, seq |-> history[seen].seq,
   started |-> started, era |-> 0,
   id |-> IF failure = NoFailure THEN None ELSE failure.message]

-----------------------------------------------------------------------------
(* Recording *)

\* The file is rewritten where the rows or receipts differ, which may fail,
\* and memory follows it; an equal row only advances memory.
Save(newRow, newReceipt) ==
  /\ row' = newRow /\ receipt' = newReceipt
  /\ saved' = IF Differ(row, newRow) \/ receipt # newReceipt
             THEN [row |-> newRow, receipt |-> newReceipt] ELSE saved

\* A recovery takes the failure from the run's receipt, too.
AfterClearing(given) == [row |-> Cleared(row, given),
                         receipt |-> IF Differ(row, Cleared(row, given))
                                     THEN NoFailure ELSE receipt]

\* A failure is copied to the run's receipt where the run's status was asked.
AfterRetaining(failure, given, bound) ==
  IF Refused(row, given) THEN [row |-> row, receipt |-> receipt]
  ELSE LET new == Retained(row, receipt, failure, given) IN
       [row |-> new, receipt |-> IF bound THEN new.failure ELSE receipt]

\* What recording one view leads to: a recovery clears, a failure is retained.
AfterView(view, given, bound) ==
  CASE view.state = "recovered" -> AfterClearing(given)
    [] view.state = "failed"    -> AfterRetaining(view.failure, given, bound)
    [] OTHER                    -> [row |-> row, receipt |-> receipt]

\* The row rests on the latest view that was admitted and agrees with it, or
\* on the one that turned it.
Rests(seen, started, order) ==
  LET state == history[seen].state IN
  basis' = IF /\ state # "running" /\ row'.state = state
              /\ row = NoRow \/ CompareOrders(WithEra(order, row), row.order) # LT
              /\ row.state # state \/ seen > basis.seen
           THEN [seen |-> seen, started |-> started] ELSE basis

Recorded(started) == latest' = IF started > latest THEN started ELSE latest

Kept(r) == IF r.state = "failed" THEN r.failure ELSE NoFailure

Finish(c, said) ==
  /\ call' = [call EXCEPT ![c] = Idle]
  /\ answer' = said

Put(after) == Save(after.row, after.receipt)

\* threads_list: the shell's recovery or failure is recorded, and the order it
\* got is kept for the thread's read.
ObserveShell(c) ==
  LET now   == call[c]
      view  == View(now.seen, "shell")
      given == OrderOf(now.seen, "shell", now.started)
      after == AfterView(view, given, FALSE) IN
  /\ Arrived(c, "list", 1) /\ clock < MaxReads
  /\ Put(after)
  /\ Rests(now.seen, now.started, given) /\ Recorded(now.started)
  /\ call' = [call EXCEPT ![c] = [kind |-> "list", step |-> 2, started |-> clock + 1, seen |-> 0,
                                  shell |-> view.state,
                                  order |-> WithEra(given, IF HasRecovered(view) THEN after.row
                                                           ELSE row)]]
  /\ clock' = clock + 1
  /\ UNCHANGED <<history, answer, crashes>>

\* observe_summary_failure: a thread read older than its shell's, which saw no
\* error, records nothing.
StaleFull(c, order) ==
  call[c].shell # "failed" /\ CompareOrders(order, call[c].order) = LT

\* enrich_summary
ObserveFull(c) ==
  LET now   == call[c]
      view  == View(now.seen, "full")
      given == OrderOf(now.seen, "full", now.started)
      after == IF StaleFull(c, WithEra(given, row)) THEN [row |-> row, receipt |-> receipt]
               ELSE AfterView(view, WithEra(given, row), FALSE) IN
  /\ Arrived(c, "list", 2)
  /\ Put(after)
  /\ Rests(now.seen, now.started, given) /\ Recorded(now.started)
  /\ Finish(c, Kept(after.row))
  /\ UNCHANGED <<history, clock, crashes>>

\* Mutant: the receipt read before T3 answered decides.
ReportedFromRecord(record, after, recovered) ==
  IF Kept(after.row) # NoFailure THEN Kept(after.row) ELSE record

\* What a run's status says once the view is recorded: the failure that is
\* retained, or the receipt's if neither says it recovered.
Reported(record, after, recovered) ==
  IF Kept(after.row) # NoFailure THEN Kept(after.row)
  ELSE IF recovered \/ after.row.state = "recovered" THEN NoFailure ELSE record

\* observe_run: without a failure of its own the view confirms the retained one.
ObserveRun(c) ==
  LET now   == call[c]
      view  == View(now.seen, "full")
      given == OrderOf(now.seen, "full", now.started)
      after == IF view.state = "running" /\ Kept(row) # NoFailure
               THEN AfterRetaining(Kept(row), given, TRUE)
               ELSE AfterView(view, given, TRUE) IN
  /\ Arrived(c, "run", 1)
  /\ Put(after)
  /\ Rests(now.seen, now.started, given) /\ Recorded(now.started)
  /\ Finish(c, Reported(now.record, after, HasRecovered(view)))
  /\ UNCHANGED <<history, clock, crashes>>

\* unavailable_run: T3 did not answer, and the journal is read again.
RunUnavailable(c) ==
  /\ call[c] # Idle /\ call[c].kind = "run"
  /\ Finish(c, IF Kept(row) # NoFailure THEN Kept(row) ELSE receipt)
  /\ UNCHANGED <<history, clock, journal, basis, latest, crashes>>

\* thread_get: the thread is read, then the shell.
GetShell(c) ==
  /\ Arrived(c, "get", 1) /\ clock < MaxReads
  /\ call' = [call EXCEPT ![c] = [kind |-> "get", step |-> 2, started |-> clock + 1, seen |-> 0,
                                  full |-> call[c].seen, fullStarted |-> call[c].started]]
  /\ clock' = clock + 1
  /\ UNCHANGED <<history, journal, answer, basis, latest, crashes>>

\* Is the thread's state newer than the shell's?
FromFull(full, shell) ==
  /\ ~SameEra(full, shell) \/ full.seq # shell.seq
  /\ CompareOrders(full, shell) = GT

\* select_observation: one of the two views, and the reason that says most.
Selected(full, fullOrder, shell, shellOrder) ==
  LET fromFull   == FromFull(fullOrder, shellOrder)
      source     == IF fromFull THEN full ELSE shell
      fullSays   == IF Failed(history[source]) THEN history[full].shown.full ELSE NoFailure
      shellSays  == history[source].shown.shell
      newerShell == /\ ~fromFull
                    /\ \/ shellOrder.version = 2 \/ ~SameEra(fullOrder, shellOrder)
                       \/ fullSays.source = "session" /\ shellSays.source = "session"
                    /\ CompareOrders(shellOrder, fullOrder) = GT
      keepFull   == shellOrder.version = 2 /\ shellSays.source = "turn" /\ fullSays # NoFailure
      sameReason == /\ fullSays # NoFailure /\ fullOrder.id = shellOrder.id
                    /\ fullSays.message = shellSays.message
      chosen ==
        IF newerShell /\ shellSays # NoFailure
        THEN [failure |-> IF keepFull \/ sameReason THEN fullSays ELSE shellSays,
              order |-> IF keepFull THEN [shellOrder EXCEPT !.id = fullOrder.id] ELSE shellOrder]
        ELSE IF fullSays.source = "turn" /\ fullOrder.version # 2 /\ shellSays # NoFailure
        THEN [failure |-> shellSays, order |-> shellOrder]
        ELSE [failure |-> IF fullSays # NoFailure THEN fullSays ELSE shellSays,
              order |-> IF fullSays # NoFailure \/ fromFull THEN fullOrder ELSE shellOrder]
  IN [seen |-> source, state |-> history[source].state,
      failure |-> chosen.failure, order |-> chosen.order]

ObserveGet(c) ==
  LET now    == call[c]
      chosen == Selected(now.full, WithEra(OrderOf(now.full, "full", now.fullStarted), row),
                         now.seen, WithEra(OrderOf(now.seen, "shell", now.started), row))
      after  == IF chosen.state = "running" /\ Kept(row) # NoFailure
                THEN AfterRetaining(Kept(row), chosen.order, FALSE)
                ELSE AfterView(chosen, chosen.order, FALSE) IN
  /\ Arrived(c, "get", 2)
  /\ Put(after)
  /\ Rests(chosen.seen, IF chosen.seen = now.seen THEN now.started ELSE now.fullStarted,
           chosen.order) /\ Recorded(now.started)
  /\ Finish(c, Kept(after.row))
  /\ UNCHANGED <<history, clock, crashes>>

\* A read fails, or the journal cannot be written: the call ends in an error,
\* and a list's enrichment is left out.
Fail(c) ==
  /\ call[c] # Idle
  /\ call' = [call EXCEPT ![c] = Idle]
  /\ UNCHANGED <<history, clock, journal, answer, basis, latest, crashes>>

\* The gateway is killed and starts again from its file.
Restart ==
  /\ crashes < MaxCrashes /\ crashes' = crashes + 1
  /\ row' = saved.row /\ receipt' = saved.receipt
  /\ call' = [c \in Calls |-> Idle]
  /\ UNCHANGED <<history, clock, saved, answer, basis, latest>>

-----------------------------------------------------------------------------
(* Properties.  They speak of T3's history, which the gateway cannot see. *)

\* Every variable has its type; an era began no later than the read that is
\* retained, and no read started after the clock.
EvidenceTypeOK ==
  /\ row \in {NoRow} \cup Rows
  /\ saved.row \in {NoRow} \cup Rows
  /\ {receipt, saved.receipt, answer} \subseteq Failures \cup {NoFailure}
  /\ clock \in 0..MaxReads /\ latest \in 0..clock /\ crashes \in 0..MaxCrashes
  /\ basis \in [seen : 0..Len(history), started : 0..clock]
  /\ row # NoRow => row.order.started <= clock /\ row.order.era <= row.order.started

\* What recovered leaves no failure on the run's receipt, so that a restart or
\* an unreachable T3 does not report it again (journal.rs:955, run.rs:300).
ReceiptMatches == receipt # NoFailure => row.state = "failed"

\* The journal never says of the turn what the evidence it admitted does not:
\* it is failed or recovered as T3 said in the view the row rests on
\* (journal.rs:664 and 884), and the run's receipt agrees.
RestsOnEvidence ==
  /\ row # NoRow => basis.seen # 0 /\ row.state = history[basis.seen].state
  /\ ReceiptMatches

\* A view that is older than the one the row rests on does not turn the row,
\* whichever calls overlapped, and after a restart.  Two exceptions: across a
\* change of protocol, where sequences cannot be compared, the read that
\* started later wins; and under V1 a reason that a weaker one confirmed keeps
\* its old order, so a recovery from between the two clears it.
OlderReadsLose == [][
  basis'.seen < basis.seen =>
    \/ /\ basis'.started > basis.started
       /\ history[basis'.seen].version # history[basis.seen].version
    \/ row'.state = "recovered" /\ history[basis.seen].version = 1]_evidenceVars

\* A call that finishes reports what the journal holds then, not what it held
\* when the call began (run.rs:120, thread.rs:90, gateway.rs:1400).
AnswersMatch == [][answer' # answer => answer' = Kept(row')]_evidenceVars

\* The call finishes a read that started after all that is recorded, and saw
\* the turn end in something newer.
Fresh(c) ==
  /\ call[c] # Idle /\ call'[c] = Idle
  /\ latest' = call[c].started /\ latest # latest'
  /\ call[c].seen > basis.seen /\ history[call[c].seen].state # "running"
  /\ call[c].kind = "get" => call[c].full > basis.seen
  /\ history[call[c].seen].era <= 2

\* Ordering never shuts out what is new: a fresh read prevails
\* (gateway.rs:127).  One exception: where T3 is back in a protocol it had
\* left, a read from the first time that was recorded late passes for one of
\* the second, and its sequence may be the larger.
FreshPrevail == [][\A c \in Calls : Fresh(c) => basis'.seen >= call[c].seen]_evidenceVars

-----------------------------------------------------------------------------
EvidenceInit ==
  /\ \E v \in {1, 2} :
       history = <<[state |-> "running", shown |-> NothingFailed, seq |-> 1,
                    version |-> v, era |-> 1]>>
  /\ clock = 0 /\ latest = 0 /\ basis = [seen |-> 0, started |-> 0] /\ crashes = 0
  /\ call = [c \in Calls |-> Idle]
  /\ row = NoRow /\ receipt = NoFailure
  /\ saved = [row |-> NoRow, receipt |-> NoFailure]
  /\ answer = NoFailure

EvidenceNext ==
  \/ Change \/ Switch \/ Restart
  \/ \E c \in Calls :
       \/ Start(c) \/ Serve(c) \/ GetShell(c)
       \/ ObserveShell(c) \/ ObserveFull(c) \/ ObserveRun(c) \/ ObserveGet(c)
       \/ RunUnavailable(c) \/ Fail(c)

EvidenceSpec == EvidenceInit /\ [][EvidenceNext]_evidenceVars
=============================================================================
