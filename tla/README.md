# t3code-mcp in TLA+

TLA+ models of the Rust gateway of t3code-mcp (`rust/src`), the TLC
configurations that check them, and TLAPS proofs about the core. The gateway is
an MCP server between agents and a T3 Code server: it starts coding tasks in T3,
remembers in a journal what it asked T3 to do, and answers reads about threads,
runs, Git state and usage.

Contents: [the system](#the-system) · [modules](#modules) · [runs](#runs) ·
[bounds and fairness](#bounds-and-fairness) · [proofs](#proofs) ·
[findings](#findings) · [what is not modelled](#what-is-not-modelled) · [plan](#plan).

## The system

The process has one Tokio thread (`main.rs`, `flavor = "current_thread"`), so
what a tool call does between two awaits is atomic and calls interleave only at
awaits. An HTTP request runs in a worker of its own; a client that disconnects
does not abort it. One mutex protects the journal, and journal operations do not
await. Git runs in child processes with reader threads; a login is another process.

| Component | State | Operations | Hard behaviour | What makes it correct |
| --- | --- | --- | --- | --- |
| Operation journal (`operations/journal.rs`) | receipts by idempotency key, tasks, retained failures; a copy in memory and a JSON file | open with recovery, `begin`, `begin_task`, `update`, `update_task`, `refresh_task`, retain and clear failures, `persist` | crash at any point, failing file operations, evidence out of order | operations are atomic and durable; prepared receipts become uncertain at start; newer evidence wins |
| Task start and reads (`gateway/task.rs`) | only the journal's | `task_start`, `task_get`, `tasks_list`, `task_cancel` | overlapping and retried calls, lost answers, crashes between record and effect | a command is sent at most once per key; receipts and answers are true of T3; polling converges |
| Gateway core (`gateway.rs`) | the read clock, known environment | `dispatch_new`, `reconcile`, `pending_action_respond`, Git, usage and thread reads, observing failures | outcome unknown after a timeout; stale copies of records | an unknown outcome is never recorded as a refusal |
| T3 HTTP client (`t3/http_client.rs`, `rpc_client.rs`, `commands.rs`, `v2.rs`) | protocol and descriptor cache, one discovery in flight, telemetry | `dispatch`, `get_shell`, `get_thread`, discovery | T3 changes its protocol; V2 sends several commands for one | nothing is sent before the protocol is known; half a command is not a refused one; a read recovers from a cached protocol that T3 has left |
| Native MCP client (`t3/native_mcp.rs`, `native_wire.rs`) | connection, credential, tool catalogue | `snapshot`, `call_tool`, `upload_attachment` | dropped connections, retries, change notifications | a call that changes state is sent at most once; nothing outdated is shown |
| MCP peer, sessions, transports (`mcp.rs`, `mcp/*.rs`) | requests in flight, outputs, session table | reserve, cancel, close, drain, expire | close while calls run; session cap; cancel racing the answer | each request is answered once; no session with calls is forgotten; closing ends |
| Runtime (`runtime.rs`, `main.rs`) | accepted connections, the stdio queue | run stdio or HTTP, shut down | shutting down while requests run; a client that never reads | the process exits, over HTTP unless a client holds a connection, and with success only if nothing was lost but by a client's own doing |
| Managed worktrees (`git/worktree_manager.rs`) | one pending preparation per path | `prepare` | two calls for one path; a half-made worktree; a client that leaves | one preparation per path; a retry adopts what exists |
| Git commands (`git/mod.rs`, `git/inspection.rs`) | child process, two readers, a deadline | `run_command`; status, diff, compare | a child that hangs, fills its pipe or leaves helpers | it ends, and what it leaves is known |
| Audit log (`operations/audit_log.rs`, ...) | an append-only file | record, query with cursor | a file that grows while it is paged | no event twice or skipped |
| Thread state, failures, usage (`t3/thread_state.rs`, `t3/failure.rs`, ...) | none | pure functions of snapshots | contradictory fields; views that lag | the newest evidence decides |
| Native login and credentials (`native_login.rs`, `native_credential.rs`) | credential file, a cache of it | login, write, read | two logins; reads during a write; loss of power | a credential read as valid is verified, whole and current |
| Set-up, doctor, configuration, contract | none at run time | start-up | | |
| TypeScript implementation (`src/src`) | | the port's reference | | |

How they interact: a tool call enters through a peer, is routed by the gateway,
writes its intent to the journal, asks the worktree manager and the HTTP client
to act, and writes the outcome back. Reads go to T3 through the HTTP client;
tools marked native go to the native MCP client, with the credential that a login
wrote. What T3 snapshots show of failed turns is retained in the journal.
Everything is recorded in the audit log.

## Modules

| Module | Models |
| --- | --- |
| `Receipts` | the journal's records and the pure rules on them: new records, conflicts, recovery, the projection of `refresh_task` |
| `TaskDelivery` | abstract: what the two task tools promise, one thread and one run for a key |
| `TaskStart` | `t3_task_start` and `t3_task_get` over the journal and an unreliable T3; implements TaskDelivery |
| `TaskStartProofs` | proofs about TaskStart |
| `DurableJournal` | what the journal promises: atomic, durable operations and recovery before use |
| `OperationJournal` | the copy in memory, the file, and the steps of `persist` |
| `Evidence` | a retained failure, and the rules that order what is said of it |
| `FailureEvidence` | calls that read T3 and record what they saw, in any order |
| `JournalProofs` | OperationJournal implements DurableJournal; the row always rests on a view it agrees with |
| `T3Client` | discovery, the protocol cache, reads and dispatches of the HTTP client |
| `PendingActions` | `pending_action_respond` and `pending_actions_list` over T3Client and the receipts |
| `PendingActionsProofs` | proofs about T3Client and PendingActions |
| `NativeConnection` | the connection the native client shares: connecting once for all who wait, dropping, closing, renewed credentials |
| `NativeCalls` | tool calls over it: attempts, cancellation, refusals, lost answers |
| `NativeCatalog` | the whole native client: calls, and the cached catalogue of T3's tools with its readers |
| `NativeClientProofs` | proofs about NativeCalls and the whole NativeCatalog |
| `Peers` | a peer: admission, cancellation, its connection, its stream of notifications |
| `HttpSessions` | the table of sessions over Peers, HTTP requests, and the server's life |
| `HttpSessionsProofs` | proofs about HttpSessions |
| `StdioServer` | the stdio transport: reader, tasks, bounded queue, writer |
| `Runtime` | the process: StdioServer or HttpSessions, and how it exits |
| `RuntimeProofs` | proofs about Runtime over either transport |
| `GitCommands` | one git command: child, helpers, readers, deadline |
| `Worktrees` | `prepare` with its commands, inspections beside it, the disk |
| `WorktreesProofs` | proofs about Worktrees |
| `Credentials` | logins, the credential file, the gateway's cached reads |
| `CredentialsProofs` | proofs about Credentials |
| `MC...` | symmetry, initial states and constraints of the instances |

**Receipts.** A task's journal key yields the keys of its two children, `<key>:thread`
and `<key>:turn`, so a receipt is addressed by the task's key and a kind
(`create`, `turn`). Every id is a random UUID minted by one call (`Uuid::new_v4`);
a call mints at most one of each, so an id is identified with the call, and the
operation, command, thread, run and message ids of one receipt are one value,
`by`. `thread` is the thread a command is for. The attribution of a baseline
(clean or dirty) is replaced by whether it was taken before (`early`) or after
(`late`) T3 had the run, which is what the properties ask.

**TaskStart.** A call is a process whose `pc` names the await it is suspended at:

| `pc` | suspended in |
| --- | --- |
| `scope` | the session read of `require_operation_scope`, or `task_environment_id` of a poll |
| `prepare` | the reads before `begin`: scope, shell and descriptor (create), scope and thread (turn) |
| `dispatch` | `git_worktrees.prepare` and protocol discovery: the receipt is written, nothing sent |
| `wait` | the dispatch request |
| `reconcile` | `get_thread` of `reconcile` |
| `result` | `thread_create_result`, `thread_send_result` |
| `baseline` | `git_status` |

`held` is the status in the record a call carries across an await; `Reply` and
`Reconcile` write to the journal's record, not to that copy, as `update` does.
Each action is what the code does from one await to the next, journal writes
included: `FinishCreate` is `update_task` with the creation's outcome, then
either the final `task_detail`, or `git_status`, or `thread_send` up to its first
await. `JournalFails` ends a call where the journal cannot be written.
T3 and the network are external: a command on `wire` may be applied at any later
time, even after the call gave up or the gateway crashed, may be refused with a
4xx answer, or be lost, and a call may learn less than what happened. A 4xx
answer to a dispatch is taken as definitive, as the code takes it. T3 applies a
turn only in a thread it has.

**TaskDelivery** has no journal, no commands and no calls under way: a task has a thread
or not, a run in it or not, and was refused or not, and each call has an answer.
The abstract steps are those that show outside the gateway: T3
applying the creation (`CreateThread`) or the turn (`StartRun`), a receipt becoming
`rejected` (`Refuse`), a call answering or dying in a crash (`Tell`). `thread` and `run`
are the ids in a receipt whose command T3 has applied. All else, sending, losing,
retrying, reconciling, writing to the journal, is invisible. The refinement joins what
the invariants say one at a time, and adds that a refused task never gets a run *later*,
from a command that was on its way when it was refused.

**OperationJournal / DurableJournal.** One operation at a time holds the mutex; it
computes a candidate, and `persist` creates a temporary file, writes it, and
renames it, any of which may fail; then the candidate becomes the copy. The
refinement mapping is `book <- file`, `open <- copy # Unopened`: an operation
takes effect at the rename. TaskStart, FailureEvidence and PendingActions use the
journal as DurableJournal describes it.

**Evidence / FailureEvidence.** Evidence has the row the journal keeps for a thread
and turn (a failure, or the tombstone of a recovery) and the rules on it:
`compare_order`, eras, the precedence of sources, what retaining and clearing do.
FailureEvidence has a `history` of what T3 said of one turn; a call takes a place
in it when it is served and records it later: a list in full detail reads a shell
and then the thread, a run's status the thread, thread get the thread and then a
shell. A shell may lag behind. `basis` is the place in history the row rests on;
the code has no such variable, the properties need it. T3's sequence begins anew
when its protocol changes; an era of which nothing was ever recorded has no
boundary in the journal, so `Switch` waits until something was. Its specification is
`EvidenceSpec`: its names differ from OperationJournal's, so that one module can prove
things about both.

**T3Client / PendingActions.** `get_descriptor` is a shared task (`discovery`) that
all who ask wait for; it may be answered, fail, and be joined by a call that
began after it was asked. Reads start from the cached protocol and check it again
when T3 does not understand them; a dispatch always discovers, and under protocol
2 sends a turn in three parts, each after the other was acknowledged. Protocol 3
stands for every one the gateway does not support. The responders of
PendingActions share one idempotency key; a call of `Sending` lists pending
actions or starts a turn, from where `thread_send` has its receipt. The gateway
gives this client no cancellation tokens. A refusal of a V2 part has no HTTP
status, so the receipt is uncertain, and `reconcile` never settles an approval:
what is uncertain stays so. Two limits of the code show in the model: a retry that
overlaps may be answered `prepared`, and once an unsupported protocol is cached,
reads fail at once until another call discovers again. `asked` is history: how often T3
had changed when the cached protocol was asked for.

**NativeConnection / NativeCalls / NativeCatalog.** Three layers: NativeCalls
EXTENDS NativeConnection, NativeCatalog EXTENDS NativeCalls and adds its own steps
to `Next`. The users of the connection (`Clients`) are the tool calls and the one
task that reads the catalogue (`Refresher`); `pc` says where they are suspended:

| `pc` | suspended in |
| --- | --- |
| `spawned` | the reading task, before it first runs |
| `connect` | `connecting.await` of `connect` |
| `opened` | the same, after the connecting task has ended and before it runs on |
| `wait` | `request` |

`connecting` is the shared future of the connecting task: `number = 0` before `open`
runs, then the generation of the connection it initialises. A connection is its
generation. `conn[n].up` is its cancellation token. The local variables of a client
(`tok`, `using`, `why`, `rev`, `seen`) are cleared when they are dead. The failures of
`execute` keep their names: rejected, unauthorized, unprocessed, unknown; T3's
refusals (`Kinds`) are a JSON-RPC error, 401/403, 404, and a refused TCP connection.
That a refused message was not processed is T3's promise, and the client's premise.
Two failures in a row that do not await anything (the client is closed) are one
step. In the catalogue a snapshot with an error is `Unseen`, though it repeats the
tools of the last good one; `told` and `noticed`, and `backoff.rev`, are history. A
listing of several pages counts as its first: later pages are newer. The two
timers (`CatalogExpires`, `BackoffEnds`) may fire at any time, except that the ten
seconds of a failure do not pass between the end of a reading and the moment its
readers run on. The gateway `fork`s the client for every HTTP session; the forks
share nothing but the credential.

**Peers / HttpSessions.** A request awaits its body (`reading`), is prepared in one
step, which looks its session up, expires others and admits it, and then runs in a
worker, whether or not its client is `gone`. Its response is then written
(`answered`) until the client has read it or left, which may be never. A peer is named by its session, or by
the request if it is outside any. `native` is the peer's own connection to T3,
closed by whoever ends last after the peer was `shut`. `out` is a request's output
channel, bounded by frames and bytes: progress its client does not read may find no room
(`Overflow`), and the answer may not (`Shown`); then what the client reads ends in an error; `sub` and `pending` are the notification stream of a session and the one
message kept for the next. `retired` are sessions deleted while calls of theirs
run: they count against the capacity. The server is `serving`, `joining` (no more
connections; it waits for each open one, without bound), `draining` (workers end), `ended`.

**StdioServer / Runtime.** The reader admits a message per line; each has a task; the
tasks hand frames to one queue bounded by frames (and bytes: a frame is one unit);
a frame that finds no room closes the output. The writer holds at most one frame.
After the end of the input the tasks end, the queue is flushed, and after five
seconds the writer is abandoned. Runtime chooses the transport and ends the process
with what `run_stdio` or `run_http` returns; a failing accept or bind returns at
once, without draining (`HttpFails`).

**GitCommands / Worktrees.** A command is a child, maybe with a helper that holds its
pipes, and a reader; the loop kills the child at the deadline or when its output is
rejected, and waits for child and reader. The call that runs a preparation is a
job; the cell it shares with others is a number, reused once nobody holds it. `disk`
is what is at the path: absent, foreign (somebody else's, or another branch), half
(being checked out), torn (what a killed `worktree add` leaves), whole. A client that
leaves (`Drop`) stops nothing: `complete_on_drop` goes on. The gateway itself prepares
each key once (`task.rs:749`); the manager promises more, and its tests ask for it,
so the model has concurrent calls. The four commands of `verify_existing` are one:
they only read. A torn worktree is accepted by a later call with the same key; the
property says so.

**Credentials.** A login obtains a token, verifies it, writes a temporary file and
renames it; the store reads the file's identity and then its content, and caches the
content under that identity. A file is its inode and its time of writing; an inode is
not used again within one tick of the clock. The file is not synced: a loss of power
may tear it, which reads as missing. A failed verification leaves a session in T3 that
nobody revokes; it is not the gateway's state.

## Runs

| Run | Module | Instance | Shows |
| --- | --- | --- | --- |
| `overlapping` | MCTaskStart | 1 key, 2 payloads, 2 start calls that may overlap, 1 poller, 1 crash, symmetry | safety of the task protocol |
| `polling` | MCTaskStart | 1 key, 1 payload, 2 start calls one after the other, 1 poller, 1 crash, fairness | what holds for clients that wait for an answer; polling converges |
| `uncertain_turn` | MCTaskStart | 2 overlapping start calls, no crash | the finding below |
| `journal` | MCOperationJournal | 1 key, 1 payload, 2 minters | the journal is whole, durable and atomic |
| `failure_evidence` | MCFailureEvidence | 2 calls, up to 3 reads, up to 4 states of a turn and its protocol, 6 of both together, 1 known message, shells that lag by one, 1 crash, symmetry | the newest evidence admitted decides |
| `dispatches` | MCPendingActions | 2 responders, 1 call that lists or starts a turn, protocols 1, 2 and 3, 1 change of protocol or 1 crash, 2 calls at once after it, symmetry | receipts of commands in parts are true; why a read blames the protocol |
| `native_calls` | MCNativeCalls | a call that changes state and one that reads, 2 tokens, 2 connections, 1 renewal, fairness | at most once, honest failures, no closed or foreign connection, every call is answered |
| `native_catalog` | MCNativeCatalog | 2 readers, 2 tokens, 3 connections, 1 renewal, 1 change, fairness | the catalogue is current, every reader is answered |
| `http_sessions` | MCHttpSessions | 4 requests and 2 sessions, one of each used up, 2 ids, a table of 1, 1 client that leaves, 1 call outside sessions, 1 response at a time not read, symmetry | sessions, calls and connections live as long as they should |
| `servers` | MCRuntime | stdio: 3 requests, a queue of 2, 2 notifications; HTTP: 3 requests and 2 sessions, one of each used up, 1 id; fairness | nothing is lost but by a client's own doing; the process exits unless an HTTP client holds on |
| `worktrees` | Worktrees | 2 jobs, each a caller or an inspector again and again, fairness | one preparation at a time, true answers, everything ends that no helper holds up |
| `credentials` | MCCredentials | 2 logins, 3 inodes, 4 ticks, tokens that live 2, 1 loss of power, symmetry | what is read as valid is valid |

A property that is a conjunction names its parts; each part is a definition of its
own beside it.

Task protocol:

- `AtMostOnce`, `SentIsRecorded`: no command leaves the gateway twice for a key,
  and none leaves it without a durable receipt that names it.
- `ReceiptsAreTrue`: accepted means T3 has it, rejected means it never will
  (`StatusesAreTrue`); the instruction goes to the task's own thread, once it is
  there (`TurnFollowsCreate`); a client is never given another call's ids
  (`TaskIdsMatch`).
- `AnswersAreTrue`: what a call answers about a run holds of T3 then and later; a
  task that was admitted does not conflict with its own children (`NoChildConflict`).
- `OwnRunNeverBusy`: a start is never refused because of the run it started itself.
- `ReceiptsAreStable`: a receipt's ids stay, and so does `rejected`, whatever stale
  copy of it another call holds. `accepted` does not: see the finding.
- `BaselinePrecedesRun`, `TurnAwaitsCreate`: two promises that hold when a client
  waits for its previous call (`Overlap = FALSE`) and not when calls for one key
  overlap.
- `ReplacementIsSafe`: the advice of `task_next_action` for `rejected`, to start a
  new task under a new key, is given only while nothing of the task is in T3 or on its
  way there. It speaks of the moment of the answer, and in the run of clients that
  wait; the proof covers calls that overlap, too. What happens later to a task that
  was refused is in `ImplementsDelivery`.
- `ImplementsDelivery`: TaskStart implements TaskDelivery. A task has at most one
  thread and one run, of its own, and never gets a run after it was refused.
- `PollingConverges`: once T3 has the instruction, polling settles on
  `run_accepted`.

Journal and failure evidence:

- `FileIsWhole`, `CopyIsDurable`, `ImplementsDurable`: the file is never half a
  journal; memory never says what the file does not; together they implement
  DurableJournal.
- `RestsOnEvidence`: the row says failed or recovered as T3 said in the view it
  rests on, and the run's receipt does not say failed when the row does not.
- `OlderReadsLose`: an older view does not turn the row, in whatever order reads
  arrive and after a restart. Two exceptions, both of the code: across a change of
  protocol, where sequences cannot be compared, the read that started later wins;
  and under protocol 1 a reason that a weaker source confirmed keeps its old order, so
  a delayed recovery from between the two clears it.
- `FreshPrevail`: ordering never shuts out what is new. It asks that both reads of a
  thread get be newer, as the code pairs an older full failure with its older order.
  One exception: once T3 is back in a protocol it had left (1, 2, 1), a read from the
  first time that is recorded late, because it started after the one of protocol 2,
  is given the new era; its sequence counts from another start and may keep newer
  evidence out until T3's sequence passes it. It takes two changes of protocol during
  one read; random runs with up to seven states and seven reads found it, and with the
  exception found nothing else.
- `AnswersMatch`: a call answers what the journal holds when it finishes.

Dispatches:

- `DispatchesAreHonest`: one call sends the command of a key, the parts of a turn in
  order (`OneSends`); accepted means T3 has applied all of it, rejected that it has
  applied no part and never will; answers agree.
- `ReadsRecover`: a read that T3 does not understand was overtaken by a change of T3's
  protocol (or the discovery it joined was), met a protocol the gateway does not speak,
  or could not ask again. A cached protocol that the gateway speaks is thus never the
  reason. One that it does not speak is: it fails reads at once (`http_client.rs:252`),
  wrongly so if T3 has changed since it was asked for, until some call discovers again.
  That refusal is right, or T3 has changed since, is the second half of the property.

Native client:

- `SentOnce`, `FailureMeansNothingRan`: at most one message of a call that changes
  state can ever take effect; if its caller is told neither a result nor
  `native_outcome_unknown`, none can.
- `ConnectionsAreSound`: a call that waited through a renewal is not sent with the
  token of the call that connected; the next call is never given a connection another
  has found invalid; after `close` nothing stays open, not even what was being opened.
- `CancelledSendNothing`: cancelling and sending exclude each other, between attempts
  and while connecting too.
- `CatalogIsCurrent`: neither the cached tools nor a remembered failure outlives a
  notification that the client heard, also when a listing was under way.
- `CallsEnd`, `ReadersEnd`: the loops of `connect`, `execute` and `snapshot` end.

Transports and process:

- `SessionsAreKnown`: no session is forgotten while it runs calls, and none is left in
  the table by an initialize that failed. `SessionsBounded`: the table's capacity bounds
  the sessions that hold a connection or run calls, deleted ones included.
- `NativeLivesWithCalls`: a call keeps its peer's connection, a closed peer nobody uses
  has none. `CutOnlyByDelete`: an admitted call runs or has its answer, and loses it in
  two ways: silently, if its own session was deleted while it streamed progress, or in
  an error that its client sees, if its own bounded output had no room for what the
  client left unread, or for the answer itself. No other client's doing, no
  cancellation of another call (`OneRequestPerId`) and no shutdown costs it its answer.
  `StreamsAreServed`: no notification is kept back from a stream that could take it.
  `EndedIsQuiet`: once the server has ended nothing it admitted runs, no connection to
  T3 is open, and the sessions left in the table refuse requests.
- `NothingIsLost`: a stdio session that ends without an error has answered every request
  it read, in order and without a gap. `ConnectionLivesWithTasks`: its connection to T3
  closes after its last task, and then surely.
- `SuccessIsComplete`: a process that exits with success has ended all it admitted,
  answered every request over stdio, and every call over HTTP but those that
  `CutOnlyByDelete` excepts.
- `ProcessExits`: over stdio the process exits once its input has ended or its output
  failed, even if its client never reads. Over HTTP it exits after a signal, whatever its
  calls and streams are at, unless some client holds a connection for ever
  (`HeldByClient`): `run_http` waits for every connection, and a connection for its
  request to arrive and its response to be written, without bound (`runtime.rs:234-258`).

Worktrees and credentials:

- `PreparationsAreSound`: one preparation at a time works on a path and no git that
  changes the project outlives it (`OneAtATime`); the table keeps a preparation only
  for calls under way (`NothingLeaks`); who answers that a worktree is there is right.
- `PreparationsEnd`: every preparation and inspection ends, though git hangs and
  clients leave, or a helper that git left is there for ever (`HeldUp`). The deadline kills
  only the child (`git/mod.rs:595`), and the wait for whoever holds its pipes has no bound
  (`git/mod.rs:613-620`), so such a helper, a hung `ssh` of a fetch, holds up its
  preparation and the calls that share it. An inspection is held up by no helper but its own.
- `CredentialsAreTrue`: the cache is what the file holds for as long as the file keeps
  its identity (`CacheIsCurrent`); the file holds what was verified (`FileIsVerified`);
  what is read as valid T3 accepts when the read begins.

## Bounds and fairness

*Bounds.* Different keys touch different records and different threads, so one key shows
every interaction there is between calls of one task; the proofs cover any number. Two
start calls are what the races need: one that acts and one that retries or overtakes it
(a crash ends the first, which gives a retry after a crash); a poller is the third party
that reconciles meanwhile. Two payloads make conflicts possible. One crash falls at
every point of every call. In `journal` the tasks are patched with four of the seven
stages: patches are data to the file protocol, and the refinement only compares them. In
`failure_evidence`, two calls are the smallest number that overlap, three reads let one
call read twice around the other's; four states are enough to fail, recover and fail
again, or to change protocol and back. `Bounded` keeps either the reads or the changes
at one less than that. In `dispatches` one fault, a crash or a change of protocol, falls
between any two steps (`MaxFaults` bounds both together); all three calls overlap until
then, two of them after it (`MaxUnderWay`). Two native connections, three for the
catalogue, let a call lose one that another opened; once `MaxConnections` is reached T3
refuses connections, which is itself a case, and the third attempt of a call that met
two bad ones. `NativeClientProofs` needs no such bound. Two native calls are the smallest
number that share, overtake and drop each other's connection; one renewal makes two
tokens meet. `ReadersEnd` rests on `MaxChanges`: a T3 that changes its tools faster than
they can be listed keeps readers waiting. `http_sessions` begins where one session was
created and announced, a state that four steps reach; three more requests then use it,
delete it, initialise another into a full table, and cancel; two of them have one id.
One client may leave without its answer, and one request is a call outside any session
(`MaxLeaves`, `MaxStateless`): such calls share nothing with others. One response at a
time is left unread (`MaxUnread`), any number in `servers`: until it is read it holds up
nothing but `Joined`, which looks at each request alone. The proofs have
none of these bounds. A queue of two frames is filled by three answers while the writer
holds none, and by notifications between them. Two jobs share a preparation, prepare one
after the other, and inspect meanwhile. Four ticks let a token expire between a write
and a read of it, and two logins replace each other's file.

`CHECK_DEADLOCK FALSE` stands where calls end for good and the system then stops, as in
every instance with a fixed set of calls.

*Fairness.* In TaskStart `WF(Start(c))` and `WF(Poll(g))`: every await of a call has a
timeout (request timeouts in `t3/http_client.rs`, command timeouts in `git/mod.rs`), so a
call goes on. `WF(GetTask(g))`: clients poll, as the answer's `nextAction` tells
them to. `SF(ReadTask(g))`, `SF(Reconcile(g))`: a poll is not made to fail for ever
by a journal that cannot be written or a T3 that cannot be read. Nothing is
assumed of T3: it may never apply, refuse or lose a command. In the native runs,
`WF(Opening)`, `WF(Call(c))` and `WF(Read)`: `request` has a deadline (ten seconds to
connect and to list, `timeout_for` for a call). `WF(Resume(r))`: a task that was woken
runs. In Runtime, workers and stdio tasks end because each of their awaits has a timeout,
five seconds pass, a request whose client has left is read no further, and the server's
own loop goes on. Nothing is assumed of clients: one may never read standard output, never
send the rest of a request, never read a response, and never leave. In Worktrees the
command loop and its threads run, and so do the calls. Nothing is assumed of git, nor of
the helpers it leaves behind.

## Proofs

`TaskStartProofs` proves, for every number of calls, keys, payloads and crashes, all the
safety properties of TaskStart:

| Theorem | States | Rests on |
| --- | --- | --- |
| `TypeCorrect`, `EveryCommandRecorded`, `AtMostOnceHolds` | `Spec => []P` for `TypeOK`, `SentIsRecorded`, `AtMostOnce` | `Core` |
| `ReceiptsTellTheTruth`, `AnswersTellTheTruth` | `Spec => []P` for `ReceiptsAreTrue`, `AnswersAreTrue` | `Core`, `Truth` |
| `TaskStartDelivers` | `Spec => ImplementsDelivery`, the refinement | `Core`, `Truth` |
| `ReceiptsStayStable`, `OwnRunIsNeverBusy`, `RejectionIsSafe` | `Spec => P` for the action properties `ReceiptsAreStable`, `OwnRunNeverBusy`, `ReplacementIsSafe` | `Core`, `Truth` |
| `BaselineComesFirst`, `TurnAwaitsItsThread` | `Overlap = FALSE => (Spec => ...)` for `BaselinePrecedesRun`, `TurnAwaitsCreate` | `Core`, `Truth`, `Alone` |

Assumptions: `IdAssumption` and `CallAssumption` (the null id is no call's, start
calls and pollers are different, every start call mints its own ids).

`Core`: `AtMostOnce` follows from `SentIsRecorded`, since a receipt names
one command. `SentIsRecorded` is not inductive: a step that begins a receipt, or
sends under one, must know what other calls are doing. `Core` adds
`ReceiptOwners` (a receipt was minted by a call of its key), `CallsHoldReceipts`
(a call past `begin` finds its receipt) and `SendersOwnReceipts` (a call that
sends does so under the receipt it minted, which is still prepared and whose
command was not sent yet; nobody else has rejected it). The steps of a call fall
into four classes, `Quiet`, `Begins`, `Sends` and `SetsStatus`, by what they do to
receipts and commands; each class keeps `Core`, and every action is in a class.
Types are proved, and in no run. Even `TypeOK` needs `SendersOwnReceipts`: the command
sent is well formed only because the receipt it is sent under is there.

`Truth` is about what is recorded and answered, whether or not calls overlap. It has
three layers: the receipts against what T3 and the network have, the task records
against their receipts, and where each call stands against both. The last is what the
properties do not say: what a call holds across an await may be stale, but only in one
direction, since a receipt that is settled for good stays so. It follows that a call
which answers `rejected` has nothing on its way to T3, without a word about overlap:
TLC checks `ReplacementIsSafe` in the run of clients that wait, and the theorem says
more than the run.

`TaskStartDelivers` needs no further invariant. Its lemmas go by what a step does: a call's
step delivers nothing (`NothingDelivered`), so it is `Tell`, `Refuse` or invisible; a
call that answers refuses nothing in the same step (`AnswersRefuseNothing`); T3 applying
a command is `CreateThread` or `StartRun` because a task with a rejected receipt has no
run and no command under way (`RefusalIsFinal`). The last rests on the thread being
there before a turn is begun, on a command being in one place at a time, and on a
receipt being rejected only for a definitive answer or when nothing was sent.

`Alone` is about clients that do not overlap calls for a key: who is under way, what a
crash leaves behind, and which of its steps a call has done.

`JournalProofs` proves, for every set of keys, payloads and ids:

- `JournalInvariant`: `Spec => []JournalInv`;
- `FileAlwaysWhole`: `Spec => []FileIsWhole`;
- `CopyAlwaysDurable`: `Spec => []CopyIsDurable`;
- `JournalImplementsDurable`: `Spec => ImplementsDurable`, the refinement;

and about FailureEvidence, for any number of calls, messages, reads, changes and
crashes:

- `EvidenceInvariant`: `EvidenceSpec => []EvidenceInv`;
- `RestsOnEvidenceHolds`: `EvidenceSpec => []RestsOnEvidence`;
- `AnswersMatchHold`: `EvidenceSpec => AnswersMatch`;
- `EvidenceTyped`: `EvidenceSpec => []EvidenceTypeOK`.

Assumptions: `IdAssumption`, `JournalAssumption` (the markers of an unopened
and of a torn journal are no journals) and `KnownAssumption` (the bounds are numbers).
For the journal: the rename must be one step
of DurableJournal, so the invariant says what the rename is about to do.
`CandidateFits`: before it, the candidate is the recovered file if the journal is
being opened, and otherwise one operation away from the file. `AssignsTheFile`:
after it, the candidate is the file, with no prepared receipt if the journal is
being opened. `CopyIsDurable` links the two, since an operation starts from the
copy. Each operation is shown to be the abstract one (`...Proposes`), the rename
to be a write or a recovery, the assignment an opening or invisible, every other
step invisible.

For the evidence, lemmas first say what the rules on one row yield (`RetainedBy`,
`ClearedBy`, `WithEraBy`, `MergedFailure`, `SelectedParts`): rows and orders no read of
which started after the clock. `Turns` says what recording one view may do to row,
receipt and basis, and each way of recording is shown to be one (`RetainingTurns`,
`ClearingTurns`). `EvidenceInv` adds to `RestsOnEvidence` that the file agrees with
memory in all that is compared (`SavedMatches`), so that a crash loses no more than the
start of a read, and that there is a row if a call under way remembers a failure
(`RecordsMatch`). `AnswersMatch` needs that one: `Reported` may fall back on the receipt
a run's status took before it read.

`PendingActionsProofs` proves, for any number of calls, crashes and changes of T3's
protocol:

- `PendingActionsTypes`: `Spec => []TypeOK`;
- `DispatchesTellTheTruth`: `Spec => []DispatchesAreHonest`;
- `ReadsRecoverHolds`: `Spec => ReadsRecover`.

Its invariant has three parts. `Types` says what the variables of a call are at each of
its stages; that there is a part to send rests on it. `Dispatching` relates receipts
to T3 and says where each call that dispatches stands between them. `Reading` relates
what a read goes by, and the cache, to what T3 speaks now, for as long as T3 has not changed
since the read, or the discovery it joined, or the one that filled the cache, began. A step is one call's or nobody's (`Steps`);
a call's step begins a receipt, settles it, sends a part, ends the dispatch, or does
nothing of these (`Aside`). The proof found an error in an earlier form of `ReadsRecover`:
the start of a read was noted too late, so that it held only in instances in which T3
changes its protocol once.

`NativeClientProofs` proves, for any number of calls, readers, tokens, connections and
renewals, of the calls alone (`Spec`):

- `SentOnceHolds`: `Spec => []SentOnce`;
- `NothingRanHolds`: `Spec => []FailureMeansNothingRan`;
- `CancelledHolds`: `Spec => CancelledSendNothing`;
- `ConnectionsHold`: `Spec => []ConnectionsAreSound`;

and of the whole client (`ClientSpec`), whose catalogue readers share the connection:

- `CatalogIsCurrentHolds`: `ClientSpec => []CatalogIsCurrent`;
- `SharedConnectionsHold`: `ClientSpec => []ConnectionsAreSound`;
- `SharingSendsOnce`: `ClientSpec => [](SentOnce /\ FailureMeansNothingRan)`.

Assumption: `CallAssumption`. `SentOnce` counts messages; why a second attempt adds none
depends on where the call is. `Guarded`, the invariant of one call, says it: nothing
was sent while the call connects; only the awaited message while it waits; nothing
is left once T3's refusal is known; and a call that ended otherwise than with a
result or an unknown outcome has sent nothing. A step of a call ends it, queues it
or sends (`Moves`); for a call that changes state, either nothing was sent before or
the step ends it with one of those two answers (`CallIsCareful`). `LinkInv` is about the
connection: a client that waits for an answer uses a generation that was opened with the
token it holds (`ClientsAreServed`), and while one is being opened none is current
(`ConnectingIsAlone`). `Current` is about the catalogue: what was read for a revision,
if that is still the one that counts, is as new as what the client was told (`Counts`),
in the cache and in a listing under way; and nobody was told of what T3 has not
(`NewsAreTrue`).

`HttpSessionsProofs` proves, for any number of requests, sessions, ids and places in
the table:

- `SessionInvariant`: `Spec => []IInv`;
- `SessionsStayKnown`, `CapacityHolds`, `ConnectionsLive`, `OnlyDeletesCut`,
  `StreamsServed`, `ServersEndQuiet`: `Spec => []P` for `SessionsAreKnown`,
  `SessionsBounded`, `NativeLivesWithCalls`, `CutOnlyByDelete`, `StreamsAreServed` and
  `EndedIsQuiet`.

Assumptions: `PeerAssumption` (requests, sessions and the mark for no request differ)
and `CapacityAssumption`. `IInv` adds what a look-up relies on: a request that was not
prepared belongs to no session (`RequestsArePlaced`); a session is in the table until it
is shut, and only the end of the server shuts those in the table
(`SessionsAreSheltered`); an open connection has an open peer or a caller
(`ConnectionsAreHeld`); a stream belongs to its listener (`StreamsHaveListeners`); an
admitted call runs or is settled as `CutOnlyByDelete` says, and nothing but a delete finishes the stream under one that runs
(`CutsAreDeletions`); and sessions in the
table together with deleted ones that still run calls fit it (`CountedIsBounded`).
`CapacityHolds` follows because whatever runs calls or holds a connection is counted.
Steps that touch only one request (`CalmStep`), that close peers (`Closes`), that begin
a call (`Begins`), `Finish` and `Close` each keep the invariant.

`RuntimeProofs` proves, for any number of requests and any capacities:

- `StdioLosesNothing`, `ConnectionOutlivesTasks`, `SuccessMeansComplete`:
  `ProcessSpec => []P` for `NothingIsLost`, `ConnectionLivesWithTasks` and
  `SuccessIsComplete`.

Over stdio the invariant says where every frame handed over is: on the output, with the
writer or in the queue, in that order, as long as the output has not failed
(`FramesAreKept`), and which of reader, tasks and writer ends first (`EndsAreOrdered`).
Over HTTP it is `IInv`: a step of Runtime over HTTP is one of its instance of
HttpSessions, so that the lemmas of `HttpSessionsProofs` are used through an INSTANCE
with Runtime's own constants and variables.

`WorktreesProofs` proves `PreparationsHold`: `Spec => []PreparationsAreSound`, for any
finite number of jobs (`JobAssumption`; a cell is always free because there are more
cells than jobs that can hold one). `OneAtATime` rests on two facts about what a job
holds: only the cell in the table is unset, so that only its holders prepare
(`CellsAreHeld`), and a command's reader ends after its child (`CommandsFollow`), so that
the next command does not overlap the last. `DiskIsKnown` says that there is half a
checkout only while somebody adds one, which is why verifying never sees it.

`CredentialsProofs` proves `CredentialsHold`: `Spec => []CredentialsAreTrue`, for any
number of logins, inodes, losses of power and lifetimes (`CredentialAssumption`).
The cache is current because a file's content is read after its identity, and an
identity is never that of two contents: one that was seen is no newer than its inode, and
strictly older if the inode is now a temporary file (`SeenBefore`), which belongs to one
login and is not at the path (`TempsAreApart`). A valid token is accepted because its
expiry was counted from before the exchange (`ExpiryIsEarly`).

Model-checked only:

- liveness (`PollingConverges`, `CallsEnd`, `ReadersEnd`, `ProcessExits`,
  `PreparationsEnd`), which is out of the prover's reach;
- `OlderReadsLose` and `FreshPrevail`. They compare places in T3's history, of which
  the row keeps no more than an order that merging may have taken from an earlier
  view; an invariant would have to say which places an order can stand for. Beyond the
  run's bounds they were only tried on random behaviours (see `FreshPrevail` above).

## Findings

`uncertain_turn` violates `TurnAwaitsCreate`. `docs/usage.md:116` says "The gateway
never advances to the turn while thread creation is uncertain." Call A waits for
T3's answer to `thread.create`; T3 applies it; call B, a retry that overlaps,
reads the thread, records the receipt as accepted and goes on; A's request times
out and `dispatch_new` records `uncertain` over `accepted`; B begins the turn. The
thread is there, so the turn is right; for a while the journal says it is not
known to be. Clients that wait for an answer before they retry do not see this
(`polling`).

## What is not modelled

- The audit log and usage: an append-only file with a paged reader, redaction, dates and
  sums. No decision of the gateway rests on it.
- Set-up, doctor, configuration, the tool contract: no state while the gateway runs.
- The TypeScript implementation, from which the Rust one was ported.
- Pure functions of text: the parsing of Git output, the classification of failure
  messages, thread ids, schemas, settings, titles, the wording of results. TLC has no strings to say
  anything about, and their tests do.
- `attachment_upload` and `upload_attachment`, which keep no state; progress notifications
  and resumed event streams of the native client; batches, headers and authentication
  of HTTP; the exchange of OAuth, which is its outcome.
- Limits of size, but those of outputs, and telemetry.
- Files: a rename is atomic and lasts when the process dies. The journal is not
  synced, so a loss of power is outside its model; Credentials has one. A journal shared by two
  processes, and a git left running by a gateway that was killed, are outside too.
- FailureEvidence leaves out the items, timestamps and metadata of a turn; its clock goes on
  across restarts. A thread get under protocol 1 may record a generic failure with the
  older order of the shell.
- Credentials: the expiry is always one that can be parsed, since `iso_date` writes it;
  process ids, which name the temporary files, are not reused by processes that overlap; the clock is shared and
  goes forward.

## Plan

Done: every module above. What is left, in this order:

1. An invariant that relates the order of a row to the places in T3's history it can
   stand for, and proofs of `OlderReadsLose` and `FreshPrevail` on it.
2. `AuditLog`: the cursor of its reader over a file that grows.
