# Hyperloop controller: TLA+ specifications

The repository is a Python asyncio controller that sits between local clients
(GUIs and tools on a Unix socket) and a fixed set of microcontroller boards
(JSON lines over TCP). This directory models its control logic in TLA+, checks
it with TLC on small instances and proves the safety properties that are checked with
TLAPS for every instance.

Everything in the controller runs on one asyncio event loop. There are no data
races in the usual sense; what is hard is what happens *between two awaits*. A
step of every specification here is what one task does from one suspension point
to the next, and the specifications interleave those steps in every order.

## 1. Inventory

| Component | Source | State | Operations |
|---|---|---|---|
| Command dispatcher | `controller.py` | `_pending`, `_timeout_tasks`, per board FIFO, slot, counter, schema, writer | `route_command`, `_dispatch_next`, `handle_board_response`, `_execution_timeout`, `board_down`, `register_board`, `trigger_estop`, `send_estop_to_board`, `reset_estop`, `shutdown` |
| Board and command state | `state.py` | `BoardState`, `SystemState`, `PendingCommand`, `BoardSeqCounter`, `BoardRuntime` | marks and transitions called by the dispatcher |
| Board connection manager | `board_connection.py` | run task, stream, `_stop`, `_registered`, liveness and heartbeat tasks, backoff | `run`, `_connect_and_read_once`, `_wait_before_reconnect`, `stop`, `_liveness_loop` |
| Heartbeat | `board_connection.py`, `state.py` | sequence, outstanding beat, ack event, missed count, verdict | `_send_one_heartbeat`, `_handle_heartbeat_ack`, `mark_heartbeat_*` |
| Board writer | `board_connection.py`, `interfaces.py` | a lock per stream | `write_message` |
| Local client connection | `local_socket.py` | bounded outbound queue, writer task, `connected` | `send_response`, `send_event`, `writer_loop`, `close` |
| Local socket server | `local_socket.py` | clients, reply tasks, the socket path | `start`, `stop`, `_handle_client`, `_route_and_reply`, `broadcast_event` |
| Runtime | `runtime.py` | start and shutdown order, signals, configuration | `start`, `shutdown`, `run_until_stopped` |
| Observability | `observability.py` | drop-oldest queue, worker task, counters | `enqueue`, `run`, `_write_record`, `stop` |
| Protocol | `protocol.py` | none | `parse_line`, `validate_message`, `build_*`, `extract_blocked_by_estop` |
| Agent orchestrator | `tools/agent_orchestrator/` | cycle, feedback, captured diff, verdicts, report | `execute_task`, `main` |
| Checkers, demos | `tools/*.py`, `demos/` | none of the controller's own | |

**How they interact.** The server starts one `_route_and_reply` task per request,
which calls `route_command` and awaits the command's future. A connection's
reader calls `handle_board_response` and the event handlers and *awaits* them, so
whatever they await (a write to the board, the gather of an e-stop, a broadcast to
all clients) suspends the reader. A timeout task is created per dispatched
command. All three kinds of task call `_dispatch_next`, which takes the slot and
registers the entry before it awaits the write. `board_down` is called by the
connection's `finally` block or by its liveness task. The runtime stops the
server, then the connections, then drains the controller, then the observability
worker. Every handler that changes a board or the system enqueues a snapshot for the
worker, which never makes it wait. Other processes meet the controller in one place,
the file of its Unix socket. The agent orchestrator is a tool of its own: it shares
the repository with the controller and no state.

**What is hard.** A write that is suspended while its command is answered, times
out, is failed by `board_down` or by shutdown; answers that are late, repeated or
come after a reconnect; one pending map for boards that number their commands
independently; an e-stop latching between acceptance and dispatch, or while a
board registers; three tasks closing one client; a full queue that must keep
critical messages; cleanup that raises half way; a record queue that overflows while
its worker waits for Redis; a signal while the process starts; two processes at one
socket path; messages that are wrong in ways that pass some of the checks; verdicts
about a work tree that has changed since. `PROJECT.json` lists these as
hazards, each with its line and the properties that cover it.

**What makes each component correct.** The dispatcher: no request is lost, stuck
or answered twice, at most one command in flight per board, commands leave in
order, an answer resolves the command it answers, an e-stop reaches every board
and stops what it blocks. The connection: one `board_down` per attempt, no task
that outlives its attempt, endless retries, a `stop` that ends. The heartbeat: a
verdict that counts exactly the misses since the last acknowledgement. The client:
order, critical messages never dropped, an exact drop counter, nobody waiting for a
slow client. Observability: an exact account of every record, a replica that never goes
back, a bounded stop. The socket path: one controller serves it, a live one is left
alone, a dead one's file is reclaimed. The runtime: a signal ends the process and leaves
nothing behind. The protocol: only valid commands are forwarded, answers are truthful
and readable. The orchestrator: what is committed is what was vetted.

## 2. Modules

| Module | Models |
|---|---|
| `ControllerCore` | the dispatcher and the state it keeps, with what connections, clients and runtime do to it |
| `ControllerCore_proofs`, `ControllerQueue_proofs` | proofs about `ControllerCore`: queues, pending map and slots; bounds, e-stop and the controller with one board |
| `CommandService` | the abstract specification: what the controller promises its clients |
| `ControllerService` | the refinement mapping from `ControllerCore` to `CommandService` |
| `StateMirror` | the snapshots the dispatcher's handlers hand to observability; extends `ControllerCore` |
| `ControllerViews_proofs` | the refinement of `CommandService` and the freshness of the mirror |
| `MCControllerCore`, `MCStateMirror` | schemas, symmetry and state constraints for TLC |
| `Heartbeat` | the heartbeat task of a connection and the suspect verdict |
| `BoardConnection` | `BoardTCPConnection`: run, liveness task, stop, backoff; extends `Heartbeat` and composes it with them |
| `LocalClient` | `LocalClientConnection`: outbound queue, writer loop, close |
| `Observability` | `ObservabilityQueue` and `RedisTelemetryWorker` |
| `SocketPath` | the socket file of `LocalUnixSocketServer`, for several processes |
| `Runtime` | `ControllerRuntime` and `run_until_shutdown`; composes `Observability` and `SocketPath` |
| `Protocol` | `protocol.py` as operators on messages |
| `Exchange` | one request from the client's line to its answer, with registration, schemas and e-stop; uses `Protocol` |
| `Orchestrator` | `execute_task` of the agent orchestrator |
| `BoardConnection_proofs`, `LocalClient_proofs`, `Runtime_proofs`, `Exchange_proofs`, `Orchestrator_proofs` | proofs about the modules they are named after |

In each module a definition whose name starts with `Bug` is a broken variant of the
definition after it (a dropped guard, a wrong order, a missing reset). No
specification uses them: putting one in the place of its original must violate the
property that `PROJECT.json` names under `mutants`.

### ControllerCore

A command `c` is one client request. `task[c]` is its `_route_and_reply` task,
`fut[c]` the future of its `PendingCommand` ("wait", or the terminal status it was
resolved with), `board[c]` and `seq[c]` the fields of its entry. `pending`
(`_pending`) and `handle` (`_timeout_tasks`) are keyed by `board_seq` only, as in
the code. `writing[c]` names the task suspended in the write of `c`: a request, the
reader of a board, or a timeout task. `timers` are the sleeping `_execution_timeout`
tasks. `link[b]` is where the connection's run task is, in as much detail as the
dispatcher can see; `BoardConnection` has the rest.

Handlers that end in `_dispatch_next` call the operator `DispatchNext` with the
intermediate state they have built, so the whole handler is one step up to the
write. The write ends in a step of its own, `WriteCompletes` (arm the timeout, or
undo the registration if shutdown has begun) or `WriteFails` (the exception reaches
whoever dispatched). `Expire` lets a queued command pass its residency cap at any
time, and `ExecutionTimeout` lets a timeout fire at any time after it is armed: the
lengths of the timeouts are not modelled. What a message says is reduced to which
command it answers; a schema is reduced to the commands it knows and those an
e-stop blocks.

`answer`, `sent`, `estopSent` and `acked` are history variables. A board answers only
commands it was sent, but late, repeatedly and over reconnects; an `estop_ack` may come
at any time, as `_handle_event` marks the board whoever asked for it.

### CommandService and ControllerService

`CommandService` knows no `board_seq`, future, writer, timer or task. A request is
accepted by a board or refused; accepted ones wait in one queue, go into flight from
its head, one at a time, and each is answered once. `ControllerService` reads that
state off a `ControllerCore` state (`Progress`): a request whose future waits is queued
if it is in a queue and in flight otherwise. `ImplementsService` says that every step
of the controller is a step of the service or leaves it alone. It holds for one board;
`core_cross_board` shows why it cannot hold for two.

### StateMirror

Every action of `ControllerCore` together with the `_observe_board_state` and
`_observe_system_state` calls of its handler. `mirror` and `sysMirror` are the
snapshots last handed over. Actions whose handlers hand over nothing leave them alone,
which is what `MirrorFresh` is about.

### BoardConnection

`pc` is the position of `run` in `_connect_and_read_once`, `stopper` that of
`stop`. The three awaits of the `finally` block (heartbeat task, liveness task,
`wait_closed`) are three steps, since the liveness task and `stop` interleave with
them. A reader may be suspended in the handler of a message (`pc = "handling"`), and
then sees neither the end of its connection nor `stop`. `tcp` distinguishes how a connection was lost, because `wait_closed` raises
that error; `waiter` records that the future behind `wait_closed` was cancelled
together with the liveness task that awaited it. `asyncio` and the TCP stack are
modelled by how this code uses them. The backoff is the ceiling of
`ReconnectBackoff`; the jitter below it is left out. `ControllerCore`'s `LinkDies`
is what the dispatcher sees of `RunDies`.

### Heartbeat

One task, one outstanding beat, an acknowledgement event. `outcome` is the history
of every beat. `HeartbeatSpec` allows the connection to start and stop the task and to
pass on acknowledgements at any time; `BoardConnection` says when it does: the task
starts with the registration, ends with the `finally` block or with `stop`, and
acknowledgements come through the read loop and count as life signs. The missed
count is kept in `BoardState` and outlives the connections.

### LocalClient

`_send` is one step with its four outcomes (put, evict and put, drop, disconnect).
`closer` has one entry per task that may run `close`: the handler, the server's
`stop`, and the task whose critical message did not fit. `stop` first waits for the
server to be closed; the project's runtime is Python 3.14, where that means that every
connection is closed (`ServerClosed`). `unsent` says that the
peer has not taken what the transport holds; only the peer changes that.
Clients share no state, so one is enough.

### Observability

A record is its number, the Redis key it is for (or a stream) and the
`state_event_id` it carries. `enqueue` never waits: a full queue gives up its oldest
record and marks it done. The worker takes a record, makes the one or two calls of
`_write_record`, and counts it as written or failed; a call to Redis may be applied and
answered, applied and fail, fail unapplied, or never end. `stop` joins the queue or
gives up after `drain_timeout_s`, then awaits or cancels the worker. `unfinished` is the
count of `asyncio.Queue` that `join` waits for.

### SocketPath and Runtime

Between processes only a system call is atomic. `start` is a sequence of eight: exists,
connect, unlink of a dead socket, and in asyncio the removal of a socket at the path,
bind, stat, listen, and then the stat by which the server knows its file. `stop` closes
the socket, stats and removes the file in asyncio, and does the same once more itself
when every connection is closed. `UnlinkDead`, `Bind` and `Own` raise when the file is
not as the step before left it. What asyncio does by itself is marked external. Inode
numbers are given out again. `disturbed` records the processes whose start met another
start, or the moment between a stop's look at the file and its removal. `Runtime` is the process `Me`:
its main task, the shutdown task a signal starts, the parts they start and stop. The
others (`Rival`) start, are refused, stop, die and start again. `Crash` leaves the file
behind. The boards' connections, the clients and the controller's own drain are one
step each here, with their details in the other modules; the one of the boards'
connections need not end (`StopEnds` of `BoardConnection` says when it does).

### Protocol and Exchange

A message is a function from field names to *shapes*: the values the validation tells
apart (a string that is a status, zero, a negative number, one over 2^64 - 1, a boolean
where an integer is expected, an object, null, absent). `Validate` is `validate_message`
with its order of checks, `ParseError` adds `parse_line`. `Exchange` sends such
messages through the controller: `SchemaLines` to register the board, `ClientLines` for
the request, `BoardLines` for what the board sends meanwhile; each is a good message
with up to two fields wrong, or a line that is no message. The answer is validated again
when `writer_loop` serializes it, which may fail ("unread"), as it does for an answer
over the client's line limit (`long`). A line that `json.loads` gives up on with an
exception that `parse_line` does not catch (`Uncaught`) ends the client's handler, or the
run task of the board that sent it.

### Orchestrator

`pc` walks through `execute_task`: clean check, branch, model check, plan, and in each
cycle Codex, capture of the diff, gate, checks, review, audit, adjudication, commit.
The work tree is a version number and what the version touches; `passed` records the
version that last passed each stage. Git queries whose return code the code ignores may
fail and show nothing (`hist.blind`); somebody may edit the tree during any subprocess
(`Edit`). A verdict is what the regular expressions found: PASS, FAIL or none. An audit
that failed stays failed when it is overruled; the adjudication is a stage of its own. The
tick in the backlog may find no line.

## 3. Runs

Passing runs:

| Run | Checks | Instance |
|---|---|---|
| `core_one_board` | `QueueSound`, `ShutdownAnswersAll`, `RightAnswer`, `TimeoutArmed`, `MirrorFresh`, `EstopBlocksDispatch`, `ImplementsService`, `EveryRequestAnswered` | 1 board, 2 requests, depth 1, dying connections, fair loop |
| `core_two_boards` | `TypeOK`, `FifoBound`, `FifoOrder`, `PendingSound`, `EstopReachesAll` | 2 boards, 4 requests (two too long to write), depth 2, 3 numbers, failing writes |
| `client` | `DeliverySound`, `Served`, `CloseEnds` | queue of 3, 6 messages, fair loop |
| `connection` | `BoardDownOnce`, `NoLeftovers`, `BackoffExact`, `BeatsExact`, `OutcomeFinal`, `StopEnds`, `Reconnects` | all switches on, 4 beats, suspect after 2, fair loop |
| `runtime` | `RecordsExact`, `ShutdownClean`, `PathSafe`, `ReplicaForward`, `SignalEnds` | queue of 1, 3 records; 2 processes, 3 inodes, fair loop |
| `exchange` | `ForwardedValid`, `AnswerSound`, `GateShown`, `EstopHolds` | 2 registrations, one request |
| `orchestrator` | `CommittedWasVetted`, `CommitAllowed`, `FeedbackReaches`, `EndReported`, `RunEnds` | 0 to 2 cycles, all options, 1 edit by others |

`QueueSound` is `Tracked` (no command is lost) and `WorkConserving` (none waits behind a
free slot); `DeliverySound` is the client's order, critical messages and drop counter;
`BeatsExact` is the open beat and the suspect verdict.

Runs that TLC refutes; each states what the repository's documents say of the code,
and the counterexample is what the code does (`findings` in `PROJECT.json` quotes the
document):

| Run | Property | What happens |
|---|---|---|
| `core_cross_board` | `RightAnswer` | two boards use the same `board_seq`; the answer of one resolves the command of the other |
| `core_failed_write` | `EveryRequestAnswered` | a command whose line is over 1 KB stays pending without a timeout |
| `client_flush` | `CriticalFlushed` | closing a client with a full queue drops its oldest entry for the sentinel, critical or not, and counts nothing |
| `client_held` | `PeerNeverHolds` | disconnecting a saturated client waits for that client to read, and `stop` waits for all connections to close before it closes them |
| `conn_give_up` | `NoGiveUp` | an `OSError` that is not a `ConnectionError` at `wait_closed` ends run |

`NoGiveUp` also fails without such errors when a connection ends while the liveness
task is closing it (`OSErrors = FALSE`, `LivenessOn = TRUE`). What this means for the
dispatcher is `LinkDies`, after which nobody calls `board_down`.

Two more disagreements have no run of their own. `docs/companion/Codebase_Reference.html`
says of `parse_line` that malformed input gives "a structured INVALID_JSON/INVALID_TYPE,
never an uncaught exception"; `json.loads` raises a plain `ValueError` for an integer of
more than 4300 digits and a `RecursionError` for deep nesting, and neither is caught
(`Uncaught`, an exception of `AnswerSound`). And
`docs/contracts/V1_Networking_Decisions.md` has an e-stop clear the acknowledgement of
every board, where `trigger_estop` clears those of the boards it can reach.

`QueueSound`, `RightAnswer`, `ShutdownAnswersAll`, `TimeoutArmed` and
`ImplementsService` are properties of a controller with *one* board: with two, the
shared pending map breaks them, which `core_cross_board` shows on the one that matters
most. `EveryRequestAnswered` holds when writes do not fail.

Some properties name a case they leave out, because the code does not prevent it:

- `MirrorFresh`: a board refused for its protocol version is shown as before until
  `board_down`; and a board that is down keeps the acknowledgement of an earlier e-stop
  until it registers again (`V1_Networking_Decisions.md` has the e-stop clear it).
- `EveryRequestAnswered`: a write to a board that never returns, since the drain has no
  timeout and the execution timeout is armed after it; a connection whose close never
  ends; a run task that died.
- `StopEnds`, `Reconnects`: a transport that never closes, and a handler that never
  returns because a client holds up its broadcast or a board its write. `CloseEnds`: a
  client that never reads what is buffered.
- `EstopReachesAll`: a send of the e-stop that raised counts as made.
- `TypeOK` of the dispatcher says that no number over the maximum is used, not that the
  request which finds the counter at its end is answered: it is not.
- `PathSafe`: two starts that overlap, since probe and bind are not atomic; a start that
  meets a stop between its look at the file and the removal, which can fail or lose the
  file it has just bound; and an inode number given out again, by which `stop` mistakes
  another's file for its own.
- `ShutdownClean`: a signal that comes before `start` has returned, after which the server
  opens behind the shutdown's back. `SignalEnds` covers that case: the process still ends,
  unless a client stays connected or the stop of a board's connection never returns.
- `AnswerSound`: a request whose `seq` is over 2^64 - 1, and one whose answer is over the
  client's line limit, get no answer they can read; a line that `json.loads` gives up on
  gets none.
- `CommittedWasVetted`, `CommitAllowed`: a tree edited between capture and commit, and
  git queries that fail or do not show what is staged.
- `FeedbackReaches`: checks that fail without printing anything.
- `EndReported`: a run that could not switch to its branch; and a commit whose task was not
  found again in the backlog.

### Bounds

- `Commands`: with two requests one is in flight and one queued or refused; with four, on
  two boards, one is in flight, two queue behind it in order and one finds the queue full
  or the counter at its end. A request is routed once; a client that asks again is another
  request. The theorems cover any number.
- `FifoDepth` (`fifo_depth`): 1 makes a full queue ordinary; 2 is used where order
  within a queue is the question.
- `MaxSeq`: the code's counter ends at 2^64 - 1. In `core_two_boards` it ends before
  the requests do, so exhaustion happens; in `core_one_board` it does not.
- State constraints: `IdleAfterReset` follows an e-stop that was reset only as long as no
  request was made, so that a second e-stop, with everything the first left behind, meets
  a fresh system; `NoShutdown` leaves the shutdown to the other runs;
  `FewInEstop` lets an e-stop of two boards meet one request at a time, as more of them
  in an e-stop are a matter of one board and in `core_one_board`; `FewOversize` follows
  nothing beyond the second request that cannot be written, which is there to find the
  counter at its end.
- Schemas: all commands blocked by an e-stop (the default), or one of the two in
  `core_one_board`. Schemas that change or know no command are the subject of `exchange`.
- `MaxMsgs` (`LocalClient`) is twice `MaxSize`, so a queue fills, is evicted from and
  fills again. `MaxBeats` is twice `SuspectAfter`, so the verdict is
  reached, cleared and approached again. `MaxWaits` only bounds a history variable and
  is large enough to reach the cap.
- `Runtime`: three records and a queue of one let a record be written while one is queued
  and another pushes it out. `Loads` explores either the queue with all its records or
  the rivals with none: the two meet only in the order of the shutdown. Three
  inodes are one for each process and one to spare; a free one may be any that was
  used before.
- `Exchange`: a message has up to two wrong fields, the pairs within one message
  included that decide each other (status and error, type and seq, commands and meta).
  Two registrations are enough for a schema to change and for one to be refused.
- `Orchestrator`: two cycles are the first with feedback; a change touches at most one
  of the three kinds of thing the tool tells apart, as each is tested by itself.
- Symmetry is used for interchangeable requests and boards, in runs without liveness.

Deadlock checking is off in all runs: a finite set of requests, messages, beats or
records is used up, and a controller that was shut down has nothing left to do.

### Fairness

Fairness is assumed of the event loop and of nobody else. A task that can continue
does; a timeout that was armed fires; a drain window ends; connecting and the wait
for a schema have timeouts; a read on a lost connection returns. What waits for a peer
and has no timeout in the code is not fair: a write to a board, the end of a connection
or transport, the handler of a board's message (it may wait for a write, or for the
clients of a broadcast), the stop of a board's connection as the runtime sees it. Clients,
boards and network therefore need not send, read, answer, connect or disconnect. Where a
property depends on one of them, a disjunct of the property says on what: `HeldUp` of
`EveryRequestAnswered`, `StopEnds` and `Reconnects`, and the first disjuncts of
`CloseEnds` and `SignalEnds`.
In `Runtime` nothing is assumed of Redis (its worker's steps are not fair) and nothing
of clients and boards: `SignalEnds` says that clients have to leave and that the stops of
the connections have to end. In `Orchestrator` every
subprocess ends because `run_cmd` gives it a timeout.

## 4. Proofs

Every safety invariant and every action property that a passing run checks is also a
theorem, and so are the refinements `ImplementsService`, `MirrorImplementsCore` and
`ConnectionImplementsHeartbeat`. The theorems hold for any number of boards, requests,
messages, records, processes and cycles, any queue size and any range of `board_seq`,
under the named `ASSUME`s of the modules, which TLC evaluates in every run, and the
hypotheses listed here:

| Hypothesis | Of | Why |
|---|---|---|
| `SingleBoard` | the theorems marked (1) | with two boards they are false: `core_cross_board` |
| `CleanWrites` | `TimeoutAlwaysArmed` | `core_failed_write` is what happens otherwise |
| `PowerLaw` | `BackoffAlwaysExact` | the defining equations of `^` for `Factor`, which the provers do not know |

| Module | Theorems |
|---|---|
| `ControllerCore_proofs` | `TypeCorrect`, `PendingSoundness`, `FifoOrderAlways`, `EstopDelivery` |
| `ControllerQueue_proofs` | `FifoBounded`, `EstopBlocks`, `QueueAlwaysSound` (1), `ShutdownAlwaysAnswers` (1), `AlwaysRightAnswer` (1), `TimeoutAlwaysArmed` (1) |
| `ControllerViews_proofs` | `ControllerImplementsService` (1), `MirrorImplementsCore`, `MirrorAlwaysFresh` |
| `BoardConnection_proofs` | `ConnectionImplementsHeartbeat`, `ConnectionAccount`, `ConnectionFinal`, `BoardDownExactlyOnce`, `NothingLeftOver`, `BackoffAlwaysExact` |
| `LocalClient_proofs` | `DeliveryAlwaysSound`, `AlwaysServed` |
| `Runtime_proofs` | `RecordsAccounted`, `ReplicaNeverBack`, `PathAlwaysSafe`, `ShutdownAlwaysClean` |
| `Exchange_proofs` | `ForwardedAlwaysValid`, `AnswerAlwaysSound`, `GateAlwaysShown`, `EstopAlwaysHolds`, `ModelIsExchange` |
| `Orchestrator_proofs` | `Vetted`, `Allowed`, `Informed`, `Reported` |

`PROJECT.json` says under `theorems` which property each one states. Hardly any of the
properties is inductive as it stands; what follows is what had to be added to each.

### The dispatcher, any number of boards

`ControllerCore_proofs` rests on `IInv`:

- `FifoInv`: queued commands belong to the board, wait, were never sent and are
  ordered after everything sent. Without "were never sent" a pending command might
  also be queued and its future resolved under it.
- `PendingInv`: a pending command was sent, besides what `PendingSound` says.
- `SeqInv`: `board_seq` is unique *per board*. It is not unique overall, which is
  why two boards can displace each other's entry; `PendingSound` still holds, as
  the displacing entry satisfies it for its own board.
- `TaskInv`: a request that was not routed has no board and no future; counters are
  ahead of every number given out; suspended writes and timeouts belong to sent
  commands.
- `AuxTypes`: the types of the other variables.

`QueueInv` is stated over its arguments rather than over the variables, since a
handler that ends in `_dispatch_next` passes through an intermediate state. The
lemmas `ReleaseQueueInv`, `RemoveQueueInv` and the first part of `EnqueueStep`
establish it there, `DispatchQueueInv` carries it over the dispatch. `EstopDelivery`
is inductive relative to the types: only `register_board` makes a board available,
and it sends the e-stop itself.

`ControllerQueue_proofs` adds `BoardsInv`:

- `ReaderInv`: a reader that is suspended, in a write or in an e-stop, is in its read
  loop, and in one of the two only, so a board that registers has no handler of its
  former connection left.
- `LinkInv`: a board without a writer has an empty queue, and one that has not
  registered since its last `board_down` has no writer. A new schema, with other blocked
  commands, therefore never meets commands that were accepted under an old one.
- `GateInv`: while an e-stop is latched nothing that it blocks is queued. This is what
  `EstopBlocks` needs: `_dispatch_next` itself does not look at the latch.
- `FifoBound`: the queue is within its depth. `route_command` checks the depth only
  while the slot is taken; where it is free, the command that is added to a full queue
  makes `_dispatch_next` take at least one out in the same step (`Shortens`).

### The dispatcher with one board

With one board `board_seq` is a key. `SingleInv` adds to the above `Track` (a waiting
command is queued or pending, and a slot that is taken is that of a pending command),
`WorkConserving`, `ShutdownAnswersAll` and `RightAnswer`. These are inductive together
and not one by one: that no answer goes astray needs that nothing is lost, and that a
shutdown answers everybody needs that all who wait are pending or queued. Writes may
fail and connections may die. Only `TimeoutArmed` excludes failing writes: a write that
raises leaves its command pending without a timeout.

### The views of the dispatcher

`ControllerService` has no history of its own: the refinement mapping reads progress off
the futures and queues. `ControllerImplementsService` goes through the actions one by one
and names the step of the service that each is, or that it is none. A handler that
settles a command and dispatches the next is one step, as it is in the service (`Serve`).
`ReplyInv` says that a request is replied to only with a terminal future and that its
task is alive, once, while it is suspended in a write; `OutcomeFixed` that a future is
set once.

For the mirror, `Shown(b)` says that the snapshot of `b` is its state. The lemmas
`CommandShown`, `BoardShown` and `ControllerShown` show of every handler that it
snapshots the boards it changes; `DispatchOthers` and `SettleOthers` that it changes no
others. `MirrorInv` adds that a board which waits for its schema is not registered, and
that during an e-stop a reachable board that counts as safe has acknowledged it.

### The connection and its heartbeat

`BeatInv` says that the open heartbeat is the last one sent, that later ones have no
outcome yet, and at which points of the loop one can be open; without it a miss could be
counted for a beat that is not the newest, and `SuspectExact` would not survive the next
acknowledgement. The connection is shown to use the
heartbeat as `HeartbeatSpec` allows, so what is proved of the heartbeat by itself holds
in the connection. `AttemptInv` says at each position of the run task which
tasks, stream and registration may exist there, and whether `board_down` was called. For the backoff, `CeilingExact` says that the ceiling is
`Base * Factor ^ waits` up to `Cap`; once the cap is reached it stays, since powers grow.

### The local client

`IInv` is `DeliverySound` with `Offered` (only messages that were offered are written,
queued, critical or dropped) and `Open` (a connected client has its writer loop, no
sentinel in its queue and no task that closes it). An eviction takes an entry out of the
middle of the queue, which is a lemma of its own.

### The runtime

The invariant is a conjunction over the parts, as the specification is: `ObsInv` for the
record queue (with `OrderInv`, the records of the queue have consecutive numbers after
the one being written, and `EventInv`, updates still to come are newer than everything
Redis has seen), `SockInv` for the socket path and `ShutInv` for how far the shutdown has
come. `SockInv` is `SocketInv`, who has a socket at which point, and `AloneInv(p)` for
every undisturbed process `p`: what it finds at the path before each of its system calls,
that no other process has recorded the inode of its file, and that none is in the middle
of a start or about to remove a file. A step of one part is
shown to leave the others' conjuncts alone.

### The exchange

The runs enumerate messages with up to two wrong fields. `WideSpec` is the same
controller fed with any message, every field wrong at once and fields of any content, or
any bad line. The properties are proved of `WideSpec`; `ModelIsExchange` shows that the
model which TLC checks is a case of it. The lemmas up to `ParseCheck` turn the
ordered checks of `validate_message` into what a message that passes them satisfies;
`BoardCommand`, `ErrorAnswer`, `OkAnswer` and `ClientAnswer` show that what the
controller builds passes them again. `GateInv`, `RouteInv` and `AnswerInv` say what is
known of the schema, of the request under way and of the answer.

### The orchestrator

`VetInv` says which stages the captured version has passed at each `pc`; `PlaceInv`
that the run is neither on top of others' work nor on the main branch; `FeedInv` that a
further cycle has feedback; `OutInv` that there is no outcome until the run is over and
that report and commit then agree. The exceptions of
`CommittedWasVetted` (`hist.edited`, `hist.blind`) are in `VetInv` too: after them
nothing is known of the tree.

### Only model-checked

Liveness, which is outside what the prover handles: `EveryRequestAnswered`, `CloseEnds`,
`StopEnds`, `Reconnects`, `SignalEnds`, `RunEnds`. The equations in `PowerLaw` are not
proved either; TLC computes with the exponentiation of the standard module.

## 5. What is not modelled

- `schema_revision`, which is written for clients to compare and never read here.
- Statistics: latency percentiles, telemetry rates, metrics counters, the
  classification of unmatched responses. The control logic writes and never reads them.
- The lock of `StreamBoardWriter`: a line is handed to the transport in one synchronous
  call, so lines cannot mix with or without it.
- Configuration: TOML files and environment variables of `runtime.py`, the TOML reader of
  the orchestrator. Prompts, regular expressions and report texts of the orchestrator.
- The text of the backlog, which the orchestrator writes back as it was read before the
  run.
- Lengths of timeouts and the bytes of JSON; a line over its limit is modelled.
- `tools/check_invariants.py`, `tools/gen_codebase_reference.py`: stateless text
  processing. `demos/`: example programs and presentation.
- asyncio and the operating system are modelled by how this code uses them, as of the
  project's runtime, Python 3.14; Redis by its possible outcomes.

## 6. Plan

1. Several boards: `QueueSound` and the refinement of `CommandService` under the weaker
   assumption that boards never use the same `board_seq`, which is what a pending map
   keyed by board would give the code.
2. `Metrics`: percentiles and rates over a window, and the resolved sequence numbers kept
   for classifying late answers.
