--------------------------- MODULE ControllerCore ---------------------------
(***************************************************************************)
(* The command dispatcher of the Hyperloop controller: the class           *)
(* ControllerCore of controller.py, with the board and command state it    *)
(* keeps (state.py), the asyncio tasks that run inside it and the calls    *)
(* that a board connection (board_connection.py), the local socket server  *)
(* (local_socket.py) and the runtime (runtime.py) make on it.              *)
(*                                                                         *)
(* Everything runs on one asyncio loop, so a step of this specification is *)
(* what one task does between two suspension points.  The suspension       *)
(* points that matter are the write to a board inside _dispatch_next, the  *)
(* sleep of _execution_timeout, the await of a command's future, the       *)
(* gather of trigger_estop and the drain window of shutdown.               *)
(***************************************************************************)
EXTENDS Integers, Sequences, FiniteSets

CONSTANTS
  Boards,      \* the expected boards (expected_boards)
  Commands,    \* the client requests; each is routed at most once
  None,        \* Python's None
  FifoDepth,   \* fifo_depth
  MaxSeq,      \* the last board_seq a counter can give (2^64 - 1 in the code)
  Schemas,     \* the schemas a board can announce
  WriteErrors, \* may a write to a board raise ConnectionError?
  LinkErrors,  \* may closing a connection raise what run does not catch?
  Oversize     \* requests whose board line exceeds BOARD_MAX_LINE_BYTES

\* A schema is what extract_blocked_by_estop keeps of it: the commands it
\* knows, and those of them that an e-stop blocks.
SchemaType == [known : SUBSET Commands, blocked : SUBSET Commands]

ASSUME NoneAssumption == None \notin Boards \cup Commands
ASSUME DepthAssumption == FifoDepth \in Nat
ASSUME SeqAssumption == MaxSeq \in Nat \ {0}
ASSUME SchemaAssumption == Schemas \subseteq SchemaType
ASSUME WriteAssumption == WriteErrors \in BOOLEAN /\ Oversize \subseteq Commands
ASSUME LinkAssumption == LinkErrors \in BOOLEAN

VARIABLES
  \* per command
  task,        \* the _route_and_reply task of the request
  fut,         \* the future of the request's PendingCommand
  board,       \* entry.board_id
  seq,         \* entry.board_seq, 0 before there is one
  answer,      \* history: the command whose board response resolved this one
  \* per board
  conn,        \* BoardState.conn_state
  link,        \* where the board's BoardTCPConnection.run task is
  writer,      \* runtime.writer is not None
  schema,      \* runtime.blocked_by_estop
  fifo,        \* runtime.fifo
  inflight,    \* BoardState.in_flight_board_seq, 0 for None
  nextSeq,     \* runtime.seq_counter.next_value
  ack,         \* BoardState.estop_ack
  \* shared by all boards, keyed by board_seq
  pending,     \* ControllerCore._pending
  handle,      \* ControllerCore._timeout_tasks
  \* tasks and time
  writing,     \* who is suspended in the write of a command, if anybody
  sent,        \* commands handed to a board writer
  timers,      \* commands whose _execution_timeout task is sleeping
  stale,       \* queued commands past their queue residency cap
  \* e-stop
  estopActive, \* SystemState.estop_active
  estopSend,   \* boards whose send_estop_to_board task is still to run
  estopWait,   \* boards whose reader waits in trigger_estop's gather
  estopSent,   \* history: boards sent the e-stop since it latched
  acked,       \* history: boards that acknowledged since the e-stop latched
  \* shutdown
  phase

cmdVars   == <<task, fut, board, seq, answer>>
linkVars  == <<conn, link, writer, schema>>
queueVars == <<fifo, inflight, pending, writing, sent>>
timerVars == <<handle, timers>>
estopVars == <<ack, estopActive, estopSend, estopWait, estopSent, acked>>

vars == <<cmdVars, linkVars, queueVars, timerVars, estopVars,
          nextSeq, stale, phase>>

-----------------------------------------------------------------------------
Seqs == 1 .. MaxSeq

ConnStates == {"DISCONNECTED", "CONNECTING", "CONNECTED", "REGISTERED", "FAULTED"}

\* The run task of a board connection: between two attempts, connecting,
\* waiting for the schema, in the read loop, in the read loop after the
\* liveness check has already called board_down, in the finally block, in the
\* finally block with an exception that will end the task, ended.
LinkStates == {"down", "connecting", "connected", "up", "reported",
               "closing", "dying", "stopped"}

Terminal == {"board", "command_timeout", "board_unavailable", "board_busy",
             "estop_active", "controller_shutdown", "unknown_command",
             "unknown_target", "local"}

TaskStates == {"idle", "active", "replied", "dead"}

Phases == {"run", "stop", "drain", "failed", "closed"}

\* The tasks that can be suspended in the write of _dispatch_next.
NoTask       == <<"none", None>>
RouteTask(c) == <<"route", c>>
Reader(b)    == <<"reader", b>>
TimeoutTask  == <<"timeout", None>>
Tasks == {NoTask, TimeoutTask} \cup {RouteTask(c) : c \in Commands}
           \cup {Reader(b) : b \in Boards}

NoSchema == [known |-> {}, blocked |-> {}]

TypeOK ==
  /\ task \in [Commands -> TaskStates]
  /\ fut \in [Commands -> Terminal \cup {"none", "wait"}]
  /\ board \in [Commands -> Boards \cup {None}]
  /\ seq \in [Commands -> 0 .. MaxSeq]
  /\ answer \in [Commands -> Commands \cup {None}]
  /\ conn \in [Boards -> ConnStates]
  /\ link \in [Boards -> LinkStates]
  /\ writer \in [Boards -> BOOLEAN]
  /\ schema \in [Boards -> SchemaType]
  /\ fifo \in [Boards -> Seq(Commands)]
  /\ inflight \in [Boards -> 0 .. MaxSeq]
  /\ nextSeq \in [Boards -> 1 .. MaxSeq + 1]
  /\ ack \in [Boards -> BOOLEAN]
  /\ pending \in [Seqs -> Commands \cup {None}]
  /\ handle \in [Seqs -> Commands \cup {None}]
  /\ writing \in [Commands -> Tasks]
  /\ sent \subseteq Commands
  /\ timers \subseteq Commands
  /\ stale \subseteq Commands
  /\ estopActive \in BOOLEAN
  /\ estopSend \subseteq Boards
  /\ estopWait \subseteq Boards
  /\ estopSent \subseteq Boards
  /\ acked \subseteq Boards
  /\ phase \in Phases

Init ==
  /\ task = [c \in Commands |-> "idle"]
  /\ fut = [c \in Commands |-> "none"]
  /\ board = [c \in Commands |-> None]
  /\ seq = [c \in Commands |-> 0]
  /\ answer = [c \in Commands |-> None]
  /\ conn = [b \in Boards |-> "DISCONNECTED"]
  /\ link = [b \in Boards |-> "down"]
  /\ writer = [b \in Boards |-> FALSE]
  /\ schema = [b \in Boards |-> NoSchema]
  /\ fifo = [b \in Boards |-> <<>>]
  /\ inflight = [b \in Boards |-> 0]
  /\ nextSeq = [b \in Boards |-> 1]
  /\ ack = [b \in Boards |-> FALSE]
  /\ pending = [s \in Seqs |-> None]
  /\ handle = [s \in Seqs |-> None]
  /\ writing = [c \in Commands |-> NoTask]
  /\ sent = {} /\ timers = {} /\ stale = {}
  /\ estopActive = FALSE
  /\ estopSend = {} /\ estopWait = {} /\ estopSent = {} /\ acked = {}
  /\ phase = "run"

-----------------------------------------------------------------------------
(* Helpers.  A definition whose name begins with Bug is a broken variant of *)
(* the one that follows it, used to show that the properties notice.        *)

ShuttingDown == phase \in {"drain", "failed", "closed"}

\* A board that route_command and _dispatch_next accept.
Available(b) == writer[b] /\ conn[b] = "REGISTERED"

BugQueued(q) == {q[i] : i \in 2 .. Len(q)}

\* The commands in a queue.
Queued(q) == {q[i] : i \in 1 .. Len(q)}

AllQueued == UNION {Queued(fifo[b]) : b \in Boards}

\* _resolve_entry_error for every command of S: a future is set only once.
Resolve(f, S, code) ==
  [c \in Commands |-> IF c \in S /\ f[c] = "wait" THEN code ELSE f[c]]

BugCancelTimeouts(S) ==
  /\ timers' = timers
  /\ handle' = [s \in Seqs |-> IF s \in S THEN None ELSE handle[s]]

\* _cancel_timeout for every board_seq of S.
CancelTimeouts(S) ==
  /\ timers' = timers \ {handle[s] : s \in S}
  /\ handle' = [s \in Seqs |-> IF s \in S THEN None ELSE handle[s]]

BugSeqLeft(b) == nextSeq[b] <= MaxSeq + 1
BugBumpSeq(b) == nextSeq

\* BoardSeqCounter.next: the counter moves on, or is exhausted.
SeqLeft(b) == nextSeq[b] <= MaxSeq

BumpSeq(b) == [nextSeq EXCEPT ![b] = nextSeq[b] + 1]

BugEnqueue(q, c) == <<c>> \o q

\* runtime.fifo.append.
Enqueue(q, c) == Append(q, c)

BugSlotFree(fl, b) == TRUE
BugSlotTaken(fl, b) == fl[b] # 0

\* _dispatch_next's condition on the slot.
SlotFree(fl, b) == fl[b] = 0

BugFreeSlotAlways(fl, b, s) == [fl EXCEPT ![b] = 0]
BugFreeSlotNever(fl, b, s) == fl

\* The slot of board b is released when it still holds board_seq s.
FreeSlot(fl, b, s) == IF fl[b] = s THEN [fl EXCEPT ![b] = 0] ELSE fl

\* The reader of a board is suspended while a dispatch it made is being
\* written and while the e-stop it triggered is being sent.
ReaderFree(b) ==
  /\ \A c \in Commands : writing[c] # Reader(b)
  /\ b \notin estopWait

-----------------------------------------------------------------------------
(* _dispatch_next, up to the write's suspension point.  It runs at the end  *)
(* of another handler, whose effects so far are the queue q, the board_seqs *)
(* sq, the futures f, the pending map p and the slots fl; who is the task   *)
(* that will wait for the write.  The queue's stale head is rejected, the   *)
(* first command that is not stale takes the slot.                          *)

DispatchNext(b, q, sq, f, p, fl, who) ==
  LET can == ~ShuttingDown /\ Available(b) /\ SlotFree(fl, b)
  IN
  \/ /\ ~can
     /\ fifo' = [fifo EXCEPT ![b] = q]
     /\ fut' = f /\ pending' = p /\ inflight' = fl
     /\ UNCHANGED <<writing, sent>>
  \/ /\ can
     /\ \E n \in 0 .. Len(q) :
          /\ \A i \in 1 .. n : q[i] \in stale
          /\ fut' = Resolve(f, {q[i] : i \in 1 .. n}, "command_timeout")
          /\ \/ /\ n = Len(q)
                /\ fifo' = [fifo EXCEPT ![b] = <<>>]
                /\ pending' = p /\ inflight' = fl
                /\ UNCHANGED <<writing, sent>>
             \/ /\ n < Len(q)
                /\ q[n + 1] \notin stale
                /\ fifo' = [fifo EXCEPT ![b] = SubSeq(q, n + 2, Len(q))]
                /\ pending' = [p EXCEPT ![sq[q[n + 1]]] = q[n + 1]]
                /\ inflight' = [fl EXCEPT ![b] = sq[q[n + 1]]]
                /\ writing' = [writing EXCEPT ![q[n + 1]] = who]
                /\ sent' = sent \cup {q[n + 1]}

-----------------------------------------------------------------------------
(* Client requests: route_command *)

\* A request that is answered without reaching a queue.
Answered(c, code) ==
  /\ task' = [task EXCEPT ![c] = "active"]
  /\ fut' = [fut EXCEPT ![c] = code]
  /\ UNCHANGED <<board, seq, answer, linkVars, queueVars, timerVars, estopVars,
                 nextSeq, stale, phase>>

BugSchemaReject(b, c) ==
  IF c \notin schema[b].known THEN "unknown_command" ELSE "none"

\* The error _reject_for_schema_or_estop gives, if any.
SchemaReject(b, c) ==
  IF c \notin schema[b].known THEN "unknown_command"
  ELSE IF estopActive /\ c \in schema[b].blocked THEN "estop_active"
  ELSE "none"

RouteShutdown(c) == ShuttingDown /\ Answered(c, "controller_shutdown")

\* The target is the controller itself (get_schemas) or no configured board.
RouteLocal(c) == ~ShuttingDown /\ Answered(c, "local")

RouteUnknown(c) == ~ShuttingDown /\ Answered(c, "unknown_target")

RouteUnavailable(c, b) ==
  ~ShuttingDown /\ ~Available(b) /\ Answered(c, "board_unavailable")

RouteRejected(c, b) ==
  /\ ~ShuttingDown /\ Available(b)
  /\ SchemaReject(b, c) # "none"
  /\ Answered(c, SchemaReject(b, c))

FifoFull(b) == inflight[b] # 0 /\ Len(fifo[b]) >= FifoDepth

RouteBusy(c, b) ==
  /\ ~ShuttingDown /\ Available(b) /\ SchemaReject(b, c) = "none"
  /\ FifoFull(b)
  /\ Answered(c, "board_busy")

\* seq_counter.next() raises OverflowError out of the request's task.
RouteExhausted(c, b) ==
  /\ ~ShuttingDown /\ Available(b) /\ SchemaReject(b, c) = "none"
  /\ ~FifoFull(b)
  /\ ~SeqLeft(b)
  /\ task' = [task EXCEPT ![c] = "dead"]
  /\ UNCHANGED <<fut, board, seq, answer, linkVars, queueVars, timerVars,
                 estopVars, nextSeq, stale, phase>>

RouteEnqueue(c, b) ==
  /\ ~ShuttingDown /\ Available(b) /\ SchemaReject(b, c) = "none"
  /\ ~FifoFull(b)
  /\ SeqLeft(b)
  /\ task' = [task EXCEPT ![c] = "active"]
  /\ board' = [board EXCEPT ![c] = b]
  /\ seq' = [seq EXCEPT ![c] = nextSeq[b]]
  /\ nextSeq' = BumpSeq(b)
  /\ DispatchNext(b, Enqueue(fifo[b], c), [seq EXCEPT ![c] = nextSeq[b]],
                  [fut EXCEPT ![c] = "wait"], pending, inflight, RouteTask(c))
  /\ UNCHANGED <<answer, linkVars, timerVars, estopVars, stale, phase>>

RouteCommand(c) ==
  /\ task[c] = "idle"
  /\ \/ RouteShutdown(c)
     \/ RouteLocal(c)
     \/ RouteUnknown(c)
     \/ \E b \in Boards :
          \/ RouteUnavailable(c, b)
          \/ RouteRejected(c, b)
          \/ RouteBusy(c, b)
          \/ RouteExhausted(c, b)
          \/ RouteEnqueue(c, b)

\* `return await future`, then _route_and_reply hands the response to the
\* client.  A task still suspended in a write has not reached its await.
Reply(c) ==
  /\ task[c] = "active"
  /\ fut[c] \in Terminal
  /\ \A d \in Commands : writing[d] # RouteTask(c)
  /\ task' = [task EXCEPT ![c] = "replied"]
  /\ UNCHANGED <<fut, board, seq, answer, linkVars, queueVars, timerVars,
                 estopVars, nextSeq, stale, phase>>

\* A queued command grows older than its queue residency cap.
Expire(c) ==
  /\ c \in AllQueued \ stale
  /\ stale' = stale \cup {c}
  /\ UNCHANGED <<cmdVars, linkVars, queueVars, timerVars, estopVars,
                 nextSeq, phase>>

-----------------------------------------------------------------------------
(* The rest of _dispatch_next, after the write *)

\* The future may have been resolved during the write; otherwise the
\* execution timeout is armed, unless the controller is shutting down.
WriteCompletes(d) ==
  /\ writing[d] # NoTask /\ d \notin Oversize
  /\ writing' = [writing EXCEPT ![d] = NoTask]
  /\ \/ /\ fut[d] # "wait"
        /\ pending' = [pending EXCEPT ![seq[d]] = None]
        /\ inflight' = FreeSlot(inflight, board[d], seq[d])
        /\ UNCHANGED timerVars
     \/ /\ fut[d] = "wait" /\ ShuttingDown
        /\ UNCHANGED <<pending, inflight, timerVars>>
     \/ /\ fut[d] = "wait" /\ ~ShuttingDown
        /\ timers' = timers \cup {d}
        /\ handle' = [handle EXCEPT ![seq[d]] = d]
        /\ UNCHANGED <<pending, inflight>>
  /\ UNCHANGED <<cmdVars, linkVars, fifo, sent, estopVars, nextSeq, stale, phase>>

BugAfterReading(b) == "down"

\* Where the run task of a connection goes when its read loop ends: board_down
\* follows, unless the liveness check has already called it.
AfterReading(b) == IF link[b] = "up" THEN "closing" ELSE "down"

\* write_message raises: ConnectionError from the stream, or the validation
\* error of a line that is too long (raised before anything is written; its
\* own step here only lets it reach the caller later).  The task that called
\* _dispatch_next gets the exception: a request's task and a timeout task
\* end, a reader leaves its read loop.  The entry stays where it is.
WriteFails(d) ==
  /\ writing[d] # NoTask
  /\ d \in Oversize \/ WriteErrors
  /\ writing' = [writing EXCEPT ![d] = NoTask]
  /\ \/ /\ writing[d] = TimeoutTask
        /\ UNCHANGED <<task, conn, link>>
     \/ \E c \in Commands :
          /\ writing[d] = RouteTask(c)
          /\ task' = [task EXCEPT ![c] = "dead"]
          /\ UNCHANGED <<conn, link>>
     \/ \E b \in Boards :
          /\ writing[d] = Reader(b)
          /\ \/ /\ d \notin Oversize
                /\ conn' = [conn EXCEPT ![b] = "FAULTED"]
                /\ link' = [link EXCEPT ![b] = AfterReading(b)]
             \/ /\ d \in Oversize
                /\ link' = [link EXCEPT ![b] =
                              IF link[b] = "up" THEN "dying" ELSE "stopped"]
                /\ UNCHANGED conn
          /\ UNCHANGED task
  /\ UNCHANGED <<fut, board, seq, answer, writer, schema, fifo, inflight,
                 pending, sent, timerVars, estopVars, nextSeq, stale, phase>>

-----------------------------------------------------------------------------
(* Messages from a board, and the execution timeout *)

\* handle_board_response: board b answers the command d it was sent, once or
\* more often.  The entry is looked up by the board_seq alone.  A response
\* without an entry changes nothing but counters.
HandleBoardResponse(b, d) ==
  LET s == seq[d]
      c == pending[s]
      x == board[c]
  IN
  /\ link[b] \in {"up", "reported"} /\ ReaderFree(b)
  /\ d \in sent \ Oversize /\ board[d] = b
  /\ c # None
  /\ CancelTimeouts({s})
  /\ answer' = [answer EXCEPT ![c] = IF fut[c] = "wait" THEN d ELSE answer[c]]
  /\ DispatchNext(x, fifo[x], seq, Resolve(fut, {c}, "board"),
                  [pending EXCEPT ![s] = None], FreeSlot(inflight, x, s),
                  Reader(b))
  /\ UNCHANGED <<task, board, seq, linkVars, estopVars, nextSeq, stale, phase>>

\* _execution_timeout after its sleep, for the board_seq of command d.
ExecutionTimeout(d) ==
  LET s == seq[d]
      c == pending[s]
      x == board[c]
  IN
  /\ d \in timers
  /\ timers' = timers \ {d}
  /\ \/ /\ c = None
        /\ UNCHANGED <<fut, handle, queueVars>>
     \/ /\ c # None
        /\ handle' = [handle EXCEPT ![s] = None]
        /\ DispatchNext(x, fifo[x], seq, Resolve(fut, {c}, "command_timeout"),
                        [pending EXCEPT ![s] = None], FreeSlot(inflight, x, s),
                        TimeoutTask)
  /\ UNCHANGED <<task, board, seq, answer, linkVars, estopVars, nextSeq, stale,
                 phase>>

-----------------------------------------------------------------------------
(* Board connections *)

\* set_board_state(CONNECTING), then set_board_state(CONNECTED).
Connect(b) ==
  /\ \/ /\ link[b] = "down"
        /\ link' = [link EXCEPT ![b] = "connecting"]
        /\ conn' = [conn EXCEPT ![b] = "CONNECTING"]
     \/ /\ link[b] = "connecting"
        /\ link' = [link EXCEPT ![b] = "connected"]
        /\ conn' = [conn EXCEPT ![b] = "CONNECTED"]
  /\ UNCHANGED <<cmdVars, writer, schema, queueVars, timerVars, estopVars,
                 nextSeq, stale, phase>>

\* No connection, no schema in time, a wrong schema, or one that
\* register_board refuses: the board is faulted.
ConnectFails(b) ==
  /\ link[b] \in {"connecting", "connected"}
  /\ link' = [link EXCEPT ![b] = "closing"]
  /\ conn' = [conn EXCEPT ![b] = "FAULTED"]
  /\ UNCHANGED <<cmdVars, writer, schema, queueVars, timerVars, estopVars,
                 nextSeq, stale, phase>>

\* register_board, and the e-stop for a board that registers while it is
\* latched; then the read loop.
RegisterBoard(b) ==
  /\ link[b] = "connected"
  /\ link' = [link EXCEPT ![b] = "up"]
  /\ conn' = [conn EXCEPT ![b] = "REGISTERED"]
  /\ writer' = [writer EXCEPT ![b] = TRUE]
  /\ \E sch \in Schemas : schema' = [schema EXCEPT ![b] = sch]
  /\ \/ /\ estopActive
        /\ ack' = [ack EXCEPT ![b] = FALSE]
        /\ estopSent' = estopSent \cup {b}
        /\ acked' = acked \ {b}
     \/ /\ ~estopActive
        /\ UNCHANGED <<ack, estopSent, acked>>
  /\ UNCHANGED <<cmdVars, queueVars, timerVars, estopActive, estopSend,
                 estopWait, nextSeq, stale, phase>>

\* The read loop ends: at end of file, or with an error that faults the board.
LinkLost(b) ==
  /\ link[b] \in {"up", "reported"} /\ ReaderFree(b)
  /\ link' = [link EXCEPT ![b] = AfterReading(b)]
  /\ conn' \in {conn, [conn EXCEPT ![b] = "FAULTED"]}
  /\ UNCHANGED <<cmdVars, writer, schema, queueVars, timerVars, estopVars,
                 nextSeq, stale, phase>>

\* The finally block of a connection raises, at its wait for the liveness task
\* or for the closed stream (see module BoardConnection): the run task ends
\* without board_down.
LinkDies(b) ==
  /\ LinkErrors
  /\ link[b] \in {"connected", "up", "reported"} /\ ReaderFree(b)
  /\ link' = [link EXCEPT ![b] = "stopped"]
  /\ conn' \in {conn, [conn EXCEPT ![b] = "FAULTED"]}
  /\ UNCHANGED <<cmdVars, writer, schema, queueVars, timerVars, estopVars,
                 nextSeq, stale, phase>>

\* board_down: fault the board and answer everything it had accepted.
Drop(b) ==
  LET S == {s \in Seqs : pending[s] # None /\ board[pending[s]] = b}
  IN
  /\ conn' = [conn EXCEPT ![b] = "FAULTED"]
  /\ writer' = [writer EXCEPT ![b] = FALSE]
  /\ pending' = [s \in Seqs |-> IF s \in S THEN None ELSE pending[s]]
  /\ CancelTimeouts(S)
  /\ fut' = Resolve(fut, {pending[s] : s \in S} \cup Queued(fifo[b]),
                    "board_unavailable")
  /\ fifo' = [fifo EXCEPT ![b] = <<>>]
  /\ inflight' = [inflight EXCEPT ![b] = 0]
  /\ UNCHANGED <<task, board, seq, answer, schema, writing, sent, ack,
                 estopActive, estopSend, estopWait, estopSent, acked, nextSeq,
                 stale, phase>>

\* board_down from the finally block of a connection that is not stopped.
BoardDown(b) ==
  /\ \/ link[b] = "closing" /\ link' = [link EXCEPT ![b] = "down"]
     \/ link[b] = "dying" /\ link' = [link EXCEPT ![b] = "stopped"]
  /\ Drop(b)

\* board_down from the liveness check, with the reader still in its loop.
LivenessDown(b) ==
  /\ link[b] = "up" /\ conn[b] = "REGISTERED"
  /\ link' = [link EXCEPT ![b] = "reported"]
  /\ Drop(b)

-----------------------------------------------------------------------------
(* E-stop *)

BugEstopTargets(b) == {x \in Boards \ {b} : Available(x)}

\* The boards trigger_estop sends to; b is the board whose event triggered it.
EstopTargets(b) == {x \in Boards : Available(x)}

\* trigger_estop, from the event of board b: latch, reject every queued
\* command, start one send task for each board that can be reached.
TriggerEstop(b) ==
  /\ link[b] \in {"up", "reported"} /\ ReaderFree(b)
  /\ ~estopActive
  /\ estopActive' = TRUE
  /\ fut' = Resolve(fut, AllQueued, "estop_active")
  /\ fifo' = [x \in Boards |-> <<>>]
  /\ estopSend' = estopSend \cup EstopTargets(b)
  /\ estopWait' = IF estopSend' = {} THEN {} ELSE estopWait \cup {b}
  /\ estopSent' = {} /\ acked' = {}
  /\ UNCHANGED <<task, board, seq, answer, linkVars, inflight, pending, writing,
                 sent, timerVars, ack, nextSeq, stale, phase>>

\* send_estop_to_board, in the task the gather made for board b.
MarkEstopSent(b) ==
  /\ estopSend' = estopSend \ {b}
  /\ \/ /\ ~writer[b]
        /\ UNCHANGED <<ack, estopSent, acked>>
     \/ /\ writer[b]
        /\ ack' = [ack EXCEPT ![b] = FALSE]
        /\ estopSent' = estopSent \cup {b}
        /\ acked' = acked \ {b}

SendEstop(b) ==
  /\ b \in estopSend
  /\ MarkEstopSent(b)
  /\ estopWait' = IF estopSend' = {} THEN {} ELSE estopWait
  /\ UNCHANGED <<cmdVars, linkVars, queueVars, timerVars, estopActive, nextSeq,
                 stale, phase>>

\* The write of the e-stop raises: gather passes the exception to a reader
\* that waits for it, which leaves its read loop.
SendEstopFails(b) ==
  /\ WriteErrors /\ b \in estopSend /\ writer[b]
  /\ MarkEstopSent(b)
  /\ \/ estopWait = {} /\ UNCHANGED <<conn, link, estopWait>>
     \/ \E o \in estopWait :
          /\ estopWait' = IF estopSend' = {} THEN {} ELSE estopWait \ {o}
          /\ conn' = [conn EXCEPT ![o] = "FAULTED"]
          /\ link' = [link EXCEPT ![o] = AfterReading(o)]
  /\ UNCHANGED <<cmdVars, writer, schema, queueVars, timerVars, estopActive,
                 nextSeq, stale, phase>>

\* The estop_ack event of a board (_handle_event): it counts whenever the board
\* sends it, late, repeated or unasked.
EstopAck(b) ==
  /\ link[b] \in {"up", "reported"} /\ ReaderFree(b)
  /\ ack' = [ack EXCEPT ![b] = TRUE]
  /\ acked' = acked \cup {b}
  /\ UNCHANGED <<cmdVars, linkVars, queueVars, timerVars, estopActive,
                 estopSend, estopWait, estopSent, nextSeq, stale, phase>>

\* reset_estop once the condition has cleared; otherwise it only answers.
ResetEstop ==
  /\ estopActive
  /\ estopActive' = FALSE
  /\ UNCHANGED <<cmdVars, linkVars, queueVars, timerVars, ack, estopSend,
                 estopWait, estopSent, acked, nextSeq, stale, phase>>

-----------------------------------------------------------------------------
(* Shutdown *)

\* ControllerRuntime.shutdown stops the board connections first.
RequestStop ==
  /\ phase = "run"
  /\ phase' = "stop"
  /\ UNCHANGED <<cmdVars, linkVars, queueVars, timerVars, estopVars, nextSeq,
                 stale>>

\* BoardTCPConnection.stop: the run task ends and does not call board_down.
StopLink(b) ==
  /\ phase = "stop" /\ link[b] # "stopped" /\ ReaderFree(b)
  /\ link' = [link EXCEPT ![b] = "stopped"]
  /\ conn' \in {conn, [conn EXCEPT ![b] = "FAULTED"]}
  /\ UNCHANGED <<cmdVars, writer, schema, queueVars, timerVars, estopVars,
                 nextSeq, stale, phase>>

\* shutdown, from the runtime once every connection has stopped, or called
\* directly.
Shutdown ==
  /\ \/ phase = "run"
     \/ phase = "stop" /\ \A b \in Boards : link[b] = "stopped"
  /\ phase' = "drain"
  /\ UNCHANGED <<cmdVars, linkVars, queueVars, timerVars, estopVars, nextSeq,
                 stale>>

\* _fail_remaining_for_shutdown, at the end of the drain window.
FailRemaining ==
  LET S == {s \in Seqs : pending[s] # None}
  IN
  /\ phase = "drain"
  /\ phase' = "failed"
  /\ pending' = [s \in Seqs |-> None]
  /\ CancelTimeouts(S)
  /\ fut' = Resolve(fut, {pending[s] : s \in S} \cup AllQueued,
                    "controller_shutdown")
  /\ fifo' = [b \in Boards |-> <<>>]
  /\ inflight' = [b \in Boards |-> 0]
  /\ conn' = [b \in Boards |-> "DISCONNECTED"]
  /\ UNCHANGED <<task, board, seq, answer, link, writer, schema, writing, sent,
                 estopVars, nextSeq, stale>>

\* _close_board_writers.
CloseWriters ==
  /\ phase = "failed"
  /\ phase' = "closed"
  /\ writer' = [b \in Boards |-> FALSE]
  /\ UNCHANGED <<cmdVars, conn, link, schema, queueVars, timerVars, estopVars,
                 nextSeq, stale>>

-----------------------------------------------------------------------------
CommandStep(c) ==
  \/ RouteCommand(c) \/ Reply(c) \/ Expire(c)
  \/ WriteCompletes(c) \/ WriteFails(c) \/ ExecutionTimeout(c)

BoardStep(b) ==
  \/ \E d \in Commands : HandleBoardResponse(b, d)
  \/ Connect(b) \/ ConnectFails(b) \/ RegisterBoard(b)
  \/ LinkLost(b) \/ LinkDies(b) \/ BoardDown(b) \/ LivenessDown(b)
  \/ TriggerEstop(b) \/ SendEstop(b) \/ SendEstopFails(b) \/ EstopAck(b)
  \/ StopLink(b)

ControllerStep ==
  ResetEstop \/ RequestStop \/ Shutdown \/ FailRemaining \/ CloseWriters

Next ==
  \/ \E c \in Commands : CommandStep(c)
  \/ \E b \in Boards : BoardStep(b)
  \/ ControllerStep

Spec == Init /\ [][Next]_vars

\* Fairness of the loop: an answered request's task goes on, a sleeping timeout
\* wakes up, the runtime goes on when every connection has stopped and the drain
\* window ends.  Neither a write to a board (its drain has no timeout) nor the
\* end of a connection (wait_closed has none) is fair: both wait for the peer.
Fairness ==
  /\ \A c \in Commands : WF_vars(Reply(c)) /\ WF_vars(ExecutionTimeout(c))
  /\ WF_vars(phase = "stop" /\ Shutdown) /\ WF_vars(FailRemaining)

FairSpec == Spec /\ Fairness

-----------------------------------------------------------------------------
(* Properties that hold for any set of boards *)

\* A command in _pending is the one with that board_seq, its client is still
\* waiting, and it holds its board's slot: no path leaves an answered command
\* behind, or frees the slot under a command that is still in flight.
PendingSound ==
  \A s \in Seqs : pending[s] # None =>
    LET c == pending[s]
    IN  /\ seq[c] = s
        /\ fut[c] = "wait"
        /\ board[c] \in Boards /\ inflight[board[c]] = s

\* Commands reach a board in the order they were accepted: a queue is in
\* board_seq order and everything already sent to the board comes before it.
FifoOrder ==
  \A b \in Boards : \A i \in 1 .. Len(fifo[b]) :
    /\ \A j \in 1 .. (i - 1) : seq[fifo[b][j]] < seq[fifo[b][i]]
    /\ \A d \in sent : board[d] = b => seq[d] < seq[fifo[b][i]]

\* No task starts to write a blocked command to a board while the e-stop is
\* latched (route_command, handle_board_response, _execution_timeout).
EstopBlocksDispatch ==
  [][\A c \in Commands :
       (estopActive /\ c \in sent' \ sent) => c \notin schema[board'[c]].blocked]_vars

\* While the e-stop is latched every registered board has been sent it, or its
\* send task is about to run: boards that were down join it when they register.
EstopReachesAll ==
  estopActive => \A b \in Boards : Available(b) => b \in estopSend \cup estopSent

-----------------------------------------------------------------------------
(* Properties of a controller with one board *)

SingleBoard == \A a, b \in Boards : a = b

\* No command is lost: while a client waits, its command is queued or in
\* flight; and a slot that is taken belongs to a pending command.
Tracked ==
  /\ \A c \in Commands : fut[c] = "wait" =>
       \/ c \in Queued(fifo[board[c]])
       \/ pending[seq[c]] = c
  /\ \A b \in Boards : inflight[b] # 0 => pending[inflight[b]] # None

\* A command waits in the queue only behind one in flight: every path that
\* frees the slot dispatches the next command.
WorkConserving ==
  \A b \in Boards :
    (~ShuttingDown /\ link[b] = "up" /\ Available(b) /\ fifo[b] # <<>>) => inflight[b] # 0

\* The queue of a board never holds more than fifo_depth commands between two
\* steps, although route_command looks at the depth only while a command is in
\* flight, and appends before it dispatches.
FifoBound == \A b \in Boards : Len(fifo[b]) <= FifoDepth

\* Queue and slot of a board account for every command, failing writes or not:
\* none is lost and none waits in the queue behind a free slot.
QueueSound == Tracked /\ WorkConserving

\* After the drain window no client is left waiting.
ShutdownAnswersAll ==
  phase \in {"failed", "closed"} => \A c \in Commands : fut[c] # "wait"

\* A board's response resolves the command the board answered, however late
\* or often it answers and whatever timed out or reconnected before.
RightAnswer == \A c \in Commands : answer[c] \in {None, c}

\* Without failing writes, a command in flight has its execution timeout
\* running once its write is over, and no other timeout is running.
TimeoutArmed ==
  /\ \A s \in Seqs : (pending[s] # None /\ writing[pending[s]] = NoTask /\ ~ShuttingDown)
                        => pending[s] \in timers
  /\ \A c \in timers : pending[seq[c]] = c /\ handle[seq[c]] = c

\* A task that has no timeout is held up for good: the peer never lets a write
\* to a board return or its connection come to board_down, or there is no
\* board_down because the run task died (LinkDies).
HeldUp ==
  \/ \E c \in Commands : <>[](writing[c] # NoTask)
  \/ \E b \in Boards : \/ <>[](link[b] = "closing")
                      \/ <>[](link[b] = "stopped" /\ phase = "run")

\* Every request is answered unless a task is held up for good: by the board, by
\* its execution timeout, after those of the commands before it in the queue, by
\* board_down or at the end of the drain window.
EveryRequestAnswered ==
  HeldUp \/ \A c \in Commands : task[c] = "active" ~> task[c] = "replied"

=============================================================================
