-------------------------- MODULE BoardConnection --------------------------
(***************************************************************************)
(* The connection manager of one board: the class BoardTCPConnection of    *)
(* board_connection.py.  Three tasks and a caller share its fields: run,   *)
(* which connects, registers, reads and cleans up in a loop; the liveness  *)
(* task; the heartbeat task, whose steps are in module Heartbeat; and      *)
(* stop.  What the controller does with board_down and with the messages   *)
(* is in module ControllerCore.                                            *)
(*                                                                         *)
(* A step is what a task does between two awaits.  Where the code awaits   *)
(* something that may be ready already, the model lets other tasks run.    *)
(***************************************************************************)
EXTENDS Heartbeat

CONSTANTS
  HeartbeatOn,  \* heartbeat.enabled
  LivenessOn,   \* liveness.enabled
  Base,         \* base_delay_s
  Factor,       \* factor
  Cap,          \* cap_delay_s
  OSErrors,     \* may a connection be lost with an OSError that is not a
                \* ConnectionError (ETIMEDOUT, EHOSTUNREACH)?
  HandlerErrors, \* may a message handler raise what run does not catch (the
                \* ProtocolValidationError of a command that is too long)?
  MaxWaits      \* bound of the history variable waits

ASSUME SwitchAssumption ==
  {HeartbeatOn, LivenessOn, OSErrors, HandlerErrors} \subseteq BOOLEAN

\* ReconnectBackoff.__post_init__, in units in which the delays are integers.
ASSUME BackoffAssumption ==
  /\ Base \in Nat \ {0} /\ Factor \in Nat \ {0, 1} /\ Cap \in Nat /\ Cap >= Base
  /\ MaxWaits \in Nat /\ Base * Factor ^ MaxWaits >= Cap

VARIABLES
  pc,         \* where run is
  stopping,   \* _stop.is_set()
  stopper,    \* where stop is
  conn,       \* BoardState.conn_state
  tcp,        \* the transport of the current attempt
  waiter,     \* the future that wait_closed awaits has been cancelled
  stream,     \* _stream_writer is not None
  registered, \* _registered.is_set()
  lvTask,     \* the task in _liveness_task
  quiet,      \* the last valid message is older than liveness.timeout_s
  reported,   \* _liveness_fault_reported
  escaping,   \* an exception leaves the try statement
  ceiling,    \* ReconnectBackoff._current_ceiling_s
  downs,      \* history: calls of board_down for the current attempt
  waits       \* history: waits since the last registration, up to MaxWaits

connVars == <<tcp, waiter, stream, registered>>
taskVars == <<hbVars, lvTask>>
histVars == <<downs, waits>>

vars == <<pc, stopping, stopper, conn, connVars, taskVars, quiet, reported,
          escaping, ceiling, histVars>>

\* stopHeartbeat, stopLiveness and closing are the awaits of the finally block;
\* "handling" is a reader suspended in _handle_message; "dead" is a run that
\* ended with an exception.
RunStates == {"start", "connecting", "schema", "estop", "reading", "handling",
              "stopHeartbeat", "stopLiveness", "closing", "backoff", "ended", "dead"}

StopStates == {"idle", "heartbeat", "liveness", "writer", "closing", "join",
               "done", "raised"}

\* "closing" is a transport whose close was called; the last three are lost
\* connections: without an error, with a ConnectionError, with another OSError.
TcpStates == {"none", "open", "closing", "closed", "reset", "failed"}

TypeOK ==
  /\ pc \in RunStates
  /\ stopping \in BOOLEAN
  /\ stopper \in StopStates
  /\ conn \in {"DISCONNECTED", "CONNECTING", "CONNECTED", "REGISTERED", "FAULTED"}
  /\ tcp \in TcpStates
  /\ waiter \in BOOLEAN
  /\ stream \in BOOLEAN
  /\ registered \in BOOLEAN
  /\ HeartbeatTypeOK
  /\ lvTask \in {"none", "watch", "closing", "ended", "raised"}
  /\ quiet \in BOOLEAN
  /\ reported \in BOOLEAN
  /\ escaping \in BOOLEAN
  /\ ceiling \in Base .. Cap
  /\ downs \in 0 .. 2
  /\ waits \in 0 .. MaxWaits

Init ==
  /\ pc = "start" /\ stopping = FALSE /\ stopper = "idle"
  /\ conn = "DISCONNECTED"
  /\ tcp = "none" /\ waiter = FALSE /\ stream = FALSE /\ registered = FALSE
  /\ HeartbeatInit /\ lvTask = "none"
  /\ quiet = FALSE /\ reported = FALSE /\ escaping = FALSE
  /\ ceiling = Base
  /\ downs = 0 /\ waits = 0

-----------------------------------------------------------------------------
(* Helpers.  A definition whose name begins with Bug is a broken variant of *)
(* the one that follows it, used to show that the properties notice.        *)

Lost == tcp \in {"closed", "reset", "failed"}

BugCloseTcp == tcp

\* writer.close().
CloseTcp == IF tcp = "open" THEN "closing" ELSE tcp

BugGrow(c) == c * Factor

\* The next ceiling of ReconnectBackoff.next_delay_s.
Grow(c) == IF c * Factor < Cap THEN c * Factor ELSE Cap

BugBoardDownDue == ~stopping

\* The finally block calls board_down.
BoardDownDue == ~stopping /\ ~reported

BugAfterAttempt ==
  IF escaping THEN "dead" ELSE IF stopping \/ reported THEN "ended" ELSE "backoff"

\* Where run goes when _connect_and_read_once is over.
AfterAttempt ==
  IF escaping THEN "dead" ELSE IF stopping THEN "ended" ELSE "backoff"

\* Where the finally block begins.
FinallyFrom == "stopHeartbeat"

BugTakeLiveness == UNCHANGED <<lvTask, waiter>>

\* _stop_liveness takes the task out of its field and cancels it.  Cancelling
\* a task that awaits wait_closed cancels the future that every later
\* wait_closed on this stream awaits.
TakeLiveness ==
  /\ lvTask' = "none"
  /\ waiter' = (waiter \/ (lvTask = "closing" /\ ~Lost))

-----------------------------------------------------------------------------
(* run *)

BeginAttempt ==
  /\ pc \in {"start", "backoff"} /\ ~stopping
  /\ pc' = "connecting"
  /\ conn' = "CONNECTING"
  /\ tcp' = "none" /\ waiter' = FALSE /\ stream' = FALSE /\ registered' = FALSE
  /\ quiet' = FALSE /\ reported' = FALSE
  /\ downs' = 0
  /\ UNCHANGED <<stopping, stopper, taskVars, escaping, ceiling, waits>>

\* The loop condition of run, at first and after the wait that stop ends.
EndRun ==
  /\ pc \in {"start", "backoff"} /\ stopping
  /\ pc' = "ended"
  /\ UNCHANGED <<stopping, stopper, conn, connVars, taskVars, quiet, reported,
                 escaping, ceiling, histVars>>

\* Connected.  _read_valid_message returns at once when stop is set.
Connects ==
  /\ pc = "connecting"
  /\ tcp' = "open" /\ stream' = TRUE
  /\ \/ /\ ~stopping
        /\ pc' = "schema" /\ conn' = "CONNECTED"
     \/ /\ stopping
        /\ pc' = FinallyFrom /\ conn' = "FAULTED"
  /\ UNCHANGED <<stopping, stopper, waiter, registered, taskVars, quiet,
                 reported, escaping, ceiling, histVars>>

\* No connection within connect_timeout_s; no schema, a wrong one or one that
\* register_board refuses within registration_timeout_s.
ConnectFails ==
  /\ pc \in {"connecting", "schema"}
  /\ pc' = FinallyFrom
  /\ conn' = "FAULTED"
  /\ UNCHANGED <<stopping, stopper, connVars, taskVars, quiet, reported,
                 escaping, ceiling, histVars>>

\* Start the heartbeat and liveness tasks and enter the read loop.
StartTasks ==
  /\ IF HeartbeatOn /\ loop = "none" THEN StartHeartbeat ELSE UNCHANGED hbVars
  /\ lvTask' = IF LivenessOn /\ lvTask = "none" THEN "watch" ELSE lvTask
  /\ pc' = IF stopping THEN FinallyFrom ELSE "reading"

\* register_board; then the e-stop, if it is latched.
Register ==
  /\ pc = "schema"
  /\ conn' = "REGISTERED"
  /\ quiet' = FALSE
  /\ ceiling' = Base /\ waits' = 0
  /\ registered' = TRUE
  /\ \/ pc' = "estop" /\ UNCHANGED taskVars
     \/ StartTasks
  /\ UNCHANGED <<stopping, stopper, tcp, waiter, stream, reported, downs,
                 escaping>>

EstopSent ==
  /\ pc = "estop"
  /\ StartTasks
  /\ UNCHANGED <<stopping, stopper, conn, connVars, quiet, reported, escaping,
                 ceiling, histVars>>

\* A valid message in the read loop.  Its handler may suspend: in the write of
\* the next command, the broadcast of an estop_ack, the gather of an e-stop.
Inbound ==
  /\ pc = "reading"
  /\ tcp = "open" /\ ~stopping
  /\ quiet' = FALSE
  /\ \/ pc' = "handling"
     \/ quiet /\ UNCHANGED pc
  /\ UNCHANGED <<stopping, stopper, conn, connVars, taskVars, reported,
                 escaping, ceiling, histVars>>

\* The acknowledgement of the heartbeat that the loop waits for.
InboundAck ==
  /\ pc = "reading"
  /\ tcp = "open" /\ ~stopping
  /\ \E s \in Beats : HeartbeatAck(s)
  /\ quiet' = FALSE
  /\ UNCHANGED <<pc, stopping, stopper, conn, connVars, lvTask, reported,
                 escaping, ceiling, histVars>>

\* The read loop returns: end of file, a line over the limit, stop.
ReadEnds ==
  /\ pc = "reading"
  /\ pc' = FinallyFrom
  /\ UNCHANGED <<stopping, stopper, conn, connVars, taskVars, quiet, reported,
                 escaping, ceiling, histVars>>

\* A read, or the write of the e-stop, raises.
ReadRaises ==
  /\ pc \in {"schema", "estop", "reading"} /\ Lost
  /\ pc' = FinallyFrom
  /\ conn' = "FAULTED"
  /\ UNCHANGED <<stopping, stopper, connVars, taskVars, quiet, reported,
                 escaping, ceiling, histVars>>

\* A suspended handler returns, or a write to a board, this or another, raises
\* a ConnectionError, which run catches.
HandlerEnds ==
  /\ pc = "handling"
  /\ \/ /\ pc' = IF stopping THEN FinallyFrom ELSE "reading"
        /\ UNCHANGED conn
     \/ pc' = FinallyFrom /\ conn' = "FAULTED"
  /\ UNCHANGED <<stopping, stopper, connVars, taskVars, quiet, reported,
                 escaping, ceiling, histVars>>

\* A handler, or json.loads at the schema or a later line, raises an exception
\* that only the finally block sees.
HandlerRaises ==
  /\ HandlerErrors /\ pc \in {"schema", "reading", "handling"}
  /\ pc' = FinallyFrom
  /\ escaping' = TRUE
  /\ UNCHANGED <<stopping, stopper, conn, connVars, taskVars, quiet, reported,
                 ceiling, histVars>>

-----------------------------------------------------------------------------
(* The finally block of _connect_and_read_once *)

RunStopsHeartbeat ==
  /\ pc = "stopHeartbeat"
  /\ StopHeartbeat
  /\ pc' = "stopLiveness"
  /\ UNCHANGED <<stopping, stopper, conn, connVars, lvTask, quiet, reported,
                 escaping, ceiling, histVars>>

\* _stop_liveness, and on to raw_writer.wait_closed().  A liveness task that
\* ended with an exception passes it on.
RunStopsLiveness ==
  /\ pc = "stopLiveness"
  /\ TakeLiveness
  /\ \/ /\ lvTask = "raised"
        /\ pc' = "dead"
        /\ UNCHANGED <<tcp, stream, registered>>
     \/ /\ lvTask # "raised"
        /\ pc' = "closing"
        /\ registered' = FALSE /\ stream' = FALSE
        /\ tcp' = CloseTcp
  /\ UNCHANGED <<stopping, stopper, conn, hbVars, quiet, reported, escaping,
                 ceiling, histVars>>

\* wait_closed returns or raises a ConnectionError, which is caught.  Then
\* board_down, and _wait_before_reconnect as far as its wait, or the end of run.
RunClosed ==
  /\ pc = "closing"
  /\ tcp \in {"none", "closed", "reset"} /\ ~waiter
  /\ \/ /\ BoardDownDue
        /\ conn' = "FAULTED" /\ downs' = downs + 1
     \/ /\ ~BoardDownDue
        /\ UNCHANGED <<conn, downs>>
  /\ pc' = AfterAttempt
  /\ \/ /\ AfterAttempt # "backoff"
        /\ UNCHANGED <<ceiling, waits>>
     \/ /\ AfterAttempt = "backoff"
        /\ ceiling' = Grow(ceiling)
        /\ waits' = IF waits < MaxWaits THEN waits + 1 ELSE waits
  /\ UNCHANGED <<stopping, stopper, connVars, taskVars, quiet, reported,
                 escaping>>

\* wait_closed raises what is not caught: another OSError, or CancelledError.
RunDies ==
  /\ pc = "closing"
  /\ tcp = "failed" \/ waiter
  /\ pc' = "dead"
  /\ UNCHANGED <<stopping, stopper, conn, connVars, taskVars, quiet, reported,
                 escaping, ceiling, histVars>>

-----------------------------------------------------------------------------
(* The liveness task *)

\* _fault_if_liveness_expired, as far as the wait_closed of its close.
LivenessFaults ==
  /\ lvTask = "watch" /\ ~stopping
  /\ quiet /\ conn = "REGISTERED"
  /\ reported' = TRUE
  /\ conn' = "FAULTED" /\ downs' = downs + 1
  /\ lvTask' = IF stream THEN "closing" ELSE "ended"
  /\ tcp' = CloseTcp
  /\ UNCHANGED <<pc, stopping, stopper, waiter, stream, registered, hbVars,
                 quiet, escaping, ceiling, waits>>

LivenessEnds ==
  /\ \/ /\ lvTask = "watch" /\ stopping
        /\ lvTask' = "ended"
     \/ /\ lvTask = "closing" /\ Lost
        /\ lvTask' = IF tcp = "closed" THEN "ended" ELSE "raised"
  /\ UNCHANGED <<pc, stopping, stopper, conn, connVars, hbVars, quiet,
                 reported, escaping, ceiling, histVars>>

-----------------------------------------------------------------------------
(* The heartbeat task: after its sleep it looks at _stop, and a write raises  *)
(* only when the connection is not open.                                      *)

HeartbeatStep ==
  /\ \/ Beat /\ ~stopping
     \/ LoopEnds /\ IF loop = "sleep" THEN stopping ELSE tcp # "open"
     \/ BeatWritten \/ AckSeen \/ AckTimeout
  /\ UNCHANGED <<pc, stopping, stopper, conn, connVars, lvTask, quiet, reported,
                 escaping, ceiling, histVars>>

-----------------------------------------------------------------------------
(* stop *)

StopRequested ==
  /\ stopper = "idle"
  /\ stopping' = TRUE
  /\ stopper' = "heartbeat"
  /\ UNCHANGED <<pc, conn, connVars, taskVars, quiet, reported, escaping,
                 ceiling, histVars>>

StopsHeartbeat ==
  /\ stopper = "heartbeat"
  /\ StopHeartbeat
  /\ stopper' = "liveness"
  /\ UNCHANGED <<pc, stopping, conn, connVars, lvTask, quiet, reported,
                 escaping, ceiling, histVars>>

StopsLiveness ==
  /\ stopper = "liveness"
  /\ TakeLiveness
  /\ stopper' = IF lvTask = "raised" THEN "raised" ELSE "writer"
  /\ UNCHANGED <<pc, stopping, conn, tcp, stream, registered, hbVars, quiet,
                 reported, escaping, ceiling, histVars>>

StopsWriter ==
  /\ \/ /\ stopper = "writer" /\ stream
        /\ stopper' = "closing" /\ tcp' = CloseTcp
     \/ /\ stopper = "writer" /\ ~stream
        /\ stopper' = "join" /\ UNCHANGED tcp
     \/ /\ stopper = "closing" /\ (Lost \/ waiter)
        /\ stopper' = IF tcp = "closed" /\ ~waiter THEN "join" ELSE "raised"
        /\ UNCHANGED tcp
  /\ UNCHANGED <<pc, stopping, conn, waiter, stream, registered, taskVars,
                 quiet, reported, escaping, ceiling, histVars>>

StopJoins ==
  /\ stopper = "join"
  /\ pc \in {"ended", "dead"}
  /\ stopper' = IF pc = "ended" THEN "done" ELSE "raised"
  /\ UNCHANGED <<pc, stopping, conn, connVars, taskVars, quiet, reported,
                 escaping, ceiling, histVars>>

-----------------------------------------------------------------------------
(* The network and the clock *)

ConnectionLost ==
  /\ tcp \in {"open", "closing"}
  /\ \/ tcp' \in {"closed", "reset"}
     \/ OSErrors /\ tcp' = "failed"
  /\ UNCHANGED <<pc, stopping, stopper, conn, waiter, stream, registered,
                 taskVars, quiet, reported, escaping, ceiling, histVars>>

Silence ==
  /\ lvTask = "watch" /\ ~quiet
  /\ quiet' = TRUE
  /\ UNCHANGED <<pc, stopping, stopper, conn, connVars, taskVars, reported,
                 escaping, ceiling, histVars>>

-----------------------------------------------------------------------------
RunStep ==
  \/ BeginAttempt \/ EndRun \/ Connects \/ ConnectFails \/ Register
  \/ ReadRaises \/ RunStopsHeartbeat \/ RunStopsLiveness \/ RunClosed \/ RunDies

StopStep == StopsHeartbeat \/ StopsLiveness \/ StopsWriter \/ StopJoins

Next ==
  \/ RunStep \/ EstopSent \/ Inbound \/ InboundAck \/ ReadEnds
  \/ HandlerEnds \/ HandlerRaises
  \/ LivenessFaults \/ LivenessEnds \/ HeartbeatStep
  \/ StopRequested \/ StopStep
  \/ ConnectionLost \/ Silence

Spec == Init /\ [][Next]_vars

\* Fairness of the loop: connecting and the wait for a schema have timeouts,
\* the other steps of run and stop follow from what they wait for, and a read
\* ends when its connection is lost.  When a connection is lost, when a board
\* falls silent and when stop is called is not fair, and neither is what waits
\* for a peer without a timeout: the write of the e-stop and the handlers, which
\* wait for writes to boards and for the clients of a broadcast.
Fairness ==
  /\ WF_vars(RunStep) /\ WF_vars(StopStep)
  /\ WF_vars(Lost /\ ReadEnds)
  /\ WF_vars(LivenessFaults) /\ WF_vars(LivenessEnds)

FairSpec == Spec /\ Fairness

-----------------------------------------------------------------------------
(* Properties *)

\* board_down is called exactly once for every attempt that is followed by
\* another, by the finally block or by the liveness task, whichever is first.
BoardDownOnce ==
  /\ downs <= 1
  /\ pc = "backoff" => downs = 1

\* Nothing of one attempt lives on into the next: no heartbeat or liveness
\* task that could fault a connection it does not belong to.
NoLeftovers ==
  pc \in {"backoff", "connecting", "schema", "estop", "ended"} =>
    /\ loop = "none" /\ lvTask = "none"
    /\ pc \in {"backoff", "ended"} => ~stream /\ ~registered

\* Types hold, and the ceiling of the backoff grows with every wait since the
\* last registration, starts again after one, and never exceeds the cap.
BackoffExact ==
  /\ TypeOK
  /\ LET full == Base * Factor ^ waits
     IN  ceiling = IF full < Cap THEN full ELSE Cap

\* A connection that was told to close never does, or a handler never returns.
HeldUp == <>[](tcp = "closing") \/ <>[](pc = "handling")

\* After stop, run and stop both end, unless a peer holds one of them up.
StopEnds ==
  \/ HeldUp
  \/ stopping ~> (pc \in {"ended", "dead"} /\ stopper \in {"done", "raised"})

\* A board whose connection is lost is connected to again, unless stop is
\* called, a peer holds run up, or run has ended with an exception.
Reconnects ==
  \/ HeldUp
  \/ Lost ~> (pc \in {"connecting", "dead"} \/ stopping)

-----------------------------------------------------------------------------
(* A claim of the documentation that the code does not keep *)

\* Retries are infinite: run does not end before stop is called.
NoGiveUp == ~stopping => pc \notin {"ended", "dead"}
=============================================================================
