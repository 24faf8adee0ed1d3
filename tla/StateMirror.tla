---------------------------- MODULE StateMirror ----------------------------
(***************************************************************************)
(* The snapshots ControllerCore hands to observability: every handler that *)
(* changes the state of a board or of the system calls                     *)
(* _observe_board_state or _observe_system_state afterwards.  The mirror   *)
(* is the snapshot last handed over; how it gets to Redis is the subject   *)
(* of module Observability.                                                *)
(***************************************************************************)
EXTENDS ControllerCore

VARIABLES
  mirror,     \* per board, the last BoardStateRecord
  sysMirror   \* the last SystemStateRecord

mirrorVars == <<vars, mirror, sysMirror>>

\* BoardStateRecord.from_board_state, as far as ControllerCore writes it.
BoardRecord(b) ==
  [conn |-> conn[b], depth |-> Len(fifo[b]), inflight |-> inflight[b], ack |-> ack[b]]

\* SystemStateRecord.from_system_state.
SystemRecord ==
  [estop |-> estopActive, connected |-> Cardinality({b \in Boards : conn[b] = "REGISTERED"})]

MirrorInit ==
  /\ Init
  /\ mirror = [b \in Boards |-> BoardRecord(b)]
  /\ sysMirror = SystemRecord

-----------------------------------------------------------------------------
(* Helpers.  A definition whose name begins with Bug is a broken variant of *)
(* the one that follows it, used to show that the properties notice.        *)

\* _observe_board_state for the boards of S.
ObserveBoards(S) ==
  mirror' = [b \in Boards |-> IF b \in S THEN BoardRecord(b)' ELSE mirror[b]]

\* _observe_system_state.
ObserveSystem == sysMirror' = SystemRecord'

\* set_board_state: both.
ObserveBoth(S) == ObserveBoards(S) /\ ObserveSystem

OnlyBoards(S) == ObserveBoards(S) /\ UNCHANGED sysMirror

Unobserved == UNCHANGED <<mirror, sysMirror>>

-----------------------------------------------------------------------------
(* What each handler hands over *)

\* route_command, when the command is queued, and _dispatch_next after it.
RouteObserved(c) == RouteCommand(c) /\ OnlyBoards({board'[c]})

BugTimeoutObserved(d) ==
  /\ ExecutionTimeout(d)
  /\ OnlyBoards({b \in Boards : fifo'[b] # fifo[b]})

\* _execution_timeout: the slot is free, then the next command takes it.
TimeoutObserved(d) ==
  /\ ExecutionTimeout(d)
  /\ OnlyBoards({b \in Boards : pending[seq[d]] # None /\ b = board[pending[seq[d]]]})

\* The same in handle_board_response, for the board of the entry.
ResponseObserved(b, d) ==
  HandleBoardResponse(b, d) /\ OnlyBoards({board[pending[seq[d]]]})

\* _dispatch_next, when it finds the command resolved after the write.
WriteObserved(d) ==
  WriteCompletes(d) /\ OnlyBoards({b \in Boards : inflight'[b] # inflight[b]})

\* set_board_state in the handler of the connection's error: an error of the
\* read loop is always followed by it, the end of the stream is not.
FaultObserved(b) ==
  /\ \/ LinkLost(b) \/ LinkDies(b) \/ StopLink(b)
     \/ \E d \in Commands : writing[d] = Reader(b) /\ WriteFails(d)
  /\ IF conn'[b] = "FAULTED" THEN ObserveBoth({b}) ELSE Unobserved

\* register_board does not hand over that a wrong protocol version faults it.
ConnectFailsObserved(b) ==
  /\ ConnectFails(b)
  /\ ObserveBoth({b}) \/ (link[b] = "connected" /\ Unobserved)

\* board_down hands over twice, before and after it answers the commands.
DownObserved(b) == (BoardDown(b) \/ LivenessDown(b)) /\ ObserveBoth({b})

\* trigger_estop: the latch, then every board's empty queue.
TriggerObserved(b) == TriggerEstop(b) /\ ObserveBoth(Boards)

\* mark_estop_sent; a failing send faults the board whose reader waits for it.
SendObserved(b) ==
  \/ SendEstop(b) /\ OnlyBoards({b})
  \/ /\ SendEstopFails(b)
     /\ ObserveBoth({b} \cup {o \in Boards : link'[o] # link[o]})

FailObserved == FailRemaining /\ ObserveBoth(Boards)

MirrorNext ==
  \/ \E c \in Commands :
       \/ RouteObserved(c) \/ TimeoutObserved(c) \/ WriteObserved(c)
       \/ (Reply(c) \/ Expire(c)) /\ Unobserved
       \/ writing[c] \notin {Reader(b) : b \in Boards} /\ WriteFails(c) /\ Unobserved
  \/ \E b \in Boards :
       \/ \E d \in Commands : ResponseObserved(b, d)
       \/ FaultObserved(b) \/ ConnectFailsObserved(b) \/ DownObserved(b)
       \/ TriggerObserved(b) \/ SendObserved(b)
       \/ (Connect(b) \/ RegisterBoard(b)) /\ ObserveBoth({b})
       \/ EstopAck(b) /\ OnlyBoards({b})
  \/ FailObserved
  \/ ResetEstop /\ ObserveBoth({})
  \/ (RequestStop \/ Shutdown \/ CloseWriters) /\ Unobserved

MirrorSpec == MirrorInit /\ [][MirrorNext]_mirrorVars

\* Handing a snapshot over never waits, so the loop is as fair as without it.
FairMirrorSpec == MirrorSpec /\ Fairness

-----------------------------------------------------------------------------
(* Properties *)

\* Between two steps the last snapshots handed over are the state: no handler
\* changes queue depth, slot, connection or acknowledgement and leaves the
\* mirror behind.  Only a board refused for its protocol version is shown as it
\* was before until board_down.  And the mirror never shows a reachable board
\* as safe in an e-stop it has not acknowledged.
MirrorFresh ==
  /\ sysMirror = SystemRecord
  /\ \A b \in Boards :
       \/ mirror[b] = BoardRecord(b)
       \/ /\ link[b] \in {"closing", "stopped"} /\ mirror[b].conn \in {"CONNECTED", "DISCONNECTED"}
          /\ BoardRecord(b) = [mirror[b] EXCEPT !.conn = "FAULTED"]
  /\ (estopActive /\ estopSend = {}) =>
       \A b \in Boards : mirror[b].conn = "REGISTERED" /\ writer[b] /\ mirror[b].ack => b \in acked
=============================================================================
