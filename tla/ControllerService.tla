------------------------- MODULE ControllerService -------------------------
(***************************************************************************)
(* ControllerCore implements CommandService: how far a request has come is *)
(* read off its task, its future and the queue of its board.               *)
(***************************************************************************)
EXTENDS ControllerCore

Progress(c) ==
  IF task[c] = "replied" THEN "replied"
  ELSE IF fut[c] = "none" THEN "new"
  ELSE IF fut[c] # "wait" THEN "answered"
  ELSE IF c \in AllQueued THEN "queued"
  ELSE "flight"

Service == INSTANCE CommandService
             WITH status <- [c \in Commands |-> Progress(c)], queue <- fifo

\* With one board, ControllerCore is a queue with one server: every step of
\* route_command, _dispatch_next, handle_board_response, _execution_timeout,
\* board_down, trigger_estop and shutdown is one of CommandService, or none.
ImplementsService == Service!ServiceSpec
=============================================================================
