------------------------------ MODULE Exchange ------------------------------
(***************************************************************************)
(* One request on its way through the controller: the line a client sends  *)
(* (_handle_client of local_socket.py), the command a board receives, the  *)
(* lines the board sends (_read_valid_message and _handle_message of       *)
(* board_connection.py) and the answer the client's writer_loop            *)
(* serializes.  What peers send is a message with up to two fields wrong,  *)
(* or no message at all.  When commands are queued, written and timed out  *)
(* is module ControllerCore's subject.                                     *)
(***************************************************************************)
EXTENDS Protocol, FiniteSetsExt

CONSTANT MaxRegistrations  \* bound: how often the board registers
ASSUME RegistrationsAssumption == MaxRegistrations \in Nat

VARIABLES
  conn,     \* BoardState.conn_state: "down", "registered", "faulted", or "dead" if
            \* the connection's task has ended
  gate,     \* blocked_by_estop of the board's command, "none" if it has none
  shown,    \* effective_schema, in the same terms, "unknown" if there is none
  said,     \* history: blocked_by_estop in the schema last accepted
  regs,     \* bound: registrations so far
  estop,    \* SystemState.estop_active
  ack,      \* BoardState.estop_ack
  stage,    \* where the request is
  line,     \* the client's line
  toBoard,  \* the command line written to the board
  answer,   \* the response handed to the client's queue
  long      \* whether that is longer than response_max_line_bytes

vars == <<conn, gate, shown, said, regs, estop, ack, stage, line, toBoard, answer,
          long>>
boardVars == <<conn, gate, shown, said, regs, ack>>

Gates == {"blocked", "open", "none"}

TypeOK ==
  /\ conn \in {"down", "registered", "faulted", "dead"}
  /\ gate \in Gates /\ shown \in Gates \cup {"unknown"}
  /\ said \in Bool \cup {Absent}
  /\ regs \in 0 .. MaxRegistrations
  /\ estop \in BOOLEAN /\ ack \in BOOLEAN /\ long \in BOOLEAN
  /\ stage \in {"idle", "routed", "answered", "read", "unread"}
  /\ \A m \in {line, toBoard, answer} : DOMAIN m = Fields

Init ==
  /\ conn = "down" /\ gate = "none" /\ shown = "unknown" /\ said = Absent
  /\ regs = 0
  /\ estop \in BOOLEAN /\ ack = FALSE
  /\ stage = "idle" /\ line = NoMessage /\ toBoard = NoMessage /\ answer = NoMessage
  /\ long = FALSE

-----------------------------------------------------------------------------
(* What peers may send *)

Good == [
  command |-> [type |-> "command", seq |-> "client_seq", source |-> "client", target |-> "board",
               command |-> "move", args |-> "obj"],
  estop_reset |-> [type |-> "estop_reset", seq |-> "client_seq", source |-> "client",
                   target |-> "controller"],
  heartbeat |-> [type |-> "heartbeat", seq |-> "client_seq", source |-> "board",
                 target |-> "controller"],
  event |-> [type |-> "event", source |-> "board", event |-> "estop_ack", details |-> "obj",
             state |-> "safe"],
  telemetry |-> [type |-> "telemetry", seq |-> "client_seq", source |-> "board",
                 target |-> "controller", telemetry |-> "obj"],
  response |-> [type |-> "response", seq |-> "board_seq", source |-> "board",
                target |-> "controller", status |-> "ok", result |-> "obj", error |-> "null"],
  schema |-> [type |-> "schema", seq |-> "client_seq", source |-> "board",
              target |-> "controller", protocol_version |-> "1", schema |-> "obj",
              commands |-> "obj", meta |-> "obj", blocked |-> "true"]]

Failure == [seq |-> "board_seq", type |-> "response", source |-> "board",
            target |-> "controller", status |-> "error", error |-> "obj"]

\* The shapes a peer may put into a field.
Shapes(f) ==
  {Absent, "null", "str"} \cup
  CASE f = "type" -> {"estop", "event", "true"}
    [] f \in {"seq", "event_id"} -> AnyInt \cup Bool
    [] f = "target" -> {"board", "controller"}
    [] f = "source" -> {"board", "true"}
    [] f = "command" -> {"move", "get_schemas"}
    [] f = "args" -> ArgsObj
    [] f = "status" -> TerminalStatuses
    [] f = "error.code" -> {"COMMAND_TIMEOUT", "INTERNAL_ERROR", "huge"}
    [] f = "event" -> {"estop_ack", "estop_triggered"}
    [] f = "state" -> {"safe"}
    [] f = "blocked" -> Bool
    [] f = "controller_ts" -> {"true", "float", "negative"}
    [] OTHER -> {"obj", "1"}

\* A good message with the fields F changed.
Variants(m, F) ==
  LET changes(f, g) == {[x \in Fields |-> CASE x = f -> v [] x = g -> w [] OTHER -> m[x]] :
                          v \in Shapes(f), w \in Shapes(g)}
  IN UNION {changes(f, g) : f \in F, g \in F}

Common == {"type", "seq", "source", "target"}
ClientLines ==
  BadLines \cup
  Variants(Message(Good.command), Common \cup {"command", "args", "controller_ts"}) \cup
  Variants(Message([Good.command EXCEPT !.target = "controller", !.command = "get_schemas"]),
           {"seq", "args"}) \cup
  Variants(Message(Good.estop_reset), Common) \cup
  UNION {Variants(Message(Good[t]), {"seq", "source"}) : t \in {"heartbeat", "event", "telemetry"}}
BoardLines ==
  BadLines \cup
  Variants(Message(Good.response), Common \cup {"status", "result", "error", "controller_ts"}) \cup
  Variants([Message(Failure) EXCEPT !["error.code"] = "INTERNAL_ERROR", !["error.message"] = "str"],
           {"status", "error", "error.code", "error.message", "result"}) \cup
  Variants(Message(Good.event), {"type", "source", "event", "event_id", "details", "state"})
SchemaLines ==
  BadLines \cup
  Variants([Message(Good.schema) EXCEPT !["meta.args"] = "obj"],
           Common \cup {"protocol_version", "schema", "commands", "meta", "meta.args", "blocked"})

-----------------------------------------------------------------------------
(* Registration *)

\* The first valid line of a connection must be the schema of this board.
\* _read_valid_message skips a malformed line, but not one that is too long or
\* that json.loads gives up on.
EndsReading(l) == l["raw"] = "toolong" \/ ParseError(l) = Uncaught

Refused(l) ==
  \/ EndsReading(l)
  \/ /\ ParseError(l) = OK
     /\ l["type"] # "schema" \/ l["source"] # "board" \/ l["protocol_version"] # "1"

\* What is not caught ends run, after the finally block.
AfterLine(l) == IF ParseError(l) = Uncaught THEN "dead" ELSE "faulted"

Connecting == stage = "idle" /\ conn \in {"down", "faulted"} /\ regs < MaxRegistrations

RegistrationFails(l) ==
  /\ Connecting
  /\ Refused(l)
  /\ conn' = AfterLine(l) /\ regs' = regs + 1
  /\ UNCHANGED <<gate, shown, said, estop, ack, stage, line, toBoard, answer, long>>

\* register_board, and the e-stop that is sent to a board that registers while
\* one is latched.
RegisterBoard(l) ==
  /\ Connecting
  /\ ParseError(l) = OK /\ ~Refused(l)
  /\ conn' = "registered" /\ regs' = regs + 1
  /\ gate' = GateOf(l) /\ shown' = Effective(l)
  /\ said' = IF Effective(l) # "none" THEN l["blocked"] ELSE Absent
  /\ ack' = (ack /\ ~estop)
  /\ UNCHANGED <<estop, stage, line, toBoard, answer, long>>

BoardDown ==
  /\ stage = "idle" /\ conn = "registered" /\ regs < MaxRegistrations
  /\ conn' = "faulted"
  /\ UNCHANGED <<gate, shown, said, regs, estop, ack, stage, line, toBoard, answer, long>>

-----------------------------------------------------------------------------
(* The client's line *)

\* _response_seq and _response_target: no bound is put on the number.
ResponseSeq(l) == IF IsMessage(l) /\ l["seq"] \in AnyInt \ {"negative"} THEN l["seq"] ELSE "0"
ResponseTarget(l) == IF IsMessage(l) /\ l["source"] \in Str THEN l["source"] ELSE "client"

\* An error response, which may quote what the client sent at some length.
Answer(l, code) ==
  /\ stage' = "answered" /\ long' \in BOOLEAN
  /\ answer' = BuildErrorResponse(ResponseSeq(l), ResponseTarget(l), code)
  /\ UNCHANGED <<estop, toBoard>>

BugRejectCode(m) ==
  CASE m["target"] # "board" -> "UNKNOWN_TARGET"
    [] gate = "none" \/ m["command"] # "move" -> "UNKNOWN_COMMAND"
    [] conn # "registered" -> "BOARD_UNAVAILABLE"
    [] OTHER -> OK

\* route_command's refusals in their order, OK if the board gets the command.
RejectCode(m) ==
  CASE m["target"] # "board" -> "UNKNOWN_TARGET"
    [] conn # "registered" -> "BOARD_UNAVAILABLE"
    [] gate = "none" \/ m["command"] # "move" -> "UNKNOWN_COMMAND"
    [] estop /\ gate = "blocked" -> "ESTOP_ACTIVE"
    [] OTHER -> OK

RouteCommand(l) ==
  \/ RejectCode(l) # OK /\ Answer(l, RejectCode(l))
  \/ /\ RejectCode(l) = OK
     /\ stage' = "routed" /\ toBoard' = BuildBoardCommand(l)
     /\ UNCHANGED <<estop, answer, long>>

\* _handle_get_schemas; an answer over the line limit becomes an error.
GetSchemas(l) ==
  CASE l["command"] # "get_schemas" -> Answer(l, "UNKNOWN_COMMAND")
    [] l["args"] \in {"obj:extra", "obj:badtype"} -> Answer(l, "INVALID_ARGUMENT")
    [] l["args"] = "obj:unknown" -> Answer(l, "UNKNOWN_TARGET")
    [] OTHER -> \/ Answer(l, "INVALID_ARGUMENT")
                \/ /\ stage' = "answered" /\ answer' = BuildOkResponse(l) /\ long' = FALSE
                   /\ UNCHANGED <<estop, toBoard>>

Released(l) ==
  /\ stage' = "answered" /\ answer' = BuildOkResponse(l) /\ long' \in BOOLEAN
  /\ estop' = FALSE
  /\ UNCHANGED toBoard

\* reset_estop, whether or not estop_reset_condition_cleared() says yes.
ResetEstop(l) ==
  IF l["target"] # "controller" THEN Answer(l, "UNKNOWN_TARGET")
    ELSE Answer(l, "ESTOP_ACTIVE") \/ Released(l)

\* The exception ends _handle_client, which closes the client.
HandlerDies == stage' = "unread" /\ UNCHANGED <<estop, toBoard, answer, long>>

\* One turn of _handle_client's loop and the task it creates.
HandleLine(l) ==
  /\ stage = "idle"
  /\ line' = l
  /\ CASE ParseError(l) = Uncaught -> HandlerDies
       [] ParseError(l) \notin {OK, Uncaught} -> Answer(l, ParseError(l))
       [] ParseError(l) = OK /\ l["type"] = "estop_reset" -> ResetEstop(l)
       [] ParseError(l) = OK /\ l["type"] \notin {"command", "estop_reset"} ->
            Answer(l, "UNKNOWN_COMMAND")
       [] ParseError(l) = OK /\ l["type"] = "command" /\ l["target"] = "controller" ->
            GetSchemas(l)
       [] OTHER -> RouteCommand(l)
  /\ UNCHANGED boardVars

-----------------------------------------------------------------------------
(* The board's lines *)

\* handle_board_response finds the pending entry by the number alone.
Matches(l) == l["type"] = "response" /\ l["seq"] = "board_seq"

BoardResponds(l) ==
  /\ stage = "routed" /\ ParseError(l) = OK /\ Matches(l)
  /\ stage' = "answered" /\ long' \in BOOLEAN
  /\ answer' = BuildClientResponse(l, line)
  /\ UNCHANGED <<boardVars, estop, line, toBoard>>

\* _handle_event: an acknowledgement marks the board, and trigger_estop latches
\* and starts a new acknowledgement.
BoardEvent(l) ==
  /\ stage = "routed" /\ ParseError(l) = OK /\ l["type"] = "event"
  /\ \/ IsEstopAckEvent(l) /\ ack' = TRUE /\ UNCHANGED estop
     \/ l["event"] = "estop_triggered" /\ estop' = TRUE /\ ack' = FALSE
  /\ UNCHANGED <<conn, gate, shown, said, regs, stage, line, toBoard, answer, long>>

\* A line that ends the connection: board_down answers the command.
BoardLineEnds(l) ==
  /\ stage = "routed" /\ conn = "registered" /\ EndsReading(l)
  /\ conn' = AfterLine(l)
  /\ Answer(line, "BOARD_UNAVAILABLE")
  /\ UNCHANGED <<gate, shown, said, regs, ack, line>>

\* The execution timeout, when the board has sent nothing that matches.
CommandTimeout ==
  /\ stage = "routed"
  /\ Answer(line, "COMMAND_TIMEOUT")
  /\ UNCHANGED <<boardVars, line>>

\* writer_loop: serialize_message validates the answer and measures it; if it
\* raises, the client gets nothing.
WriteAnswer ==
  /\ stage = "answered"
  /\ stage' = IF Validate(answer) = OK /\ ~long THEN "read" ELSE "unread"
  /\ UNCHANGED <<boardVars, estop, line, toBoard, answer, long>>

Next ==
  \/ \E l \in SchemaLines : RegistrationFails(l) \/ RegisterBoard(l)
  \/ BoardDown
  \/ \E l \in ClientLines : HandleLine(l)
  \/ \E l \in BoardLines : BoardResponds(l) \/ BoardEvent(l) \/ BoardLineEnds(l)
  \/ CommandTimeout
  \/ WriteAnswer

Spec == Init /\ [][Next]_vars

-----------------------------------------------------------------------------
(* Properties *)

\* Types hold, and a line reaches the board only if it is a valid command for it, and the
\* command the board gets is itself valid, under the controller's own number.
ForwardedValid ==
  /\ TypeOK
  /\ toBoard # NoMessage =>
    /\ ParseError(line) = OK /\ line["type"] = "command" /\ line["target"] = "board"
    /\ Validate(toBoard) = OK
    /\ toBoard["seq"] = "board_seq" /\ toBoard["args"] = line["args"]

AnswerMatches ==
  IsMessage(line) =>
    /\ line["seq"] \in Uint => answer["seq"] = line["seq"]
    /\ line["source"] \in Str => answer["target"] = line["source"]

\* The request is for the schemas and succeeded.
SchemasSent ==
  /\ ParseError(line) = OK /\ line["type"] = "command" /\ line["target"] = "controller"
  /\ answer["status"] = "ok"

AnswerReadable ==
  /\ stage = "unread" => \/ ParseError(line) = Uncaught
                         \/ line["seq"] = "huge"
                         \/ long /\ ~SchemasSent
  /\ stage = "read" => answer # NoMessage /\ line["seq"] # "huge"

StatusHonest ==
  /\ answer["status"] = "timeout" <=> answer["error.code"] = "COMMAND_TIMEOUT"
                                      /\ answer["error"] \in Obj
  /\ answer["status"] = "ok" <=> answer["error"] = "null"
  /\ answer["status"] # "ok" => answer["error.code"] \in ErrorCodes

\* Whatever the board put into its response and wherever the line failed, the
\* answer goes to the sender of the request under the request's number, its
\* status tells the truth (timeout exactly with COMMAND_TIMEOUT, ok exactly
\* without an error), and the client can read it.  The exceptions: a line that
\* json.loads gives up on is not answered, a number over 2^64 - 1 is echoed into
\* a response that writer_loop cannot serialize, and an answer may be longer than
\* the client's limit, though not one with the schemas.
AnswerSound == AnswerReadable /\ (answer # NoMessage => AnswerMatches /\ StatusHonest)

\* Clients are shown the gate that the controller applies, and a command is
\* open during an e-stop only if the board's schema says so in as many words.
GateShown ==
  /\ shown # "unknown" => gate = shown
  /\ gate = "open" => said = "false"

\* An e-stop holds: while it is latched no command starts on its way to the
\* board unless the board's schema opened it, and the latch is released only by
\* a valid estop_reset for the controller, by no board and no other line.
EstopHolds ==
  [][/\ stage = "idle" /\ stage' = "routed" => ~estop \/ said = "false"
     /\ estop /\ ~estop' =>
          /\ ParseError(line') = OK
          /\ line'["type"] = "estop_reset" /\ line'["target"] = "controller"]_vars
=============================================================================
