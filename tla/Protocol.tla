------------------------------ MODULE Protocol ------------------------------
(***************************************************************************)
(* protocol.py: what parse_line and validate_message accept, and the       *)
(* messages the controller builds from others.  A message is a function    *)
(* from field names to shapes; a shape is a value the code tells apart     *)
(* from others, Absent if the field is not there.  A field of a nested     *)
(* object is a field of its own, which counts only if the object is one.   *)
(***************************************************************************)
EXTENDS Integers, SequencesExt

OK == "OK"
Uncaught == "UNCAUGHT"  \* an exception parse_line and its callers do not catch
Absent == "absent"

MessageTypes == {"command", "response", "telemetry", "schema", "event", "estop",
                 "estop_reset", "heartbeat"}
TerminalStatuses == {"ok", "error", "timeout"}
\* COMMAND_TIMEOUT is tied to a status; the codes the controller answers with
\* have names, and INTERNAL_ERROR stands for the others a board may send.
ErrorCodes == {"COMMAND_TIMEOUT", "INVALID_JSON", "MISSING_FIELD", "INVALID_TYPE",
               "UNKNOWN_TARGET", "UNKNOWN_COMMAND", "INVALID_ARGUMENT",
               "BOARD_UNAVAILABLE", "ESTOP_ACTIVE", "INTERNAL_ERROR"}

Fields == {"raw", "type", "seq", "source", "target", "command", "args", "controller_ts",
           "status", "result", "error", "error.code", "error.message", "telemetry",
           "protocol_version", "schema", "commands", "meta", "meta.args", "blocked",
           "event", "event_id", "details", "state"}

\* Strings, integers (the two sequence numbers of an exchange, zero, one below
\* zero and one over 2^64 - 1) and objects (args by what get_schemas sees).
Str == MessageTypes \cup TerminalStatuses \cup ErrorCodes \cup
       {"str", "board", "controller", "client", "1", "estop_ack", "estop_triggered",
        "safe", "move", "get_schemas"}
Uint == {"0", "client_seq", "board_seq"}
AnyInt == Uint \cup {"negative", "huge"}
Bool == {"true", "false"}
ArgsObj == {"obj", "obj:board", "obj:unknown", "obj:badtype", "obj:extra"}
Obj == ArgsObj \cup {"obj:board_seq"}
\* isinstance(value, int | float) is also true of a boolean.
Num == AnyInt \cup Bool \cup {"float"}

Message(fs) == [f \in Fields |-> IF f \in DOMAIN fs THEN fs[f] ELSE Absent]

\* Lines that parse_line refuses, and lines json.loads gives up on: an integer of
\* over 4300 digits is a plain ValueError, deep nesting a RecursionError.
BadLines == {Message([raw |-> r]) : r \in {"toolong", "badjson", "list", "giveup"}}
NoMessage == Message([raw |-> "none"])

-----------------------------------------------------------------------------
(* Helpers.  A definition whose name begins with Bug is a broken variant of *)
(* the one that follows it, used to show that the properties notice.        *)

\* _required_str, _required_object and _required_uint64.
Required(m, f, S) ==
  CASE m[f] = Absent -> "MISSING_FIELD"
    [] m[f] \in S -> OK
    [] OTHER -> "INVALID_TYPE"

Check(p) == IF p THEN OK ELSE "INVALID_TYPE"

Optional(m, f, S) == Check(m[f] \in S \cup {Absent})

\* Validation stops at the first check that raises.
First(checks) ==
  LET bad == {i \in 1 .. Len(checks) : checks[i] # OK}
  IN IF bad = {} THEN OK ELSE checks[Min(bad)]

Addressed(m) == <<Required(m, "seq", Uint), Required(m, "source", Str),
                  Required(m, "target", Str)>>

ValidateCommand(m) ==
  First(Addressed(m) \o
        <<Required(m, "command", Str), Required(m, "args", Obj),
          Optional(m, "controller_ts", Num)>>)

\* An error object goes with every status but ok, and COMMAND_TIMEOUT with the
\* status timeout and no other.
ErrorChecks(m) ==
  IF m["status"] = "ok" THEN <<Check(m["error"] \in {"null", Absent})>>
    ELSE <<Required(m, "error", Obj), Required(m, "error.code", Str),
           Check(m["error.code"] \in ErrorCodes), Required(m, "error.message", Str),
           Check((m["status"] = "timeout") = (m["error.code"] = "COMMAND_TIMEOUT"))>>

ValidateResponse(m) ==
  First(Addressed(m) \o
        <<Required(m, "status", Str), Check(m["status"] \in TerminalStatuses)>> \o
        ErrorChecks(m) \o
        <<Optional(m, "result", Obj \cup {"null"}),
          Optional(m, "controller_ts", Num \cup {"null"})>>)

ValidateTelemetry(m) == First(Append(Addressed(m), Required(m, "telemetry", Obj)))

\* One command entry stands for the commands of a schema.
ValidateSchema(m) ==
  First(Addressed(m) \o
        <<Required(m, "protocol_version", Str), Required(m, "schema", Obj),
          Optional(m, "commands", Obj)>> \o
        IF m["commands"] \notin Obj THEN <<>>
          ELSE <<Check(m["meta"] \in Obj \cup {Absent})>> \o
               IF m["meta"] \notin Obj THEN <<>>
                 ELSE <<Optional(m, "meta.args", Obj), Optional(m, "blocked", Bool)>>)

ValidateEvent(m) ==
  First(<<Required(m, "source", Str), Required(m, "event", Str),
          Optional(m, "target", Str), Optional(m, "event_id", Uint),
          Optional(m, "details", Obj)>> \o
        IF m["event"] # "estop_ack" THEN <<>>
          ELSE <<Required(m, "details", Obj), Check(m["state"] = "safe")>>)

ValidateEstop(m) == First(<<Required(m, "source", Str), Required(m, "target", Str)>>)

ValidateEstopReset(m) == First(Addressed(m))

ValidateHeartbeat(m) ==
  First(<<Optional(m, "seq", Uint), Required(m, "source", Str), Required(m, "target", Str)>>)

\* validate_message.
Validate(m) ==
  IF Required(m, "type", Str) # OK THEN Required(m, "type", Str)
    ELSE CASE m["type"] = "command" -> ValidateCommand(m)
           [] m["type"] = "response" -> ValidateResponse(m)
           [] m["type"] = "telemetry" -> ValidateTelemetry(m)
           [] m["type"] = "schema" -> ValidateSchema(m)
           [] m["type"] = "event" -> ValidateEvent(m)
           [] m["type"] = "estop" -> ValidateEstop(m)
           [] m["type"] = "estop_reset" -> ValidateEstopReset(m)
           [] m["type"] = "heartbeat" -> ValidateHeartbeat(m)
           [] OTHER -> "INVALID_TYPE"

IsMessage(l) == l["raw"] = Absent

\* parse_line and validate_message, as parse_message calls them.
ParseError(l) ==
  CASE IsMessage(l) -> Validate(l)
    [] l["raw"] = "list" -> "INVALID_TYPE"
    [] l["raw"] = "giveup" -> Uncaught
    [] OTHER -> "INVALID_JSON"

-----------------------------------------------------------------------------
(* Messages the controller builds *)

BugBlockedByEstop(m) == m["blocked"] = "true"

\* command_blocked_by_estop: a command is open only if its schema says so.
BlockedByEstop(m) == m["blocked"] # "false"

\* extract_blocked_by_estop, for the command of the schema: "none" if the
\* schema has no such command.
GateOf(m) ==
  IF m["commands"] \notin Obj \/ m["meta"] \notin Obj THEN "none"
    ELSE IF BlockedByEstop(m) THEN "blocked" ELSE "open"

\* _schema_record_from_message: the schema that clients are shown, with the
\* default of blocked_by_estop filled in.
Effective(m) ==
  IF m["commands"] \notin Obj \/ m["meta"] \notin Obj THEN "none"
    ELSE IF m["blocked"] \in {Absent, "true"} THEN "blocked" ELSE "open"

BugBuildBoardCommand(m) ==
  Message([type |-> "command", seq |-> m["seq"], controller_ts |-> "float",
           source |-> "controller", target |-> "board", command |-> m["command"],
           args |-> m["args"]])

\* build_board_command: only the command and its arguments are the client's.
BuildBoardCommand(m) ==
  Message([type |-> "command", seq |-> "board_seq", controller_ts |-> "float",
           source |-> "controller", target |-> "board", command |-> m["command"],
           args |-> m["args"]])

BugBuildClientResponse(b, m) ==
  [b EXCEPT !["source"] = "controller", !["target"] = m["source"]]

\* build_client_response: the client's seq comes back, the board's goes into
\* the result, and only an ok response has one.
BuildClientResponse(b, m) ==
  LET base == Message([type |-> "response", seq |-> m["seq"], source |-> "controller",
                       target |-> m["source"], status |-> b["status"],
                       controller_ts |-> IF b["controller_ts"] = Absent THEN "null"
                                           ELSE b["controller_ts"],
                       result |-> IF b["status"] = "ok" THEN "obj:board_seq" ELSE "null",
                       error |-> IF b["error"] = Absent THEN "null" ELSE b["error"]])
  IN [base EXCEPT !["error.code"] = b["error.code"], !["error.message"] = b["error.message"]]

\* build_error_response, as the controller calls it.
BuildErrorResponse(seq, target, code) ==
  [Message([type |-> "response", seq |-> seq, source |-> "controller", target |-> target,
            status |-> IF code = "COMMAND_TIMEOUT" THEN "timeout" ELSE "error",
            result |-> "null", error |-> "obj"])
     EXCEPT !["error.code"] = code, !["error.message"] = "str"]

BuildOkResponse(m) ==
  Message([type |-> "response", seq |-> m["seq"], source |-> "controller",
           target |-> m["source"], status |-> "ok", result |-> "obj", error |-> "null"])

\* is_estop_ack_event, of a message that is valid.
IsEstopAckEvent(m) == m["type"] = "event" /\ m["event"] = "estop_ack" /\ m["state"] = "safe"
=============================================================================
