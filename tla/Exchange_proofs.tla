-------------------------- MODULE Exchange_proofs --------------------------
(***************************************************************************)
(* Proofs about module Exchange.  They hold for every line a peer can send *)
(* and not only for the variants of a good message that the model          *)
(* enumerates: the lemmas about protocol.py are about any message, and the *)
(* invariant is that of WideSpec, in which a line is any function on the   *)
(* fields.                                                                 *)
(***************************************************************************)
EXTENDS Exchange, WellFoundedInduction, TLAPS

-----------------------------------------------------------------------------
(* Validation *)

\* What a check of validate_message gives.
Codes == {OK, "MISSING_FIELD", "INVALID_TYPE"}

\* A set of natural numbers has a least element.
LEMMA MinExists ==
  ASSUME NEW S \in SUBSET Nat, S # {}
  PROVE  Min(S) \in S
<1>1. \E x \in S : \A y \in S : ~(<<y, x>> \in OpToRel(<, Nat))
  BY WFMin, NatLessThanWellFounded
<1>2. PICK x \in S : \A y \in S : ~(<<y, x>> \in OpToRel(<, Nat))
  BY <1>1
<1>3. ASSUME NEW y \in S
      PROVE  x <= y
  <2>1. <<y, x>> \in OpToRel(<, Nat) <=> y < x
    BY DEF OpToRel
  <2>2. ~(y < x)
    BY <1>2, <2>1, Zenon
  <2> QED
    BY <2>2
<1> QED
  BY <1>3 DEF Min

\* Validation stops at a check that fails, and only there.
LEMMA FirstCode ==
  ASSUME NEW s \in Seq(Codes)
  PROVE  First(s) \in Codes /\ (First(s) = OK <=> \A i \in 1 .. Len(s) : s[i] = OK)
<1> DEFINE bad == {i \in 1 .. Len(s) : s[i] # OK}
<1>1. CASE bad = {}
  BY <1>1 DEF First, Codes
<1>2. CASE bad # {}
  <2>1. bad \in SUBSET Nat
    OBVIOUS
  <2>2. Min(bad) \in bad
    BY <1>2, <2>1, MinExists
  <2> QED
    BY <1>2, <2>2 DEF First
<1> QED
  BY <1>1, <1>2

\* Checks made one after the other.
LEMMA FirstConcat ==
  ASSUME NEW s \in Seq(Codes), NEW t \in Seq(Codes)
  PROVE  /\ s \o t \in Seq(Codes)
         /\ First(s \o t) = OK <=> First(s) = OK /\ First(t) = OK
<1>1. s \o t \in Seq(Codes) /\ Len(s \o t) = Len(s) + Len(t)
  OBVIOUS
<1>2. \A i \in 1 .. Len(s) : (s \o t)[i] = s[i]
  OBVIOUS
<1>3. \A i \in 1 .. Len(t) : (s \o t)[Len(s) + i] = t[i]
  OBVIOUS
<1>4. (\A i \in 1 .. Len(s \o t) : (s \o t)[i] = OK)
        <=> (\A i \in 1 .. Len(s) : s[i] = OK) /\ (\A i \in 1 .. Len(t) : t[i] = OK)
  <2>1. ASSUME \A i \in 1 .. Len(s \o t) : (s \o t)[i] = OK, NEW i \in 1 .. Len(t)
        PROVE  t[i] = OK
    BY <1>1, <1>3, <2>1
  <2>2. ASSUME \A i \in 1 .. Len(s) : s[i] = OK, \A i \in 1 .. Len(t) : t[i] = OK,
               NEW i \in 1 .. Len(s \o t)
        PROVE  (s \o t)[i] = OK
    BY <1>1, <1>2, <2>2
  <2> QED
    BY <1>1, <1>2, <2>1, <2>2
<1> QED
  BY <1>1, <1>4, FirstCode

\* A list of no checks.
LEMMA FirstNone == <<>> \in Seq(Codes) /\ First(<<>>) = OK
<1>1. <<>> \in Seq(Codes)
  OBVIOUS
<1>2. \A i \in 1 .. Len(<<>>) : <<>>[i] = OK
  OBVIOUS
<1> QED
  BY <1>1, <1>2, FirstCode

\* A list of one check.
LEMMA FirstOne ==
  ASSUME NEW a \in Codes
  PROVE  <<a>> \in Seq(Codes) /\ (First(<<a>>) = OK <=> a = OK)
<1> DEFINE s == <<a>>
<1>1. s \in Seq(Codes) /\ Len(s) = 1 /\ s[1] = a
  OBVIOUS
<1> HIDE DEF s
<1>2. First(s) = OK <=> \A i \in 1 .. 1 : s[i] = OK
  BY <1>1, FirstCode
<1>3. (\A i \in 1 .. 1 : s[i] = OK) <=> s[1] = OK
  OBVIOUS
<1>4. First(s) = OK <=> a = OK
  BY <1>1, <1>2, <1>3
<1> QED
  BY <1>1, <1>4 DEF s

\* A list of two checks.
LEMMA FirstTwo ==
  ASSUME NEW a \in Codes, NEW b \in Codes
  PROVE  <<a, b>> \in Seq(Codes) /\ (First(<<a, b>>) = OK <=> a = OK /\ b = OK)
<1> DEFINE s == <<a, b>>
<1>1. s \in Seq(Codes) /\ Len(s) = 2 /\ s[1] = a /\ s[2] = b
  OBVIOUS
<1> HIDE DEF s
<1>2. First(s) = OK <=> \A i \in 1 .. 2 : s[i] = OK
  BY <1>1, FirstCode
<1>3. (\A i \in 1 .. 2 : s[i] = OK) <=> s[1] = OK /\ s[2] = OK
  OBVIOUS
<1>4. First(s) = OK <=> a = OK /\ b = OK
  BY <1>1, <1>2, <1>3
<1> QED
  BY <1>1, <1>4 DEF s

\* A list of three checks.
LEMMA FirstThree ==
  ASSUME NEW a \in Codes, NEW b \in Codes, NEW c \in Codes
  PROVE  <<a, b, c>> \in Seq(Codes) /\ (First(<<a, b, c>>) = OK <=> a = OK /\ b = OK /\ c = OK)
<1> DEFINE s == <<a, b, c>>
<1>1. s \in Seq(Codes) /\ Len(s) = 3 /\ s[1] = a /\ s[2] = b /\ s[3] = c
  OBVIOUS
<1> HIDE DEF s
<1>2. First(s) = OK <=> \A i \in 1 .. 3 : s[i] = OK
  BY <1>1, FirstCode
<1>3. (\A i \in 1 .. 3 : s[i] = OK) <=> s[1] = OK /\ s[2] = OK /\ s[3] = OK
  OBVIOUS
<1>4. First(s) = OK <=> a = OK /\ b = OK /\ c = OK
  BY <1>1, <1>2, <1>3
<1> QED
  BY <1>1, <1>4 DEF s

\* A list of five checks.
LEMMA FirstFive ==
  ASSUME NEW a \in Codes, NEW b \in Codes, NEW c \in Codes, NEW d \in Codes, NEW e \in Codes
  PROVE  <<a, b, c, d, e>> \in Seq(Codes) /\ (First(<<a, b, c, d, e>>) = OK <=> a = OK /\ b = OK /\ c = OK /\ d = OK /\ e = OK)
<1> DEFINE s == <<a, b, c, d, e>>
<1>1. s \in Seq(Codes) /\ Len(s) = 5 /\ s[1] = a /\ s[2] = b /\ s[3] = c /\ s[4] = d /\ s[5] = e
  OBVIOUS
<1> HIDE DEF s
<1>2. First(s) = OK <=> \A i \in 1 .. 5 : s[i] = OK
  BY <1>1, FirstCode
<1>3. (\A i \in 1 .. 5 : s[i] = OK) <=> s[1] = OK /\ s[2] = OK /\ s[3] = OK /\ s[4] = OK /\ s[5] = OK
  OBVIOUS
<1>4. First(s) = OK <=> a = OK /\ b = OK /\ c = OK /\ d = OK /\ e = OK
  BY <1>1, <1>2, <1>3
<1> QED
  BY <1>1, <1>4 DEF s

\* A field that is not there has none of the shapes the code asks for.
LEMMA AbsentShape ==
  /\ Absent \notin Str /\ Absent \notin Uint /\ Absent \notin Obj /\ Absent \notin Bool
  /\ Absent \notin Num
  BY DEF Absent, Str, Uint, Obj, ArgsObj, Bool, Num, AnyInt, MessageTypes, TerminalStatuses,
       ErrorCodes

\* A check of one field says whether it has one of the shapes.
LEMMA FieldCheck ==
  ASSUME NEW m, NEW f, NEW S
  PROVE  /\ Optional(m, f, S) \in Codes
         /\ Optional(m, f, S) = OK <=> m[f] \in S \/ m[f] = Absent
         /\ Absent \notin S => /\ Required(m, f, S) \in Codes
                               /\ Required(m, f, S) = OK <=> m[f] \in S
<1>1. "INVALID_TYPE" # OK /\ "MISSING_FIELD" # OK
  BY DEF OK
<1>2. /\ Optional(m, f, S) \in Codes
      /\ Optional(m, f, S) = OK <=> m[f] \in S \/ m[f] = Absent
  BY <1>1 DEF Optional, Check, Codes
<1>3. ASSUME Absent \notin S
      PROVE  Required(m, f, S) \in Codes /\ (Required(m, f, S) = OK <=> m[f] \in S)
  <2>1. CASE m[f] = Absent
    BY <1>1, <1>3, <2>1 DEF Required, Codes
  <2>2. CASE m[f] # Absent
    BY <1>1, <2>2 DEF Required, Codes
  <2> QED
    BY <2>1, <2>2
<1> QED
  BY <1>2, <1>3
-----------------------------------------------------------------------------
(* What the validators accept *)

AddressedOK(m) == m["seq"] \in Uint /\ m["source"] \in Str /\ m["target"] \in Str

CommandOK(m) ==
  /\ AddressedOK(m) /\ m["command"] \in Str /\ m["args"] \in Obj
  /\ m["controller_ts"] \in Num \cup {Absent}

\* The error of a response goes with its status.
ErrorOK(m) ==
  IF m["status"] = "ok" THEN m["error"] \in {"null", Absent}
    ELSE /\ m["error"] \in Obj /\ m["error.code"] \in ErrorCodes /\ m["error.message"] \in Str
         /\ m["status"] = "timeout" <=> m["error.code"] = "COMMAND_TIMEOUT"

ResponseOK(m) ==
  /\ AddressedOK(m) /\ m["status"] \in TerminalStatuses /\ ErrorOK(m)
  /\ m["result"] \in Obj \cup {"null", Absent}
  /\ m["controller_ts"] \in Num \cup {"null", Absent}

\* Statuses and error codes are strings.
LEMMA StringShapes == TerminalStatuses \subseteq Str /\ ErrorCodes \subseteq Str /\ MessageTypes \subseteq Str
  BY DEF Str

\* The addresses of a message.
LEMMA AddressedCheck ==
  ASSUME NEW m
  PROVE  Addressed(m) \in Seq(Codes) /\ (First(Addressed(m)) = OK <=> AddressedOK(m))
<1> DEFINE a == Required(m, "seq", Uint)
           b == Required(m, "source", Str)
           c == Required(m, "target", Str)
<1>1. /\ a \in Codes /\ b \in Codes /\ c \in Codes
      /\ a = OK <=> m["seq"] \in Uint
      /\ b = OK <=> m["source"] \in Str
      /\ c = OK <=> m["target"] \in Str
  BY FieldCheck, AbsentShape
<1>2. Addressed(m) = <<a, b, c>>
  BY DEF Addressed
<1> HIDE DEF a, b, c
<1> QED
  BY <1>1, <1>2, FirstThree DEF AddressedOK

\* validate_command.
LEMMA CommandCheck ==
  ASSUME NEW m
  PROVE  ValidateCommand(m) \in Codes /\ (ValidateCommand(m) = OK <=> CommandOK(m))
<1> DEFINE a == Required(m, "command", Str)
           b == Required(m, "args", Obj)
           c == Optional(m, "controller_ts", Num)
<1>1. /\ a \in Codes /\ b \in Codes /\ c \in Codes
      /\ a = OK <=> m["command"] \in Str
      /\ b = OK <=> m["args"] \in Obj
      /\ c = OK <=> m["controller_ts"] \in Num \/ m["controller_ts"] = Absent
  BY FieldCheck, AbsentShape
<1>2. ValidateCommand(m) = First(Addressed(m) \o <<a, b, c>>)
  BY DEF ValidateCommand
<1> HIDE DEF a, b, c
<1>3. <<a, b, c>> \in Seq(Codes) /\ (First(<<a, b, c>>) = OK <=> a = OK /\ b = OK /\ c = OK)
  BY <1>1, FirstThree
<1>4. /\ Addressed(m) \o <<a, b, c>> \in Seq(Codes)
      /\ First(Addressed(m) \o <<a, b, c>>) = OK <=> AddressedOK(m) /\ First(<<a, b, c>>) = OK
  BY <1>3, AddressedCheck, FirstConcat
<1> QED
  BY <1>1, <1>2, <1>3, <1>4, FirstCode DEF CommandOK

\* _validate_response_error: the checks of the error of a response.
LEMMA ErrorCheck ==
  ASSUME NEW m
  PROVE  ErrorChecks(m) \in Seq(Codes) /\ (First(ErrorChecks(m)) = OK <=> ErrorOK(m))
<1>1. CASE m["status"] = "ok"
  <2> DEFINE a == Check(m["error"] \in {"null", Absent})
  <2>1. a \in Codes /\ (a = OK <=> m["error"] \in {"null", Absent})
    BY DEF Check, Codes, OK
  <2>2. ErrorChecks(m) = <<a>>
    BY <1>1 DEF ErrorChecks
  <2>3. ErrorOK(m) <=> m["error"] \in {"null", Absent}
    BY <1>1 DEF ErrorOK
  <2> HIDE DEF a
  <2> QED
    BY <2>1, <2>2, <2>3, FirstOne
<1>2. CASE m["status"] # "ok"
  <2> DEFINE a == Required(m, "error", Obj)
             b == Required(m, "error.code", Str)
             c == Check(m["error.code"] \in ErrorCodes)
             d == Required(m, "error.message", Str)
             e == Check((m["status"] = "timeout") = (m["error.code"] = "COMMAND_TIMEOUT"))
  <2>1. /\ a \in Codes /\ b \in Codes /\ d \in Codes
        /\ a = OK <=> m["error"] \in Obj
        /\ b = OK <=> m["error.code"] \in Str
        /\ d = OK <=> m["error.message"] \in Str
    BY FieldCheck, AbsentShape
  <2>2. c \in Codes /\ (c = OK <=> m["error.code"] \in ErrorCodes)
    BY DEF Check, Codes, OK
  <2>3. e \in Codes /\ (e = OK <=> (m["status"] = "timeout" <=> m["error.code"] = "COMMAND_TIMEOUT"))
    BY DEF Check, Codes, OK
  <2>4. ErrorChecks(m) = <<a, b, c, d, e>>
    BY <1>2 DEF ErrorChecks
  <2>5. ErrorOK(m) <=> /\ m["error"] \in Obj /\ m["error.code"] \in ErrorCodes
                       /\ m["error.message"] \in Str
                       /\ m["status"] = "timeout" <=> m["error.code"] = "COMMAND_TIMEOUT"
    BY <1>2 DEF ErrorOK
  <2> HIDE DEF a, b, c, d, e
  <2>6. /\ <<a, b, c, d, e>> \in Seq(Codes)
        /\ First(<<a, b, c, d, e>>) = OK <=> a = OK /\ b = OK /\ c = OK /\ d = OK /\ e = OK
    BY <2>1, <2>2, <2>3, FirstFive
  <2> QED
    BY <2>1, <2>2, <2>3, <2>4, <2>5, <2>6, StringShapes
<1> QED
  BY <1>1, <1>2

\* validate_response.
LEMMA ResponseCheck ==
  ASSUME NEW m
  PROVE  ValidateResponse(m) \in Codes /\ (ValidateResponse(m) = OK <=> ResponseOK(m))
<1> DEFINE a == Required(m, "status", Str)
           b == Check(m["status"] \in TerminalStatuses)
           c == Optional(m, "result", Obj \cup {"null"})
           d == Optional(m, "controller_ts", Num \cup {"null"})
           s == Addressed(m)
           t == <<a, b>>
           u == ErrorChecks(m)
           v == <<c, d>>
<1>1. /\ a \in Codes /\ c \in Codes /\ d \in Codes
      /\ a = OK <=> m["status"] \in Str
      /\ c = OK <=> m["result"] \in Obj \cup {"null"} \/ m["result"] = Absent
      /\ d = OK <=> m["controller_ts"] \in Num \cup {"null"} \/ m["controller_ts"] = Absent
  BY FieldCheck, AbsentShape
<1>2. b \in Codes /\ (b = OK <=> m["status"] \in TerminalStatuses)
  BY DEF Check, Codes, OK
<1>3. ValidateResponse(m) = First(((s \o t) \o u) \o v)
  BY DEF ValidateResponse
<1> HIDE DEF a, b, c, d
<1>4. /\ t \in Seq(Codes) /\ (First(t) = OK <=> a = OK /\ b = OK)
      /\ v \in Seq(Codes) /\ (First(v) = OK <=> c = OK /\ d = OK)
  BY <1>1, <1>2, FirstTwo
<1>5. /\ s \in Seq(Codes) /\ (First(s) = OK <=> AddressedOK(m))
      /\ u \in Seq(Codes) /\ (First(u) = OK <=> ErrorOK(m))
  BY AddressedCheck, ErrorCheck
<1> HIDE DEF s, t, u, v
<1>6. s \o t \in Seq(Codes) /\ (First(s \o t) = OK <=> First(s) = OK /\ First(t) = OK)
  BY <1>4, <1>5, FirstConcat
<1>7. /\ (s \o t) \o u \in Seq(Codes)
      /\ First((s \o t) \o u) = OK <=> First(s \o t) = OK /\ First(u) = OK
  BY <1>5, <1>6, FirstConcat
<1>8. /\ ((s \o t) \o u) \o v \in Seq(Codes)
      /\ First(((s \o t) \o u) \o v) = OK <=> First((s \o t) \o u) = OK /\ First(v) = OK
  BY <1>4, <1>7, FirstConcat
<1>9. ValidateResponse(m) = OK <=>
        AddressedOK(m) /\ a = OK /\ b = OK /\ ErrorOK(m) /\ c = OK /\ d = OK
  BY <1>3, <1>4, <1>5, <1>6, <1>7, <1>8
<1>10. ValidateResponse(m) \in Codes
  BY <1>3, <1>8, FirstCode
<1> QED
  BY <1>1, <1>2, <1>9, <1>10, StringShapes DEF ResponseOK
\* validate_schema, as far as the gate of the command needs it.
LEMMA SchemaCheck ==
  ASSUME NEW m
  PROVE  /\ ValidateSchema(m) \in Codes
         /\ ValidateSchema(m) = OK /\ m["commands"] \in Obj /\ m["meta"] \in Obj
              => m["blocked"] \in Bool \cup {Absent}
<1> DEFINE a == Required(m, "protocol_version", Str)
           b == Required(m, "schema", Obj)
           c == Optional(m, "commands", Obj)
           d == Check(m["meta"] \in Obj \cup {Absent})
           e == Optional(m, "meta.args", Obj)
           f == Optional(m, "blocked", Bool)
           s == Addressed(m)
           t == <<a, b, c>>
           w == IF m["meta"] \notin Obj THEN <<>> ELSE <<e, f>>
           u == IF m["commands"] \notin Obj THEN <<>> ELSE <<d>> \o w
<1>1. /\ a \in Codes /\ b \in Codes /\ c \in Codes /\ e \in Codes /\ f \in Codes
      /\ f = OK => m["blocked"] \in Bool \cup {Absent}
  BY FieldCheck, AbsentShape
<1>2. d \in Codes
  BY DEF Check, Codes, OK
<1>3. ValidateSchema(m) = First((s \o t) \o u)
  BY DEF ValidateSchema
<1> HIDE DEF a, b, c, d, e, f
<1>4. t \in Seq(Codes) /\ <<d>> \in Seq(Codes) /\ <<e, f>> \in Seq(Codes) /\ s \in Seq(Codes)
  BY <1>1, <1>2, FirstOne, FirstTwo, FirstThree, AddressedCheck
<1>5. w \in Seq(Codes) /\ (m["meta"] \in Obj /\ First(w) = OK => f = OK)
  BY <1>1, <1>4, FirstNone, FirstTwo
<1> HIDE DEF w
<1>6. <<d>> \o w \in Seq(Codes) /\ (First(<<d>> \o w) = OK => First(w) = OK)
  BY <1>4, <1>5, FirstConcat
<1>7. u \in Seq(Codes) /\ (m["commands"] \in Obj /\ First(u) = OK => First(w) = OK)
  BY <1>6, FirstNone
<1> HIDE DEF s, t, u
<1>8. s \o t \in Seq(Codes)
  BY <1>4, FirstConcat
<1>9. (s \o t) \o u \in Seq(Codes) /\ (First((s \o t) \o u) = OK => First(u) = OK)
  BY <1>7, <1>8, FirstConcat
<1>10. ValidateSchema(m) \in Codes
  BY <1>3, <1>9, FirstCode
<1> QED
  BY <1>1, <1>3, <1>5, <1>7, <1>9, <1>10

\* The validators of the other types: their verdict is a code, and an
\* estop_reset has its addresses.
LEMMA OtherChecks ==
  ASSUME NEW m
  PROVE  /\ ValidateTelemetry(m) \in Codes /\ ValidateEvent(m) \in Codes
         /\ ValidateEstop(m) \in Codes /\ ValidateHeartbeat(m) \in Codes
         /\ ValidateEstopReset(m) \in Codes
         /\ ValidateEstopReset(m) = OK <=> AddressedOK(m)
<1>1. ValidateTelemetry(m) \in Codes
  <2>1. Addressed(m) \in Seq(Codes) /\ Required(m, "telemetry", Obj) \in Codes
    BY AddressedCheck, FieldCheck, AbsentShape
  <2>2. Append(Addressed(m), Required(m, "telemetry", Obj)) \in Seq(Codes)
    BY <2>1
  <2> QED
    BY <2>2, FirstCode DEF ValidateTelemetry
<1>2. ValidateEvent(m) \in Codes
  <2> DEFINE a == Required(m, "source", Str)
             b == Required(m, "event", Str)
             c == Optional(m, "target", Str)
             d == Optional(m, "event_id", Uint)
             e == Optional(m, "details", Obj)
             f == Required(m, "details", Obj)
             g == Check(m["state"] = "safe")
             s == <<a, b, c, d, e>>
             t == IF m["event"] # "estop_ack" THEN <<>> ELSE <<f, g>>
  <2>1. a \in Codes /\ b \in Codes /\ c \in Codes /\ d \in Codes /\ e \in Codes /\ f \in Codes
    BY FieldCheck, AbsentShape
  <2>2. g \in Codes
    BY DEF Check, Codes, OK
  <2>3. ValidateEvent(m) = First(s \o t)
    BY DEF ValidateEvent
  <2> HIDE DEF a, b, c, d, e, f, g
  <2>4. s \in Seq(Codes) /\ t \in Seq(Codes)
    BY <2>1, <2>2, FirstNone, FirstTwo, FirstFive
  <2> HIDE DEF s, t
  <2> QED
    BY <2>3, <2>4, FirstConcat, FirstCode
<1>3. ValidateEstop(m) \in Codes
  <2> DEFINE a == Required(m, "source", Str)
             b == Required(m, "target", Str)
  <2>1. a \in Codes /\ b \in Codes
    BY FieldCheck, AbsentShape
  <2>2. ValidateEstop(m) = First(<<a, b>>)
    BY DEF ValidateEstop
  <2> HIDE DEF a, b
  <2> QED
    BY <2>1, <2>2, FirstTwo, FirstCode
<1>4. ValidateHeartbeat(m) \in Codes
  <2> DEFINE a == Optional(m, "seq", Uint)
             b == Required(m, "source", Str)
             c == Required(m, "target", Str)
  <2>1. a \in Codes /\ b \in Codes /\ c \in Codes
    BY FieldCheck, AbsentShape
  <2>2. ValidateHeartbeat(m) = First(<<a, b, c>>)
    BY DEF ValidateHeartbeat
  <2> HIDE DEF a, b, c
  <2> QED
    BY ZenonT(60), <2>1, <2>2, FirstThree, FirstCode
<1>5. ValidateEstopReset(m) \in Codes /\ (ValidateEstopReset(m) = OK <=> AddressedOK(m))
  BY AddressedCheck, FirstCode DEF ValidateEstopReset
<1> QED
  BY <1>1, <1>2, <1>3, <1>4, <1>5

\* validate_message, for any message whatever: the verdict is a code the client
\* can be told, and a message that passes is what its type promises.
LEMMA MessageCheck ==
  ASSUME NEW m
  PROVE  /\ Validate(m) \in Codes
         /\ m["type"] = "command" => (Validate(m) = OK <=> CommandOK(m))
         /\ m["type"] = "response" => (Validate(m) = OK <=> ResponseOK(m))
         /\ m["type"] = "estop_reset" => (Validate(m) = OK <=> AddressedOK(m))
         /\ m["type"] = "schema" /\ Validate(m) = OK /\ m["commands"] \in Obj /\ m["meta"] \in Obj
              => m["blocked"] \in Bool \cup {Absent}
<1>1. Required(m, "type", Str) \in Codes /\ (Required(m, "type", Str) = OK <=> m["type"] \in Str)
  BY FieldCheck, AbsentShape
<1>2. CASE m["type"] \notin Str
  <2>1. Validate(m) = Required(m, "type", Str)
    BY <1>1, <1>2 DEF Validate
  <2>2. m["type"] \notin MessageTypes
    BY <1>2, StringShapes
  <2> QED
    BY <1>1, <1>2, <2>1, <2>2 DEF MessageTypes
<1>3. CASE m["type"] \in Str
  <2> DEFINE V == CASE m["type"] = "command" -> ValidateCommand(m)
                    [] m["type"] = "response" -> ValidateResponse(m)
                    [] m["type"] = "telemetry" -> ValidateTelemetry(m)
                    [] m["type"] = "schema" -> ValidateSchema(m)
                    [] m["type"] = "event" -> ValidateEvent(m)
                    [] m["type"] = "estop" -> ValidateEstop(m)
                    [] m["type"] = "estop_reset" -> ValidateEstopReset(m)
                    [] m["type"] = "heartbeat" -> ValidateHeartbeat(m)
                    [] OTHER -> "INVALID_TYPE"
  <2>1. Validate(m) = V
    BY <1>1, <1>3 DEF Validate
  <2>2. V \in Codes
    BY CommandCheck, ResponseCheck, SchemaCheck, OtherChecks DEF Codes
  <2>3. m["type"] = "command" => V = ValidateCommand(m)
    OBVIOUS
  <2>4. m["type"] = "response" => V = ValidateResponse(m)
    OBVIOUS
  <2>5. m["type"] = "estop_reset" => V = ValidateEstopReset(m)
    OBVIOUS
  <2>6. m["type"] = "schema" => V = ValidateSchema(m)
    OBVIOUS
  <2> HIDE DEF V
  <2> QED
    BY <2>1, <2>2, <2>3, <2>4, <2>5, <2>6, CommandCheck, ResponseCheck, SchemaCheck, OtherChecks
<1> QED
  BY <1>2, <1>3
-----------------------------------------------------------------------------
(* What the controller builds *)

\* Any line: a message with anything in its fields, or one parse_line refuses.
IsLine(l) == DOMAIN l = Fields /\ (IsMessage(l) \/ l \in BadLines)

\* The answer a is one for the request line l.
AnswerFor(l, a) ==
  /\ DOMAIN a = Fields /\ a["type"] = "response" /\ a["source"] = "controller"
  /\ a["target"] \in Str /\ a["seq"] \in Uint \cup {"huge"}
  /\ a["seq"] = "huge" <=> l["seq"] = "huge"
  /\ IsMessage(l) => /\ l["seq"] \in Uint => a["seq"] = l["seq"]
                     /\ l["source"] \in Str => a["target"] = l["source"]
  /\ a["status"] \in TerminalStatuses /\ ErrorOK(a)
  /\ a["status"] = "ok" <=> a["error"] = "null"
  /\ a["result"] \in Obj \cup {"null", Absent}
  /\ a["controller_ts"] \in Num \cup {"null", Absent}

\* What parse_line refuses has no fields.
LEMMA BadLine ==
  ASSUME NEW l \in BadLines
  PROVE  ~IsMessage(l) /\ l["seq"] = Absent /\ DOMAIN l = Fields
<1>1. PICK r \in {"toolong", "badjson", "list", "giveup"} : l = Message([raw |-> r])
  BY DEF BadLines
<1>2. DOMAIN [raw |-> r] = {"raw"} /\ [raw |-> r]["raw"] = r
  OBVIOUS
<1>3. l = [f \in Fields |-> IF f \in {"raw"} THEN [raw |-> r][f] ELSE Absent]
  BY <1>1, <1>2 DEF Message
<1>4. "raw" \in Fields /\ "seq" \in Fields
  BY DEF Fields
<1> QED
  BY <1>2, <1>3, <1>4 DEF IsMessage, Absent

\* A message is accepted only if it is one and validate_message accepts it, and
\* what is refused is refused with a code the client knows.
LEMMA ParseCheck ==
  ASSUME NEW l
  PROVE  /\ ParseError(l) = OK => IsMessage(l) /\ Validate(l) = OK
         /\ ParseError(l) \notin {OK, Uncaught} => ParseError(l) \in ErrorCodes
<1>1. CASE IsMessage(l)
  <2>1. ParseError(l) = Validate(l)
    BY <1>1 DEF ParseError, IsMessage, Absent
  <2> QED
    BY <1>1, <2>1, MessageCheck DEF Codes, ErrorCodes, OK
<1>2. CASE ~IsMessage(l)
  BY <1>2 DEF ParseError, ErrorCodes, OK, Uncaught
<1> QED
  BY <1>1, <1>2

\* build_board_command makes a valid command of a valid one.
LEMMA BoardCommand ==
  ASSUME NEW l, CommandOK(l)
  PROVE  LET m == BuildBoardCommand(l)
         IN  /\ DOMAIN m = Fields /\ m["type"] = "command" /\ CommandOK(m)
             /\ m["seq"] = "board_seq" /\ m["args"] = l["args"]
<1> DEFINE m == BuildBoardCommand(l)
<1>1. /\ DOMAIN m = Fields /\ m["type"] = "command" /\ m["seq"] = "board_seq"
      /\ m["source"] = "controller" /\ m["target"] = "board" /\ m["command"] = l["command"]
      /\ m["args"] = l["args"] /\ m["controller_ts"] = "float"
  BY DEF BuildBoardCommand, Message, Fields
<1> HIDE DEF m
<1>2. CommandOK(m)
  BY <1>1 DEF CommandOK, AddressedOK, Uint, Str, Num
<1> QED
  BY <1>1, <1>2 DEF m

\* build_error_response answers the request.
LEMMA ErrorAnswer ==
  ASSUME NEW l, IsLine(l), NEW code \in ErrorCodes
  PROVE  AnswerFor(l, BuildErrorResponse(ResponseSeq(l), ResponseTarget(l), code))
<1> DEFINE s == ResponseSeq(l)
           t == ResponseTarget(l)
           a == BuildErrorResponse(s, t, code)
<1>1. /\ s \in Uint \cup {"huge"} /\ t \in Str
      /\ s = "huge" <=> l["seq"] = "huge"
      /\ IsMessage(l) => (l["seq"] \in Uint => s = l["seq"]) /\ (l["source"] \in Str => t = l["source"])
  <2>1. CASE IsMessage(l)
    BY <2>1 DEF ResponseSeq, ResponseTarget, AnyInt, Uint, Str
  <2>2. CASE ~IsMessage(l)
    <3>1. l["seq"] = Absent
      BY <2>2, BadLine DEF IsLine
    <3> QED
      BY <2>2, <3>1 DEF ResponseSeq, ResponseTarget, AnyInt, Uint, Str, Absent
  <2> QED
    BY <2>1, <2>2
<1> HIDE DEF s, t
<1>2. /\ DOMAIN a = Fields /\ a["type"] = "response" /\ a["seq"] = s
      /\ a["source"] = "controller" /\ a["target"] = t
      /\ a["status"] = (IF code = "COMMAND_TIMEOUT" THEN "timeout" ELSE "error")
      /\ a["result"] = "null" /\ a["error"] = "obj" /\ a["controller_ts"] = Absent
      /\ a["error.code"] = code /\ a["error.message"] = "str"
  BY DEF BuildErrorResponse, Message, Fields
<1> HIDE DEF a
<1>3. a["status"] \in TerminalStatuses /\ a["status"] # "ok" /\ ErrorOK(a)
  BY <1>2 DEF ErrorOK, TerminalStatuses, Obj, ArgsObj, Str
<1>4. AnswerFor(l, a)
  BY <1>1, <1>2, <1>3 DEF AnswerFor
<1> QED
  BY <1>4 DEF a, s, t

\* build_error_response never says ok.
LEMMA ErrorStatus ==
  ASSUME NEW s, NEW t, NEW code
  PROVE  BuildErrorResponse(s, t, code)["status"] # "ok"
<1>1. BuildErrorResponse(s, t, code)["status"]
        = IF code = "COMMAND_TIMEOUT" THEN "timeout" ELSE "error"
  BY DEF BuildErrorResponse, Message, Fields
<1> QED
  BY <1>1

\* build_ok_response answers a request that is addressed properly.
LEMMA OkAnswer ==
  ASSUME NEW l, AddressedOK(l)
  PROVE  AnswerFor(l, BuildOkResponse(l))
<1> DEFINE a == BuildOkResponse(l)
<1>1. /\ DOMAIN a = Fields /\ a["type"] = "response" /\ a["seq"] = l["seq"]
      /\ a["source"] = "controller" /\ a["target"] = l["source"] /\ a["status"] = "ok"
      /\ a["result"] = "obj" /\ a["error"] = "null" /\ a["controller_ts"] = Absent
  BY DEF BuildOkResponse, Message, Fields
<1> HIDE DEF a
<1>2. a["status"] \in TerminalStatuses /\ ErrorOK(a) /\ a["result"] \in Obj
  BY <1>1 DEF ErrorOK, TerminalStatuses, Obj, ArgsObj
<1>3. l["seq"] # "huge"
  BY DEF AddressedOK, Uint
<1>4. AnswerFor(l, a)
  BY <1>1, <1>2, <1>3 DEF AnswerFor, AddressedOK
<1> QED
  BY <1>4 DEF a

\* build_client_response makes an answer of any valid response of the board.
LEMMA ClientAnswer ==
  ASSUME NEW l, AddressedOK(l), NEW b, ResponseOK(b)
  PROVE  AnswerFor(l, BuildClientResponse(b, l))
<1> DEFINE a == BuildClientResponse(b, l)
<1>1. /\ DOMAIN a = Fields /\ a["type"] = "response" /\ a["seq"] = l["seq"]
      /\ a["source"] = "controller" /\ a["target"] = l["source"] /\ a["status"] = b["status"]
      /\ a["controller_ts"] = (IF b["controller_ts"] = Absent THEN "null" ELSE b["controller_ts"])
      /\ a["result"] = (IF b["status"] = "ok" THEN "obj:board_seq" ELSE "null")
      /\ a["error"] = (IF b["error"] = Absent THEN "null" ELSE b["error"])
      /\ a["error.code"] = b["error.code"] /\ a["error.message"] = b["error.message"]
  BY DEF BuildClientResponse, Message, Fields
<1> HIDE DEF a
<1>2. /\ b["status"] \in TerminalStatuses /\ ErrorOK(b)
      /\ b["controller_ts"] \in Num \cup {"null", Absent}
  BY DEF ResponseOK
<1>3. l["seq"] # "huge"
  BY DEF AddressedOK, Uint
<1>4. a["result"] \in Obj \cup {"null", Absent}
  BY <1>1 DEF Obj
<1>5. "null" \notin Obj /\ Absent \notin Obj /\ Absent # "null"
  BY DEF Obj, ArgsObj, Absent
<1>6. ErrorOK(a) /\ (a["status"] = "ok" <=> a["error"] = "null")
  <2>1. CASE b["status"] = "ok"
    BY <1>1, <1>2, <2>1 DEF ErrorOK
  <2>2. CASE b["status"] # "ok"
    BY <1>1, <1>2, <1>5, <2>2 DEF ErrorOK
  <2> QED
    BY <2>1, <2>2
<1>7. a["controller_ts"] \in Num \cup {"null", Absent}
  BY <1>1, <1>2
<1>8. AnswerFor(l, a)
  BY <1>1, <1>2, <1>3, <1>4, <1>6, <1>7 DEF AnswerFor, AddressedOK
<1> QED
  BY <1>8 DEF a

\* The client can read an answer unless its number is too large.
LEMMA AnswerRead ==
  ASSUME NEW l, NEW a, AnswerFor(l, a)
  PROVE  Validate(a) = OK <=> a["seq"] # "huge"
<1>1. "huge" \notin Uint /\ "controller" \in Str
  BY DEF Uint, Str
<1>2. ResponseOK(a) <=> a["seq"] # "huge"
  BY <1>1 DEF AnswerFor, ResponseOK, AddressedOK
<1>3. a["type"] = "response"
  BY DEF AnswerFor
<1> QED
  BY <1>2, <1>3, MessageCheck
-----------------------------------------------------------------------------
(* The exchange, with any lines *)

WideNext ==
  \/ \E l : IsLine(l) /\ (RegistrationFails(l) \/ RegisterBoard(l))
  \/ BoardDown
  \/ \E l : IsLine(l) /\ HandleLine(l)
  \/ \E l : IsLine(l) /\ (BoardResponds(l) \/ BoardEvent(l) \/ BoardLineEnds(l))
  \/ CommandTimeout
  \/ WriteAnswer

WideSpec == Init /\ [][WideNext]_vars

\* The gate, and what clients are shown of it, since the first registration.
GateInv ==
  /\ conn \in {"down", "registered", "faulted", "dead"}
  /\ gate \in Gates /\ shown \in Gates \cup {"unknown"} /\ said \in Bool \cup {Absent}
  /\ shown # "unknown" => gate = shown
  /\ shown = "unknown" => gate = "none"
  /\ gate = "open" => said = "false"
  /\ regs \in 0 .. MaxRegistrations

\* Only a valid command for the board is on its way to it.
RouteInv ==
  /\ IsLine(line) \/ line = NoMessage
  /\ DOMAIN toBoard = Fields
  /\ stage = "idle" => toBoard = NoMessage
  /\ stage = "routed" \/ toBoard # NoMessage =>
       /\ ParseError(line) = OK /\ line["type"] = "command" /\ line["target"] = "board"
       /\ CommandOK(line)
  /\ toBoard # NoMessage =>
       /\ Validate(toBoard) = OK /\ toBoard["seq"] = "board_seq" /\ toBoard["args"] = line["args"]

\* The answer answers the request, and was written if it can be read.
AnswerInv ==
  /\ stage \in {"idle", "routed", "answered", "read", "unread"}
  /\ DOMAIN answer = Fields /\ long \in BOOLEAN
  /\ answer = NoMessage \/ AnswerFor(line, answer)
  /\ stage = "idle" => answer = NoMessage
  /\ stage \in {"answered", "read"} => answer # NoMessage
  /\ stage = "read" => answer["seq"] # "huge"
  /\ stage = "unread" => ParseError(line) = Uncaught \/ answer["seq"] = "huge" \/ long
  /\ answer # NoMessage /\ SchemasSent => ~long

IInv == GateInv /\ RouteInv /\ AnswerInv /\ estop \in BOOLEAN /\ ack \in BOOLEAN

\* No message has every field.
LEMMA NoMessageDomain == DOMAIN NoMessage = Fields
  BY DEF NoMessage, Message

\* An answer to a request is a message.
LEMMA AnswerMessage ==
  ASSUME NEW l, NEW a, AnswerFor(l, a)
  PROVE  a # NoMessage
<1>1. NoMessage["type"] = Absent
  BY DEF NoMessage, Message, Fields
<1> QED
  BY <1>1 DEF AnswerFor, Absent

\* At the start nothing is registered, routed or answered.
LEMMA InitIInv == Init => IInv
<1> SUFFICES ASSUME Init PROVE IInv
  OBVIOUS
<1>1. GateInv
  BY RegistrationsAssumption DEF Init, GateInv, Gates
<1>2. RouteInv
  BY NoMessageDomain DEF Init, RouteInv
<1>3. AnswerInv
  BY NoMessageDomain DEF Init, AnswerInv
<1> QED
  BY <1>1, <1>2, <1>3 DEF Init, IInv

\* The steps of a turn of _handle_client's loop.
LEMMA HandleCases ==
  ASSUME NEW l, HandleLine(l)
  PROVE  /\ stage = "idle" /\ line' = l /\ UNCHANGED boardVars
         /\ \/ ParseError(l) = Uncaught /\ HandlerDies
            \/ ParseError(l) \notin {OK, Uncaught} /\ Answer(l, ParseError(l))
            \/ ParseError(l) = OK /\ l["type"] = "estop_reset" /\ ResetEstop(l)
            \/ ParseError(l) = OK /\ Answer(l, "UNKNOWN_COMMAND")
            \/ ParseError(l) = OK /\ l["type"] = "command" /\ GetSchemas(l)
            \/ ParseError(l) = OK /\ l["type"] = "command" /\ RouteCommand(l)
<1>0. Uncaught # OK
  BY DEF Uncaught, OK
<1>6. CASE ParseError(l) = Uncaught
  BY <1>0, <1>6 DEF HandleLine
<1>1. CASE ParseError(l) \notin {OK, Uncaught}
  BY <1>1 DEF HandleLine
<1>2. CASE ParseError(l) = OK /\ l["type"] = "estop_reset"
  BY <1>0, <1>2 DEF HandleLine
<1>3. CASE ParseError(l) = OK /\ l["type"] \notin {"command", "estop_reset"}
  BY <1>0, <1>3 DEF HandleLine
<1>4. CASE ParseError(l) = OK /\ l["type"] = "command" /\ l["target"] = "controller"
  BY <1>0, <1>4 DEF HandleLine
<1>5. CASE ParseError(l) = OK /\ l["type"] = "command" /\ l["target"] # "controller"
  BY <1>0, <1>5 DEF HandleLine
<1> QED
  BY <1>1, <1>2, <1>3, <1>4, <1>5, <1>6

\* _handle_get_schemas answers, with an error or with the schemas.
LEMMA SchemaCases ==
  ASSUME NEW l, GetSchemas(l)
  PROVE  \/ \E code \in ErrorCodes : Answer(l, code)
         \/ /\ stage' = "answered" /\ answer' = BuildOkResponse(l) /\ long' = FALSE
            /\ UNCHANGED <<estop, toBoard>>
  BY DEF GetSchemas, ErrorCodes

\* The refusals of route_command.
LEMMA RejectCases ==
  /\ \A m : RejectCode(m) # OK => RejectCode(m) \in ErrorCodes
  /\ \A m : RejectCode(m) = OK => /\ m["target"] = "board" /\ gate # "none"
                                  /\ ~(estop /\ gate = "blocked")
<1> SUFFICES ASSUME NEW m
             PROVE  /\ RejectCode(m) # OK => RejectCode(m) \in ErrorCodes
                    /\ RejectCode(m) = OK => /\ m["target"] = "board" /\ gate # "none"
                                             /\ ~(estop /\ gate = "blocked")
  OBVIOUS
<1> QED
  BY DEF RejectCode, ErrorCodes, OK
\* An answer that is handed to the client's queue.
LEMMA AnswerStep ==
  ASSUME IInv, DOMAIN toBoard' = Fields, GateInv', ack' \in BOOLEAN, estop' \in BOOLEAN,
         stage' = "answered", AnswerFor(line', answer'), IsLine(line'),
         long' \in BOOLEAN, SchemasSent' => ~long',
         toBoard' # NoMessage =>
           /\ ParseError(line') = OK /\ line'["type"] = "command" /\ line'["target"] = "board"
           /\ CommandOK(line')
           /\ Validate(toBoard') = OK /\ toBoard'["seq"] = "board_seq"
           /\ toBoard'["args"] = line'["args"]
  PROVE  IInv'
<1>1. RouteInv'
  BY DEF RouteInv
<1>2. answer' # NoMessage
  BY AnswerMessage
<1>3. AnswerInv'
  BY <1>2 DEF AnswerInv, AnswerFor
<1> QED
  BY <1>1, <1>3 DEF IInv

\* _handle_client.
LEMMA HandleStep ==
  ASSUME IInv, NEW l, IsLine(l), HandleLine(l)
  PROVE  IInv'
<1>1. /\ stage = "idle" /\ line' = l /\ UNCHANGED boardVars
      /\ \/ ParseError(l) = Uncaught /\ HandlerDies
         \/ ParseError(l) \notin {OK, Uncaught} /\ Answer(l, ParseError(l))
         \/ ParseError(l) = OK /\ l["type"] = "estop_reset" /\ ResetEstop(l)
         \/ ParseError(l) = OK /\ Answer(l, "UNKNOWN_COMMAND")
         \/ ParseError(l) = OK /\ l["type"] = "command" /\ GetSchemas(l)
         \/ ParseError(l) = OK /\ l["type"] = "command" /\ RouteCommand(l)
  BY HandleCases
<1>2. /\ toBoard = NoMessage /\ DOMAIN toBoard = Fields /\ estop \in BOOLEAN
      /\ answer = NoMessage
  BY <1>1 DEF IInv, RouteInv, AnswerInv
<1>g. GateInv' /\ ack' \in BOOLEAN
  BY <1>1 DEF IInv, GateInv, boardVars
<1>3. ASSUME NEW code \in ErrorCodes, Answer(l, code)
      PROVE  IInv'
  <2>1. /\ stage' = "answered" /\ long' \in BOOLEAN /\ UNCHANGED <<estop, toBoard>>
        /\ answer' = BuildErrorResponse(ResponseSeq(l), ResponseTarget(l), code)
    BY <1>3 DEF Answer
  <2>2. AnswerFor(line', answer')
    BY <1>1, <2>1, ErrorAnswer
  <2>3. ~SchemasSent'
    BY <2>1, ErrorStatus DEF SchemasSent
  <2> QED
    BY <1>1, <1>2, <1>g, <2>1, <2>2, <2>3, AnswerStep
<1>4. ASSUME AddressedOK(l), stage' = "answered", answer' = BuildOkResponse(l),
             estop' \in BOOLEAN, toBoard' = toBoard,
             long' \in BOOLEAN, l["type"] = "command" => ~long'
      PROVE  IInv'
  <2>1. AnswerFor(line', answer')
    BY <1>1, <1>4, OkAnswer
  <2>2. SchemasSent' => ~long'
    BY <1>1, <1>4 DEF SchemasSent
  <2> QED
    BY <1>1, <1>2, <1>g, <1>4, <2>1, <2>2, AnswerStep
<1>5. /\ "UNKNOWN_COMMAND" \in ErrorCodes /\ "ESTOP_ACTIVE" \in ErrorCodes
      /\ "UNKNOWN_TARGET" \in ErrorCodes
  BY DEF ErrorCodes
<1>6. ParseError(l) = OK /\ l["type"] = "estop_reset" => AddressedOK(l)
  BY ParseCheck, MessageCheck
<1>7. ParseError(l) = OK /\ l["type"] = "command" => CommandOK(l) /\ AddressedOK(l)
  BY ParseCheck, MessageCheck DEF CommandOK
<1>13. CASE ParseError(l) = Uncaught /\ HandlerDies
  <2>1. stage' = "unread" /\ UNCHANGED <<estop, toBoard, answer, long>>
    BY <1>13 DEF HandlerDies
  <2>2. RouteInv'
    BY <1>1, <1>2, <2>1 DEF RouteInv
  <2>3. AnswerInv'
    BY <1>1, <1>2, <1>13, <2>1 DEF IInv, AnswerInv
  <2> QED
    BY <1>2, <1>g, <2>1, <2>2, <2>3 DEF IInv
<1>8. CASE ParseError(l) \notin {OK, Uncaught} /\ Answer(l, ParseError(l))
  BY <1>3, <1>8, ParseCheck
<1>9. CASE ParseError(l) = OK /\ l["type"] = "estop_reset" /\ ResetEstop(l)
  <2>1. \/ Answer(l, "UNKNOWN_TARGET") \/ Answer(l, "ESTOP_ACTIVE") \/ Released(l)
    BY <1>9 DEF ResetEstop
  <2>2. CASE Released(l)
    <3>1. /\ stage' = "answered" /\ answer' = BuildOkResponse(l) /\ toBoard' = toBoard
          /\ estop' \in BOOLEAN /\ long' \in BOOLEAN
      BY <2>2 DEF Released
    <3> QED
      BY <1>4, <1>6, <1>9, <3>1
  <2> QED
    BY <1>3, <1>5, <2>1, <2>2
<1>10. CASE ParseError(l) = OK /\ Answer(l, "UNKNOWN_COMMAND")
  BY <1>3, <1>5, <1>10
<1>11. CASE ParseError(l) = OK /\ l["type"] = "command" /\ GetSchemas(l)
  <2>1. CASE \E code \in ErrorCodes : Answer(l, code)
    BY <1>3, <2>1
  <2>2. CASE /\ stage' = "answered" /\ answer' = BuildOkResponse(l) /\ long' = FALSE
             /\ UNCHANGED <<estop, toBoard>>
    BY <1>2, <1>4, <1>7, <1>11, <2>2
  <2> QED
    BY <1>11, <2>1, <2>2, SchemaCases
<1>12. CASE ParseError(l) = OK /\ l["type"] = "command" /\ RouteCommand(l)
  <2>1. CASE RejectCode(l) # OK /\ Answer(l, RejectCode(l))
    BY <1>3, <2>1, RejectCases
  <2>2. CASE /\ RejectCode(l) = OK /\ stage' = "routed" /\ toBoard' = BuildBoardCommand(l)
             /\ UNCHANGED <<estop, answer, long>>
    <3>1. /\ DOMAIN toBoard' = Fields /\ toBoard'["type"] = "command" /\ CommandOK(toBoard')
          /\ toBoard'["seq"] = "board_seq" /\ toBoard'["args"] = l["args"]
      BY <1>7, <1>12, <2>2, BoardCommand
    <3>2. Validate(toBoard') = OK
      BY <3>1, MessageCheck
    <3>3. l["target"] = "board"
      BY <2>2, RejectCases
    <3>4. RouteInv'
      BY <1>1, <1>7, <1>12, <2>2, <3>1, <3>2, <3>3 DEF RouteInv
    <3>5. AnswerInv'
      BY <1>2, <2>2 DEF IInv, AnswerInv
    <3> QED
      BY <1>2, <1>g, <2>2, <3>4, <3>5 DEF IInv
  <2> QED
    BY <1>12, <2>1, <2>2 DEF RouteCommand
<1> QED
  BY <1>1, <1>8, <1>9, <1>10, <1>11, <1>12, <1>13

\* register_board: the gate is what clients are shown, and open only if the
\* schema says so.
LEMMA RegisterStep ==
  ASSUME GateInv, NEW l, RegisterBoard(l)
  PROVE  GateInv'
<1>1. l["type"] = "schema" /\ Validate(l) = OK
  BY ParseCheck DEF RegisterBoard, Refused
<1>2. GateOf(l) = Effective(l) /\ Effective(l) \in Gates
  <2>1. l["commands"] \in Obj /\ l["meta"] \in Obj => l["blocked"] \in {"true", "false", Absent}
    BY <1>1, MessageCheck DEF Bool
  <2> QED
    BY <2>1 DEF GateOf, Effective, BlockedByEstop, Gates, Absent
<1>3. Effective(l) = "open" => l["blocked"] = "false"
  <2>1. Effective(l) = "open" => l["commands"] \in Obj /\ l["meta"] \in Obj
                                 /\ l["blocked"] \notin {Absent, "true"}
    BY DEF Effective
  <2> QED
    BY <1>1, <2>1, MessageCheck DEF Bool
<1>4. Effective(l) # "none" => l["blocked"] \in Bool \cup {Absent}
  <2>1. Effective(l) # "none" => l["commands"] \in Obj /\ l["meta"] \in Obj
    BY DEF Effective
  <2> QED
    BY <1>1, <2>1, MessageCheck
<1>5. /\ conn' = "registered" /\ regs' = regs + 1 /\ regs < MaxRegistrations
      /\ gate' = GateOf(l) /\ shown' = Effective(l)
      /\ said' = (IF Effective(l) # "none" THEN l["blocked"] ELSE Absent)
  BY DEF RegisterBoard, Connecting
<1>6. regs' \in 0 .. MaxRegistrations
  BY <1>5, RegistrationsAssumption DEF GateInv
<1>7. "unknown" \notin Gates
  BY DEF Gates
<1>8. said' \in Bool \cup {Absent} /\ (gate' = "open" => said' = "false")
  BY <1>2, <1>3, <1>4, <1>5
<1> QED
  BY <1>2, <1>5, <1>6, <1>7, <1>8 DEF GateInv

\* A request that is on its way to the board is a line for the board.
LEMMA RoutedLine ==
  ASSUME IInv, stage = "routed"
  PROVE  IsLine(line) /\ line["target"] = "board"
<1>1. ParseError(line) = OK /\ line["target"] = "board"
  BY DEF IInv, RouteInv
<1>2. line # NoMessage
  BY <1>1, ParseCheck DEF NoMessage, Message, IsMessage, Fields, Absent
<1> QED
  BY <1>1, <1>2 DEF IInv, RouteInv

\* Every step keeps the invariant.
LEMMA NextIInv == IInv /\ [WideNext]_vars => IInv'
<1> SUFFICES ASSUME IInv, [WideNext]_vars PROVE IInv'
  OBVIOUS
<1>1. ASSUME GateInv', UNCHANGED <<stage, line, toBoard, answer, long>>, estop' \in BOOLEAN,
             ack' \in BOOLEAN
      PROVE  IInv'
  BY <1>1 DEF IInv, RouteInv, AnswerInv, SchemasSent
<1>2. ASSUME NEW l, RegistrationFails(l)
      PROVE  IInv'
  <2>1. GateInv'
    BY <1>2, RegistrationsAssumption DEF RegistrationFails, Connecting, AfterLine, IInv, GateInv
  <2> QED
    BY <1>1, <1>2, <2>1 DEF RegistrationFails, IInv
<1>3. ASSUME NEW l, RegisterBoard(l)
      PROVE  IInv'
  <2>1. GateInv'
    BY <1>3, RegisterStep DEF IInv
  <2>2. UNCHANGED <<stage, line, toBoard, answer, long, estop>> /\ ack' \in BOOLEAN
    BY <1>3 DEF RegisterBoard, IInv
  <2> QED
    BY <1>1, <2>1, <2>2 DEF IInv
<1>4. CASE BoardDown
  <2>1. GateInv'
    BY <1>4 DEF BoardDown, IInv, GateInv
  <2> QED
    BY <1>1, <1>4, <2>1 DEF BoardDown, IInv
<1>5. ASSUME NEW l, BoardResponds(l)
      PROVE  IInv'
  <2>1. /\ stage' = "answered" /\ answer' = BuildClientResponse(l, line) /\ long' \in BOOLEAN
        /\ UNCHANGED <<boardVars, estop, line, toBoard>> /\ stage = "routed"
        /\ ParseError(l) = OK /\ l["type"] = "response"
    BY <1>5 DEF BoardResponds, Matches
  <2>2. ResponseOK(l)
    BY <2>1, ParseCheck, MessageCheck
  <2>3. AddressedOK(line) /\ CommandOK(line)
    BY <2>1 DEF IInv, RouteInv, CommandOK
  <2>4. AnswerFor(line', answer')
    BY <2>1, <2>2, <2>3, ClientAnswer
  <2>5. IsLine(line)
    BY <2>1, RoutedLine
  <2>6. GateInv' /\ ack' \in BOOLEAN /\ ~SchemasSent'
    BY <2>1, RoutedLine DEF IInv, GateInv, boardVars, SchemasSent
  <2> QED
    BY <2>1, <2>4, <2>5, <2>6, AnswerStep DEF IInv, RouteInv
<1>6. ASSUME NEW l, BoardEvent(l)
      PROVE  IInv'
  <2>1. GateInv'
    BY <1>6 DEF BoardEvent, IInv, GateInv
  <2>2. UNCHANGED <<stage, line, toBoard, answer, long>> /\ estop' \in BOOLEAN /\ ack' \in BOOLEAN
    BY <1>6 DEF BoardEvent, IInv
  <2> QED
    BY <1>1, <2>1, <2>2
<1>e. ASSUME NEW code \in ErrorCodes, stage = "routed", Answer(line, code), line' = line,
             GateInv', ack' \in BOOLEAN
      PROVE  IInv'
  <2>1. /\ stage' = "answered" /\ long' \in BOOLEAN /\ UNCHANGED <<estop, toBoard>>
        /\ answer' = BuildErrorResponse(ResponseSeq(line), ResponseTarget(line), code)
    BY <1>e DEF Answer
  <2>2. IsLine(line)
    BY <1>e, RoutedLine
  <2>3. AnswerFor(line', answer')
    BY <1>e, <2>1, <2>2, ErrorAnswer
  <2>4. ~SchemasSent'
    BY <2>1, ErrorStatus DEF SchemasSent
  <2> QED
    BY <1>e, <2>1, <2>2, <2>3, <2>4, AnswerStep DEF IInv, RouteInv
<1>7. CASE CommandTimeout
  <2>1. GateInv' /\ ack' \in BOOLEAN /\ "COMMAND_TIMEOUT" \in ErrorCodes
    BY <1>7 DEF CommandTimeout, boardVars, IInv, GateInv, ErrorCodes
  <2> QED
    BY <1>7, <1>e, <2>1 DEF CommandTimeout
<1>10. ASSUME NEW l, BoardLineEnds(l)
      PROVE  IInv'
  <2>1. GateInv' /\ ack' \in BOOLEAN /\ "BOARD_UNAVAILABLE" \in ErrorCodes
    BY <1>10 DEF BoardLineEnds, AfterLine, IInv, GateInv, ErrorCodes
  <2> QED
    BY <1>10, <1>e, <2>1 DEF BoardLineEnds
<1>8. CASE WriteAnswer
  <2>1. /\ stage = "answered" /\ UNCHANGED <<boardVars, estop, line, toBoard, answer, long>>
        /\ stage' = IF Validate(answer) = OK /\ ~long THEN "read" ELSE "unread"
    BY <1>8 DEF WriteAnswer
  <2>2. answer # NoMessage /\ AnswerFor(line, answer)
    BY <2>1 DEF IInv, AnswerInv
  <2>3. Validate(answer) = OK <=> answer["seq"] # "huge"
    BY <2>2, AnswerRead
  <2>4. AnswerInv'
    <3>1. SchemasSent' => SchemasSent
      BY <2>1 DEF SchemasSent
    <3> QED
      BY <2>1, <2>2, <2>3, <3>1 DEF IInv, AnswerInv
  <2>5. GateInv' /\ RouteInv'
    BY <2>1 DEF IInv, GateInv, RouteInv, boardVars
  <2> QED
    BY <2>1, <2>4, <2>5 DEF IInv, boardVars
<1>9. CASE UNCHANGED vars
  BY <1>9 DEF vars, IInv, GateInv, RouteInv, AnswerInv, SchemasSent
<1> QED
  BY <1>2, <1>3, <1>4, <1>5, <1>6, <1>7, <1>8, <1>9, <1>10, HandleStep DEF WideNext

\* What the invariant says of a line that is forwarded and of an answer.
LEMMA InvProperties == IInv => ForwardedValid /\ AnswerSound /\ GateShown
<1> SUFFICES ASSUME IInv PROVE ForwardedValid /\ AnswerSound /\ GateShown
  OBVIOUS
<1>1. TypeOK
  <2>1. DOMAIN line = Fields
    BY NoMessageDomain DEF IInv, RouteInv, IsLine
  <2> QED
    BY <2>1 DEF TypeOK, IInv, GateInv, RouteInv, AnswerInv
<1>2. ForwardedValid
  BY <1>1 DEF ForwardedValid, IInv, RouteInv
<1>3. ASSUME answer # NoMessage
      PROVE  AnswerMatches /\ StatusHonest
  <2>1. AnswerFor(line, answer)
    BY <1>3 DEF IInv, AnswerInv
  <2>2. AnswerMatches
    BY <2>1 DEF AnswerFor, AnswerMatches
  <2>3. "null" \notin Obj
    BY DEF Obj, ArgsObj
  <2>4. StatusHonest
    BY <2>1, <2>3 DEF AnswerFor, StatusHonest, ErrorOK
  <2> QED
    BY <2>2, <2>4
<1>5. AnswerReadable
  <2>1. NoMessage["seq"] = Absent /\ NoMessage["status"] = Absent
    BY DEF NoMessage, Message, Fields
  <2>2. answer["seq"] = "huge" => line["seq"] = "huge"
    BY <2>1 DEF IInv, AnswerInv, AnswerFor, Absent
  <2>3. stage = "read" => answer # NoMessage /\ line["seq"] # "huge"
    BY DEF IInv, AnswerInv, AnswerFor
  <2>4. long => ~SchemasSent
    BY <2>1 DEF IInv, AnswerInv, SchemasSent, Absent
  <2> QED
    BY <2>2, <2>3, <2>4 DEF AnswerReadable, IInv, AnswerInv
<1>4. GateShown
  BY DEF IInv, GateInv, GateShown
<1> QED
  BY <1>2, <1>3, <1>4, <1>5 DEF AnswerSound

\* The inductive invariant holds whatever clients and boards send.
THEOREM Invariance == WideSpec => []IInv
  BY InitIInv, NextIInv, PTL DEF WideSpec

\* Whatever lines are sent, only a valid command for the board reaches it, as a
\* valid command under the controller's own number.
THEOREM ForwardedAlwaysValid == WideSpec => []ForwardedValid
  BY Invariance, InvProperties, PTL

\* Whatever lines clients and boards send, a client's answer goes back to it
\* under its own number and tells the truth, and it can be read but for a number
\* that is too large, a line json.loads gives up on and an answer over the limit.
THEOREM AnswerAlwaysSound == WideSpec => []AnswerSound
  BY Invariance, InvProperties, PTL

\* Whatever schemas a board announces, clients see the gate that is applied, and
\* it is open only if the schema says so.
THEOREM GateAlwaysShown == WideSpec => []GateShown
  BY Invariance, InvProperties, PTL

\* Whatever lines are sent while an e-stop is latched, no command starts on its
\* way to the board that its schema does not open, and only a valid estop_reset
\* for the controller releases the latch.
THEOREM EstopAlwaysHolds == WideSpec => EstopHolds
<1> DEFINE Holds == /\ stage = "idle" /\ stage' = "routed" => ~estop \/ said = "false"
                    /\ estop /\ ~estop' =>
                         /\ ParseError(line') = OK
                         /\ line'["type"] = "estop_reset" /\ line'["target"] = "controller"
<1>1. IInv /\ [WideNext]_vars => [Holds]_vars
  <2> SUFFICES ASSUME IInv, WideNext PROVE Holds
    OBVIOUS
  <2>1. ASSUME NEW l, HandleLine(l)
        PROVE  Holds
    <3>1. /\ line' = l
          /\ \/ ParseError(l) = Uncaught /\ HandlerDies
             \/ ParseError(l) \notin {OK, Uncaught} /\ Answer(l, ParseError(l))
             \/ ParseError(l) = OK /\ l["type"] = "estop_reset" /\ ResetEstop(l)
             \/ ParseError(l) = OK /\ Answer(l, "UNKNOWN_COMMAND")
             \/ ParseError(l) = OK /\ l["type"] = "command" /\ GetSchemas(l)
             \/ ParseError(l) = OK /\ l["type"] = "command" /\ RouteCommand(l)
      BY <2>1, HandleCases
    <3>2. ASSUME NEW code, Answer(l, code) PROVE Holds
      BY <3>2 DEF Answer
    <3>6. CASE HandlerDies
      BY <3>6 DEF HandlerDies
    <3>3. CASE ParseError(l) = OK /\ l["type"] = "estop_reset" /\ ResetEstop(l)
      <4>1. CASE l["target"] = "controller" /\ Released(l)
        BY <3>1, <3>3, <4>1 DEF Released
      <4> QED
        BY <3>2, <3>3, <4>1 DEF ResetEstop
    <3>4. CASE GetSchemas(l)
      <4>1. CASE stage' = "answered" /\ UNCHANGED estop
        BY <4>1
      <4> QED
        BY <3>2, <3>4, <4>1, SchemaCases
    <3>5. CASE RouteCommand(l)
      <4>1. CASE RejectCode(l) = OK /\ UNCHANGED estop
        <5>1. gate \in {"blocked", "open", "none"} /\ (gate = "open" => said = "false")
          BY DEF IInv, GateInv, Gates
        <5> QED
          BY <4>1, <5>1, RejectCases
      <4> QED
        BY <3>2, <3>5, <4>1 DEF RouteCommand
    <3> QED
      BY <3>1, <3>2, <3>3, <3>4, <3>5, <3>6
  <2>2. CASE ~\E l : HandleLine(l)
    <3>1. ~(stage = "idle" /\ stage' = "routed")
      BY <2>2 DEF WideNext, RegistrationFails, RegisterBoard, BoardDown, BoardResponds, BoardEvent,
           BoardLineEnds, CommandTimeout, WriteAnswer, Answer
    <3>2. estop => estop'
      BY <2>2 DEF WideNext, RegistrationFails, RegisterBoard, BoardDown, BoardResponds, BoardEvent,
           BoardLineEnds, CommandTimeout, WriteAnswer, Answer
    <3> QED
      BY <3>1, <3>2
  <2> QED
    BY <2>1, <2>2
<1> QED
  BY <1>1, Invariance, PTL DEF WideSpec, EstopHolds
-----------------------------------------------------------------------------
(* The lines of the model are lines *)

\* Fields that are given change nothing about a message being one.
LEMMA GoodMessage ==
  ASSUME NEW fs, "raw" \notin DOMAIN fs
  PROVE  Message(fs)["raw"] = Absent /\ DOMAIN Message(fs) = Fields
  BY DEF Message, Fields

\* A variant of a message is a message.
LEMMA VariantLine ==
  ASSUME NEW m, m["raw"] = Absent, NEW F, "raw" \notin F, NEW l \in Variants(m, F)
  PROVE  IsLine(l)
<1>1. PICK f \in F, g \in F : \E v \in Shapes(f), w \in Shapes(g) :
        l = [x \in Fields |-> CASE x = f -> v [] x = g -> w [] OTHER -> m[x]]
  BY DEF Variants
<1>2. PICK v \in Shapes(f), w \in Shapes(g) :
        l = [x \in Fields |-> CASE x = f -> v [] x = g -> w [] OTHER -> m[x]]
  BY <1>1
<1>3. "raw" \in Fields
  BY DEF Fields
<1>4. "raw" # f /\ "raw" # g
  OBVIOUS
<1>5. l["raw"] = m["raw"]
  BY <1>2, <1>3, <1>4
<1>6. DOMAIN l = Fields
  BY <1>2
<1> QED
  BY <1>5, <1>6 DEF IsLine, IsMessage

\* None of the messages the variants are made of is raw.
LEMMA GoodRaw ==
  /\ "raw" \notin DOMAIN Good.command /\ "raw" \notin DOMAIN Good.estop_reset
  /\ "raw" \notin DOMAIN Good.heartbeat /\ "raw" \notin DOMAIN Good.event
  /\ "raw" \notin DOMAIN Good.telemetry /\ "raw" \notin DOMAIN Good.response
  /\ "raw" \notin DOMAIN Good.schema /\ "raw" \notin DOMAIN Failure
  BY DEF Good, Failure

\* The lines that the model enumerates are lines.
LEMMA ModelLines ==
  ASSUME NEW l \in ClientLines \cup BoardLines \cup SchemaLines
  PROVE  IsLine(l)
<1>1. CASE l \in BadLines
  BY <1>1, BadLine DEF IsLine
<1>2. "raw" \notin Common /\ "raw" \in Fields
  BY DEF Common, Fields
<1>3. \A m, F : m["raw"] = Absent /\ "raw" \notin F /\ l \in Variants(m, F) => IsLine(l)
  BY VariantLine
<1>4. CASE l \in ClientLines \ BadLines
  <2>1. \A t \in {"heartbeat", "event", "telemetry"} : Message(Good[t])["raw"] = Absent
    <3>1. Good["heartbeat"] = Good.heartbeat /\ Good["event"] = Good.event
          /\ Good["telemetry"] = Good.telemetry
      OBVIOUS
    <3> QED
      BY <3>1, GoodRaw, GoodMessage
  <2>2. /\ Message(Good.command)["raw"] = Absent /\ Message(Good.estop_reset)["raw"] = Absent
        /\ Message([Good.command EXCEPT !.target = "controller", !.command = "get_schemas"])["raw"]
             = Absent
    BY GoodRaw, GoodMessage
  <2>3. \/ l \in Variants(Message(Good.command), Common \cup {"command", "args", "controller_ts"})
        \/ l \in Variants(Message([Good.command EXCEPT !.target = "controller",
                                                        !.command = "get_schemas"]),
                          {"seq", "args"})
        \/ l \in Variants(Message(Good.estop_reset), Common)
        \/ \E t \in {"heartbeat", "event", "telemetry"} :
             l \in Variants(Message(Good[t]), {"seq", "source"})
    BY <1>4, Zenon DEF ClientLines
  <2> QED
    BY <1>2, <1>3, <2>1, <2>2, <2>3
<1>5. CASE l \in BoardLines \ BadLines
  <2>1. /\ Message(Good.response)["raw"] = Absent /\ Message(Good.event)["raw"] = Absent
        /\ Message(Failure)["raw"] = Absent /\ DOMAIN Message(Failure) = Fields
    BY GoodRaw, GoodMessage
  <2>2. [Message(Failure) EXCEPT !["error.code"] = "INTERNAL_ERROR",
                                  !["error.message"] = "str"]["raw"] = Absent
    BY <1>2, <2>1
  <2>3. \/ l \in Variants(Message(Good.response),
                          Common \cup {"status", "result", "error", "controller_ts"})
        \/ l \in Variants([Message(Failure) EXCEPT !["error.code"] = "INTERNAL_ERROR",
                                                    !["error.message"] = "str"],
                          {"status", "error", "error.code", "error.message", "result"})
        \/ l \in Variants(Message(Good.event),
                          {"type", "source", "event", "event_id", "details", "state"})
    BY <1>5, Zenon DEF BoardLines
  <2> QED
    BY <1>2, <1>3, <2>1, <2>2, <2>3
<1>6. CASE l \in SchemaLines \ BadLines
  <2>1. Message(Good.schema)["raw"] = Absent /\ DOMAIN Message(Good.schema) = Fields
    BY GoodRaw, GoodMessage
  <2>2. [Message(Good.schema) EXCEPT !["meta.args"] = "obj"]["raw"] = Absent
    BY <1>2, <2>1
  <2>3. l \in Variants([Message(Good.schema) EXCEPT !["meta.args"] = "obj"],
                       Common \cup {"protocol_version", "schema", "commands", "meta", "meta.args",
                                    "blocked"})
    BY <1>6, Zenon DEF SchemaLines
  <2> QED
    BY <1>2, <1>3, <2>2, <2>3
<1> QED
  BY <1>1, <1>4, <1>5, <1>6

\* What the model's peers send is some of what peers can send: everything proved
\* of the exchange with any lines holds for the model that is checked.
THEOREM ModelIsExchange == Spec => WideSpec
<1>1. [Next]_vars => [WideNext]_vars
  <2> SUFFICES ASSUME Next PROVE WideNext
    OBVIOUS
  <2> QED
    BY ModelLines DEF Next, WideNext
<1> QED
  BY <1>1, PTL DEF Spec, WideSpec
\* So the model's own exchange has all four properties.
THEOREM ModelSound ==
  Spec => /\ [](ForwardedValid /\ AnswerSound /\ GateShown)
          /\ EstopHolds
  BY ModelIsExchange, ForwardedAlwaysValid, AnswerAlwaysSound, GateAlwaysShown,
     EstopAlwaysHolds, PTL


=============================================================================
