----------------------- MODULE BoardConnection_proofs -----------------------
(***************************************************************************)
(* Invariants of BoardConnection, for any backoff and any bound on the     *)
(* heartbeats.  The heartbeat's account is proved from module Heartbeat    *)
(* alone, which a connection is then shown to implement.                   *)
(***************************************************************************)
EXTENDS BoardConnection, FiniteSetTheorems, TLAPS

-----------------------------------------------------------------------------
(* The heartbeat *)

\* The heartbeat that is open is the last one sent; later ones have no outcome.
\* A loop that writes or waits has sent one, and one that sleeps or whose event
\* is set has none open.
BeatInv ==
  /\ HeartbeatTypeOK
  /\ OneOpenBeat
  /\ openBeat \in {0, beat}
  /\ \A s \in Beats : s > beat => outcome[s] = "none"
  /\ loop \in {"write", "wait"} => beat > 0
  /\ loop \in {"none", "sleep"} \/ ackEvent => openBeat = 0

\* The misses that count are finitely many heartbeats.
LEMMA MissesFinite ==
  /\ IsFiniteSet(MissedSinceAck)
  /\ Cardinality(MissedSinceAck) \in 0 .. MaxBeats
<1>1. IsFiniteSet(Beats) /\ Cardinality(Beats) = MaxBeats
  BY FS_Interval, BeatsAssumption DEF Beats
<1>2. MissedSinceAck \subseteq Beats
  BY DEF MissedSinceAck
<1>3. /\ IsFiniteSet(MissedSinceAck)
      /\ Cardinality(MissedSinceAck) <= Cardinality(Beats)
  BY <1>1, <1>2, FS_Subset
<1>4. Cardinality(MissedSinceAck) \in Nat
  BY <1>3, FS_CardinalityType
<1> QED
  BY <1>1, <1>3, <1>4, BeatsAssumption

\* Every step of the heartbeat task, of the reader that passes on an
\* acknowledgement and of the connection that stops the task keeps the account.
LEMMA BeatStep ==
  ASSUME BeatInv, SuspectExact, [HeartbeatNext]_hbVars
  PROVE  BeatInv' /\ SuspectExact'
<1> USE BeatsAssumption, SuspectAssumption
<1>t. /\ missed \in Nat /\ beat \in Nat /\ openBeat \in 0 .. beat
      /\ MaxBeats \in Nat /\ SuspectAfter \in Nat
  BY DEF BeatInv, HeartbeatTypeOK
<1>0. ASSUME UNCHANGED <<beat, openBeat, missed, suspect, outcome>>,
             loop' \in {"none", "sleep", "wait", "ended"},
             loop' = "wait" => loop = "write" \/ loop = "wait",
             loop' \in {"none", "sleep"} => openBeat = 0,
             UNCHANGED ackEvent
      PROVE  BeatInv' /\ SuspectExact'
  BY <1>0 DEF BeatInv, HeartbeatTypeOK, OneOpenBeat, SuspectExact, MissedSinceAck, Beats
<1>1. CASE UNCHANGED hbVars
  BY <1>1 DEF hbVars, BeatInv, HeartbeatTypeOK, OneOpenBeat, SuspectExact, MissedSinceAck, Beats
<1>2. CASE StartHeartbeat \/ BeatWritten \/ LoopEnds \/ AckSeen
  BY <1>2, <1>0 DEF StartHeartbeat, BeatWritten, LoopEnds, AckSeen, BeatInv, HeartbeatTypeOK
<1>3. CASE Beat
  <2>1. BeatInv'
    <3>1. HeartbeatTypeOK'
      <4>1. /\ loop' \in {"none", "sleep", "write", "wait", "ended"}
            /\ ackEvent' \in BOOLEAN /\ suspect' \in BOOLEAN
        BY <1>3 DEF Beat, BeatInv, HeartbeatTypeOK
      <4>2. beat' \in 0 .. MaxBeats /\ openBeat' \in 0 .. beat' /\ missed' \in 0 .. MaxBeats
        BY <1>3, <1>t DEF Beat, BeatInv, HeartbeatTypeOK
      <4>3. outcome' \in [Beats -> {"none", "sent", "acked", "missed", "dropped"}]
        BY <1>3 DEF Beat, BeatInv, HeartbeatTypeOK
      <4> QED
        BY <4>1, <4>2, <4>3 DEF HeartbeatTypeOK
    <3>2. OneOpenBeat'
      BY <1>3, <1>t DEF Beat, BeatInv, HeartbeatTypeOK, OneOpenBeat, Beats
    <3>3. \A s \in Beats : s > beat' => outcome'[s] = "none"
      BY <1>3, <1>t DEF Beat, BeatInv, HeartbeatTypeOK, Beats
    <3> QED
      BY <3>1, <3>2, <3>3, <1>3, <1>t DEF Beat, BeatInv
  <2>2. MissedSinceAck' = MissedSinceAck
    BY <1>3, <1>t DEF Beat, BeatInv, HeartbeatTypeOK, MissedSinceAck, Beats
  <2> QED
    BY <2>1, <2>2, <1>3 DEF Beat, SuspectExact
<1>4. CASE AckTimeout
  <2>1. CASE ~MissCounts
    BY <2>1, <1>4, <1>0 DEF AckTimeout, MissCounts, BeatInv, HeartbeatTypeOK
  <2>2. CASE MissCounts
    <3>1. beat \in Beats /\ outcome[beat] = "sent" /\ beat \notin MissedSinceAck
      BY <2>2, <1>4, <1>t DEF AckTimeout, MissCounts, BeatInv, HeartbeatTypeOK,
           OneOpenBeat, MissedSinceAck, Beats
    <3>2. MissedSinceAck' = MissedSinceAck \cup {beat}
      BY <3>1, <2>2, <1>4, <1>t DEF AckTimeout, BeatInv, HeartbeatTypeOK,
           MissedSinceAck, Beats
    <3>3. Cardinality(MissedSinceAck') = Cardinality(MissedSinceAck) + 1
      BY <3>1, <3>2, MissesFinite, FS_AddElement
    <3>4. Cardinality(MissedSinceAck') \in 0 .. MaxBeats
      <4>1. /\ IsFiniteSet(Beats) /\ Cardinality(Beats) = MaxBeats
        BY FS_Interval DEF Beats
      <4>2. MissedSinceAck' \subseteq Beats
        BY <3>1, <3>2 DEF MissedSinceAck
      <4>3. /\ IsFiniteSet(MissedSinceAck')
            /\ Cardinality(MissedSinceAck') <= Cardinality(Beats)
        BY <4>1, <4>2, FS_Subset
      <4> QED
        BY <4>1, <4>3, FS_CardinalityType
    <3>5. missed' = Cardinality(MissedSinceAck') /\ missed' = missed + 1
      BY <3>3, <1>4, <2>2 DEF AckTimeout, MissCounts, MarkMissed, SuspectExact
    <3>6. suspect' \in BOOLEAN /\ (suspect' <=> missed' >= SuspectAfter)
      <4>1. suspect' = (suspect \/ missed + 1 >= SuspectAfter) /\ missed' = missed + 1
        BY <1>4, <2>2 DEF AckTimeout, MissCounts, MarkMissed
      <4>2. suspect' \in BOOLEAN /\ (suspect' <=> suspect \/ missed' >= SuspectAfter)
        BY <4>1, Zenon
      <4>3. suspect => missed >= SuspectAfter
        BY DEF SuspectExact
      <4>4. missed >= SuspectAfter => missed' >= SuspectAfter
        BY <4>1, <1>t
      <4> QED
        BY <4>2, <4>3, <4>4, Zenon
    <3>7. BeatInv'
      BY <3>1, <3>4, <3>5, <3>6, <1>4, <2>2, <1>t DEF AckTimeout, MissCounts, BeatInv,
           HeartbeatTypeOK, OneOpenBeat, Beats
    <3> QED
      BY <3>5, <3>6, <3>7 DEF SuspectExact
  <2> QED
    BY <2>1, <2>2
<1>5. ASSUME NEW s \in Beats, HeartbeatAck(s)
      PROVE  BeatInv' /\ SuspectExact'
  <2>1. BeatInv'
    <3>1. HeartbeatTypeOK'
      <4>1. /\ loop' \in {"none", "sleep", "write", "wait", "ended"}
            /\ ackEvent' \in BOOLEAN /\ suspect' \in BOOLEAN
        BY <1>5 DEF HeartbeatAck, MarkAck, BeatInv, HeartbeatTypeOK
      <4>2. beat' \in 0 .. MaxBeats /\ openBeat' \in 0 .. beat' /\ missed' \in 0 .. MaxBeats
        BY <1>5, <1>t DEF HeartbeatAck, MarkAck, BeatInv, HeartbeatTypeOK
      <4>3. outcome' \in [Beats -> {"none", "sent", "acked", "missed", "dropped"}]
        BY <1>5 DEF HeartbeatAck, BeatInv, HeartbeatTypeOK
      <4> QED
        BY <4>1, <4>2, <4>3 DEF HeartbeatTypeOK
    <3>2. OneOpenBeat'
      BY <1>5, <1>t DEF HeartbeatAck, AckMatches, BeatInv, HeartbeatTypeOK, OneOpenBeat, Beats
    <3>3. \A t \in Beats : t > beat' => outcome'[t] = "none"
      BY <1>5, <1>t DEF HeartbeatAck, BeatInv, HeartbeatTypeOK, Beats
    <3> QED
      BY <3>1, <3>2, <3>3, <1>5, <1>t DEF HeartbeatAck, BeatInv
  <2>2. s = beat
    BY <1>5, <1>t DEF HeartbeatAck, AckMatches, BeatInv, Beats
  <2>3. MissedSinceAck' = {}
    BY <1>5, <2>2, <1>t DEF HeartbeatAck, BeatInv, HeartbeatTypeOK, MissedSinceAck, Beats
  <2>4. Cardinality(MissedSinceAck') = 0
    BY <2>3, FS_EmptySet
  <2> QED
    BY <2>1, <2>4, <1>5 DEF HeartbeatAck, MarkAck, SuspectExact
<1>6. CASE StopHeartbeat
  <2>1. BeatInv'
    BY <1>6, <1>t DEF StopHeartbeat, BeatInv, HeartbeatTypeOK, OneOpenBeat, Beats
  <2>2. MissedSinceAck' = MissedSinceAck
    BY <1>6 DEF StopHeartbeat, BeatInv, HeartbeatTypeOK, MissedSinceAck
  <2> QED
    BY <2>1, <2>2, <1>6 DEF StopHeartbeat, SuspectExact
<1> QED
  BY <1>1, <1>2, <1>3, <1>4, <1>5, <1>6 DEF HeartbeatNext

\* The account is exact when a connection is made.
LEMMA BeatBegins ==
  ASSUME HeartbeatInit
  PROVE  BeatInv /\ SuspectExact
<1> USE BeatsAssumption, SuspectAssumption
<1>1. BeatInv
  <2>1. ackEvent \in BOOLEAN /\ suspect \in BOOLEAN
    BY DEF HeartbeatInit
  <2>2. /\ loop = "none"
        /\ beat \in 0 .. MaxBeats /\ openBeat \in 0 .. beat /\ missed \in 0 .. MaxBeats
        /\ beat = 0 /\ openBeat = 0
    BY DEF HeartbeatInit
  <2>3. outcome = [s \in Beats |-> "none"]
    BY DEF HeartbeatInit
  <2> QED
    BY <2>1, <2>2, <2>3 DEF BeatInv, HeartbeatTypeOK, OneOpenBeat, Beats
<1>2. MissedSinceAck = {}
  BY DEF HeartbeatInit, MissedSinceAck
<1>3. Cardinality(MissedSinceAck) = 0
  BY <1>2, FS_EmptySet
<1>4. missed = 0 /\ ~(0 >= SuspectAfter) /\ ~suspect
  BY DEF HeartbeatInit
<1> QED
  BY <1>1, <1>3, <1>4, Zenon DEF SuspectExact

\* Whatever a connection does with its heartbeat, at most one heartbeat is open,
\* it is the last one sent, and rx_path_suspect tells exactly whether
\* suspect_after_misses of them were missed since the last acknowledgement.
THEOREM HeartbeatAccount == HeartbeatSpec => []BeatsExact
<1>1. HeartbeatInit => BeatInv /\ SuspectExact
  BY BeatBegins
<1>2. BeatInv /\ SuspectExact /\ [HeartbeatNext]_hbVars => BeatInv' /\ SuspectExact'
  BY BeatStep
<1>3. BeatInv /\ SuspectExact => BeatsExact
  BY DEF BeatInv, BeatsExact
<1> QED
  BY <1>1, <1>2, <1>3, PTL DEF HeartbeatSpec

\* A step of the heartbeat leaves every heartbeat alone whose outcome is known.
LEMMA OutcomeStep ==
  ASSUME BeatInv, [HeartbeatNext]_hbVars,
         NEW s \in Beats, outcome[s] \in {"acked", "missed", "dropped"}
  PROVE  outcome'[s] = outcome[s]
<1> USE BeatsAssumption
<1>1. CASE Beat
  BY <1>1 DEF Beat, BeatInv, HeartbeatTypeOK, Beats
<1>2. CASE AckTimeout
  BY <1>2 DEF AckTimeout, MissCounts, BeatInv, HeartbeatTypeOK, OneOpenBeat, Beats
<1>3. ASSUME NEW t \in Beats, HeartbeatAck(t)
      PROVE  outcome'[s] = outcome[s]
  BY <1>3 DEF HeartbeatAck, AckMatches, BeatInv, HeartbeatTypeOK, OneOpenBeat
<1>4. CASE StopHeartbeat
  BY <1>4 DEF StopHeartbeat
<1>5. CASE StartHeartbeat \/ BeatWritten \/ LoopEnds \/ AckSeen \/ UNCHANGED hbVars
  BY <1>5 DEF StartHeartbeat, BeatWritten, LoopEnds, AckSeen, hbVars
<1> QED
  BY <1>1, <1>2, <1>3, <1>4, <1>5 DEF HeartbeatNext

\* A late or repeated acknowledgement, or a timeout that comes too late, never
\* revises what became of a heartbeat.
THEOREM HeartbeatFinal == HeartbeatSpec => OutcomeFinal
<1>1. HeartbeatInit => BeatInv /\ SuspectExact
  BY BeatBegins
<1>2. BeatInv /\ SuspectExact /\ [HeartbeatNext]_hbVars => BeatInv' /\ SuspectExact'
  BY BeatStep
<1>3. BeatInv /\ [HeartbeatNext]_hbVars =>
        [\A s \in Beats : outcome[s] \in {"acked", "missed", "dropped"} =>
                            outcome'[s] = outcome[s]]_hbVars
  BY OutcomeStep
<1> QED
  BY <1>1, <1>2, <1>3, PTL DEF HeartbeatSpec, OutcomeFinal

-----------------------------------------------------------------------------
(* A connection implements the heartbeat's specification *)

\* Every step of run, stop, the liveness task, the network and the clock is a
\* step of the heartbeat or leaves it alone.
LEMMA ConnectionBeats ==
  ASSUME [Next]_vars
  PROVE  [HeartbeatNext]_hbVars
<1>1. CASE UNCHANGED vars
  BY <1>1 DEF vars, taskVars, hbVars
<1>2. ASSUME StartTasks
      PROVE  [HeartbeatNext]_hbVars
  BY <1>2 DEF StartTasks, HeartbeatNext
<1>3. CASE RunStep \/ EstopSent
  BY <1>3, <1>2 DEF RunStep, BeginAttempt, EndRun, Connects, ConnectFails, Register,
       EstopSent, ReadRaises, RunStopsHeartbeat, RunStopsLiveness, RunClosed, RunDies,
       taskVars, hbVars, HeartbeatNext
<1>4. CASE InboundAck \/ HeartbeatStep
  BY <1>4 DEF InboundAck, HeartbeatStep, HeartbeatNext
<1>5. CASE StopStep
  BY <1>5 DEF StopStep, StopsHeartbeat, StopsLiveness, StopsWriter, StopJoins,
       taskVars, hbVars, HeartbeatNext
<1>6. CASE \/ Inbound \/ ReadEnds \/ HandlerEnds \/ HandlerRaises \/ LivenessFaults \/ LivenessEnds
           \/ StopRequested \/ ConnectionLost \/ Silence
  BY <1>6 DEF Inbound, ReadEnds, HandlerEnds, HandlerRaises, LivenessFaults, LivenessEnds,
       StopRequested, ConnectionLost, Silence, taskVars, hbVars
<1> QED
  BY <1>1, <1>3, <1>4, <1>5, <1>6 DEF Next

\* A connection uses its heartbeat only as module Heartbeat allows, over all of
\* its attempts.
THEOREM ConnectionImplementsHeartbeat == Spec => HeartbeatSpec
<1>1. Init => HeartbeatInit
  BY DEF Init
<1>2. [Next]_vars => [HeartbeatNext]_hbVars
  BY ConnectionBeats
<1> QED
  BY <1>1, <1>2, PTL DEF Spec, HeartbeatSpec

\* So the account of the heartbeats is exact over any number of connections,
\* stops and restarts of the task.
THEOREM ConnectionAccount == Spec => []BeatsExact
  BY ConnectionImplementsHeartbeat, HeartbeatAccount, PTL

\* And no outcome is revised.
THEOREM ConnectionFinal == Spec => OutcomeFinal
  BY ConnectionImplementsHeartbeat, HeartbeatFinal, PTL

-----------------------------------------------------------------------------
(* The attempts of run *)

\* Which tasks may live, and what has been reported, at each point of run.
AttemptInv ==
  /\ pc \in RunStates
  /\ pc \notin {"reading", "handling", "stopHeartbeat"} => loop = "none"
  /\ pc \notin {"reading", "handling", "stopHeartbeat", "stopLiveness"} => lvTask = "none"
  /\ pc \in {"start", "connecting", "closing", "backoff", "ended"} => ~stream
  /\ pc \in {"start", "connecting", "schema", "closing", "backoff", "ended"} => ~registered
  /\ reported => conn = "FAULTED"
  /\ pc \in {"start", "connecting", "schema", "estop"} => ~reported
  /\ downs \in {0, 1}
  /\ pc \notin {"backoff", "ended", "dead"} => (downs = 1 <=> reported)
  /\ pc = "backoff" => downs = 1

\* Every step keeps it.
LEMMA AttemptStep ==
  ASSUME AttemptInv, [Next]_vars
  PROVE  AttemptInv'
<1> USE DEF AttemptInv
<1>1. CASE UNCHANGED vars
  BY <1>1 DEF vars, connVars, taskVars, hbVars, histVars
<1>2. CASE BeginAttempt \/ EndRun \/ Connects \/ ConnectFails
  BY <1>2 DEF BeginAttempt, EndRun, Connects, ConnectFails, FinallyFrom, RunStates,
       connVars, taskVars, hbVars, histVars
<1>3. CASE Register \/ EstopSent
  BY <1>3 DEF Register, EstopSent, StartTasks, StartHeartbeat, FinallyFrom, RunStates,
       connVars, taskVars, hbVars, histVars
<1>4. CASE ReadRaises \/ RunStopsHeartbeat \/ RunStopsLiveness \/ RunDies
  BY <1>4 DEF ReadRaises, RunStopsHeartbeat, RunStopsLiveness, RunDies, StopHeartbeat,
       TakeLiveness, FinallyFrom, RunStates, connVars, taskVars, hbVars, histVars
<1>5. CASE RunClosed
  BY <1>5 DEF RunClosed, BoardDownDue, AfterAttempt, RunStates,
       connVars, taskVars, hbVars, histVars
<1>6. CASE Inbound \/ InboundAck \/ ReadEnds \/ HandlerEnds \/ HandlerRaises
  BY <1>6 DEF Inbound, InboundAck, HeartbeatAck, ReadEnds, HandlerEnds, HandlerRaises,
       FinallyFrom, RunStates, connVars, taskVars, hbVars, histVars
<1>7. CASE LivenessFaults \/ LivenessEnds
  BY <1>7 DEF LivenessFaults, LivenessEnds, RunStates, connVars, taskVars, hbVars, histVars
<1>8. CASE HeartbeatStep
  BY <1>8 DEF HeartbeatStep, Beat, LoopEnds, BeatWritten, AckSeen, AckTimeout,
       RunStates, connVars, taskVars, hbVars, histVars
<1>9. CASE StopRequested \/ StopStep
  BY <1>9 DEF StopRequested, StopStep, StopsHeartbeat, StopsLiveness, StopsWriter,
       StopJoins, StopHeartbeat, TakeLiveness, RunStates, connVars, taskVars, hbVars,
       histVars
<1>10. CASE ConnectionLost \/ Silence
  BY <1>10 DEF ConnectionLost, Silence, RunStates, connVars, taskVars, hbVars, histVars
<1> QED
  BY <1>1, <1>2, <1>3, <1>4, <1>5, <1>6, <1>7, <1>8, <1>9, <1>10 DEF Next, RunStep

\* It holds in every state of a connection.
LEMMA AttemptAlways == Spec => []AttemptInv
<1>1. Init => AttemptInv
  BY DEF Init, HeartbeatInit, AttemptInv, RunStates
<1>2. AttemptInv /\ [Next]_vars => AttemptInv'
  BY AttemptStep
<1> QED
  BY <1>1, <1>2, PTL DEF Spec

\* The finally block and the liveness task between them call board_down once for
\* every attempt that is followed by another, whichever comes first and wherever
\* stop interrupts them.
THEOREM BoardDownExactlyOnce == Spec => []BoardDownOnce
<1>1. AttemptInv => BoardDownOnce
  BY DEF AttemptInv, BoardDownOnce
<1> QED
  BY <1>1, AttemptAlways, PTL

\* No heartbeat or liveness task, stream or registration of one attempt lives on
\* into the wait for the next one or past the end of run.
THEOREM NothingLeftOver == Spec => []NoLeftovers
<1>1. AttemptInv => NoLeftovers
  BY DEF AttemptInv, NoLeftovers
<1> QED
  BY <1>1, AttemptAlways, PTL

-----------------------------------------------------------------------------
(* Types, and the bounds of the backoff *)

\* The next ceiling of the backoff is again at least the base delay and at most
\* the cap, whatever the factor.
LEMMA GrowBounded ==
  ASSUME NEW c \in Base .. Cap
  PROVE  Grow(c) \in Base .. Cap
<1> USE BackoffAssumption
<1>1. c \in Nat /\ c * (Factor - 1) \in Nat /\ c * Factor = c + c * (Factor - 1)
  <2>1. c \in Nat /\ Factor - 1 \in Nat
    OBVIOUS
  <2>2. ASSUME NEW m \in Nat, NEW n \in Nat
        PROVE  m * n \in Nat /\ m * (n + 1) = m + m * n
    OBVIOUS
  <2>3. Factor = (Factor - 1) + 1
    OBVIOUS
  <2> QED
    BY <2>1, <2>2, <2>3
<1>2. c * Factor >= c
  BY <1>1
<1> QED
  BY <1>1, <1>2 DEF Grow

\* What TypeOK says beyond the state of the heartbeat and of run.
FieldTypes ==
  /\ stopping \in BOOLEAN
  /\ stopper \in StopStates
  /\ conn \in {"DISCONNECTED", "CONNECTING", "CONNECTED", "REGISTERED", "FAULTED"}
  /\ tcp \in TcpStates
  /\ waiter \in BOOLEAN
  /\ stream \in BOOLEAN
  /\ registered \in BOOLEAN
  /\ lvTask \in {"none", "watch", "closing", "ended", "raised"}
  /\ quiet \in BOOLEAN
  /\ reported \in BOOLEAN
  /\ escaping \in BOOLEAN

\* Every step keeps the types of the fields and the bounds of the backoff.
LEMMA FieldStep ==
  ASSUME FieldTypes, [Next]_vars
  PROVE  FieldTypes'
<1> USE DEF FieldTypes
<1>1. CASE UNCHANGED vars
  BY <1>1 DEF vars, connVars, taskVars, hbVars, histVars
<1>2. CASE BeginAttempt \/ EndRun \/ Connects \/ ConnectFails
  BY ZenonT(60), <1>2 DEF BeginAttempt, EndRun, Connects, ConnectFails, TcpStates,
       connVars, taskVars, hbVars, histVars
<1>3. CASE Register \/ EstopSent
  BY ZenonT(60), <1>3 DEF Register, EstopSent, StartTasks, connVars, taskVars, histVars
<1>4. CASE ReadRaises \/ RunStopsHeartbeat \/ RunStopsLiveness \/ RunDies
  BY <1>4 DEF ReadRaises, RunStopsHeartbeat, RunStopsLiveness, RunDies,
       TakeLiveness, CloseTcp, TcpStates, connVars, taskVars, histVars
<1>5. CASE RunClosed
  BY <1>5 DEF RunClosed, connVars, taskVars, histVars
<1>6. CASE Inbound \/ InboundAck \/ ReadEnds \/ HandlerRaises
  BY ZenonT(60), <1>6 DEF Inbound, InboundAck, ReadEnds, HandlerRaises, connVars, taskVars, histVars
<1>13. CASE HandlerEnds
  BY ZenonT(60), <1>13 DEF HandlerEnds, connVars, taskVars, histVars
<1>7. CASE LivenessFaults \/ LivenessEnds
  BY <1>7 DEF LivenessFaults, LivenessEnds, CloseTcp, TcpStates, connVars, taskVars, histVars
<1>8. CASE HeartbeatStep
  BY <1>8 DEF HeartbeatStep, connVars, taskVars, histVars
<1>9. CASE StopRequested \/ StopsHeartbeat \/ StopJoins
  BY ZenonT(60), <1>9 DEF StopRequested, StopsHeartbeat, StopJoins, StopStates, connVars, taskVars,
       histVars
<1>11. CASE StopsLiveness
  BY <1>11 DEF StopsLiveness, TakeLiveness, StopStates, histVars
<1>12. CASE StopsWriter
  BY <1>12 DEF StopsWriter, CloseTcp, TcpStates, StopStates, taskVars, histVars
<1>10. CASE ConnectionLost \/ Silence
  BY <1>10 DEF ConnectionLost, Silence, TcpStates, connVars, taskVars, histVars
<1> QED
  BY <1>1, <1>2, <1>3, <1>4, <1>5, <1>6, <1>7, <1>8, <1>9, <1>10, <1>11, <1>12, <1>13
  DEF Next, RunStep, StopStep

\* The delays: the ceiling stays between the base delay and the cap.
DelayTypes ==
  /\ ceiling \in Base .. Cap
  /\ waits \in 0 .. MaxWaits

\* Every step keeps them.
LEMMA DelayStep ==
  ASSUME DelayTypes, [Next]_vars
  PROVE  DelayTypes'
<1> USE BackoffAssumption DEF DelayTypes
<1>1. CASE Register
  BY <1>1 DEF Register
<1>2. CASE RunClosed
  BY <1>2, GrowBounded DEF RunClosed
<1>3. CASE BeginAttempt
  BY <1>3 DEF BeginAttempt
<1>4. CASE UNCHANGED <<ceiling, waits>>
  BY <1>4
<1>5. CASE RunStep /\ ~Register /\ ~RunClosed /\ ~BeginAttempt
  BY <1>4, <1>5 DEF RunStep, EndRun, Connects, ConnectFails, ReadRaises,
       RunStopsHeartbeat, RunStopsLiveness, RunDies, histVars
<1>6. CASE UNCHANGED vars
  BY <1>4, <1>6 DEF vars, histVars
<1>7. CASE Next /\ ~RunStep
  BY <1>4, <1>7 DEF Next, EstopSent, Inbound, InboundAck, ReadEnds, HandlerEnds, HandlerRaises, LivenessFaults,
       LivenessEnds, HeartbeatStep, StopRequested, StopStep, StopsHeartbeat,
       StopsLiveness, StopsWriter, StopJoins, ConnectionLost, Silence, histVars
<1> QED
  BY <1>1, <1>2, <1>3, <1>5, <1>6, <1>7 DEF RunStep

\* Every field has its type; in particular the ceiling of the backoff stays
\* between base_delay_s and cap_delay_s over any number of lost connections.
THEOREM TypeCorrect == Spec => []TypeOK
<1>1. Init => BeatInv /\ SuspectExact /\ AttemptInv /\ FieldTypes /\ DelayTypes
  <2>1. Init => BeatInv /\ SuspectExact
    BY BeatBegins DEF Init
  <2>2. Init => AttemptInv
    BY DEF Init, HeartbeatInit, AttemptInv, RunStates
  <2>3. Init => FieldTypes
    BY DEF Init, FieldTypes, StopStates, TcpStates
  <2>4. Init => DelayTypes
    BY BackoffAssumption DEF Init, DelayTypes
  <2> QED
    BY <2>1, <2>2, <2>3, <2>4
<1>2. /\ BeatInv /\ SuspectExact /\ AttemptInv /\ FieldTypes /\ DelayTypes
      /\ [Next]_vars
      => (BeatInv /\ SuspectExact /\ AttemptInv /\ FieldTypes /\ DelayTypes)'
  BY ConnectionBeats, BeatStep, AttemptStep, FieldStep, DelayStep
<1>3. BeatInv /\ SuspectExact /\ AttemptInv /\ FieldTypes /\ DelayTypes => TypeOK
  BY DEF BeatInv, AttemptInv, FieldTypes, DelayTypes, TypeOK
<1> QED
  BY <1>1, <1>2, <1>3, PTL DEF Spec
-----------------------------------------------------------------------------
(* The backoff *)

\* What Naturals defines of ^, which the provers do not know.
PowerLaw ==
  /\ Factor ^ 0 = 1
  /\ \A n \in Nat : Factor ^ n \in Nat /\ Factor ^ (n + 1) = Factor * Factor ^ n

\* The ceiling after n waits if there were no cap, and with it.
Full(n) == Base * Factor ^ n
Capped(x) == IF x < Cap THEN x ELSE Cap

\* The ceiling is that of the waits since the last registration.
CeilingExact == ceiling = Capped(Full(waits))

\* One more wait multiplies the ceiling, which does not shrink.
LEMMA FullGrows ==
  ASSUME PowerLaw, NEW n \in Nat
  PROVE  Full(n) \in Nat /\ Full(n + 1) = Full(n) * Factor /\ Full(0) = Base
<1>1. /\ Factor ^ n \in Nat /\ Factor ^ (n + 1) = Factor * Factor ^ n /\ Factor ^ 0 = 1
      /\ Base \in Nat /\ Factor \in Nat
  BY BackoffAssumption DEF PowerLaw
<1> DEFINE p == Factor ^ n
           q == Factor ^ (n + 1)
           r == Factor ^ 0
<1>2. p \in Nat /\ q = Factor * p /\ r = 1 /\ Base \in Nat /\ Factor \in Nat
  BY <1>1
<1> HIDE DEF p, q, r
<1>3. ASSUME NEW x \in Nat, NEW y \in Nat, NEW z \in Nat
      PROVE  x * y \in Nat /\ x * (y * z) = (x * z) * y /\ x * 1 = x
  OBVIOUS
<1>4. Base * p \in Nat /\ Base * q = (Base * p) * Factor /\ Base * r = Base
  BY <1>2, <1>3
<1> QED
  BY <1>4 DEF p, q, r, Full

\* A larger delay stays at the cap.
LEMMA CapStays ==
  ASSUME NEW x \in Nat, x >= Cap
  PROVE  x * Factor >= Cap
<1>1. Factor - 1 \in Nat /\ Factor = (Factor - 1) + 1 /\ Cap \in Nat
  BY BackoffAssumption
<1>2. ASSUME NEW m \in Nat, NEW n \in Nat
      PROVE  m * n \in Nat /\ m * (n + 1) = m + m * n
  OBVIOUS
<1>3. x * (Factor - 1) \in Nat /\ x * Factor = x + x * (Factor - 1)
  BY <1>1, <1>2
<1> QED
  BY <1>1, <1>3

\* One more wait, below the cap, at it, and when the waits are no longer counted.
LEMMA CeilingGrows ==
  ASSUME PowerLaw, DelayTypes, CeilingExact, NEW c, c = Grow(ceiling), NEW w,
         w = IF waits < MaxWaits THEN waits + 1 ELSE waits
  PROVE  c = Capped(Full(w))
<1>1. waits \in Nat /\ waits <= MaxWaits /\ Cap \in Nat /\ MaxWaits \in Nat
  BY BackoffAssumption DEF DelayTypes
<1>2. Full(waits) \in Nat /\ Full(waits + 1) = Full(waits) * Factor
  BY <1>1, FullGrows
<1>3. CASE Full(waits) < Cap
  <2>1. ceiling = Full(waits) /\ c = Capped(Full(waits + 1))
    BY <1>2, <1>3 DEF CeilingExact, Capped, Grow
  <2>2. waits # MaxWaits
    BY <1>1, <1>2, <1>3, BackoffAssumption DEF Full
  <2>3. w = waits + 1
    BY <1>1, <2>2
  <2> QED
    BY <2>1, <2>3
<1>4. CASE ~(Full(waits) < Cap)
  <2>1. ceiling = Cap /\ Full(waits) >= Cap
    BY <1>1, <1>2, <1>4 DEF CeilingExact, Capped
  <2>2. Cap * Factor >= Cap /\ Full(waits + 1) >= Cap
    BY <1>1, <1>2, <2>1, CapStays
  <2>3. Cap * Factor \in Int /\ Full(waits + 1) \in Int
    BY <1>1, <1>2, BackoffAssumption
  <2>4. c = Cap
    BY <1>1, <2>1, <2>2, <2>3 DEF Grow
  <2>5. w = waits \/ w = waits + 1
    OBVIOUS
  <2>6. Capped(Full(waits)) = Cap /\ Capped(Full(waits + 1)) = Cap
    BY <1>1, <1>4, <2>2, <2>3 DEF Capped
  <2> QED
    BY <2>4, <2>5, <2>6
<1> QED
  BY <1>3, <1>4

\* Only a registration and a wait change the ceiling.
LEMMA CeilingStep ==
  ASSUME PowerLaw, DelayTypes, CeilingExact, [Next]_vars
  PROVE  CeilingExact'
<1>0. CeilingExact /\ UNCHANGED <<ceiling, waits>> => CeilingExact'
  BY DEF CeilingExact, Capped, Full
<1>1. CASE Register
  <2>1. ceiling' = Base /\ waits' = 0
    BY <1>1 DEF Register
  <2>2. Full(0) = Base
    BY FullGrows
  <2>3. Capped(Base) = Base
    BY BackoffAssumption DEF Capped
  <2> QED
    BY <2>1, <2>2, <2>3 DEF CeilingExact, Full, Capped
<1>2. CASE RunClosed
  <2>1. CASE UNCHANGED <<ceiling, waits>>
    BY <1>0, <2>1
  <2>2. CASE ceiling' = Grow(ceiling) /\ waits' = IF waits < MaxWaits THEN waits + 1 ELSE waits
    <3>1. ceiling' = Capped(Full(waits'))
      BY <2>2, CeilingGrows
    <3> QED
      BY <3>1 DEF CeilingExact, Full, Capped
  <2> QED
    BY <1>2, <2>1, <2>2 DEF RunClosed
<1>3. CASE ~Register /\ ~RunClosed
  <2>1. UNCHANGED <<ceiling, waits>>
    <3>1. CASE RunStep
      BY <1>3, <3>1 DEF RunStep, BeginAttempt, EndRun, Connects, ConnectFails, ReadRaises,
           RunStopsHeartbeat, RunStopsLiveness, RunDies, histVars
    <3>2. CASE Next /\ ~RunStep
      BY <3>2 DEF Next, EstopSent, Inbound, InboundAck, ReadEnds, HandlerEnds, HandlerRaises, LivenessFaults,
           LivenessEnds, HeartbeatStep, StopRequested, StopStep, StopsHeartbeat,
           StopsLiveness, StopsWriter, StopJoins, ConnectionLost, Silence, histVars
    <3>3. CASE UNCHANGED vars
      BY <3>3 DEF vars, histVars
    <3> QED
      BY <3>1, <3>2, <3>3
  <2> QED
    BY <1>0, <2>1
<1> QED
  BY <1>1, <1>2, <1>3

\* ReconnectBackoff: after any sequence of attempts, failures and registrations
\* the ceiling of the delay is the base multiplied by the factor once for every
\* wait since the last registration, and never more than the cap.
THEOREM BackoffAlwaysExact ==
  ASSUME PowerLaw
  PROVE  Spec => []BackoffExact
<1>1. Init => DelayTypes /\ CeilingExact
  <2>1. Init => DelayTypes
    BY BackoffAssumption DEF Init, DelayTypes
  <2>2. Full(0) = Base /\ Capped(Base) = Base
    BY FullGrows, BackoffAssumption DEF Capped
  <2>3. Init => CeilingExact
    BY <2>2 DEF Init, CeilingExact
  <2> QED
    BY <2>1, <2>3
<1>2. DelayTypes /\ CeilingExact /\ [Next]_vars => (DelayTypes /\ CeilingExact)'
  BY DelayStep, CeilingStep
<1>3. TypeOK /\ CeilingExact => BackoffExact
  BY DEF CeilingExact, Capped, Full, BackoffExact
<1> QED
  BY <1>1, <1>2, <1>3, TypeCorrect, PTL DEF Spec


=============================================================================
