----------------------------- MODULE Heartbeat -----------------------------
(***************************************************************************)
(* The heartbeat of one board connection: _heartbeat_loop and              *)
(* _send_one_heartbeat of board_connection.py, the acknowledgements that   *)
(* its reader handles, and the verdict rx_path_suspect that BoardState     *)
(* (state.py) draws from them.  Module BoardConnection says when a         *)
(* connection starts the task, stops it and receives acknowledgements.     *)
(***************************************************************************)
EXTENDS Integers, FiniteSets

CONSTANTS
  SuspectAfter, \* suspect_after_misses
  MaxBeats      \* bound: how many heartbeats are sent

ASSUME SuspectAssumption == SuspectAfter \in Nat \ {0}
ASSUME BeatsAssumption == MaxBeats \in Nat

VARIABLES
  loop,     \* the _heartbeat_loop task
  beat,     \* _heartbeat_seq
  openBeat, \* _pending_heartbeat_seq, 0 for None
  ackEvent, \* _heartbeat_ack.is_set()
  missed,   \* BoardState.heartbeat_missed_count
  suspect,  \* BoardState.rx_path_suspect
  outcome   \* history: what became of each heartbeat

hbVars == <<loop, beat, openBeat, ackEvent, missed, suspect, outcome>>

Beats == 1 .. MaxBeats

HeartbeatTypeOK ==
  /\ loop \in {"none", "sleep", "write", "wait", "ended"}
  /\ beat \in 0 .. MaxBeats
  /\ openBeat \in 0 .. beat
  /\ ackEvent \in BOOLEAN
  /\ missed \in 0 .. MaxBeats
  /\ suspect \in BOOLEAN
  /\ outcome \in [Beats -> {"none", "sent", "acked", "missed", "dropped"}]

HeartbeatInit ==
  /\ loop = "none"
  /\ beat = 0 /\ openBeat = 0 /\ ackEvent = FALSE
  /\ missed = 0 /\ suspect = FALSE
  /\ outcome = [s \in Beats |-> "none"]

-----------------------------------------------------------------------------
(* Helpers.  A definition whose name begins with Bug is a broken variant of *)
(* the one that follows it, used to show that the properties notice.        *)

BugMissCounts == TRUE

\* After its timeout _send_one_heartbeat looks whether the acknowledgement has
\* come after all.
MissCounts == openBeat = beat

BugAckMatches(s) == s <= beat

\* _handle_heartbeat_ack accepts only the heartbeat it waits for.
AckMatches(s) == s = openBeat

\* mark_heartbeat_ack.
MarkAck == missed' = 0 /\ suspect' = FALSE

\* mark_heartbeat_missed.
MarkMissed ==
  /\ missed' = missed + 1
  /\ suspect' = (suspect \/ missed + 1 >= SuspectAfter)

-----------------------------------------------------------------------------
\* _start_heartbeat, when the board has registered.
StartHeartbeat ==
  /\ loop = "none"
  /\ loop' = "sleep"
  /\ UNCHANGED <<beat, openBeat, ackEvent, missed, suspect, outcome>>

\* The interval is over: _send_one_heartbeat as far as its write.
Beat ==
  /\ loop = "sleep" /\ beat < MaxBeats
  /\ loop' = "write"
  /\ beat' = beat + 1
  /\ openBeat' = beat + 1
  /\ ackEvent' = FALSE
  /\ outcome' = [outcome EXCEPT ![beat + 1] = "sent"]
  /\ UNCHANGED <<missed, suspect>>

\* The write is over, and the timeout of the acknowledgement begins.
BeatWritten ==
  /\ loop = "write"
  /\ loop' = "wait"
  /\ UNCHANGED <<beat, openBeat, ackEvent, missed, suspect, outcome>>

\* The loop returns: its write has raised, or it finds stop set.
LoopEnds ==
  /\ loop \in {"write", "sleep"}
  /\ loop' = "ended"
  /\ UNCHANGED <<beat, openBeat, ackEvent, missed, suspect, outcome>>

AckSeen ==
  /\ loop = "wait" /\ ackEvent
  /\ loop' = "sleep"
  /\ UNCHANGED <<beat, openBeat, ackEvent, missed, suspect, outcome>>

\* ack_timeout_s is over.  wait_for can also end this way when the event has
\* just been set.
AckTimeout ==
  /\ loop = "wait"
  /\ loop' = "sleep"
  /\ \/ /\ MissCounts
        /\ openBeat' = 0
        /\ MarkMissed
        /\ outcome' = [outcome EXCEPT ![beat] = "missed"]
     \/ /\ ~MissCounts
        /\ UNCHANGED <<openBeat, missed, suspect, outcome>>
  /\ UNCHANGED <<beat, ackEvent>>

\* The board acknowledges a heartbeat it was sent, in time, late or again.
\* A late acknowledgement only counts as one.
HeartbeatAck(s) ==
  /\ s \in 1 .. beat
  /\ AckMatches(s)
  /\ openBeat' = 0
  /\ MarkAck
  /\ ackEvent' = TRUE
  /\ outcome' = [outcome EXCEPT ![s] = "acked"]
  /\ UNCHANGED <<loop, beat>>

\* _stop_heartbeat, at the end of the connection, with or without a task.
StopHeartbeat ==
  /\ loop' = "none"
  /\ openBeat' = 0
  /\ ackEvent' = TRUE
  /\ outcome' = [s \in Beats |-> IF outcome[s] = "sent" THEN "dropped" ELSE outcome[s]]
  /\ UNCHANGED <<beat, missed, suspect>>

HeartbeatNext ==
  \/ StartHeartbeat \/ Beat \/ BeatWritten \/ LoopEnds \/ AckSeen \/ AckTimeout
  \/ StopHeartbeat
  \/ \E s \in Beats : HeartbeatAck(s)

\* What a connection may do with its heartbeat.
HeartbeatSpec == HeartbeatInit /\ [][HeartbeatNext]_hbVars

-----------------------------------------------------------------------------
(* Properties *)

\* Only one heartbeat is open, and it is the one the loop waits for: an
\* acknowledgement never counts for a heartbeat that is already missed, and a
\* heartbeat that was acknowledged is not counted as missed afterwards.
OneOpenBeat ==
  \A s \in Beats : outcome[s] = "sent" <=> openBeat = s

\* What happened to a heartbeat stays: an outcome is not revised by a late or
\* repeated acknowledgement or by a timeout that comes too late.
OutcomeFinal ==
  [][\A s \in Beats :
       outcome[s] \in {"acked", "missed", "dropped"} => outcome'[s] = outcome[s]]_hbVars

\* The misses since the last acknowledgement.
MissedSinceAck ==
  {s \in Beats : outcome[s] = "missed" /\
                 \A t \in Beats : outcome[t] = "acked" => t < s}

\* rx_path_suspect says exactly that suspect_after_misses heartbeats have been
\* missed since the last one that was acknowledged, over any number of
\* connections.
SuspectExact ==
  /\ missed = Cardinality(MissedSinceAck)
  /\ suspect <=> missed >= SuspectAfter

\* The account of the heartbeats is exact, of the open one and of the misses.
BeatsExact == OneOpenBeat /\ SuspectExact
=============================================================================
