--------------------------- MODULE Observability ---------------------------
(***************************************************************************)
(* observability.py: the bounded drop-oldest ObservabilityQueue, which the *)
(* controller fills without ever waiting, and the RedisTelemetryWorker,    *)
(* the one task that empties it into Redis.  Redis (external) may answer,  *)
(* raise with or without having applied a command, or never answer.        *)
(***************************************************************************)
EXTENDS Integers, SequencesExt, FiniteSetsExt

CONSTANTS
  Keys,       \* the hashes board:state:<id> and system:state
  ObsSize,    \* maxsize of the queue
  MaxRecords  \* bound: how many records are enqueued

ASSUME ObsAssumption == ObsSize \in Nat \ {0} /\ MaxRecords \in Nat

VARIABLES
  obs,       \* obs_queue.queue
  records,   \* history: how many records have been enqueued
  nextEvent, \* _next_state_event_id
  unfinished,\* the queue's _unfinished_tasks, which join() waits for
  counters,  \* ObservabilityCounters
  cut,       \* history: records whose write was cancelled
  wpc, wrec, \* the worker task run() and the record it writes
  wstop,     \* _stop.is_set()
  spc,       \* the caller of stop()
  joined,    \* history: the newest record when join() returned, -1 if it did not
  hash,      \* external: the event id of each Redis hash
  channel    \* external: the last message on "board:state:updates"

obsVars == <<obs, records, nextEvent, unfinished, counters, cut, wpc, wrec,
             wstop, spc, joined, hash, channel>>

Stream == "stream"
ASSUME KeysAssumption == Stream \notin Keys
NoRecord == [id |-> 0, topic |-> Stream, event |-> 0]
Records == [id : 0 .. MaxRecords, topic : Keys \cup {Stream}, event : 0 .. MaxRecords]
Writing == {"hset", "publish", "xadd", "skip"}

ObsTypeOK ==
  /\ obs \in Seq(Records) /\ Len(obs) <= ObsSize
  /\ records \in 0 .. MaxRecords
  /\ nextEvent \in 1 .. MaxRecords + 1
  /\ unfinished \in 0 .. ObsSize + 1
  /\ counters \in [dropped : 0 .. MaxRecords, failures : 0 .. MaxRecords,
                   written : 0 .. MaxRecords]
  /\ cut \in 0 .. 1
  /\ wpc \in {"none", "get", "ended", "cancelled"} \cup Writing
  /\ wrec \in Records
  /\ wstop \in BOOLEAN
  /\ spc \in {"idle", "join", "await", "done"}
  /\ joined \in -1 .. MaxRecords
  /\ hash \in [Keys -> 0 .. MaxRecords]
  /\ channel \in Records

ObsInit ==
  /\ obs = <<>> /\ records = 0 /\ nextEvent = 1 /\ unfinished = 0
  /\ counters = [dropped |-> 0, failures |-> 0, written |-> 0] /\ cut = 0
  /\ wpc = "none" /\ wrec = NoRecord /\ wstop = FALSE
  /\ spc = "idle" /\ joined = -1
  /\ hash = [k \in Keys |-> 0] /\ channel = NoRecord

-----------------------------------------------------------------------------
(* Helpers.  A definition whose name begins with Bug is a broken variant of *)
(* the one that follows it, used to show that the properties notice.        *)

\* serialize_board_state_snapshot and serialize_system_state_snapshot: a state
\* record carries a number by which a subscriber orders the updates.
StateRecord(k) == [id |-> records + 1, topic |-> k, event |-> nextEvent]

\* serialize_board_telemetry, serialize_controller_event and
\* serialize_command_lifecycle: records that Redis only appends to a stream.
StreamRecord == [id |-> records + 1, topic |-> Stream, event |-> 0]

BugPush(r) ==
  LET full == Len(obs) = ObsSize IN
  /\ obs' = IF full THEN Append(Tail(obs), r) ELSE Append(obs, r)
  /\ unfinished' = unfinished + 1
  /\ counters' = [counters EXCEPT !.dropped = IF full THEN @ + 1 ELSE @]

\* enqueue: a full queue first gives up its oldest record, which counts as
\* done for join().
Push(r) ==
  LET full == Len(obs) = ObsSize IN
  /\ obs' = IF full THEN Append(Tail(obs), r) ELSE Append(obs, r)
  /\ unfinished' = IF full THEN unfinished ELSE unfinished + 1
  /\ counters' = [counters EXCEPT !.dropped = IF full THEN @ + 1 ELSE @]

\* The test of run()'s loop.
LoopTest == IF wstop /\ obs = <<>> THEN "ended" ELSE "get"

\* What _write_record asks of Redis first.
FirstCall(r) == IF r.topic \in Keys THEN "hset" ELSE "xadd"

-----------------------------------------------------------------------------
(* The controller's side *)

EnqueueState(k) ==
  /\ records < MaxRecords
  /\ Push(StateRecord(k))
  /\ records' = records + 1 /\ nextEvent' = nextEvent + 1
  /\ UNCHANGED <<cut, wpc, wrec, wstop, spc, joined, hash, channel>>

EnqueueStream ==
  /\ records < MaxRecords
  /\ Push(StreamRecord)
  /\ records' = records + 1
  /\ UNCHANGED <<nextEvent, cut, wpc, wrec, wstop, spc, joined, hash, channel>>

Enqueue == EnqueueStream \/ \E k \in Keys : EnqueueState(k)

-----------------------------------------------------------------------------
(* The worker *)

WorkerStart ==
  /\ wpc = "none"
  /\ wpc' = "get"
  /\ UNCHANGED <<obs, records, nextEvent, unfinished, counters, cut, wrec,
                 wstop, spc, joined, hash, channel>>

\* The record is taken out of the queue but still counts for join().  Without
\* a Redis, _write_record returns at once.
WorkerGet ==
  /\ wpc = "get" /\ obs # <<>>
  /\ obs' = Tail(obs)
  /\ wrec' = Head(obs)
  /\ wpc' \in {FirstCall(Head(obs)), "skip"}
  /\ UNCHANGED <<records, nextEvent, unfinished, counters, cut, wstop, spc,
                 joined, hash, channel>>

\* wait_for(get, 0.05) times out and the loop looks at _stop again.
WorkerIdle ==
  /\ wpc = "get" /\ wstop /\ obs = <<>>
  /\ wpc' = LoopTest
  /\ UNCHANGED <<obs, records, nextEvent, unfinished, counters, cut, wrec,
                 wstop, spc, joined, hash, channel>>

BugHset ==
  /\ wpc = "hset"
  /\ channel' = wrec
  /\ wpc' = "publish"
  /\ UNCHANGED <<obs, records, nextEvent, unfinished, counters, cut, wrec,
                 wstop, spc, joined, hash>>

Hset ==
  /\ wpc = "hset"
  /\ hash' = [hash EXCEPT ![wrec.topic] = wrec.event]
  /\ wpc' = "publish"
  /\ UNCHANGED <<obs, records, nextEvent, unfinished, counters, cut, wrec,
                 wstop, spc, joined, channel>>

\* The last call of a record has answered.
WriteDone ==
  /\ wpc \in {"publish", "xadd", "skip"}
  /\ channel' = IF wpc = "publish"
                  THEN wrec
                  ELSE channel
  /\ counters' = [counters EXCEPT !.written = @ + 1]
  /\ unfinished' = unfinished - 1
  /\ wpc' = LoopTest /\ wrec' = NoRecord
  /\ UNCHANGED <<obs, records, nextEvent, cut, wstop, spc, joined, hash>>

\* What a call that is given up may have done in Redis all the same.
Residue ==
  \/ UNCHANGED <<hash, channel>>
  \/ /\ wpc = "hset"
     /\ hash' = [hash EXCEPT ![wrec.topic] = wrec.event] /\ UNCHANGED channel
  \/ /\ wpc = "publish"
     /\ channel' = wrec
     /\ UNCHANGED hash

\* A call to Redis raises: the record is counted and given up.
WriteFails ==
  /\ wpc \in Writing \ {"skip"}
  /\ Residue
  /\ counters' = [counters EXCEPT !.failures = @ + 1]
  /\ unfinished' = unfinished - 1
  /\ wpc' = LoopTest /\ wrec' = NoRecord
  /\ UNCHANGED <<obs, records, nextEvent, cut, wstop, spc, joined>>

-----------------------------------------------------------------------------
(* stop() *)

StopBegins ==
  /\ spc = "idle"
  /\ wstop' = TRUE
  /\ spc' = IF wpc = "none" THEN "done" ELSE "join"
  /\ UNCHANGED <<obs, records, nextEvent, unfinished, counters, cut, wpc, wrec,
                 joined, hash, channel>>

Joined == unfinished = 0

\* join() returns.
StopJoined ==
  /\ spc = "join" /\ Joined
  /\ spc' = "await"
  /\ joined' = records
  /\ UNCHANGED <<obs, records, nextEvent, unfinished, counters, cut, wpc, wrec,
                 wstop, hash, channel>>

\* drain_timeout_s is over.
StopTimeout ==
  /\ spc = "join"
  /\ spc' = "await"
  /\ UNCHANGED <<obs, records, nextEvent, unfinished, counters, cut, wpc, wrec,
                 wstop, joined, hash, channel>>

\* The task run() is cancelled where it waits.  A record that was being written
\* is done for join() and counted nowhere.
CancelRun ==
  /\ wpc' = IF wpc = "ended" THEN "ended" ELSE "cancelled"
  /\ IF wpc \in Writing
       THEN /\ unfinished' = unfinished - 1 /\ cut' = cut + 1
            /\ wrec' = NoRecord /\ Residue
       ELSE UNCHANGED <<unfinished, cut, wrec, hash, channel>>

BugStopEnds ==
  /\ spc = "await" /\ wpc = "ended"
  /\ spc' = "done"
  /\ UNCHANGED <<obs, records, nextEvent, unfinished, counters, cut, wpc, wrec,
                 wstop, joined, hash, channel>>

\* The worker has ended or is cancelled, and stop() returns.
StopEnds ==
  /\ spc = "await"
  /\ spc' = "done"
  /\ CancelRun
  /\ UNCHANGED <<obs, records, nextEvent, counters, wstop, joined>>

WorkerNext == WorkerGet \/ WorkerIdle \/ Hset \/ WriteDone \/ WriteFails
StopNext == StopJoined \/ StopTimeout \/ StopEnds

-----------------------------------------------------------------------------
(* Properties *)

Busy == IF wpc \in Writing THEN 1 ELSE 0

Accounting ==
  /\ records = counters.written + counters.failures + counters.dropped + cut
               + Busy + Len(obs)
  /\ unfinished = Len(obs) + Busy

NewestKept ==
  /\ \A i \in 1 .. Len(obs) : obs[i].id = records - Len(obs) + i
  /\ \A i \in 1 .. Len(obs) : wrec.id < obs[i].id

\* Whoever reads a hash because of an update finds that update in it, or a
\* newer one.
HashBeforeUpdate ==
  channel # NoRecord => channel.event <= hash[channel.topic]

\* Every record that was enqueued is written, failed, dropped, cut short by
\* stop(), being written or still queued, and join() waits for exactly the
\* last two kinds, also when the queue overflows while the worker is suspended
\* in Redis.  A full queue loses old records, never new ones: what is queued is
\* the newest records without a gap, all newer than the one being written.
QueueExact == Accounting /\ NewestKept

\* The replica never goes back in time, whatever is dropped, fails or is cut
\* short: neither a hash nor the updates a subscriber sees, and an update never
\* runs ahead of the hash it announces.
ReplicaForward ==
  [][/\ \A k \in Keys : hash'[k] >= hash[k]
     /\ channel' # channel => channel'.event > channel.event
     /\ HashBeforeUpdate']_<<hash, channel>>

\* A stop() that was not cut by its timeout has handled every record that was
\* enqueued before its join() returned.
DrainedWhenJoined ==
  joined >= 0 =>
    /\ \A i \in 1 .. Len(obs) : obs[i].id > joined
    /\ wrec # NoRecord => wrec.id > joined
=============================================================================
