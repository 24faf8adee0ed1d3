---------------------------- MODULE LocalClient ----------------------------
(***************************************************************************)
(* One client of the local Unix socket: the class LocalClientConnection of *)
(* local_socket.py with its bounded outbound queue, its writer_loop task   *)
(* and its close, which up to three tasks run at the same time: the        *)
(* client's handler (_handle_client), the server's stop and the task whose *)
(* critical message did not fit (a reply task, or the reader of a board    *)
(* that broadcasts an event and waits for it).                             *)
(***************************************************************************)
EXTENDS Integers, SequencesExt, FiniteSetsExt

CONSTANTS
  MaxSize,  \* outbound_maxsize
  MaxMsgs   \* bound: how many messages are offered to the client

ASSUME SizeAssumption == MaxSize \in Nat \ {0}
ASSUME MsgsAssumption == MaxMsgs \in Nat

VARIABLES
  connected,  \* self.connected
  transport,  \* the StreamWriter's transport
  unsent,     \* external: the transport holds bytes the peer has not taken
  queue,      \* self.outbound: message numbers, and Sentinel for None
  critical,   \* the critical messages among those accepted
  nextMsg,    \* the number of the next message offered
  dropped,    \* client_event_dropped
  wtask,      \* the writer_loop task
  written,    \* the messages given to the transport, in order
  closer      \* the tasks that run close

vars == <<connected, transport, unsent, queue, critical, nextMsg, dropped,
          wtask, written, closer>>

Sentinel == 0
Msgs == 1 .. MaxMsgs

\* "done" is a writer_loop that met the sentinel, "failed" one that stopped
\* at an exception.
WriterStates == {"get", "drain", "done", "failed", "cancelled"}

\* "handler" and "stop" close with a flush, "sender" without.  Before it
\* closes the client, "stop" is "waiting" for the server to be closed.
Closers == {"handler", "stop", "sender"}
CloserStates == {"idle", "waiting", "flushing", "closing", "done", "raised"}

TypeOK ==
  /\ connected \in BOOLEAN
  /\ transport \in {"open", "closing", "closed"}
  /\ unsent \in BOOLEAN
  /\ queue \in Seq({Sentinel} \cup Msgs) /\ Len(queue) <= MaxSize
  /\ critical \subseteq Msgs
  /\ nextMsg \in 1 .. MaxMsgs + 1
  /\ dropped \in 0 .. MaxMsgs
  /\ wtask \in WriterStates
  /\ written \in Seq(Msgs)
  /\ closer \in [Closers -> CloserStates]

Init ==
  /\ connected = TRUE
  /\ transport = "open" /\ unsent = FALSE
  /\ queue = <<>> /\ critical = {} /\ nextMsg = 1 /\ dropped = 0
  /\ wtask = "get" /\ written = <<>>
  /\ closer = [k \in Closers |-> "idle"]

-----------------------------------------------------------------------------
(* Helpers.  A definition whose name begins with Bug is a broken variant of *)
(* the one that follows it, used to show that the properties notice.        *)

IsConnected == connected /\ transport = "open"

Full == Len(queue) >= MaxSize

Running == wtask \in {"get", "drain"}

\* The positions _evict_oldest_noncritical may drop.
Evictable(q) == {i \in 1 .. Len(q) : q[i] # Sentinel /\ q[i] \notin critical}

BugEvict(q) ==
  LET i == Min(Evictable(q))
  IN  SubSeq(q, i + 1, Len(q)) \o SubSeq(q, 1, i - 1)

\* The queue without its oldest non-critical message.
Evict(q) == RemoveAt(q, Min(Evictable(q)))

\* _record_event_dropped.
EventDropped == dropped + 1

BugPutSentinelSkip(q) == IF Full THEN q ELSE Append(q, Sentinel)

\* _put_sentinel: on a full queue the oldest entry makes room.
PutSentinel(q) == Append(IF Full THEN Tail(q) ELSE q, Sentinel)

\* writer.close().
CloseTransport == IF transport = "open" THEN "closing" ELSE transport

BugWriterEnds(w) == wtask' = w /\ UNCHANGED connected

\* writer_loop returns from its except clause.
WriterEnds(w) == wtask' = w /\ connected' = FALSE

-----------------------------------------------------------------------------
(* _send.  It does not suspend before its put_nowait.  On a connection that *)
(* is not connected it changes nothing.                                     *)

\* Message nextMsg is accepted into queue q.
Accept(q, crit) ==
  /\ queue' = Append(q, nextMsg)
  /\ critical' = IF crit THEN critical \cup {nextMsg} ELSE critical

Put(crit) ==
  /\ ~Full
  /\ Accept(queue, crit)
  /\ UNCHANGED <<connected, transport, dropped, closer>>

\* On a full queue the oldest non-critical message makes room for either kind.
EvictAndPut(crit) ==
  /\ Full /\ Evictable(queue) # {}
  /\ Accept(Evict(queue), crit)
  /\ dropped' = EventDropped
  /\ UNCHANGED <<connected, transport, closer>>

DropEvent(crit) ==
  /\ ~crit
  /\ Full /\ Evictable(queue) = {}
  /\ dropped' = EventDropped
  /\ UNCHANGED <<connected, transport, queue, critical, closer>>

\* close(flush=False), as far as its wait_closed.
Disconnect(crit) ==
  /\ crit
  /\ Full /\ Evictable(queue) = {}
  /\ connected' = FALSE
  /\ transport' = CloseTransport
  /\ closer' = [closer EXCEPT !["sender"] = "closing"]
  /\ UNCHANGED <<queue, critical, dropped>>

Send(crit) ==
  /\ IsConnected
  /\ nextMsg <= MaxMsgs
  /\ nextMsg' = nextMsg + 1
  /\ Put(crit) \/ EvictAndPut(crit) \/ DropEvent(crit) \/ Disconnect(crit)
  /\ UNCHANGED <<unsent, wtask, written>>

-----------------------------------------------------------------------------
(* writer_loop.  Between two messages it suspends only when the queue is    *)
(* empty or the transport is full; the model lets other tasks run there in  *)
(* every case.                                                              *)

\* A message is given to the transport, which may keep a part of it, and may
\* keep so much that drain has to wait.
WriterWrites ==
  /\ wtask = "get" /\ queue # <<>> /\ Head(queue) # Sentinel
  /\ transport = "open" \/ (transport = "closing" /\ unsent)
  /\ queue' = Tail(queue)
  /\ written' = Append(written, Head(queue))
  /\ \/ wtask' = "get" /\ unsent' \in {unsent, TRUE}
     \/ wtask' = "drain" /\ unsent' = TRUE
  /\ UNCHANGED <<connected, transport, critical, nextMsg, dropped, closer>>

\* The message is longer than response_max_line_bytes, or the connection is
\* lost before drain returns.
WriterFails ==
  /\ \/ /\ wtask = "get" /\ queue # <<>> /\ Head(queue) # Sentinel
        /\ queue' = Tail(queue)
     \/ /\ wtask = "drain" /\ transport = "closed"
        /\ UNCHANGED queue
  /\ WriterEnds("failed")
  /\ UNCHANGED <<transport, unsent, critical, nextMsg, dropped, written, closer>>

WriterDrained ==
  /\ wtask = "drain" /\ ~unsent
  /\ wtask' = "get"
  /\ UNCHANGED <<connected, transport, unsent, queue, critical, nextMsg, dropped,
                 written, closer>>

WriterStops ==
  /\ wtask = "get" /\ queue # <<>> /\ Head(queue) = Sentinel
  /\ queue' = Tail(queue)
  /\ wtask' = "done"
  /\ UNCHANGED <<connected, transport, unsent, critical, nextMsg, dropped,
                 written, closer>>

-----------------------------------------------------------------------------
(* close *)

\* close(flush=True), as far as its first await: of the writer task if that
\* still runs, else of wait_closed.
BeginClose(k) ==
  /\ connected' = FALSE
  /\ queue' = PutSentinel(queue)
  /\ \/ /\ Running
        /\ closer' = [closer EXCEPT ![k] = "flushing"]
        /\ UNCHANGED transport
     \/ /\ ~Running
        /\ closer' = [closer EXCEPT ![k] = "closing"]
        /\ transport' = CloseTransport
  /\ UNCHANGED <<unsent, critical, nextMsg, dropped, wtask, written>>

\* _handle_client leaves its loop: at the end of its input, after a line over
\* the limit, or when it finds the client disconnected.
HandlerCloses == closer["handler"] = "idle" /\ BeginClose("handler")

\* LocalUnixSocketServer.stop, as far as server.wait_closed().
StopRequested ==
  /\ closer["stop"] = "idle"
  /\ closer' = [closer EXCEPT !["stop"] = "waiting"]
  /\ UNCHANGED <<connected, transport, unsent, queue, critical, nextMsg, dropped,
                 wtask, written>>

\* external: the server is closed when all its connections are (Python 3.12.1
\* and later).
ServerClosed == transport = "closed"

\* The server is closed: stop closes the clients whose handler has not removed
\* them from self.clients.
StopCloses ==
  /\ closer["stop"] = "waiting" /\ ServerClosed
  /\ \/ closer["handler"] = "idle" /\ BeginClose("stop")
     \/ /\ closer["handler"] # "idle"
        /\ closer' = [closer EXCEPT !["stop"] = "done"]
        /\ UNCHANGED <<connected, transport, unsent, queue, critical, nextMsg,
                       dropped, wtask, written>>

\* The writer task has ended.  Awaiting one that was cancelled raises
\* CancelledError out of close.
Flushed(k) ==
  /\ closer[k] = "flushing" /\ ~Running
  /\ \/ /\ wtask = "cancelled"
        /\ closer' = [closer EXCEPT ![k] = "raised"]
        /\ UNCHANGED transport
     \/ /\ wtask # "cancelled"
        /\ closer' = [closer EXCEPT ![k] = "closing"]
        /\ transport' = CloseTransport
  /\ UNCHANGED <<connected, unsent, queue, critical, nextMsg, dropped, wtask,
                 written>>

\* wait_closed returns.  Without a flush the writer task is cancelled now.
EndClose(k) ==
  /\ closer[k] = "closing" /\ transport = "closed"
  /\ closer' = [closer EXCEPT ![k] = "done"]
  /\ \/ /\ k = "sender"
        /\ queue' = PutSentinel(queue)
        /\ wtask' = IF Running THEN "cancelled" ELSE wtask
     \/ /\ k # "sender"
        /\ UNCHANGED <<queue, wtask>>
  /\ UNCHANGED <<connected, transport, unsent, critical, nextMsg, dropped,
                 written>>

-----------------------------------------------------------------------------
(* The transport and the peer *)

PeerReads ==
  /\ unsent
  /\ unsent' = FALSE
  /\ UNCHANGED <<connected, transport, queue, critical, nextMsg, dropped, wtask,
                 written, closer>>

PeerLost ==
  /\ transport # "closed"
  /\ transport' = "closed" /\ unsent' = FALSE
  /\ UNCHANGED <<connected, queue, critical, nextMsg, dropped, wtask, written,
                 closer>>

\* A transport that is closing is closed once its buffer is empty.
TransportCloses ==
  /\ transport = "closing" /\ ~unsent
  /\ transport' = "closed"
  /\ UNCHANGED <<connected, unsent, queue, critical, nextMsg, dropped, wtask,
                 written, closer>>

-----------------------------------------------------------------------------
WriterStep == WriterWrites \/ WriterFails \/ WriterDrained \/ WriterStops

Next ==
  \/ \E crit \in BOOLEAN : Send(crit)
  \/ WriterStep
  \/ HandlerCloses \/ StopRequested \/ StopCloses
  \/ \E k \in Closers : Flushed(k) \/ EndClose(k)
  \/ PeerReads \/ PeerLost \/ TransportCloses

Spec == Init /\ [][Next]_vars

\* Fairness of the loop: a task that can run does, and the reader of a closed
\* transport gets an end of file, which ends the handler.  The peer need not
\* read, send or disconnect.
Fairness ==
  /\ WF_vars(WriterStep)
  /\ WF_vars(TransportCloses)
  /\ \A k \in Closers : WF_vars(Flushed(k)) /\ WF_vars(EndClose(k))
  /\ WF_vars(transport = "closed" /\ HandlerCloses) /\ WF_vars(StopCloses)

FairSpec == Spec /\ Fairness

-----------------------------------------------------------------------------
(* Properties *)

\* What _send accepted is written in that order: eviction and the sentinel
\* never reorder the messages that stay.
InOrder ==
  LET Queued == {i \in 1 .. Len(queue) : queue[i] # Sentinel}
  IN  /\ \A i, j \in 1 .. Len(written) : i < j => written[i] < written[j]
      /\ \A i, j \in Queued : i < j => queue[i] < queue[j]
      /\ \A i \in 1 .. Len(written) : \A j \in Queued : written[i] < queue[j]

\* As long as the client is connected no accepted response or safety event is
\* lost: it is written or still queued.
CriticalKept ==
  connected => critical \subseteq ToSet(written) \cup ToSet(queue)

\* client_event_dropped is exact: while the client is connected, every message
\* offered is written, queued, or counted as dropped, and only once.
DropsCounted ==
  connected => nextMsg - 1 = Len(written) + Len(queue) + dropped

\* Types hold, the queue's bound among them, and what a connected client gets is
\* what was sent to it, in order, less the events that were counted as dropped.
DeliverySound == TypeOK /\ InOrder /\ CriticalKept /\ DropsCounted

\* A client that accepts messages has a writer_loop that will send them.
Served == connected => Running

Ended == {"done", "raised"}

\* A close ends, and leaves no writer task behind, unless the peer stays
\* connected and stops reading for good.
CloseEnds ==
  \/ <>[]unsent
  \/ \A k \in Closers :
       closer[k] \in {"flushing", "closing"} ~> (closer[k] \in Ended /\ ~Running)

-----------------------------------------------------------------------------
(* Claims of the documentation that the code does not keep *)

\* Responses and safety events are never dropped: a writer_loop that was flushed,
\* and met no error, has written all that _send accepted.
CriticalFlushed == wtask = "done" => critical \subseteq ToSet(written)

\* A client that does not read, or simply stays connected, never holds up the
\* task that disconnects it or the shutdown of the server.
PeerNeverHolds ==
  \A k \in {"sender", "stop"} : closer[k] # "idle" ~> closer[k] \in Ended
=============================================================================
