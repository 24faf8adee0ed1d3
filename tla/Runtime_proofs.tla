--------------------------- MODULE Runtime_proofs ---------------------------
(***************************************************************************)
(* Invariants of Runtime and of the two components it composes, for any    *)
(* number of records, any size of the queue, any number of processes that  *)
(* want the socket file and any number of inodes.                          *)
(***************************************************************************)
EXTENDS Runtime, TLAPS

-----------------------------------------------------------------------------
(* The inductive invariants *)

\* The worker has a record in hand exactly while it writes one.
WorkerInv ==
  /\ wpc \in {"none", "get", "ended", "cancelled"} \cup Writing
  /\ wpc \notin Writing => wrec = NoRecord
  /\ wpc \in Writing => wrec.id > 0
  /\ wpc \in {"hset", "publish"} => wrec.topic \in Keys
  /\ cut \in {0, 1} /\ (cut = 1 => wpc = "cancelled")

\* The numbers of the records, in the queue and in the worker's hand.
OrderInv ==
  /\ \A i \in 1 .. Len(obs) : obs[i].id = records - Len(obs) + i
  /\ wrec.id <= records - Len(obs)
  /\ joined <= records
  /\ DrainedWhenJoined

\* Updates that are still to come are newer than everything Redis has seen.
EventInv ==
  /\ \A k \in Keys : hash[k] < nextEvent
  /\ channel.event < nextEvent
  /\ \A i \in 1 .. Len(obs) : obs[i].topic \in Keys =>
       /\ obs[i].event < nextEvent
       /\ channel.event < obs[i].event
       /\ \A k \in Keys : hash[k] < obs[i].event
       /\ wpc \in {"hset", "publish"} => wrec.event < obs[i].event
       /\ \A j \in 1 .. i - 1 : obs[j].topic \in Keys => obs[j].event < obs[i].event
  /\ wpc \in {"hset", "publish"} =>
       /\ wrec.event < nextEvent
       /\ channel.event < wrec.event
       /\ \A k \in Keys : hash[k] <= wrec.event
  /\ wpc = "publish" => hash[wrec.topic] = wrec.event
  /\ channel # NoRecord => channel.topic \in Keys
  /\ HashBeforeUpdate

\* A socket, and its inode, belongs to one process.
SocketInv ==
  /\ \A p \in Procs : bound[p] # 0 => srv[p] \in Binding \cup {"up", "failed"}
  /\ \A p \in Procs : srv[p] \in Binding \cup {"up"} => bound[p] # 0
  /\ \A p, q \in Procs : p # q /\ bound[p] # 0 => bound[q] # bound[p]

\* What an undisturbed process finds at the path, at each point of start, and
\* that no other process is about to touch it.
AloneInv(p) ==
  /\ srv[p] # "failed"
  /\ srv[p] \in {"exists", "dead"} => path # 0
  /\ srv[p] = "cleared" => path = 0
  /\ srv[p] \in Binding \cup {"up"} =>
       /\ path = bound[p]
       /\ \A q \in Procs \ {p} : noted[q] # path /\ owned[q] # path
  /\ srv[p] \in {"noted", "listening", "up"} => noted[p] = path
  /\ srv[p] = "up" => owned[p] = path
  /\ srv[p] \in Starting => \A q \in Procs \ {p} : srv[q] \notin Starting \cup Removing
  /\ srv[p] = "up" => \A q \in Procs \ {p} : srv[q] \notin (Starting \ {"exists"}) \cup Removing

SockInv == SocketInv /\ \A p \in Procs \ disturbed : AloneInv(p)

\* How far the shutdown of a process that had started has come.
ShutInv ==
  /\ main = "new" => wpc = "none" /\ sd = "none"
  /\ main # "new" => wpc # "none"
  /\ sd = "none" => boards \in {"off", "on"} \/ ~Alive
  /\ main = "waiting" /\ sd = "none" => srv[Me] = "up"
  /\ main \in {"new", "registering"} => srv[Me] = "off"
  /\ sd \in {"controller", "worker", "done"} => boards = "stopped"
  /\ sd \notin {"worker", "done"} => spc = "idle"
  /\ sd = "done" => spc = "done" /\ (Alive => wpc \in {"ended", "cancelled"})
  /\ ~late /\ sd # "none" /\ Alive =>
       /\ main = "waiting"
       /\ sd = "server" => srv[Me] \in Stopping \cup {"up"}
       /\ sd # "server" => srv[Me] = "down"
  /\ srv[Me] \in Stopping \cup {"down"} => bound[Me] = 0
  /\ srv[Me] \in {"off", "down"} => clients = 0
  /\ Me \notin disturbed /\ Alive =>
       /\ srv[Me] = "closed" => path = 0 \/ maker # Me \/ path = noted[Me]
       /\ srv[Me] \in {"closing", "removing", "down"} => path = 0 \/ maker # Me

-----------------------------------------------------------------------------
(* The socket file *)

\* A step of one of the processes.
SockMove(p) ==
  \/ Start(p) \/ CloseServer(p) \/ RemoveOwn(p)
  \/ Vanish(p, "down") \/ Vanish(p, "off")

\* The fields of the processes keep their types.
LEMMA SockTypes ==
  ASSUME SockTypeOK, NEW p \in Procs, SockMove(p)
  PROVE  SockTypeOK'
<1> USE InodesAssumption DEF SockTypeOK, Goto, Starting, Preparing, Binding, Refused, Stopping
<1>1. CASE Exists(p) \/ Connect(p) \/ UnlinkDead(p) \/ Clear(p)
  BY <1>1 DEF Exists, Connect, UnlinkDead, Clear, Others
<1>2. CASE Bind(p)
  BY <1>2 DEF Bind, Free
<1>3. CASE Note(p) \/ Listen(p) \/ Own(p)
  BY <1>3 DEF Note, Listen, Own
<1>4. CASE CloseServer(p)
  BY <1>4 DEF CloseServer, CloseSocket, StatPath, UnlinkPath, Disturb, Others
<1>5. CASE RemoveOwn(p)
  BY <1>5 DEF RemoveOwn, OwnsSocketPath, UnlinkOwn, Disturb, Others
<1>6. CASE Vanish(p, "down") \/ Vanish(p, "off")
  BY <1>6 DEF Vanish
<1> QED
  BY <1>1, <1>2, <1>3, <1>4, <1>5, <1>6 DEF SockMove, Start

\* Every socket has its inode for itself.
LEMMA SocketStep ==
  ASSUME SockTypeOK, SocketInv, NEW p \in Procs, SockMove(p)
  PROVE  SocketInv'
<1> USE InodesAssumption DEF SockTypeOK, SocketInv, Goto, Binding
<1>1. CASE Exists(p) \/ Connect(p) \/ UnlinkDead(p) \/ Clear(p)
  BY <1>1 DEF Exists, Connect, UnlinkDead, Clear
<1>2. CASE Bind(p)
  BY <1>2 DEF Bind, Free, Range
<1>3. CASE Note(p) \/ Listen(p) \/ Own(p)
  BY <1>3 DEF Note, Listen, Own
<1>4. CASE CloseServer(p)
  BY <1>4 DEF CloseServer, CloseSocket, StatPath, UnlinkPath
<1>5. CASE RemoveOwn(p)
  BY <1>5 DEF RemoveOwn, OwnsSocketPath, UnlinkOwn
<1>6. CASE Vanish(p, "down") \/ Vanish(p, "off")
  BY <1>6 DEF Vanish
<1> QED
  BY <1>1, <1>2, <1>3, <1>4, <1>5, <1>6 DEF SockMove, Start

\* The process that takes the step stays alone with the file as long as it is
\* undisturbed.
LEMMA MoverStep ==
  ASSUME SockTypeOK, SockInv, NEW p \in Procs, SockMove(p), p \notin disturbed'
  PROVE  AloneInv(p)'
<1> USE InodesAssumption DEF SockTypeOK, SockInv, SocketInv, AloneInv, Goto,
        Starting, Preparing, Binding, Removing
<1>1. CASE Exists(p)
  BY <1>1 DEF Exists, Others
<1>2. CASE Connect(p) \/ UnlinkDead(p) \/ Clear(p)
  BY <1>2 DEF Connect, UnlinkDead, Clear
<1>3. CASE Bind(p)
  BY <1>3 DEF Bind, Free
<1>4. CASE Note(p) \/ Listen(p) \/ Own(p)
  BY <1>4 DEF Note, Listen, Own
<1>5. CASE CloseServer(p) \/ RemoveOwn(p)
  BY <1>5 DEF CloseServer, CloseSocket, StatPath, UnlinkPath, RemoveOwn, OwnsSocketPath, UnlinkOwn
<1>6. CASE Vanish(p, "down") \/ Vanish(p, "off")
  BY <1>6 DEF Vanish
<1> QED
  BY <1>1, <1>2, <1>3, <1>4, <1>5, <1>6 DEF SockMove, Start

\* And it does not touch the file of another that is undisturbed.
LEMMA OtherStep ==
  ASSUME SockTypeOK, SockInv, NEW p \in Procs, SockMove(p),
         NEW r \in Procs, r # p, r \notin disturbed'
  PROVE  AloneInv(r)'
<1> USE InodesAssumption DEF SockTypeOK, SockInv, SocketInv, AloneInv, Goto,
        Starting, Preparing, Binding, Removing
<1>1. CASE Exists(p)
  BY <1>1 DEF Exists, Others
<1>2. CASE Connect(p)
  BY <1>2 DEF Connect, Live
<1>3. CASE UnlinkDead(p) \/ Clear(p)
  BY <1>3 DEF UnlinkDead, Clear
<1>4. CASE Bind(p)
  BY <1>4 DEF Bind, Free
<1>5. CASE Note(p) \/ Listen(p) \/ Own(p)
  BY <1>5 DEF Note, Listen, Own
<1>6. CASE CloseServer(p)
  BY <1>6 DEF CloseServer, CloseSocket, StatPath, UnlinkPath, Disturb, Others
<1>7. CASE RemoveOwn(p)
  BY <1>7 DEF RemoveOwn, OwnsSocketPath, UnlinkOwn, Disturb, Others
<1>8. CASE Vanish(p, "down") \/ Vanish(p, "off")
  BY <1>8 DEF Vanish
<1> QED
  BY <1>1, <1>2, <1>3, <1>4, <1>5, <1>6, <1>7, <1>8 DEF SockMove, Start

\* Every system call of start and stop, and a crash, keeps the undisturbed
\* processes out of each other's way.
LEMMA SockStep ==
  ASSUME SockTypeOK, SockInv, NEW p \in Procs, SockMove(p)
  PROVE  SockInv'
<1>1. SocketInv'
  BY SocketStep DEF SockInv
<1>2. ASSUME NEW r \in Procs \ disturbed'
      PROVE  AloneInv(r)'
  BY MoverStep, OtherStep
<1> QED
  BY <1>1, <1>2 DEF SockInv

\* Both hold when the first process starts, with or without an old file.
LEMMA SockBegins ==
  ASSUME SockInit
  PROVE  SockTypeOK /\ SockInv
BY InodesAssumption DEF SockInit, SockTypeOK, SockInv, SocketInv, AloneInv, Starting, Preparing,
     Binding, Refused, Stopping

-----------------------------------------------------------------------------
(* The queue and the worker *)

\* The types of the queue and of what the worker writes.
ObsTypes ==
  /\ obs \in Seq(Records) /\ Len(obs) <= ObsSize
  /\ records \in 0 .. MaxRecords
  /\ nextEvent \in 1 .. records + 1
  /\ unfinished \in Nat
  /\ counters \in [dropped : Nat, failures : Nat, written : Nat]
  /\ wrec \in Records
  /\ hash \in [Keys -> 0 .. MaxRecords]
  /\ channel \in Records

\* The types of stop().
StopTypes ==
  /\ wstop \in BOOLEAN
  /\ spc \in {"idle", "join", "await", "done"}
  /\ joined \in -1 .. MaxRecords

ObsInv == ObsTypes /\ StopTypes /\ WorkerInv /\ Accounting /\ OrderInv /\ EventInv

\* A record has a number, a topic and an event.
LEMMA RecordFields ==
  /\ NoRecord \in Records /\ NoRecord.id = 0 /\ NoRecord.event = 0
  /\ \A r \in Records : r.id \in 0 .. MaxRecords /\ r.event \in 0 .. MaxRecords
BY ObsAssumption DEF NoRecord, Records, Stream

\* What enqueue does to the queue: at most the oldest record goes, the others
\* keep their order, and the new one is last.
LEMMA PushFacts ==
  ASSUME ObsTypes, NEW r \in Records, Push(r)
  PROVE  \E d \in {0, 1} :
           /\ d = 1 <=> Len(obs) = ObsSize
           /\ obs' \in Seq(Records) /\ Len(obs') = Len(obs) + 1 - d /\ Len(obs') <= ObsSize
           /\ \A i \in 1 .. Len(obs') :
                obs'[i] = IF i = Len(obs') THEN r ELSE obs[i + d]
           /\ unfinished' = unfinished + 1 - d
           /\ counters' \in [dropped : Nat, failures : Nat, written : Nat]
           /\ counters'.dropped = counters.dropped + d
           /\ counters'.failures = counters.failures /\ counters'.written = counters.written
<1> USE ObsAssumption DEF ObsTypes
<1>0. Len(obs) \in Nat
  OBVIOUS
<1>c. counters.dropped \in Nat
  OBVIOUS
<1>1. CASE Len(obs) = ObsSize
  <2>1. obs # <<>> /\ Tail(obs) \in Seq(Records) /\ Len(Tail(obs)) = Len(obs) - 1
    BY <1>1
  <2>2. \A i \in 1 .. Len(obs) - 1 : Tail(obs)[i] = obs[i + 1]
    BY <2>1
  <2>3. obs' = Append(Tail(obs), r)
    BY <1>1 DEF Push
  <2>4. obs' \in Seq(Records) /\ Len(obs') = Len(obs)
    BY <2>1, <2>3, <1>0
  <2>5. \A i \in 1 .. Len(obs') : obs'[i] = IF i = Len(obs') THEN r ELSE obs[i + 1]
    <3> SUFFICES ASSUME NEW i \in 1 .. Len(obs')
                 PROVE  obs'[i] = IF i = Len(obs') THEN r ELSE obs[i + 1]
      OBVIOUS
    <3>1. CASE i = Len(obs')
      BY <3>1, <2>1, <2>3, <2>4, <1>0
    <3>2. CASE i # Len(obs')
      <4>0. i \in 1 .. Len(obs) - 1
        <5> HIDE DEF ObsTypes
        <5> QED
          BY <3>2, <2>4, <1>0
      <4>1. i \in 1 .. Len(Tail(obs))
        BY <4>0, <2>1
      <4>2. obs'[i] = Tail(obs)[i]
        BY <4>1, <2>1, <2>3
      <4> QED
        BY <4>1, <4>2, <2>1, <2>2, <3>2
    <3> QED
      BY <3>1, <3>2
  <2>6. unfinished' = unfinished + 1 - 1
    BY <1>1 DEF Push
  <2>7. counters' = [counters EXCEPT !.dropped = counters.dropped + 1]
    BY <1>1 DEF Push
  <2>8. /\ counters' \in [dropped : Nat, failures : Nat, written : Nat]
        /\ counters'.dropped = counters.dropped + 1
        /\ counters'.failures = counters.failures /\ counters'.written = counters.written
    BY <2>7, <1>c
  <2> WITNESS 1 \in {0, 1}
  <2> QED
    BY <1>0, <1>1, <2>4, <2>5, <2>6, <2>8
<1>2. CASE Len(obs) # ObsSize
  <2>1. obs' = Append(obs, r)
    BY <1>2 DEF Push
  <2>2. obs' \in Seq(Records) /\ Len(obs') = Len(obs) + 1 /\ Len(obs') <= ObsSize
    BY <2>1, <1>0, <1>2
  <2>3. \A i \in 1 .. Len(obs') : obs'[i] = IF i = Len(obs') THEN r ELSE obs[i + 0]
    BY <2>1, <2>2, <1>0
  <2>4. unfinished' = unfinished + 1 - 0
    BY <1>2 DEF Push
  <2>5. counters' = counters
    BY <1>2 DEF Push
  <2> QED
    BY <1>0, <1>2, <1>c, <2>2, <2>3, <2>4, <2>5
<1> QED
  BY <1>1, <1>2

\* What the worker's get does to the queue.
LEMMA GetFacts ==
  ASSUME ObsTypes, obs # <<>>, obs' = Tail(obs)
  PROVE  /\ Len(obs) \in Nat /\ Len(obs) > 0
         /\ obs' \in Seq(Records) /\ Len(obs') = Len(obs) - 1
         /\ Head(obs) = obs[1] /\ Head(obs) \in Records
         /\ \A i \in 1 .. Len(obs') : obs'[i] = obs[i + 1]
BY DEF ObsTypes

\* Enqueueing a record, whatever the worker is doing meanwhile.
LEMMA EnqueueStep ==
  ASSUME ObsInv, Enqueue
  PROVE  ObsInv'
<1> USE ObsAssumption
<1>0. /\ Len(obs) \in Nat /\ records \in Nat /\ nextEvent \in Nat /\ nextEvent <= records + 1
      /\ records < MaxRecords /\ nextEvent >= 1
      /\ records' = records + 1
      /\ UNCHANGED <<cut, wpc, wrec, wstop, spc, joined, hash, channel>>
  BY DEF ObsInv, ObsTypes, Enqueue, EnqueueState, EnqueueStream
<1>1. \E r \in Records :
        /\ Push(r) /\ r.id = records + 1
        /\ \/ r.topic \notin Keys /\ nextEvent' = nextEvent
           \/ r.event = nextEvent /\ nextEvent' = nextEvent + 1
  <2>1. CASE EnqueueStream
    <3>1. StreamRecord \in Records /\ StreamRecord.id = records + 1
          /\ StreamRecord.topic \notin Keys
      BY <1>0, KeysAssumption DEF StreamRecord, Records
    <3> QED
      BY <3>1, <2>1 DEF EnqueueStream
  <2>2. ASSUME NEW k \in Keys, EnqueueState(k)
        PROVE  \E r \in Records :
                 /\ Push(r) /\ r.id = records + 1
                 /\ \/ r.topic \notin Keys /\ nextEvent' = nextEvent
                    \/ r.event = nextEvent /\ nextEvent' = nextEvent + 1
    <3>1. StateRecord(k) \in Records /\ StateRecord(k).id = records + 1
          /\ StateRecord(k).event = nextEvent
      BY <1>0 DEF StateRecord, Records
    <3> QED
      BY <3>1, <2>2 DEF EnqueueState
  <2> QED
    BY <2>1, <2>2 DEF Enqueue
<1>2. PICK r \in Records :
        /\ Push(r) /\ r.id = records + 1
        /\ \/ r.topic \notin Keys /\ nextEvent' = nextEvent
           \/ r.event = nextEvent /\ nextEvent' = nextEvent + 1
  BY <1>1
<1>3. PICK d \in {0, 1} :
           /\ d = 1 <=> Len(obs) = ObsSize
           /\ obs' \in Seq(Records) /\ Len(obs') = Len(obs) + 1 - d /\ Len(obs') <= ObsSize
           /\ \A i \in 1 .. Len(obs') :
                obs'[i] = IF i = Len(obs') THEN r ELSE obs[i + d]
           /\ unfinished' = unfinished + 1 - d
           /\ counters' \in [dropped : Nat, failures : Nat, written : Nat]
           /\ counters'.dropped = counters.dropped + d
           /\ counters'.failures = counters.failures /\ counters'.written = counters.written
  BY <1>2, PushFacts DEF ObsInv
<1>n. /\ Len(obs') \in Nat /\ Len(obs') = Len(obs) + 1 - d /\ d \in {0, 1}
      /\ unfinished' = unfinished + 1 - d /\ counters'.dropped = counters.dropped + d
      /\ counters'.failures = counters.failures /\ counters'.written = counters.written
  BY <1>0, <1>3
<1>4. ObsTypes' /\ StopTypes'
  <2>1. unfinished' \in Nat
    BY SMTT(60), <1>0, <1>3 DEF ObsInv, Accounting, Busy
  <2>2. records' \in 0 .. MaxRecords /\ nextEvent' \in 1 .. records' + 1
    BY <1>0, <1>2
  <2> QED
    BY <1>0, <1>3, <2>1, <2>2 DEF ObsInv, ObsTypes, StopTypes
<1>5. WorkerInv'
  BY <1>0 DEF ObsInv, WorkerInv
<1>6. Accounting'
  <2>1. /\ counters.dropped \in Nat /\ counters.failures \in Nat /\ counters.written \in Nat
        /\ Busy \in {0, 1} /\ Busy' = Busy /\ cut \in {0, 1} /\ cut' = cut
    BY <1>0 DEF ObsInv, ObsTypes, Busy, WorkerInv
  <2>2. /\ records = counters.written + counters.failures + counters.dropped + cut + Busy + Len(obs)
        /\ unfinished = Len(obs) + Busy
    BY DEF ObsInv, Accounting
  <2>3. records' = counters'.written + counters'.failures + counters'.dropped + cut + Busy
                   + Len(obs')
    <3>1. ASSUME NEW w \in Nat, NEW f \in Nat, NEW x \in Nat, NEW c \in Nat, NEW b \in Nat,
                 NEW n \in Nat, NEW e \in {0, 1}
          PROVE  (w + f + x + c + b + n) + 1 = w + f + (x + e) + c + b + (n + 1 - e)
      BY <3>1
    <3>2. cut \in Nat /\ Busy \in Nat
      BY <2>1
    <3>3. records' = (counters.written + counters.failures + counters.dropped + cut + Busy
                       + Len(obs)) + 1
      BY <1>0, <2>2
    <3>4. records' = counters.written + counters.failures + (counters.dropped + d) + cut + Busy
                       + (Len(obs) + 1 - d)
      BY SMTT(60), <3>1, <3>2, <3>3, <1>0, <2>1
    <3> QED
      BY <3>4, <1>n
  <2>4. unfinished' = Len(obs') + Busy
    BY <1>0, <1>n, <2>1, <2>2
  <2> QED
    BY <2>1, <2>3, <2>4 DEF Accounting
<1>7. ASSUME NEW i \in 1 .. Len(obs')
      PROVE  \/ i = Len(obs') /\ obs'[i] = r
             \/ i + d \in 1 .. Len(obs) /\ obs'[i] = obs[i + d]
  BY SMTT(60), <1>0, <1>3
<1>8. OrderInv'
  <2>1. /\ \A i \in 1 .. Len(obs) : obs[i].id = records - Len(obs) + i
        /\ wrec.id \in Nat /\ wrec.id <= records - Len(obs)
        /\ joined \in Int /\ joined <= records
    BY RecordFields DEF ObsInv, OrderInv, StopTypes, ObsTypes
  <2>2. ASSUME NEW i \in 1 .. Len(obs')
        PROVE  obs'[i].id = records' - Len(obs') + i
    <3>1. CASE i = Len(obs') /\ obs'[i] = r
      BY <3>1, <1>0, <1>n, <1>2
    <3>2. CASE i + d \in 1 .. Len(obs) /\ obs'[i] = obs[i + d]
      <4>1. obs[i + d].id = records - Len(obs) + (i + d)
        BY <3>2, <2>1
      <4>2. records - Len(obs) + (i + d) = records' - Len(obs') + i
        BY <1>0, <1>n
      <4> QED
        BY <3>2, <4>1, <4>2
    <3> QED
      BY <3>1, <3>2, <1>7
  <2>3. wrec'.id <= records' - Len(obs') /\ joined' <= records'
    BY <1>0, <1>n, <2>1
  <2>4. DrainedWhenJoined'
    <3>1. joined >= 0 => /\ \A i \in 1 .. Len(obs) : obs[i].id > joined
                         /\ wrec # NoRecord => wrec.id > joined
      BY DEF ObsInv, OrderInv, DrainedWhenJoined
    <3>2. ASSUME joined' >= 0, NEW i \in 1 .. Len(obs')
          PROVE  obs'[i].id > joined'
      <4>1. CASE obs'[i] = r
        BY <4>1, <1>0, <1>2, <2>1
      <4>2. CASE i + d \in 1 .. Len(obs) /\ obs'[i] = obs[i + d]
        BY <3>1, <3>2, <4>2, <1>0
      <4> QED
        BY <4>1, <4>2, <1>7
    <3> QED
      BY <3>1, <3>2, <1>0 DEF DrainedWhenJoined
  <2> QED
    BY <2>2, <2>3, <2>4 DEF OrderInv
<1>9. EventInv'
  <2>0. /\ \A k \in Keys : hash[k] \in Nat
        /\ channel.event \in Nat /\ wrec.event \in Nat
        /\ \A i \in 1 .. Len(obs) : obs[i].event \in Nat
        /\ r.event \in Nat
    BY RecordFields DEF ObsInv, ObsTypes
  <2>1. nextEvent' \in Nat /\ nextEvent' >= nextEvent /\ (r.topic \in Keys => r.event = nextEvent)
        /\ (r.topic \in Keys => nextEvent' = nextEvent + 1)
    BY <1>0, <1>2
  <2>2. ASSUME NEW i \in 1 .. Len(obs'), obs'[i].topic \in Keys
        PROVE  /\ obs'[i].event < nextEvent'
               /\ channel'.event < obs'[i].event
               /\ \A k \in Keys : hash'[k] < obs'[i].event
               /\ wpc' \in {"hset", "publish"} => wrec'.event < obs'[i].event
    <3>1. CASE obs'[i] = r
      BY <3>1, <2>2, <1>0, <2>0, <2>1 DEF ObsInv, EventInv
    <3>2. CASE i + d \in 1 .. Len(obs) /\ obs'[i] = obs[i + d]
      <4>1. /\ obs[i + d].event < nextEvent
            /\ channel.event < obs[i + d].event
            /\ \A k \in Keys : hash[k] < obs[i + d].event
            /\ wpc \in {"hset", "publish"} => wrec.event < obs[i + d].event
        BY <2>2, <3>2 DEF ObsInv, EventInv
      <4> QED
        BY <3>2, <4>1, <1>0, <2>0, <2>1
    <3> QED
      BY <3>1, <3>2, <1>7
  <2>3. ASSUME NEW i \in 1 .. Len(obs'), obs'[i].topic \in Keys,
               NEW j \in 1 .. i - 1, obs'[j].topic \in Keys
        PROVE  obs'[j].event < obs'[i].event
    <3>1. j \in 1 .. Len(obs') /\ j # Len(obs') /\ j < i
      BY <1>0, <1>3
    <3>2. j + d \in 1 .. Len(obs) /\ obs'[j] = obs[j + d]
      BY <3>1, <1>7
    <3>3. CASE obs'[i] = r
      BY <2>1, <2>3, <3>2, <3>3 DEF ObsInv, EventInv
    <3>4. CASE i + d \in 1 .. Len(obs) /\ obs'[i] = obs[i + d]
      <4>1. j + d \in 1 .. (i + d) - 1
        BY <3>1, <3>2, <3>4, <1>3
      <4> QED
        BY <2>3, <3>2, <3>4, <4>1 DEF ObsInv, EventInv
    <3> QED
      BY <3>3, <3>4, <1>7
  <2>4. /\ \A k \in Keys : hash'[k] < nextEvent'
        /\ channel'.event < nextEvent'
        /\ wpc' \in {"hset", "publish"} =>
             /\ wrec'.event < nextEvent'
             /\ channel'.event < wrec'.event
             /\ \A k \in Keys : hash'[k] <= wrec'.event
    BY <1>0, <2>0, <2>1 DEF ObsInv, EventInv
  <2>5. /\ wpc' = "publish" => hash'[wrec'.topic] = wrec'.event
        /\ channel' # NoRecord => channel'.topic \in Keys
        /\ HashBeforeUpdate'
    BY <1>0 DEF ObsInv, EventInv, HashBeforeUpdate
  <2> QED
    BY <2>2, <2>3, <2>4, <2>5 DEF EventInv
<1> QED
  BY <1>4, <1>5, <1>6, <1>8, <1>9 DEF ObsInv

\* What a call to Redis may have done, whether it answered or was given up: the
\* replica only goes forward, and stays behind everything still to be written.
LEMMA ResidueFacts ==
  ASSUME ObsInv, Residue
  PROVE  /\ hash' \in [Keys -> 0 .. MaxRecords] /\ channel' \in Records
         /\ \A k \in Keys : hash[k] <= hash'[k] /\ hash'[k] < nextEvent
         /\ channel'.event < nextEvent
         /\ channel' # channel => channel'.event > channel.event
         /\ \A i \in 1 .. Len(obs) : obs[i].topic \in Keys =>
              /\ channel'.event < obs[i].event
              /\ \A k \in Keys : hash'[k] < obs[i].event
         /\ channel' # NoRecord =>
              channel'.topic \in Keys /\ channel'.event <= hash'[channel'.topic]
         /\ wpc \in {"hset", "publish"} => \A k \in Keys : hash'[k] <= wrec.event
<1> USE ObsAssumption
<1>0. /\ \A k \in Keys : hash[k] \in 0 .. MaxRecords
      /\ channel.event \in 0 .. MaxRecords /\ wrec.event \in 0 .. MaxRecords
      /\ nextEvent \in Nat
      /\ wrec \in Records /\ channel \in Records
      /\ hash \in [Keys -> 0 .. MaxRecords]
      /\ \A i \in 1 .. Len(obs) : obs[i] \in Records /\ obs[i].event \in 0 .. MaxRecords
  BY RecordFields DEF ObsInv, ObsTypes
<1>1. CASE UNCHANGED <<hash, channel>>
  BY <1>0, <1>1 DEF ObsInv, EventInv, HashBeforeUpdate
<1>2. CASE /\ wpc = "hset" /\ hash' = [hash EXCEPT ![wrec.topic] = wrec.event]
           /\ UNCHANGED channel
  <2>1. wrec.topic \in Keys
    BY <1>2 DEF ObsInv, WorkerInv
  <2>2. \A k \in Keys : hash'[k] = hash[k] \/ hash'[k] = wrec.event
    BY <1>0, <1>2
  <2>3. hash' \in [Keys -> 0 .. MaxRecords]
    BY <1>0, <1>2
  <2>4. \A k \in Keys : hash[k] <= hash'[k] /\ hash'[k] < nextEvent /\ hash'[k] <= wrec.event
    BY <1>0, <1>2, <2>2 DEF ObsInv, EventInv
  <2>5. ASSUME NEW i \in 1 .. Len(obs), obs[i].topic \in Keys
        PROVE  /\ channel'.event < obs[i].event
               /\ \A k \in Keys : hash'[k] < obs[i].event
    BY <1>0, <1>2, <2>2, <2>5 DEF ObsInv, EventInv
  <2>6. channel' # NoRecord => channel'.topic \in Keys /\ channel'.event <= hash'[channel'.topic]
    <3>1. channel # NoRecord => channel.topic \in Keys /\ channel.event <= hash[channel.topic]
      BY DEF ObsInv, EventInv, HashBeforeUpdate
    <3> QED
      BY <3>1, <1>0, <1>2, <2>3, <2>4
  <2> QED
    BY <1>0, <1>2, <2>3, <2>4, <2>5, <2>6 DEF ObsInv, EventInv
<1>3. CASE wpc = "publish" /\ channel' = wrec /\ UNCHANGED hash
  <2>1. wrec.topic \in Keys
    BY <1>3 DEF ObsInv, WorkerInv
  <2>2. /\ wrec.event < nextEvent /\ channel.event < wrec.event
        /\ \A k \in Keys : hash[k] <= wrec.event
        /\ hash[wrec.topic] = wrec.event
        /\ \A k \in Keys : hash[k] < nextEvent
    BY <1>3 DEF ObsInv, EventInv
  <2>3. ASSUME NEW i \in 1 .. Len(obs), obs[i].topic \in Keys
        PROVE  wrec.event < obs[i].event /\ \A k \in Keys : hash[k] < obs[i].event
    BY <1>3, <2>3 DEF ObsInv, EventInv
  <2> QED
    BY <1>0, <1>3, <2>1, <2>2, <2>3
<1> QED
  BY <1>1, <1>2, <1>3 DEF Residue

\* The worker lets go of its record: it is written, has failed or was cut short.
LEMMA ReleaseStep ==
  ASSUME ObsInv, wpc \in Writing, wpc' \in {"get", "ended", "cancelled"}, wrec' = NoRecord,
         Residue, unfinished' = unfinished - 1,
         UNCHANGED <<obs, records, nextEvent, joined>>, StopTypes',
         \/ /\ counters' = [counters EXCEPT !.written = @ + 1]
            /\ UNCHANGED cut
         \/ /\ counters' = [counters EXCEPT !.failures = @ + 1]
            /\ UNCHANGED cut
         \/ wpc' = "cancelled" /\ cut' = cut + 1 /\ UNCHANGED counters
  PROVE  ObsInv'
<1> USE ObsAssumption
<1>0. /\ Len(obs) \in Nat /\ records \in Nat /\ cut = 0
      /\ counters.dropped \in Nat /\ counters.failures \in Nat /\ counters.written \in Nat
      /\ counters \in [dropped : Nat, failures : Nat, written : Nat]
      /\ Busy = 1 /\ Busy' = 0 /\ wpc' \notin Writing
  BY DEF ObsInv, ObsTypes, WorkerInv, Writing, Busy
<1>1. /\ records = counters.written + counters.failures + counters.dropped + 0 + 1 + Len(obs)
      /\ unfinished = Len(obs) + 1
  BY <1>0 DEF ObsInv, Accounting
<1>2. /\ counters' \in [dropped : Nat, failures : Nat, written : Nat]
      /\ cut' \in {0, 1} /\ (cut' = 1 => wpc' = "cancelled")
      /\ counters'.written + counters'.failures + counters'.dropped + cut'
           = counters.written + counters.failures + counters.dropped + 1
  <2>1. CASE counters' = [counters EXCEPT !.written = @ + 1] /\ UNCHANGED cut
    <3>1. /\ counters'.written = counters.written + 1
          /\ counters'.failures = counters.failures /\ counters'.dropped = counters.dropped
          /\ counters' \in [dropped : Nat, failures : Nat, written : Nat]
      BY <1>0, <2>1
    <3> QED
      BY <1>0, <2>1, <3>1
  <2>2. CASE counters' = [counters EXCEPT !.failures = @ + 1] /\ UNCHANGED cut
    <3>1. /\ counters'.failures = counters.failures + 1
          /\ counters'.written = counters.written /\ counters'.dropped = counters.dropped
          /\ counters' \in [dropped : Nat, failures : Nat, written : Nat]
      BY <1>0, <2>2
    <3> QED
      BY <1>0, <2>2, <3>1
  <2>3. CASE wpc' = "cancelled" /\ cut' = cut + 1 /\ UNCHANGED counters
    BY <1>0, <2>3
  <2> QED
    BY <2>1, <2>2, <2>3
<1>3. ObsTypes'
  <2>1. unfinished' \in Nat
    BY <1>0, <1>1
  <2>2. NoRecord \in Records
    BY RecordFields
  <2>3. hash' \in [Keys -> 0 .. MaxRecords] /\ channel' \in Records
    BY ResidueFacts
  <2> QED
    BY <1>2, <2>1, <2>2, <2>3 DEF ObsInv, ObsTypes
<1>4. WorkerInv'
  BY <1>0, <1>2 DEF WorkerInv, Writing
<1>5. Accounting'
  <2>1. unfinished' = Len(obs) + 0
    BY <1>0, <1>1
  <2>2. records = counters'.written + counters'.failures + counters'.dropped + cut' + 0 + Len(obs)
    <3>1. /\ counters'.written \in Nat /\ counters'.failures \in Nat
          /\ counters'.dropped \in Nat /\ cut' \in Nat
      BY <1>2
    <3> QED
      BY SMTT(60), <3>1, <1>0, <1>1, <1>2
  <2> QED
    BY <1>0, <2>1, <2>2 DEF Accounting
<1>6. OrderInv'
  <2>1. wrec'.id = 0 /\ 0 <= records - Len(obs)
    BY <1>0, <1>1, RecordFields
  <2> QED
    BY <2>1 DEF ObsInv, OrderInv, DrainedWhenJoined
<1>7. EventInv'
  BY <1>0, ResidueFacts DEF ObsInv, EventInv, HashBeforeUpdate, Writing
<1> QED
  BY <1>3, <1>4, <1>5, <1>6, <1>7 DEF ObsInv

\* A step that leaves the records where they are.
LEMMA QuietStep ==
  ASSUME ObsInv,
         UNCHANGED <<obs, records, nextEvent, unfinished, counters, cut, wrec, hash, channel>>,
         \/ wpc' = wpc
         \/ wpc \in {"none", "get"} /\ wpc' \in {"get", "ended", "cancelled"}
         \/ wpc = "cancelled" /\ wpc' = "cancelled",
         StopTypes', joined' = joined \/ (joined' = records /\ unfinished = 0)
  PROVE  ObsInv'
<1>0. (wpc' \in Writing <=> wpc \in Writing) /\ (wpc \in Writing => wpc' = wpc)
  BY DEF Writing
<1>1. ObsTypes' /\ WorkerInv' /\ EventInv'
  BY <1>0 DEF ObsInv, ObsTypes, WorkerInv, EventInv, HashBeforeUpdate, Writing
<1>2. Accounting'
  BY <1>0 DEF ObsInv, Accounting, Busy
<1>3. OrderInv'
  <2>1. CASE joined' = joined
    BY <2>1 DEF ObsInv, OrderInv, DrainedWhenJoined
  <2>2. CASE joined' = records /\ unfinished = 0
    <3>1. Len(obs) \in Nat /\ Busy \in {0, 1} /\ unfinished = Len(obs) + Busy /\ records \in Nat
      BY DEF ObsInv, ObsTypes, Accounting, Busy
    <3>2. Len(obs) = 0 /\ Busy = 0
      BY <2>2, <3>1
    <3>3. wrec = NoRecord
      BY <3>2 DEF ObsInv, WorkerInv, Busy
    <3>4. 1 .. Len(obs') = {}
      BY <3>2
    <3>5. joined' <= records'
      BY <2>2, <3>1
    <3> QED
      BY <3>3, <3>4, <3>5 DEF ObsInv, OrderInv, DrainedWhenJoined
  <2> QED
    BY <2>1, <2>2
<1> QED
  BY <1>1, <1>2, <1>3 DEF ObsInv

\* The worker takes the oldest record.
LEMMA GetStep ==
  ASSUME ObsInv, WorkerGet
  PROVE  ObsInv'
<1> USE ObsAssumption
<1>0. /\ UNCHANGED <<records, nextEvent, unfinished, counters, cut, wstop, spc, joined, hash,
                     channel>>
      /\ wpc = "get" /\ obs # <<>> /\ obs' = Tail(obs) /\ wrec' = Head(obs)
      /\ wpc' \in {FirstCall(Head(obs)), "skip"}
  BY DEF WorkerGet
<1>1. /\ Len(obs) \in Nat /\ Len(obs) > 0
      /\ obs' \in Seq(Records) /\ Len(obs') = Len(obs) - 1
      /\ wrec' = obs[1] /\ wrec' \in Records /\ 1 \in 1 .. Len(obs)
      /\ \A i \in 1 .. Len(obs') : obs'[i] = obs[i + 1]
  BY <1>0, GetFacts DEF ObsInv
<1>2. \A i \in 1 .. Len(obs') : i + 1 \in 1 .. Len(obs) /\ obs'[i] = obs[i + 1]
  BY <1>1
<1>3. /\ wpc' \in {"hset", "xadd", "skip"}
      /\ wpc' = "hset" => obs[1].topic \in Keys
  BY <1>0, <1>1 DEF FirstCall
<1>4. /\ records \in Nat /\ Len(obs) <= records /\ Len(obs) <= ObsSize
      /\ joined \in Int /\ joined <= records
      /\ Busy = 0 /\ Busy' = 1 /\ cut = 0
      /\ \A i \in 1 .. Len(obs) : obs[i].id = records - Len(obs) + i
      /\ \A i \in 1 .. Len(obs) : obs[i].event \in Nat
  <2>1. cut = 0 /\ Busy = 0 /\ Busy' = 1
    BY <1>0, <1>3 DEF ObsInv, WorkerInv, Busy, Writing
  <2>2. /\ counters.dropped \in Nat /\ counters.failures \in Nat /\ counters.written \in Nat
        /\ records \in Nat
    BY DEF ObsInv, ObsTypes
  <2>3. records = counters.written + counters.failures + counters.dropped + 0 + 0 + Len(obs)
    BY <2>1 DEF ObsInv, Accounting
  <2>4. Len(obs) <= records
    BY <1>1, <2>2, <2>3
  <2>5. /\ joined \in Int /\ joined <= records /\ Len(obs) <= ObsSize
        /\ \A i \in 1 .. Len(obs) : obs[i].id = records - Len(obs) + i
    BY DEF ObsInv, OrderInv, StopTypes, ObsTypes
  <2>6. \A i \in 1 .. Len(obs) : obs[i].event \in Nat
    BY RecordFields DEF ObsInv, ObsTypes
  <2> QED
    BY <2>1, <2>2, <2>4, <2>5, <2>6
<1>5. obs[1].id = records - Len(obs) + 1 /\ obs[1].id > 0
  BY <1>1, <1>4
<1>6. ObsTypes' /\ StopTypes'
  BY <1>0, <1>1, <1>4 DEF ObsInv, ObsTypes, StopTypes
<1>7. WorkerInv'
  BY <1>0, <1>1, <1>3, <1>4, <1>5 DEF WorkerInv, Writing
<1>8. Accounting'
  <2>1. /\ counters.dropped \in Nat /\ counters.failures \in Nat /\ counters.written \in Nat
    BY DEF ObsInv, ObsTypes
  <2>2. /\ records = counters.written + counters.failures + counters.dropped + cut + 0 + Len(obs)
        /\ unfinished = Len(obs) + 0
    BY <1>4 DEF ObsInv, Accounting
  <2>3. /\ records = counters.written + counters.failures + counters.dropped + cut + 1 + Len(obs')
        /\ unfinished = Len(obs') + 1
    BY SMTT(60), <2>1, <2>2, <1>1, <1>4
  <2> QED
    BY <2>3, <1>0, <1>4 DEF Accounting
<1>9. OrderInv'
  <2>1. ASSUME NEW i \in 1 .. Len(obs')
        PROVE  obs'[i].id = records' - Len(obs') + i
    <3>1. obs'[i].id = records - Len(obs) + (i + 1)
      BY <1>2, <1>4
    <3> QED
      BY <3>1, <1>0, <1>1, <1>4
  <2>2. wrec'.id <= records' - Len(obs') /\ joined' <= records'
    BY <1>0, <1>1, <1>4, <1>5
  <2>3. DrainedWhenJoined'
    <3>1. joined >= 0 => \A i \in 1 .. Len(obs) : obs[i].id > joined
      BY DEF ObsInv, OrderInv, DrainedWhenJoined
    <3> QED
      BY <3>1, <1>0, <1>1, <1>2 DEF DrainedWhenJoined
  <2> QED
    BY <2>1, <2>2, <2>3 DEF OrderInv
<1>10. EventInv'
  <2>1. ASSUME NEW i \in 1 .. Len(obs'), obs'[i].topic \in Keys
        PROVE  /\ obs'[i].event < nextEvent'
               /\ channel'.event < obs'[i].event
               /\ \A k \in Keys : hash'[k] < obs'[i].event
               /\ wpc' \in {"hset", "publish"} => wrec'.event < obs'[i].event
               /\ \A j \in 1 .. i - 1 : obs'[j].topic \in Keys => obs'[j].event < obs'[i].event
    <3>1. i + 1 \in 1 .. Len(obs) /\ obs'[i] = obs[i + 1] /\ 1 \in 1 .. (i + 1) - 1
      BY <1>2
    <3>2. /\ obs[i + 1].event < nextEvent
          /\ channel.event < obs[i + 1].event
          /\ \A k \in Keys : hash[k] < obs[i + 1].event
          /\ \A j \in 1 .. (i + 1) - 1 : obs[j].topic \in Keys => obs[j].event < obs[i + 1].event
      BY <2>1, <3>1 DEF ObsInv, EventInv
    <3>3. wpc' \in {"hset", "publish"} => wrec'.event < obs'[i].event
      BY <1>1, <1>3, <3>1, <3>2
    <3>4. ASSUME NEW j \in 1 .. i - 1, obs'[j].topic \in Keys
          PROVE  obs'[j].event < obs'[i].event
      <4>1. j \in 1 .. Len(obs') /\ j + 1 \in 1 .. (i + 1) - 1
        BY <1>1
      <4> QED
        BY <4>1, <3>1, <3>2, <3>4, <1>2
    <3> QED
      BY <3>1, <3>2, <3>3, <3>4, <1>0
  <2>2. wpc' \in {"hset", "publish"} =>
          /\ wrec'.event < nextEvent'
          /\ channel'.event < wrec'.event
          /\ \A k \in Keys : hash'[k] <= wrec'.event
    <3>1. obs[1].topic \in Keys =>
            /\ obs[1].event < nextEvent /\ channel.event < obs[1].event
            /\ \A k \in Keys : hash[k] < obs[1].event
      BY <1>1 DEF ObsInv, EventInv
    <3>2. \A k \in Keys : hash[k] \in 0 .. MaxRecords
      BY DEF ObsInv, ObsTypes
    <3> QED
      BY <3>1, <3>2, <1>0, <1>1, <1>3, <1>4
  <2> QED
    BY <2>1, <2>2, <1>0, <1>3 DEF ObsInv, EventInv, HashBeforeUpdate
<1> QED
  BY <1>6, <1>7, <1>8, <1>9, <1>10 DEF ObsInv

\* The hash is written before its update is published.
LEMMA HsetStep ==
  ASSUME ObsInv, Hset
  PROVE  ObsInv'
<1>0. /\ wpc = "hset" /\ wpc' = "publish"
      /\ UNCHANGED <<obs, records, nextEvent, unfinished, counters, cut, wrec, wstop, spc, joined,
                     channel>>
      /\ Residue
      /\ hash' = [hash EXCEPT ![wrec.topic] = wrec.event]
  BY DEF Hset, Residue
<1>1. wrec.topic \in Keys /\ hash \in [Keys -> 0 .. MaxRecords]
  BY <1>0 DEF ObsInv, WorkerInv, ObsTypes
<1>2. hash'[wrec.topic] = wrec.event
  BY <1>0, <1>1
<1>3. ObsTypes' /\ StopTypes' /\ WorkerInv' /\ OrderInv'
  BY <1>0, ResidueFacts DEF ObsInv, ObsTypes, StopTypes, WorkerInv, OrderInv, DrainedWhenJoined,
       Writing
<1>4. Accounting'
  BY <1>0 DEF ObsInv, Accounting, Busy, Writing
<1>5. EventInv'
  BY <1>0, <1>2, ResidueFacts DEF ObsInv, EventInv, HashBeforeUpdate
<1> QED
  BY <1>3, <1>4, <1>5 DEF ObsInv

\* What happens to the queue and its worker in one step of the process.
ObsMove ==
  \/ Enqueue \/ WorkerStart \/ WorkerNext \/ StopBegins \/ StopNext \/ CancelWorker
  \/ UNCHANGED obsVars

\* Every one of them keeps the invariant of the queue.
LEMMA ObsStep ==
  ASSUME ObsInv, ObsMove
  PROVE  ObsInv'
<1>w. wpc \in {"none", "get", "ended", "cancelled"} \cup Writing
  BY DEF ObsInv, WorkerInv
<1>1. CASE Enqueue
  BY <1>1, EnqueueStep
<1>2. CASE WorkerGet
  BY <1>2, GetStep
<1>3. CASE Hset
  BY <1>3, HsetStep
<1>4. CASE UNCHANGED obsVars \/ WorkerStart \/ WorkerIdle
  <2>1. /\ UNCHANGED <<obs, records, nextEvent, unfinished, counters, cut, wrec, hash, channel,
                       joined, wstop, spc>>
        /\ \/ wpc' = wpc
           \/ wpc \in {"none", "get"} /\ wpc' \in {"get", "ended", "cancelled"}
    BY <1>4 DEF obsVars, WorkerStart, WorkerIdle, LoopTest
  <2>2. StopTypes'
    BY <2>1 DEF ObsInv, StopTypes
  <2> QED
    BY <2>1, <2>2, QuietStep
<1>5. CASE StopBegins \/ StopTimeout
  <2>1. UNCHANGED <<obs, records, nextEvent, unfinished, counters, cut, wrec, hash, channel,
                    joined, wpc>>
    BY <1>5 DEF StopBegins, StopTimeout
  <2>2. StopTypes'
    BY <1>5 DEF StopBegins, StopTimeout, ObsInv, StopTypes
  <2> QED
    BY <2>1, <2>2, QuietStep
<1>6. CASE StopJoined
  <2>1. /\ UNCHANGED <<obs, records, nextEvent, unfinished, counters, cut, wrec, hash, channel,
                       wpc, wstop>>
        /\ joined' = records /\ unfinished = 0 /\ spc' = "await"
    BY <1>6 DEF StopJoined, Joined
  <2>2. StopTypes'
    <3>1. records \in -1 .. MaxRecords
      BY ObsAssumption DEF ObsInv, ObsTypes
    <3> QED
      BY <2>1, <3>1 DEF ObsInv, StopTypes
  <2> QED
    BY <2>1, <2>2, QuietStep
<1>7. CASE WriteDone \/ WriteFails
  <2>1. /\ wpc \in Writing /\ wpc' \in {"get", "ended", "cancelled"} /\ wrec' = NoRecord
        /\ Residue /\ unfinished' = unfinished - 1
        /\ UNCHANGED <<obs, records, nextEvent, joined, wstop, spc, cut>>
    BY <1>7 DEF WriteDone, WriteFails, Residue, LoopTest, Writing
  <2>2. \/ counters' = [counters EXCEPT !.written = @ + 1]
        \/ counters' = [counters EXCEPT !.failures = @ + 1]
    BY <1>7 DEF WriteDone, WriteFails
  <2>3. StopTypes'
    BY <2>1 DEF ObsInv, StopTypes
  <2> QED
    BY <2>1, <2>2, <2>3, ReleaseStep
<1>8. CASE StopEnds \/ CancelWorker
  <2>1. /\ UNCHANGED <<obs, records, nextEvent, joined, wstop, counters>> /\ CancelRun
        /\ spc' \in {spc, "done"}
    BY <1>8 DEF StopEnds, CancelWorker
  <2>2. StopTypes'
    BY <2>1 DEF ObsInv, StopTypes
  <2>3. CASE wpc \in Writing
    <3>1. /\ wpc' = "cancelled" /\ unfinished' = unfinished - 1 /\ cut' = cut + 1
          /\ wrec' = NoRecord /\ Residue
      BY <2>1, <2>3 DEF CancelRun, Writing
    <3> QED
      BY <2>1, <2>2, <2>3, <3>1, ReleaseStep
  <2>4. CASE wpc \notin Writing
    <3>1. /\ UNCHANGED <<unfinished, cut, wrec, hash, channel>>
          /\ \/ wpc' = wpc
             \/ wpc \in {"none", "get"} /\ wpc' \in {"get", "ended", "cancelled"}
             \/ wpc = "cancelled" /\ wpc' = "cancelled"
      BY <2>1, <2>4, <1>w DEF CancelRun
    <3> QED
      BY <2>1, <2>2, <3>1, QuietStep
  <2> QED
    BY <2>3, <2>4
<1> QED
  BY <1>1, <1>2, <1>3, <1>4, <1>5, <1>6, <1>7, <1>8 DEF ObsMove, WorkerNext, StopNext

\* The invariant of the queue holds at first.
LEMMA ObsBegins ==
  ASSUME ObsInit
  PROVE  ObsInv
<1> USE ObsAssumption
<1>0. /\ obs = <<>> /\ Len(obs) = 0 /\ records = 0 /\ nextEvent = 1 /\ unfinished = 0
      /\ cut = 0 /\ wpc = "none" /\ wrec = NoRecord /\ joined = -1 /\ channel = NoRecord
      /\ \A k \in Keys : hash[k] = 0
  BY DEF ObsInit
<1>1. ObsTypes /\ StopTypes
  <2>0. joined \in -1 .. MaxRecords
    BY <1>0
  <2>1. StopTypes
    BY <2>0 DEF ObsInit, StopTypes
  <2>2. hash \in [Keys -> 0 .. MaxRecords]
    BY DEF ObsInit
  <2>3. counters \in [dropped : Nat, failures : Nat, written : Nat]
    BY DEF ObsInit
  <2> QED
    BY <1>0, <2>1, <2>2, <2>3, RecordFields DEF ObsTypes
<1>2. WorkerInv
  BY <1>0 DEF WorkerInv, Writing
<1>3. Accounting
  BY <1>0 DEF ObsInit, Accounting, Busy, Writing
<1>4. OrderInv
  BY <1>0, RecordFields DEF OrderInv, DrainedWhenJoined
<1>5. EventInv
  BY <1>0, RecordFields DEF EventInv, HashBeforeUpdate
<1> QED
  BY <1>1, <1>2, <1>3, <1>4, <1>5 DEF ObsInv

\* The replica never goes back, and an update never runs ahead of its hash.
Forward ==
  /\ \A k \in Keys : hash'[k] >= hash[k]
  /\ channel' # channel => channel'.event > channel.event
  /\ HashBeforeUpdate'

\* A step changes the replica only by a call of the worker.
LEMMA ForwardStep ==
  ASSUME ObsInv, ObsMove
  PROVE  [Forward]_<<hash, channel>>
<1>1. UNCHANGED <<hash, channel>> \/ Residue
  BY DEF ObsMove, Enqueue, EnqueueState, EnqueueStream, WorkerStart, WorkerNext, WorkerGet,
       WorkerIdle, Hset, WriteDone, WriteFails, StopBegins, StopNext, StopJoined, StopTimeout,
       StopEnds, CancelWorker, CancelRun, Residue, obsVars
<1>2. CASE Residue
  <2>1. \A k \in Keys : hash[k] \in Int /\ hash'[k] \in Int
    <3>1. hash \in [Keys -> 0 .. MaxRecords]
      BY DEF ObsInv, ObsTypes
    <3>2. hash' \in [Keys -> 0 .. MaxRecords]
      BY <1>2, ResidueFacts
    <3> QED
      BY <3>1, <3>2, ObsAssumption
  <2> QED
    BY <1>2, <2>1, ResidueFacts DEF Forward, HashBeforeUpdate
<1> QED
  BY <1>1, <1>2

-----------------------------------------------------------------------------
(* The process *)

RunTypes ==
  /\ main \in {"new", "registering", "serving", "waiting"} \cup Gone
  /\ sd \in {"none", "server", "boards", "controller", "worker", "done"}
  /\ boards \in {"off", "on", "stopped"}
  /\ clients \in 0 .. 1
  /\ late \in BOOLEAN
  /\ load \in Loads

IInv == ObsInv /\ SockTypeOK /\ SockInv /\ RunTypes /\ ShutInv

\* Every step is one of the queue and one of the socket file, or leaves them alone.
LEMMA Components ==
  ASSUME [Next]_vars
  PROVE  /\ ObsMove
         /\ UNCHANGED sockVars \/ \E p \in Procs : SockMove(p)
<1> USE MeAssumption
<1>1. CASE UNCHANGED vars
  BY <1>1 DEF vars, ObsMove
<1>2. CASE \/ StartComponents \/ Registered \/ Signal \/ StopBoards \/ StopController
           \/ StopWorker \/ Observe \/ Work \/ ClientConnects \/ ClientLeaves
  BY <1>2 DEF StartComponents, Registered, Signal, StopBoards, StopController, StopWorker,
       Observe, Work, ClientConnects, ClientLeaves, ObsMove
<1>3. CASE ServerStart \/ StopServer
  BY <1>3 DEF ServerStart, StopServer, ObsMove, SockMove
<1>4. CASE StartRaises \/ Exit \/ Crash
  BY <1>4 DEF StartRaises, Exit, Crash, ObsMove, SockMove
<1>5. CASE \E p \in Procs \ {Me} : Rival(p)
  BY <1>5 DEF Rival, ObsMove, SockMove
<1> QED
  BY <1>1, <1>2, <1>3, <1>4, <1>5 DEF Next

\* The types of the process's own variables.
LEMMA RunTypeStep ==
  ASSUME RunTypes, [Next]_vars
  PROVE  RunTypes'
<1> USE DEF RunTypes, Gone
<1>1. CASE UNCHANGED vars \/ Observe \/ Work \/ \E p \in Procs \ {Me} : Rival(p)
  BY <1>1 DEF vars, runVars, Observe, Work, Rival
<1>2. CASE StartComponents \/ Registered \/ ServerStart \/ StartRaises \/ Exit \/ Crash
  BY <1>2 DEF StartComponents, Registered, ServerStart, StartRaises, Exit, Crash
<1>3. CASE Signal \/ StopServer \/ StopBoards \/ StopController \/ StopWorker
  BY <1>3 DEF Signal, StopServer, StopBoards, StopController, StopWorker
<1>4. CASE ClientConnects \/ ClientLeaves
  BY <1>4 DEF ClientConnects, ClientLeaves
<1> QED
  BY <1>1, <1>2, <1>3, <1>4 DEF Next

\* A step of a rival on the file leaves alone what this process has of it.
LEMMA RivalStep ==
  ASSUME SockTypeOK, ShutInv, NEW p \in Procs \ {Me}, Rival(p)
  PROVE  ShutInv'
<1> USE MeAssumption DEF SockTypeOK
<1>1. UNCHANGED <<obsVars, runVars>> /\ UNCHANGED <<srv[Me], bound[Me], noted[Me]>>
  BY DEF Rival, Start, Exists, Connect, UnlinkDead, Clear, Bind, Note, Listen, Own, CloseServer,
       CloseSocket, StatPath, UnlinkPath, RemoveOwn, OwnsSocketPath, UnlinkOwn, Vanish, Goto
<1>2. /\ Me \notin disturbed' => Me \notin disturbed
      /\ path' = path \/ path' = 0 \/ maker' = p
      /\ maker' = maker \/ maker' = p
  BY DEF Rival, Start, Exists, Connect, UnlinkDead, Clear, Bind, Note, Listen, Own, CloseServer,
       CloseSocket, StatPath, UnlinkPath, RemoveOwn, OwnsSocketPath, UnlinkOwn, Vanish, Disturb
<1> QED
  BY <1>1, <1>2 DEF ShutInv, obsVars, runVars, Alive

\* Every step of the process keeps what is known of its shutdown.
LEMMA ShutStep ==
  ASSUME IInv, [Next]_vars
  PROVE  ShutInv'
<1> USE MeAssumption DEF IInv, Gone, Alive
<1>t. /\ srv \in [Procs -> Starting \cup Refused \cup Stopping \cup {"off", "up", "down"}]
      /\ bound \in [Procs -> Inodes \cup {0}]
      /\ main \in {"new", "registering", "serving", "waiting"} \cup Gone
      /\ clients \in {0, 1}
  BY DEF SockTypeOK, RunTypes
<1>1. CASE UNCHANGED vars
  BY <1>1 DEF vars, obsVars, sockVars, runVars, ShutInv
<1>2. CASE StartComponents
  BY <1>2 DEF StartComponents, WorkerStart, sockVars, ShutInv
<1>3. CASE Registered
  BY <1>3 DEF Registered, obsVars, sockVars, ShutInv
<1>4. CASE ServerStart
  <2>1. /\ main = "serving" /\ UNCHANGED <<obsVars, sd, boards, clients, late, load>>
        /\ main' = IF srv'[Me] = "up" THEN "waiting" ELSE main
    BY <1>4 DEF ServerStart
  <2>2. /\ srv[Me] \in Starting \cup {"off"}
        /\ srv'[Me] \in Starting \cup Refused \cup {"up"}
    BY <1>4, <1>t DEF ServerStart, Start, Exists, Connect, UnlinkDead, Clear, Bind, Note, Listen,
         Own, Goto, Starting, Preparing, Binding, Refused
  <2> QED
    BY <2>1, <2>2 DEF obsVars, ShutInv, Starting, Preparing, Binding, Refused, Stopping
<1>5. CASE StartRaises \/ Exit \/ Crash
  <2>1. /\ main' \in Gone /\ main # "new" /\ boards' = "stopped" /\ clients' = 0
        /\ UNCHANGED <<sd, late, load, spc>> /\ wpc' \in {"ended", "cancelled"}
        /\ srv'[Me] = "down" /\ bound'[Me] = 0
    BY <1>5, <1>t DEF StartRaises, Exit, Crash, CancelWorker, CancelRun, Vanish, Goto
  <2> QED
    BY <2>1 DEF ShutInv
<1>6. CASE Signal
  BY <1>6 DEF Signal, obsVars, sockVars, ShutInv
<1>7. CASE StopServer
  <2>1. /\ sd = "server" /\ main # "new"
        /\ UNCHANGED <<obsVars, main, boards, clients, late, load>>
    BY <1>7 DEF StopServer
  <2>2. CASE CloseSocket(Me) /\ UNCHANGED sd
    <3>1. /\ srv[Me] = "up" /\ srv'[Me] = "closed" /\ bound'[Me] = 0
          /\ UNCHANGED <<path, noted, disturbed>>
      BY <2>2, <1>t DEF CloseSocket, Goto
    <3>2. Me \notin disturbed => path = noted[Me]
      BY <3>1 DEF SockInv, AloneInv
    <3> QED
      BY <2>1, <2>2, <3>1, <3>2 DEF obsVars, ShutInv, Stopping
  <2>3. CASE StatPath(Me) /\ UNCHANGED sd
    <3>1. /\ srv[Me] = "closed" /\ srv'[Me] \in {"unlinking", "closing"}
          /\ srv'[Me] = "closing" => path = 0 \/ path # noted[Me]
          /\ UNCHANGED <<path, maker, bound>> /\ disturbed \subseteq disturbed'
      BY <2>3, <1>t DEF StatPath, Goto, Disturb
    <3> QED
      BY <2>1, <2>3, <3>1 DEF obsVars, ShutInv, Stopping
  <2>4. CASE UnlinkPath(Me) /\ UNCHANGED sd
    <3>1. /\ srv[Me] = "unlinking" /\ srv'[Me] = "closing" /\ path' = 0
          /\ UNCHANGED <<bound, disturbed>>
      BY <2>4, <1>t DEF UnlinkPath, Goto
    <3> QED
      BY <2>1, <2>4, <3>1 DEF obsVars, ShutInv, Stopping
  <2>5. CASE /\ clients = 0 /\ RemoveOwn(Me)
             /\ sd' = IF srv'[Me] = "down" THEN "boards" ELSE sd
    <3>1. /\ srv[Me] \in {"closing", "removing"} /\ srv'[Me] \in {"removing", "down"}
          /\ UNCHANGED <<bound, maker>>
          /\ path' \in {path, 0} /\ disturbed \subseteq disturbed'
      BY <2>5, <1>t DEF RemoveOwn, OwnsSocketPath, UnlinkOwn, Disturb, Goto
    <3> QED
      BY <2>1, <2>5, <3>1 DEF obsVars, ShutInv, Stopping
  <2>6. CASE srv[Me] \notin Stopping \cup {"up"} /\ sd' = "boards" /\ UNCHANGED sockVars
    BY <2>1, <2>6 DEF obsVars, sockVars, ShutInv, Stopping
  <2> QED
    BY <1>7, <2>2, <2>3, <2>4, <2>5, <2>6 DEF StopServer, CloseServer
<1>8. CASE StopBoards \/ StopController
  BY <1>8 DEF StopBoards, StopController, obsVars, sockVars, ShutInv
<1>9. CASE StopWorker
  <2>1. /\ sd = "worker" /\ Alive /\ UNCHANGED <<sockVars, main, boards, clients, late, load>>
        /\ sd' = IF spc' = "done" THEN "done" ELSE sd
    BY <1>9 DEF StopWorker
  <2>2. (wpc # "none" => wpc' # "none")
        /\ (spc' = "done" /\ wpc # "none" => wpc' \in {"ended", "cancelled"} \/ spc = "done")
    BY <1>9 DEF StopWorker, StopBegins, StopNext, StopJoined, StopTimeout, StopEnds, CancelRun
  <2>3. spc # "done"
    BY <1>9 DEF StopWorker, StopBegins, StopNext, StopJoined, StopTimeout, StopEnds
  <2> QED
    BY <2>1, <2>2, <2>3 DEF sockVars, ShutInv
<1>10. CASE Observe
  BY <1>10 DEF Observe, Enqueue, EnqueueState, EnqueueStream, sockVars, runVars, ShutInv
<1>11. CASE Work
  <2>1. /\ UNCHANGED <<sockVars, runVars, spc>> /\ wpc' # "none" /\ main # "new"
        /\ wpc \notin {"ended", "cancelled"}
    BY <1>11 DEF Work, WorkerNext, WorkerGet, FirstCall, WorkerIdle, LoopTest, Hset, WriteDone,
         WriteFails, Writing
  <2> QED
    BY <1>11, <2>1 DEF Work, sockVars, runVars, ShutInv
<1>12. CASE ClientConnects \/ ClientLeaves
  <2>1. /\ UNCHANGED <<obsVars, sockVars, main, sd, boards, late, load>>
        /\ clients' # 0 => bound[Me] # 0
    BY <1>12 DEF ClientConnects, ClientLeaves, Live
  <2>2. clients' # 0 => srv[Me] \notin {"off", "down"}
    BY <2>1, MeAssumption DEF SockInv, SocketInv, Binding
  <2>3. srv[Me] \in {"off", "down"} => clients' = 0
    BY <2>2
  <2> QED
    BY <2>1, <2>3 DEF obsVars, sockVars, ShutInv, Alive
<1>13. CASE \E p \in Procs \ {Me} : Rival(p)
  BY <1>13, RivalStep
<1> QED
  BY <1>1, <1>2, <1>3, <1>4, <1>5, <1>6, <1>7, <1>8, <1>9, <1>10, <1>11, <1>12, <1>13 DEF Next

-----------------------------------------------------------------------------
(* The theorems *)

\* The invariant holds in every state of the process.
THEOREM Invariance == Spec => []IInv
<1>1. Init => IInv
  <2> SUFFICES ASSUME Init PROVE IInv
    OBVIOUS
  <2>1. ObsInv /\ SockTypeOK /\ SockInv
    BY ObsBegins, SockBegins DEF Init
  <2>2. RunTypes
    <3>1. clients \in 0 .. 1
      BY DEF Init
    <3> QED
      BY <3>1 DEF Init, RunTypes
  <2>3. ShutInv
    BY MeAssumption DEF Init, ObsInit, SockInit, ShutInv, Alive
  <2> QED
    BY <2>1, <2>2, <2>3 DEF IInv
<1>2. IInv /\ [Next]_vars => IInv'
  <2> SUFFICES ASSUME IInv, [Next]_vars PROVE IInv'
    OBVIOUS
  <2>1. ObsInv'
    BY Components, ObsStep DEF IInv
  <2>2. SockTypeOK' /\ SockInv'
    <3>1. CASE UNCHANGED sockVars
      BY <3>1 DEF IInv, sockVars, SockTypeOK, SockInv, SocketInv, AloneInv
    <3>2. CASE \E p \in Procs : SockMove(p)
      BY <3>2, SockTypes, SockStep DEF IInv
    <3> QED
      BY <3>1, <3>2, Components
  <2>3. RunTypes' /\ ShutInv'
    BY RunTypeStep, ShutStep DEF IInv
  <2> QED
    BY <2>1, <2>2, <2>3 DEF IInv
<1> QED
  BY <1>1, <1>2, PTL DEF Spec

\* Whichever processes start, are refused, stop or die, in whatever order their
\* system calls interleave: a process whose start met no other start and no
\* removal, and got no recorded inode, does not fail, is reachable at the socket
\* path while it is up, and is then the only undisturbed one with a socket.
THEOREM PathAlwaysSafe == Spec => []PathSafe
<1>1. IInv => PathSafe
  <2> SUFFICES ASSUME IInv, NEW p \in Procs \ disturbed
               PROVE  /\ srv[p] # "failed"
                      /\ srv[p] = "up" =>
                           /\ path = bound[p] /\ owned[p] = path
                           /\ \A q \in Procs \ {p} : bound[q] # 0 => q \in disturbed
    BY DEF PathSafe
  <2> QED
    BY DEF IInv, SockInv, SocketInv, AloneInv
<1> QED
  BY <1>1, Invariance, PTL

\* Every record that was enqueued is accounted for exactly once, join() waits for
\* exactly those that are queued or being written, and a full queue loses only the
\* oldest, for a queue of any size.
THEOREM RecordsAccounted == Spec => []RecordsExact
<1>1. IInv => TypeOK
  <2> SUFFICES ASSUME IInv PROVE TypeOK
    OBVIOUS
  <2> USE ObsAssumption
  <2>1. /\ Len(obs) \in Nat /\ Len(obs) <= ObsSize /\ records \in 0 .. MaxRecords
        /\ nextEvent \in Nat /\ nextEvent >= 1 /\ nextEvent <= records + 1
        /\ counters \in [dropped : Nat, failures : Nat, written : Nat]
        /\ Busy \in {0, 1} /\ cut \in {0, 1}
    BY DEF IInv, ObsInv, ObsTypes, WorkerInv, Busy
  <2>2. /\ records = counters.written + counters.failures + counters.dropped + cut + Busy + Len(obs)
        /\ unfinished = Len(obs) + Busy
    BY DEF IInv, ObsInv, Accounting
  <2>3. nextEvent \in 1 .. MaxRecords + 1 /\ unfinished \in 0 .. ObsSize + 1 /\ cut \in 0 .. 1
    <3>1. nextEvent \in 1 .. MaxRecords + 1
      BY <2>1
    <3>2. unfinished \in 0 .. ObsSize + 1
      <4>1. /\ unfinished = Len(obs) + Busy /\ Busy \in {0, 1}
            /\ Len(obs) \in Nat /\ Len(obs) <= ObsSize
        BY <2>1, <2>2
      <4>2. ASSUME NEW n \in Nat, n <= ObsSize, NEW b \in {0, 1}
            PROVE  n + b \in 0 .. ObsSize + 1
        BY <4>2
      <4> QED
        BY <4>1, <4>2
    <3>3. cut \in 0 .. 1
      BY <2>1
    <3> QED
      BY <3>1, <3>2, <3>3
  <2>4. /\ counters.dropped \in 0 .. MaxRecords /\ counters.failures \in 0 .. MaxRecords
        /\ counters.written \in 0 .. MaxRecords
    <3>1. counters.dropped \in Nat /\ counters.failures \in Nat /\ counters.written \in Nat
      BY <2>1
    <3>2. PICK w \in Nat, f \in Nat, d \in Nat, c \in {0, 1}, b \in {0, 1}, n \in Nat, r \in 0 .. MaxRecords :
            /\ counters.written = w /\ counters.failures = f /\ counters.dropped = d
            /\ r = w + f + d + c + b + n
      BY <2>1, <2>2, <3>1
    <3>3. w <= r /\ f <= r /\ d <= r /\ r <= MaxRecords
      BY <3>2
    <3>4. w \in 0 .. MaxRecords /\ f \in 0 .. MaxRecords /\ d \in 0 .. MaxRecords
      BY <3>3
    <3> QED
      BY <3>2, <3>4
  <2>5. counters \in [dropped : 0 .. MaxRecords, failures : 0 .. MaxRecords,
                      written : 0 .. MaxRecords]
    BY <2>1, <2>4
  <2>6. ObsTypeOK
    BY <2>1, <2>3, <2>5 DEF IInv, ObsInv, ObsTypes, StopTypes, WorkerInv, ObsTypeOK
  <2>7. Range(SdStages) = {"server", "boards", "controller", "worker", "done"}
    BY DEF Range, SdStages
  <2> QED
    BY <2>6, <2>7 DEF IInv, RunTypes, TypeOK
<1>2. IInv => QueueExact
  <2> SUFFICES ASSUME IInv PROVE QueueExact
    OBVIOUS
  <2>1. ASSUME NEW i \in 1 .. Len(obs)
        PROVE  wrec.id < obs[i].id
    <3>1. /\ wrec.id \in Nat /\ wrec.id <= records - Len(obs) /\ Len(obs) \in Nat
          /\ records \in Nat /\ obs[i].id = records - Len(obs) + i
      BY RecordFields, ObsAssumption DEF IInv, ObsInv, OrderInv, ObsTypes
    <3> QED
      BY <3>1
  <2> QED
    BY <2>1 DEF IInv, ObsInv, OrderInv, QueueExact, NewestKept
<1>3. IInv => RecordsExact
  BY <1>1, <1>2 DEF RecordsExact
<1> QED
  BY <1>3, Invariance, PTL

\* The Redis replica never goes back in time, whatever is dropped, fails, is cut
\* short or is applied although the call raised.
THEOREM ReplicaNeverBack == Spec => ReplicaForward
<1>1. IInv /\ [Next]_vars => [Forward]_<<hash, channel>>
  BY Components, ForwardStep DEF IInv
<1>2. [Forward]_<<hash, channel>> =>
        [/\ \A k \in Keys : hash'[k] >= hash[k]
         /\ channel' # channel => channel'.event > channel.event
         /\ HashBeforeUpdate']_<<hash, channel>>
  BY DEF Forward
<1> QED
  BY <1>1, <1>2, Invariance, PTL DEF Spec, ReplicaForward

\* A process that had started is taken down from the outside in, a worker that was
\* drained has handled every record, and in the end nothing is left.
THEOREM ShutdownAlwaysClean == Spec => []ShutdownClean
<1>1. IInv => ShutdownClean
  <2> SUFFICES ASSUME IInv PROVE ShutdownClean
    OBVIOUS
  <2>1. DrainedWhenJoined
    BY DEF IInv, ObsInv, OrderInv
  <2>2. ~late => ShutdownOrder
    BY DEF IInv, ShutInv, ShutdownOrder
  <2>3. ~late => NothingLeft
    BY DEF IInv, ShutInv, NothingLeft, Alive, Gone
  <2> QED
    BY <2>1, <2>2, <2>3 DEF ShutdownClean
<1> QED
  BY <1>1, Invariance, PTL

=============================================================================
