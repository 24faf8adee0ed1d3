----------------------- MODULE ControllerCore_proofs -----------------------
(***************************************************************************)
(* Invariants of ControllerCore, proved for any sets of boards, commands   *)
(* and schemas, any queue depth and any range of board_seq.                *)
(*                                                                         *)
(* QueueInv is stated over its arguments, not over the variables: a        *)
(* handler that ends in _dispatch_next first brings the queues into an     *)
(* intermediate state, which is shown to satisfy QueueInv, and the lemma   *)
(* DispatchQueueInv carries it over the dispatch.                          *)
(***************************************************************************)
EXTENDS ControllerCore, TLAPS

Futures == Terminal \cup {"none", "wait"}

QueueTypes(fi, sq, f, p, fl, bd, sn) ==
  /\ fi \in [Boards -> Seq(Commands)]
  /\ sq \in [Commands -> 0 .. MaxSeq]
  /\ f \in [Commands -> Futures]
  /\ p \in [Seqs -> Commands \cup {None}]
  /\ fl \in [Boards -> 0 .. MaxSeq]
  /\ bd \in [Commands -> Boards \cup {None}]
  /\ sn \subseteq Commands

\* A queue holds commands of its board that wait and were not sent, in the
\* order of their board_seq, after every command sent before.
FifoInv(fi, sq, f, bd, sn) ==
  \A b \in Boards : \A i \in 1 .. Len(fi[b]) :
    /\ bd[fi[b][i]] = b
    /\ f[fi[b][i]] = "wait"
    /\ fi[b][i] \notin sn
    /\ \A j \in 1 .. (i - 1) : sq[fi[b][j]] < sq[fi[b][i]]
    /\ \A d \in sn : bd[d] = b => sq[d] < sq[fi[b][i]]

\* A pending command was sent, has that board_seq, waits and holds the slot.
PendingInv(sq, f, p, fl, bd, sn) ==
  \A s \in Seqs : p[s] # None =>
    /\ p[s] \in sn
    /\ sq[p[s]] = s
    /\ f[p[s]] = "wait"
    /\ fl[bd[p[s]]] = s

\* Accepted commands have a board_seq, unique on their board.
SeqInv(sq, bd, sn) ==
  /\ \A c \in sn : bd[c] # None
  /\ \A c \in Commands : bd[c] # None => sq[c] \in Seqs
  /\ \A c, d \in Commands :
       (bd[c] # None /\ bd[c] = bd[d] /\ sq[c] = sq[d]) => c = d

QueueInv(fi, sq, f, p, fl, bd, sn) ==
  /\ QueueTypes(fi, sq, f, p, fl, bd, sn)
  /\ FifoInv(fi, sq, f, bd, sn)
  /\ PendingInv(sq, f, p, fl, bd, sn)
  /\ SeqInv(sq, bd, sn)

\* What the tasks know about their commands.
TaskInv ==
  /\ \A c \in Commands : task[c] = "idle" => board[c] = None /\ fut[c] = "none"
  /\ \A c \in Commands : board[c] # None => seq[c] < nextSeq[board[c]]
  /\ \A c \in Commands : writing[c] # NoTask => c \in sent
  /\ timers \subseteq sent

\* The part of TypeOK that QueueTypes does not say.
AuxTypes ==
  /\ task \in [Commands -> TaskStates]
  /\ answer \in [Commands -> Commands \cup {None}]
  /\ conn \in [Boards -> ConnStates]
  /\ link \in [Boards -> LinkStates]
  /\ writer \in [Boards -> BOOLEAN]
  /\ schema \in [Boards -> SchemaType]
  /\ nextSeq \in [Boards -> 1 .. MaxSeq + 1]
  /\ ack \in [Boards -> BOOLEAN]
  /\ handle \in [Seqs -> Commands \cup {None}]
  /\ writing \in [Commands -> Tasks]
  /\ timers \subseteq Commands
  /\ stale \subseteq Commands
  /\ estopActive \in BOOLEAN
  /\ estopSend \subseteq Boards
  /\ estopWait \subseteq Boards
  /\ estopSent \subseteq Boards
  /\ acked \subseteq Boards
  /\ phase \in Phases

IInv ==
  /\ AuxTypes
  /\ QueueInv(fifo, seq, fut, pending, inflight, board, sent)
  /\ TaskInv

-----------------------------------------------------------------------------
(* _dispatch_next *)

\* The suffix that is left of a queue once its first m commands are gone.
LEMMA SuffixElements ==
  ASSUME NEW q \in Seq(Commands), NEW m \in 1 .. Len(q)
  PROVE  /\ SubSeq(q, m + 1, Len(q)) \in Seq(Commands)
         /\ Len(SubSeq(q, m + 1, Len(q))) = Len(q) - m
         /\ \A i \in 1 .. (Len(q) - m) : SubSeq(q, m + 1, Len(q))[i] = q[m + i]
  OBVIOUS

\* _dispatch_next keeps the queue invariant of the state its caller left:
\* rejecting the stale head touches no command that stays queued or is in
\* flight, and the command that takes the slot finds it free.
LEMMA DispatchQueueInv ==
  ASSUME NEW b \in Boards, NEW q \in Seq(Commands), NEW sq, NEW f, NEW p, NEW fl,
         NEW bd, NEW who,
         fifo \in [Boards -> Seq(Commands)],
         QueueInv([fifo EXCEPT ![b] = q], sq, f, p, fl, bd, sent),
         DispatchNext(b, q, sq, f, p, fl, who)
  PROVE  QueueInv(fifo', sq, fut', pending', inflight', bd, sent')
<1> DEFINE fi == [fifo EXCEPT ![b] = q]
<1> DEFINE can == ~ShuttingDown /\ Available(b) /\ SlotFree(fl, b)
<1>t. QueueTypes(fi, sq, f, p, fl, bd, sent)
  BY DEF QueueInv
<1>q. fi[b] = q /\ \A x \in Boards : x # b => fi[x] = fifo[x]
  OBVIOUS
<1>h. \A i \in 1 .. Len(q) :
        /\ bd[q[i]] = b /\ f[q[i]] = "wait" /\ q[i] \notin sent
        /\ \A j \in 1 .. (i - 1) : sq[q[j]] < sq[q[i]]
        /\ \A d \in sent : bd[d] = b => sq[d] < sq[q[i]]
  BY <1>q DEF QueueInv, FifoInv
<1>1. CASE ~can
  BY <1>1 DEF DispatchNext
<1>2. CASE can
  <2>1. PICK n \in 0 .. Len(q) :
          /\ fut' = Resolve(f, {q[i] : i \in 1 .. n}, "command_timeout")
          /\ \/ /\ n = Len(q)
                /\ fifo' = [fifo EXCEPT ![b] = <<>>]
                /\ pending' = p /\ inflight' = fl
                /\ UNCHANGED <<writing, sent>>
             \/ /\ n < Len(q)
                /\ q[n + 1] \notin stale
                /\ fifo' = [fifo EXCEPT ![b] = SubSeq(q, n + 2, Len(q))]
                /\ pending' = [p EXCEPT ![sq[q[n + 1]]] = q[n + 1]]
                /\ inflight' = [fl EXCEPT ![b] = sq[q[n + 1]]]
                /\ writing' = [writing EXCEPT ![q[n + 1]] = who]
                /\ sent' = sent \cup {q[n + 1]}
    BY <1>2, Zenon DEF DispatchNext
  <2> DEFINE head == {q[i] : i \in 1 .. n}
  \* Futures change only for the stale head.
  <2>2. /\ fut' \in [Commands -> Futures]
        /\ \A c \in Commands : c \notin head => fut'[c] = f[c]
    BY <2>1, <1>t DEF Resolve, QueueTypes, Futures, Terminal
  <2>3. \A s \in Seqs : p[s] # None => p[s] \notin head
    BY <1>h DEF QueueInv, PendingInv
  <2>4. \A x \in Boards : \A i \in 1 .. Len(fi[x]) :
          (x # b \/ i > n) => fi[x][i] \notin head
    <3> SUFFICES ASSUME NEW x \in Boards, NEW i \in 1 .. Len(fi[x]), x # b \/ i > n,
                        NEW j \in 1 .. n, fi[x][i] = q[j]
                 PROVE  FALSE
      OBVIOUS
    <3>1. bd[fi[x][i]] = x /\ bd[q[j]] = b
      BY <1>q DEF QueueInv, FifoInv
    <3>2. x = b /\ i > n
      BY <3>1
    <3>3. sq[q[j]] < sq[q[i]]
      BY <3>2, <1>q DEF QueueInv, FifoInv
    <3>4. sq[q[j]] \in Int
      BY <1>t, q[j] \in Commands DEF QueueTypes
    <3> QED
      BY <3>2, <3>3, <3>4, <1>q
  <2>5. CASE n = Len(q) /\ fifo' = [fifo EXCEPT ![b] = <<>>] /\ pending' = p
             /\ inflight' = fl /\ UNCHANGED <<writing, sent>>
    <3>1. QueueTypes(fifo', sq, fut', pending', inflight', bd, sent')
      BY <2>2, <2>5, <1>t DEF QueueTypes
    <3>2. FifoInv(fifo', sq, fut', bd, sent')
      <4> SUFFICES ASSUME NEW x \in Boards, NEW i \in 1 .. Len(fifo'[x])
                   PROVE  /\ bd[fifo'[x][i]] = x
                          /\ fut'[fifo'[x][i]] = "wait"
                          /\ fifo'[x][i] \notin sent'
                          /\ \A j \in 1 .. (i - 1) : sq[fifo'[x][j]] < sq[fifo'[x][i]]
                          /\ \A d \in sent' : bd[d] = x => sq[d] < sq[fifo'[x][i]]
        BY DEF FifoInv
      <4>1. x # b /\ fifo'[x] = fi[x] /\ sent' = sent
        BY <2>5
      <4>2. fi[x][i] \in Commands
        BY <4>1, <1>t DEF QueueTypes
      <4> QED
        BY <4>1, <4>2, <2>2, <2>4 DEF QueueInv, FifoInv
    <3>3. PendingInv(sq, fut', pending', inflight', bd, sent')
      BY <2>2, <2>3, <2>5, <1>t DEF QueueInv, PendingInv, QueueTypes
    <3> QED
      BY <3>1, <3>2, <3>3, <2>5 DEF QueueInv, SeqInv
  <2>6. CASE n < Len(q)
             /\ fifo' = [fifo EXCEPT ![b] = SubSeq(q, n + 2, Len(q))]
             /\ pending' = [p EXCEPT ![sq[q[n + 1]]] = q[n + 1]]
             /\ inflight' = [fl EXCEPT ![b] = sq[q[n + 1]]]
             /\ sent' = sent \cup {q[n + 1]}
    <3> DEFINE d == q[n + 1]
               m == n + 1
    <3>m. m \in 1 .. Len(q) /\ n + 2 = m + 1
      BY <2>6
    <3>d. /\ d \in Commands /\ bd[d] = b /\ f[d] = "wait" /\ d \notin sent
          /\ d \notin head /\ sq[d] \in Seqs
      <4>1. d \in Commands /\ bd[d] = b /\ f[d] = "wait" /\ d \notin sent
        BY <3>m, <1>q DEF QueueInv, FifoInv
      <4>2. d \notin head
        BY <3>m, <2>4, <1>q
      <4>3. sq[d] \in Seqs
        BY <4>1, NoneAssumption DEF QueueInv, SeqInv
      <4> QED
        BY <4>1, <4>2, <4>3
    <3>s. /\ fifo'[b] \in Seq(Commands)
          /\ Len(fifo'[b]) = Len(q) - m
          /\ \A i \in 1 .. Len(fifo'[b]) : fifo'[b][i] = q[m + i]
          /\ \A x \in Boards : x # b => fifo'[x] = fi[x]
      BY <2>6, <3>m, SuffixElements
    <3>1. QueueTypes(fifo', sq, fut', pending', inflight', bd, sent')
      <4>1. fifo' \in [Boards -> Seq(Commands)]
        BY <2>6, <3>s
      <4>2. pending' \in [Seqs -> Commands \cup {None}]
        BY <2>6, <3>d, <1>t DEF QueueTypes
      <4>3. inflight' \in [Boards -> 0 .. MaxSeq]
        BY <2>6, <3>d, <1>t DEF QueueTypes
      <4> QED
        BY <4>1, <4>2, <4>3, <2>2, <2>6, <3>d, <1>t DEF QueueTypes
    <3>2. FifoInv(fifo', sq, fut', bd, sent')
      <4> SUFFICES ASSUME NEW x \in Boards, NEW i \in 1 .. Len(fifo'[x])
                   PROVE  /\ bd[fifo'[x][i]] = x
                          /\ fut'[fifo'[x][i]] = "wait"
                          /\ fifo'[x][i] \notin sent'
                          /\ \A j \in 1 .. (i - 1) : sq[fifo'[x][j]] < sq[fifo'[x][i]]
                          /\ \A e \in sent' : bd[e] = x => sq[e] < sq[fifo'[x][i]]
        BY DEF FifoInv
      <4>1. CASE x # b
        <5>1. fifo'[x] = fi[x] /\ fi[x][i] \in Commands
          BY <4>1, <3>s, <1>t DEF QueueTypes
        <5>2. /\ bd[fi[x][i]] = x /\ f[fi[x][i]] = "wait" /\ fi[x][i] \notin sent
              /\ \A j \in 1 .. (i - 1) : sq[fi[x][j]] < sq[fi[x][i]]
              /\ \A e \in sent : bd[e] = x => sq[e] < sq[fi[x][i]]
          BY <5>1 DEF QueueInv, FifoInv
        <5>3. fut'[fi[x][i]] = "wait"
          BY <4>1, <5>1, <5>2, <2>2, <2>4
        <5>4. /\ fi[x][i] \notin sent'
              /\ \A e \in sent' : bd[e] = x => sq[e] < sq[fi[x][i]]
          BY <4>1, <5>2, <2>6, <3>d
        <5> HIDE DEF fi
        <5> QED
          BY <5>1, <5>2, <5>3, <5>4
      <4>2. CASE x = b
        <5>1. /\ fifo'[x][i] = q[m + i] /\ m + i \in 1 .. Len(q)
              /\ m + i > n /\ q[m + i] \in Commands
          BY <4>2, <3>s, <3>m
        <5>2. /\ bd[q[m + i]] = b /\ f[q[m + i]] = "wait" /\ q[m + i] \notin sent
              /\ \A j \in 1 .. (m + i - 1) : sq[q[j]] < sq[q[m + i]]
              /\ \A e \in sent : bd[e] = b => sq[e] < sq[q[m + i]]
          BY <5>1, <1>h
        <5>3. sq[d] < sq[q[m + i]]
          <6>1. m \in 1 .. (m + i - 1)
            BY <5>1, <3>m
          <6> HIDE DEF m
          <6>2. sq[q[m]] < sq[q[m + i]]
            BY <6>1, <5>2
          <6> QED
            BY <6>2 DEF m
        <5>4. q[m + i] # d
          BY <5>3, <3>d DEF Seqs
        <5>5. fut'[q[m + i]] = "wait"
          BY <5>1, <5>2, <2>2, <2>4, <1>q
        <5>6. \A j \in 1 .. (i - 1) : sq[fifo'[x][j]] < sq[fifo'[x][i]]
          <6> SUFFICES ASSUME NEW j \in 1 .. (i - 1)
                       PROVE  sq[fifo'[x][j]] < sq[fifo'[x][i]]
            OBVIOUS
          <6>1. fifo'[x][j] = q[m + j] /\ m + j \in 1 .. (m + i - 1)
            BY <4>2, <3>s, <3>m
          <6> QED
            BY <6>1, <5>1, <5>2
        <5> QED
          BY <4>2, <5>1, <5>2, <5>3, <5>4, <5>5, <5>6, <2>6
      <4> QED
        BY <4>1, <4>2
    <3>3. PendingInv(sq, fut', pending', inflight', bd, sent')
      <4> SUFFICES ASSUME NEW s \in Seqs, pending'[s] # None
                   PROVE  /\ pending'[s] \in sent'
                          /\ sq[pending'[s]] = s
                          /\ fut'[pending'[s]] = "wait"
                          /\ inflight'[bd[pending'[s]]] = s
        BY DEF PendingInv
      <4>1. CASE s = sq[d]
        BY <4>1, <2>2, <2>6, <3>d, <1>t DEF QueueTypes
      <4>2. CASE s # sq[d]
        <5>1. pending'[s] = p[s] /\ p[s] \in Commands
          BY <4>2, <2>6, <1>t DEF QueueTypes
        <5>2. p[s] \in sent /\ sq[p[s]] = s /\ f[p[s]] = "wait" /\ fl[bd[p[s]]] = s
          BY <5>1 DEF QueueInv, PendingInv
        <5>3. bd[p[s]] # b
          BY <5>2, <1>2 DEF SlotFree, Seqs
        <5>4. bd[p[s]] \in Boards
          BY <5>1, <5>2, <1>t DEF QueueInv, SeqInv, QueueTypes
        <5> QED
          BY <5>1, <5>2, <5>3, <5>4, <2>2, <2>3, <2>6, <1>t DEF QueueTypes
      <4> QED
        BY <4>1, <4>2
    <3>4. SeqInv(sq, bd, sent')
      BY <2>6, <3>d, NoneAssumption DEF QueueInv, SeqInv
    <3> QED
      BY <3>1, <3>2, <3>3, <3>4 DEF QueueInv
  <2> QED
    BY <2>1, <2>5, <2>6
<1> QED
  BY <1>1, <1>2

\* The tasks suspended in a write stay well formed over a dispatch.
LEMMA DispatchTasks ==
  ASSUME NEW b \in Boards, NEW q \in Seq(Commands), NEW sq, NEW f, NEW p, NEW fl,
         NEW who \in Tasks,
         writing \in [Commands -> Tasks],
         \A c \in Commands : writing[c] # NoTask => c \in sent,
         DispatchNext(b, q, sq, f, p, fl, who)
  PROVE  /\ writing' \in [Commands -> Tasks]
         /\ \A c \in Commands : writing'[c] # NoTask => c \in sent'
         /\ sent \subseteq sent'
<1>1. \/ UNCHANGED <<writing, sent>>
      \/ \E n \in 0 .. Len(q) :
           /\ n < Len(q)
           /\ writing' = [writing EXCEPT ![q[n + 1]] = who]
           /\ sent' = sent \cup {q[n + 1]}
  BY Zenon DEF DispatchNext
<1>2. CASE UNCHANGED <<writing, sent>>
  BY <1>2
<1>3. ASSUME NEW n \in 0 .. Len(q), n < Len(q),
             writing' = [writing EXCEPT ![q[n + 1]] = who],
             sent' = sent \cup {q[n + 1]}
      PROVE  /\ writing' \in [Commands -> Tasks]
             /\ \A c \in Commands : writing'[c] # NoTask => c \in sent'
             /\ sent \subseteq sent'
  BY <1>3
<1> QED
  BY <1>1, <1>2, <1>3

-----------------------------------------------------------------------------
(* Steps that leave the queues alone *)

queue == <<fifo, seq, fut, pending, inflight, board, sent>>

\* A step that touches none of the queue variables keeps the queue invariant.
LEMMA QueueUnchanged ==
  ASSUME QueueInv(fifo, seq, fut, pending, inflight, board, sent),
         UNCHANGED queue
  PROVE  QueueInv(fifo', seq', fut', pending', inflight', board', sent')
  BY DEF queue

\* A reply, a command passing its residency cap, a failed write and an exhausted
\* board_seq counter leave queues, pending map and slots as they were.
LEMMA QuietCommandSteps ==
  ASSUME IInv, NEW c \in Commands,
         Reply(c) \/ Expire(c) \/ WriteFails(c)
         \/ \E b \in Boards : RouteExhausted(c, b)
  PROVE  IInv'
<1>q. UNCHANGED queue
  BY DEF queue, Reply, Expire, WriteFails, RouteExhausted, cmdVars, queueVars
<1>1. QueueInv(fifo', seq', fut', pending', inflight', board', sent')
  BY <1>q, QueueUnchanged DEF IInv
<1>2. AuxTypes'
  <2>1. CASE Reply(c) \/ (\E b \in Boards : RouteExhausted(c, b))
    BY <2>1 DEF IInv, AuxTypes, Reply, RouteExhausted, TaskStates, linkVars,
                queueVars, timerVars, estopVars
  <2>2. CASE Expire(c)
    BY <2>2 DEF IInv, AuxTypes, Expire, cmdVars, linkVars, queueVars, timerVars,
                estopVars
  <2>3. CASE WriteFails(c)
    BY <2>3 DEF IInv, AuxTypes, WriteFails, TaskStates, ConnStates, LinkStates,
                AfterReading, Tasks, timerVars, estopVars
  <2> QED
    BY <2>1, <2>2, <2>3
<1>3. TaskInv'
  <2>1. CASE Reply(c) \/ (\E b \in Boards : RouteExhausted(c, b))
    BY <2>1 DEF IInv, AuxTypes, TaskInv, Reply, RouteExhausted, TaskStates,
                linkVars, queueVars, timerVars, estopVars
  <2>2. CASE Expire(c)
    BY <2>2 DEF IInv, TaskInv, Expire, cmdVars, queueVars, timerVars
  <2>3. CASE WriteFails(c)
    BY <2>3 DEF IInv, AuxTypes, TaskInv, WriteFails, timerVars
  <2> QED
    BY <2>1, <2>2, <2>3
<1> QED
  BY <1>1, <1>2, <1>3 DEF IInv

\* Connecting, registering, losing or stopping a connection, and the sends and
\* acknowledgements of an e-stop, leave the queues as they were.
LEMMA QuietBoardSteps ==
  ASSUME IInv, NEW b \in Boards,
         \/ Connect(b) \/ ConnectFails(b) \/ RegisterBoard(b) \/ LinkLost(b) \/ LinkDies(b)
         \/ SendEstop(b) \/ SendEstopFails(b) \/ EstopAck(b) \/ StopLink(b)
  PROVE  IInv'
<1>q. UNCHANGED <<cmdVars, queueVars, timerVars, nextSeq, stale>>
  BY DEF Connect, ConnectFails, RegisterBoard, LinkLost, LinkDies, SendEstop,
         SendEstopFails, EstopAck, StopLink
<1>1. QueueInv(fifo', seq', fut', pending', inflight', board', sent')
  BY <1>q, QueueUnchanged DEF IInv, queue, cmdVars, queueVars
<1>2. AuxTypes'
  <2>1. CASE Connect(b) \/ ConnectFails(b) \/ LinkLost(b) \/ LinkDies(b) \/ StopLink(b)
    <3>1. /\ conn' \in [Boards -> ConnStates]
          /\ link' \in [Boards -> LinkStates]
      BY <2>1 DEF IInv, AuxTypes, Connect, ConnectFails, LinkLost, LinkDies, StopLink,
                  ConnStates, LinkStates, AfterReading
    <3>2. UNCHANGED <<writer, schema, estopVars, phase>>
      BY <2>1 DEF Connect, ConnectFails, LinkLost, LinkDies, StopLink
    <3> QED
      BY <1>q, <3>1, <3>2 DEF IInv, AuxTypes, cmdVars, queueVars, timerVars, estopVars
  <2>2. CASE RegisterBoard(b)
    BY <1>q, <2>2, SchemaAssumption
       DEF IInv, AuxTypes, RegisterBoard, ConnStates, LinkStates, cmdVars,
           queueVars, timerVars
  <2>3. CASE SendEstop(b)
    BY <1>q, <2>3 DEF IInv, AuxTypes, SendEstop, MarkEstopSent, cmdVars, linkVars,
                      queueVars, timerVars
  <2>4. CASE SendEstopFails(b)
    <3>1. /\ ack' \in [Boards -> BOOLEAN] /\ estopSend' \subseteq Boards
          /\ estopSent' \subseteq Boards
          /\ acked' \subseteq Boards
      BY <2>4 DEF IInv, AuxTypes, SendEstopFails, MarkEstopSent
    <3>2. /\ conn' \in [Boards -> ConnStates] /\ link' \in [Boards -> LinkStates]
          /\ estopWait' \subseteq Boards
      BY <2>4 DEF IInv, AuxTypes, SendEstopFails, ConnStates, LinkStates, AfterReading
    <3>3. UNCHANGED <<writer, schema, estopActive, phase>>
      BY <2>4 DEF SendEstopFails
    <3> QED
      BY <1>q, <3>1, <3>2, <3>3 DEF IInv, AuxTypes, cmdVars, queueVars, timerVars
  <2>5. CASE EstopAck(b)
    BY <1>q, <2>5 DEF IInv, AuxTypes, EstopAck, cmdVars, linkVars, queueVars,
                      timerVars
  <2> QED
    BY <2>1, <2>2, <2>3, <2>4, <2>5
<1>3. TaskInv'
  BY <1>q DEF IInv, TaskInv, cmdVars, queueVars, timerVars
<1> QED
  BY <1>1, <1>2, <1>3 DEF IInv

\* reset_estop and the steps of a shutdown that only move its phase leave the
\* queues as they were.
LEMMA QuietControllerSteps ==
  ASSUME IInv, ResetEstop \/ RequestStop \/ Shutdown \/ CloseWriters
  PROVE  IInv'
<1>q. UNCHANGED <<cmdVars, queueVars, timerVars, nextSeq, stale>>
  BY DEF ResetEstop, RequestStop, Shutdown, CloseWriters
<1>1. QueueInv(fifo', seq', fut', pending', inflight', board', sent')
  BY <1>q, QueueUnchanged DEF IInv, queue, cmdVars, queueVars
<1>2. AuxTypes'
  BY <1>q DEF IInv, AuxTypes, ResetEstop, RequestStop, Shutdown, CloseWriters,
              Phases, cmdVars, linkVars, queueVars, timerVars, estopVars
<1>3. TaskInv'
  BY <1>q DEF IInv, TaskInv, cmdVars, queueVars, timerVars
<1> QED
  BY <1>1, <1>2, <1>3 DEF IInv

-----------------------------------------------------------------------------
(* Steps that change the queues *)

\* Taking an entry out of _pending, releasing its slot and resolving it.
LEMMA ReleaseQueueInv ==
  ASSUME QueueInv(fifo, seq, fut, pending, inflight, board, sent),
         NEW s \in Seqs, pending[s] # None, NEW code \in Terminal
  PROVE  /\ board[pending[s]] \in Boards
         /\ QueueInv(fifo, seq, Resolve(fut, {pending[s]}, code),
                     [pending EXCEPT ![s] = None],
                     FreeSlot(inflight, board[pending[s]], s), board, sent)
<1> DEFINE c == pending[s]
           x == board[c]
           f == Resolve(fut, {c}, code)
           p == [pending EXCEPT ![s] = None]
           fl == FreeSlot(inflight, x, s)
<1>t. QueueTypes(fifo, seq, fut, pending, inflight, board, sent)
  BY DEF QueueInv
<1>c. c \in sent /\ c \in Commands /\ seq[c] = s /\ inflight[x] = s
  BY <1>t DEF QueueInv, PendingInv, QueueTypes
<1>x. x \in Boards
  BY <1>t, <1>c DEF QueueInv, SeqInv, QueueTypes
<1>f. f \in [Commands -> Futures] /\ \A d \in Commands : d # c => f[d] = fut[d]
  BY <1>t DEF QueueTypes, Resolve, Futures
<1>fl. fl = [inflight EXCEPT ![x] = 0]
  <2>1. \A g, y, z : g[y] = z => FreeSlot(g, y, z) = [g EXCEPT ![y] = 0]
    BY DEF FreeSlot
  <2> QED
    BY <1>c, <2>1
<1>ft. [inflight EXCEPT ![x] = 0] \in [Boards -> 0 .. MaxSeq]
  <2>1. inflight \in [Boards -> 0 .. MaxSeq] /\ 0 \in 0 .. MaxSeq
    BY <1>t, SeqAssumption DEF QueueTypes
  <2> HIDE DEF x
  <2> QED
    BY <2>1
<1>p. p \in [Seqs -> Commands \cup {None}]
  BY <1>t DEF QueueTypes
<1>1. QueueTypes(fifo, seq, f, p, fl, board, sent)
  BY <1>t, <1>f, <1>fl, <1>ft, <1>p DEF QueueTypes
<1>2. FifoInv(fifo, seq, f, board, sent)
  <2>1. \A b \in Boards : \A i \in 1 .. Len(fifo[b]) :
          fifo[b][i] \in Commands /\ fifo[b][i] # c
    BY <1>t, <1>c DEF QueueInv, FifoInv, QueueTypes
  <2> QED
    BY <2>1, <1>f DEF QueueInv, FifoInv
<1>3. PendingInv(seq, f, p, fl, board, sent)
  <2> SUFFICES ASSUME NEW t \in Seqs, p[t] # None
               PROVE  /\ p[t] \in sent /\ seq[p[t]] = t
                      /\ f[p[t]] = "wait" /\ fl[board[p[t]]] = t
    BY DEF PendingInv
  <2>1. t # s /\ p[t] = pending[t] /\ pending[t] \in Commands
    BY <1>t DEF QueueTypes
  <2>2. /\ pending[t] \in sent /\ seq[pending[t]] = t
        /\ fut[pending[t]] = "wait" /\ inflight[board[pending[t]]] = t
    BY <2>1 DEF QueueInv, PendingInv
  <2>3. pending[t] # c /\ board[pending[t]] # x
    BY <2>1, <2>2, <1>c
  <2>4. board[pending[t]] \in Boards
    BY <2>1, <2>2, <1>t DEF QueueInv, SeqInv, QueueTypes
  <2> QED
    BY <2>1, <2>2, <2>3, <2>4, <1>f, <1>fl, <1>t DEF QueueTypes
<1> QED
  BY <1>1, <1>2, <1>3, <1>x DEF QueueInv

\* A request that route_command answers at once was never queued, so setting
\* its future disturbs nobody else's.
LEMMA AnsweredStep ==
  ASSUME IInv, NEW c \in Commands, task[c] = "idle", NEW code \in Terminal,
         Answered(c, code)
  PROVE  IInv'
<1>q. UNCHANGED <<board, seq, answer, linkVars, queueVars, timerVars, estopVars,
                  nextSeq, stale, phase>>
  BY DEF Answered
<1>t. QueueTypes(fifo, seq, fut, pending, inflight, board, sent)
  BY DEF IInv, QueueInv
<1>c. fut[c] = "none"
  BY DEF IInv, TaskInv
<1>f. fut' \in [Commands -> Futures] /\ \A d \in Commands : d # c => fut'[d] = fut[d]
  BY <1>t DEF Answered, QueueTypes, Futures
<1>1. QueueInv(fifo', seq', fut', pending', inflight', board', sent')
  <2>1. QueueTypes(fifo, seq, fut', pending, inflight, board, sent)
    BY <1>t, <1>f DEF QueueTypes
  <2>2. FifoInv(fifo, seq, fut', board, sent)
    BY <1>t, <1>c, <1>f DEF IInv, QueueInv, FifoInv, QueueTypes
  <2>3. PendingInv(seq, fut', pending, inflight, board, sent)
    BY <1>t, <1>c, <1>f DEF IInv, QueueInv, PendingInv, QueueTypes
  <2> QED
    BY <1>q, <2>1, <2>2, <2>3 DEF IInv, QueueInv, queueVars
<1>2. AuxTypes'
  BY <1>q DEF IInv, AuxTypes, Answered, TaskStates, linkVars, queueVars, timerVars,
              estopVars
<1>3. TaskInv'
  BY <1>q, <1>f DEF IInv, AuxTypes, TaskInv, Answered, queueVars, timerVars
<1> QED
  BY <1>1, <1>2, <1>3 DEF IInv

\* The state in which route_command leaves an accepted command to the dispatch:
\* its new board_seq is above every earlier one of its board, so the queue stays
\* in order with the command at its end.
LEMMA EnqueueQueueInv ==
  ASSUME IInv, NEW c \in Commands, task[c] = "idle", NEW b \in Boards, SeqLeft(b)
  PROVE  QueueInv([fifo EXCEPT ![b] = Append(fifo[b], c)],
                  [seq EXCEPT ![c] = nextSeq[b]], [fut EXCEPT ![c] = "wait"],
                  pending, inflight, [board EXCEPT ![c] = b], sent)
<1> DEFINE q == Append(fifo[b], c)
           sq == [seq EXCEPT ![c] = nextSeq[b]]
           f == [fut EXCEPT ![c] = "wait"]
           bd == [board EXCEPT ![c] = b]
           fi == [fifo EXCEPT ![b] = q]
<1>t. /\ fifo \in [Boards -> Seq(Commands)] /\ seq \in [Commands -> 0 .. MaxSeq]
      /\ fut \in [Commands -> Futures]
      /\ pending \in [Seqs -> Commands \cup {None}]
      /\ inflight \in [Boards -> 0 .. MaxSeq]
      /\ board \in [Commands -> Boards \cup {None}] /\ sent \subseteq Commands
  BY DEF IInv, QueueInv, QueueTypes
<1>n. nextSeq[b] \in 1 .. MaxSeq
  BY DEF IInv, AuxTypes, SeqLeft
<1>c. board[c] = None /\ fut[c] = "none" /\ c \notin sent
  BY DEF IInv, TaskInv, QueueInv, SeqInv
<1>u. \A x \in Boards : \A i \in 1 .. Len(fifo[x]) :
        /\ fifo[x][i] \in Commands /\ board[fifo[x][i]] = x /\ fifo[x][i] # c
        /\ fut[fifo[x][i]] = "wait" /\ fifo[x][i] \notin sent
  BY <1>t, <1>c DEF IInv, QueueInv, FifoInv
<1>b. \A d \in Commands : d # c /\ board[d] = b => seq[d] < nextSeq[b]
  BY NoneAssumption DEF IInv, TaskInv
<1>q. /\ q \in Seq(Commands) /\ Len(q) = Len(fifo[b]) + 1 /\ q[Len(q)] = c
      /\ \A i \in 1 .. Len(fifo[b]) : q[i] = fifo[b][i]
  BY <1>t
<1>1. QueueTypes(fi, sq, f, pending, inflight, bd, sent)
  BY <1>t, <1>n, <1>q DEF QueueTypes, Futures
<1>2. FifoInv(fi, sq, f, bd, sent)
  <2> SUFFICES ASSUME NEW x \in Boards, NEW i \in 1 .. Len(fi[x])
               PROVE  /\ bd[fi[x][i]] = x
                      /\ f[fi[x][i]] = "wait"
                      /\ fi[x][i] \notin sent
                      /\ \A j \in 1 .. (i - 1) : sq[fi[x][j]] < sq[fi[x][i]]
                      /\ \A d \in sent : bd[d] = x => sq[d] < sq[fi[x][i]]
    BY DEF FifoInv
  <2>1. CASE x = b /\ i = Len(q)
    <3>1. fi[x][i] = c /\ sq[c] = nextSeq[b]
      BY <2>1, <1>q, <1>t
    <3>2. \A j \in 1 .. (i - 1) : sq[fi[x][j]] < sq[fi[x][i]]
      BY <2>1, <3>1, <1>q, <1>u, <1>b, <1>t
    <3>3. \A d \in sent : bd[d] = x => sq[d] < sq[fi[x][i]]
      BY <2>1, <3>1, <1>b, <1>c, <1>t
    <3> QED
      BY <2>1, <3>1, <3>2, <3>3, <1>c, <1>t
  <2>2. CASE ~(x = b /\ i = Len(q))
    <3>1. /\ i \in 1 .. Len(fifo[x]) /\ fi[x][i] = fifo[x][i]
          /\ \A j \in 1 .. (i - 1) : fi[x][j] = fifo[x][j] /\ j \in 1 .. Len(fifo[x])
      <4>1. CASE x = b
        BY <4>1, <2>2, <1>q, <1>t
      <4>2. CASE x # b
        <5>1. fi[x] = fifo[x] /\ Len(fifo[x]) \in Nat
          BY <4>2, <1>t
        <5>2. i \in 1 .. Len(fifo[x])
          BY <5>1, Zenon
        <5> HIDE DEF fi
        <5> QED
          BY <5>1, <5>2
      <4> QED
        BY <4>1, <4>2
    <3>2. /\ \A j \in 1 .. (i - 1) : seq[fifo[x][j]] < seq[fifo[x][i]]
          /\ \A d \in sent : board[d] = x => seq[d] < seq[fifo[x][i]]
      BY <3>1 DEF IInv, QueueInv, FifoInv
    <3>3. \A j \in 1 .. (i - 1) : sq[fi[x][j]] < sq[fi[x][i]]
      <4> SUFFICES ASSUME NEW j \in 1 .. (i - 1)
                   PROVE  sq[fi[x][j]] < sq[fi[x][i]]
        OBVIOUS
      <4>1. /\ fi[x][j] = fifo[x][j] /\ fi[x][i] = fifo[x][i]
            /\ i \in 1 .. Len(fifo[x]) /\ j \in 1 .. Len(fifo[x])
        BY <3>1
      <4>2. sq[fifo[x][j]] = seq[fifo[x][j]] /\ sq[fifo[x][i]] = seq[fifo[x][i]]
        BY <4>1, <1>u
      <4> HIDE DEF fi, sq
      <4> QED
        BY <4>1, <4>2, <3>2
    <3>4. \A d \in sent : bd[d] = x => sq[d] < sq[fi[x][i]]
      BY <3>1, <3>2, <1>u, <1>c, <1>t
    <3> QED
      BY <3>1, <3>3, <3>4, <1>u, <1>t
  <2> QED
    BY <2>1, <2>2
<1>3. PendingInv(sq, f, pending, inflight, bd, sent)
  BY <1>t, <1>c DEF IInv, QueueInv, PendingInv
<1>4. SeqInv(sq, bd, sent)
  <2>1. \A d \in sent : bd[d] # None
    BY <1>t, <1>c DEF IInv, QueueInv, SeqInv
  <2>2. \A d \in Commands : bd[d] # None => sq[d] \in Seqs
    BY <1>t, <1>n DEF IInv, QueueInv, SeqInv, Seqs
  <2>3. \A d, e \in Commands :
          (bd[d] # None /\ bd[d] = bd[e] /\ sq[d] = sq[e]) => d = e
    <3> SUFFICES ASSUME NEW d \in Commands, NEW e \in Commands,
                        bd[d] # None, bd[d] = bd[e], sq[d] = sq[e], d # e
                 PROVE  FALSE
      OBVIOUS
    <3>1. CASE d # c /\ e # c
      BY <3>1, <1>t DEF IInv, QueueInv, SeqInv
    <3>2. CASE d = c
      BY <3>2, <1>b, <1>n, <1>t
    <3>3. CASE e = c
      BY <3>3, <1>b, <1>n, <1>t
    <3> QED
      BY <3>1, <3>2, <3>3
  <2> QED
    BY <2>1, <2>2, <2>3 DEF SeqInv
<1> QED
  BY <1>1, <1>2, <1>3, <1>4 DEF QueueInv

\* route_command accepts a command, and the dispatch that follows keeps the order.
LEMMA EnqueueStep ==
  ASSUME IInv, NEW c \in Commands, task[c] = "idle", NEW b \in Boards,
         RouteEnqueue(c, b)
  PROVE  IInv'
<1> DEFINE q == Append(fifo[b], c)
           sq == [seq EXCEPT ![c] = nextSeq[b]]
           f == [fut EXCEPT ![c] = "wait"]
           bd == [board EXCEPT ![c] = b]
           fi == [fifo EXCEPT ![b] = q]
<1>a. /\ seq' = sq /\ board' = bd
      /\ nextSeq' = [nextSeq EXCEPT ![b] = nextSeq[b] + 1]
      /\ task' = [task EXCEPT ![c] = "active"]
      /\ DispatchNext(b, q, sq, f, pending, inflight, RouteTask(c))
      /\ UNCHANGED <<answer, linkVars, timerVars, estopVars, stale, phase>>
  BY DEF RouteEnqueue, Enqueue, BumpSeq
<1>t. /\ fifo \in [Boards -> Seq(Commands)] /\ seq \in [Commands -> 0 .. MaxSeq]
      /\ fut \in [Commands -> Futures]
      /\ pending \in [Seqs -> Commands \cup {None}]
      /\ inflight \in [Boards -> 0 .. MaxSeq]
      /\ board \in [Commands -> Boards \cup {None}] /\ sent \subseteq Commands
  BY DEF IInv, QueueInv, QueueTypes
<1>n. nextSeq[b] \in 1 .. MaxSeq
  BY DEF IInv, AuxTypes, RouteEnqueue, SeqLeft
<1>q. /\ q \in Seq(Commands) /\ Len(q) = Len(fifo[b]) + 1 /\ q[Len(q)] = c
      /\ \A i \in 1 .. Len(fifo[b]) : q[i] = fifo[b][i]
  BY <1>t
<1>5. QueueInv(fi, sq, f, pending, inflight, bd, sent)
  BY EnqueueQueueInv DEF RouteEnqueue
<1>6. QueueInv(fifo', seq', fut', pending', inflight', board', sent')
  BY <1>5, <1>a, <1>t, <1>q, DispatchQueueInv
<1>w. /\ writing' \in [Commands -> Tasks]
      /\ \A d \in Commands : writing'[d] # NoTask => d \in sent'
      /\ sent \subseteq sent'
  <2>1. RouteTask(c) \in Tasks
    BY DEF Tasks
  <2> QED
    BY <2>1, <1>a, <1>q, DispatchTasks DEF IInv, AuxTypes, TaskInv
<1>7. AuxTypes'
  <2>1. task' \in [Commands -> TaskStates] /\ nextSeq' \in [Boards -> 1 .. MaxSeq + 1]
    BY <1>a, <1>n, SeqAssumption DEF IInv, AuxTypes, TaskStates
  <2> QED
    BY <1>a, <1>w, <2>1 DEF IInv, AuxTypes, linkVars, timerVars, estopVars
<1>8. TaskInv'
  <2>1. \A d \in Commands : d # c => fut'[d] = fut[d] \/ fut[d] # "none"
    <3>1. \A d \in Commands : fut'[d] = f[d] \/ f[d] = "wait"
      BY <1>a, <1>t DEF DispatchNext, Resolve
    <3> QED
      BY <3>1, <1>t
  <2>2. \A d \in Commands : task'[d] = "idle" => board'[d] = None /\ fut'[d] = "none"
    BY <1>a, <2>1, <1>t DEF IInv, AuxTypes, TaskInv
  <2>3. \A d \in Commands : board'[d] # None => seq'[d] < nextSeq'[board'[d]]
    BY <1>a, <1>n, <1>t DEF IInv, AuxTypes, TaskInv
  <2>4. timers' \subseteq sent'
    BY <1>a, <1>w DEF IInv, TaskInv, timerVars
  <2> QED
    BY <2>2, <2>3, <2>4, <1>w DEF TaskInv
<1> QED
  BY <1>6, <1>7, <1>8 DEF IInv

\* Emptying some queues and taking some entries out of _pending, as long as
\* what is left keeps its futures and its slots.
LEMMA RemoveQueueInv ==
  ASSUME QueueInv(fifo, seq, fut, pending, inflight, board, sent),
         NEW fi \in [Boards -> Seq(Commands)],
         \A x \in Boards : fi[x] \in {fifo[x], <<>>},
         NEW f \in [Commands -> Futures],
         NEW p \in [Seqs -> Commands \cup {None}],
         \A s \in Seqs : p[s] \in {pending[s], None},
         NEW fl \in [Boards -> 0 .. MaxSeq],
         \A s \in Seqs : p[s] # None => fl[board[p[s]]] = s /\ f[p[s]] = "wait",
         \A x \in Boards : \A i \in 1 .. Len(fi[x]) : f[fi[x][i]] = "wait"
  PROVE  QueueInv(fi, seq, f, p, fl, board, sent)
<1>1. QueueTypes(fi, seq, f, p, fl, board, sent)
  BY DEF QueueInv, QueueTypes
<1>2. FifoInv(fi, seq, f, board, sent)
  <2> SUFFICES ASSUME NEW x \in Boards, NEW i \in 1 .. Len(fi[x])
               PROVE  /\ board[fi[x][i]] = x
                      /\ f[fi[x][i]] = "wait"
                      /\ fi[x][i] \notin sent
                      /\ \A j \in 1 .. (i - 1) : seq[fi[x][j]] < seq[fi[x][i]]
                      /\ \A d \in sent : board[d] = x => seq[d] < seq[fi[x][i]]
    BY DEF FifoInv
  <2>1. fi[x] = fifo[x]
    OBVIOUS
  <2> QED
    BY <2>1 DEF QueueInv, FifoInv
<1>3. PendingInv(seq, f, p, fl, board, sent)
  BY DEF QueueInv, PendingInv
<1> QED
  BY <1>1, <1>2, <1>3 DEF QueueInv

\* Queued and pending commands are different commands, of known boards.
LEMMA Disjoint ==
  ASSUME QueueInv(fifo, seq, fut, pending, inflight, board, sent)
  PROVE  /\ \A x \in Boards : \A i \in 1 .. Len(fifo[x]) :
              /\ fifo[x][i] \in Commands /\ fut[fifo[x][i]] = "wait"
              /\ board[fifo[x][i]] = x
              /\ \A s \in Seqs : pending[s] # fifo[x][i]
         /\ \A s \in Seqs : pending[s] # None =>
              /\ pending[s] \in Commands /\ fut[pending[s]] = "wait"
              /\ board[pending[s]] \in Boards /\ inflight[board[pending[s]]] = s
<1>1. \A s \in Seqs : pending[s] # None =>
        /\ pending[s] \in Commands /\ fut[pending[s]] = "wait"
        /\ board[pending[s]] \in Boards /\ inflight[board[pending[s]]] = s
        /\ pending[s] \in sent
  BY DEF QueueInv, QueueTypes, PendingInv, SeqInv
<1>2. \A x \in Boards : \A i \in 1 .. Len(fifo[x]) :
        /\ fifo[x][i] \in Commands /\ fut[fifo[x][i]] = "wait"
        /\ board[fifo[x][i]] = x /\ fifo[x][i] \notin sent
  BY DEF QueueInv, QueueTypes, FifoInv
<1> QED
  BY <1>1, <1>2, NoneAssumption

\* _cancel_timeout only removes timeouts.
LEMMA CancelTypes ==
  ASSUME AuxTypes, NEW S, CancelTimeouts(S)
  PROVE  handle' \in [Seqs -> Commands \cup {None}] /\ timers' \subseteq timers
  BY DEF AuxTypes, CancelTimeouts

\* handle_board_response: the entry it finds, whoever owns it, is released
\* and the board of that entry dispatches its next command.
LEMMA ResponseStep ==
  ASSUME IInv, NEW b \in Boards, NEW d \in Commands, HandleBoardResponse(b, d)
  PROVE  IInv'
<1> DEFINE s == seq[d]
           c == pending[s]
           x == board[c]
           f == Resolve(fut, {c}, "board")
           p == [pending EXCEPT ![s] = None]
           fl == FreeSlot(inflight, x, s)
<1>a. /\ d \in sent /\ c # None /\ CancelTimeouts({s})
      /\ answer' = [answer EXCEPT ![c] = IF fut[c] = "wait" THEN d ELSE answer[c]]
      /\ DispatchNext(x, fifo[x], seq, f, p, fl, Reader(b))
      /\ UNCHANGED <<task, board, seq, linkVars, estopVars, nextSeq, stale, phase>>
  BY DEF HandleBoardResponse
<1>t. QueueTypes(fifo, seq, fut, pending, inflight, board, sent)
  BY DEF IInv, QueueInv
<1>s. s \in Seqs
  BY <1>a DEF IInv, QueueInv, SeqInv
<1>x. x \in Boards /\ QueueInv(fifo, seq, f, p, fl, board, sent)
  BY <1>a, <1>s, ReleaseQueueInv DEF IInv, Terminal
<1>q. fifo[x] \in Seq(Commands) /\ [fifo EXCEPT ![x] = fifo[x]] = fifo
  BY <1>x, <1>t DEF QueueTypes
<1>1. QueueInv(fifo', seq', fut', pending', inflight', board', sent')
  <2> HIDE DEF s, c, x, f, p, fl
  <2>1. QueueInv([fifo EXCEPT ![x] = fifo[x]], seq, f, p, fl, board, sent)
    BY <1>x, <1>q
  <2>2. QueueInv(fifo', seq, fut', pending', inflight', board, sent')
    BY <2>1, <1>a, <1>x, <1>q, <1>t, DispatchQueueInv DEF QueueTypes
  <2> QED
    BY <2>2, <1>a
<1>w. /\ writing' \in [Commands -> Tasks]
      /\ \A e \in Commands : writing'[e] # NoTask => e \in sent'
      /\ sent \subseteq sent'
  <2>1. Reader(b) \in Tasks
    BY DEF Tasks
  <2> HIDE DEF s, c, x, f, p, fl
  <2> QED
    BY <2>1, <1>a, <1>x, <1>q, DispatchTasks DEF IInv, AuxTypes, TaskInv
<1>h. handle' \in [Seqs -> Commands \cup {None}] /\ timers' \subseteq timers
  BY <1>a, CancelTypes DEF IInv
<1>2. AuxTypes'
  <2>1. answer' \in [Commands -> Commands \cup {None}]
    <3>1. c \in Commands
      BY <1>a, <1>s, <1>t DEF QueueTypes
    <3> HIDE DEF c
    <3> QED
      BY <3>1, <1>a DEF IInv, AuxTypes
  <2> QED
    BY <1>a, <1>w, <1>h, <2>1 DEF IInv, AuxTypes, linkVars, estopVars
<1>3. TaskInv'
  <2>1. \A e \in Commands : fut[e] = "none" => fut'[e] = "none"
    BY <1>a, <1>t DEF DispatchNext, Resolve, QueueTypes
  <2> QED
    BY SMTT(60), <2>1, <1>a, <1>w, <1>h DEF IInv, TaskInv
<1> QED
  BY <1>1, <1>2, <1>3 DEF IInv

\* _execution_timeout, with or without an entry left to time out.
LEMMA TimeoutStep ==
  ASSUME IInv, NEW d \in Commands, ExecutionTimeout(d)
  PROVE  IInv'
<1> DEFINE s == seq[d]
           c == pending[s]
           x == board[c]
           f == Resolve(fut, {c}, "command_timeout")
           p == [pending EXCEPT ![s] = None]
           fl == FreeSlot(inflight, x, s)
<1>a. /\ d \in timers /\ timers' = timers \ {d}
      /\ UNCHANGED <<task, board, seq, answer, linkVars, estopVars, nextSeq, stale,
                     phase>>
  BY DEF ExecutionTimeout
<1>t. QueueTypes(fifo, seq, fut, pending, inflight, board, sent)
  BY DEF IInv, QueueInv
<1>1. CASE c = None /\ UNCHANGED <<fut, handle, queueVars>>
  <2>1. QueueInv(fifo', seq', fut', pending', inflight', board', sent')
    BY <1>1, <1>a, QueueUnchanged DEF IInv, queue, queueVars
  <2>2. AuxTypes' /\ TaskInv'
    BY <1>1, <1>a DEF IInv, AuxTypes, TaskInv, queueVars, linkVars, estopVars
  <2> QED
    BY <2>1, <2>2 DEF IInv
<1>2. CASE /\ c # None
           /\ handle' = [handle EXCEPT ![s] = None]
           /\ DispatchNext(x, fifo[x], seq, f, p, fl, TimeoutTask)
  <2>s. s \in Seqs
    BY <1>a DEF IInv, TaskInv, QueueInv, SeqInv
  <2>x. x \in Boards /\ QueueInv(fifo, seq, f, p, fl, board, sent)
    BY <1>2, <2>s, ReleaseQueueInv DEF IInv, Terminal
  <2>q. fifo[x] \in Seq(Commands) /\ [fifo EXCEPT ![x] = fifo[x]] = fifo
    BY <2>x, <1>t DEF QueueTypes
  <2>1. QueueInv(fifo', seq', fut', pending', inflight', board', sent')
    <3> HIDE DEF s, c, x, f, p, fl
    <3>1. QueueInv([fifo EXCEPT ![x] = fifo[x]], seq, f, p, fl, board, sent)
      BY <2>x, <2>q
    <3>2. QueueInv(fifo', seq, fut', pending', inflight', board, sent')
      BY <3>1, <1>2, <2>x, <2>q, <1>t, DispatchQueueInv DEF QueueTypes
    <3> QED
      BY <3>2, <1>a
  <2>w. /\ writing' \in [Commands -> Tasks]
        /\ \A e \in Commands : writing'[e] # NoTask => e \in sent'
        /\ sent \subseteq sent'
    <3>1. TimeoutTask \in Tasks
      BY DEF Tasks
    <3> HIDE DEF s, c, x, f, p, fl
    <3> QED
      BY <3>1, <1>2, <2>x, <2>q, DispatchTasks DEF IInv, AuxTypes, TaskInv
  <2>2. AuxTypes'
    BY <1>a, <1>2, <2>w DEF IInv, AuxTypes, linkVars, estopVars
  <2>3. TaskInv'
    <3>1. \A e \in Commands : fut[e] = "none" => fut'[e] = "none"
      BY <1>2, <1>t DEF DispatchNext, Resolve, QueueTypes
    <3> QED
      BY <3>1, <1>a, <2>w DEF IInv, TaskInv
  <2> QED
    BY <2>1, <2>2, <2>3 DEF IInv
<1> QED
  BY <1>1, <1>2 DEF ExecutionTimeout

\* The rest of _dispatch_next after its write: a timeout is armed only for the
\* entry that is still pending.
LEMMA WriteCompletesStep ==
  ASSUME IInv, NEW d \in Commands, WriteCompletes(d)
  PROVE  IInv'
<1>a. /\ writing[d] # NoTask /\ writing' = [writing EXCEPT ![d] = NoTask]
      /\ UNCHANGED <<cmdVars, linkVars, fifo, sent, estopVars, nextSeq, stale, phase>>
  BY DEF WriteCompletes
<1>t. QueueTypes(fifo, seq, fut, pending, inflight, board, sent)
  BY DEF IInv, QueueInv
<1>d. d \in sent /\ seq[d] \in Seqs /\ board[d] \in Boards
  BY <1>a, <1>t DEF IInv, TaskInv, QueueInv, SeqInv, QueueTypes
<1>1. QueueInv(fifo', seq', fut', pending', inflight', board', sent')
  <2>1. CASE UNCHANGED <<pending, inflight>>
    BY <2>1, <1>a, QueueUnchanged DEF IInv, queue, cmdVars
  <2>2. CASE /\ pending' = [pending EXCEPT ![seq[d]] = None]
             /\ inflight' = FreeSlot(inflight, board[d], seq[d])
    <3>1. /\ pending' \in [Seqs -> Commands \cup {None}]
          /\ \A s \in Seqs : pending'[s] \in {pending[s], None}
          /\ pending'[seq[d]] = None
      BY <2>2, <1>d, <1>t DEF QueueTypes
    <3>2. /\ inflight' \in [Boards -> 0 .. MaxSeq]
          /\ \A y \in Boards : inflight'[y] = inflight[y] \/ inflight[y] = seq[d]
      <4>1. inflight \in [Boards -> 0 .. MaxSeq] /\ 0 \in 0 .. MaxSeq
        BY <1>t, SeqAssumption DEF QueueTypes
      <4> QED
        BY <4>1, <2>2, <1>d DEF FreeSlot
    <3>3. \A s \in Seqs : pending'[s] # None =>
            inflight'[board[pending'[s]]] = s /\ fut[pending'[s]] = "wait"
      BY <3>1, <3>2, Disjoint DEF IInv
    <3>4. QueueInv(fifo, seq, fut, pending', inflight', board, sent)
      <4>1. /\ fifo \in [Boards -> Seq(Commands)] /\ fut \in [Commands -> Futures]
            /\ \A x \in Boards : fifo[x] \in {fifo[x], <<>>}
        BY <1>t DEF QueueTypes
      <4>2. \A x \in Boards : \A i \in 1 .. Len(fifo[x]) : fut[fifo[x][i]] = "wait"
        BY Disjoint DEF IInv
      <4>3. QueueInv(fifo, seq, fut, pending, inflight, board, sent)
        BY DEF IInv
      <4> QED
        BY <3>1, <3>2, <3>3, <4>1, <4>2, <4>3, RemoveQueueInv
    <3> QED
      BY <3>4, <1>a DEF cmdVars
  <2> QED
    BY <2>1, <2>2 DEF WriteCompletes
<1>h. handle' \in [Seqs -> Commands \cup {None}] /\ timers' \subseteq timers \cup {d}
  BY DEF WriteCompletes, IInv, AuxTypes, timerVars
<1>w. writing' \in [Commands -> Tasks]
  BY <1>a DEF IInv, AuxTypes, Tasks
<1>2. AuxTypes'
  BY <1>a, <1>h, <1>w DEF IInv, AuxTypes, cmdVars, linkVars, estopVars
<1>3. TaskInv'
  BY <1>a, <1>d, <1>h DEF IInv, AuxTypes, TaskInv, cmdVars
<1> QED
  BY <1>1, <1>2, <1>3 DEF IInv

\* board_down answers what its board had pending or queued, and nothing else.
LEMMA DropStep ==
  ASSUME IInv, NEW b \in Boards, BoardDown(b) \/ LivenessDown(b)
  PROVE  IInv'
<1> DEFINE S == {s \in Seqs : pending[s] # None /\ board[pending[s]] = b}
           R == {pending[s] : s \in S} \cup Queued(fifo[b])
<1>a. /\ conn' = [conn EXCEPT ![b] = "FAULTED"]
      /\ writer' = [writer EXCEPT ![b] = FALSE]
      /\ pending' = [s \in Seqs |-> IF s \in S THEN None ELSE pending[s]]
      /\ CancelTimeouts(S)
      /\ fut' = Resolve(fut, R, "board_unavailable")
      /\ fifo' = [fifo EXCEPT ![b] = <<>>]
      /\ inflight' = [inflight EXCEPT ![b] = 0]
      /\ UNCHANGED <<task, board, seq, answer, schema, writing, sent, ack,
                     estopActive, estopSend, estopWait, estopSent, acked, nextSeq,
                     stale, phase>>
  BY DEF BoardDown, LivenessDown, Drop
<1>b. link' \in [Boards -> LinkStates]
  BY DEF BoardDown, LivenessDown, IInv, AuxTypes, LinkStates
<1>t. QueueTypes(fifo, seq, fut, pending, inflight, board, sent)
  BY DEF IInv, QueueInv
<1>f. /\ fut' \in [Commands -> Futures]
      /\ \A c \in Commands : c \notin R => fut'[c] = fut[c]
      /\ \A c \in Commands : fut[c] = "none" => fut'[c] = "none"
  BY <1>a, <1>t DEF QueueTypes, Resolve, Futures, Terminal
<1>1. QueueInv(fifo', seq', fut', pending', inflight', board', sent')
  <2>1. /\ fifo' \in [Boards -> Seq(Commands)] /\ fifo'[b] = <<>>
        /\ \A x \in Boards : x # b => fifo'[x] = fifo[x]
    BY <1>a, <1>t DEF QueueTypes
  <2>2. /\ pending' \in [Seqs -> Commands \cup {None}]
        /\ \A s \in Seqs : pending'[s] \in {pending[s], None}
        /\ \A s \in Seqs : pending'[s] # None =>
             pending'[s] = pending[s] /\ board[pending[s]] # b
    BY <1>a, <1>t DEF QueueTypes
  <2>3. /\ inflight' \in [Boards -> 0 .. MaxSeq]
        /\ \A x \in Boards : x # b => inflight'[x] = inflight[x]
    <3>1. inflight \in [Boards -> 0 .. MaxSeq] /\ 0 \in 0 .. MaxSeq
      BY <1>t, SeqAssumption DEF QueueTypes
    <3> QED
      BY <1>a, <3>1
  <2>4. \A c \in R : board[c] = b
    BY Disjoint DEF IInv, Queued
  <2>5. \A s \in Seqs : pending'[s] # None =>
          inflight'[board[pending'[s]]] = s /\ fut'[pending'[s]] = "wait"
    <3> HIDE DEF S, R
    <3> QED
      BY <2>2, <2>3, <2>4, <1>f, Disjoint DEF IInv
  <2>6. \A x \in Boards : \A i \in 1 .. Len(fifo'[x]) : fut'[fifo'[x][i]] = "wait"
    <3> HIDE DEF S, R
    <3> QED
      BY <2>1, <2>4, <1>f, Disjoint DEF IInv
  <2>7. \A x \in Boards : fifo'[x] \in {fifo[x], <<>>}
    BY <2>1
  <2>8. QueueInv(fifo, seq, fut, pending, inflight, board, sent)
    BY DEF IInv
  <2>9. QueueInv(fifo', seq, fut', pending', inflight', board, sent)
    BY <2>1, <2>2, <2>3, <2>5, <2>6, <2>7, <2>8, <1>f, RemoveQueueInv
  <2> QED
    BY <2>9, <1>a
<1>h. handle' \in [Seqs -> Commands \cup {None}] /\ timers' \subseteq timers
  BY <1>a, CancelTypes DEF IInv
<1>2. AuxTypes'
  <2>1. conn' \in [Boards -> ConnStates] /\ writer' \in [Boards -> BOOLEAN]
    BY <1>a DEF IInv, AuxTypes, ConnStates
  <2> QED
    BY <1>a, <1>b, <1>h, <2>1 DEF IInv, AuxTypes
<1>3. TaskInv'
  BY <1>a, <1>f, <1>h DEF IInv, TaskInv
<1> QED
  BY <1>1, <1>2, <1>3 DEF IInv

\* trigger_estop empties all queues and keeps what is in flight.
LEMMA TriggerStep ==
  ASSUME IInv, NEW b \in Boards, TriggerEstop(b)
  PROVE  IInv'
<1>a. /\ fut' = Resolve(fut, AllQueued, "estop_active")
      /\ fifo' = [x \in Boards |-> <<>>]
      /\ UNCHANGED <<task, board, seq, answer, linkVars, inflight, pending, writing,
                     sent, timerVars, ack, nextSeq, stale, phase>>
  BY DEF TriggerEstop
<1>t. QueueTypes(fifo, seq, fut, pending, inflight, board, sent)
  BY DEF IInv, QueueInv
<1>f. /\ fut' \in [Commands -> Futures]
      /\ \A c \in Commands : c \notin AllQueued => fut'[c] = fut[c]
      /\ \A c \in Commands : fut[c] = "none" => fut'[c] = "none"
  BY <1>a, <1>t DEF QueueTypes, Resolve, Futures, Terminal
<1>1. QueueInv(fifo', seq', fut', pending', inflight', board', sent')
  <2>1. /\ fifo' \in [Boards -> Seq(Commands)]
        /\ \A x \in Boards : fifo'[x] \in {fifo[x], <<>>}
        /\ \A x \in Boards : \A i \in 1 .. Len(fifo'[x]) : fut'[fifo'[x][i]] = "wait"
    BY <1>a
  <2>2. \A s \in Seqs : pending[s] \notin AllQueued
    BY Disjoint DEF IInv, AllQueued, Queued
  <2>3. \A s \in Seqs : pending[s] # None =>
          inflight[board[pending[s]]] = s /\ fut'[pending[s]] = "wait"
    BY <2>2, <1>f, Disjoint DEF IInv
  <2>4. QueueInv(fifo, seq, fut, pending, inflight, board, sent)
    BY DEF IInv
  <2>5. QueueInv(fifo', seq, fut', pending, inflight, board, sent)
    <3>1. /\ pending \in [Seqs -> Commands \cup {None}]
          /\ inflight \in [Boards -> 0 .. MaxSeq]
          /\ \A s \in Seqs : pending[s] \in {pending[s], None}
      BY <1>t DEF QueueTypes
    <3> QED
      BY <2>1, <2>3, <2>4, <3>1, <1>f, RemoveQueueInv
  <2> QED
    BY <2>5, <1>a
<1>2. AuxTypes'
  <2>1. /\ estopActive' \in BOOLEAN /\ estopSend' \subseteq Boards
        /\ estopWait' \subseteq Boards /\ estopSent' \subseteq Boards
        /\ acked' \subseteq Boards
    BY DEF TriggerEstop, EstopTargets, IInv, AuxTypes
  <2> QED
    BY <1>a, <2>1 DEF IInv, AuxTypes, linkVars, timerVars
<1>3. TaskInv'
  BY <1>a, <1>f DEF IInv, TaskInv, timerVars
<1> QED
  BY <1>1, <1>2, <1>3 DEF IInv

\* _fail_remaining_for_shutdown answers everything that is left.
LEMMA FailRemainingStep ==
  ASSUME IInv, FailRemaining
  PROVE  IInv'
<1> DEFINE S == {s \in Seqs : pending[s] # None}
           R == {pending[s] : s \in S} \cup AllQueued
<1>a. /\ phase' = "failed"
      /\ pending' = [s \in Seqs |-> None]
      /\ CancelTimeouts(S)
      /\ fut' = Resolve(fut, R, "controller_shutdown")
      /\ fifo' = [b \in Boards |-> <<>>]
      /\ inflight' = [b \in Boards |-> 0]
      /\ conn' = [b \in Boards |-> "DISCONNECTED"]
      /\ UNCHANGED <<task, board, seq, answer, link, writer, schema, writing, sent,
                     estopVars, nextSeq, stale>>
  BY DEF FailRemaining
<1>t. QueueTypes(fifo, seq, fut, pending, inflight, board, sent)
  BY DEF IInv, QueueInv
<1>f. /\ fut' \in [Commands -> Futures]
      /\ \A c \in Commands : fut[c] = "none" => fut'[c] = "none"
  BY <1>a, <1>t DEF QueueTypes, Resolve, Futures, Terminal
<1>1. QueueInv(fifo', seq', fut', pending', inflight', board', sent')
  <2>1. QueueTypes(fifo', seq, fut', pending', inflight', board, sent)
    <3>1. /\ fifo' \in [Boards -> Seq(Commands)]
          /\ pending' \in [Seqs -> Commands \cup {None}]
          /\ inflight' \in [Boards -> 0 .. MaxSeq]
      BY <1>a, SeqAssumption
    <3> QED
      BY <3>1, <1>f, <1>t DEF QueueTypes
  <2>2. FifoInv(fifo', seq, fut', board, sent)
    BY <1>a DEF FifoInv
  <2>3. PendingInv(seq, fut', pending', inflight', board, sent)
    BY <1>a DEF PendingInv
  <2> QED
    BY <2>1, <2>2, <2>3, <1>a DEF IInv, QueueInv
<1>h. handle' \in [Seqs -> Commands \cup {None}] /\ timers' \subseteq timers
  BY <1>a, CancelTypes DEF IInv
<1>2. AuxTypes'
  BY <1>a, <1>h DEF IInv, AuxTypes, ConnStates, Phases, estopVars
<1>3. TaskInv'
  BY <1>a, <1>f, <1>h DEF IInv, TaskInv
<1> QED
  BY <1>1, <1>2, <1>3 DEF IInv

-----------------------------------------------------------------------------
(* The invariance theorems *)

\* The controller starts with nothing queued, pending or in flight.
LEMMA InitIInv == Init => IInv
<1> SUFFICES ASSUME Init PROVE IInv
  OBVIOUS
<1>1. QueueTypes(fifo, seq, fut, pending, inflight, board, sent)
  BY SeqAssumption DEF Init, QueueTypes, Futures
<1>2. FifoInv(fifo, seq, fut, board, sent)
  BY DEF Init, FifoInv
<1>3. PendingInv(seq, fut, pending, inflight, board, sent)
  BY DEF Init, PendingInv
<1>4. SeqInv(seq, board, sent)
  BY DEF Init, SeqInv
<1>5. AuxTypes
  <2>1. schema \in [Boards -> SchemaType]
    BY DEF Init, NoSchema, SchemaType
  <2>2. nextSeq \in [Boards -> 1 .. MaxSeq + 1]
    BY SeqAssumption DEF Init
  <2>3. writing \in [Commands -> Tasks]
    BY DEF Init, Tasks
  <2> QED
    BY <2>1, <2>2, <2>3
       DEF Init, AuxTypes, TaskStates, ConnStates, LinkStates, Phases
<1>6. TaskInv
  BY DEF Init, TaskInv
<1> QED
  BY <1>1, <1>2, <1>3, <1>4, <1>5, <1>6 DEF IInv, QueueInv

\* Every outcome of route_command keeps the invariant.
LEMMA RouteStep ==
  ASSUME IInv, NEW c \in Commands, RouteCommand(c)
  PROVE  IInv'
<1>1. task[c] = "idle"
  BY DEF RouteCommand
<1>2. ASSUME NEW code \in Terminal, Answered(c, code)
      PROVE  IInv'
  BY <1>1, <1>2, AnsweredStep
<1>3. CASE RouteShutdown(c) \/ RouteLocal(c) \/ RouteUnknown(c)
  BY <1>2, <1>3 DEF RouteShutdown, RouteLocal, RouteUnknown, Terminal
<1>4. ASSUME NEW b \in Boards,
             \/ RouteUnavailable(c, b) \/ RouteRejected(c, b) \/ RouteBusy(c, b)
             \/ RouteExhausted(c, b) \/ RouteEnqueue(c, b)
      PROVE  IInv'
  <2>1. CASE RouteUnavailable(c, b) \/ RouteRejected(c, b) \/ RouteBusy(c, b)
    BY <1>2, <2>1 DEF RouteUnavailable, RouteRejected, RouteBusy, SchemaReject,
                      Terminal
  <2>2. CASE RouteExhausted(c, b)
    BY <2>2, QuietCommandSteps
  <2>3. CASE RouteEnqueue(c, b)
    BY <2>3, <1>1, EnqueueStep
  <2> QED
    BY <1>4, <2>1, <2>2, <2>3
<1> QED
  BY <1>3, <1>4 DEF RouteCommand

\* Every step of every task keeps the invariant.
LEMMA NextIInv == IInv /\ [Next]_vars => IInv'
<1> SUFFICES ASSUME IInv, [Next]_vars PROVE IInv'
  OBVIOUS
<1>1. ASSUME NEW c \in Commands, CommandStep(c) PROVE IInv'
  BY <1>1, RouteStep, QuietCommandSteps, WriteCompletesStep, TimeoutStep
     DEF CommandStep
<1>2. ASSUME NEW b \in Boards, BoardStep(b) PROVE IInv'
  BY <1>2, ResponseStep, QuietBoardSteps, DropStep, TriggerStep DEF BoardStep
<1>3. CASE ControllerStep
  BY <1>3, QuietControllerSteps, FailRemainingStep DEF ControllerStep
<1>4. CASE UNCHANGED vars
  <2>1. UNCHANGED <<cmdVars, linkVars, queueVars, timerVars, estopVars, nextSeq,
                    stale, phase>>
    BY <1>4 DEF vars
  <2>2. QueueInv(fifo', seq', fut', pending', inflight', board', sent')
    BY <2>1, QueueUnchanged DEF IInv, queue, cmdVars, queueVars
  <2>3. AuxTypes' /\ TaskInv'
    BY <2>1 DEF IInv, AuxTypes, TaskInv, cmdVars, linkVars, queueVars, timerVars,
                estopVars
  <2> QED
    BY <2>2, <2>3 DEF IInv
<1> QED
  BY <1>1, <1>2, <1>3, <1>4 DEF Next

\* The strengthened invariant holds in every state of ControllerCore.
THEOREM Invariance == Spec => []IInv
  BY InitIInv, NextIInv, PTL DEF Spec

\* Every variable of the dispatcher keeps its type, the board_seq of an
\* accepted command stays in the counter's range.
THEOREM TypeCorrect == Spec => []TypeOK
<1>1. IInv => TypeOK
  BY DEF IInv, QueueInv, QueueTypes, AuxTypes, TypeOK, Futures
<1> QED
  BY <1>1, Invariance, PTL

\* An entry of _pending waits, holds its board's slot and has its key as
\* board_seq, for any number of boards that share _pending.
THEOREM PendingSoundness == Spec => []PendingSound
<1>1. IInv => PendingSound
  <2> SUFFICES ASSUME IInv, NEW s \in Seqs, pending[s] # None
               PROVE  /\ seq[pending[s]] = s /\ fut[pending[s]] = "wait"
                      /\ board[pending[s]] \in Boards
                      /\ inflight[board[pending[s]]] = s
    BY DEF PendingSound
  <2> QED
    BY Disjoint DEF IInv, QueueInv, PendingInv
<1> QED
  BY <1>1, Invariance, PTL

\* Commands reach their board in the order in which they were accepted.
THEOREM FifoOrderAlways == Spec => []FifoOrder
<1>1. IInv => FifoOrder
  BY DEF IInv, QueueInv, FifoInv, FifoOrder
<1> QED
  BY <1>1, Invariance, PTL

-----------------------------------------------------------------------------
(* The e-stop reaches every registered board *)

\* Only register_board makes a board available; it sends the e-stop itself.
THEOREM EstopDelivery == Spec => []EstopReachesAll
<1>1. Init => EstopReachesAll
  BY DEF Init, EstopReachesAll
<1>2. ASSUME IInv, EstopReachesAll, [Next]_vars
      PROVE  EstopReachesAll'
  <2> SUFFICES ASSUME estopActive', NEW x \in Boards, writer'[x], conn'[x] = "REGISTERED"
               PROVE  x \in estopSend' \cup estopSent'
    BY DEF EstopReachesAll, Available
  <2>t. /\ conn \in [Boards -> ConnStates] /\ writer \in [Boards -> BOOLEAN]
        /\ estopWait \subseteq Boards
    BY <1>2 DEF IInv, AuxTypes
  <2>0. CASE UNCHANGED <<linkVars, estopVars>>
    BY <1>2, <2>0 DEF EstopReachesAll, Available, linkVars, estopVars
  <2>1. ASSUME NEW c \in Commands, CommandStep(c)
        PROVE  x \in estopSend' \cup estopSent'
    <3>1. CASE WriteFails(c)
      BY <1>2, <2>t, <3>1 DEF WriteFails, estopVars, EstopReachesAll, Available
    <3>2. CASE RouteCommand(c) \/ Reply(c) \/ Expire(c) \/ WriteCompletes(c)
               \/ ExecutionTimeout(c)
      <4>1. UNCHANGED <<linkVars, estopVars>>
        BY <3>2 DEF RouteCommand, RouteShutdown, RouteLocal, RouteUnknown,
             RouteUnavailable, RouteRejected, RouteBusy, RouteExhausted,
             RouteEnqueue, Answered, Reply, Expire, WriteCompletes, ExecutionTimeout
      <4> QED
        BY <4>1, <2>0
    <3> QED
      BY <2>1, <3>1, <3>2 DEF CommandStep
  <2>2. ASSUME NEW b \in Boards, BoardStep(b)
        PROVE  x \in estopSend' \cup estopSent'
    <3>1. CASE \E d \in Commands : HandleBoardResponse(b, d)
      <4>1. UNCHANGED <<linkVars, estopVars>>
        BY <3>1 DEF HandleBoardResponse
      <4> QED
        BY <4>1, <2>0
    <3>2. CASE Connect(b) \/ ConnectFails(b) \/ LinkLost(b) \/ LinkDies(b) \/ StopLink(b)
      BY <1>2, <2>t, <3>2 DEF Connect, ConnectFails, LinkLost, LinkDies, StopLink, estopVars,
                              EstopReachesAll, Available
    <3>3. CASE RegisterBoard(b)
      BY <1>2, <2>t, <3>3 DEF RegisterBoard, EstopReachesAll, Available
    <3>4. CASE BoardDown(b) \/ LivenessDown(b)
      BY <1>2, <2>t, <3>4 DEF BoardDown, LivenessDown, Drop, EstopReachesAll, Available
    <3>5. CASE TriggerEstop(b)
      BY <3>5 DEF TriggerEstop, EstopTargets, Available, linkVars
    <3>6. CASE SendEstop(b)
      BY <1>2, <3>6 DEF SendEstop, MarkEstopSent, linkVars, EstopReachesAll, Available
    <3>7. CASE SendEstopFails(b)
      <4>1. /\ estopSend' = estopSend \ {b} /\ estopSent' = estopSent \cup {b}
            /\ UNCHANGED <<estopActive, writer>>
        BY <3>7 DEF SendEstopFails, MarkEstopSent
      <4>2. conn[x] = "REGISTERED"
        BY <2>t, <3>7 DEF SendEstopFails
      <4> QED
        BY <1>2, <4>1, <4>2 DEF EstopReachesAll, Available
    <3>8. CASE EstopAck(b)
      BY <1>2, <3>8 DEF EstopAck, linkVars, EstopReachesAll, Available
    <3> QED
      BY <2>2, <3>1, <3>2, <3>3, <3>4, <3>5, <3>6, <3>7, <3>8 DEF BoardStep
  <2>3. CASE ControllerStep
    BY <1>2, <2>t, <2>3
       DEF ControllerStep, ResetEstop, RequestStop, Shutdown, FailRemaining,
           CloseWriters, linkVars, estopVars, EstopReachesAll, Available
  <2>4. CASE UNCHANGED vars
    BY <2>0, <2>4 DEF vars
  <2> QED
    BY <1>2, <2>1, <2>2, <2>3, <2>4 DEF Next
<1> QED
  BY <1>1, <1>2, Invariance, PTL DEF Spec

=============================================================================
