----------------------- MODULE ControllerQueue_proofs -----------------------
(***************************************************************************)
(* More about the queues of ControllerCore: their bound and the e-stop's   *)
(* gate, for any number of boards, and, for a controller with one board,   *)
(* that no command is lost, waits without reason, misses its timeout or    *)
(* gets the answer to another one.                                         *)
(***************************************************************************)
EXTENDS ControllerCore_proofs

-----------------------------------------------------------------------------
(* The inductive invariants *)

\* A reader that is suspended, in a write or in an e-stop, is in its read loop,
\* and in one of the two only, for one command.
ReaderInv ==
  /\ \A b \in Boards : \A c \in Commands : writing[c] = Reader(b) =>
       /\ link[b] \in {"up", "reported"} /\ b \notin estopWait
       /\ \A d \in Commands : writing[d] = Reader(b) => d = c
  /\ \A b \in estopWait : link[b] \in {"up", "reported"}

\* A board without a writer has an empty queue, one that has not registered
\* since its last board_down has no writer, and after the drain window there is
\* no queue left.
LinkInv ==
  \A b \in Boards :
    /\ ~writer[b] \/ phase \in {"failed", "closed"} => fifo[b] = <<>>
    /\ link[b] \in {"down", "connecting", "connected", "reported"} => ~writer[b]

\* While the e-stop is latched nothing is queued that it blocks.
GateInv ==
  estopActive =>
    \A b \in Boards : \A i \in 1 .. Len(fifo[b]) : fifo[b][i] \notin schema[b].blocked

\* The invariant of any number of boards, with the bound of the queues.
BoardsInv == ReaderInv /\ LinkInv /\ GateInv /\ FifoBound

-----------------------------------------------------------------------------
(* _dispatch_next *)

\* A part of q stays queued, less than all of it where a command can be sent.
Shortens(b, q, fl) ==
  /\ \A x \in Boards : x # b => fifo'[x] = fifo[x]
  /\ fifo'[b] \in Seq(Commands)
  /\ \A i \in 1 .. Len(fifo'[b]) : \E j \in 1 .. Len(q) : fifo'[b][i] = q[j]
  /\ \/ fifo'[b] = q
     \/ Len(fifo'[b]) + 1 <= Len(q) \/ fifo'[b] = <<>>
  /\ ~ShuttingDown /\ Available(b) /\ SlotFree(fl, b)
       => Len(fifo'[b]) + 1 <= Len(q) \/ fifo'[b] = <<>>

\* At most one command of q is written.
WritesOne(q, who) ==
  \/ writing' = writing /\ sent' = sent
  \/ \E i \in 1 .. Len(q) : /\ writing' = [writing EXCEPT ![q[i]] = who]
                            /\ sent' = sent \cup {q[i]}

\* What a dispatch does to the queue and to the tasks.
LEMMA DispatchEffect ==
  ASSUME NEW b \in Boards, NEW q \in Seq(Commands), NEW sq, NEW f, NEW p, NEW fl, NEW who,
         fifo \in [Boards -> Seq(Commands)],
         DispatchNext(b, q, sq, f, p, fl, who)
  PROVE  Shortens(b, q, fl) /\ WritesOne(q, who)
<1> DEFINE can == ~ShuttingDown /\ Available(b) /\ SlotFree(fl, b)
<1>1. CASE ~can
  BY <1>1 DEF DispatchNext, Shortens, WritesOne
<1>2. CASE can
  <2>1. PICK n \in 0 .. Len(q) :
          \/ /\ n = Len(q)
             /\ fifo' = [fifo EXCEPT ![b] = <<>>]
             /\ UNCHANGED <<writing, sent>>
          \/ /\ n < Len(q)
             /\ fifo' = [fifo EXCEPT ![b] = SubSeq(q, n + 2, Len(q))]
             /\ writing' = [writing EXCEPT ![q[n + 1]] = who]
             /\ sent' = sent \cup {q[n + 1]}
    BY <1>2, Zenon DEF DispatchNext
  <2> HIDE DEF can
  <2>2. CASE n = Len(q) /\ fifo' = [fifo EXCEPT ![b] = <<>>] /\ UNCHANGED <<writing, sent>>
    BY <2>2 DEF can, Shortens, WritesOne
  <2>3. CASE /\ n < Len(q)
             /\ fifo' = [fifo EXCEPT ![b] = SubSeq(q, n + 2, Len(q))]
             /\ writing' = [writing EXCEPT ![q[n + 1]] = who]
             /\ sent' = sent \cup {q[n + 1]}
    <3> DEFINE m == n + 1
    <3>1. m \in 1 .. Len(q) /\ n + 2 = m + 1
      BY <2>3
    <3>2. fifo'[b] = SubSeq(q, m + 1, Len(q)) /\ \A x \in Boards : x # b => fifo'[x] = fifo[x]
      BY <2>3, <3>1
    <3>3. /\ writing' = [writing EXCEPT ![q[m]] = who]
          /\ sent' = sent \cup {q[m]}
      BY <2>3
    <3> HIDE DEF m
    <3>4. /\ fifo'[b] \in Seq(Commands) /\ Len(fifo'[b]) = Len(q) - m
          /\ \A i \in 1 .. (Len(q) - m) : fifo'[b][i] = q[m + i]
      BY <3>1, <3>2, SuffixElements
    <3>5. \A i \in 1 .. Len(fifo'[b]) : m + i \in 1 .. Len(q) /\ fifo'[b][i] = q[m + i]
      BY <3>1, <3>4
    <3>6. Len(fifo'[b]) + 1 <= Len(q)
      BY <3>1, <3>4
    <3> QED
      BY <3>1, <3>2, <3>3, <3>4, <3>5, <3>6 DEF Shortens, WritesOne
  <2> QED
    BY <2>1, <2>2, <2>3
<1> QED
  BY <1>1, <1>2

\* A dispatch keeps the invariant when its caller hands it a queue that is within
\* the bound, or one over it with a free slot, that passes the e-stop's gate and
\* belongs to a board with a writer, on behalf of a reader that is free.
LEMMA DispatchBoards ==
  ASSUME IInv, BoardsInv, NEW b \in Boards, NEW q \in Seq(Commands), NEW sq, NEW f, NEW p,
         NEW fl, NEW who,
         \A y \in Boards : who = Reader(y) => link[y] \in {"up", "reported"} /\ ReaderFree(y),
         ~writer[b] \/ phase \in {"failed", "closed"} => q = <<>>,
         estopActive => \A i \in 1 .. Len(q) : q[i] \notin schema[b].blocked,
         \/ Len(q) <= FifoDepth
         \/ /\ ~ShuttingDown /\ Available(b) /\ SlotFree(fl, b)
            /\ Len(q) <= FifoDepth + 1,
         DispatchNext(b, q, sq, f, p, fl, who),
         UNCHANGED <<linkVars, estopVars, phase>>
  PROVE  /\ BoardsInv'
         /\ \A c \in sent' \ sent : \E i \in 1 .. Len(q) : c = q[i]
<1>t. fifo \in [Boards -> Seq(Commands)] /\ writing \in [Commands -> Tasks]
  BY DEF IInv, QueueInv, QueueTypes, AuxTypes
<1>u. UNCHANGED <<conn, link, writer, schema, estopActive, estopWait, phase>>
  BY DEF linkVars, estopVars
<1>1. Shortens(b, q, fl) /\ WritesOne(q, who)
  BY <1>t, DispatchEffect
<1>2. FifoBound'
  <2>1. Len(fifo'[b]) <= FifoDepth
    <3>1. Len(fifo'[b]) \in Nat /\ Len(q) \in Nat /\ FifoDepth \in Nat
      BY <1>1, DepthAssumption DEF Shortens
    <3>2. fifo'[b] = <<>> => Len(fifo'[b]) = 0
      OBVIOUS
    <3>3. CASE Len(q) <= FifoDepth
      BY <1>1, <3>1, <3>2, <3>3 DEF Shortens
    <3>4. CASE /\ ~ShuttingDown /\ Available(b) /\ SlotFree(fl, b)
               /\ Len(q) <= FifoDepth + 1
      BY <1>1, <3>1, <3>2, <3>4 DEF Shortens
    <3> QED
      BY <3>3, <3>4
  <2> QED
    BY <2>1, <1>1 DEF FifoBound, BoardsInv, Shortens
<1>3. GateInv'
  BY SMTT(60), <1>1, <1>u DEF GateInv, BoardsInv, Shortens
<1>4. LinkInv'
  <2>1. q = <<>> => fifo'[b] = <<>>
    BY <1>1 DEF Shortens
  <2> QED
    BY <2>1, <1>1, <1>u DEF LinkInv, BoardsInv, Shortens
<1>5. ReaderInv'
  <2>1. CASE UNCHANGED writing
    BY <2>1, <1>u DEF ReaderInv, BoardsInv, Reader
  <2>2. ASSUME NEW i \in 1 .. Len(q), writing' = [writing EXCEPT ![q[i]] = who]
        PROVE  ReaderInv'
    <3> DEFINE e == q[i]
    <3>1. e \in Commands /\ writing' = [writing EXCEPT ![e] = who]
      BY <2>2
    <3> HIDE DEF e
    <3>2. ASSUME NEW y \in Boards, NEW c \in Commands, writing'[c] = Reader(y)
          PROVE  /\ link[y] \in {"up", "reported"} /\ y \notin estopWait
                 /\ \A d \in Commands : writing'[d] = Reader(y) => d = c
      <4>1. CASE who = Reader(y)
        <5>1. \A d \in Commands : writing[d] # Reader(y)
          BY <4>1 DEF ReaderFree
        <5>2. \A d \in Commands : writing'[d] = Reader(y) => d = e
          BY <5>1, <3>1, <1>t
        <5> QED
          BY <4>1, <5>2, <3>2 DEF ReaderFree
      <4>2. CASE who # Reader(y)
        <5>1. \A d \in Commands : writing'[d] = Reader(y) => writing[d] = Reader(y)
          BY <4>2, <3>1, <1>t
        <5> QED
          BY <5>1, <3>2 DEF BoardsInv, ReaderInv
      <4> QED
        BY <4>1, <4>2
    <3>3. \A y \in estopWait : link[y] \in {"up", "reported"}
      BY DEF BoardsInv, ReaderInv
    <3> QED
      BY <3>2, <3>3, <1>u DEF ReaderInv, Reader
  <2> QED
    BY <2>1, <2>2, <1>1 DEF WritesOne
<1>6. \A c \in sent' \ sent : \E i \in 1 .. Len(q) : c = q[i]
  BY <1>1 DEF WritesOne
<1> QED
  BY <1>2, <1>3, <1>4, <1>5, <1>6 DEF BoardsInv

-----------------------------------------------------------------------------
(* The steps keep the invariant of any number of boards *)

\* What the e-stop's gate asks of a step.
Gated ==
  \A c \in Commands : (estopActive /\ c \in sent' \ sent) => c \notin schema[board'[c]].blocked

\* The names of the tasks differ.
LEMMA TaskNames ==
  /\ \A c \in Commands : \A y \in Boards : RouteTask(c) # Reader(y)
  /\ \A y \in Boards : TimeoutTask # Reader(y) /\ NoTask # Reader(y)
  /\ \A x, y \in Boards : Reader(x) = Reader(y) => x = y
  BY DEF RouteTask, Reader, TimeoutTask, NoTask

\* route_command appends a command that the gate lets through, where there is
\* room or the slot is free.
LEMMA EnqueueBoards ==
  ASSUME IInv, BoardsInv, NEW c \in Commands, NEW b \in Boards, RouteEnqueue(c, b)
  PROVE  BoardsInv' /\ Gated
<1> DEFINE q == Append(fifo[b], c)
<1>a. /\ ~ShuttingDown /\ Available(b) /\ SchemaReject(b, c) = "none" /\ ~FifoFull(b)
      /\ board' = [board EXCEPT ![c] = b]
      /\ DispatchNext(b, q, [seq EXCEPT ![c] = nextSeq[b]], [fut EXCEPT ![c] = "wait"],
                      pending, inflight, RouteTask(c))
      /\ UNCHANGED <<linkVars, estopVars, phase>>
  BY DEF RouteEnqueue, Enqueue
<1>t. /\ fifo \in [Boards -> Seq(Commands)] /\ board \in [Commands -> Boards \cup {None}]
      /\ inflight \in [Boards -> 0 .. MaxSeq]
  BY DEF IInv, QueueInv, QueueTypes
<1>1. /\ q \in Seq(Commands) /\ Len(q) = Len(fifo[b]) + 1 /\ Len(fifo[b]) \in Nat
      /\ \A i \in 1 .. Len(q) : q[i] = IF i <= Len(fifo[b]) THEN fifo[b][i] ELSE c
  BY <1>t
<1>2. estopActive => \A i \in 1 .. Len(q) : q[i] \notin schema[b].blocked
  <2>1. estopActive => c \notin schema[b].blocked
    BY <1>a DEF SchemaReject
  <2> QED
    BY <2>1, <1>1 DEF BoardsInv, GateInv
<1>3. \/ Len(q) <= FifoDepth
      \/ /\ ~ShuttingDown /\ Available(b) /\ SlotFree(inflight, b)
         /\ Len(q) <= FifoDepth + 1
  <2>1. Len(fifo[b]) <= FifoDepth
    BY DEF BoardsInv, FifoBound
  <2>2. inflight[b] = 0 \/ ~(Len(fifo[b]) >= FifoDepth)
    BY <1>a DEF FifoFull
  <2> QED
    BY <2>1, <2>2, <1>1, <1>a, DepthAssumption DEF SlotFree
<1>4. ~(~writer[b] \/ phase \in {"failed", "closed"})
  BY <1>a DEF Available, ShuttingDown
<1>5. \A y \in Boards : RouteTask(c) # Reader(y)
  BY TaskNames
<1>6. \A i \in 1 .. Len(q) : board'[q[i]] = b
  <2>1. \A i \in 1 .. Len(fifo[b]) : fifo[b][i] \in Commands /\ board[fifo[b][i]] = b
    BY Disjoint DEF IInv
  <2> QED
    BY <2>1, <1>1, <1>a, <1>t
<1> HIDE DEF q
<1>7. /\ BoardsInv'
      /\ \A e \in sent' \ sent : \E i \in 1 .. Len(q) : e = q[i]
  BY <1>a, <1>1, <1>2, <1>3, <1>4, <1>5, DispatchBoards
<1> QED
  BY <1>7, <1>2, <1>6 DEF Gated

\* handle_board_response and _execution_timeout dispatch from the queue as it is.
LEMMA RedispatchBoards ==
  ASSUME IInv, BoardsInv, NEW x \in Boards, NEW f, NEW p, NEW fl, NEW who,
         \A y \in Boards : who = Reader(y) => link[y] \in {"up", "reported"} /\ ReaderFree(y),
         DispatchNext(x, fifo[x], seq, f, p, fl, who),
         UNCHANGED <<board, linkVars, estopVars, phase>>
  PROVE  BoardsInv' /\ Gated
<1>1. /\ fifo[x] \in Seq(Commands) /\ Len(fifo[x]) <= FifoDepth
      /\ ~writer[x] \/ phase \in {"failed", "closed"} => fifo[x] = <<>>
      /\ estopActive => \A i \in 1 .. Len(fifo[x]) : fifo[x][i] \notin schema[x].blocked
  BY DEF IInv, QueueInv, QueueTypes, BoardsInv, FifoBound, LinkInv, GateInv
<1>2. /\ BoardsInv'
      /\ \A e \in sent' \ sent : \E i \in 1 .. Len(fifo[x]) : e = fifo[x][i]
  BY <1>1, DispatchBoards
<1>3. \A i \in 1 .. Len(fifo[x]) : board'[fifo[x][i]] = x
  BY Disjoint DEF IInv
<1> QED
  BY <1>1, <1>2, <1>3 DEF Gated

\* The board of the entry that a response or a timeout finds.
LEMMA EntryBoard ==
  ASSUME IInv, NEW d \in Commands, d \in sent, pending[seq[d]] # None
  PROVE  /\ seq[d] \in Seqs /\ pending[seq[d]] \in Commands
         /\ board[pending[seq[d]]] \in Boards
<1>1. seq[d] \in Seqs
  BY DEF IInv, QueueInv, SeqInv
<1> QED
  BY <1>1, Disjoint DEF IInv

\* Steps that leave queues, connections and e-stop alone.
LEMMA QuietBoards ==
  ASSUME BoardsInv, UNCHANGED <<fifo, writing, linkVars, estopVars>>,
         phase' = phase \/ phase' \notin {"failed", "closed"}
  PROVE  BoardsInv'
<1>1. UNCHANGED <<conn, link, writer, schema, estopActive, estopWait>>
  BY DEF linkVars, estopVars
<1> QED
  BY <1>1 DEF BoardsInv, ReaderInv, LinkInv, GateInv, FifoBound, Reader

\* The steps of the tasks that serve commands.
LEMMA CommandBoards ==
  ASSUME IInv, BoardsInv, NEW c \in Commands, CommandStep(c)
  PROVE  BoardsInv' /\ Gated
<1>0. ASSUME UNCHANGED <<fifo, writing, sent, linkVars, estopVars, phase>>
      PROVE  BoardsInv' /\ Gated
  BY <1>0, QuietBoards DEF Gated
<1>1. CASE RouteCommand(c)
  <2>1. CASE \E b \in Boards : RouteEnqueue(c, b)
    BY <2>1, EnqueueBoards
  <2>2. CASE ~\E b \in Boards : RouteEnqueue(c, b)
    <3>1. UNCHANGED <<fifo, writing, sent, linkVars, estopVars, phase>>
      BY <1>1, <2>2 DEF RouteCommand, RouteShutdown, RouteLocal, RouteUnknown,
           RouteUnavailable, RouteRejected, RouteBusy, RouteExhausted, Answered, queueVars
    <3> QED
      BY <3>1, <1>0
  <2> QED
    BY <2>1, <2>2
<1>2. CASE Reply(c) \/ Expire(c)
  <2>1. UNCHANGED <<fifo, writing, sent, linkVars, estopVars, phase>>
    BY <1>2 DEF Reply, Expire, queueVars
  <2> QED
    BY <2>1, <1>0
<1>t. writing \in [Commands -> Tasks] /\ link \in [Boards -> LinkStates]
  BY DEF IInv, AuxTypes
<1>3. CASE WriteCompletes(c)
  <2>1. /\ writing' = [writing EXCEPT ![c] = NoTask]
        /\ UNCHANGED <<fifo, sent, conn, link, writer, schema, estopActive, estopWait, phase>>
    BY <1>3 DEF WriteCompletes, linkVars, estopVars
  <2>2. \A y \in Boards : \A d \in Commands : writing'[d] = Reader(y) => writing[d] = Reader(y)
    BY <2>1, <1>t, TaskNames
  <2>3. ReaderInv'
    BY <2>1, <2>2 DEF BoardsInv, ReaderInv, Reader
  <2> QED
    BY <2>1, <2>3 DEF BoardsInv, LinkInv, GateInv, FifoBound, Gated
<1>4. CASE WriteFails(c)
  <2>1. /\ writing' = [writing EXCEPT ![c] = NoTask] /\ writing[c] # NoTask
        /\ UNCHANGED <<fifo, sent, writer, schema, estopActive, estopWait, phase>>
        /\ \/ UNCHANGED link
           \/ \E b \in Boards :
                /\ writing[c] = Reader(b)
                /\ \/ link' = [link EXCEPT ![b] = AfterReading(b)]
                   \/ link' = [link EXCEPT ![b] = IF link[b] = "up" THEN "dying" ELSE "stopped"]
    BY <1>4 DEF WriteFails, estopVars
  <2>2. \A y \in Boards : \A d \in Commands :
          writing'[d] = Reader(y) => writing[d] = Reader(y) /\ d # c
    BY <2>1, <1>t, TaskNames
  <2>3. CASE UNCHANGED link
    <3>1. ReaderInv'
      BY <2>1, <2>2, <2>3 DEF BoardsInv, ReaderInv, Reader
    <3> QED
      BY <2>1, <2>3, <3>1 DEF BoardsInv, LinkInv, GateInv, FifoBound, Gated
  <2>4. ASSUME NEW b \in Boards, writing[c] = Reader(b),
               \/ link' = [link EXCEPT ![b] = AfterReading(b)]
               \/ link' = [link EXCEPT ![b] = IF link[b] = "up" THEN "dying" ELSE "stopped"]
        PROVE  BoardsInv' /\ Gated
    <3>1. link[b] \in {"up", "reported"} /\ b \notin estopWait
      BY <2>4 DEF BoardsInv, ReaderInv
    <3>2. \A y \in Boards : y # b => link'[y] = link[y]
      BY <2>4, <1>t
    <3>3. \A d \in Commands : writing'[d] # Reader(b)
      BY <2>2, <2>4 DEF BoardsInv, ReaderInv
    <3>4. estopWait \subseteq Boards
      BY DEF IInv, AuxTypes
    <3>5. ReaderInv'
      BY <2>1, <2>2, <3>1, <3>2, <3>3, <3>4 DEF BoardsInv, ReaderInv, Reader
    <3>6. link'[b] \in {"closing", "dying", "stopped"} \/ (link'[b] = "down" /\ link[b] = "reported")
      BY <2>4, <3>1, <1>t DEF AfterReading
    <3>7. LinkInv'
      BY <2>1, <3>2, <3>6 DEF BoardsInv, LinkInv
    <3> QED
      BY <2>1, <3>5, <3>7 DEF BoardsInv, GateInv, FifoBound, Gated
  <2> QED
    BY <2>1, <2>3, <2>4
<1>5. CASE ExecutionTimeout(c)
  <2>1. c \in timers /\ c \in sent /\ UNCHANGED <<board, linkVars, estopVars, phase>>
    BY <1>5 DEF ExecutionTimeout, IInv, TaskInv
  <2>2. CASE UNCHANGED queueVars
    BY <2>1, <2>2, <1>0 DEF queueVars
  <2>3. CASE pending[seq[c]] # None /\ ~UNCHANGED queueVars
    <3>1. DispatchNext(board[pending[seq[c]]], fifo[board[pending[seq[c]]]], seq,
                       Resolve(fut, {pending[seq[c]]}, "command_timeout"),
                       [pending EXCEPT ![seq[c]] = None],
                       FreeSlot(inflight, board[pending[seq[c]]], seq[c]), TimeoutTask)
      BY <1>5, <2>3 DEF ExecutionTimeout
    <3>2. board[pending[seq[c]]] \in Boards
      BY <2>1, <2>3, EntryBoard
    <3> QED
      BY <2>1, <3>1, <3>2, TaskNames, RedispatchBoards
  <2> QED
    BY <1>5, <2>2, <2>3 DEF ExecutionTimeout
<1> QED
  BY <1>1, <1>2, <1>3, <1>4, <1>5 DEF CommandStep

\* A connection whose reader is not suspended moves on; a board that registers
\* has nothing queued, so its new schema cannot block a queued command.
LEMMA LinkBoards ==
  ASSUME IInv, BoardsInv, NEW b \in Boards,
         \/ Connect(b) \/ ConnectFails(b) \/ RegisterBoard(b) \/ LinkLost(b) \/ LinkDies(b)
         \/ StopLink(b)
  PROVE  BoardsInv' /\ Gated
<1>t. /\ link \in [Boards -> LinkStates] /\ writer \in [Boards -> BOOLEAN]
      /\ schema \in [Boards -> SchemaType] /\ estopWait \subseteq Boards
  BY DEF IInv, AuxTypes
<1>1. /\ UNCHANGED <<fifo, writing, sent, estopActive, estopWait, phase>>
      /\ \A y \in Boards : y # b => link'[y] = link[y] /\ writer'[y] = writer[y]
                                    /\ schema'[y] = schema[y]
  BY <1>t DEF Connect, ConnectFails, RegisterBoard, LinkLost, LinkDies, StopLink, queueVars,
              estopVars
<1>2. ReaderFree(b)
  BY DEF Connect, ConnectFails, RegisterBoard, LinkLost, LinkDies, StopLink, BoardsInv,
         ReaderInv, ReaderFree
<1>3. ReaderInv'
  BY <1>t, <1>1, <1>2 DEF BoardsInv, ReaderInv, ReaderFree, Reader
<1>4. CASE RegisterBoard(b)
  <2>1. /\ link'[b] = "up" /\ writer'[b] /\ fifo[b] = <<>>
    BY <1>4, <1>t DEF RegisterBoard, BoardsInv, LinkInv
  <2> QED
    BY <1>1, <1>3, <2>1 DEF BoardsInv, LinkInv, GateInv, FifoBound, Gated
<1>5. CASE ~RegisterBoard(b)
  <2>1. UNCHANGED <<writer, schema>>
    BY <1>5 DEF Connect, ConnectFails, LinkLost, LinkDies, StopLink
  <2>2. link'[b] \in {"down", "connecting", "connected", "reported"} => ~writer[b]
    BY <1>5, <1>t DEF Connect, ConnectFails, LinkLost, LinkDies, StopLink, AfterReading,
                      BoardsInv, LinkInv
  <2> QED
    BY <1>1, <1>3, <2>1, <2>2 DEF BoardsInv, LinkInv, GateInv, FifoBound, Gated
<1> QED
  BY <1>4, <1>5

\* board_down empties the queue of its board and takes its writer.
LEMMA DropBoards ==
  ASSUME IInv, BoardsInv, NEW b \in Boards, BoardDown(b) \/ LivenessDown(b)
  PROVE  BoardsInv' /\ Gated
<1>t. /\ link \in [Boards -> LinkStates] /\ writer \in [Boards -> BOOLEAN]
      /\ fifo \in [Boards -> Seq(Commands)] /\ estopWait \subseteq Boards
  BY DEF IInv, AuxTypes, QueueInv, QueueTypes
<1>1. /\ UNCHANGED <<writing, sent, schema, estopActive, estopWait, phase>>
      /\ ~writer'[b] /\ fifo'[b] = <<>>
      /\ \A y \in Boards : y # b => /\ link'[y] = link[y] /\ writer'[y] = writer[y]
                                    /\ fifo'[y] = fifo[y]
  BY <1>t DEF BoardDown, LivenessDown, Drop
<1>2. link'[b] = "reported" \/ (ReaderFree(b) /\ link'[b] \in {"down", "stopped"})
  BY <1>t DEF BoardDown, LivenessDown, BoardsInv, ReaderInv, ReaderFree
<1>3. ReaderInv'
  BY <1>t, <1>1, <1>2 DEF BoardsInv, ReaderInv, ReaderFree, Reader
<1>4. FifoBound'
  BY <1>1, DepthAssumption DEF BoardsInv, FifoBound
<1> QED
  BY <1>1, <1>3, <1>4 DEF BoardsInv, LinkInv, GateInv, Gated

\* The e-stop empties the queues; its sends hold up a reader that is in its loop.
LEMMA EstopBoards ==
  ASSUME IInv, BoardsInv, NEW b \in Boards,
         TriggerEstop(b) \/ SendEstop(b) \/ SendEstopFails(b) \/ EstopAck(b)
  PROVE  BoardsInv' /\ Gated
<1>t. /\ link \in [Boards -> LinkStates] /\ estopWait \subseteq Boards
      /\ conn \in [Boards -> ConnStates]
  BY DEF IInv, AuxTypes
<1>1. CASE TriggerEstop(b)
  <2>1. /\ UNCHANGED <<writing, sent, link, writer, schema, phase>>
        /\ fifo' = [x \in Boards |-> <<>>]
        /\ estopWait' \subseteq estopWait \cup {b}
        /\ link[b] \in {"up", "reported"} /\ ReaderFree(b)
    BY <1>1 DEF TriggerEstop, linkVars
  <2>2. ReaderInv'
    BY <2>1, TaskNames DEF BoardsInv, ReaderInv, ReaderFree, Reader
  <2>3. \A x \in Boards : fifo'[x] = <<>> /\ Len(fifo'[x]) = 0
    BY <2>1
  <2>4. FifoBound'
    BY <2>3, DepthAssumption DEF FifoBound
  <2>5. LinkInv'
    BY <2>1, <2>3 DEF BoardsInv, LinkInv
  <2>6. GateInv'
    BY <2>3 DEF GateInv
  <2> QED
    BY <2>1, <2>2, <2>4, <2>5, <2>6 DEF BoardsInv, Gated
<1>2. CASE SendEstop(b) \/ EstopAck(b)
  <2>1. /\ UNCHANGED <<fifo, writing, sent, link, writer, schema, estopActive, phase>>
        /\ estopWait' \subseteq estopWait
    BY <1>2 DEF SendEstop, EstopAck, linkVars, queueVars
  <2>2. ReaderInv'
    BY <2>1 DEF BoardsInv, ReaderInv, Reader
  <2> QED
    BY <2>1, <2>2 DEF BoardsInv, LinkInv, GateInv, FifoBound, Gated
<1>3. CASE SendEstopFails(b)
  <2>1. /\ UNCHANGED <<fifo, writing, sent, writer, schema, estopActive, phase>>
        /\ \/ UNCHANGED <<link, estopWait>>
           \/ \E o \in estopWait :
                /\ estopWait' \subseteq estopWait \ {o}
                /\ link' = [link EXCEPT ![o] = AfterReading(o)]
    BY <1>3 DEF SendEstopFails, queueVars
  <2>2. CASE UNCHANGED <<link, estopWait>>
    <3>1. ReaderInv'
      BY <2>1, <2>2 DEF BoardsInv, ReaderInv, Reader
    <3> QED
      BY <2>1, <2>2, <3>1 DEF BoardsInv, LinkInv, GateInv, FifoBound, Gated
  <2>3. ASSUME NEW o \in estopWait, estopWait' \subseteq estopWait \ {o},
               link' = [link EXCEPT ![o] = AfterReading(o)]
        PROVE  BoardsInv' /\ Gated
    <3>1. /\ o \in Boards /\ link[o] \in {"up", "reported"}
          /\ \A d \in Commands : writing[d] # Reader(o)
      BY <2>3, <1>t DEF BoardsInv, ReaderInv
    <3>2. /\ \A y \in Boards : y # o => link'[y] = link[y]
          /\ link'[o] = "closing" \/ (link'[o] = "down" /\ link[o] = "reported")
      BY <2>3, <3>1, <1>t DEF AfterReading
    <3>3. ReaderInv'
      BY <2>1, <2>3, <3>1, <3>2, <1>t DEF BoardsInv, ReaderInv, Reader
    <3>4. LinkInv'
      BY <2>1, <3>2 DEF BoardsInv, LinkInv
    <3> QED
      BY <2>1, <3>3, <3>4 DEF BoardsInv, GateInv, FifoBound, Gated
  <2> QED
    BY <2>1, <2>2, <2>3
<1> QED
  BY <1>1, <1>2, <1>3

\* The steps of the tasks of a board.
LEMMA BoardBoards ==
  ASSUME IInv, BoardsInv, NEW b \in Boards, BoardStep(b)
  PROVE  BoardsInv' /\ Gated
<1>1. ASSUME NEW d \in Commands, HandleBoardResponse(b, d)
      PROVE  BoardsInv' /\ Gated
  <2>1. /\ link[b] \in {"up", "reported"} /\ ReaderFree(b) /\ d \in sent
        /\ pending[seq[d]] # None
        /\ DispatchNext(board[pending[seq[d]]], fifo[board[pending[seq[d]]]], seq,
                        Resolve(fut, {pending[seq[d]]}, "board"),
                        [pending EXCEPT ![seq[d]] = None],
                        FreeSlot(inflight, board[pending[seq[d]]], seq[d]), Reader(b))
        /\ UNCHANGED <<board, linkVars, estopVars, phase>>
    BY <1>1 DEF HandleBoardResponse
  <2>2. board[pending[seq[d]]] \in Boards
    BY <2>1, EntryBoard
  <2>3. \A y \in Boards : Reader(b) = Reader(y) => link[y] \in {"up", "reported"} /\ ReaderFree(y)
    BY <2>1, TaskNames
  <2> QED
    BY <2>1, <2>2, <2>3, RedispatchBoards
<1> QED
  BY <1>1, LinkBoards, DropBoards, EstopBoards DEF BoardStep

\* The steps of shutdown and of reset_estop.
LEMMA ControllerBoards ==
  ASSUME IInv, BoardsInv, ControllerStep
  PROVE  BoardsInv' /\ Gated
<1>1. CASE RequestStop \/ Shutdown
  <2>1. /\ UNCHANGED <<fifo, writing, sent, linkVars, estopVars>>
        /\ phase' \notin {"failed", "closed"}
    BY <1>1 DEF RequestStop, Shutdown, queueVars
  <2> QED
    BY <2>1, QuietBoards DEF Gated
<1>2. CASE ResetEstop
  <2>1. /\ UNCHANGED <<fifo, writing, sent, link, writer, schema, estopWait, phase>>
        /\ estopActive' = FALSE
    BY <1>2 DEF ResetEstop, linkVars, queueVars
  <2>2. ReaderInv'
    BY <2>1 DEF BoardsInv, ReaderInv, Reader
  <2> QED
    BY <2>1, <2>2 DEF BoardsInv, LinkInv, GateInv, FifoBound, Gated
<1>3. CASE FailRemaining
  <2>1. /\ UNCHANGED <<writing, sent, link, writer, schema, estopWait, estopActive>>
        /\ fifo' = [b \in Boards |-> <<>>]
    BY <1>3 DEF FailRemaining, estopVars
  <2>2. ReaderInv'
    BY <2>1 DEF BoardsInv, ReaderInv, Reader
  <2>3. \A x \in Boards : fifo'[x] = <<>> /\ Len(fifo'[x]) = 0
    BY <2>1
  <2>4. FifoBound'
    BY <2>3, DepthAssumption DEF FifoBound
  <2>5. LinkInv' /\ GateInv'
    BY <2>1, <2>3 DEF BoardsInv, LinkInv, GateInv
  <2> QED
    BY <2>1, <2>2, <2>4, <2>5 DEF BoardsInv, Gated
<1>4. CASE CloseWriters
  <2>1. /\ UNCHANGED <<fifo, writing, sent, link, schema, estopWait, estopActive>>
        /\ phase = "failed" /\ writer' = [b \in Boards |-> FALSE]
    BY <1>4 DEF CloseWriters, queueVars, estopVars
  <2>2. ReaderInv'
    BY <2>1 DEF BoardsInv, ReaderInv, Reader
  <2> QED
    BY <2>1, <2>2 DEF BoardsInv, LinkInv, GateInv, FifoBound, Gated
<1> QED
  BY <1>1, <1>2, <1>3, <1>4 DEF ControllerStep

\* Every step keeps the invariant, and passes the gate.
LEMMA NextBoards ==
  ASSUME IInv, BoardsInv, [Next]_vars
  PROVE  BoardsInv' /\ Gated
<1>1. CASE UNCHANGED vars
  <2>1. UNCHANGED <<fifo, writing, sent, linkVars, estopVars, phase>>
    BY <1>1 DEF vars, queueVars
  <2> QED
    BY <2>1, QuietBoards DEF Gated
<1> QED
  BY <1>1, CommandBoards, BoardBoards, ControllerBoards DEF Next

\* The controller starts with empty queues and without writers.
LEMMA InitBoards ==
  ASSUME Init
  PROVE  BoardsInv
<1>1. /\ writing = [c \in Commands |-> NoTask] /\ estopWait = {}
      /\ fifo = [b \in Boards |-> <<>>] /\ writer = [b \in Boards |-> FALSE]
      /\ estopActive = FALSE
  BY DEF Init
<1>2. ReaderInv
  BY <1>1, TaskNames DEF ReaderInv
<1>3. \A b \in Boards : fifo[b] = <<>> /\ Len(fifo[b]) = 0 /\ ~writer[b]
  BY <1>1
<1>4. FifoBound
  BY <1>3, DepthAssumption DEF FifoBound
<1> QED
  BY <1>1, <1>2, <1>3, <1>4 DEF BoardsInv, LinkInv, GateInv

\* The invariant of any number of boards holds.
THEOREM BoardsInvariance == Spec => [](IInv /\ BoardsInv)
<1>1. Init => BoardsInv
  BY InitBoards
<1>2. IInv /\ BoardsInv /\ [Next]_vars => BoardsInv'
  BY NextBoards
<1> QED
  BY <1>1, <1>2, Invariance, PTL DEF Spec

\* The queue of a board never holds more than fifo_depth commands, although
\* route_command checks the depth only while a command is in flight.
THEOREM FifoBounded == Spec => []FifoBound
<1>1. BoardsInv => FifoBound
  BY DEF BoardsInv
<1> QED
  BY <1>1, BoardsInvariance, PTL

\* While the e-stop is latched no task starts to write a command that its board
\* blocks, whichever task dispatches it and whatever schema the board announced
\* when it registered again.
THEOREM EstopBlocks == Spec => EstopBlocksDispatch
<1>1. ASSUME IInv, BoardsInv, [Next]_vars
      PROVE  [\A c \in Commands :
                (estopActive /\ c \in sent' \ sent) => c \notin schema[board'[c]].blocked]_vars
  BY <1>1, NextBoards DEF Gated
<1> QED
  BY <1>1, BoardsInvariance, PTL DEF Spec, EstopBlocksDispatch

-----------------------------------------------------------------------------
(* A controller with one board: no command is lost *)

\* Tracked, over its arguments as QueueInv is: a command whose client waits is
\* queued on its board or pending, and a slot that is taken has an entry.
Track(fi, sq, f, p, fl, bd) ==
  /\ \A c \in Commands : f[c] = "wait" =>
       bd[c] \in Boards /\ (c \in Queued(fi[bd[c]]) \/ p[sq[c]] = c)
  /\ \A b \in Boards : fl[b] # 0 => p[fl[b]] # None

\* _dispatch_next answers, sends or keeps each command of the queue, and leaves
\* none waiting for a free slot.
LEMMA DispatchTrack ==
  ASSUME SingleBoard,
         NEW b \in Boards, NEW q \in Seq(Commands), NEW sq, NEW f, NEW p, NEW fl,
         NEW bd, NEW who,
         fifo \in [Boards -> Seq(Commands)],
         QueueInv([fifo EXCEPT ![b] = q], sq, f, p, fl, bd, sent),
         Track([fifo EXCEPT ![b] = q], sq, f, p, fl, bd),
         DispatchNext(b, q, sq, f, p, fl, who)
  PROVE  /\ Track(fifo', sq, fut', pending', inflight', bd)
         /\ (~ShuttingDown /\ Available(b) /\ fifo'[b] # <<>>) => inflight'[b] # 0
<1> DEFINE fi == [fifo EXCEPT ![b] = q]
<1> DEFINE can == ~ShuttingDown /\ Available(b) /\ SlotFree(fl, b)
<1>t. QueueTypes(fi, sq, f, p, fl, bd, sent)
  BY DEF QueueInv
<1>q. fi[b] = q /\ \A x \in Boards : x = b
  BY DEF SingleBoard
<1>1. CASE ~can
  <2>1. fifo' = fi /\ fut' = f /\ pending' = p /\ inflight' = fl
    BY <1>1 DEF DispatchNext
  <2> QED
    BY <1>1, <1>q, <2>1 DEF SlotFree
<1>2. CASE can
  <2>1. PICK n \in 0 .. Len(q) :
          /\ fut' = Resolve(f, {q[i] : i \in 1 .. n}, "command_timeout")
          /\ \/ /\ n = Len(q)
                /\ fifo' = [fifo EXCEPT ![b] = <<>>]
                /\ pending' = p /\ inflight' = fl
             \/ /\ n < Len(q)
                /\ fifo' = [fifo EXCEPT ![b] = SubSeq(q, n + 2, Len(q))]
                /\ pending' = [p EXCEPT ![sq[q[n + 1]]] = q[n + 1]]
                /\ inflight' = [fl EXCEPT ![b] = sq[q[n + 1]]]
    BY <1>2, Zenon DEF DispatchNext
  <2>2. fl[b] = 0
    BY <1>2 DEF SlotFree
  \* The slot is free, so nothing is pending.
  <2>3. \A s \in Seqs : p[s] = None
    <3> SUFFICES ASSUME NEW s \in Seqs, p[s] # None PROVE FALSE
      OBVIOUS
    <3>1. p[s] \in sent /\ fl[bd[p[s]]] = s
      BY DEF QueueInv, PendingInv
    <3>2. p[s] \in Commands /\ bd[p[s]] # None
      BY <3>1, <1>t DEF QueueInv, SeqInv, QueueTypes
    <3>3. bd[p[s]] = b
      BY <3>2, <1>q, <1>t DEF QueueTypes
    <3> QED
      BY <3>1, <3>3, <2>2 DEF Seqs
  <2>4. ASSUME NEW c \in Commands, fut'[c] = "wait"
        PROVE  bd[c] = b /\ \E i \in 1 .. Len(q) : i > n /\ c = q[i]
    <3>1. f[c] = "wait" /\ c \notin {q[i] : i \in 1 .. n}
      BY <2>1, <2>4 DEF Resolve
    <3>2. bd[c] = b /\ (c \in Queued(q) \/ p[sq[c]] = c)
      BY <3>1, <1>q DEF Track
    <3>3. sq[c] \in Seqs
      BY <3>2, NoneAssumption DEF QueueInv, SeqInv
    <3>4. c \in Queued(q)
      BY <3>2, <3>3, <2>3, NoneAssumption
    <3>5. PICK i \in 1 .. Len(q) : c = q[i]
      BY <3>4 DEF Queued
    <3>6. i > n
      BY <3>1, <3>5
    <3> QED
      BY <3>2, <3>5, <3>6
  <2>5. CASE n = Len(q) /\ fifo' = [fifo EXCEPT ![b] = <<>>] /\ pending' = p /\ inflight' = fl
    <3>1. \A c \in Commands : fut'[c] # "wait"
      BY <2>4, <2>5
    <3>2. \A x \in Boards : inflight'[x] = 0
      BY <1>q, <2>2, <2>5
    <3>3. fifo'[b] = <<>>
      BY <2>5
    <3> QED
      BY <3>1, <3>2, <3>3 DEF Track
  <2>6. CASE /\ n < Len(q)
             /\ fifo' = [fifo EXCEPT ![b] = SubSeq(q, n + 2, Len(q))]
             /\ pending' = [p EXCEPT ![sq[q[n + 1]]] = q[n + 1]]
             /\ inflight' = [fl EXCEPT ![b] = sq[q[n + 1]]]
    <3> DEFINE m == n + 1
               d == q[m]
    <3>1. m \in 1 .. Len(q) /\ n + 2 = m + 1 /\ d \in Commands
      BY <2>6
    <3>2. /\ fifo'[b] = SubSeq(q, m + 1, Len(q))
          /\ pending' = [p EXCEPT ![sq[d]] = d] /\ inflight' = [fl EXCEPT ![b] = sq[d]]
      BY <2>6, <3>1
    <3>3. sq[d] \in Seqs /\ d # None
      <4>1. bd[d] = b
        BY <3>1, <1>q DEF QueueInv, FifoInv
      <4> QED
        BY <4>1, <3>1, NoneAssumption DEF QueueInv, SeqInv
    <3>4. pending'[sq[d]] = d /\ inflight'[b] = sq[d] /\ sq[d] # 0
      BY <3>2, <3>3, <1>t DEF QueueTypes, Seqs
    <3>5. ASSUME NEW c \in Commands, fut'[c] = "wait"
          PROVE  bd[c] \in Boards /\ (c \in Queued(fifo'[bd[c]]) \/ pending'[sq[c]] = c)
      <4>1. PICK i \in 1 .. Len(q) : i > n /\ c = q[i] /\ bd[c] = b
        BY <2>4, <3>5
      <4>2. CASE i = m
        BY <4>1, <4>2, <3>4
      <4>3. CASE i # m
        <5> HIDE DEF m, d
        <5>1. i > m /\ i - m \in 1 .. (Len(q) - m) /\ m + (i - m) = i
          BY <4>1, <4>3, <3>1 DEF m
        <5>2. /\ Len(fifo'[b]) = Len(q) - m
              /\ fifo'[b][i - m] = q[m + (i - m)]
          BY <5>1, <3>1, <3>2, SuffixElements
        <5> QED
          BY <5>1, <5>2, <4>1 DEF Queued
      <4> QED
        BY <4>2, <4>3
    <3>6. \A x \in Boards : inflight'[x] # 0 => pending'[inflight'[x]] # None
      BY <1>q, <3>3, <3>4
    <3> QED
      BY <3>4, <3>5, <3>6 DEF Track
  <2> QED
    BY <2>1, <2>5, <2>6
<1> QED
  BY <1>1, <1>2

\* The invariant of one board.
SingleInv ==
  /\ Track(fifo, seq, fut, pending, inflight, board)
  /\ WorkConserving
  /\ ShutdownAnswersAll
  /\ RightAnswer

\* With one board, a board_seq tells commands apart.
LEMMA OneCommand ==
  ASSUME SingleBoard, IInv, NEW d \in Commands, d \in sent, pending[seq[d]] # None
  PROVE  pending[seq[d]] = d
<1>1. /\ seq[d] \in Seqs /\ pending[seq[d]] \in Commands
      /\ board[pending[seq[d]]] \in Boards
  BY EntryBoard
<1>2. board[d] \in Boards
  BY DEF IInv, QueueInv, SeqInv, QueueTypes
<1>3. board[d] = board[pending[seq[d]]]
  BY <1>1, <1>2 DEF SingleBoard
<1>4. seq[pending[seq[d]]] = seq[d]
  BY <1>1 DEF IInv, QueueInv, PendingInv
<1>5. board[d] # None
  BY <1>2, NoneAssumption
<1> QED
  BY <1>1, <1>3, <1>4, <1>5 DEF IInv, QueueInv, SeqInv

\* Releasing the entry of a resolved command loses no other.
LEMMA ReleaseTrack ==
  ASSUME SingleBoard, IInv, Track(fifo, seq, fut, pending, inflight, board),
         NEW d \in Commands, d \in sent, pending[seq[d]] # None, NEW code \in Terminal
  PROVE  Track(fifo, seq, Resolve(fut, {d}, code), [pending EXCEPT ![seq[d]] = None],
               FreeSlot(inflight, board[d], seq[d]), board)
<1>1. pending[seq[d]] = d /\ seq[d] \in Seqs /\ board[d] \in Boards
  BY OneCommand, EntryBoard
<1>t. QueueTypes(fifo, seq, fut, pending, inflight, board, sent)
  BY DEF IInv, QueueInv
<1>2. ASSUME NEW c \in Commands, Resolve(fut, {d}, code)[c] = "wait"
      PROVE  /\ board[c] \in Boards
             /\ c \in Queued(fifo[board[c]]) \/ [pending EXCEPT ![seq[d]] = None][seq[c]] = c
  <2>1. fut[c] = "wait" /\ c # d
    BY <1>2 DEF Resolve, Terminal
  <2>2. board[c] \in Boards /\ (c \in Queued(fifo[board[c]]) \/ pending[seq[c]] = c)
    BY <2>1 DEF Track
  <2>3. CASE pending[seq[c]] = c
    <3>1. seq[c] # seq[d]
      BY <2>1, <2>3, <1>1
    <3>2. seq[c] \in Seqs
      BY <2>2, NoneAssumption DEF IInv, QueueInv, SeqInv
    <3> QED
      BY <2>2, <2>3, <3>1, <3>2, <1>t DEF QueueTypes
  <2> QED
    BY <2>2, <2>3
<1>3. inflight[board[d]] = seq[d]
  BY <1>1, NoneAssumption, Disjoint DEF IInv
<1>4. \A x \in Boards : FreeSlot(inflight, board[d], seq[d])[x] = 0
  BY <1>1, <1>3, <1>t DEF FreeSlot, SingleBoard, QueueTypes
<1> QED
  BY <1>2, <1>4 DEF Track

-----------------------------------------------------------------------------
(* The steps of a controller with one board *)

\* Steps that leave the queue alone, make nobody wait and neither register the
\* board nor end the drain window.
LEMMA QuietSingle ==
  ASSUME SingleInv, UNCHANGED <<fifo, seq, pending, inflight, board, answer>>,
         \A c \in Commands : fut'[c] = "wait" => fut[c] = "wait",
         \A b \in Boards : fifo[b] # <<>> /\ link'[b] = "up" /\ Available(b)'
                             => link[b] = "up" /\ Available(b),
         ~ShuttingDown' => ~ShuttingDown,
         phase' \in {"failed", "closed"} => phase \in {"failed", "closed"}
  PROVE  SingleInv'
<1>1. Track(fifo', seq', fut', pending', inflight', board')
  BY DEF SingleInv, Track, Queued
<1>2. WorkConserving'
  BY DEF SingleInv, WorkConserving
<1>3. ShutdownAnswersAll' /\ RightAnswer'
  BY DEF SingleInv, ShutdownAnswersAll, RightAnswer
<1> QED
  BY <1>1, <1>2, <1>3 DEF SingleInv

\* After a dispatch the queue of the one board waits only for the slot.
LEMMA DispatchConserves ==
  ASSUME SingleBoard, NEW b \in Boards, UNCHANGED <<linkVars, phase>>,
         (~ShuttingDown /\ Available(b) /\ fifo'[b] # <<>>) => inflight'[b] # 0
  PROVE  WorkConserving'
<1>1. UNCHANGED <<conn, link, writer, phase>>
  BY DEF linkVars
<1>2. \A x \in Boards : x = b
  BY DEF SingleBoard
<1> QED
  BY <1>1, <1>2 DEF WorkConserving, Available, ShuttingDown

\* route_command: the accepted command is in the queue when it is dispatched.
LEMMA EnqueueTrack ==
  ASSUME SingleBoard, IInv, Track(fifo, seq, fut, pending, inflight, board),
         NEW c \in Commands, NEW b \in Boards
  PROVE  Track([fifo EXCEPT ![b] = Append(fifo[b], c)], [seq EXCEPT ![c] = nextSeq[b]],
               [fut EXCEPT ![c] = "wait"], pending, inflight, [board EXCEPT ![c] = b])
<1> DEFINE q == Append(fifo[b], c)
           sq == [seq EXCEPT ![c] = nextSeq[b]]
           f == [fut EXCEPT ![c] = "wait"]
           bd == [board EXCEPT ![c] = b]
           fi == [fifo EXCEPT ![b] = q]
<1>t. QueueTypes(fifo, seq, fut, pending, inflight, board, sent)
  BY DEF IInv, QueueInv
<1>1. /\ q \in Seq(Commands) /\ Len(q) \in 1 .. Len(q) /\ q[Len(q)] = c /\ fi[b] = q
      /\ \A i \in 1 .. Len(fifo[b]) : i \in 1 .. Len(q) /\ q[i] = fifo[b][i]
  BY <1>t DEF QueueTypes
<1>2. c \in Queued(q) /\ Queued(fifo[b]) \subseteq Queued(q)
  BY <1>1 DEF Queued
<1>3. ASSUME NEW d \in Commands, f[d] = "wait"
      PROVE  bd[d] \in Boards /\ (d \in Queued(fi[bd[d]]) \/ pending[sq[d]] = d)
  <2>1. CASE d = c
    BY <2>1, <1>1, <1>2, <1>t DEF QueueTypes
  <2>2. CASE d # c
    <3>1. fut[d] = "wait" /\ bd[d] = board[d] /\ sq[d] = seq[d]
      BY <2>2, <1>3, <1>t DEF QueueTypes
    <3>2. board[d] \in Boards /\ (d \in Queued(fifo[board[d]]) \/ pending[seq[d]] = d)
      BY <3>1 DEF Track
    <3>3. board[d] = b
      BY <3>2 DEF SingleBoard
    <3> QED
      BY <3>1, <3>2, <3>3, <1>1, <1>2
  <2> QED
    BY <2>1, <2>2
<1> QED
  BY <1>3 DEF Track

\* So it is in the queue, in flight or answered after the dispatch.
LEMMA EnqueueSingle ==
  ASSUME SingleBoard, IInv, SingleInv, NEW c \in Commands, task[c] = "idle",
         NEW b \in Boards, RouteEnqueue(c, b)
  PROVE  SingleInv'
<1> DEFINE q == Append(fifo[b], c)
           sq == [seq EXCEPT ![c] = nextSeq[b]]
           f == [fut EXCEPT ![c] = "wait"]
           bd == [board EXCEPT ![c] = b]
           fi == [fifo EXCEPT ![b] = q]
<1>a. /\ ~ShuttingDown /\ SeqLeft(b)
      /\ seq' = sq /\ board' = bd
      /\ DispatchNext(b, q, sq, f, pending, inflight, RouteTask(c))
      /\ UNCHANGED <<answer, linkVars, phase>>
  BY DEF RouteEnqueue, Enqueue
<1>t. QueueTypes(fifo, seq, fut, pending, inflight, board, sent)
  BY DEF IInv, QueueInv
<1>1. QueueInv(fi, sq, f, pending, inflight, bd, sent)
  BY <1>a, EnqueueQueueInv
<1>2. Track(fi, sq, f, pending, inflight, bd)
  BY EnqueueTrack DEF SingleInv
<1>3. q \in Seq(Commands) /\ fifo \in [Boards -> Seq(Commands)]
  BY <1>t DEF QueueTypes
<1> HIDE DEF q, sq, f, bd
<1>4. /\ Track(fifo', sq, fut', pending', inflight', bd)
      /\ (~ShuttingDown /\ Available(b) /\ fifo'[b] # <<>>) => inflight'[b] # 0
  BY <1>a, <1>1, <1>2, <1>3, DispatchTrack
<1>5. WorkConserving'
  BY <1>a, <1>4, DispatchConserves
<1>6. ShutdownAnswersAll' /\ RightAnswer'
  BY <1>a DEF ShutdownAnswersAll, ShuttingDown, SingleInv, RightAnswer
<1> QED
  BY <1>a, <1>4, <1>5, <1>6 DEF SingleInv

\* A response or a timeout settles the command in flight, and the dispatch takes
\* over the slot.
LEMMA RedispatchSingle ==
  ASSUME SingleBoard, IInv, SingleInv, NEW d \in Commands, d \in sent,
         pending[seq[d]] # None, NEW code \in Terminal, NEW who,
         DispatchNext(board[d], fifo[board[d]], seq, Resolve(fut, {d}, code),
                      [pending EXCEPT ![seq[d]] = None],
                      FreeSlot(inflight, board[d], seq[d]), who),
         UNCHANGED <<board, seq, linkVars, phase>>,
         RightAnswer'
  PROVE  SingleInv'
<1> DEFINE x == board[d]
           f == Resolve(fut, {d}, code)
           p == [pending EXCEPT ![seq[d]] = None]
           fl == FreeSlot(inflight, x, seq[d])
<1>1. pending[seq[d]] = d /\ seq[d] \in Seqs /\ x \in Boards
  BY OneCommand, EntryBoard
<1>t. QueueTypes(fifo, seq, fut, pending, inflight, board, sent)
  BY DEF IInv, QueueInv
<1>2. QueueInv(fifo, seq, f, p, fl, board, sent)
  BY <1>1, ReleaseQueueInv DEF IInv
<1>3. Track(fifo, seq, f, p, fl, board)
  BY ReleaseTrack DEF SingleInv
<1>4. fifo[x] \in Seq(Commands) /\ [fifo EXCEPT ![x] = fifo[x]] = fifo
  BY <1>1, <1>t DEF QueueTypes
<1>5. fifo \in [Boards -> Seq(Commands)] /\ fut[d] = "wait"
  BY <1>t, <1>1, NoneAssumption, Disjoint DEF QueueTypes, IInv
<1>6. DispatchNext(x, fifo[x], seq, f, p, fl, who)
  OBVIOUS
<1> HIDE DEF x, f, p, fl
<1>7. /\ Track(fifo', seq, fut', pending', inflight', board)
      /\ (~ShuttingDown /\ Available(x) /\ fifo'[x] # <<>>) => inflight'[x] # 0
  BY <1>1, <1>2, <1>3, <1>4, <1>5, <1>6, DispatchTrack
<1>8. WorkConserving'
  BY <1>1, <1>7, DispatchConserves
<1>9. ShutdownAnswersAll'
  BY <1>5 DEF SingleInv, ShutdownAnswersAll
<1> QED
  BY <1>7, <1>8, <1>9 DEF SingleInv

\* A write that ends after its command was answered finds its entry and its slot
\* gone: what it removes belongs to nobody.
LEMMA LateWrite ==
  ASSUME SingleBoard, IInv, SingleInv, NEW d \in Commands, WriteCompletes(d)
  PROVE  UNCHANGED <<pending, inflight>>
<1>1. CASE /\ fut[d] # "wait"
           /\ pending' = [pending EXCEPT ![seq[d]] = None]
           /\ inflight' = FreeSlot(inflight, board[d], seq[d])
  <2>1. d \in sent
    BY DEF WriteCompletes, IInv, TaskInv
  <2>t. QueueTypes(fifo, seq, fut, pending, inflight, board, sent)
    BY DEF IInv, QueueInv
  <2>2. seq[d] \in Seqs /\ board[d] \in Boards
    BY <2>1, <2>t DEF IInv, QueueInv, SeqInv, QueueTypes
  <2>3. pending[seq[d]] = None
    <3>1. pending[seq[d]] # None => pending[seq[d]] = d
      BY <2>1, OneCommand
    <3>2. pending[seq[d]] # None => fut[pending[seq[d]]] = "wait"
      BY <2>2 DEF IInv, QueueInv, PendingInv
    <3> QED
      BY <3>1, <3>2, <1>1
  <2>4. inflight[board[d]] # seq[d]
    <3>1. inflight[board[d]] # 0 => pending[inflight[board[d]]] # None
      BY <2>2 DEF SingleInv, Track
    <3> QED
      BY <3>1, <2>2, <2>3 DEF Seqs
  <2> QED
    BY <1>1, <2>2, <2>3, <2>4, <2>t DEF FreeSlot, QueueTypes
<1> QED
  BY <1>1 DEF WriteCompletes

\* The steps of the tasks that serve commands.
LEMMA CommandSingle ==
  ASSUME SingleBoard, IInv, SingleInv, NEW c \in Commands, CommandStep(c)
  PROVE  SingleInv'
<1>t. /\ QueueTypes(fifo, seq, fut, pending, inflight, board, sent)
      /\ conn \in [Boards -> ConnStates] /\ link \in [Boards -> LinkStates]
  BY DEF IInv, QueueInv, AuxTypes
<1>1. CASE RouteCommand(c)
  <2>1. ASSUME NEW b \in Boards, RouteEnqueue(c, b)
        PROVE  SingleInv'
    BY <1>1, <2>1, EnqueueSingle DEF RouteCommand
  <2>2. ASSUME NEW code \in Terminal, Answered(c, code)
        PROVE  SingleInv'
    <3>1. /\ UNCHANGED <<fifo, seq, pending, inflight, board, answer, link, conn, writer, phase>>
          /\ fut' = [fut EXCEPT ![c] = code]
      BY <2>2 DEF Answered, linkVars, queueVars
    <3>2. \A d \in Commands : fut'[d] = "wait" => fut[d] = "wait"
      BY <3>1, <1>t DEF Terminal, QueueTypes
    <3> QED
      BY <3>1, <3>2, QuietSingle DEF Available, ShuttingDown
  <2>3. ASSUME NEW b \in Boards, RouteExhausted(c, b)
        PROVE  SingleInv'
    <3>1. UNCHANGED <<fifo, seq, fut, pending, inflight, board, answer, link, conn, writer,
                      phase>>
      BY <2>3 DEF RouteExhausted, linkVars, queueVars
    <3> QED
      BY <3>1, QuietSingle DEF Available, ShuttingDown
  <2>4. \/ \E b \in Boards : RouteEnqueue(c, b) \/ RouteExhausted(c, b)
        \/ \E code \in Terminal : Answered(c, code)
    BY <1>1 DEF RouteCommand, RouteShutdown, RouteLocal, RouteUnknown, RouteUnavailable,
         RouteRejected, RouteBusy, SchemaReject, Terminal
  <2> QED
    BY <2>1, <2>2, <2>3, <2>4
<1>2. CASE Reply(c) \/ Expire(c)
  <2>1. UNCHANGED <<fifo, seq, fut, pending, inflight, board, answer, link, conn, writer, phase>>
    BY <1>2 DEF Reply, Expire, linkVars, queueVars, cmdVars
  <2> QED
    BY <2>1, QuietSingle DEF Available, ShuttingDown
<1>3. CASE WriteCompletes(c)
  <2>1. UNCHANGED <<fifo, seq, fut, pending, inflight, board, answer, link, conn, writer, phase>>
    BY <1>3, LateWrite DEF WriteCompletes, linkVars, cmdVars
  <2> QED
    BY <2>1, QuietSingle DEF Available, ShuttingDown
<1>4. CASE WriteFails(c)
  <2>1. UNCHANGED <<fifo, seq, fut, pending, inflight, board, answer, writer, phase>>
    BY <1>4 DEF WriteFails
  <2>2. \A b \in Boards : link'[b] = "up" => link[b] = "up" /\ conn'[b] = conn[b]
    BY <1>4, <1>t DEF WriteFails, AfterReading
  <2> QED
    BY <2>1, <2>2, QuietSingle DEF Available, ShuttingDown
<1>5. CASE ExecutionTimeout(c)
  <2>1. /\ c \in timers /\ c \in sent
        /\ UNCHANGED <<seq, board, answer, linkVars, phase>>
    BY <1>5 DEF ExecutionTimeout, IInv, TaskInv
  <2>2. CASE UNCHANGED <<fut, handle, queueVars>>
    <3>1. UNCHANGED <<fifo, seq, fut, pending, inflight, board, answer, link, conn, writer,
                      phase>>
      BY <2>1, <2>2 DEF linkVars, queueVars
    <3> QED
      BY <3>1, QuietSingle DEF Available, ShuttingDown
  <2>3. CASE pending[seq[c]] # None /\ ~UNCHANGED <<fut, handle, queueVars>>
    <3>1. pending[seq[c]] = c
      BY <2>1, <2>3, OneCommand
    <3>2. DispatchNext(board[c], fifo[board[c]], seq, Resolve(fut, {c}, "command_timeout"),
                       [pending EXCEPT ![seq[c]] = None],
                       FreeSlot(inflight, board[c], seq[c]), TimeoutTask)
      BY <1>5, <2>3, <3>1 DEF ExecutionTimeout
    <3>3. RightAnswer' /\ "command_timeout" \in Terminal
      BY <2>1 DEF SingleInv, RightAnswer, Terminal
    <3> QED
      BY <2>1, <2>3, <3>2, <3>3, RedispatchSingle
  <2> QED
    BY <1>5, <2>2, <2>3 DEF ExecutionTimeout
<1> QED
  BY <1>1, <1>2, <1>3, <1>4, <1>5 DEF CommandStep

\* handle_board_response finds the command the board answered, or nothing.
LEMMA ResponseSingle ==
  ASSUME SingleBoard, IInv, SingleInv, NEW b \in Boards, NEW d \in Commands,
         HandleBoardResponse(b, d)
  PROVE  SingleInv'
<1>1. d \in sent /\ pending[seq[d]] # None
  BY DEF HandleBoardResponse
<1>2. pending[seq[d]] = d
  BY <1>1, OneCommand
<1>3. /\ DispatchNext(board[d], fifo[board[d]], seq, Resolve(fut, {d}, "board"),
                      [pending EXCEPT ![seq[d]] = None],
                      FreeSlot(inflight, board[d], seq[d]), Reader(b))
      /\ answer' = [answer EXCEPT ![d] = IF fut[d] = "wait" THEN d ELSE answer[d]]
      /\ UNCHANGED <<board, seq, linkVars, phase>>
  BY <1>2 DEF HandleBoardResponse
<1>4. RightAnswer' /\ "board" \in Terminal
  <2>1. answer \in [Commands -> Commands \cup {None}]
    BY DEF IInv, AuxTypes
  <2> QED
    BY <1>3, <2>1 DEF SingleInv, RightAnswer, Terminal
<1> QED
  BY <1>1, <1>3, <1>4, RedispatchSingle

\* What happens to the one board: board_down and the e-stop answer what they
\* remove, and a board registers with an empty queue.
LEMMA BoardSingle ==
  ASSUME SingleBoard, IInv, BoardsInv, SingleInv, NEW b \in Boards, BoardStep(b)
  PROVE  SingleInv'
<1>t. /\ QueueTypes(fifo, seq, fut, pending, inflight, board, sent)
      /\ conn \in [Boards -> ConnStates] /\ link \in [Boards -> LinkStates]
      /\ estopWait \subseteq Boards
  BY DEF IInv, QueueInv, AuxTypes
<1>b. \A x \in Boards : x = b
  BY DEF SingleBoard
<1>w. \A c \in Commands : fut[c] = "wait" =>
        board[c] = b /\ (c \in Queued(fifo[b]) \/ pending[seq[c]] = c) /\ seq[c] \in Seqs
  <2>1. \A c \in Commands : fut[c] = "wait" =>
          board[c] = b /\ (c \in Queued(fifo[b]) \/ pending[seq[c]] = c)
    BY <1>b DEF SingleInv, Track
  <2> QED
    BY <2>1, NoneAssumption DEF IInv, QueueInv, SeqInv
<1>1. CASE \E d \in Commands : HandleBoardResponse(b, d)
  BY <1>1, ResponseSingle
<1>2. CASE \/ Connect(b) \/ ConnectFails(b) \/ RegisterBoard(b) \/ LinkLost(b) \/ LinkDies(b)
           \/ StopLink(b)
  <2>1. UNCHANGED <<fifo, seq, fut, pending, inflight, board, answer, phase>>
    BY <1>2 DEF Connect, ConnectFails, RegisterBoard, LinkLost, LinkDies, StopLink, cmdVars,
                queueVars
  <2>2. CASE RegisterBoard(b)
    <3>1. \A x \in Boards : fifo[x] = <<>>
      BY <1>b, <2>2 DEF RegisterBoard, BoardsInv, LinkInv
    <3> QED
      BY <2>1, <3>1, QuietSingle DEF ShuttingDown
  <2>3. CASE ~RegisterBoard(b)
    <3>1. \A x \in Boards : link'[x] # "up"
      BY <1>b, <1>2, <2>3, <1>t DEF Connect, ConnectFails, LinkLost, LinkDies, StopLink,
                                    AfterReading
    <3> QED
      BY <2>1, <3>1, QuietSingle DEF ShuttingDown
  <2> QED
    BY <2>2, <2>3
<1>3. CASE BoardDown(b) \/ LivenessDown(b)
  <2> DEFINE S == {s \in Seqs : pending[s] # None /\ board[pending[s]] = b}
  <2>1. /\ fut' = Resolve(fut, {pending[s] : s \in S} \cup Queued(fifo[b]), "board_unavailable")
        /\ fifo' = [fifo EXCEPT ![b] = <<>>]
        /\ inflight' = [inflight EXCEPT ![b] = 0]
        /\ UNCHANGED <<answer, phase>>
    BY <1>3 DEF BoardDown, LivenessDown, Drop
  <2>2. \A c \in Commands : fut'[c] # "wait"
    <3>1. \A c \in Commands : fut[c] = "wait" => c \in {pending[s] : s \in S} \cup Queued(fifo[b])
      BY <1>w, NoneAssumption
    <3> HIDE DEF S
    <3> QED
      BY <2>1, <3>1 DEF Resolve
  <2>3. \A x \in Boards : fifo'[x] = <<>> /\ inflight'[x] = 0
    BY <1>b, <1>t, <2>1 DEF QueueTypes
  <2> QED
    BY <2>1, <2>2, <2>3 DEF SingleInv, Track, WorkConserving, ShutdownAnswersAll, RightAnswer
<1>4. CASE TriggerEstop(b)
  <2>1. /\ fut' = Resolve(fut, AllQueued, "estop_active")
        /\ fifo' = [x \in Boards |-> <<>>]
        /\ UNCHANGED <<board, seq, answer, inflight, pending, phase>>
    BY <1>4 DEF TriggerEstop
  <2>2. \A c \in Commands : fut'[c] = "wait" => fut[c] = "wait" /\ c \notin AllQueued
    BY <2>1 DEF Resolve
  <2>3. \A c \in Commands : fut'[c] = "wait" => board[c] = b /\ pending[seq[c]] = c
    BY <1>w, <2>2 DEF AllQueued
  <2>4. Track(fifo', seq', fut', pending', inflight', board')
    BY <2>1, <2>3 DEF SingleInv, Track
  <2>5. WorkConserving' /\ ShutdownAnswersAll' /\ RightAnswer'
    BY <2>1, <2>2 DEF SingleInv, WorkConserving, ShutdownAnswersAll, RightAnswer
  <2> QED
    BY <2>4, <2>5 DEF SingleInv
<1>5. CASE SendEstop(b) \/ SendEstopFails(b) \/ EstopAck(b)
  <2>1. UNCHANGED <<fifo, seq, fut, pending, inflight, board, answer, writer, phase>>
    BY <1>5 DEF SendEstop, SendEstopFails, EstopAck, cmdVars, queueVars, linkVars
  <2>2. \A x \in Boards : link'[x] = "up" => link[x] = "up" /\ conn'[x] = conn[x]
    BY <1>5, <1>t DEF SendEstop, SendEstopFails, EstopAck, linkVars, AfterReading
  <2> QED
    BY <2>1, <2>2, QuietSingle DEF Available, ShuttingDown
<1> QED
  BY <1>1, <1>2, <1>3, <1>4, <1>5 DEF BoardStep

\* The steps of shutdown; the end of the drain window answers everything.
LEMMA ControllerSingle ==
  ASSUME SingleBoard, IInv, SingleInv, ControllerStep
  PROVE  SingleInv'
<1>1. CASE ResetEstop \/ RequestStop \/ Shutdown
  <2>1. /\ UNCHANGED <<fifo, seq, fut, pending, inflight, board, answer, link, conn, writer>>
        /\ phase' = phase \/ (phase \in {"run", "stop"} /\ phase' \in {"stop", "drain"})
    BY <1>1 DEF ResetEstop, RequestStop, Shutdown, cmdVars, linkVars, queueVars
  <2> QED
    BY <2>1, QuietSingle DEF Available, ShuttingDown
<1>2. CASE FailRemaining
  <2> DEFINE S == {s \in Seqs : pending[s] # None}
  <2>1. /\ fut' = Resolve(fut, {pending[s] : s \in S} \cup AllQueued, "controller_shutdown")
        /\ fifo' = [b \in Boards |-> <<>>]
        /\ inflight' = [b \in Boards |-> 0]
        /\ UNCHANGED answer
    BY <1>2 DEF FailRemaining
  <2>2. ASSUME NEW c \in Commands, fut[c] = "wait"
        PROVE  c \in {pending[s] : s \in S} \cup AllQueued
    <3>1. board[c] \in Boards /\ (c \in Queued(fifo[board[c]]) \/ pending[seq[c]] = c)
      BY <2>2 DEF SingleInv, Track
    <3>2. seq[c] \in Seqs
      BY <3>1, NoneAssumption DEF IInv, QueueInv, SeqInv
    <3>3. CASE c \in Queued(fifo[board[c]])
      BY <3>1, <3>3 DEF AllQueued
    <3>4. CASE pending[seq[c]] = c
      BY <3>2, <3>4, NoneAssumption
    <3> QED
      BY <3>1, <3>3, <3>4
  <2> HIDE DEF S
  <2>3. \A c \in Commands : fut'[c] # "wait"
    BY <2>1, <2>2 DEF Resolve
  <2> QED
    BY <2>1, <2>3 DEF SingleInv, Track, WorkConserving, ShutdownAnswersAll, RightAnswer
<1>3. CASE CloseWriters
  <2>1. /\ UNCHANGED <<fifo, seq, fut, pending, inflight, board, answer, link>>
        /\ phase = "failed" /\ phase' = "closed" /\ \A b \in Boards : ~writer'[b]
    BY <1>3 DEF CloseWriters, cmdVars, queueVars
  <2> QED
    BY <2>1, QuietSingle DEF Available, ShuttingDown
<1> QED
  BY <1>1, <1>2, <1>3 DEF ControllerStep

\* Every step of a controller with one board keeps the invariant.
LEMMA NextSingle ==
  ASSUME SingleBoard, IInv, BoardsInv, SingleInv, [Next]_vars
  PROVE  SingleInv'
<1>1. CASE UNCHANGED vars
  <2>1. UNCHANGED <<fifo, seq, fut, pending, inflight, board, answer, link, conn, writer, phase>>
    BY <1>1 DEF vars, cmdVars, queueVars, linkVars
  <2> QED
    BY <2>1, QuietSingle DEF Available, ShuttingDown
<1> QED
  BY <1>1, CommandSingle, BoardSingle, ControllerSingle DEF Next

\* With one board the invariant of one board holds.
THEOREM SingleInvariance ==
  ASSUME SingleBoard
  PROVE  Spec => [](IInv /\ BoardsInv /\ SingleInv)
<1>1. Init => SingleInv
  <2> SUFFICES ASSUME Init PROVE SingleInv
    OBVIOUS
  <2>1. \A c \in Commands : fut[c] = "none" /\ answer[c] = None
    BY DEF Init
  <2>2. \A b \in Boards : inflight[b] = 0 /\ fifo[b] = <<>>
    BY DEF Init
  <2> QED
    BY <2>1, <2>2 DEF SingleInv, Track, WorkConserving, ShutdownAnswersAll, RightAnswer
<1>2. IInv /\ BoardsInv /\ SingleInv /\ [Next]_vars => SingleInv'
  BY NextSingle
<1> QED
  BY <1>1, <1>2, BoardsInvariance, PTL DEF Spec

\* With one board no accepted command is lost: while its client waits, it is
\* queued or in flight, a slot that is taken belongs to an entry, and nothing
\* queues behind a free slot, failed and late writes included.
THEOREM QueueAlwaysSound ==
  ASSUME SingleBoard
  PROVE  Spec => []QueueSound
<1>1. SingleInv => QueueSound
  BY DEF SingleInv, Track, QueueSound, Tracked
<1> QED
  BY <1>1, SingleInvariance, PTL

\* With one board no client is left waiting after the drain window.
THEOREM ShutdownAlwaysAnswers ==
  ASSUME SingleBoard
  PROVE  Spec => []ShutdownAnswersAll
<1>1. SingleInv => ShutdownAnswersAll
  BY DEF SingleInv
<1> QED
  BY <1>1, SingleInvariance, PTL

\* With one board a response, however late or repeated, resolves the command the
\* board answered and no other.
THEOREM AlwaysRightAnswer ==
  ASSUME SingleBoard
  PROVE  Spec => []RightAnswer
<1>1. SingleInv => RightAnswer
  BY DEF SingleInv
<1> QED
  BY <1>1, SingleInvariance, PTL

-----------------------------------------------------------------------------
(* A controller with one board whose writes do not fail: execution timeouts *)

\* The writes of this controller do not fail.
CleanWrites == WriteErrors = FALSE /\ Oversize = {}

\* A dispatch adds one entry, whose write is under way, and only to an empty
\* pending map.
LEMMA DispatchEntry ==
  ASSUME SingleBoard, NEW b \in Boards, NEW q \in Seq(Commands), NEW sq, NEW f, NEW p,
         NEW fl, NEW bd, NEW who,
         QueueInv([fifo EXCEPT ![b] = q], sq, f, p, fl, bd, sent),
         writing \in [Commands -> Tasks],
         DispatchNext(b, q, sq, f, p, fl, who)
  PROVE  \/ pending' = p /\ writing' = writing
         \/ /\ \A s \in Seqs : p[s] = None
            /\ \A s \in Seqs : pending'[s] # None => writing'[pending'[s]] = who
<1> DEFINE can == ~ShuttingDown /\ Available(b) /\ SlotFree(fl, b)
<1>t. QueueTypes([fifo EXCEPT ![b] = q], sq, f, p, fl, bd, sent)
  BY DEF QueueInv
<1>1. CASE ~can
  BY <1>1 DEF DispatchNext
<1>2. CASE can
  <2>1. PICK n \in 0 .. Len(q) :
          \/ pending' = p /\ UNCHANGED <<writing, sent>>
          \/ /\ n < Len(q)
             /\ pending' = [p EXCEPT ![sq[q[n + 1]]] = q[n + 1]]
             /\ writing' = [writing EXCEPT ![q[n + 1]] = who]
    BY <1>2, Zenon DEF DispatchNext
  <2>2. fl[b] = 0
    BY <1>2 DEF SlotFree
  <2>3. \A s \in Seqs : p[s] = None
    <3> SUFFICES ASSUME NEW s \in Seqs, p[s] # None PROVE FALSE
      OBVIOUS
    <3>1. p[s] \in sent /\ fl[bd[p[s]]] = s
      BY DEF QueueInv, PendingInv
    <3>2. p[s] \in Commands /\ bd[p[s]] # None
      BY <3>1, <1>t DEF QueueInv, SeqInv, QueueTypes
    <3>3. bd[p[s]] = b
      BY <3>2, <1>t DEF QueueTypes, SingleBoard
    <3> QED
      BY <3>1, <3>3, <2>2 DEF Seqs
  <2>4. CASE /\ n < Len(q)
             /\ pending' = [p EXCEPT ![sq[q[n + 1]]] = q[n + 1]]
             /\ writing' = [writing EXCEPT ![q[n + 1]] = who]
    <3>1. q[n + 1] \in Commands
      BY <2>4
    <3> QED
      BY <2>3, <2>4, <3>1, <1>t DEF QueueTypes
  <2> QED
    BY <2>1, <2>3, <2>4
<1> QED
  BY <1>1, <1>2

\* Nothing pending, no timeout: whatever is dispatched next is being written.
LEMMA FreshArmed ==
  ASSUME timers' = {},
         \/ \A s \in Seqs : pending'[s] = None
         \/ \A s \in Seqs : pending'[s] # None => writing'[pending'[s]] # NoTask
  PROVE  TimeoutArmed'
  BY DEF TimeoutArmed

\* Of all timeouts, only the one of the command in flight is running.
LEMMA OneTimeout ==
  ASSUME SingleBoard, IInv, TimeoutArmed, NEW d \in Commands, d \in sent,
         pending[seq[d]] = d, NEW e \in timers
  PROVE  e = d /\ handle[seq[d]] = d
<1>1. e \in Commands /\ e \in sent /\ pending[seq[e]] = e /\ handle[seq[e]] = e
  BY DEF IInv, TaskInv, AuxTypes, TimeoutArmed
<1>2. seq[d] \in Seqs /\ seq[e] \in Seqs /\ d # None /\ e # None
  BY <1>1, NoneAssumption DEF IInv, QueueInv, SeqInv
<1>3. /\ board[d] \in Boards /\ inflight[board[d]] = seq[d]
      /\ board[e] \in Boards /\ inflight[board[e]] = seq[e]
  BY <1>1, <1>2, Disjoint DEF IInv
<1>4. seq[d] = seq[e]
  BY <1>3 DEF SingleBoard
<1> QED
  BY <1>1, <1>4

\* The steps that settle the command in flight take its timeout with it.
LEMMA RedispatchArmed ==
  ASSUME SingleBoard, IInv, TimeoutArmed, NEW d \in Commands, d \in sent,
         pending[seq[d]] # None, NEW code \in Terminal, NEW who, who # NoTask,
         DispatchNext(board[d], fifo[board[d]], seq, Resolve(fut, {d}, code),
                      [pending EXCEPT ![seq[d]] = None],
                      FreeSlot(inflight, board[d], seq[d]), who),
         timers' = timers \ {d} \/ timers' = timers \ {handle[seq[d]]}
  PROVE  TimeoutArmed'
<1> DEFINE x == board[d]
           f == Resolve(fut, {d}, code)
           p == [pending EXCEPT ![seq[d]] = None]
           fl == FreeSlot(inflight, x, seq[d])
<1>1. pending[seq[d]] = d /\ seq[d] \in Seqs /\ x \in Boards
  BY OneCommand, EntryBoard
<1>t. QueueTypes(fifo, seq, fut, pending, inflight, board, sent) /\ writing \in [Commands -> Tasks]
  BY DEF IInv, QueueInv, AuxTypes
<1>2. QueueInv(fifo, seq, f, p, fl, board, sent)
  BY <1>1, ReleaseQueueInv DEF IInv
<1>3. fifo[x] \in Seq(Commands) /\ [fifo EXCEPT ![x] = fifo[x]] = fifo
  BY <1>1, <1>t DEF QueueTypes
<1>4. DispatchNext(x, fifo[x], seq, f, p, fl, who)
  OBVIOUS
\* One board has one slot, so the entry that goes was the only one.
<1>5. \A s \in Seqs : p[s] = None
  <2> SUFFICES ASSUME NEW s \in Seqs, s # seq[d], pending[s] # None PROVE FALSE
    BY <1>t, <1>1 DEF QueueTypes
  <2>1. board[pending[s]] \in Boards /\ inflight[board[pending[s]]] = s
    BY Disjoint DEF IInv
  <2>2. inflight[x] = seq[d]
    BY <1>1, NoneAssumption, Disjoint DEF IInv
  <2> QED
    BY <1>1, <2>1, <2>2 DEF SingleBoard
<1>6. timers' = {}
  BY <1>1, OneTimeout
<1> HIDE DEF x, f, p, fl
<1>7. \/ pending' = p /\ writing' = writing
      \/ \A s \in Seqs : pending'[s] # None => writing'[pending'[s]] = who
  BY <1>1, <1>2, <1>3, <1>4, <1>t, DispatchEntry
<1> QED
  BY <1>5, <1>6, <1>7, FreshArmed

\* route_command dispatches only into a free slot, where no timeout is running.
LEMMA EnqueueArmed ==
  ASSUME SingleBoard, IInv, TimeoutArmed, NEW c \in Commands, task[c] = "idle",
         NEW b \in Boards, RouteEnqueue(c, b)
  PROVE  TimeoutArmed'
<1> DEFINE q == Append(fifo[b], c)
           sq == [seq EXCEPT ![c] = nextSeq[b]]
           f == [fut EXCEPT ![c] = "wait"]
           bd == [board EXCEPT ![c] = b]
<1>a. /\ SeqLeft(b) /\ seq' = sq
      /\ DispatchNext(b, q, sq, f, pending, inflight, RouteTask(c))
      /\ UNCHANGED <<timers, handle, phase>>
  BY DEF RouteEnqueue, Enqueue, timerVars
<1>t. QueueTypes(fifo, seq, fut, pending, inflight, board, sent) /\ writing \in [Commands -> Tasks]
  BY DEF IInv, QueueInv, AuxTypes
<1>1. QueueInv([fifo EXCEPT ![b] = q], sq, f, pending, inflight, bd, sent)
  BY <1>a, EnqueueQueueInv
<1>2. c \notin timers /\ \A d \in timers : d \in Commands /\ sq[d] = seq[d] /\ seq[d] \in Seqs
  <2>1. c \notin sent
    BY DEF IInv, TaskInv, QueueInv, SeqInv
  <2>2. timers \subseteq sent /\ sent \subseteq Commands
    BY <1>t DEF IInv, TaskInv, QueueTypes
  <2>3. \A d \in sent : seq[d] \in Seqs
    BY <2>2 DEF IInv, QueueInv, SeqInv
  <2> QED
    BY <2>1, <2>2, <2>3, <1>t DEF QueueTypes
<1>3. q \in Seq(Commands)
  BY <1>t DEF QueueTypes
<1>4. RouteTask(c) # NoTask
  BY DEF RouteTask, NoTask
<1> HIDE DEF q, sq, f, bd
<1>5. \/ pending' = pending /\ writing' = writing
      \/ /\ \A s \in Seqs : pending[s] = None
         /\ \A s \in Seqs : pending'[s] # None => writing'[pending'[s]] = RouteTask(c)
  BY <1>a, <1>1, <1>3, <1>t, DispatchEntry
<1>6. CASE pending' = pending /\ writing' = writing
  BY <1>a, <1>2, <1>6 DEF TimeoutArmed, ShuttingDown
<1>7. CASE /\ \A s \in Seqs : pending[s] = None
           /\ \A s \in Seqs : pending'[s] # None => writing'[pending'[s]] = RouteTask(c)
  <2>1. timers' = {}
    BY <1>a, <1>2, <1>7, NoneAssumption DEF TimeoutArmed
  <2> QED
    BY <1>4, <1>7, <2>1, FreshArmed
<1> QED
  BY <1>5, <1>6, <1>7

\* Steps that touch neither entries nor writes nor timeouts.
LEMMA QuietArmed ==
  ASSUME TimeoutArmed, UNCHANGED <<seq, pending, writing, timers, handle>>,
         ~ShuttingDown' => ~ShuttingDown
  PROVE  TimeoutArmed'
  BY DEF TimeoutArmed

\* board_down and the end of the drain window cancel the timeout of every entry
\* they remove.
LEMMA RemoveArmed ==
  ASSUME IInv, TimeoutArmed, NEW S, CancelTimeouts(S),
         \A s \in Seqs : pending[s] # None => s \in S,
         \A s \in Seqs : pending'[s] = None
  PROVE  TimeoutArmed'
<1>1. ASSUME NEW e \in timers
      PROVE  seq[e] \in S /\ handle[seq[e]] = e
  <2>1. e \in Commands /\ e \in sent /\ pending[seq[e]] = e /\ handle[seq[e]] = e
    BY DEF IInv, TaskInv, AuxTypes, TimeoutArmed
  <2>2. seq[e] \in Seqs /\ e # None
    BY <2>1, NoneAssumption DEF IInv, QueueInv, SeqInv
  <2> QED
    BY <2>1, <2>2
<1>2. timers' = {}
  BY <1>1 DEF CancelTimeouts
<1> QED
  BY <1>2, FreshArmed

\* A write that ends arms the timeout of its command if that is still waiting,
\* and then it is the command in flight.
LEMMA WriteArmed ==
  ASSUME SingleBoard, IInv, SingleInv, TimeoutArmed, NEW d \in Commands, WriteCompletes(d)
  PROVE  TimeoutArmed'
<1>1. /\ UNCHANGED <<pending, inflight>>
      /\ writing' = [writing EXCEPT ![d] = NoTask]
      /\ UNCHANGED <<seq, fut, phase>>
  BY LateWrite DEF WriteCompletes, cmdVars
<1>t. writing \in [Commands -> Tasks] /\ handle \in [Seqs -> Commands \cup {None}]
  BY DEF IInv, AuxTypes
<1>d. /\ d \in sent /\ seq[d] \in Seqs /\ board[d] \in Boards
  BY DEF WriteCompletes, IInv, TaskInv, QueueInv, SeqInv, QueueTypes
<1>p. \A s \in Seqs : pending[s] # None =>
        /\ pending[s] \in Commands /\ fut[pending[s]] = "wait"
  BY Disjoint DEF IInv
<1>2. CASE (fut[d] # "wait" \/ ShuttingDown) /\ UNCHANGED timerVars
  <2>1. \A s \in Seqs : (pending[s] # None /\ ~ShuttingDown) =>
          writing'[pending[s]] = writing[pending[s]]
    BY <1>1, <1>2, <1>p, <1>t
  <2> QED
    BY <1>1, <1>2, <2>1 DEF TimeoutArmed, timerVars, ShuttingDown
<1>3. CASE /\ fut[d] = "wait"
           /\ timers' = timers \cup {d} /\ handle' = [handle EXCEPT ![seq[d]] = d]
  <2>1. pending[seq[d]] = d
    <3>1. d \in Queued(fifo[board[d]]) \/ pending[seq[d]] = d
      BY <1>3 DEF SingleInv, Track
    <3>2. d \notin Queued(fifo[board[d]])
      BY <1>d DEF Queued, IInv, QueueInv, FifoInv
    <3> QED
      BY <3>1, <3>2
  <2>2. \A e \in timers : e = d
    BY <1>d, <2>1, OneTimeout
  <2>3. timers' = {d} /\ handle'[seq[d]] = d
    BY <1>3, <1>d, <1>t, <2>2
  <2>4. ASSUME NEW s \in Seqs, pending[s] # None
        PROVE  pending[s] = d
    <3>1. board[pending[s]] \in Boards /\ inflight[board[pending[s]]] = s
      BY <2>4, Disjoint DEF IInv
    <3>2. inflight[board[d]] = seq[d]
      BY <1>d, <2>1, NoneAssumption, Disjoint DEF IInv
    <3> QED
      BY <1>d, <2>1, <3>1, <3>2 DEF SingleBoard
  <2> QED
    BY <1>1, <2>1, <2>3, <2>4 DEF TimeoutArmed
<1> QED
  BY <1>2, <1>3 DEF WriteCompletes

\* Every step keeps the timeouts armed.
LEMMA NextArmed ==
  ASSUME SingleBoard, CleanWrites, IInv, SingleInv, TimeoutArmed, [Next]_vars
  PROVE  TimeoutArmed'
<1>1. ASSUME NEW c \in Commands, CommandStep(c)
      PROVE  TimeoutArmed'
  <2>1. CASE RouteCommand(c)
    <3>1. CASE \E b \in Boards : RouteEnqueue(c, b)
      BY <2>1, <3>1, EnqueueArmed DEF RouteCommand
    <3>2. CASE ~\E b \in Boards : RouteEnqueue(c, b)
      <4>1. UNCHANGED <<seq, pending, writing, timers, handle, phase>>
        BY <2>1, <3>2 DEF RouteCommand, RouteShutdown, RouteLocal, RouteUnknown,
             RouteUnavailable, RouteRejected, RouteBusy, RouteExhausted, Answered, queueVars,
             timerVars
      <4> QED
        BY <4>1, QuietArmed DEF ShuttingDown
    <3> QED
      BY <3>1, <3>2
  <2>2. CASE Reply(c) \/ Expire(c)
    <3>1. UNCHANGED <<seq, pending, writing, timers, handle, phase>>
      BY <2>2 DEF Reply, Expire, queueVars, timerVars, cmdVars
    <3> QED
      BY <3>1, QuietArmed DEF ShuttingDown
  <2>3. CASE WriteCompletes(c)
    BY <2>3, WriteArmed
  <2>4. CASE WriteFails(c)
    BY <2>4 DEF WriteFails, CleanWrites
  <2>5. CASE ExecutionTimeout(c)
    <3>1. c \in timers /\ c \in sent /\ pending[seq[c]] = c /\ timers' = timers \ {c}
      BY <2>5 DEF ExecutionTimeout, IInv, TaskInv, TimeoutArmed
    <3>2. c # None /\ TimeoutTask # NoTask /\ "command_timeout" \in Terminal
      BY NoneAssumption DEF TimeoutTask, NoTask, Terminal
    <3>3. DispatchNext(board[c], fifo[board[c]], seq, Resolve(fut, {c}, "command_timeout"),
                       [pending EXCEPT ![seq[c]] = None],
                       FreeSlot(inflight, board[c], seq[c]), TimeoutTask)
      BY <2>5, <3>1, <3>2 DEF ExecutionTimeout
    <3> QED
      BY <3>1, <3>2, <3>3, RedispatchArmed
  <2> QED
    BY <1>1, <2>1, <2>2, <2>3, <2>4, <2>5 DEF CommandStep
<1>2. ASSUME NEW b \in Boards, BoardStep(b)
      PROVE  TimeoutArmed'
  <2>1. ASSUME NEW d \in Commands, HandleBoardResponse(b, d)
        PROVE  TimeoutArmed'
    <3>1. d \in sent /\ pending[seq[d]] # None
      BY <2>1 DEF HandleBoardResponse
    <3>2. pending[seq[d]] = d
      BY <3>1, OneCommand
    <3>3. /\ DispatchNext(board[d], fifo[board[d]], seq, Resolve(fut, {d}, "board"),
                          [pending EXCEPT ![seq[d]] = None],
                          FreeSlot(inflight, board[d], seq[d]), Reader(b))
          /\ timers' = timers \ {handle[seq[d]]}
      BY <2>1, <3>2 DEF HandleBoardResponse, CancelTimeouts
    <3>4. Reader(b) # NoTask /\ "board" \in Terminal
      BY TaskNames DEF Terminal
    <3> QED
      BY <3>1, <3>3, <3>4, RedispatchArmed
  <2>2. CASE BoardDown(b) \/ LivenessDown(b)
    <3> DEFINE S == {s \in Seqs : pending[s] # None /\ board[pending[s]] = b}
    <3>1. CancelTimeouts(S) /\ pending' = [s \in Seqs |-> IF s \in S THEN None ELSE pending[s]]
      BY <2>2 DEF BoardDown, LivenessDown, Drop
    <3>2. \A s \in Seqs : pending[s] # None => board[pending[s]] = b
      BY Disjoint DEF IInv, SingleBoard
    <3>3. \A s \in Seqs : pending[s] # None => s \in S
      BY <3>2
    <3> HIDE DEF S
    <3> QED
      BY <3>1, <3>3, RemoveArmed
  <2>3. CASE ~(BoardDown(b) \/ LivenessDown(b) \/ \E d \in Commands : HandleBoardResponse(b, d))
    <3>1. UNCHANGED <<seq, pending, writing, timers, handle, phase>>
      BY <1>2, <2>3 DEF BoardStep, Connect, ConnectFails, RegisterBoard, LinkLost, LinkDies,
           TriggerEstop, SendEstop, SendEstopFails, EstopAck, StopLink, cmdVars, queueVars,
           timerVars
    <3> QED
      BY <3>1, QuietArmed DEF ShuttingDown
  <2> QED
    BY <2>1, <2>2, <2>3
<1>3. CASE ControllerStep
  <2>1. CASE FailRemaining
    <3> DEFINE S == {s \in Seqs : pending[s] # None}
    <3>1. CancelTimeouts(S) /\ pending' = [s \in Seqs |-> None]
      BY <2>1 DEF FailRemaining
    <3>2. \A s \in Seqs : pending[s] # None => s \in S
      OBVIOUS
    <3> HIDE DEF S
    <3> QED
      BY <3>1, <3>2, RemoveArmed
  <2>2. CASE ~FailRemaining
    <3>1. /\ UNCHANGED <<seq, pending, writing, timers, handle>>
          /\ ~ShuttingDown' => ~ShuttingDown
      BY <1>3, <2>2 DEF ControllerStep, ResetEstop, RequestStop, Shutdown, CloseWriters,
           cmdVars, queueVars, timerVars, ShuttingDown
    <3> QED
      BY <3>1, QuietArmed
  <2> QED
    BY <2>1, <2>2
<1>4. CASE UNCHANGED vars
  <2>1. UNCHANGED <<seq, pending, writing, timers, handle, phase>>
    BY <1>4 DEF vars, cmdVars, queueVars, timerVars
  <2> QED
    BY <2>1, QuietArmed DEF ShuttingDown
<1> QED
  BY <1>1, <1>2, <1>3, <1>4 DEF Next

\* With one board and writes that do not fail, the command in flight has its
\* execution timeout running once it is written, and no other timeout runs: none
\* outlives its command, none is missed because the write was slow.
THEOREM TimeoutAlwaysArmed ==
  ASSUME SingleBoard, CleanWrites
  PROVE  Spec => []TimeoutArmed
<1>1. Init => TimeoutArmed
  BY DEF Init, TimeoutArmed
<1>2. IInv /\ SingleInv /\ TimeoutArmed /\ [Next]_vars => TimeoutArmed'
  BY NextArmed
<1> QED
  BY <1>1, <1>2, SingleInvariance, PTL DEF Spec

=============================================================================
