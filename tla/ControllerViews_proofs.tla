----------------------- MODULE ControllerViews_proofs -----------------------
(***************************************************************************)
(* What clients and observers see of ControllerCore.  With one board it    *)
(* implements CommandService: each of its steps is a step of one queue     *)
(* with one server, or changes nothing a client can tell.  With any number *)
(* of boards the snapshots handed to observability are never behind.       *)
(***************************************************************************)
EXTENDS ControllerQueue_proofs, ControllerService, StateMirror

-----------------------------------------------------------------------------
(* The tasks of requests *)

\* A request is replied to with a terminal future, and its task is alive while
\* it is suspended in a write, of which it has one.
ReplyInv ==
  /\ \A c \in Commands : task[c] = "replied" => fut[c] \in Terminal
  /\ \A c, d \in Commands : writing[d] = RouteTask(c) =>
       task[c] = "active" /\ \A e \in Commands : writing[e] = RouteTask(c) => e = d

\* The names of the tasks of requests differ from one another and from others.
LEMMA RouteNames ==
  /\ \A c, d \in Commands : RouteTask(c) = RouteTask(d) => c = d
  /\ \A c \in Commands : /\ RouteTask(c) # NoTask /\ RouteTask(c) # TimeoutTask
                         /\ \A b \in Boards : RouteTask(c) # Reader(b)
  BY DEF RouteTask, NoTask, TimeoutTask, Reader

\* A future is set once: none of the steps changes the outcome of a request.
LEMMA OutcomeFixed ==
  ASSUME IInv, [Next]_vars, NEW c \in Commands, task[c] # "idle", fut[c] \in Terminal
  PROVE  fut'[c] = fut[c]
<1>t. fut \in [Commands -> Futures] /\ fut[c] # "wait"
  BY DEF IInv, QueueInv, QueueTypes, Terminal
<1>1. ASSUME NEW S, NEW code, fut' = Resolve(fut, S, code)
      PROVE  fut'[c] = fut[c]
  BY <1>1, <1>t DEF Resolve
<1>2. ASSUME NEW b, NEW q, NEW sq, NEW f, NEW p, NEW fl, NEW who, f[c] = fut[c],
             DispatchNext(b, q, sq, f, p, fl, who)
      PROVE  fut'[c] = fut[c]
  BY <1>2, <1>t DEF DispatchNext, Resolve
<1>3. ASSUME NEW e \in Commands, CommandStep(e)
      PROVE  fut'[c] = fut[c]
  <2>1. CASE RouteCommand(e)
    <3>1. c # e
      BY <2>1 DEF RouteCommand
    <3>2. ASSUME NEW b \in Boards, RouteEnqueue(e, b)
          PROVE  fut'[c] = fut[c]
      <4>1. [fut EXCEPT ![e] = "wait"][c] = fut[c]
        BY <3>1, <1>t
      <4>2. DispatchNext(b, Enqueue(fifo[b], e), [seq EXCEPT ![e] = nextSeq[b]],
                         [fut EXCEPT ![e] = "wait"], pending, inflight, RouteTask(e))
        BY <3>2 DEF RouteEnqueue
      <4> DEFINE f == [fut EXCEPT ![e] = "wait"]
      <4> HIDE DEF f
      <4>3. f[c] = fut[c]
        BY <4>1 DEF f
      <4>4. DispatchNext(b, Enqueue(fifo[b], e), [seq EXCEPT ![e] = nextSeq[b]], f, pending,
                         inflight, RouteTask(e))
        BY <4>2 DEF f
      <4> QED
        BY <4>3, <4>4, <1>2
    <3>3. CASE ~\E b \in Boards : RouteEnqueue(e, b)
      BY <2>1, <3>1, <3>3, <1>t DEF RouteCommand, RouteShutdown, RouteLocal, RouteUnknown,
           RouteUnavailable, RouteRejected, RouteBusy, RouteExhausted, Answered
    <3> QED
      BY <3>2, <3>3
  <2>2. CASE ExecutionTimeout(e)
    <3>1. Resolve(fut, {pending[seq[e]]}, "command_timeout")[c] = fut[c]
      BY <1>t DEF Resolve
    <3> QED
      BY <2>2, <3>1, <1>2 DEF ExecutionTimeout
  <2>3. CASE ~RouteCommand(e) /\ ~ExecutionTimeout(e)
    BY <1>3, <2>3 DEF CommandStep, Reply, Expire, WriteCompletes, WriteFails, cmdVars
  <2> QED
    BY <2>1, <2>2, <2>3
<1>4. ASSUME NEW b \in Boards, BoardStep(b)
      PROVE  fut'[c] = fut[c]
  <2>1. ASSUME NEW d \in Commands, HandleBoardResponse(b, d)
        PROVE  fut'[c] = fut[c]
    <3>1. Resolve(fut, {pending[seq[d]]}, "board")[c] = fut[c]
      BY <1>t DEF Resolve
    <3> QED
      BY <2>1, <3>1, <1>2 DEF HandleBoardResponse
  <2>2. CASE BoardDown(b) \/ LivenessDown(b) \/ TriggerEstop(b)
    BY <2>2, <1>1 DEF BoardDown, LivenessDown, Drop, TriggerEstop
  <2>3. CASE ~(\/ BoardDown(b) \/ LivenessDown(b) \/ TriggerEstop(b)
               \/ \E d \in Commands : HandleBoardResponse(b, d))
    BY <1>4, <2>3 DEF BoardStep, Connect, ConnectFails, RegisterBoard, LinkLost, LinkDies,
         SendEstop, SendEstopFails, EstopAck, StopLink, cmdVars
  <2> QED
    BY <2>1, <2>2, <2>3
<1>5. CASE ControllerStep
  BY <1>5, <1>1 DEF ControllerStep, ResetEstop, RequestStop, Shutdown, FailRemaining,
       CloseWriters, cmdVars
<1>6. CASE UNCHANGED vars
  BY <1>6 DEF vars, cmdVars
<1> QED
  BY <1>3, <1>4, <1>5, <1>6 DEF Next

\* What a step may do to the tasks of requests and their writes: one more write,
\* on behalf of a request that was idle or of another task; a write less; a task
\* that was suspended in a write dies with it.
LEMMA ReplyStep ==
  ASSUME IInv, ReplyInv, [Next]_vars
  PROVE  ReplyInv'
<1>t. /\ writing \in [Commands -> Tasks] /\ task \in [Commands -> TaskStates]
      /\ fifo \in [Boards -> Seq(Commands)]
  BY DEF IInv, AuxTypes, QueueInv, QueueTypes
<1>0. ASSUME UNCHANGED <<task, writing>> PROVE ReplyInv'
  BY <1>0, OutcomeFixed DEF ReplyInv, RouteTask
\* A dispatch on behalf of a task that is not a request's.
<1>1. ASSUME NEW b \in Boards, NEW sq, NEW f, NEW p, NEW fl, NEW who,
             DispatchNext(b, fifo[b], sq, f, p, fl, who),
             \A c \in Commands : who # RouteTask(c), UNCHANGED task
      PROVE  ReplyInv'
  <2>1. fifo[b] \in Seq(Commands)
    BY <1>t
  <2>2. WritesOne(fifo[b], who)
    BY <2>1, <1>1, <1>t, DispatchEffect
  <2>3. \A c, d \in Commands : writing'[d] = RouteTask(c) => writing[d] = RouteTask(c)
    BY <2>1, <2>2, <1>1, <1>t DEF WritesOne
  <2> QED
    BY <2>3, <1>1, OutcomeFixed DEF ReplyInv, RouteTask
<1>2. ASSUME NEW c \in Commands, CommandStep(c)
      PROVE  ReplyInv'
  <2>1. ASSUME NEW b \in Boards, task[c] = "idle", RouteEnqueue(c, b)
        PROVE  ReplyInv'
    <3>1. /\ task' = [task EXCEPT ![c] = "active"]
          /\ DispatchNext(b, Append(fifo[b], c), [seq EXCEPT ![c] = nextSeq[b]],
                          [fut EXCEPT ![c] = "wait"], pending, inflight, RouteTask(c))
      BY <2>1 DEF RouteEnqueue, Enqueue
    <3>2. Append(fifo[b], c) \in Seq(Commands)
      BY <1>t
    <3>3. WritesOne(Append(fifo[b], c), RouteTask(c))
      BY <3>1, <3>2, <1>t, DispatchEffect
    <3>4. \A d \in Commands : writing[d] # RouteTask(c)
      BY <2>1 DEF ReplyInv
    <3>5. PICK e \in Commands : \/ writing' = writing
                                \/ writing' = [writing EXCEPT ![e] = RouteTask(c)]
      BY <3>2, <3>3 DEF WritesOne
    <3>6. /\ \A d \in Commands : writing'[d] = RouteTask(c) => d = e
          /\ \A d, x \in Commands : x # c /\ writing'[d] = RouteTask(x) => writing[d] = RouteTask(x)
      BY <3>4, <3>5, <1>t, RouteNames
    <3>7. \A x \in Commands : x # c => task'[x] = task[x]
      BY <3>1, <1>t
    <3>8. task'[c] = "active"
      BY <3>1, <1>t
    <3>9. ASSUME NEW x \in Commands, task'[x] = "replied"
          PROVE  fut'[x] \in Terminal
      BY <3>7, <3>8, <3>9, OutcomeFixed DEF ReplyInv
    <3>10. ASSUME NEW x \in Commands, NEW d \in Commands, writing'[d] = RouteTask(x)
           PROVE  task'[x] = "active" /\ \A g \in Commands : writing'[g] = RouteTask(x) => g = d
      <4>1. CASE x = c
        BY <4>1, <3>6, <3>8, <3>10
      <4>2. CASE x # c
        BY <4>2, <3>6, <3>7, <3>10 DEF ReplyInv
      <4> QED
        BY <4>1, <4>2
    <3> QED
      BY <3>9, <3>10 DEF ReplyInv, RouteTask
  <2>2. CASE RouteCommand(c) /\ ~\E b \in Boards : RouteEnqueue(c, b)
    <3>1. /\ task[c] = "idle" /\ UNCHANGED writing
          /\ \E s \in {"active", "dead"} : task' = [task EXCEPT ![c] = s]
      BY <2>2 DEF RouteCommand, RouteShutdown, RouteLocal, RouteUnknown, RouteUnavailable,
           RouteRejected, RouteBusy, RouteExhausted, Answered, queueVars
    <3>2. \A x \in Commands : x # c => task'[x] = task[x]
      BY <3>1, <1>t
    <3>3. task'[c] # "replied" /\ \A d \in Commands : writing[d] # RouteTask(c)
      BY <3>1, <1>t DEF ReplyInv
    <3>4. ASSUME NEW x \in Commands, task'[x] = "replied"
          PROVE  fut'[x] \in Terminal
      BY <3>2, <3>3, <3>4, OutcomeFixed DEF ReplyInv
    <3> QED
      BY <3>1, <3>2, <3>3, <3>4 DEF ReplyInv, RouteTask
  <2>3. CASE Reply(c)
    <3>1. /\ fut[c] \in Terminal /\ UNCHANGED <<fut, writing>>
          /\ \A d \in Commands : writing[d] # RouteTask(c)
          /\ task' = [task EXCEPT ![c] = "replied"]
      BY <2>3 DEF Reply, queueVars
    <3> QED
      BY <3>1, <1>t DEF ReplyInv, RouteTask
  <2>4. CASE Expire(c)
    BY <2>4, <1>0 DEF Expire, cmdVars, queueVars
  <2>5. CASE WriteCompletes(c) \/ WriteFails(c)
    <3>1. writing' = [writing EXCEPT ![c] = NoTask] /\ UNCHANGED fut
      BY <2>5 DEF WriteCompletes, WriteFails, cmdVars
    <3>2. \A d, x \in Commands : writing'[d] = RouteTask(x) => writing[d] = RouteTask(x) /\ d # c
      BY <3>1, <1>t, RouteNames
    <3>3. \/ UNCHANGED task
          \/ \E x \in Commands : writing[c] = RouteTask(x) /\ task' = [task EXCEPT ![x] = "dead"]
      BY <2>5 DEF WriteCompletes, WriteFails, cmdVars
    <3>4. CASE UNCHANGED task
      BY <3>1, <3>2, <3>4 DEF ReplyInv, RouteTask
    <3>5. ASSUME NEW x \in Commands, writing[c] = RouteTask(x), task' = [task EXCEPT ![x] = "dead"]
          PROVE  ReplyInv'
      <4>1. \A d \in Commands : writing'[d] # RouteTask(x)
        BY <3>2, <3>5 DEF ReplyInv
      <4>2. /\ \A y \in Commands : y # x => task'[y] = task[y]
            /\ task'[x] = "dead"
        BY <3>5, <1>t
      <4> QED
        BY <3>1, <3>2, <4>1, <4>2 DEF ReplyInv, RouteTask
    <3> QED
      BY <3>3, <3>4, <3>5
  <2>6. CASE ExecutionTimeout(c)
    <3>1. c \in sent /\ UNCHANGED task
      BY <2>6 DEF ExecutionTimeout, IInv, TaskInv
    <3>2. CASE UNCHANGED queueVars
      BY <3>1, <3>2, <1>0 DEF queueVars
    <3>3. CASE pending[seq[c]] # None /\ ~UNCHANGED queueVars
      <4>1. board[pending[seq[c]]] \in Boards
        BY <3>1, <3>3, EntryBoard
      <4>2. \A x \in Commands : TimeoutTask # RouteTask(x)
        BY RouteNames
      <4> QED
        BY <2>6, <3>1, <3>3, <4>1, <4>2, <1>1 DEF ExecutionTimeout
    <3> QED
      BY <2>6, <3>2, <3>3 DEF ExecutionTimeout
  <2> QED
    BY <1>2, <2>1, <2>2, <2>3, <2>4, <2>5, <2>6 DEF CommandStep, RouteCommand
<1>3. ASSUME NEW b \in Boards, BoardStep(b)
      PROVE  ReplyInv'
  <2>1. ASSUME NEW d \in Commands, HandleBoardResponse(b, d)
        PROVE  ReplyInv'
    <3>1. d \in sent /\ pending[seq[d]] # None
      BY <2>1 DEF HandleBoardResponse
    <3>2. board[pending[seq[d]]] \in Boards /\ \A x \in Commands : Reader(b) # RouteTask(x)
      BY <3>1, EntryBoard, RouteNames
    <3> QED
      BY <2>1, <3>2, <1>1 DEF HandleBoardResponse
  <2>2. CASE ~\E d \in Commands : HandleBoardResponse(b, d)
    <3>1. UNCHANGED <<task, writing>>
      BY <1>3, <2>2 DEF BoardStep, Connect, ConnectFails, RegisterBoard, LinkLost, LinkDies,
           BoardDown, LivenessDown, Drop, TriggerEstop, SendEstop, SendEstopFails, EstopAck,
           StopLink, cmdVars, queueVars
    <3> QED
      BY <3>1, <1>0
  <2> QED
    BY <2>1, <2>2
<1>4. CASE ControllerStep
  <2>1. UNCHANGED <<task, writing>>
    BY <1>4 DEF ControllerStep, ResetEstop, RequestStop, Shutdown, FailRemaining,
         CloseWriters, cmdVars, queueVars
  <2> QED
    BY <2>1, <1>0
<1>5. CASE UNCHANGED vars
  BY <1>5, <1>0 DEF vars, cmdVars, queueVars
<1> QED
  BY <1>2, <1>3, <1>4, <1>5 DEF Next

-----------------------------------------------------------------------------
(* The controller with one board is a queue with one server *)

\* Progress over its arguments: the state between the parts of a handler.
View(tk, f, fi) ==
  [c \in Commands |->
     IF tk[c] = "replied" THEN "replied"
     ELSE IF f[c] = "none" THEN "new"
     ELSE IF f[c] # "wait" THEN "answered"
     ELSE IF c \in UNION {Queued(fi[b]) : b \in Boards} THEN "queued"
     ELSE "flight"]

\* The status that the refinement gives the requests.
Status == [c \in Commands |-> Progress(c)]

\* Status is a view of the state, before and after a step.
LEMMA StatusView ==
  Status = View(task, fut, fifo) /\ Status' = View(task', fut', fifo')
  BY DEF Status, View, Progress, AllQueued, Queued

\* What Serve(b, q, st) of CommandService says about a step.
Serves(b, q, st) ==
  \/ fifo' = [fifo EXCEPT ![b] = q] /\ Status' = st
  \/ /\ \A c \in Commands : st[c] # "flight"
     /\ \E n \in 0 .. Len(q) :
          \/ /\ n = Len(q)
             /\ fifo' = [fifo EXCEPT ![b] = <<>>]
             /\ Status' = [c \in Commands |->
                             IF c \in {q[i] : i \in 1 .. n} THEN "answered" ELSE st[c]]
          \/ /\ n < Len(q)
             /\ fifo' = [fifo EXCEPT ![b] = SubSeq(q, n + 2, Len(q))]
             /\ Status' = [[c \in Commands |->
                              IF c \in {q[i] : i \in 1 .. n} THEN "answered" ELSE st[c]]
                             EXCEPT ![q[n + 1]] = "flight"]

\* It is what CommandService means.
LEMMA ServesServe ==
  ASSUME NEW b, NEW q, NEW st, Serves(b, q, st)
  PROVE  Service!Serve(b, q, st)
  BY DEF Serves, Service!Serve, Service!InFlight, Service!AnswerAll, Status

\* The commands of q are different commands and wait.
DistinctWaiting(q, f) ==
  /\ \A i, j \in 1 .. Len(q) : q[i] = q[j] => i = j
  /\ \A i \in 1 .. Len(q) : f[q[i]] = "wait"

\* The commands of a queue are different commands.
LEMMA QueueDistinct ==
  ASSUME NEW b \in Boards, NEW q \in Seq(Commands), NEW sq, NEW f, NEW p, NEW fl, NEW bd,
         fifo \in [Boards -> Seq(Commands)],
         QueueInv([fifo EXCEPT ![b] = q], sq, f, p, fl, bd, sent)
  PROVE  DistinctWaiting(q, f)
<1>1. [fifo EXCEPT ![b] = q][b] = q
  OBVIOUS
<1>2. \A i \in 1 .. Len(q) : /\ f[q[i]] = "wait"
                             /\ \A j \in 1 .. (i - 1) : sq[q[j]] < sq[q[i]]
  BY <1>1 DEF QueueInv, FifoInv
<1>3. ASSUME NEW i \in 1 .. Len(q), NEW j \in 1 .. Len(q), q[i] = q[j], j < i
      PROVE  FALSE
  <2>1. sq[q[j]] < sq[q[i]]
    BY <1>2, <1>3
  <2>2. sq[q[j]] \in Int
    BY q[j] \in Commands DEF QueueInv, QueueTypes
  <2> QED
    BY <1>3, <2>1, <2>2
<1>4. ASSUME NEW i \in 1 .. Len(q), NEW j \in 1 .. Len(q), q[i] = q[j]
      PROVE  i = j
  <2>1. i < j \/ j < i \/ i = j
    OBVIOUS
  <2> QED
    BY <1>3, <1>4, <2>1, Zenon
<1> QED
  BY <1>2, <1>4, Zenon DEF DistinctWaiting

\* _dispatch_next serves the queue of the one board.
LEMMA DispatchServes ==
  ASSUME SingleBoard,
         NEW b \in Boards, NEW q \in Seq(Commands), NEW sq, NEW f, NEW p, NEW fl,
         NEW bd, NEW who,
         fifo \in [Boards -> Seq(Commands)],
         QueueInv([fifo EXCEPT ![b] = q], sq, f, p, fl, bd, sent),
         Track([fifo EXCEPT ![b] = q], sq, f, p, fl, bd),
         \A c \in Commands : task'[c] = "replied" => f[c] \in Terminal,
         DispatchNext(b, q, sq, f, p, fl, who)
  PROVE  Serves(b, q, View(task', f, [fifo EXCEPT ![b] = q]))
<1> DEFINE fi == [fifo EXCEPT ![b] = q]
           st == View(task', f, fi)
           can == ~ShuttingDown /\ Available(b) /\ SlotFree(fl, b)
<1>t. QueueTypes(fi, sq, f, p, fl, bd, sent)
  BY DEF QueueInv
<1>b. \A x \in Boards : x = b
  BY DEF SingleBoard
<1>u. UNION {Queued(fi[x]) : x \in Boards} = Queued(q)
  BY <1>b
<1>s. Status' = View(task', fut', fifo')
  BY StatusView
<1>1. CASE ~can
  <2>1. fifo' = fi /\ fut' = f
    BY <1>1 DEF DispatchNext
  <2> QED
    BY <2>1, <1>s DEF Serves
<1>2. CASE can
  <2>1. PICK n \in 0 .. Len(q) :
          /\ fut' = Resolve(f, {q[i] : i \in 1 .. n}, "command_timeout")
          /\ \/ /\ n = Len(q)
                /\ fifo' = [fifo EXCEPT ![b] = <<>>]
             \/ /\ n < Len(q)
                /\ fifo' = [fifo EXCEPT ![b] = SubSeq(q, n + 2, Len(q))]
    BY <1>2, Zenon DEF DispatchNext
  <2> DEFINE head == {q[i] : i \in 1 .. n}
             old == [c \in Commands |-> IF c \in head THEN "answered" ELSE st[c]]
  <2>2. fl[b] = 0
    BY <1>2 DEF SlotFree
  <2>3. \A s \in Seqs : p[s] = None
    <3> SUFFICES ASSUME NEW s \in Seqs, p[s] # None PROVE FALSE
      OBVIOUS
    <3>1. p[s] \in sent /\ fl[bd[p[s]]] = s
      BY DEF QueueInv, PendingInv
    <3>2. p[s] \in Commands /\ bd[p[s]] # None
      BY <3>1, <1>t DEF QueueInv, SeqInv, QueueTypes
    <3>3. bd[p[s]] = b
      BY <3>2, <1>b, <1>t DEF QueueTypes
    <3> QED
      BY <3>1, <3>3, <2>2 DEF Seqs
  \* Nothing is in flight, so whoever waits is queued.
  <2>4. \A c \in Commands : f[c] = "wait" => c \in Queued(q)
    <3> SUFFICES ASSUME NEW c \in Commands, f[c] = "wait" PROVE c \in Queued(q)
      OBVIOUS
    <3>1. bd[c] = b /\ (c \in Queued(fi[b]) \/ p[sq[c]] = c)
      BY <1>b DEF Track
    <3>2. sq[c] \in Seqs
      BY <3>1, NoneAssumption DEF QueueInv, SeqInv
    <3> QED
      BY <3>1, <3>2, <2>3, NoneAssumption
  <2>5. /\ \A i, j \in 1 .. Len(q) : q[i] = q[j] => i = j
        /\ \A i \in 1 .. Len(q) : q[i] \in Commands /\ f[q[i]] = "wait"
    <3>1. DistinctWaiting(q, f)
      BY QueueDistinct
    <3> QED
      BY <3>1 DEF DistinctWaiting
  <2>6. \A c \in Commands :
          st[c] = IF task'[c] = "replied" THEN "replied"
                  ELSE IF f[c] = "none" THEN "new"
                  ELSE IF f[c] # "wait" THEN "answered"
                  ELSE IF c \in Queued(q) THEN "queued" ELSE "flight"
    BY <1>u DEF View
  <2>7. \A c \in Commands : st[c] # "flight"
    BY <2>4, <2>6
  <2>8. \A c \in Commands : f[c] = "wait" => task'[c] # "replied"
    BY DEF Terminal
  <2>9. \A c \in Commands : /\ c \in head => fut'[c] = "command_timeout" /\ f[c] = "wait"
                            /\ c \notin head => fut'[c] = f[c]
    <3>1. \A c \in Commands : c \in head => f[c] = "wait"
      BY <2>5
    <3> QED
      BY <2>1, <3>1 DEF Resolve
  <2> DEFINE left == UNION {Queued(fifo'[x]) : x \in Boards}
  <2>10. \A c \in Commands :
          Status'[c] = IF task'[c] = "replied" THEN "replied"
                       ELSE IF fut'[c] = "none" THEN "new"
                       ELSE IF fut'[c] # "wait" THEN "answered"
                       ELSE IF c \in left THEN "queued" ELSE "flight"
    BY <1>s DEF View
  <2>11. left = Queued(fifo'[b])
    BY <1>b
  <2>12. Status' = [c \in Commands |-> Status'[c]]
    BY DEF Status
  <2>13. CASE n = Len(q) /\ fifo' = [fifo EXCEPT ![b] = <<>>]
    <3>1. head = Queued(q)
      BY <2>13 DEF Queued
    <3> HIDE DEF st, head, left
    <3>2. ASSUME NEW c \in Commands PROVE Status'[c] = old[c]
      <4>1. CASE c \in head
        BY <4>1, <2>8, <2>9, <2>10
      <4>2. CASE c \notin head
        BY <4>2, <2>4, <2>6, <2>9, <2>10, <3>1
      <4> QED
        BY <4>1, <4>2
    <3>3. Status' = old
      BY <2>12, <3>2
    <3> QED
      BY <2>7, <2>13, <3>3 DEF Serves, st, head
  <2>14. CASE n < Len(q) /\ fifo' = [fifo EXCEPT ![b] = SubSeq(q, n + 2, Len(q))]
    <3> DEFINE m == n + 1
               d == q[m]
    <3>1. m \in 1 .. Len(q) /\ n + 2 = m + 1 /\ d \in Commands
      BY <2>14
    <3>2. fifo'[b] = SubSeq(q, m + 1, Len(q))
      BY <2>14, <3>1
    <3>3. d \notin head
      BY <2>5, <3>1
    <3>4. /\ left \subseteq Queued(q) /\ d \notin left
          /\ \A c \in Queued(q) : c \in head \/ c = d \/ c \in left
      <4> HIDE DEF m, d
      <4>1. /\ Len(fifo'[b]) = Len(q) - m
            /\ \A i \in 1 .. (Len(q) - m) : fifo'[b][i] = q[m + i]
        BY <3>1, <3>2, SuffixElements
      <4>2. \A i \in 1 .. Len(fifo'[b]) : m + i \in 1 .. Len(q) /\ m + i # m /\ fifo'[b][i] = q[m + i]
        BY <3>1, <4>1
      <4>3. left \subseteq Queued(q)
        BY <2>11, <4>2 DEF Queued
      <4>4. d \notin left
        <5>1. ASSUME NEW i \in 1 .. Len(fifo'[b]), fifo'[b][i] = d PROVE FALSE
          <6>1. m + i \in 1 .. Len(q) /\ m + i # m /\ q[m + i] = q[m]
            BY <4>2, <5>1 DEF d
          <6> QED
            BY <2>5, <3>1, <6>1
        <5> QED
          BY <2>11, <5>1 DEF Queued
      <4>5. ASSUME NEW i \in 1 .. Len(q)
            PROVE  q[i] \in head \/ q[i] = d \/ q[i] \in left
        <5>1. CASE i < m
          BY <5>1 DEF m
        <5>2. CASE i = m
          BY <5>2 DEF d
        <5>3. CASE i > m
          <6>1. i - m \in 1 .. Len(fifo'[b]) /\ m + (i - m) = i
            BY <3>1, <4>1, <5>3
          <6>2. fifo'[b][i - m] = q[i]
            BY <4>2, <6>1
          <6> QED
            BY <2>11, <6>1, <6>2 DEF Queued
        <5> QED
          BY <3>1, <5>1, <5>2, <5>3
      <4> HIDE DEF head, left
      <4> QED
        BY <4>3, <4>4, <4>5 DEF Queued
    <3>5. f[d] = "wait"
      BY <2>5, <3>1
    <3> HIDE DEF st, head, left, m, d
    <3>6. ASSUME NEW c \in Commands PROVE Status'[c] = [old EXCEPT ![d] = "flight"][c]
      <4>1. CASE c \in head
        BY <4>1, <2>8, <2>9, <2>10, <3>3
      <4>2. CASE c = d
        BY <4>2, <2>8, <2>9, <2>10, <3>3, <3>4, <3>5
      <4>3. CASE c \notin head /\ c # d
        <5>1. fut'[c] = f[c] /\ (c \in left <=> c \in Queued(q))
          BY <4>3, <2>9, <3>4
        <5> QED
          BY <4>3, <5>1, <2>6, <2>10
      <4> QED
        BY <4>1, <4>2, <4>3
    <3>7. Status' = [old EXCEPT ![d] = "flight"]
      BY <2>12, <3>6
    <3> QED
      BY <2>7, <2>14, <3>7 DEF Serves, st, head, d, m
  <2> QED
    BY <2>1, <2>13, <2>14
<1> QED
  BY <1>1, <1>2

\* What a step of the controller is to its clients.
Serviced == Service!ServiceNext \/ UNCHANGED <<Status, board, fifo>>

\* The status of a request, before and after a step.
LEMMA StatusOf ==
  ASSUME NEW c \in Commands
  PROVE  /\ Status[c] = IF task[c] = "replied" THEN "replied"
                        ELSE IF fut[c] = "none" THEN "new"
                        ELSE IF fut[c] # "wait" THEN "answered"
                        ELSE IF c \in AllQueued THEN "queued" ELSE "flight"
         /\ Status'[c] = IF task'[c] = "replied" THEN "replied"
                         ELSE IF fut'[c] = "none" THEN "new"
                         ELSE IF fut'[c] # "wait" THEN "answered"
                         ELSE IF c \in AllQueued' THEN "queued" ELSE "flight"
  BY DEF Status, Progress

\* Steps that leave queues and futures alone and deliver no reply.
LEMMA QuietService ==
  ASSUME UNCHANGED <<fut, board, fifo>>,
         \A c \in Commands : task'[c] = "replied" <=> task[c] = "replied"
  PROVE  Serviced
<1>1. Status' = Status
  BY DEF Status, Progress, AllQueued
<1> QED
  BY <1>1 DEF Serviced

\* A request that is answered at once is refused.
LEMMA AnsweredService ==
  ASSUME IInv, NEW c \in Commands, task[c] = "idle", NEW code \in Terminal, Answered(c, code)
  PROVE  Serviced
<1>t. fut \in [Commands -> Futures] /\ task \in [Commands -> TaskStates] /\ fut[c] = "none"
  BY DEF IInv, QueueInv, QueueTypes, AuxTypes, TaskInv
<1>1. /\ task' = [task EXCEPT ![c] = "active"] /\ fut' = [fut EXCEPT ![c] = code]
      /\ UNCHANGED <<board, fifo>>
  BY DEF Answered, queueVars
<1>2. AllQueued' = AllQueued
  BY <1>1 DEF AllQueued
<1>3. Status[c] = "new" /\ Status'[c] = "answered"
  BY <1>t, <1>1, StatusOf DEF Terminal
<1>4. \A d \in Commands : d # c => Status'[d] = Status[d]
  BY <1>t, <1>1, <1>2, StatusOf
<1>5. Status' = [Status EXCEPT ![c] = "answered"]
  BY <1>3, <1>4 DEF Status
<1>6. Service!Refuse(c)
  BY <1>1, <1>3, <1>5 DEF Service!Refuse, Status
<1> QED
  BY <1>6 DEF Serviced, Service!ServiceNext

\* A reply delivers the answer.
LEMMA ReplyService ==
  ASSUME IInv, NEW c \in Commands, Reply(c)
  PROVE  Serviced
<1>t. task \in [Commands -> TaskStates]
  BY DEF IInv, AuxTypes
<1>1. /\ task[c] = "active" /\ fut[c] \in Terminal
      /\ task' = [task EXCEPT ![c] = "replied"] /\ UNCHANGED <<fut, board, fifo>>
  BY DEF Reply, queueVars
<1>2. AllQueued' = AllQueued
  BY <1>1 DEF AllQueued
<1>3. Status[c] = "answered" /\ Status'[c] = "replied"
  BY <1>t, <1>1, StatusOf DEF Terminal
<1>4. \A d \in Commands : d # c => Status'[d] = Status[d]
  BY <1>t, <1>1, <1>2, StatusOf
<1>5. Status' = [Status EXCEPT ![c] = "replied"]
  BY <1>3, <1>4 DEF Status
<1>6. Service!Deliver(c)
  BY <1>1, <1>3, <1>5 DEF Service!Deliver, Status
<1> QED
  BY <1>6 DEF Serviced, Service!ServiceNext

\* route_command accepts a request and serves the queue.
LEMMA EnqueueService ==
  ASSUME SingleBoard, IInv, SingleInv, ReplyInv, NEW c \in Commands, task[c] = "idle",
         NEW b \in Boards, RouteEnqueue(c, b)
  PROVE  Serviced
<1> DEFINE q == Append(fifo[b], c)
           sq == [seq EXCEPT ![c] = nextSeq[b]]
           f == [fut EXCEPT ![c] = "wait"]
           bd == [board EXCEPT ![c] = b]
           fi == [fifo EXCEPT ![b] = q]
           st == [Status EXCEPT ![c] = "queued"]
<1>a. /\ SeqLeft(b) /\ board' = bd /\ task' = [task EXCEPT ![c] = "active"]
      /\ DispatchNext(b, q, sq, f, pending, inflight, RouteTask(c))
  BY DEF RouteEnqueue, Enqueue
<1>t. /\ fifo \in [Boards -> Seq(Commands)] /\ fut \in [Commands -> Futures]
      /\ task \in [Commands -> TaskStates] /\ fut[c] = "none"
  BY DEF IInv, QueueInv, QueueTypes, AuxTypes, TaskInv
<1>q. /\ q \in Seq(Commands) /\ Queued(q) = Queued(fifo[b]) \cup {c}
  <2>1. /\ q \in Seq(Commands) /\ Len(q) = Len(fifo[b]) + 1 /\ Len(fifo[b]) \in Nat
        /\ \A i \in 1 .. Len(q) : q[i] = IF i <= Len(fifo[b]) THEN fifo[b][i] ELSE c
    BY <1>t
  <2>2. /\ \A i \in 1 .. Len(fifo[b]) : i \in 1 .. Len(q) /\ q[i] = fifo[b][i]
        /\ Len(q) \in 1 .. Len(q) /\ q[Len(q)] = c
        /\ \A i \in 1 .. Len(q) : i \in 1 .. Len(fifo[b]) \/ q[i] = c
    BY <2>1
  <2> HIDE DEF q
  <2> QED
    BY <2>1, <2>2 DEF Queued
<1>1. QueueInv(fi, sq, f, pending, inflight, bd, sent)
  BY <1>a, EnqueueQueueInv
<1>2. Track(fi, sq, f, pending, inflight, bd)
  BY EnqueueTrack DEF SingleInv
<1>3. \A d \in Commands : task'[d] = "replied" => f[d] \in Terminal
  BY <1>a, <1>t DEF ReplyInv
<1>4. View(task', f, fi) = st
  <2>1. \A x \in Boards : x = b
    BY DEF SingleBoard
  <2>2. /\ UNION {Queued(fi[x]) : x \in Boards} = Queued(q)
        /\ AllQueued = Queued(fifo[b])
    BY <2>1, <1>t DEF AllQueued
  <2>3. ASSUME NEW d \in Commands PROVE View(task', f, fi)[d] = st[d]
    <3>1. View(task', f, fi)[d] =
            IF task'[d] = "replied" THEN "replied"
            ELSE IF f[d] = "none" THEN "new"
            ELSE IF f[d] # "wait" THEN "answered"
            ELSE IF d \in Queued(q) THEN "queued" ELSE "flight"
      BY <2>2 DEF View
    <3>2. CASE d = c
      BY <3>1, <3>2, <1>a, <1>t, <1>q DEF Status
    <3>3. CASE d # c
      <4>1. /\ task'[d] = task[d] /\ f[d] = fut[d] /\ st[d] = Status[d]
            /\ d \in Queued(q) <=> d \in AllQueued
        BY <3>3, <2>2, <1>a, <1>t, <1>q DEF Status
      <4> QED
        BY <3>1, <4>1, StatusOf
    <3> QED
      BY <3>2, <3>3
  <2> QED
    BY <2>3 DEF View, Status
<1> HIDE DEF q, sq, f, bd, st
<1>5. Serves(b, q, View(task', f, fi))
  BY <1>a, <1>t, <1>q, <1>1, <1>2, <1>3, DispatchServes
<1>6. Service!Serve(b, Append(fifo[b], c), [Status EXCEPT ![c] = "queued"])
  BY <1>4, <1>5, ServesServe DEF q, st
<1>7. Status[c] = "new"
  BY <1>t, StatusOf
<1>8. Service!Accept(c, b)
  BY <1>6, <1>7, <1>a DEF Service!Accept, Status, bd
<1> QED
  BY <1>8 DEF Serviced, Service!ServiceNext

\* A response or a timeout settles the request in flight and serves the queue.
LEMMA SettleService ==
  ASSUME SingleBoard, IInv, SingleInv, ReplyInv, NEW d \in Commands, d \in sent,
         pending[seq[d]] # None, NEW code \in Terminal, NEW who,
         DispatchNext(board[d], fifo[board[d]], seq, Resolve(fut, {d}, code),
                      [pending EXCEPT ![seq[d]] = None],
                      FreeSlot(inflight, board[d], seq[d]), who),
         UNCHANGED <<task, board>>
  PROVE  Serviced
<1> DEFINE x == board[d]
           f == Resolve(fut, {d}, code)
           p == [pending EXCEPT ![seq[d]] = None]
           fl == FreeSlot(inflight, x, seq[d])
           st == [Status EXCEPT ![d] = "answered"]
<1>1. pending[seq[d]] = d /\ seq[d] \in Seqs /\ x \in Boards
  BY OneCommand, EntryBoard
<1>t. /\ fifo \in [Boards -> Seq(Commands)] /\ fut \in [Commands -> Futures]
      /\ fut[d] = "wait"
  BY <1>1, NoneAssumption, Disjoint DEF IInv, QueueInv, QueueTypes
<1>2. QueueInv(fifo, seq, f, p, fl, board, sent)
  BY <1>1, ReleaseQueueInv DEF IInv
<1>3. Track(fifo, seq, f, p, fl, board)
  BY ReleaseTrack DEF SingleInv
<1>4. fifo[x] \in Seq(Commands) /\ [fifo EXCEPT ![x] = fifo[x]] = fifo
  BY <1>1, <1>t
<1>5. DispatchNext(x, fifo[x], seq, f, p, fl, who)
  OBVIOUS
<1>6. \A c \in Commands : task'[c] = "replied" => f[c] \in Terminal
  BY <1>t DEF ReplyInv, Resolve
<1>7. d \notin AllQueued
  BY <1>1, Disjoint DEF IInv, AllQueued, Queued
<1>8. Status[d] = "flight"
  BY <1>t, <1>7, StatusOf DEF ReplyInv, Terminal
<1>9. View(task', f, fifo) = st
  <2>1. ASSUME NEW c \in Commands PROVE View(task', f, fifo)[c] = st[c]
    <3>1. View(task', f, fifo)[c] =
            IF task[c] = "replied" THEN "replied"
            ELSE IF f[c] = "none" THEN "new"
            ELSE IF f[c] # "wait" THEN "answered"
            ELSE IF c \in AllQueued THEN "queued" ELSE "flight"
      BY DEF View, AllQueued
    <3>2. CASE c = d
      <4>1. f[c] = code /\ task[c] # "replied"
        BY <3>2, <1>t DEF Resolve, ReplyInv, Terminal
      <4> QED
        BY <3>1, <3>2, <4>1 DEF Status, Terminal
    <3>3. CASE c # d
      <4>1. f[c] = fut[c] /\ st[c] = Status[c]
        BY <3>3, <1>t DEF Resolve, Status
      <4> QED
        BY <3>1, <4>1, StatusOf
    <3> QED
      BY <3>2, <3>3
  <2> QED
    BY <2>1 DEF View, Status
<1> HIDE DEF f, p, fl, st
<1>10. Serves(x, fifo[x], View(task', f, [fifo EXCEPT ![x] = fifo[x]]))
  <2>1. /\ QueueInv([fifo EXCEPT ![x] = fifo[x]], seq, f, p, fl, board, sent)
        /\ Track([fifo EXCEPT ![x] = fifo[x]], seq, f, p, fl, board)
    BY <1>2, <1>3, <1>4
  <2> HIDE DEF x
  <2> QED
    BY <2>1, <1>t, <1>1, <1>4, <1>5, <1>6, DispatchServes
<1>11. Service!Serve(board[d], fifo[board[d]], [Status EXCEPT ![d] = "answered"])
  BY <1>4, <1>9, <1>10, ServesServe DEF st
<1>12. Service!Settle(d)
  BY <1>8, <1>11 DEF Service!Settle, Status
<1> QED
  BY <1>12 DEF Serviced, Service!ServiceNext

\* Answering a set of waiting requests and emptying the queue.
LEMMA AnswerAllService ==
  ASSUME IInv, ReplyInv, NEW S, NEW code \in Terminal, fut' = Resolve(fut, S, code),
         \A b \in Boards : fifo'[b] = <<>>, AllQueued \subseteq S,
         UNCHANGED <<task, board>>
  PROVE  Status' = Service!AnswerAll(Status, {c \in S : c \in Commands /\ fut[c] = "wait"})
<1>t. fut \in [Commands -> Futures]
  BY DEF IInv, QueueInv, QueueTypes
<1>1. AllQueued' = {}
  BY DEF AllQueued, Queued
<1>2. ASSUME NEW c \in Commands
      PROVE  Status'[c] = IF c \in S /\ fut[c] = "wait" THEN "answered" ELSE Status[c]
  <2>1. CASE c \in S /\ fut[c] = "wait"
    <3>1. fut'[c] = code /\ task'[c] # "replied"
      BY <2>1, <1>t DEF Resolve, ReplyInv, Terminal
    <3> QED
      BY <2>1, <3>1, StatusOf DEF Terminal
  <2>2. CASE ~(c \in S /\ fut[c] = "wait")
    <3>1. fut'[c] = fut[c] /\ (fut[c] = "wait" => c \notin AllQueued)
      BY <2>2, <1>t DEF Resolve
    <3> QED
      BY <2>2, <3>1, <1>1, StatusOf
  <2> QED
    BY <2>1, <2>2
<1>3. Status' = [c \in Commands |-> Status'[c]]
  BY DEF Status
<1>4. Status' = [c \in Commands |->
                   IF c \in {e \in S : e \in Commands /\ fut[e] = "wait"} THEN "answered"
                   ELSE Status[c]]
  BY <1>2, <1>3
<1> QED
  BY <1>4 DEF Service!AnswerAll, Status

\* A waiting request has the status of its command, and its command only.
LEMMA WaitingStatus ==
  ASSUME ReplyInv, NEW c \in Commands
  PROVE  /\ fut[c] = "wait" <=> Status[c] \in {"queued", "flight"}
         /\ fut[c] = "wait" => (Status[c] = "queued" <=> c \in AllQueued)
<1>1. fut[c] = "wait" => task[c] # "replied"
  BY DEF ReplyInv, Terminal
<1> QED
  BY <1>1, StatusOf

\* Whoever is queued waits.
LEMMA QueuedWait ==
  ASSUME IInv
  PROVE  \A c \in AllQueued : c \in Commands /\ fut[c] = "wait"
  BY Disjoint DEF IInv, AllQueued, Queued

\* board_down of the one board answers everything that waits.
LEMMA DropService ==
  ASSUME SingleBoard, IInv, SingleInv, ReplyInv, NEW b \in Boards,
         BoardDown(b) \/ LivenessDown(b)
  PROVE  Serviced
<1> DEFINE S == {s \in Seqs : pending[s] # None /\ board[pending[s]] = b}
           R == {pending[s] : s \in S} \cup Queued(fifo[b])
           W == {c \in R : c \in Commands /\ fut[c] = "wait"}
<1>1. /\ fut' = Resolve(fut, R, "board_unavailable") /\ "board_unavailable" \in Terminal
      /\ fifo' = [fifo EXCEPT ![b] = <<>>] /\ UNCHANGED <<task, board>>
  BY DEF BoardDown, LivenessDown, Drop, Terminal
<1>2. \A x \in Boards : x = b
  BY DEF SingleBoard
<1>3. (\A x \in Boards : fifo'[x] = <<>>) /\ AllQueued = Queued(fifo[b])
  <2>1. fifo \in [Boards -> Seq(Commands)]
    BY DEF IInv, QueueInv, QueueTypes
  <2> QED
    BY <1>1, <1>2, <2>1 DEF AllQueued
<1>4. ASSUME NEW c \in Commands, fut[c] = "wait"
      PROVE  c \in R /\ board[c] = b
  <2>1. board[c] = b /\ (c \in Queued(fifo[b]) \/ pending[seq[c]] = c)
    BY <1>2, <1>4 DEF SingleInv, Track
  <2>2. seq[c] \in Seqs /\ c # None
    BY <2>1, NoneAssumption DEF IInv, QueueInv, SeqInv
  <2> QED
    BY <2>1, <2>2
<1> HIDE DEF R
<1>5. Status' = Service!AnswerAll(Status, W)
  <2>1. AllQueued \subseteq R
    BY <1>3 DEF R
  <2> QED
    BY <1>1, <1>3, <2>1, AnswerAllService
<1>6. W = Queued(fifo[b]) \cup {c \in Commands : Status[c] = "flight" /\ board[c] = b}
  <2>1. ASSUME NEW c \in W
        PROVE  c \in Queued(fifo[b]) \cup {e \in Commands : Status[e] = "flight" /\ board[e] = b}
    BY <1>3, <1>4, WaitingStatus
  <2>2. ASSUME NEW c \in Queued(fifo[b]) \cup {e \in Commands : Status[e] = "flight" /\ board[e] = b}
        PROVE  c \in W
    BY <1>3, <1>4, WaitingStatus, QueuedWait
  <2> QED
    BY <2>1, <2>2
<1>7. Service!Waiting(b) = Queued(fifo[b])
  BY DEF Service!Waiting, Queued
<1>8. Service!InFlight(b, Status) = {c \in Commands : Status[c] = "flight" /\ board[c] = b}
  BY DEF Service!InFlight
<1>9. Status' = Service!AnswerAll(Status, Service!Waiting(b) \cup Service!InFlight(b, Status))
  BY <1>5, <1>6, <1>7, <1>8
<1>10. Service!Down(b)
  BY <1>1, <1>9 DEF Service!Down, Status
<1> QED
  BY <1>10 DEF Serviced, Service!ServiceNext

\* The e-stop answers what is queued; what is in flight stays.
LEMMA TriggerService ==
  ASSUME IInv, ReplyInv, NEW b \in Boards, TriggerEstop(b)
  PROVE  Serviced
<1>1. /\ fut' = Resolve(fut, AllQueued, "estop_active") /\ "estop_active" \in Terminal
      /\ fifo' = [x \in Boards |-> <<>>] /\ UNCHANGED <<task, board>>
  BY DEF TriggerEstop, Terminal
<1>2. Status' = Service!AnswerAll(Status, {c \in AllQueued : c \in Commands /\ fut[c] = "wait"})
  <2>1. \A x \in Boards : fifo'[x] = <<>>
    BY <1>1
  <2> QED
    BY <1>1, <2>1, AnswerAllService
<1>3. {c \in AllQueued : c \in Commands /\ fut[c] = "wait"} = AllQueued
  BY QueuedWait
<1>4. UNION {Service!Waiting(x) : x \in Boards} = AllQueued
  BY DEF Service!Waiting, AllQueued, Queued
<1>5. Status' = Service!AnswerAll(Status, UNION {Service!Waiting(x) : x \in Boards})
  BY <1>2, <1>3, <1>4
<1>6. Service!Flush
  BY <1>1, <1>5 DEF Service!Flush, Status
<1> QED
  BY <1>6 DEF Serviced, Service!ServiceNext

\* The end of the drain window answers everything.
LEMMA CloseService ==
  ASSUME SingleBoard, IInv, SingleInv, ReplyInv, FailRemaining
  PROVE  Serviced
<1> DEFINE S == {s \in Seqs : pending[s] # None}
           R == {pending[s] : s \in S} \cup AllQueued
           W == {c \in R : c \in Commands /\ fut[c] = "wait"}
<1>1. /\ fut' = Resolve(fut, R, "controller_shutdown") /\ "controller_shutdown" \in Terminal
      /\ fifo' = [b \in Boards |-> <<>>] /\ UNCHANGED <<task, board>>
  BY DEF FailRemaining, Terminal
<1>2. ASSUME NEW c \in Commands, fut[c] = "wait"
      PROVE  c \in R
  <2>1. board[c] \in Boards /\ (c \in Queued(fifo[board[c]]) \/ pending[seq[c]] = c)
    BY <1>2 DEF SingleInv, Track
  <2>2. seq[c] \in Seqs /\ c # None
    BY <2>1, NoneAssumption DEF IInv, QueueInv, SeqInv
  <2>3. CASE c \in Queued(fifo[board[c]])
    BY <2>1, <2>3 DEF AllQueued
  <2> QED
    BY <2>1, <2>2, <2>3
<1>3. AllQueued \subseteq R
  OBVIOUS
<1> HIDE DEF R
<1>4. Status' = Service!AnswerAll(Status, W)
  <2>1. \A x \in Boards : fifo'[x] = <<>>
    BY <1>1
  <2> QED
    BY <1>1, <1>3, <2>1, AnswerAllService
<1>5. W = {c \in Commands : Status[c] \in {"queued", "flight"}}
  BY <1>2, WaitingStatus
<1>6. Status' = Service!AnswerAll(Status, {c \in Commands : Status[c] \in {"queued", "flight"}})
  BY <1>4, <1>5
<1>7. Service!Close
  BY <1>1, <1>6 DEF Service!Close, Status
<1> QED
  BY <1>7 DEF Serviced, Service!ServiceNext

\* Every step of the controller is a step of the service, or none.
LEMMA NextService ==
  ASSUME SingleBoard, IInv, SingleInv, ReplyInv, [Next]_vars
  PROVE  Serviced
<1>t. task \in [Commands -> TaskStates]
  BY DEF IInv, AuxTypes
<1>0. ASSUME UNCHANGED <<task, fut, board, fifo>> PROVE Serviced
  BY <1>0, QuietService
<1>1. ASSUME NEW c \in Commands, CommandStep(c)
      PROVE  Serviced
  <2>1. CASE RouteCommand(c)
    <3>1. task[c] = "idle"
      BY <2>1 DEF RouteCommand
    <3>2. ASSUME NEW b \in Boards, RouteEnqueue(c, b)
          PROVE  Serviced
      BY <3>1, <3>2, EnqueueService
    <3>3. ASSUME NEW code \in Terminal, Answered(c, code)
          PROVE  Serviced
      BY <3>1, <3>3, AnsweredService
    <3>4. ASSUME NEW b \in Boards, RouteExhausted(c, b)
          PROVE  Serviced
      <4>1. task' = [task EXCEPT ![c] = "dead"] /\ UNCHANGED <<fut, board, fifo>>
        BY <3>4 DEF RouteExhausted, queueVars
      <4> QED
        BY <3>1, <4>1, <1>t, QuietService
    <3>5. \/ \E b \in Boards : RouteEnqueue(c, b) \/ RouteExhausted(c, b)
          \/ \E code \in Terminal : Answered(c, code)
      BY <2>1 DEF RouteCommand, RouteShutdown, RouteLocal, RouteUnknown, RouteUnavailable,
           RouteRejected, RouteBusy, SchemaReject, Terminal
    <3> QED
      BY <3>2, <3>3, <3>4, <3>5
  <2>2. CASE Reply(c)
    BY <2>2, ReplyService
  <2>3. CASE Expire(c) \/ WriteCompletes(c)
    BY <2>3, <1>0 DEF Expire, WriteCompletes, cmdVars, queueVars
  <2>4. CASE WriteFails(c)
    <3>1. UNCHANGED <<fut, board, fifo>>
      BY <2>4 DEF WriteFails
    <3>2. \/ UNCHANGED task
          \/ \E x \in Commands : writing[c] = RouteTask(x) /\ task' = [task EXCEPT ![x] = "dead"]
      BY <2>4 DEF WriteFails
    <3>3. ASSUME NEW x \in Commands, writing[c] = RouteTask(x), task' = [task EXCEPT ![x] = "dead"]
          PROVE  Serviced
      <4>1. task[x] = "active"
        BY <3>3 DEF ReplyInv
      <4> QED
        BY <3>1, <3>3, <4>1, <1>t, QuietService
    <3> QED
      BY <3>1, <3>2, <3>3, <1>0
  <2>5. CASE ExecutionTimeout(c)
    <3>1. c \in sent /\ UNCHANGED <<task, board>>
      BY <2>5 DEF ExecutionTimeout, IInv, TaskInv
    <3>2. CASE UNCHANGED <<fut, handle, queueVars>>
      BY <3>1, <3>2, <1>0 DEF queueVars
    <3>3. CASE pending[seq[c]] # None /\ ~UNCHANGED <<fut, handle, queueVars>>
      <4>1. pending[seq[c]] = c
        BY <3>1, <3>3, OneCommand
      <4>2. DispatchNext(board[c], fifo[board[c]], seq, Resolve(fut, {c}, "command_timeout"),
                         [pending EXCEPT ![seq[c]] = None],
                         FreeSlot(inflight, board[c], seq[c]), TimeoutTask)
        BY <2>5, <3>3, <4>1 DEF ExecutionTimeout
      <4>3. "command_timeout" \in Terminal
        BY DEF Terminal
      <4> QED
        BY <3>1, <3>3, <4>2, <4>3, SettleService
    <3> QED
      BY <2>5, <3>2, <3>3 DEF ExecutionTimeout
  <2> QED
    BY <1>1, <2>1, <2>2, <2>3, <2>4, <2>5 DEF CommandStep
<1>2. ASSUME NEW b \in Boards, BoardStep(b)
      PROVE  Serviced
  <2>1. ASSUME NEW d \in Commands, HandleBoardResponse(b, d)
        PROVE  Serviced
    <3>1. d \in sent /\ pending[seq[d]] # None
      BY <2>1 DEF HandleBoardResponse
    <3>2. pending[seq[d]] = d
      BY <3>1, OneCommand
    <3>3. /\ DispatchNext(board[d], fifo[board[d]], seq, Resolve(fut, {d}, "board"),
                          [pending EXCEPT ![seq[d]] = None],
                          FreeSlot(inflight, board[d], seq[d]), Reader(b))
          /\ UNCHANGED <<task, board>>
      BY <2>1, <3>2 DEF HandleBoardResponse
    <3>4. "board" \in Terminal
      BY DEF Terminal
    <3> QED
      BY <3>1, <3>3, <3>4, SettleService
  <2>2. CASE BoardDown(b) \/ LivenessDown(b)
    BY <2>2, DropService
  <2>3. CASE TriggerEstop(b)
    BY <2>3, TriggerService
  <2>4. CASE ~(\/ BoardDown(b) \/ LivenessDown(b) \/ TriggerEstop(b)
               \/ \E d \in Commands : HandleBoardResponse(b, d))
    <3>1. UNCHANGED <<task, fut, board, fifo>>
      BY <1>2, <2>4 DEF BoardStep, Connect, ConnectFails, RegisterBoard, LinkLost, LinkDies,
           SendEstop, SendEstopFails, EstopAck, StopLink, cmdVars, queueVars
    <3> QED
      BY <3>1, <1>0
  <2> QED
    BY <2>1, <2>2, <2>3, <2>4
<1>3. CASE ControllerStep
  <2>1. CASE FailRemaining
    BY <2>1, CloseService
  <2>2. CASE ~FailRemaining
    <3>1. UNCHANGED <<task, fut, board, fifo>>
      BY <1>3, <2>2 DEF ControllerStep, ResetEstop, RequestStop, Shutdown, CloseWriters,
           cmdVars, queueVars
    <3> QED
      BY <3>1, <1>0
  <2> QED
    BY <2>1, <2>2
<1>4. CASE UNCHANGED vars
  BY <1>4, <1>0 DEF vars, cmdVars, queueVars
<1> QED
  BY <1>1, <1>2, <1>3, <1>4 DEF Next

\* With one board the controller implements CommandService: every request gets
\* one answer, accepted ones wait in one queue, go into flight from its head, one
\* at a time, and are settled once.
THEOREM ControllerImplementsService ==
  ASSUME SingleBoard
  PROVE  Spec => ImplementsService
<1>1. Init => ReplyInv
  BY RouteNames DEF Init, ReplyInv
<1>2. IInv /\ ReplyInv /\ [Next]_vars => ReplyInv'
  BY ReplyStep
<1>3. Spec => [](IInv /\ SingleInv /\ ReplyInv)
  BY <1>1, <1>2, SingleInvariance, PTL DEF Spec
<1>4. Init => Service!ServiceInit
  <2> SUFFICES ASSUME Init PROVE Service!ServiceInit
    OBVIOUS
  <2>1. \A c \in Commands : Progress(c) = "new"
    BY DEF Init, Progress
  <2> QED
    BY <2>1 DEF Init, Service!ServiceInit
<1>5. IInv /\ SingleInv /\ ReplyInv /\ [Next]_vars => [Service!ServiceNext]_(Service!serviceVars)
  BY NextService DEF Serviced, Service!serviceVars, Status
<1> QED
  BY <1>3, <1>4, <1>5, PTL DEF Spec, ImplementsService, Service!ServiceSpec

-----------------------------------------------------------------------------
(* The mirror *)

\* A board that is waiting for its schema is not registered; while the e-stop is
\* latched, a reachable board that was sent it and counts as safe has said so.
MirrorInv ==
  /\ \A b \in Boards : link[b] = "connected" => conn[b] \in {"CONNECTED", "DISCONNECTED"}
  /\ estopActive =>
       \A b \in Boards : b \notin estopSend /\ Available(b) /\ ack[b] => b \in acked

\* The mirror of board b is its state, or that of a board refused for its
\* protocol version before it was.
Shown(b) ==
  \/ mirror[b] = BoardRecord(b)
  \/ /\ link[b] \in {"closing", "stopped"} /\ mirror[b].conn \in {"CONNECTED", "DISCONNECTED"}
     /\ BoardRecord(b) = [mirror[b] EXCEPT !.conn = "FAULTED"]

\* What the mirror shows of the system.
SystemShown == sysMirror = SystemRecord

\* Handing over takes no part in what the controller does: every step with the
\* mirror is one of ControllerCore.
LEMMA MirrorNextNext ==
  ASSUME [MirrorNext]_mirrorVars
  PROVE  [Next]_vars
<1>1. CASE MirrorNext
  BY <1>1, Zenon DEF MirrorNext, Next, CommandStep, BoardStep, ControllerStep, RouteObserved,
       TimeoutObserved, WriteObserved, ResponseObserved, FaultObserved, ConnectFailsObserved,
       DownObserved, TriggerObserved, SendObserved, FailObserved
<1>2. CASE UNCHANGED mirrorVars
  BY <1>2 DEF mirrorVars
<1> QED
  BY <1>1, <1>2

\* Nothing but the board's own registration makes it available, and nothing but
\* its acknowledgement makes it safe.
LEMMA MirrorInvStep ==
  ASSUME IInv, MirrorInv, [Next]_vars
  PROVE  MirrorInv'
<1>t. /\ conn \in [Boards -> ConnStates] /\ link \in [Boards -> LinkStates]
      /\ writer \in [Boards -> BOOLEAN] /\ ack \in [Boards -> BOOLEAN]
      /\ estopWait \subseteq Boards
  BY DEF IInv, AuxTypes
<1>0. ASSUME UNCHANGED <<linkVars, estopVars>> PROVE MirrorInv'
  BY <1>0 DEF MirrorInv, Available, linkVars, estopVars
\* Connections only move away from being available.
<1>1. ASSUME UNCHANGED <<writer, estopVars>>,
             \A x \in Boards : /\ conn'[x] = "REGISTERED" => conn[x] = "REGISTERED"
                               /\ link'[x] = "connected" =>
                                    \/ link[x] = "connected" /\ conn'[x] = conn[x]
                                    \/ conn'[x] \in {"CONNECTED", "DISCONNECTED"}
      PROVE  MirrorInv'
  BY <1>1 DEF MirrorInv, Available, estopVars
<1>2. ASSUME NEW c \in Commands, CommandStep(c)
      PROVE  MirrorInv'
  <2>1. CASE WriteFails(c)
    <3>1. UNCHANGED <<writer, estopVars>>
      BY <2>1 DEF WriteFails
    <3>2. \/ UNCHANGED <<conn, link>>
          \/ \E b \in Boards :
               /\ conn' \in {conn, [conn EXCEPT ![b] = "FAULTED"]}
               /\ link' = [link EXCEPT ![b] = AfterReading(b)]
                  \/ link' = [link EXCEPT ![b] = IF link[b] = "up" THEN "dying" ELSE "stopped"]
      BY <2>1 DEF WriteFails
    <3>3. \A x \in Boards : /\ conn'[x] = "REGISTERED" => conn[x] = "REGISTERED"
                            /\ link'[x] = "connected" => link[x] = "connected" /\ conn'[x] = conn[x]
      BY <3>2, <1>t DEF AfterReading
    <3> QED
      BY <3>1, <3>3, <1>1
  <2>2. CASE ~WriteFails(c)
    <3>1. UNCHANGED <<linkVars, estopVars>>
      BY <1>2, <2>2 DEF CommandStep, RouteCommand, RouteShutdown, RouteLocal, RouteUnknown,
           RouteUnavailable, RouteRejected, RouteBusy, RouteExhausted, RouteEnqueue, Answered,
           Reply, Expire, WriteCompletes, ExecutionTimeout
    <3> QED
      BY <3>1, <1>0
  <2> QED
    BY <2>1, <2>2
<1>3. ASSUME NEW b \in Boards, BoardStep(b)
      PROVE  MirrorInv'
  <2>1. CASE \E d \in Commands : HandleBoardResponse(b, d)
    <3>1. UNCHANGED <<linkVars, estopVars>>
      BY <2>1 DEF HandleBoardResponse
    <3> QED
      BY <3>1, <1>0
  <2>2. CASE Connect(b) \/ ConnectFails(b) \/ LinkLost(b) \/ LinkDies(b) \/ StopLink(b)
    <3>1. UNCHANGED <<writer, estopVars>>
      BY <2>2 DEF Connect, ConnectFails, LinkLost, LinkDies, StopLink
    <3>2. \A x \in Boards : /\ conn'[x] = "REGISTERED" => conn[x] = "REGISTERED"
                            /\ link'[x] = "connected" =>
                                 \/ link[x] = "connected" /\ conn'[x] = conn[x]
                                 \/ conn'[x] \in {"CONNECTED", "DISCONNECTED"}
      BY <2>2, <1>t DEF Connect, ConnectFails, LinkLost, LinkDies, StopLink, AfterReading
    <3> QED
      BY <3>1, <3>2, <1>1
  <2>3. CASE RegisterBoard(b)
    BY <2>3, <1>t DEF RegisterBoard, MirrorInv, Available
  <2>4. CASE BoardDown(b) \/ LivenessDown(b)
    BY <2>4, <1>t DEF BoardDown, LivenessDown, Drop, MirrorInv, Available
  <2>5. CASE TriggerEstop(b)
    BY <2>5 DEF TriggerEstop, EstopTargets, linkVars, MirrorInv, Available
  <2>6. CASE SendEstop(b)
    BY <2>6, <1>t DEF SendEstop, MarkEstopSent, linkVars, MirrorInv, Available
  <2>7. CASE SendEstopFails(b)
    <3>1. /\ estopSend' = estopSend \ {b} /\ ack' = [ack EXCEPT ![b] = FALSE]
          /\ acked' = acked \ {b} /\ UNCHANGED <<estopActive, writer>>
      BY <2>7 DEF SendEstopFails, MarkEstopSent
    <3>2. \A x \in Boards : /\ conn'[x] = "REGISTERED" => conn[x] = "REGISTERED"
                            /\ link'[x] = "connected" => link[x] = "connected" /\ conn'[x] = conn[x]
      BY <2>7, <1>t DEF SendEstopFails, AfterReading
    <3> QED
      BY <3>1, <3>2, <1>t DEF MirrorInv, Available
  <2>8. CASE EstopAck(b)
    BY <2>8, <1>t DEF EstopAck, linkVars, MirrorInv, Available
  <2> QED
    BY <1>3, <2>1, <2>2, <2>3, <2>4, <2>5, <2>6, <2>7, <2>8 DEF BoardStep
<1>4. CASE ControllerStep
  BY <1>4, <1>t DEF ControllerStep, ResetEstop, RequestStop, Shutdown, FailRemaining,
       CloseWriters, linkVars, estopVars, MirrorInv, Available
<1>5. CASE UNCHANGED vars
  BY <1>5, <1>0 DEF vars
<1> QED
  BY <1>2, <1>3, <1>4, <1>5 DEF Next

\* A handler that changes the records of the boards of S only, and hands those
\* over, leaves no board behind.
LEMMA BoardsShown ==
  ASSUME NEW S, \A x \in Boards : Shown(x),
         \A x \in Boards : mirror'[x] = IF x \in S THEN BoardRecord(x)' ELSE mirror[x],
         \A x \in Boards : x \notin S =>
           /\ BoardRecord(x)' = BoardRecord(x)
           /\ link[x] \in {"closing", "stopped"} => link'[x] \in {"closing", "stopped"}
  PROVE  \A x \in Boards : Shown(x)'
<1> SUFFICES ASSUME NEW x \in Boards PROVE Shown(x)'
  OBVIOUS
<1>1. CASE x \in S
  BY <1>1 DEF Shown
<1>2. CASE x \notin S
  BY <1>2 DEF Shown
<1> QED
  BY <1>1, <1>2

\* What is in the record of a board.
LEMMA RecordSame ==
  ASSUME NEW x \in Boards, conn'[x] = conn[x], fifo'[x] = fifo[x], inflight'[x] = inflight[x],
         ack'[x] = ack[x]
  PROVE  BoardRecord(x)' = BoardRecord(x)
  BY DEF BoardRecord

\* What is in the record of the system.
LEMMA SystemSame ==
  ASSUME estopActive' = estopActive,
         \A x \in Boards : conn'[x] = "REGISTERED" <=> conn[x] = "REGISTERED"
  PROVE  SystemRecord' = SystemRecord
<1>1. {x \in Boards : conn'[x] = "REGISTERED"} = {x \in Boards : conn[x] = "REGISTERED"}
  OBVIOUS
<1> QED
  BY <1>1 DEF SystemRecord
\* The whole mirror is up to date.
AllShown == SystemShown /\ \A b \in Boards : Shown(b)

\* A handler that changes queues, slots or acknowledgements of the boards it
\* hands over, and no connection.
LEMMA OnlyBoardsShown ==
  ASSUME AllShown, NEW S, OnlyBoards(S), UNCHANGED <<conn, link, estopActive>>,
         \A x \in Boards : x \notin S =>
           fifo'[x] = fifo[x] /\ inflight'[x] = inflight[x] /\ ack'[x] = ack[x]
  PROVE  AllShown'
<1>1. SystemShown'
  <2>1. SystemRecord' = SystemRecord
    BY SystemSame
  <2> QED
    BY <2>1 DEF AllShown, SystemShown, OnlyBoards
<1>2. \A x \in Boards : mirror'[x] = IF x \in S THEN BoardRecord(x)' ELSE mirror[x]
  BY DEF OnlyBoards, ObserveBoards
<1>3. \A x \in Boards : x \notin S => BoardRecord(x)' = BoardRecord(x)
  BY DEF BoardRecord
<1>4. \A x \in Boards : Shown(x)'
  BY <1>2, <1>3, BoardsShown DEF AllShown
<1> QED
  BY <1>1, <1>4 DEF AllShown

\* A handler that hands over nothing, and leaves the records alone.
LEMMA UnobservedShown ==
  ASSUME AllShown, Unobserved, UNCHANGED <<conn, fifo, inflight, ack, estopActive>>,
         \A x \in Boards : link[x] \in {"closing", "stopped"} => link'[x] \in {"closing", "stopped"}
  PROVE  AllShown'
<1>1. SystemRecord' = SystemRecord
  BY SystemSame
<1>2. \A x \in Boards : BoardRecord(x)' = BoardRecord(x)
  BY DEF BoardRecord
<1> QED
  BY <1>1, <1>2 DEF AllShown, SystemShown, Shown, Unobserved

\* set_board_state: a handler that changes the boards it hands over in any way.
LEMMA ObserveBothShown ==
  ASSUME AllShown, NEW S, ObserveBoth(S),
         \A x \in Boards : x \notin S =>
           /\ conn'[x] = conn[x] /\ fifo'[x] = fifo[x] /\ inflight'[x] = inflight[x]
           /\ ack'[x] = ack[x] /\ link'[x] = link[x]
  PROVE  AllShown'
<1>1. SystemShown'
  BY DEF SystemShown, ObserveBoth, ObserveSystem
<1>2. \A x \in Boards : mirror'[x] = IF x \in S THEN BoardRecord(x)' ELSE mirror[x]
  BY DEF ObserveBoth, ObserveBoards
<1>3. \A x \in Boards : x \notin S => BoardRecord(x)' = BoardRecord(x)
  BY DEF BoardRecord
<1>4. \A x \in Boards : Shown(x)'
  BY <1>2, <1>3, BoardsShown DEF AllShown
<1> QED
  BY <1>1, <1>4 DEF AllShown

\* _dispatch_next for board b changes the queue and the slot of b only.
LEMMA DispatchOthers ==
  ASSUME NEW b \in Boards, NEW q, NEW sq, NEW f, NEW p, NEW fl, NEW who,
         fifo \in [Boards -> Seq(Commands)], fl \in [Boards -> Nat],
         \A x \in Boards : x # b => fl[x] = inflight[x],
         DispatchNext(b, q, sq, f, p, fl, who)
  PROVE  \A x \in Boards : x # b => fifo'[x] = fifo[x] /\ inflight'[x] = inflight[x]
<1>1. \E r : fifo' = [fifo EXCEPT ![b] = r]
  BY Zenon DEF DispatchNext
<1>2. inflight' = fl \/ \E s : inflight' = [fl EXCEPT ![b] = s]
  BY Zenon DEF DispatchNext
<1> QED
  BY <1>1, <1>2

\* Settling the entry of command d changes the queue and the slot of the board
\* of that entry only.
LEMMA SettleOthers ==
  ASSUME IInv, NEW d \in Commands, d \in sent, NEW e, e = pending[seq[d]], e # None,
         NEW code, NEW who,
         DispatchNext(board[e], fifo[board[e]], seq, Resolve(fut, {e}, code),
                      [pending EXCEPT ![seq[d]] = None], FreeSlot(inflight, board[e], seq[d]), who)
  PROVE  \A x \in Boards : x # board[e] => fifo'[x] = fifo[x] /\ inflight'[x] = inflight[x]
<1>t. fifo \in [Boards -> Seq(Commands)] /\ inflight \in [Boards -> Nat]
  BY SeqAssumption DEF IInv, QueueInv, QueueTypes, Seqs
<1>1. board[e] \in Boards /\ seq[d] \in Seqs
  BY EntryBoard
<1> DEFINE b == board[e]
           q == fifo[b]
           f == Resolve(fut, {e}, code)
           p == [pending EXCEPT ![seq[d]] = None]
           fl == FreeSlot(inflight, b, seq[d])
<1>2. fl \in [Boards -> Nat] /\ \A x \in Boards : x # b => fl[x] = inflight[x]
  BY <1>t, <1>1 DEF FreeSlot
<1>3. DispatchNext(b, q, seq, f, p, fl, who) /\ b \in Boards
  BY <1>1
<1> HIDE DEF b, q, f, p, fl
<1>4. \A x \in Boards : x # b => fifo'[x] = fifo[x] /\ inflight'[x] = inflight[x]
  BY <1>t, <1>2, <1>3, DispatchOthers
<1> QED
  BY <1>4 DEF b

\* The steps of MirrorNext, by who takes them.
CommandObserved(c) ==
  \/ RouteObserved(c) \/ TimeoutObserved(c) \/ WriteObserved(c)
  \/ (Reply(c) \/ Expire(c)) /\ Unobserved
  \/ writing[c] \notin {Reader(b) : b \in Boards} /\ WriteFails(c) /\ Unobserved

BoardObserved(b) ==
  \/ \E d \in Commands : ResponseObserved(b, d)
  \/ FaultObserved(b) \/ ConnectFailsObserved(b) \/ DownObserved(b)
  \/ TriggerObserved(b) \/ SendObserved(b)
  \/ (Connect(b) \/ RegisterBoard(b)) /\ ObserveBoth({b})
  \/ EstopAck(b) /\ OnlyBoards({b})

ControllerObserved ==
  \/ FailObserved
  \/ ResetEstop /\ ObserveBoth({})
  \/ (RequestStop \/ Shutdown \/ CloseWriters) /\ Unobserved

\* There are no others.
LEMMA MirrorSteps ==
  ASSUME MirrorNext
  PROVE  \/ \E c \in Commands : CommandObserved(c)
         \/ \E b \in Boards : BoardObserved(b)
         \/ ControllerObserved
  BY DEF MirrorNext, CommandObserved, BoardObserved, ControllerObserved

\* What the steps of requests, writes and timeouts hand over.
LEMMA CommandShown ==
  ASSUME IInv, AllShown, NEW c \in Commands, CommandObserved(c)
  PROVE  AllShown'
<1>t. /\ fifo \in [Boards -> Seq(Commands)] /\ inflight \in [Boards -> Nat]
      /\ board \in [Commands -> Boards \cup {None}]
  BY SeqAssumption DEF IInv, QueueInv, QueueTypes, Seqs
<1>1. CASE RouteObserved(c)
  <2>1. task[c] = "idle" /\ board[c] = None /\ OnlyBoards({board'[c]})
    BY <1>1 DEF RouteObserved, RouteCommand, IInv, TaskInv
  <2>2. UNCHANGED <<conn, link, estopActive, ack>>
    BY <1>1 DEF RouteObserved, RouteCommand, RouteShutdown, RouteLocal, RouteUnknown,
         RouteUnavailable, RouteRejected, RouteBusy, RouteExhausted, RouteEnqueue, Answered,
         linkVars, estopVars
  <2>3. ASSUME NEW b \in Boards, RouteEnqueue(c, b)
        PROVE  AllShown'
    <3>1. /\ board' = [board EXCEPT ![c] = b]
          /\ DispatchNext(b, Enqueue(fifo[b], c), [seq EXCEPT ![c] = nextSeq[b]],
                          [fut EXCEPT ![c] = "wait"], pending, inflight, RouteTask(c))
      BY <2>3 DEF RouteEnqueue
    <3>2. board'[c] = b
      BY <3>1, <1>t
    <3>3. \A x \in Boards : x # b => fifo'[x] = fifo[x] /\ inflight'[x] = inflight[x]
      BY <3>1, <1>t, DispatchOthers
    <3> QED
      BY <2>1, <2>2, <3>2, <3>3, OnlyBoardsShown
  <2>4. CASE ~\E b \in Boards : RouteEnqueue(c, b)
    <3>1. UNCHANGED <<fifo, inflight>>
      BY <1>1, <2>4 DEF RouteObserved, RouteCommand, RouteShutdown, RouteLocal, RouteUnknown,
           RouteUnavailable, RouteRejected, RouteBusy, RouteExhausted, Answered, queueVars
    <3> QED
      BY <2>1, <2>2, <3>1, OnlyBoardsShown
  <2> QED
    BY <2>3, <2>4
<1>2. CASE TimeoutObserved(c)
  <2> DEFINE e == pending[seq[c]]
             S == {b \in Boards : e # None /\ b = board[e]}
  <2>1. OnlyBoards(S) /\ c \in sent /\ UNCHANGED <<conn, link, estopActive, ack>>
    BY <1>2 DEF TimeoutObserved, ExecutionTimeout, IInv, TaskInv, linkVars, estopVars
  <2>2. CASE e = None
    <3>1. UNCHANGED <<fifo, inflight>>
      BY <1>2, <2>2 DEF TimeoutObserved, ExecutionTimeout, queueVars
    <3> QED
      BY <2>1, <3>1, OnlyBoardsShown
  <2>3. CASE e # None
    <3>1. DispatchNext(board[e], fifo[board[e]], seq, Resolve(fut, {e}, "command_timeout"),
                       [pending EXCEPT ![seq[c]] = None], FreeSlot(inflight, board[e], seq[c]),
                       TimeoutTask)
      BY <1>2, <2>3 DEF TimeoutObserved, ExecutionTimeout
    <3>2. \A x \in Boards : x # board[e] => fifo'[x] = fifo[x] /\ inflight'[x] = inflight[x]
      BY <2>1, <2>3, <3>1, SettleOthers
    <3>3. \A x \in Boards : x \notin S => x # board[e]
      BY <2>3
    <3> QED
      BY <2>1, <3>2, <3>3, OnlyBoardsShown
  <2> QED
    BY <2>2, <2>3
<1>3. CASE WriteObserved(c)
  <2>1. /\ OnlyBoards({b \in Boards : inflight'[b] # inflight[b]})
        /\ UNCHANGED <<conn, link, estopActive, ack, fifo>>
    BY <1>3 DEF WriteObserved, WriteCompletes, linkVars, estopVars
  <2> QED
    BY <2>1, OnlyBoardsShown
<1>4. CASE (Reply(c) \/ Expire(c)) /\ Unobserved
  <2>1. UNCHANGED <<conn, link, fifo, inflight, ack, estopActive>>
    BY <1>4 DEF Reply, Expire, linkVars, queueVars, estopVars
  <2> QED
    BY <1>4, <2>1, UnobservedShown
<1>5. CASE writing[c] \notin {Reader(b) : b \in Boards} /\ WriteFails(c) /\ Unobserved
  <2>1. UNCHANGED <<conn, link, fifo, inflight, ack, estopActive>>
    BY <1>5 DEF WriteFails, estopVars
  <2> QED
    BY <1>5, <2>1, UnobservedShown
<1> QED
  BY <1>1, <1>2, <1>3, <1>4, <1>5 DEF CommandObserved

\* What the handlers of a board's messages and of its connection hand over.
LEMMA BoardShown ==
  ASSUME IInv, ReaderInv, MirrorInv, AllShown, NEW b \in Boards, BoardObserved(b)
  PROVE  AllShown'
<1>t. /\ conn \in [Boards -> ConnStates] /\ link \in [Boards -> LinkStates]
      /\ ack \in [Boards -> BOOLEAN] /\ fifo \in [Boards -> Seq(Commands)]
      /\ inflight \in [Boards -> Nat]
  BY SeqAssumption DEF IInv, AuxTypes, QueueInv, QueueTypes, Seqs
<1>1. ASSUME NEW d \in Commands, ResponseObserved(b, d)
      PROVE  AllShown'
  <2> DEFINE e == pending[seq[d]]
  <2>1. /\ OnlyBoards({board[e]}) /\ d \in sent /\ e # None
        /\ UNCHANGED <<conn, link, estopActive, ack>>
    BY <1>1 DEF ResponseObserved, HandleBoardResponse, linkVars, estopVars
  <2>2. DispatchNext(board[e], fifo[board[e]], seq, Resolve(fut, {e}, "board"),
                     [pending EXCEPT ![seq[d]] = None], FreeSlot(inflight, board[e], seq[d]),
                     Reader(b))
    BY <1>1 DEF ResponseObserved, HandleBoardResponse
  <2>3. \A x \in Boards : x # board[e] => fifo'[x] = fifo[x] /\ inflight'[x] = inflight[x]
    BY <2>1, <2>2, SettleOthers
  <2> QED
    BY <2>1, <2>3, OnlyBoardsShown
<1>2. CASE FaultObserved(b)
  <2>1. /\ UNCHANGED <<fifo, inflight, ack, estopActive>>
        /\ conn' \in {conn, [conn EXCEPT ![b] = "FAULTED"]}
        /\ \E l : link' = [link EXCEPT ![b] = l] /\ (l \in {"closing", "stopped"}
                                                       \/ link[b] \in {"up", "reported"})
    <3>1. CASE LinkLost(b) \/ LinkDies(b) \/ StopLink(b)
      BY <3>1 DEF LinkLost, LinkDies, StopLink, queueVars, estopVars
    <3>2. ASSUME NEW d \in Commands, writing[d] = Reader(b), WriteFails(d)
          PROVE  /\ UNCHANGED <<fifo, inflight, ack, estopActive>>
                 /\ conn' \in {conn, [conn EXCEPT ![b] = "FAULTED"]}
                 /\ \E l : link' = [link EXCEPT ![b] = l]
                 /\ link[b] \in {"up", "reported"}
      <4>1. link[b] \in {"up", "reported"}
        BY <3>2 DEF ReaderInv
      <4>2. Reader(b) # TimeoutTask /\ (\A c \in Commands : Reader(b) # RouteTask(c))
            /\ \A x \in Boards : Reader(x) = Reader(b) => x = b
        BY DEF Reader, TimeoutTask, RouteTask
      <4>3. \E l : /\ conn' \in {conn, [conn EXCEPT ![b] = "FAULTED"]}
                   /\ link' = [link EXCEPT ![b] = l]
        BY <3>2, <4>2 DEF WriteFails
      <4> QED
        BY <3>2, <4>1, <4>3 DEF WriteFails, estopVars
    <3> QED
      BY <1>2, <3>1, <3>2 DEF FaultObserved
  <2>2. CASE conn'[b] = "FAULTED"
    <3>1. ObserveBoth({b})
      BY <1>2, <2>2 DEF FaultObserved
    <3> QED
      BY <2>1, <3>1, <1>t, ObserveBothShown
  <2>3. CASE conn'[b] # "FAULTED"
    <3>1. Unobserved /\ conn' = conn
      BY <1>2, <2>1, <2>3, <1>t DEF FaultObserved
    <3>2. \A x \in Boards : link[x] \in {"closing", "stopped"} => link'[x] \in {"closing", "stopped"}
      BY <2>1, <1>t
    <3> QED
      BY <2>1, <3>1, <3>2, UnobservedShown
  <2> QED
    BY <2>2, <2>3
<1>3. CASE ConnectFailsObserved(b)
  <2>1. /\ conn' = [conn EXCEPT ![b] = "FAULTED"] /\ link' = [link EXCEPT ![b] = "closing"]
        /\ UNCHANGED <<fifo, inflight, ack, estopActive>>
    BY <1>3 DEF ConnectFailsObserved, ConnectFails, queueVars, estopVars
  <2>2. CASE ObserveBoth({b})
    BY <2>1, <2>2, <1>t, ObserveBothShown
  <2>3. CASE link[b] = "connected" /\ Unobserved
    <3>1. conn[b] \in {"CONNECTED", "DISCONNECTED"}
      BY <2>3 DEF MirrorInv
    <3>2. SystemRecord' = SystemRecord
      BY <2>1, <3>1, <1>t, SystemSame
    <3>3. mirror[b] = BoardRecord(b)
      BY <2>3 DEF AllShown, Shown
    <3>4. BoardRecord(b)' = [BoardRecord(b) EXCEPT !.conn = "FAULTED"]
      <4>1. /\ conn'[b] = "FAULTED" /\ fifo'[b] = fifo[b] /\ inflight'[b] = inflight[b]
            /\ ack'[b] = ack[b]
        BY <2>1, <1>t
      <4>2. BoardRecord(b)' = [conn |-> "FAULTED", depth |-> Len(fifo[b]),
                               inflight |-> inflight[b], ack |-> ack[b]]
        BY <4>1 DEF BoardRecord
      <4> QED
        BY <4>2 DEF BoardRecord
    <3>5. /\ mirror' = mirror /\ link'[b] = "closing"
          /\ BoardRecord(b).conn \in {"CONNECTED", "DISCONNECTED"}
      BY <2>1, <2>3, <3>1, <1>t DEF Unobserved, BoardRecord
    <3>6. Shown(b)'
      BY <3>3, <3>4, <3>5 DEF Shown
    <3>7. ASSUME NEW x \in Boards, x # b
          PROVE  Shown(x)'
      <4>1. BoardRecord(x)' = BoardRecord(x) /\ link'[x] = link[x]
        BY <2>1, <3>7, <1>t DEF BoardRecord
      <4> QED
        BY <3>5, <4>1 DEF Shown, AllShown
    <3> QED
      BY <2>3, <3>2, <3>6, <3>7 DEF AllShown, SystemShown, Unobserved
  <2> QED
    BY <1>3, <2>2, <2>3 DEF ConnectFailsObserved
<1>4. CASE DownObserved(b)
  <2>1. \A x \in Boards : x # b =>
          /\ conn'[x] = conn[x] /\ fifo'[x] = fifo[x] /\ inflight'[x] = inflight[x]
          /\ ack'[x] = ack[x] /\ link'[x] = link[x]
    BY <1>4, <1>t DEF DownObserved, BoardDown, LivenessDown, Drop
  <2> QED
    BY <1>4, <2>1, ObserveBothShown DEF DownObserved
<1>5. CASE TriggerObserved(b)
  BY <1>5, ObserveBothShown DEF TriggerObserved
<1>6. CASE SendObserved(b)
  <2>1. CASE SendEstop(b) /\ OnlyBoards({b})
    <3>1. UNCHANGED <<conn, link, estopActive, fifo, inflight>>
      BY <2>1 DEF SendEstop, linkVars, queueVars
    <3>2. \A x \in Boards : x # b => ack'[x] = ack[x]
      BY <2>1, <1>t DEF SendEstop, MarkEstopSent
    <3> QED
      BY <2>1, <3>1, <3>2, OnlyBoardsShown
  <2>2. CASE SendEstopFails(b) /\ ObserveBoth({b} \cup {o \in Boards : link'[o] # link[o]})
    <3>1. UNCHANGED <<fifo, inflight>>
      BY <2>2 DEF SendEstopFails, queueVars
    <3>2. \A x \in Boards : x # b => ack'[x] = ack[x]
      BY <2>2, <1>t DEF SendEstopFails, MarkEstopSent
    <3>3. \/ UNCHANGED <<conn, link>>
          \/ \E o \in estopWait : /\ conn' = [conn EXCEPT ![o] = "FAULTED"]
                                  /\ link' = [link EXCEPT ![o] = AfterReading(o)]
      BY <2>2 DEF SendEstopFails
    <3>4. \A o \in estopWait : o \in Boards /\ AfterReading(o) # link[o]
      BY DEF ReaderInv, AfterReading, IInv, AuxTypes
    <3>5. \A x \in Boards : link'[x] = link[x] => conn'[x] = conn[x]
      BY <3>3, <3>4, <1>t
    <3> QED
      BY <2>2, <3>1, <3>2, <3>5, ObserveBothShown
  <2> QED
    BY <1>6, <2>1, <2>2 DEF SendObserved
<1>7. CASE (Connect(b) \/ RegisterBoard(b)) /\ ObserveBoth({b})
  <2>1. \A x \in Boards : x # b =>
          /\ conn'[x] = conn[x] /\ fifo'[x] = fifo[x] /\ inflight'[x] = inflight[x]
          /\ ack'[x] = ack[x] /\ link'[x] = link[x]
    BY <1>7, <1>t DEF Connect, RegisterBoard, queueVars, estopVars
  <2> QED
    BY <1>7, <2>1, ObserveBothShown
<1>8. CASE EstopAck(b) /\ OnlyBoards({b})
  <2>1. /\ UNCHANGED <<conn, link, estopActive, fifo, inflight>>
        /\ \A x \in Boards : x # b => ack'[x] = ack[x]
    BY <1>8, <1>t DEF EstopAck, linkVars, queueVars
  <2> QED
    BY <1>8, <2>1, OnlyBoardsShown
<1> QED
  BY <1>1, <1>2, <1>3, <1>4, <1>5, <1>6, <1>7, <1>8 DEF BoardObserved

\* What the steps of the whole controller hand over.
LEMMA ControllerShown ==
  ASSUME IInv, AllShown, ControllerObserved
  PROVE  AllShown'
<1>1. CASE FailObserved
  BY <1>1, ObserveBothShown DEF FailObserved
<1>2. CASE ResetEstop /\ ObserveBoth({})
  <2>1. UNCHANGED <<conn, link, fifo, inflight, ack>>
    BY <1>2 DEF ResetEstop, linkVars, queueVars
  <2> QED
    BY <1>2, <2>1, ObserveBothShown
<1>3. CASE (RequestStop \/ Shutdown \/ CloseWriters) /\ Unobserved
  <2>1. UNCHANGED <<conn, link, fifo, inflight, ack, estopActive>>
    BY <1>3 DEF RequestStop, Shutdown, CloseWriters, linkVars, queueVars, estopVars
  <2> QED
    BY <1>3, <2>1, UnobservedShown
<1> QED
  BY <1>1, <1>2, <1>3 DEF ControllerObserved

\* The mirrored controller is the controller: handing the snapshots over makes
\* it neither do nor skip anything, so what is proved of ControllerCore holds.
THEOREM MirrorImplementsCore == MirrorSpec => Spec
<1>1. MirrorInit => Init
  BY DEF MirrorInit
<1>2. [MirrorNext]_mirrorVars => [Next]_vars
  BY MirrorNextNext
<1> QED
  BY <1>1, <1>2, PTL DEF MirrorSpec, Spec

\* Whatever handlers run in which order, for any number of boards and failures,
\* the snapshots last handed over are the state between two steps, up to a board
\* refused for its protocol version, and show no reachable board as safe in an
\* e-stop it has not acknowledged.
THEOREM MirrorAlwaysFresh == MirrorSpec => []MirrorFresh
<1>1. MirrorInit => MirrorInv /\ AllShown
  BY DEF MirrorInit, Init, MirrorInv, AllShown, SystemShown, Shown
<1>2. IInv /\ BoardsInv /\ MirrorInv /\ AllShown /\ [MirrorNext]_mirrorVars
        => MirrorInv' /\ AllShown'
  <2> SUFFICES ASSUME IInv, BoardsInv, MirrorInv, AllShown, [MirrorNext]_mirrorVars
               PROVE  AllShown'
    BY MirrorNextNext, MirrorInvStep
  <2>1. CASE MirrorNext
    <3>1. ReaderInv
      BY DEF BoardsInv
    <3> QED
      BY <2>1, <3>1, MirrorSteps, CommandShown, BoardShown, ControllerShown
  <2>2. CASE UNCHANGED mirrorVars
    <3>1. Unobserved
      BY <2>2 DEF mirrorVars, Unobserved
    <3>2. UNCHANGED <<conn, link, fifo, inflight, ack, estopActive>>
      BY <2>2 DEF mirrorVars, vars, linkVars, queueVars, estopVars
    <3> QED
      BY <3>1, <3>2, UnobservedShown
  <2> QED
    BY <2>1, <2>2
<1>3. MirrorInv /\ AllShown => MirrorFresh
  <2> SUFFICES ASSUME MirrorInv, AllShown PROVE MirrorFresh
    OBVIOUS
  <2>1. ASSUME NEW b \in Boards, estopActive, estopSend = {}, mirror[b].conn = "REGISTERED",
               writer[b], mirror[b].ack
        PROVE  b \in acked
    <3>1. mirror[b] = BoardRecord(b)
      BY <2>1 DEF AllShown, Shown
    <3>2. conn[b] = "REGISTERED" /\ ack[b]
      BY <2>1, <3>1 DEF BoardRecord
    <3> QED
      BY <2>1, <3>2 DEF MirrorInv, Available
  <2> QED
    BY <2>1 DEF MirrorFresh, AllShown, SystemShown, Shown
<1>4. MirrorSpec => [](IInv /\ BoardsInv)
  BY MirrorImplementsCore, BoardsInvariance, PTL
<1> QED
  BY <1>1, <1>2, <1>3, <1>4, PTL DEF MirrorSpec


=============================================================================
