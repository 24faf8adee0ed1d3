--------------------------- MODULE CommandService ---------------------------
(***************************************************************************)
(* What the controller promises its clients, without board_seqs, futures,  *)
(* writers, timers or tasks: every request gets one answer; the commands a *)
(* board accepts wait in one queue, go into flight from its head, and at   *)
(* most one of them is in flight.  A head that has waited too long is      *)
(* answered instead.                                                       *)
(***************************************************************************)
EXTENDS Naturals, Sequences

CONSTANTS Boards, Commands, None

VARIABLES
  status,  \* how far each request has come
  board,   \* the board that accepted it
  queue    \* the requests that wait for a board, the oldest first

serviceVars == <<status, board, queue>>

ServiceInit ==
  /\ status = [c \in Commands |-> "new"]
  /\ board = [c \in Commands |-> None]
  /\ queue = [b \in Boards |-> <<>>]

Waiting(b) == {queue[b][i] : i \in 1 .. Len(queue[b])}

InFlight(b, st) == {c \in Commands : st[c] = "flight" /\ board[c] = b}

AnswerAll(st, S) == [c \in Commands |-> IF c \in S THEN "answered" ELSE st[c]]

\* The queue q of board b is served: heads that are too old are answered, and
\* the next one goes into flight if none is.
Serve(b, q, st) ==
  \/ queue' = [queue EXCEPT ![b] = q] /\ status' = st
  \/ /\ InFlight(b, st) = {}
     /\ \E n \in 0 .. Len(q) :
          LET old == AnswerAll(st, {q[i] : i \in 1 .. n})
          IN  \/ /\ n = Len(q)
                 /\ queue' = [queue EXCEPT ![b] = <<>>] /\ status' = old
              \/ /\ n < Len(q)
                 /\ queue' = [queue EXCEPT ![b] = SubSeq(q, n + 2, Len(q))]
                 /\ status' = [old EXCEPT ![q[n + 1]] = "flight"]

\* A request that no board accepts.
Refuse(c) ==
  /\ status[c] = "new"
  /\ status' = [status EXCEPT ![c] = "answered"]
  /\ UNCHANGED <<board, queue>>

Accept(c, b) ==
  /\ status[c] = "new"
  /\ board' = [board EXCEPT ![c] = b]
  /\ Serve(b, Append(queue[b], c), [status EXCEPT ![c] = "queued"])

\* The board answers, or the command times out.
Settle(c) ==
  /\ status[c] = "flight"
  /\ Serve(board[c], queue[board[c]], [status EXCEPT ![c] = "answered"])
  /\ UNCHANGED board

\* A board goes down: everything it accepted is answered.
Down(b) ==
  /\ status' = AnswerAll(status, Waiting(b) \cup InFlight(b, status))
  /\ queue' = [queue EXCEPT ![b] = <<>>]
  /\ UNCHANGED board

\* An e-stop: everything that waits is answered, what is in flight goes on.
Flush ==
  /\ status' = AnswerAll(status, UNION {Waiting(b) : b \in Boards})
  /\ queue' = [b \in Boards |-> <<>>]
  /\ UNCHANGED board

\* The end of the drain window: everything that was accepted is answered.
Close ==
  /\ status' = AnswerAll(status, {c \in Commands : status[c] \in {"queued", "flight"}})
  /\ queue' = [b \in Boards |-> <<>>]
  /\ UNCHANGED board

Deliver(c) ==
  /\ status[c] = "answered"
  /\ status' = [status EXCEPT ![c] = "replied"]
  /\ UNCHANGED <<board, queue>>

ServiceNext ==
  \/ \E c \in Commands : Refuse(c) \/ Settle(c) \/ Deliver(c) \/ \E b \in Boards : Accept(c, b)
  \/ \E b \in Boards : Down(b)
  \/ Flush \/ Close

ServiceSpec == ServiceInit /\ [][ServiceNext]_serviceVars
=============================================================================
