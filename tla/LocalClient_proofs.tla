------------------------- MODULE LocalClient_proofs -------------------------
(***************************************************************************)
(* What a local client is sent, proved for any size of its outbound queue  *)
(* and any number of messages.                                             *)
(***************************************************************************)
EXTENDS LocalClient, SequenceTheorems, WellFoundedInduction, TLAPS

-----------------------------------------------------------------------------
(* The inductive invariant *)

\* Only messages that were offered are written, queued, critical or dropped.
Offered ==
  /\ \A i \in 1 .. Len(written) : written[i] < nextMsg
  /\ \A i \in 1 .. Len(queue) : queue[i] < nextMsg
  /\ \A m \in critical : m < nextMsg
  /\ dropped < nextMsg

\* A connected client has a writer_loop, no sentinel in its queue, and no task
\* that closes it.
Open ==
  connected => /\ Running
               /\ \A i \in 1 .. Len(queue) : queue[i] # Sentinel
               /\ closer["handler"] = "idle" /\ closer["sender"] = "idle"
               /\ closer["stop"] \in {"idle", "waiting"}

IInv == DeliverySound /\ Offered /\ Open

-----------------------------------------------------------------------------
(* Queues and sets *)

Entries == {Sentinel} \cup Msgs

\* A set of positions that is not empty has a least one, which
\* _evict_oldest_noncritical takes.
LEMMA MinIsMember ==
  ASSUME NEW S \in SUBSET Nat, S # {}
  PROVE  Min(S) \in S
<1>1. PICK x \in S : \A y \in S : ~(<<y, x>> \in OpToRel(<, Nat))
  BY NatLessThanWellFounded, WFMin, Zenon
<1>2. ASSUME NEW y \in S
      PROVE  x <= y
  <2>1. x \in Nat /\ y \in Nat /\ ~(<<y, x>> \in OpToRel(<, Nat))
    BY <1>1
  <2>2. y < x => <<y, x>> \in OpToRel(<, Nat)
    BY <2>1, Zenon DEF OpToRel
  <2>3. ~(y < x)
    BY <2>1, <2>2, Zenon
  <2>4. x \in Nat /\ y \in Nat
    OBVIOUS
  <2> QED
    BY <2>3, <2>4
<1> QED
  BY <1>2 DEF Min

\* What is left of a queue without one of its entries.
LEMMA RemovedEntry ==
  ASSUME NEW q \in Seq(Entries), NEW i \in 1 .. Len(q)
  PROVE  /\ RemoveAt(q, i) \in Seq(Entries)
         /\ Len(RemoveAt(q, i)) = Len(q) - 1
         /\ \A j \in 1 .. (Len(q) - 1) :
              RemoveAt(q, i)[j] = IF j < i THEN q[j] ELSE q[j + 1]
<1> DEFINE a == SubSeq(q, 1, i - 1)
           b == SubSeq(q, i + 1, Len(q))
<1>1. a \in Seq(Entries) /\ Len(a) = i - 1 /\ \A j \in 1 .. (i - 1) : a[j] = q[j]
  OBVIOUS
<1>2. /\ b \in Seq(Entries) /\ Len(b) = Len(q) - i
      /\ \A j \in 1 .. (Len(q) - i) : b[j] = q[j + i]
  OBVIOUS
<1>3. RemoveAt(q, i) = a \o b
  BY DEF RemoveAt
<1> HIDE DEF a, b
<1>4. a \o b \in Seq(Entries) /\ Len(a \o b) = Len(q) - 1
  <2>1. a \o b \in Seq(Entries) /\ Len(a \o b) = Len(a) + Len(b)
    BY <1>1, <1>2, Zenon, ConcatProperties
  <2> QED
    BY <2>1, <1>1, <1>2
<1>5. ASSUME NEW j \in 1 .. (Len(q) - 1)
      PROVE  (a \o b)[j] = IF j < i THEN q[j] ELSE q[j + 1]
  <2>1. (a \o b)[j] = IF j <= Len(a) THEN a[j] ELSE b[j - Len(a)]
    BY <1>1, <1>2
  <2>2. CASE j < i
    BY <2>1, <2>2, <1>1
  <2>3. CASE ~(j < i)
    <3>1. j - Len(a) \in 1 .. (Len(q) - i) /\ (j - Len(a)) + i = j + 1
      BY <2>3, <1>1
    <3> QED
      BY <2>1, <2>3, <3>1, <1>1, <1>2
  <2> QED
    BY <2>2, <2>3
<1> QED
  BY <1>3, <1>4, <1>5

-----------------------------------------------------------------------------
(* Changes of the queue *)

\* The queue loses its first d entries, d being 0 or 1, and may gain a sentinel.
Shifts(d) ==
  /\ queue' \in Seq(Entries)
  /\ Len(queue') <= MaxSize /\ Len(queue') >= Len(queue) - d
  /\ Len(queue) >= d
  /\ \A i \in 1 .. Len(queue') :
       queue'[i] = IF i <= Len(queue) - d THEN queue[i + d] ELSE Sentinel

\* The steps of writer_loop take the head.
LEMMA TailShifts ==
  ASSUME TypeOK, queue # <<>>, queue' = Tail(queue)
  PROVE  Shifts(1) /\ Head(queue) = queue[1] /\ Len(queue) >= 1 /\ Len(queue') = Len(queue) - 1
<1>1. queue \in Seq(Entries) /\ Len(queue) \in Nat /\ Len(queue) <= MaxSize /\ MaxSize \in Nat
  BY SizeAssumption DEF TypeOK, Entries
<1>2. /\ Tail(queue) \in Seq(Entries) /\ Len(Tail(queue)) = Len(queue) - 1 /\ Len(queue) >= 1
      /\ Head(queue) = queue[1]
      /\ \A i \in 1 .. (Len(queue) - 1) : Tail(queue)[i] = queue[i + 1]
  BY <1>1
<1> QED
  BY <1>1, <1>2 DEF Shifts

\* _put_sentinel drops the head of a full queue.
LEMMA SentinelShifts ==
  ASSUME TypeOK, queue' = PutSentinel(queue)
  PROVE  Shifts(0) \/ Shifts(1)
<1>1. queue \in Seq(Entries) /\ Len(queue) \in Nat /\ Len(queue) <= MaxSize /\ MaxSize \in Nat
  BY SizeAssumption DEF TypeOK, Entries
<1>s. Sentinel \in Entries
  BY DEF Entries
<1>2. CASE Full
  <2>1. Len(queue) >= 1
    BY <1>2, <1>1, SizeAssumption DEF Full
  <2>2. /\ Tail(queue) \in Seq(Entries) /\ Len(Tail(queue)) = Len(queue) - 1
        /\ \A i \in 1 .. (Len(queue) - 1) : Tail(queue)[i] = queue[i + 1]
    BY <1>1, <2>1
  <2>3. queue' = Append(Tail(queue), Sentinel)
    BY <1>2 DEF PutSentinel
  <2>4. /\ queue' \in Seq(Entries) /\ Len(queue') = Len(queue)
        /\ \A i \in 1 .. Len(queue) :
             queue'[i] = IF i <= Len(queue) - 1 THEN Tail(queue)[i] ELSE Sentinel
    BY <2>1, <2>2, <2>3, <1>1, <1>s
  <2>5. Shifts(1)
    BY <2>1, <2>2, <2>4, <1>1 DEF Shifts
  <2> QED
    BY <2>5
<1>3. CASE ~Full
  <2>1. Len(queue) < MaxSize
    BY <1>3, <1>1 DEF Full
  <2>2. queue' = Append(queue, Sentinel)
    BY <1>3 DEF PutSentinel
  <2>3. /\ queue' \in Seq(Entries) /\ Len(queue') = Len(queue) + 1
        /\ \A i \in 1 .. (Len(queue) + 1) :
             queue'[i] = IF i <= Len(queue) THEN queue[i] ELSE Sentinel
    BY <2>2, <1>1, <1>s
  <2>4. Shifts(0)
    BY <2>1, <2>3, <1>1 DEF Shifts
  <2> QED
    BY <2>4
<1> QED
  BY <1>2, <1>3

\* A shift keeps the order of the messages that stay, and brings none before a
\* message that was written.
LEMMA ShiftKeepsOrder ==
  ASSUME TypeOK, InOrder, Offered, NEW d \in {0, 1}, Shifts(d),
         UNCHANGED <<critical, nextMsg, dropped, written>>
  PROVE  InOrder' /\ Offered'
<1>1. Len(queue) \in Nat /\ Len(queue') \in Nat /\ nextMsg \in Nat /\ nextMsg >= 1 /\ Sentinel = 0
  BY MsgsAssumption DEF TypeOK, Shifts, Sentinel
<1>2. ASSUME NEW i \in 1 .. Len(queue'), queue'[i] # Sentinel
      PROVE  i + d \in 1 .. Len(queue) /\ queue'[i] = queue[i + d]
  BY <1>1, <1>2 DEF Shifts
<1>3. InOrder'
  <2>1. ASSUME NEW i \in 1 .. Len(queue'), NEW j \in 1 .. Len(queue'), queue'[i] # Sentinel,
               queue'[j] # Sentinel, i < j
        PROVE  queue'[i] < queue'[j]
    <3>1. /\ i + d \in 1 .. Len(queue) /\ queue'[i] = queue[i + d]
          /\ j + d \in 1 .. Len(queue) /\ queue'[j] = queue[j + d]
      BY <2>1, <1>2
    <3>2. i + d < j + d
      BY <2>1
    <3>3. \A x, y \in 1 .. Len(queue) :
            queue[x] # Sentinel /\ queue[y] # Sentinel /\ x < y => queue[x] < queue[y]
      BY DEF InOrder
    <3> QED
      BY <2>1, <3>1, <3>2, <3>3
  <2>2. ASSUME NEW i \in 1 .. Len(written), NEW j \in 1 .. Len(queue'), queue'[j] # Sentinel
        PROVE  written[i] < queue'[j]
    BY <2>2, <1>1, <1>2 DEF InOrder
  <2>3. \A i, j \in 1 .. Len(written) : i < j => written[i] < written[j]
    BY DEF InOrder
  <2> QED
    BY <2>1, <2>2, <2>3 DEF InOrder
<1>4. Offered'
  <2>1. ASSUME NEW i \in 1 .. Len(queue')
        PROVE  queue'[i] < nextMsg
    <3>1. CASE queue'[i] = Sentinel
      BY <3>1, <1>1
    <3>2. CASE queue'[i] # Sentinel
      BY <3>2, <1>2 DEF Offered
    <3> QED
      BY <3>1, <3>2
  <2> QED
    BY <2>1 DEF Offered
<1> QED
  BY <1>3, <1>4

-----------------------------------------------------------------------------
(* The steps keep the invariant *)

\* A step that touches neither the queue nor what is offered or written, and
\* starts no close and no writer, keeps it.
LEMMA QuietStep ==
  ASSUME IInv, UNCHANGED <<queue, critical, nextMsg, dropped, written>>,
         connected' \in BOOLEAN, transport' \in {"open", "closing", "closed"},
         unsent' \in BOOLEAN, closer' \in [Closers -> CloserStates],
         wtask' \in WriterStates,
         connected' => /\ connected /\ Running'
                       /\ closer'["handler"] = "idle" /\ closer'["sender"] = "idle"
                       /\ closer'["stop"] \in {"idle", "waiting"}
  PROVE  IInv'
<1>1. DeliverySound'
  BY DEF IInv, DeliverySound, TypeOK, InOrder, CriticalKept, DropsCounted
<1>2. Offered' /\ Open'
  BY DEF IInv, Offered, Open
<1> QED
  BY <1>1, <1>2 DEF IInv

\* _send puts its message behind what it leaves in the queue.
LEMMA AcceptStep ==
  ASSUME IInv, IsConnected, nextMsg <= MaxMsgs, NEW crit \in BOOLEAN,
         NEW q \in Seq(Entries), Len(q) < MaxSize,
         \A i \in 1 .. Len(q) : q[i] # Sentinel /\ q[i] < nextMsg,
         \A i, j \in 1 .. Len(q) : i < j => q[i] < q[j],
         \A i \in 1 .. Len(written) : \A j \in 1 .. Len(q) : written[i] < q[j],
         critical \subseteq ToSet(written) \cup ToSet(q),
         dropped' \in {dropped, dropped + 1},
         nextMsg = Len(written) + Len(q) + 1 + dropped',
         Accept(q, crit), nextMsg' = nextMsg + 1,
         UNCHANGED <<connected, transport, closer, unsent, wtask, written>>
  PROVE  IInv'
<1> USE MsgsAssumption, SizeAssumption
<1>1. /\ nextMsg \in Msgs /\ nextMsg \in Nat /\ nextMsg # Sentinel /\ nextMsg \in Entries
      /\ Len(q) \in Nat /\ MaxSize \in Nat /\ dropped \in 0 .. MaxMsgs
      /\ written \in Seq(Msgs) /\ Len(written) \in Nat
  BY DEF IInv, DeliverySound, TypeOK, Msgs, Sentinel, Entries
<1>2. /\ queue' = Append(q, nextMsg) /\ queue' \in Seq(Entries)
      /\ Len(queue') = Len(q) + 1
      /\ \A i \in 1 .. (Len(q) + 1) : queue'[i] = IF i <= Len(q) THEN q[i] ELSE nextMsg
  BY <1>1 DEF Accept
<1>3. critical' \subseteq Msgs /\ critical' \subseteq critical \cup {nextMsg}
  BY <1>1 DEF Accept, IInv, DeliverySound, TypeOK
<1>4. Offered'
  <2>1. ASSUME NEW i \in 1 .. Len(queue')
        PROVE  queue'[i] < nextMsg'
    <3>1. i \in 1 .. (Len(q) + 1)
      BY <1>2
    <3>2. CASE i \in 1 .. Len(q)
      <4>1. queue'[i] = q[i] /\ q[i] < nextMsg /\ q[i] \in Entries
        BY <3>1, <3>2, <1>1, <1>2
      <4>2. q[i] \in Nat
        BY <4>1 DEF Entries, Msgs, Sentinel
      <4> QED
        BY <4>1, <4>2, <1>1
    <3>3. CASE i \notin 1 .. Len(q)
      BY <3>1, <3>3, <1>1, <1>2
    <3> QED
      BY <3>2, <3>3
  <2>2. ASSUME NEW i \in 1 .. Len(written)
        PROVE  written[i] < nextMsg'
    <3>1. written[i] \in Nat /\ written[i] < nextMsg
      BY SMTT(60), <1>1 DEF IInv, Offered, Msgs
    <3> QED
      BY <1>1, <3>1
  <2>3. ASSUME NEW m \in critical'
        PROVE  m < nextMsg'
    <3>1. m \in Nat /\ m \in Msgs
      BY <1>3 DEF Msgs
    <3>2. CASE m = nextMsg
      BY <3>1, <3>2
    <3>3. CASE m # nextMsg
      <4>1. m < nextMsg
        BY <1>3, <3>3 DEF IInv, Offered
      <4> QED
        BY <1>1, <3>1, <4>1
    <3> QED
      BY <3>2, <3>3
  <2>4. dropped' < nextMsg'
    <3>1. dropped < nextMsg
      BY DEF IInv, Offered
    <3> QED
      BY <3>1, <1>1
  <2> QED
    BY <2>1, <2>2, <2>3, <2>4 DEF Offered
<1>5. TypeOK'
  <2>1. Len(queue') <= MaxSize /\ nextMsg' \in 1 .. MaxMsgs + 1
    BY <1>1, <1>2 DEF Msgs
  <2>2. dropped' \in 0 .. MaxMsgs
    <3>1. dropped' \in Nat /\ dropped' <= nextMsg
      BY <1>1
    <3> QED
      BY <3>1, <1>1
  <2>3. queue' \in Seq({Sentinel} \cup Msgs)
    BY <1>2 DEF Entries
  <2> QED
    BY <2>1, <2>2, <2>3, <1>3 DEF IInv, DeliverySound, TypeOK
<1>6. \A i \in 1 .. Len(queue') : queue'[i] # Sentinel
  BY <1>1, <1>2
<1>7. InOrder'
  <2>1. ASSUME NEW i \in 1 .. Len(queue'), NEW j \in 1 .. Len(queue'), i < j
        PROVE  queue'[i] < queue'[j]
    <3>1. i \in 1 .. Len(q) /\ queue'[i] = q[i]
      BY <2>1, <1>1, <1>2
    <3>2. CASE j \in 1 .. Len(q)
      <4>1. queue'[j] = q[j]
        BY <3>2, <1>1, <1>2
      <4> QED
        BY <2>1, <3>1, <3>2, <4>1
    <3>3. CASE j \notin 1 .. Len(q)
      <4>1. queue'[j] = nextMsg
        BY SMTT(60), <3>3, <1>1, <1>2
      <4> QED
        BY <3>1, <4>1
    <3> QED
      BY <3>2, <3>3
  <2>2. ASSUME NEW i \in 1 .. Len(written), NEW j \in 1 .. Len(queue')
        PROVE  written[i] < queue'[j]
    <3>1. CASE j \in 1 .. Len(q)
      BY <3>1, <1>1, <1>2
    <3>2. CASE j \notin 1 .. Len(q)
      <4>1. queue'[j] = nextMsg
        BY SMTT(60), <3>2, <1>1, <1>2
      <4> QED
        BY <4>1 DEF IInv, Offered
    <3> QED
      BY <3>1, <3>2
  <2>3. \A i, j \in 1 .. Len(written) : i < j => written[i] < written[j]
    BY DEF InOrder, IInv, DeliverySound
  <2> QED
    BY <2>1, <2>2, <2>3 DEF InOrder
<1>8. critical' \subseteq ToSet(written') \cup ToSet(queue')
  <2>1. /\ DOMAIN queue' = 1 .. (Len(q) + 1) /\ DOMAIN q = 1 .. Len(q)
    BY <1>1, <1>2
  <2>2. nextMsg \in ToSet(queue')
    <3>1. (Len(q) + 1) \in DOMAIN queue' /\ queue'[Len(q) + 1] = nextMsg
      BY <1>1, <1>2, <2>1
    <3> QED
      BY <3>1 DEF ToSet
  <2>3. ToSet(q) \subseteq ToSet(queue')
    <3>1. \A i \in DOMAIN q : i \in DOMAIN queue' /\ queue'[i] = q[i]
      BY <1>1, <1>2, <2>1
    <3> QED
      BY <3>1 DEF ToSet
  <2> QED
    BY <2>2, <2>3, <1>3
<1>9. DropsCounted'
  BY <1>1, <1>2 DEF DropsCounted
<1>10. Open'
  BY <1>6 DEF IInv, Open, IsConnected, Running
<1> QED
  BY <1>4, <1>5, <1>7, <1>8, <1>9, <1>10 DEF IInv, DeliverySound, CriticalKept

\* A message that is offered and not accepted changes no queue.
LEMMA RefuseStep ==
  ASSUME IInv, nextMsg <= MaxMsgs, nextMsg' = nextMsg + 1,
         UNCHANGED <<queue, critical, written, wtask, unsent>>,
         IsConnected,
         \/ dropped' = dropped + 1 /\ UNCHANGED <<connected, transport, closer>>
         \/ /\ dropped' = dropped /\ connected' = FALSE
            /\ transport' \in {"open", "closing", "closed"}
            /\ closer' \in [Closers -> CloserStates]
  PROVE  IInv'
<1> USE MsgsAssumption
<1>1. nextMsg \in Nat /\ nextMsg >= 1 /\ dropped \in Nat /\ dropped < nextMsg /\ connected
  BY DEF IInv, DeliverySound, TypeOK, Offered, IsConnected
<1>2. dropped' \in 0 .. MaxMsgs /\ dropped' < nextMsg' /\ nextMsg' \in 1 .. MaxMsgs + 1
  <2>1. dropped' \in {dropped, dropped + 1}
    OBVIOUS
  <2> QED
    BY <2>1, <1>1
<1>3. TypeOK'
  BY <1>2 DEF IInv, DeliverySound, TypeOK
<1>4. InOrder' /\ CriticalKept'
  BY <1>1 DEF IInv, DeliverySound, InOrder, CriticalKept
<1>5. DropsCounted'
  <2>1. CASE connected' = FALSE
    BY <2>1 DEF DropsCounted
  <2>2. CASE dropped' = dropped + 1
    <3>1. nextMsg - 1 = Len(written) + Len(queue) + dropped
      BY <1>1 DEF IInv, DeliverySound, DropsCounted
    <3>2. Len(written) \in Nat /\ Len(queue) \in Nat
      BY DEF IInv, DeliverySound, TypeOK
    <3> QED
      BY <1>1, <2>2, <3>1, <3>2 DEF DropsCounted
  <2> QED
    BY <2>1, <2>2
<1>6. Offered'
  <2>1. ASSUME NEW m \in Int, m < nextMsg
        PROVE  m < nextMsg'
    BY <1>1, <2>1
  <2>2. /\ \A i \in 1 .. Len(written) : written[i] \in Int /\ written[i] < nextMsg
        /\ \A i \in 1 .. Len(queue) : queue[i] \in Int /\ queue[i] < nextMsg
        /\ \A m \in critical : m \in Int /\ m < nextMsg
    BY SMTT(60) DEF IInv, Offered, DeliverySound, TypeOK, Msgs, Sentinel
  <2> QED
    BY <2>1, <2>2, <1>2 DEF Offered
<1>7. Open'
  BY DEF IInv, Open, Running
<1> QED
  BY <1>3, <1>4, <1>5, <1>6, <1>7 DEF IInv, DeliverySound

\* _send, in each of its four outcomes.
LEMMA SendStep ==
  ASSUME IInv, NEW crit \in BOOLEAN, Send(crit)
  PROVE  IInv'
<1> USE MsgsAssumption, SizeAssumption
<1>1. /\ IsConnected /\ nextMsg <= MaxMsgs /\ nextMsg' = nextMsg + 1 /\ connected
      /\ UNCHANGED <<unsent, wtask, written>>
  BY DEF Send, IsConnected
<1>2. /\ queue \in Seq(Entries) /\ Len(queue) \in Nat /\ Len(queue) <= MaxSize /\ MaxSize \in Nat
      /\ written \in Seq(Msgs) /\ Len(written) \in Nat /\ nextMsg \in Nat /\ dropped \in Nat
      /\ DOMAIN queue = 1 .. Len(queue) /\ critical \subseteq Msgs
  BY DEF IInv, DeliverySound, TypeOK, Entries
<1>3. /\ \A i \in 1 .. Len(queue) : queue[i] # Sentinel /\ queue[i] < nextMsg
      /\ nextMsg - 1 = Len(written) + Len(queue) + dropped
      /\ critical \subseteq ToSet(written) \cup ToSet(queue)
  BY <1>1 DEF IInv, Open, Offered, DeliverySound, DropsCounted, CriticalKept
<1>4. /\ \A i, j \in 1 .. Len(queue) : i < j => queue[i] < queue[j]
      /\ \A i \in 1 .. Len(written) : \A j \in 1 .. Len(queue) : written[i] < queue[j]
  BY <1>3 DEF IInv, DeliverySound, InOrder
<1>5. CASE Put(crit)
  <2>1. /\ Len(queue) < MaxSize /\ Accept(queue, crit) /\ dropped' = dropped
        /\ UNCHANGED <<connected, transport, closer>>
    BY <1>5, <1>2 DEF Put, Full
  <2>2. nextMsg = Len(written) + Len(queue) + 1 + dropped'
    BY <1>2, <1>3, <2>1
  <2> QED
    BY <1>1, <1>2, <1>3, <1>4, <2>1, <2>2, AcceptStep
<1>6. CASE EvictAndPut(crit)
  <2> DEFINE v == Min(Evictable(queue))
             q == RemoveAt(queue, v)
  <2>1. /\ Len(queue) >= MaxSize /\ Accept(q, crit) /\ dropped' = dropped + 1
        /\ UNCHANGED <<connected, transport, closer>> /\ Evictable(queue) # {}
    BY <1>6 DEF EvictAndPut, Full, Evict, EventDropped
  <2>2. v \in 1 .. Len(queue) /\ queue[v] \notin critical
    <3>1. Evictable(queue) \in SUBSET Nat
      BY DEF Evictable
    <3>2. v \in Evictable(queue)
      BY <2>1, <3>1, MinIsMember
    <3> QED
      BY <3>2 DEF Evictable
  <2> HIDE DEF v
  <2>3. /\ q \in Seq(Entries) /\ Len(q) = Len(queue) - 1
        /\ \A j \in 1 .. (Len(queue) - 1) : q[j] = IF j < v THEN queue[j] ELSE queue[j + 1]
    BY <2>2, <1>2, RemovedEntry
  <2> HIDE DEF q
  <2>4. ASSUME NEW j \in 1 .. Len(q)
        PROVE  \/ j < v /\ j \in 1 .. Len(queue) /\ q[j] = queue[j]
               \/ j >= v /\ j + 1 \in 1 .. Len(queue) /\ q[j] = queue[j + 1]
    BY <1>2, <2>2, <2>3
  <2>5. \A j \in 1 .. Len(q) : q[j] # Sentinel /\ q[j] < nextMsg
    BY <2>4, <1>3
  <2>6. ASSUME NEW i \in 1 .. Len(q), NEW j \in 1 .. Len(q), i < j
        PROVE  q[i] < q[j]
    <3>1. PICK x \in 1 .. Len(queue) : q[i] = queue[x] /\ x \in {i, i + 1} /\ (x = i + 1 => i >= v)
      BY <2>4
    <3>2. PICK y \in 1 .. Len(queue) : q[j] = queue[y] /\ y \in {j, j + 1} /\ (y = j => j < v)
      BY <2>4
    <3>3. x < y
      BY <2>2, <2>6, <3>1, <3>2
    <3> QED
      BY <3>1, <3>2, <3>3, <1>4
  <2>7. \A i \in 1 .. Len(written) : \A j \in 1 .. Len(q) : written[i] < q[j]
    BY <2>4, <1>4
  <2>8. critical \subseteq ToSet(written) \cup ToSet(q)
    <3>1. ASSUME NEW m \in critical, m \in ToSet(queue)
          PROVE  m \in ToSet(q)
      <4>1. PICK x \in 1 .. Len(queue) : m = queue[x]
        BY <1>2, <3>1 DEF ToSet
      <4>2. x # v
        BY <4>1, <2>2
      <4>3. DOMAIN q = 1 .. Len(q)
        BY <2>3
      <4>4. CASE x < v
        <5>1. x \in 1 .. (Len(queue) - 1) /\ q[x] = queue[x]
          BY <4>4, <2>2, <2>3, <1>2
        <5> QED
          BY <5>1, <4>1, <4>3, <2>3 DEF ToSet
      <4>5. CASE x > v
        <5>1. (x - 1) \in 1 .. (Len(queue) - 1) /\ ~(x - 1 < v) /\ (x - 1) + 1 = x
          BY <4>5, <2>2, <1>2
        <5>2. q[x - 1] = queue[x]
          BY <5>1, <2>3
        <5> QED
          BY <5>1, <5>2, <4>1, <4>3, <2>3 DEF ToSet
      <4> QED
        BY <4>2, <4>4, <4>5, <2>2
    <3> QED
      BY <3>1, <1>3
  <2>9. Len(q) < MaxSize /\ nextMsg = Len(written) + Len(q) + 1 + dropped'
    BY <1>2, <1>3, <2>1, <2>3
  <2> QED
    BY <1>1, <2>1, <2>3, <2>5, <2>6, <2>7, <2>8, <2>9, AcceptStep
<1>7. CASE DropEvent(crit)
  BY <1>1, <1>7, RefuseStep DEF DropEvent, EventDropped
<1>8. CASE Disconnect(crit)
  <2>1. /\ connected' = FALSE /\ dropped' = dropped /\ UNCHANGED <<queue, critical>>
        /\ transport' \in {"open", "closing", "closed"}
        /\ closer' \in [Closers -> CloserStates]
    BY <1>8 DEF Disconnect, CloseTransport, IInv, DeliverySound, TypeOK, Closers, CloserStates
  <2> QED
    BY <1>1, <2>1, RefuseStep
<1> QED
  BY <1>5, <1>6, <1>7, <1>8 DEF Send

\* The writer gives the head of the queue to the transport.
LEMMA WriteStep ==
  ASSUME IInv, WriterWrites
  PROVE  IInv'
<1> USE MsgsAssumption, SizeAssumption
<1>1. /\ queue # <<>> /\ queue' = Tail(queue) /\ Head(queue) # Sentinel
      /\ written' = Append(written, Head(queue))
      /\ wtask = "get" /\ wtask' \in {"get", "drain"} /\ unsent' \in {unsent, TRUE}
      /\ UNCHANGED <<connected, transport, critical, nextMsg, dropped, closer>>
  BY DEF WriterWrites
<1>2. TypeOK
  BY DEF IInv, DeliverySound
<1>3. Shifts(1) /\ Head(queue) = queue[1] /\ Len(queue) >= 1 /\ Len(queue') = Len(queue) - 1
  BY <1>1, <1>2, TailShifts
<1>4. /\ written \in Seq(Msgs) /\ Len(written) \in Nat /\ queue[1] \in Msgs
      /\ queue \in Seq(Entries) /\ Len(queue) \in Nat
      /\ \A i \in 1 .. (Len(queue) - 1) : queue'[i] = queue[i + 1]
  <2>1. queue \in Seq(Entries) /\ Len(queue) \in Nat
    BY <1>2 DEF TypeOK, Entries
  <2>2. queue[1] \in Msgs
    BY <2>1, <1>1, <1>3 DEF Entries
  <2> QED
    BY <2>1, <2>2, <1>2, <1>3 DEF TypeOK, Shifts
<1>5. /\ written' \in Seq(Msgs) /\ Len(written') = Len(written) + 1
      /\ \A i \in 1 .. (Len(written) + 1) :
           written'[i] = IF i <= Len(written) THEN written[i] ELSE queue[1]
  BY <1>1, <1>3, <1>4
<1>6. TypeOK'
  <2>1. queue' \in Seq({Sentinel} \cup Msgs) /\ Len(queue') <= MaxSize
    BY <1>3 DEF Shifts, Entries
  <2> QED
    BY <1>1, <1>2, <1>5, <2>1 DEF TypeOK, WriterStates
<1>7. \A x, y \in 1 .. Len(queue) :
        queue[x] # Sentinel /\ queue[y] # Sentinel /\ x < y => queue[x] < queue[y]
  BY DEF IInv, DeliverySound, InOrder
<1>8. InOrder'
  <2>1. ASSUME NEW i \in 1 .. Len(queue'), NEW j \in 1 .. Len(queue'), i < j,
               queue'[i] # Sentinel, queue'[j] # Sentinel
        PROVE  queue'[i] < queue'[j]
    <3>1. /\ i + 1 \in 1 .. Len(queue) /\ queue'[i] = queue[i + 1]
          /\ j + 1 \in 1 .. Len(queue) /\ queue'[j] = queue[j + 1] /\ i + 1 < j + 1
      BY <2>1, <1>3, <1>4
    <3> QED
      BY <2>1, <3>1, <1>7
  <2>2. ASSUME NEW i \in 1 .. Len(written'), NEW j \in 1 .. Len(queue'), queue'[j] # Sentinel
        PROVE  written'[i] < queue'[j]
    <3>1. j + 1 \in 1 .. Len(queue) /\ queue'[j] = queue[j + 1] /\ 1 < j + 1
      BY <1>3, <1>4
    <3>2. CASE i \in 1 .. Len(written)
      <4>1. written'[i] = written[i]
        BY <3>2, <1>4, <1>5
      <4> QED
        BY <2>2, <3>1, <3>2, <4>1 DEF IInv, DeliverySound, InOrder
    <3>3. CASE i \notin 1 .. Len(written)
      <4>1. written'[i] = queue[1]
        BY <3>3, <1>4, <1>5
      <4>2. 1 \in 1 .. Len(queue) /\ queue[1] # Sentinel
        BY <1>1, <1>3, <1>4
      <4> QED
        BY <2>2, <3>1, <4>1, <4>2, <1>7
    <3> QED
      BY <3>2, <3>3
  <2>3. ASSUME NEW i \in 1 .. Len(written'), NEW j \in 1 .. Len(written'), i < j
        PROVE  written'[i] < written'[j]
    <3>1. i \in 1 .. Len(written) /\ written'[i] = written[i]
      BY <2>3, <1>4, <1>5
    <3>2. CASE j \in 1 .. Len(written)
      <4>1. written'[j] = written[j]
        BY <3>2, <1>4, <1>5
      <4> QED
        BY <2>3, <3>1, <3>2, <4>1 DEF IInv, DeliverySound, InOrder
    <3>3. CASE j \notin 1 .. Len(written)
      <4>1. written'[j] = queue[1]
        BY <3>3, <1>4, <1>5
      <4>2. 1 \in 1 .. Len(queue) /\ queue[1] # Sentinel
        BY <1>1, <1>3, <1>4
      <4> QED
        BY <3>1, <4>1, <4>2 DEF IInv, DeliverySound, InOrder
    <3> QED
      BY <3>2, <3>3
  <2> QED
    BY <2>1, <2>2, <2>3 DEF InOrder
<1>9. Offered'
  <2>1. ASSUME NEW i \in 1 .. Len(queue')
        PROVE  queue'[i] < nextMsg
    <3>1. i + 1 \in 1 .. Len(queue) /\ queue'[i] = queue[i + 1]
      BY <1>3, <1>4
    <3> QED
      BY <3>1 DEF IInv, Offered
  <2>2. ASSUME NEW i \in 1 .. Len(written')
        PROVE  written'[i] < nextMsg
    <3>1. CASE i \in 1 .. Len(written)
      BY <3>1, <1>4, <1>5 DEF IInv, Offered
    <3>2. CASE i \notin 1 .. Len(written)
      <4>1. written'[i] = queue[1] /\ 1 \in 1 .. Len(queue)
        BY <3>2, <1>3, <1>4, <1>5
      <4> QED
        BY <4>1 DEF IInv, Offered
    <3> QED
      BY <3>1, <3>2
  <2> QED
    BY <2>1, <2>2, <1>1 DEF IInv, Offered
<1>10. ToSet(written) \cup ToSet(queue) \subseteq ToSet(written') \cup ToSet(queue')
  <2>1. /\ DOMAIN queue = 1 .. Len(queue) /\ DOMAIN queue' = 1 .. Len(queue')
        /\ DOMAIN written = 1 .. Len(written) /\ DOMAIN written' = 1 .. Len(written')
    BY <1>3, <1>4, <1>5 DEF Shifts
  <2>2. ASSUME NEW i \in 1 .. Len(written)
        PROVE  written[i] \in ToSet(written')
    <3>1. i \in 1 .. Len(written') /\ written'[i] = written[i]
      BY <1>4, <1>5
    <3> QED
      BY <3>1, <2>1 DEF ToSet
  <2>3. ASSUME NEW i \in 1 .. Len(queue)
        PROVE  queue[i] \in ToSet(written') \cup ToSet(queue')
    <3>1. CASE i = 1
      <4>1. Len(written) + 1 \in 1 .. Len(written') /\ written'[Len(written) + 1] = queue[1]
        BY <1>4, <1>5
      <4> QED
        BY <3>1, <4>1, <2>1 DEF ToSet
    <3>2. CASE i # 1
      <4>1. i - 1 \in 1 .. Len(queue') /\ i - 1 \in 1 .. (Len(queue) - 1) /\ (i - 1) + 1 = i
        BY <3>2, <1>3, <1>4
      <4>2. queue'[i - 1] = queue[i]
        BY <4>1, <1>4
      <4> QED
        BY <4>1, <4>2, <2>1 DEF ToSet
    <3> QED
      BY <3>1, <3>2
  <2> QED
    BY <2>1, <2>2, <2>3 DEF ToSet
<1>11. CriticalKept'
  BY <1>1, <1>10 DEF IInv, DeliverySound, CriticalKept
<1>12. DropsCounted'
  <2>1. CASE connected
    <3>1. nextMsg - 1 = Len(written) + Len(queue) + dropped
      BY <2>1 DEF IInv, DeliverySound, DropsCounted
    <3>2. dropped \in Nat /\ nextMsg \in Nat
      BY <1>2 DEF TypeOK
    <3>3. nextMsg - 1 = Len(written') + Len(queue') + dropped
      BY <3>1, <3>2, <1>3, <1>4, <1>5
    <3> QED
      BY <3>3, <1>1 DEF DropsCounted
  <2>2. CASE ~connected
    BY <2>2, <1>1 DEF DropsCounted
  <2> QED
    BY <2>1, <2>2
<1>13. Open'
  <2>1. ASSUME connected, NEW i \in 1 .. Len(queue')
        PROVE  queue'[i] # Sentinel
    <3>1. i + 1 \in 1 .. Len(queue) /\ queue'[i] = queue[i + 1]
      BY <1>3, <1>4
    <3> QED
      BY <2>1, <3>1 DEF IInv, Open
  <2> QED
    BY <1>1, <2>1 DEF IInv, Open, Running
<1> QED
  BY <1>6, <1>8, <1>9, <1>11, <1>12, <1>13 DEF IInv, DeliverySound

\* The writer_loop that returns.
LEMMA WriterEndStep ==
  ASSUME IInv, WriterFails \/ WriterStops
  PROVE  IInv'
<1> DEFINE Keeps == TypeOK' /\ InOrder' /\ Offered'
<1>1. /\ UNCHANGED <<transport, unsent, critical, nextMsg, dropped, written, closer>>
      /\ wtask' \in {"failed", "done"} /\ connected' \in BOOLEAN /\ TypeOK
  BY DEF WriterFails, WriterEnds, WriterStops, IInv, DeliverySound, TypeOK
<1>2. ASSUME queue # <<>>, queue' = Tail(queue)
      PROVE  Keeps
  <2>1. Shifts(1)
    BY <1>1, <1>2, TailShifts
  <2>2. queue' \in Seq({Sentinel} \cup Msgs) /\ Len(queue') <= MaxSize
    BY <2>1 DEF Shifts, Entries
  <2>3. TypeOK'
    BY <1>1, <2>2 DEF TypeOK, WriterStates
  <2> QED
    BY <1>1, <2>1, <2>3, ShiftKeepsOrder DEF IInv, DeliverySound
<1>3. CASE WriterFails
  <2>1. connected' = FALSE /\ wtask' = "failed"
    BY <1>3 DEF WriterFails, WriterEnds
  <2>2. CASE queue # <<>> /\ queue' = Tail(queue)
    BY <1>2, <2>1, <2>2 DEF IInv, DeliverySound, CriticalKept, DropsCounted, Open
  <2>3. CASE UNCHANGED queue
    <3>1. Keeps
      BY <1>1, <2>3 DEF TypeOK, IInv, DeliverySound, InOrder, Offered, WriterStates
    <3> QED
      BY <3>1, <2>1 DEF IInv, DeliverySound, CriticalKept, DropsCounted, Open
  <2> QED
    BY <1>3, <2>2, <2>3 DEF WriterFails
<1>4. CASE WriterStops
  <2>1. /\ wtask = "get" /\ wtask' = "done" /\ queue # <<>> /\ queue' = Tail(queue)
        /\ Head(queue) = Sentinel /\ connected' = connected
    BY <1>4 DEF WriterStops
  <2>2. /\ Shifts(1) /\ Head(queue) = queue[1] /\ Len(queue) >= 1 /\ Len(queue) \in Nat
        /\ Len(queue') = Len(queue) - 1
    BY <1>1, <2>1, TailShifts DEF TypeOK
  <2>3. ~connected'
    <3>1. 1 \in 1 .. Len(queue) /\ queue[1] = Sentinel
      BY <2>1, <2>2
    <3> QED
      BY <2>1, <3>1 DEF IInv, Open
  <2>4. Keeps
    BY <1>2, <2>1
  <2> QED
    BY <2>3, <2>4 DEF IInv, DeliverySound, CriticalKept, DropsCounted, Open
<1> QED
  BY <1>3, <1>4

\* What _put_sentinel does to a client that is not, or no longer, connected.
LEMMA SentinelStep ==
  ASSUME IInv, ~connected', queue' = PutSentinel(queue),
         UNCHANGED <<unsent, critical, nextMsg, dropped, written>>,
         transport' \in {"open", "closing", "closed"},
         wtask' = wtask \/ wtask' = "cancelled", connected' \in BOOLEAN,
         closer' \in [Closers -> CloserStates]
  PROVE  IInv'
<1>1. TypeOK /\ InOrder /\ Offered
  BY DEF IInv, DeliverySound
<1>2. PICK d \in {0, 1} : Shifts(d)
  BY <1>1, SentinelShifts
<1>3. TypeOK'
  <2>1. queue' \in Seq({Sentinel} \cup Msgs) /\ Len(queue') <= MaxSize
    BY <1>2 DEF Shifts, Entries
  <2> QED
    BY <1>1, <2>1 DEF TypeOK, WriterStates
<1>4. InOrder' /\ Offered'
  BY <1>1, <1>2, ShiftKeepsOrder
<1> QED
  BY <1>3, <1>4 DEF IInv, DeliverySound, CriticalKept, DropsCounted, Open

\* A close with a flush, of a task that has not begun one.
LEMMA BeginCloseStep ==
  ASSUME IInv, NEW k \in Closers, BeginClose(k)
  PROVE  IInv'
<1>1. closer \in [Closers -> CloserStates] /\ transport \in {"open", "closing", "closed"}
  BY DEF IInv, DeliverySound, TypeOK
<1>2. \/ closer' = [closer EXCEPT ![k] = "flushing"] /\ UNCHANGED transport
      \/ closer' = [closer EXCEPT ![k] = "closing"] /\ transport' = CloseTransport
  BY DEF BeginClose
<1>3. closer' \in [Closers -> CloserStates] /\ transport' \in {"open", "closing", "closed"}
  BY <1>1, <1>2 DEF CloserStates, CloseTransport
<1>4. /\ ~connected' /\ connected' \in BOOLEAN /\ queue' = PutSentinel(queue) /\ wtask' = wtask
      /\ UNCHANGED <<unsent, critical, nextMsg, dropped, written>>
  BY DEF BeginClose
<1> QED
  BY <1>3, <1>4, SentinelStep

\* The rest of a close.
LEMMA EndCloseStep ==
  ASSUME IInv, NEW k \in Closers, EndClose(k)
  PROVE  IInv'
<1>1. /\ closer \in [Closers -> CloserStates] /\ closer[k] = "closing"
      /\ closer' = [closer EXCEPT ![k] = "done"]
      /\ UNCHANGED <<connected, transport, unsent, critical, nextMsg, dropped, written>>
      /\ connected \in BOOLEAN /\ transport \in {"open", "closing", "closed"}
      /\ unsent \in BOOLEAN /\ critical \subseteq Msgs /\ wtask \in WriterStates
  BY DEF EndClose, IInv, DeliverySound, TypeOK
<1>2. closer' \in [Closers -> CloserStates]
  BY <1>1 DEF CloserStates
<1>3. ~connected
  BY <1>1 DEF IInv, Open, Closers
<1>4. CASE k = "sender"
  <2>1. queue' = PutSentinel(queue) /\ wtask' = IF Running THEN "cancelled" ELSE wtask
    BY <1>4 DEF EndClose
  <2> QED
    BY <1>1, <1>2, <1>3, <2>1, SentinelStep
<1>5. CASE k # "sender"
  <2>1. UNCHANGED <<queue, wtask>>
    BY <1>5 DEF EndClose
  <2> QED
    BY <1>1, <1>2, <1>3, <2>1, QuietStep
<1> QED
  BY <1>4, <1>5

\* Every step keeps the invariant.
LEMMA Step ==
  ASSUME IInv, [Next]_vars
  PROVE  IInv'
<1>t. /\ connected \in BOOLEAN /\ transport \in {"open", "closing", "closed"}
      /\ unsent \in BOOLEAN /\ closer \in [Closers -> CloserStates] /\ wtask \in WriterStates
  BY DEF IInv, DeliverySound, TypeOK
<1>o. connected => /\ Running
                   /\ closer["handler"] = "idle" /\ closer["sender"] = "idle"
                   /\ closer["stop"] \in {"idle", "waiting"}
  BY DEF IInv, Open
<1>1. CASE UNCHANGED vars
  <2>1. Running => Running'
    BY <1>1 DEF vars, Running
  <2> QED
    BY <1>1, <1>t, <1>o, <2>1, QuietStep DEF vars
<1>2. ASSUME NEW crit \in BOOLEAN, Send(crit)
      PROVE  IInv'
  BY <1>2, SendStep
<1>3. CASE WriterStep
  <2>1. CASE WriterDrained
    <3>1. Running'
      BY <2>1 DEF WriterDrained, Running
    <3> QED
      BY <1>t, <1>o, <2>1, <3>1, QuietStep DEF WriterDrained, WriterStates
  <2> QED
    BY <1>3, <2>1, WriteStep, WriterEndStep DEF WriterStep
<1>4. CASE HandlerCloses
  <2>1. "handler" \in Closers /\ BeginClose("handler")
    BY <1>4 DEF HandlerCloses, Closers
  <2> QED
    BY <2>1, BeginCloseStep
<1>5. CASE StopRequested
  <2>1. /\ closer["stop"] = "idle" /\ closer' = [closer EXCEPT !["stop"] = "waiting"]
        /\ UNCHANGED <<connected, transport, unsent, queue, critical, nextMsg, dropped, wtask,
                       written>>
    BY <1>5 DEF StopRequested
  <2>2. /\ closer' \in [Closers -> CloserStates]
        /\ (Running => Running') /\ closer'["stop"] = "waiting"
        /\ closer'["handler"] = closer["handler"] /\ closer'["sender"] = closer["sender"]
    BY <1>t, <2>1 DEF CloserStates, Closers, Running
  <2> QED
    BY <1>t, <1>o, <2>1, <2>2, QuietStep
<1>6. CASE StopCloses
  <2>1. CASE BeginClose("stop")
    <3>1. "stop" \in Closers
      BY DEF Closers
    <3> QED
      BY <2>1, <3>1, BeginCloseStep
  <2>2. CASE /\ closer["handler"] # "idle"
             /\ closer' = [closer EXCEPT !["stop"] = "done"]
             /\ UNCHANGED <<connected, transport, unsent, queue, critical, nextMsg, dropped,
                            wtask, written>>
    <3>1. ~connected'
      BY <1>o, <2>2
    <3>2. closer' \in [Closers -> CloserStates]
      BY <1>t, <2>2 DEF CloserStates, Closers
    <3> QED
      BY <1>t, <2>2, <3>1, <3>2, QuietStep
  <2> QED
    BY <1>6, <2>1, <2>2 DEF StopCloses
<1>7. ASSUME NEW k \in Closers, Flushed(k)
      PROVE  IInv'
  <2>1. /\ closer[k] = "flushing"
        /\ UNCHANGED <<connected, unsent, queue, critical, nextMsg, dropped, wtask, written>>
        /\ \/ closer' = [closer EXCEPT ![k] = "raised"] /\ UNCHANGED transport
           \/ closer' = [closer EXCEPT ![k] = "closing"] /\ transport' = CloseTransport
    BY <1>7 DEF Flushed
  <2>2. ~connected'
    BY <1>o, <2>1 DEF Closers
  <2>3. /\ closer' \in [Closers -> CloserStates]
        /\ transport' \in {"open", "closing", "closed"}
    BY <1>t, <2>1 DEF CloserStates, CloseTransport
  <2> QED
    BY <1>t, <2>1, <2>2, <2>3, QuietStep
<1>8. ASSUME NEW k \in Closers, EndClose(k)
      PROVE  IInv'
  BY <1>8, EndCloseStep
<1>9. CASE PeerReads \/ PeerLost \/ TransportCloses
  <2>1. /\ UNCHANGED <<connected, queue, critical, nextMsg, dropped, wtask, written, closer>>
        /\ transport' \in {"open", "closing", "closed"} /\ unsent' \in BOOLEAN
    BY <1>9, <1>t DEF PeerReads, PeerLost, TransportCloses
  <2>2. Running => Running'
    BY <2>1 DEF Running
  <2> QED
    BY <1>t, <1>o, <2>1, <2>2, QuietStep
<1> QED
  BY <1>1, <1>2, <1>3, <1>4, <1>5, <1>6, <1>7, <1>8, <1>9 DEF Next

\* A client that has just been accepted satisfies the invariant.
LEMMA Start ==
  ASSUME Init
  PROVE  IInv
<1> USE MsgsAssumption, SizeAssumption
<1>1. /\ connected = TRUE /\ transport = "open" /\ unsent = FALSE
      /\ queue = <<>> /\ critical = {} /\ nextMsg = 1 /\ dropped = 0
      /\ wtask = "get" /\ written = <<>> /\ closer = [k \in Closers |-> "idle"]
  BY DEF Init
<1>2. TypeOK
  <2>1. closer \in [Closers -> CloserStates]
    BY <1>1 DEF CloserStates
  <2>2. queue \in Seq({Sentinel} \cup Msgs) /\ Len(queue) <= MaxSize /\ written \in Seq(Msgs)
    BY <1>1
  <2>3. nextMsg \in 1 .. MaxMsgs + 1 /\ dropped \in 0 .. MaxMsgs /\ critical \subseteq Msgs
    BY <1>1
  <2> QED
    BY <1>1, <2>1, <2>2, <2>3 DEF TypeOK, WriterStates
<1>3. InOrder /\ CriticalKept /\ DropsCounted /\ Offered
  BY <1>1 DEF InOrder, CriticalKept, DropsCounted, Offered
<1>4. Open
  BY <1>1 DEF Open, Running, Closers
<1> QED
  BY <1>2, <1>3, <1>4 DEF IInv, DeliverySound

\* The invariant holds of every client.
THEOREM Invariance == Spec => []IInv
<1>1. Init => IInv
  BY Start
<1>2. IInv /\ [Next]_vars => IInv'
  BY Step
<1> QED
  BY <1>1, <1>2, PTL DEF Spec

-----------------------------------------------------------------------------
(* The properties *)

\* Whatever is evicted, and whoever closes the client, its queue is bounded, what
\* is written is in the order of _send, and while it is connected no critical
\* message is lost and every drop is counted.
THEOREM DeliveryAlwaysSound == Spec => []DeliverySound
<1>1. IInv => DeliverySound
  BY DEF IInv
<1> QED
  BY <1>1, Invariance, PTL

\* A client that accepts messages has a writer_loop: each way out of it
\* disconnects the client first or in the same step.
THEOREM AlwaysServed == Spec => []Served
<1>1. IInv => Served
  BY DEF IInv, Open, Served
<1> QED
  BY <1>1, Invariance, PTL
=============================================================================
