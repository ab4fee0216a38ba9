--------------------------- MODULE NetworkProofs ----------------------------
(***************************************************************************)
(* Theorems about SimpleNetwork, for any number of ports, links, virtual   *)
(* networks and messages, any latencies and buffer sizes.                  *)
(*                                                                         *)
(* First the messages: the inductive invariant NetInv, lemmas about the    *)
(* operations on one buffer and on the line of messages between a          *)
(* controller and a link, one lemma per step, and the theorems about       *)
(* order, limits and panics.  Then the wakeups: the invariant AwakeInv,    *)
(* which needs NetInv, one lemma per step, and the theorem that no message *)
(* sleeps.                                                                 *)
(***************************************************************************)
EXTENDS SimpleNetwork, FiniteSetTheorems, WellFoundedInduction, TLAPS

(***************************************************************************)
(* The invariant, and the steps outside the switch and the throttles.      *)
(***************************************************************************)
(* The nodes of a buffer: counters number them, arrival times follow the   *)
(* counters, and so do the numbers of the messages of one sender.          *)
HeapOK(q) ==
  /\ IsFiniteSet(q.m_prio_heap) /\ q.m_size = Cardinality(q.m_prio_heap)
  /\ \A n \in q.m_prio_heap :
       n.counter <= q.m_msg_counter /\ n.time <= q.m_last_arrival_time
  /\ \A m, n \in q.m_prio_heap :
       /\ m.counter = n.counter => m = n
       /\ m.counter < n.counter => m.time <= n.time
       /\ m.counter < n.counter /\ m.msg.src = n.msg.src => m.msg.id < n.msg.id

(* The visible size is not below the size, and the size within the limit. *)
SizeOK(q, max, cycle) ==
  /\ q.m_time_last_time_enqueue <= cycle /\ q.m_time_last_time_pop <= cycle
  /\ q.m_size <= VisibleSize(q, cycle)
  /\ max # Infinite => q.m_size <= max

(* With fixed delays nothing arrives later than a message sent now. *)
TimeOK(q, delta, cycle, random) == random \/ q.m_last_arrival_time <= cycle + delta

BufferOK(q, max, delta, cycle, random) ==
  q \in MessageBuffers /\ HeapOK(q) /\ SizeOK(q, max, cycle) /\ TimeOK(q, delta, cycle, random)

-----------------------------------------------------------------------------
(* Operations on one buffer *)

(* Of the messages of one sender, the front has the lowest number. *)
LEMMA FrontFirst ==
  ASSUME NEW q \in MessageBuffers, HeapOK(q), NEW f, IsFront(q, f),
         NEW n \in q.m_prio_heap, n # f, n.msg.src = f.msg.src
  PROVE  f.msg.id < n.msg.id
<1>1. f \in HeapNode /\ n \in HeapNode BY Zenon DEF IsFront, MessageBuffers
<1>2. f.counter \in Nat /\ n.counter \in Nat /\ f.time \in Nat /\ n.time \in Nat
  BY Zenon, <1>1 DEF HeapNode
<1>3. f \in q.m_prio_heap /\ ~Before(n, f) BY Zenon DEF IsFront
<1>4. n.counter # f.counter BY Zenon, <1>3 DEF HeapOK
<1>5. ~(n.counter < f.counter)
  BY <1>2, <1>3, <1>4 DEF HeapOK, Before
<1>6. f.counter < n.counter BY <1>2, <1>4, <1>5
<1> QED BY Zenon, <1>3, <1>6 DEF HeapOK

(* What enqueue adds to the heap. *)
LEMMA EnqueueHeap ==
  ASSUME NEW q \in MessageBuffers, NEW message, NEW t, NEW cycle
  PROVE  enqueue(q, message, t, cycle).m_prio_heap =
           q.m_prio_heap \cup {[time |-> t, counter |-> q.m_msg_counter + 1, msg |-> message]}
BY Zenon DEF enqueue, MessageBuffers

(* enqueue, of a message with a higher number than its sender's others,    *)
(* when there is room for it and with an arrival time that is accepted.    *)
LEMMA EnqueueOK ==
  ASSUME NEW max \in Nat \cup {Infinite}, NEW delta \in Nat, NEW cycle \in Nat,
         NEW random \in BOOLEAN, NEW q, BufferOK(q, max, delta, cycle, random),
         NEW message \in Message,
         \A n \in q.m_prio_heap : n.msg.src = message.src => n.msg.id < message.id,
         areNSlotsAvailable(q, max, 1, cycle),
         NEW t \in ArrivalTimes(q, delta, cycle, random), t >= q.m_last_arrival_time
  PROVE  /\ t \in Nat
         /\ BufferOK(enqueue(q, message, t, cycle), max, delta, cycle, random)
<1> DEFINE new == [time |-> t, counter |-> q.m_msg_counter + 1, msg |-> message]
           r == enqueue(q, message, t, cycle)
           heap == q.m_prio_heap
<1>1. q \in MessageBuffers /\ HeapOK(q) /\ SizeOK(q, max, cycle) /\ TimeOK(q, delta, cycle, random)
  BY Zenon DEF BufferOK
<1>2. /\ heap \subseteq HeapNode
      /\ q.m_msg_counter \in Nat /\ q.m_size \in Int /\ q.m_last_arrival_time \in Nat
      /\ q.m_time_last_time_enqueue \in Nat /\ q.m_msgs_this_cycle \in Nat
      /\ q.m_time_last_time_pop \in Nat /\ q.m_size_at_cycle_start \in Int
  BY Zenon, <1>1 DEF MessageBuffers
<1>3. t \in Nat
  <2>1. CASE random
    <3>1. PICK d \in Delays : t = Later(q.m_last_arrival_time, cycle) + d
      BY Zenon, <2>1 DEF ArrivalTimes
    <3>2. d \in Nat
      BY Zenon, BufferAssumption
    <3> QED BY <1>2, <3>1, <3>2 DEF Later
  <2>2. CASE ~random
    <3>1. t = cycle + delta
      BY Zenon, <2>2 DEF ArrivalTimes
    <3> QED BY <3>1
  <2> QED BY Zenon, <2>1, <2>2
<1>4. new \in HeapNode BY <1>2, <1>3 DEF HeapNode
<1>5. /\ r.m_prio_heap = heap \cup {new}
      /\ r.m_msg_counter = q.m_msg_counter + 1
      /\ r.m_size = q.m_size + 1
      /\ r.m_last_arrival_time = t
      /\ r.m_time_last_time_enqueue = cycle
      /\ r.m_msgs_this_cycle = IF q.m_time_last_time_enqueue < cycle THEN 1 ELSE q.m_msgs_this_cycle + 1
      /\ r.m_time_last_time_pop = q.m_time_last_time_pop
      /\ r.m_size_at_cycle_start = q.m_size_at_cycle_start
  BY Zenon, <1>1 DEF enqueue, MessageBuffers
<1>6. r \in MessageBuffers
  <2>1. heap \cup {new} \subseteq HeapNode /\ q.m_msg_counter + 1 \in Nat /\ q.m_size + 1 \in Int
    BY <1>2, <1>4
  <2>2. (IF q.m_time_last_time_enqueue < cycle THEN 1 ELSE q.m_msgs_this_cycle + 1) \in Nat
    BY <1>2
  <2> HIDE DEF new
  <2> QED BY Zenon, <1>1, <1>3, <2>1, <2>2 DEF enqueue, MessageBuffers, new
<1>7. HeapOK(r)
  <2>1. \A n \in heap : n.counter \in Nat /\ n.time \in Nat BY Zenon, <1>2 DEF HeapNode
  <2>2. \A n \in heap : n.counter < new.counter /\ n.time <= new.time
    BY <1>1, <1>2, <1>3, <2>1 DEF HeapOK
  <2>3. new \notin heap BY <1>2, <2>2
  <2>4. IsFiniteSet(heap \cup {new}) /\ Cardinality(heap \cup {new}) = Cardinality(heap) + 1
    BY Zenon, <1>1, <2>3, FS_AddElement DEF HeapOK
  <2>5. \A n \in r.m_prio_heap : n.counter <= r.m_msg_counter /\ n.time <= r.m_last_arrival_time
    BY <1>2, <1>3, <1>5, <2>1, <2>2
  <2>6. \A m, n \in heap \cup {new} :
          /\ m.counter = n.counter => m = n
          /\ m.counter < n.counter => m.time <= n.time
          /\ m.counter < n.counter /\ m.msg.src = n.msg.src => m.msg.id < n.msg.id
    <3> SUFFICES ASSUME NEW m \in heap \cup {new}, NEW n \in heap \cup {new}
                 PROVE  /\ m.counter = n.counter => m = n
                        /\ m.counter < n.counter => m.time <= n.time
                        /\ m.counter < n.counter /\ m.msg.src = n.msg.src
                             => m.msg.id < n.msg.id
      BY Zenon
    <3>1. CASE m \in heap /\ n \in heap BY Zenon, <1>1, <3>1 DEF HeapOK
    <3>2. CASE m \in heap /\ n = new BY <1>2, <2>1, <2>2, <3>2
    <3>3. CASE m = new /\ n \in heap BY <1>2, <2>1, <2>2, <3>3
    <3>4. CASE m = new /\ n = new BY <1>2, <3>4
    <3> QED BY Zenon, <3>1, <3>2, <3>3, <3>4
  <2> QED BY Zenon, <1>1, <1>5, <2>4, <2>5, <2>6 DEF HeapOK
<1>8. SizeOK(r, max, cycle)
  <2>1. r.m_size <= VisibleSize(r, cycle)
    BY <1>1, <1>2, <1>5 DEF SizeOK, VisibleSize
  <2>2. max # Infinite => r.m_size <= max
    BY <1>1, <1>2, <1>5 DEF SizeOK, VisibleSize, areNSlotsAvailable, Infinite
  <2> QED BY <1>1, <1>2, <1>5, <2>1, <2>2 DEF SizeOK
<1>9. TimeOK(r, delta, cycle, random)
  BY <1>5 DEF TimeOK, ArrivalTimes
<1> QED BY Zenon, <1>3, <1>6, <1>7, <1>8, <1>9 DEF BufferOK

(* pop of the front. *)
LEMMA PopOK ==
  ASSUME NEW max \in Nat \cup {Infinite}, NEW delta \in Nat, NEW cycle \in Nat,
         NEW random \in BOOLEAN, NEW q, BufferOK(q, max, delta, cycle, random),
         NEW f \in q.m_prio_heap
  PROVE  BufferOK(pop(q, f, cycle), max, delta, cycle, random)
<1> DEFINE r == pop(q, f, cycle)
           heap == q.m_prio_heap
<1>1. q \in MessageBuffers /\ HeapOK(q) /\ SizeOK(q, max, cycle) /\ TimeOK(q, delta, cycle, random)
  BY Zenon DEF BufferOK
<1>2. /\ heap \subseteq HeapNode
      /\ q.m_msg_counter \in Nat /\ q.m_size \in Int /\ q.m_last_arrival_time \in Nat
      /\ q.m_time_last_time_enqueue \in Nat /\ q.m_msgs_this_cycle \in Nat
      /\ q.m_time_last_time_pop \in Nat /\ q.m_size_at_cycle_start \in Int
  BY Zenon, <1>1 DEF MessageBuffers
<1>3. /\ r.m_prio_heap = heap \ {f}
      /\ r.m_msg_counter = q.m_msg_counter
      /\ r.m_size = q.m_size - 1
      /\ r.m_last_arrival_time = q.m_last_arrival_time
      /\ r.m_time_last_time_enqueue = q.m_time_last_time_enqueue
      /\ r.m_msgs_this_cycle = q.m_msgs_this_cycle
      /\ r.m_time_last_time_pop = cycle
      /\ r.m_size_at_cycle_start =
           IF q.m_time_last_time_pop < cycle THEN q.m_size ELSE q.m_size_at_cycle_start
  BY Zenon, <1>1 DEF pop, MessageBuffers
<1>4. r \in MessageBuffers
  <2>1. heap \ {f} \subseteq HeapNode /\ q.m_size - 1 \in Int BY <1>2
  <2>2. (IF q.m_time_last_time_pop < cycle THEN q.m_size ELSE q.m_size_at_cycle_start) \in Int
    BY Zenon, <1>2
  <2> QED BY Zenon, <1>1, <2>1, <2>2 DEF pop, MessageBuffers
<1>5. HeapOK(r)
  <2>1. IsFiniteSet(heap \ {f}) /\ Cardinality(heap \ {f}) = Cardinality(heap) - 1
    BY Zenon, <1>1, FS_RemoveElement DEF HeapOK
  <2> QED BY Zenon, <1>1, <1>3, <2>1 DEF HeapOK
<1>6. SizeOK(r, max, cycle)
  BY <1>1, <1>2, <1>3 DEF SizeOK, VisibleSize
<1>7. TimeOK(r, delta, cycle, random)
  BY Zenon, <1>1, <1>3 DEF TimeOK
<1> QED BY Zenon, <1>4, <1>5, <1>6, <1>7 DEF BufferOK

-----------------------------------------------------------------------------
(* Numbers of messages *)

(* A message enters or leaves a buffer. *)
LEMMA IdsAdd ==
  ASSUME NEW heap, NEW n, NEW i
  PROVE  Ids(heap \cup {n}, i) = IF n.msg.src = i THEN Ids(heap, i) \cup {n.msg.id} ELSE Ids(heap, i)
BY Zenon DEF Ids

(* The message that leaves is the only one of its sender with its number. *)
LEMMA IdsRemove ==
  ASSUME NEW heap, NEW f \in heap, NEW i,
         \A n \in heap : n # f /\ n.msg.src = f.msg.src => n.msg.id # f.msg.id
  PROVE  Ids(heap \ {f}, i) = IF f.msg.src = i THEN Ids(heap, i) \ {f.msg.id} ELSE Ids(heap, i)
BY Zenon DEF Ids

(* The same for the messages of an in-buffer that are for one link. *)
LEMMA WaitingAdd ==
  ASSUME NEW heap, NEW n, NEW l
  PROVE  Waiting(heap \cup {n}, l) =
           IF l \in n.msg.dest THEN Waiting(heap, l) \cup {n.msg.id} ELSE Waiting(heap, l)
BY Zenon DEF Waiting

(* In an in-buffer all messages have different numbers. *)
LEMMA WaitingRemove ==
  ASSUME NEW heap, NEW f \in heap, NEW l,
         \A n \in heap : n # f => n.msg.id # f.msg.id
  PROVE  Waiting(heap \ {f}, l) =
           IF l \in f.msg.dest THEN Waiting(heap, l) \ {f.msg.id} ELSE Waiting(heap, l)
BY Zenon DEF Waiting

(* A message joins the line. *)
LEMMA LineSend ==
  ASSUME NEW in \in SUBSET Nat, NEW mid \in SUBSET Nat, NEW out \in SUBSET Nat, NEW all,
         InLine(in, mid, out, all), NEW k \in Nat, \A m \in all : m < k
  PROVE  InLine(in \cup {k}, mid, out, all \cup {k})
BY Zenon DEF InLine

(* The switch copies the first waiting message to a link. *)
LEMMA LineIn ==
  ASSUME NEW in \in SUBSET Nat, NEW mid \in SUBSET Nat, NEW out \in SUBSET Nat, NEW all,
         InLine(in, mid, out, all), NEW k \in in, \A m \in in \ {k} : k < m
  PROVE  InLine(in \ {k}, mid \cup {k}, out, all) /\ \A m \in mid : m < k
BY Zenon DEF InLine

(* The throttle moves the first message of its buffer on. *)
LEMMA LineMid ==
  ASSUME NEW in \in SUBSET Nat, NEW mid \in SUBSET Nat, NEW out \in SUBSET Nat, NEW all,
         InLine(in, mid, out, all), NEW k \in mid, \A m \in mid \ {k} : k < m
  PROVE  InLine(in, mid \ {k}, out \cup {k}, all) /\ \A m \in out : m < k
BY Zenon DEF InLine

(* The controller takes the first message. *)
LEMMA LineOut ==
  ASSUME NEW in \in SUBSET Nat, NEW mid \in SUBSET Nat, NEW out \in SUBSET Nat, NEW all,
         InLine(in, mid, out, all), NEW k \in Nat, k \in out, \A m \in out : m # k => k < m
  PROVE  InLine(in, mid, out \ {k}, all \ {k}) /\ k \in all
<1>1. k \in all BY Zenon DEF InLine
<1>2. k \notin mid /\ k \notin in BY DEF InLine
<1>3. InLine(in, mid, out \ {k}, all \ {k}) BY Zenon, <1>2 DEF InLine
<1> QED BY Zenon, <1>1, <1>3

(* The numbers are natural numbers. *)
LEMMA NumbersNat ==
  ASSUME NEW heap \in SUBSET HeapNode, NEW x
  PROVE  Ids(heap, x) \in SUBSET Nat /\ Waiting(heap, x) \in SUBSET Nat
BY Zenon DEF Ids, Waiting, HeapNode, Message

-----------------------------------------------------------------------------
(* The inductive invariant *)

(* What an in-buffer holds is what its controller sent. *)
AsSent ==
  \A i \in InPort, v \in Vnet : \A n \in Heap(InBuffer(i, v)) :
    /\ n.msg.src = i
    /\ n.msg.id \in DOMAIN sent[i][v] /\ n.msg.dest = sent[i][v][n.msg.id]

OnlySent ==
  \A i \in InPort, v \in Vnet, l \in Link : received[i][v][l] <= Len(sent[i][v])

BuffersOK ==
  \A b \in Buffer : BufferOK(buffer[b], MaxSize[b[1]], Latency[b], now, randomization)

NetInv == TypeOK /\ BuffersOK /\ AsSent /\ OnlySent /\ InOrderOnce

(* The names of the buffers: which exist, and that they differ. *)
LEMMA Places ==
  /\ \A i \in InPort, v \in Vnet : InBuffer(i, v) \in Buffer
  /\ \A l \in Link, v \in Vnet : MidBuffer(l, v) \in Buffer /\ OutBuffer(l, v) \in Buffer
  /\ \A x, v : InBuffer(x, v)[1] = "in" /\ MidBuffer(x, v)[1] = "mid" /\ OutBuffer(x, v)[1] = "out"
  /\ \A x, v : InBuffer(x, v)[2] = x /\ MidBuffer(x, v)[2] = x /\ OutBuffer(x, v)[2] = x
  /\ \A x, v, y, w :
       /\ InBuffer(x, v) # MidBuffer(y, w) /\ InBuffer(x, v) # OutBuffer(y, w)
       /\ MidBuffer(x, v) # OutBuffer(y, w)
       /\ InBuffer(x, v) = InBuffer(y, w) => x = y /\ v = w
       /\ MidBuffer(x, v) = MidBuffer(y, w) => x = y /\ v = w
       /\ OutBuffer(x, v) = OutBuffer(y, w) => x = y /\ v = w
<1>1. \A i \in InPort, v \in Vnet : InBuffer(i, v) \in Buffer
  BY Zenon DEF InBuffer, Buffer
<1>2. \A l \in Link, v \in Vnet : MidBuffer(l, v) \in Buffer /\ OutBuffer(l, v) \in Buffer
  BY Zenon DEF MidBuffer, OutBuffer, Buffer
<1>3. \A x, v, y, w :
       /\ InBuffer(x, v) = InBuffer(y, w) => x = y /\ v = w
       /\ MidBuffer(x, v) = MidBuffer(y, w) => x = y /\ v = w
       /\ OutBuffer(x, v) = OutBuffer(y, w) => x = y /\ v = w
  BY Zenon DEF InBuffer, MidBuffer, OutBuffer
<1>4. \A x, v : InBuffer(x, v)[1] = "in" /\ MidBuffer(x, v)[1] = "mid" /\ OutBuffer(x, v)[1] = "out"
  BY Zenon DEF InBuffer, MidBuffer, OutBuffer
<1>5. \A x, v : InBuffer(x, v)[2] = x /\ MidBuffer(x, v)[2] = x /\ OutBuffer(x, v)[2] = x
  BY Zenon DEF InBuffer, MidBuffer, OutBuffer
<1>6. \A x, v, y, w : /\ InBuffer(x, v) # MidBuffer(y, w) /\ InBuffer(x, v) # OutBuffer(y, w)
                      /\ MidBuffer(x, v) # OutBuffer(y, w)
  BY Zenon, <1>4
<1> QED BY <1>1, <1>2, <1>3, <1>4, <1>5, <1>6

(* Every buffer has a size and a latency. *)
LEMMA StageTypes ==
  \A b \in Buffer : MaxSize[b[1]] \in Nat \cup {Infinite} /\ Latency[b] \in Nat
<1>1. \A b \in Buffer : b[1] \in Stage BY Zenon DEF Buffer, Stage
<1> QED BY Zenon, <1>1, NetworkAssumption

(* Everything a buffer holds has its type. *)
LEMMA Held ==
  ASSUME TypeOK, NEW b \in Buffer
  PROVE  /\ buffer[b] \in MessageBuffers /\ Heap(b) \in SUBSET HeapNode
         /\ \A n \in Heap(b) : n.msg \in Message /\ n.msg.id \in Nat /\ n.msg.src \in InPort
BY DEF TypeOK, MessageBuffers, Heap, HeapNode, Message

-----------------------------------------------------------------------------
(* Controllers send and receive *)

(* A controller sends: the new message has the highest number. *)
LEMMA SendOK ==
  ASSUME NetInv, NEW i \in InPort, NEW v \in Vnet, NEW dest \in SUBSET Link,
         NEW size \in Nat \ {0}, Send(i, v, dest, size), UNCHANGED randomization
  PROVE  NetInv'
<1> DEFINE k == Len(sent[i][v]) + 1
           here == InBuffer(i, v)
           message == [src |-> i, id |-> k, dest |-> dest, size |-> size]
<1>0. TypeOK /\ BuffersOK /\ AsSent /\ OnlySent /\ InOrderOnce BY Zenon DEF NetInv
<1>1. now \in Nat /\ randomization \in BOOLEAN BY Zenon, <1>0 DEF TypeOK
<1>2. sent[i][v] \in Seq(SUBSET Link) /\ k \in Nat \ {0} /\ Len(sent[i][v]) \in Nat
  BY <1>0, <1>1 DEF TypeOK
<1>3. here \in Buffer /\ here[1] = "in" BY Zenon, <1>1, Places
<1>4. message \in Message BY Zenon, <1>1, <1>2 DEF Message
<1>5. PICK t \in AcceptedTimes(here) :
        /\ buffer' = [buffer EXCEPT ![here] = enqueue(@, message, t, now)]
        /\ scheduled' = [scheduled EXCEPT ![Switch] = @ \cup {t}]
  BY Zenon DEF Send
<1>6. sent' = [sent EXCEPT ![i][v] = Append(@, dest)]
      /\ UNCHANGED <<now, m_units_remaining, bw_remaining, received, randomization>>
  BY Zenon DEF Send, locals
<1>7. t \in Nat /\ BufferOK(enqueue(buffer[here], message, t, now), MaxSize["in"], Latency[here], now, randomization)
  <2>1. \A n \in buffer[here].m_prio_heap : n.msg.id < k
    BY <1>0, <1>1, <1>2 DEF AsSent, Heap
  <2>2. areNSlotsAvailable(buffer[here], MaxSize["in"], 1, now)
    BY Zenon, NetworkAssumption DEF areNSlotsAvailable
  <2>3. t \in ArrivalTimes(buffer[here], Latency[here], now, randomization) /\ t >= buffer[here].m_last_arrival_time
    BY Zenon, <1>3 DEF AcceptedTimes
  <2>4. BufferOK(buffer[here], MaxSize["in"], Latency[here], now, randomization)
    BY Zenon, <1>0, <1>3 DEF BuffersOK
  <2>5. MaxSize["in"] \in Nat \cup {Infinite} /\ Latency[here] \in Nat
    BY Zenon, <1>3, StageTypes
  <2> HIDE DEF message, here, k
  <2>6. \A n \in buffer[here].m_prio_heap : n.msg.src = message.src => n.msg.id < message.id
    BY Zenon, <2>1 DEF message
  <2> QED BY Zenon, <1>1, <1>4, <2>2, <2>3, <2>4, <2>5, <2>6, EnqueueOK
<1>8. /\ buffer'[here] = enqueue(buffer[here], message, t, now)
      /\ \A b \in Buffer \ {here} : buffer'[b] = buffer[b]
      /\ DOMAIN buffer' = Buffer /\ buffer' = [b \in Buffer |-> buffer'[b]]
  BY Zenon, <1>0, <1>3, <1>5 DEF TypeOK
<1>9. BuffersOK'
  BY Zenon, <1>0, <1>3, <1>6, <1>7, <1>8 DEF BuffersOK
<1>10. TypeOK'
  <2>1. buffer' \in [Buffer -> MessageBuffers]
    BY Zenon, <1>8, <1>9 DEF BuffersOK, BufferOK
  <2>2. scheduled' \in [Consumer -> SUBSET Nat]
    BY Zenon, <1>0, <1>5, <1>7 DEF TypeOK, Consumer
  <2>3. sent' \in [InPort -> [Vnet -> Seq(SUBSET Link)]]
    BY <1>0, <1>1, <1>2, <1>6 DEF TypeOK
  <2> QED BY Zenon, <1>0, <1>6, <2>1, <2>2, <2>3 DEF TypeOK
<1>11. /\ sent'[i][v] = Append(sent[i][v], dest)
       /\ \A j \in InPort, w \in Vnet : j # i \/ w # v => sent'[j][w] = sent[j][w]
  BY Zenon, <1>0, <1>6 DEF TypeOK
<1>12. /\ DOMAIN sent[i][v] = 1 .. (k - 1) /\ DOMAIN sent'[i][v] = 1 .. k /\ Len(sent'[i][v]) = k
       /\ sent'[i][v][k] = dest /\ \A x \in 1 .. (k - 1) : sent'[i][v][x] = sent[i][v][x]
  <2> DEFINE s == sent[i][v]
  <2> HIDE DEF s
  <2>1. /\ DOMAIN s = 1 .. Len(s) /\ DOMAIN Append(s, dest) = 1 .. (Len(s) + 1)
        /\ Len(Append(s, dest)) = Len(s) + 1 /\ Append(s, dest)[Len(s) + 1] = dest
        /\ \A x \in 1 .. Len(s) : Append(s, dest)[x] = s[x]
    BY <1>2 DEF s
  <2> QED BY <1>2, <1>11, <2>1 DEF s
<1>13. PICK new : /\ Heap(here)' = Heap(here) \cup {new}
                  /\ new.msg.src = i /\ new.msg.id = k /\ new.msg.dest = dest
  <2> DEFINE node == [time |-> t, counter |-> buffer[here].m_msg_counter + 1, msg |-> message]
  <2>1. Heap(here)' = Heap(here) \cup {node}
    BY <1>0, <1>3, <1>8 DEF Heap, enqueue, TypeOK, MessageBuffers
  <2>2. node.msg.src = i /\ node.msg.id = k /\ node.msg.dest = dest BY Zenon
  <2> HIDE DEF node
  <2> QED BY Zenon, <2>1, <2>2
<1>14. \A b \in Buffer \ {here} : Heap(b)' = Heap(b) BY Zenon, <1>8 DEF Heap
<1> HIDE DEF here, message, k
<1>15. AsSent'
  <2> SUFFICES ASSUME NEW j \in InPort, NEW w \in Vnet, NEW n \in Heap(InBuffer(j, w))'
               PROVE  /\ n.msg.src = j
                      /\ n.msg.id \in DOMAIN sent'[j][w] /\ n.msg.dest = sent'[j][w][n.msg.id]
    BY Zenon DEF AsSent, Heap
  <2>1. CASE j = i /\ w = v
    <3>1. CASE n = new BY <1>2, <1>12, <1>13, <2>1, <3>1
    <3>2. CASE n \in Heap(here)
      <4>1. n.msg.src = i /\ n.msg.id \in 1 .. (k - 1) /\ n.msg.dest = sent[i][v][n.msg.id]
        BY <1>0, <1>12, <3>2 DEF AsSent, here
      <4>2. n.msg.id \in 1 .. k BY <1>2, <4>1
      <4> QED BY Zenon, <1>12, <2>1, <4>1, <4>2
    <3> QED BY Zenon, <1>13, <2>1, <3>1, <3>2 DEF here
  <2>2. CASE j # i \/ w # v
    <3>1. InBuffer(j, w) \in Buffer \ {here} BY <2>2, Places DEF here
    <3> QED BY <1>0, <1>11, <1>14, <2>2, <3>1 DEF AsSent
  <2> QED BY Zenon, <2>1, <2>2
<1>16. OnlySent'
  <2>1. \A l \in Link : received[i][v][l] \in Nat BY <1>0, <1>1 DEF TypeOK
  <2>2. \A l \in Link : received[i][v][l] <= k
    BY <1>0, <1>2, <2>1 DEF OnlySent, k
  <2> QED BY Zenon, <1>0, <1>6, <1>11, <1>12, <2>2 DEF OnlySent
<1>17. InOrderOnce'
  <2> SUFFICES ASSUME NEW j \in InPort, NEW w \in Vnet, NEW l \in Link
               PROVE  InLine(Waiting(Heap(InBuffer(j, w))', l), Ids(Heap(MidBuffer(l, w))', j),
                             Ids(Heap(OutBuffer(l, w))', j), Outstanding(j, w, l)')
    BY Zenon DEF InOrderOnce, Heap
  <2>1. Heap(MidBuffer(l, w))' = Heap(MidBuffer(l, w)) /\ Heap(OutBuffer(l, w))' = Heap(OutBuffer(l, w))
    BY <1>14, Places DEF here
  <2>2. InLine(Waiting(Heap(InBuffer(j, w)), l), Ids(Heap(MidBuffer(l, w)), j),
               Ids(Heap(OutBuffer(l, w)), j), Outstanding(j, w, l))
    BY Zenon, <1>0 DEF InOrderOnce
  <2>3. CASE j = i /\ w = v
    <3>1. Waiting(Heap(here)', l) =
            IF l \in dest THEN Waiting(Heap(here), l) \cup {k} ELSE Waiting(Heap(here), l)
      <4>1. Waiting(Heap(here) \cup {new}, l) =
              IF l \in new.msg.dest THEN Waiting(Heap(here), l) \cup {new.msg.id} ELSE Waiting(Heap(here), l)
        BY Zenon, WaitingAdd
      <4> QED BY Zenon, <1>13, <4>1
    <3>2. received[i][v][l] \in Nat /\ received[i][v][l] < k
      BY SMTT(40), <1>0, <1>2 DEF TypeOK, OnlySent, k
    <3>3. Outstanding(i, v, l)' =
            IF l \in dest THEN Outstanding(i, v, l) \cup {k} ELSE Outstanding(i, v, l)
      BY SMTT(40), <1>2, <1>6, <1>12, <3>2 DEF Outstanding
    <3>4. \A x \in Outstanding(i, v, l) : x < k BY <1>2, <1>12 DEF Outstanding
    <3>5. /\ Waiting(Heap(here), l) \in SUBSET Nat /\ Ids(Heap(MidBuffer(l, v)), i) \in SUBSET Nat
          /\ Ids(Heap(OutBuffer(l, v)), i) \in SUBSET Nat
      BY Zenon, <1>0, <1>1, <1>3, Held, NumbersNat, Places
    <3> QED BY <1>2, <2>1, <2>2, <2>3, <3>1, <3>3, <3>4, <3>5, LineSend DEF here
  <2>4. CASE j # i \/ w # v
    <3>1. InBuffer(j, w) \in Buffer \ {here} BY <2>4, Places DEF here
    <3>2. Outstanding(j, w, l)' = Outstanding(j, w, l) BY Zenon, <1>6, <1>11, <2>4 DEF Outstanding
    <3> QED BY Zenon, <1>14, <2>1, <2>2, <3>1, <3>2
  <2> QED BY Zenon, <2>3, <2>4
<1> QED BY Zenon, <1>9, <1>10, <1>15, <1>16, <1>17 DEF NetInv

(* A controller receives: the message was the first of its line. *)
LEMMA ControllerReceiveOK ==
  ASSUME NetInv, NEW l \in Link, NEW v \in Vnet, NEW f \in Heap(OutBuffer(l, v)),
         ControllerReceive(l, v, f), UNCHANGED randomization
  PROVE  NetInv'
<1> DEFINE here == OutBuffer(l, v)
           i == f.msg.src
           k == f.msg.id
<1>0. TypeOK /\ BuffersOK /\ AsSent /\ OnlySent /\ InOrderOnce BY Zenon DEF NetInv
<1>1. now \in Nat /\ randomization \in BOOLEAN BY Zenon, <1>0 DEF TypeOK
<1>2. here \in Buffer /\ here[1] = "out" BY Zenon, Places
<1>3. k \in Nat /\ i \in InPort BY Zenon, <1>0, <1>2, Held
<1>4. IsFront(buffer[here], f) /\ f \in buffer[here].m_prio_heap BY Zenon DEF ControllerReceive, IsFront
<1>5. \A n \in Heap(here) : n # f /\ n.msg.src = i => k < n.msg.id /\ n.msg.id \in Nat
  <2>1. buffer[here] \in MessageBuffers /\ HeapOK(buffer[here])
    BY Zenon, <1>0, <1>2 DEF BuffersOK, BufferOK
  <2> QED BY Zenon, <1>0, <1>2, <1>4, <2>1, FrontFirst, Held DEF Heap
<1>6. /\ buffer' = [buffer EXCEPT ![here] = pop(@, f, now)]
      /\ received' = [received EXCEPT ![i][v][l] = k]
      /\ UNCHANGED <<now, scheduled, m_units_remaining, bw_remaining, sent, randomization>>
  BY Zenon DEF ControllerReceive
<1>7. /\ buffer'[here] = pop(buffer[here], f, now)
      /\ \A b \in Buffer \ {here} : buffer'[b] = buffer[b]
      /\ buffer' = [b \in Buffer |-> buffer'[b]]
  BY Zenon, <1>0, <1>2, <1>6 DEF TypeOK
<1>20. received \in [InPort -> [Vnet -> [Link -> Nat]]] BY Zenon, <1>0 DEF TypeOK
<1>8. /\ received'[i][v][l] = k
      /\ \A j \in InPort, w \in Vnet, x \in Link :
           j # i \/ w # v \/ x # l => received'[j][w][x] = received[j][w][x]
  <2> HIDE DEF i, k
  <2> QED BY <1>3, <1>6, <1>20
<1> DEFINE in == Waiting(Heap(InBuffer(i, v)), l)
           mid == Ids(Heap(MidBuffer(l, v)), i)
           out == Ids(Heap(here), i)
           all == Outstanding(i, v, l)
<1>9. InLine(in, mid, out \ {k}, all \ {k}) /\ k \in all /\ \A x \in all \ {k} : k < x
  <2>1. InLine(in, mid, out, all) BY Zenon, <1>0, <1>3 DEF InOrderOnce
  <2>2. in \in SUBSET Nat /\ mid \in SUBSET Nat /\ out \in SUBSET Nat
    BY Zenon, <1>0, <1>2, <1>3, Held, NumbersNat, Places
  <2>3. k \in out BY Zenon DEF Ids
  <2>4. \A x \in out : x # k => k < x BY Zenon, <1>5 DEF Ids
  <2> HIDE DEF in, mid, out, all, k
  <2>5. k \in Nat BY Zenon, <1>3 DEF k
  <2>6. InLine(in, mid, out \ {k}, all \ {k})
    BY Zenon, <2>1, <2>2, <2>3, <2>4, <2>5, LineOut
  <2>7. k \in all
    BY Zenon, <2>1, <2>2, <2>3, <2>4, <2>5, LineOut
  <2>8. \A m \in all : m # k => k < m
    BY Zenon, <2>1, <2>3, <2>4 DEF InLine
  <2> QED BY Zenon, <2>6, <2>7, <2>8
<1>10. BufferOK(buffer'[here], MaxSize["out"], Latency[here], now, randomization)
  <2>1. MaxSize["out"] \in Nat \cup {Infinite} /\ Latency[here] \in Nat BY Zenon, <1>2, StageTypes
  <2>2. BufferOK(buffer[here], MaxSize["out"], Latency[here], now, randomization)
    BY Zenon, <1>0, <1>2 DEF BuffersOK
  <2> HIDE DEF here
  <2> QED BY <1>1, <1>4, <1>7, <2>1, <2>2, PopOK
<1>11. BuffersOK'
  <2> HIDE DEF here
  <2>1. \A b \in Buffer : BufferOK(buffer'[b], MaxSize[b[1]], Latency[b], now, randomization)
    BY Zenon, <1>0, <1>2, <1>7, <1>10 DEF BuffersOK
  <2> QED BY Zenon, <1>6, <2>1 DEF BuffersOK
<1>12. TypeOK'
  <2>1. buffer' \in [Buffer -> MessageBuffers]
    BY Zenon, <1>7, <1>11 DEF BuffersOK, BufferOK
  <2>2. received' \in [InPort -> [Vnet -> [Link -> Nat]]] BY Zenon, <1>3, <1>6, <1>20
  <2> QED BY Zenon, <1>0, <1>6, <2>1, <2>2 DEF TypeOK
<1>13. /\ Heap(here)' = Heap(here) \ {f}
       /\ \A b \in Buffer \ {here} : Heap(b)' = Heap(b)
  BY SMTT(40), <1>0, <1>2, <1>7 DEF Heap, pop, TypeOK, MessageBuffers
<1>14. AsSent'
  <2>1. \A j \in InPort, w \in Vnet : Heap(InBuffer(j, w))' = Heap(InBuffer(j, w))
    BY <1>13, Places
  <2> QED BY <1>0, <1>6, <2>1 DEF AsSent, Heap
<1>15. sent[i][v] \in Seq(SUBSET Link) /\ received[i][v][l] \in Nat BY <1>0, <1>3 DEF TypeOK
<1>19. /\ DOMAIN sent[i][v] = 1 .. Len(sent[i][v]) /\ Len(sent[i][v]) \in Nat
       /\ k \in DOMAIN sent[i][v] /\ k > received[i][v][l]
  <2>1. k \in Outstanding(i, v, l) BY Zenon, <1>9
  <2> HIDE DEF i, k
  <2> QED BY <1>15, <2>1 DEF Outstanding
<1>16. OnlySent'
  <2>1. k <= Len(sent[i][v]) BY <1>19
  <2> QED BY <1>0, <1>3, <1>6, <1>8, <2>1 DEF OnlySent
<1>17. Outstanding(i, v, l)' = Outstanding(i, v, l) \ {k}
  <2>1. k > received[i][v][l] /\ DOMAIN sent[i][v] \subseteq Nat BY <1>19
  <2>2. \A x \in Outstanding(i, v, l) : x # k => x > k BY Zenon, <1>9
  <2>3. Outstanding(i, v, l)' = {x \in DOMAIN sent[i][v] : l \in sent[i][v][x] /\ x > k}
    BY Zenon, <1>6, <1>8 DEF Outstanding
  <2> HIDE DEF k, i
  <2> QED BY SMTT(40), <1>3, <1>15, <2>1, <2>2, <2>3 DEF Outstanding
<1>18. InOrderOnce'
  <2> SUFFICES ASSUME NEW j \in InPort, NEW w \in Vnet, NEW x \in Link
               PROVE  InLine(Waiting(Heap(InBuffer(j, w))', x), Ids(Heap(MidBuffer(x, w))', j),
                             Ids(Heap(OutBuffer(x, w))', j), Outstanding(j, w, x)')
    BY Zenon DEF InOrderOnce, Heap
  <2>1. InLine(Waiting(Heap(InBuffer(j, w)), x), Ids(Heap(MidBuffer(x, w)), j),
               Ids(Heap(OutBuffer(x, w)), j), Outstanding(j, w, x))
    BY Zenon, <1>0 DEF InOrderOnce
  <2>2. /\ Heap(InBuffer(j, w))' = Heap(InBuffer(j, w))
        /\ Heap(MidBuffer(x, w))' = Heap(MidBuffer(x, w))
    BY <1>13, Places
  <2>3. j # i \/ w # v \/ x # l => Outstanding(j, w, x)' = Outstanding(j, w, x)
    BY Zenon, <1>6, <1>8 DEF Outstanding
  <2>4. CASE w # v \/ x # l
    <3>1. OutBuffer(x, w) \in Buffer \ {here} BY <2>4, Places
    <3> QED BY Zenon, <1>13, <2>1, <2>2, <2>3, <2>4, <3>1
  <2>5. CASE w = v /\ x = l
    <3>1. Ids(Heap(here) \ {f}, j) =
            IF f.msg.src = j THEN Ids(Heap(here), j) \ {f.msg.id} ELSE Ids(Heap(here), j)
      <4>1. \A n \in Heap(here) : n # f /\ n.msg.src = f.msg.src => n.msg.id # f.msg.id
        BY <1>3, <1>5
      <4> HIDE DEF here
      <4> QED BY Zenon, <4>1, IdsRemove DEF here
    <3>2. CASE j # i BY Zenon, <1>13, <2>1, <2>2, <2>3, <2>5, <3>1, <3>2
    <3>3. CASE j = i BY Zenon, <1>9, <1>13, <1>17, <2>2, <2>5, <3>1, <3>3
    <3> QED BY Zenon, <3>2, <3>3
  <2> QED BY Zenon, <2>4, <2>5
<1> QED BY Zenon, <1>11, <1>12, <1>14, <1>16, <1>18 DEF NetInv

(* The throttle spends bandwidth, and keeps what it still has to send. *)
LEMMA SpendType ==
  ASSUME TypeOK, NEW l \in Link, NEW v \in Vnet, NEW units \in Nat, Spend(l, v, units)
  PROVE  m_units_remaining' \in [Link -> [Vnet -> Nat]] /\ bw_remaining' \in 0 .. Bandwidth
<1>1. m_units_remaining \in [Link -> [Vnet -> Nat]] /\ bw_remaining \in 0 .. Bandwidth /\ Bandwidth \in Nat
  BY Zenon, NetworkAssumption DEF TypeOK
<1>2. (IF units > bw_remaining THEN units - bw_remaining ELSE 0) \in Nat BY <1>1
<1>3. m_units_remaining' \in [Link -> [Vnet -> Nat]] BY Zenon, <1>1, <1>2 DEF Spend
<1>4. bw_remaining' \in 0 .. Bandwidth BY <1>1 DEF Spend
<1> QED BY Zenon, <1>3, <1>4

-----------------------------------------------------------------------------
(* The other actions *)

(* Empty buffers. *)
LEMMA InitOK ==
  ASSUME Init PROVE NetInv
<1>1. NewBuffer \in MessageBuffers BY DEF NewBuffer, MessageBuffers
<1>2. IsFiniteSet({}) /\ Cardinality({}) = 0 BY Zenon, FS_EmptySet
<1>3. \A b \in Buffer : buffer[b] = NewBuffer /\ Heap(b) = {} BY Zenon DEF Init, Heap, NewBuffer
<1>4. BuffersOK
  <2> SUFFICES ASSUME NEW b \in Buffer
               PROVE  BufferOK(NewBuffer, MaxSize[b[1]], Latency[b], 0, randomization)
    BY Zenon, <1>3 DEF BuffersOK, Init
  <2>1. MaxSize[b[1]] \in Nat \cup {Infinite} /\ Latency[b] \in Nat BY Zenon, StageTypes
  <2>2. HeapOK(NewBuffer) BY Zenon, <1>2 DEF HeapOK, NewBuffer
  <2>3. SizeOK(NewBuffer, MaxSize[b[1]], 0)
    BY <2>1 DEF SizeOK, VisibleSize, NewBuffer
  <2>4. TimeOK(NewBuffer, Latency[b], 0, randomization)
    BY <2>1 DEF TimeOK, NewBuffer
  <2> QED BY Zenon, <1>1, <2>2, <2>3, <2>4 DEF BufferOK
<1>5. TypeOK
  <2>1. <<>> \in Seq(SUBSET Link) OBVIOUS
  <2> QED BY <1>1, <2>1, NetworkAssumption DEF TypeOK, Init
<1>6. AsSent BY Zenon, <1>3, Places DEF AsSent
<1>7. OnlySent BY DEF OnlySent, Init
<1>8. InOrderOnce
  <2> SUFFICES ASSUME NEW i \in InPort, NEW v \in Vnet, NEW l \in Link
               PROVE  InLine(Waiting(Heap(InBuffer(i, v)), l), Ids(Heap(MidBuffer(l, v)), i),
                             Ids(Heap(OutBuffer(l, v)), i), Outstanding(i, v, l))
    BY Zenon DEF InOrderOnce
  <2>1. Waiting(Heap(InBuffer(i, v)), l) = {} BY Zenon, <1>3, Places DEF Waiting
  <2>2. Ids(Heap(MidBuffer(l, v)), i) = {} /\ Ids(Heap(OutBuffer(l, v)), i) = {}
    BY Zenon, <1>3, Places DEF Ids
  <2>3. Outstanding(i, v, l) = {} BY DEF Outstanding, Init
  <2> QED BY Zenon, <2>1, <2>2, <2>3 DEF InLine
<1> QED BY Zenon, <1>4, <1>5, <1>6, <1>7, <1>8 DEF NetInv

(* Steps that move no message. *)
LEMMA QuietOK ==
  ASSUME NetInv, UNCHANGED <<buffer, now, randomization, sent, received>>,
         scheduled' \in [Consumer -> SUBSET Nat],
         m_units_remaining' \in [Link -> [Vnet -> Nat]], bw_remaining' \in 0 .. Bandwidth
  PROVE  NetInv'
<1>0. TypeOK /\ BuffersOK /\ AsSent /\ OnlySent /\ InOrderOnce BY Zenon DEF NetInv
<1>1. TypeOK' BY Zenon, <1>0 DEF TypeOK
<1>2. BuffersOK' BY Zenon, <1>0 DEF BuffersOK
<1>3. AsSent' BY <1>0 DEF AsSent, Heap
<1>4. OnlySent' BY Zenon, <1>0 DEF OnlySent
<1>5. InOrderOnce' BY Zenon, <1>0 DEF InOrderOnce, Heap, Outstanding
<1> QED BY Zenon, <1>1, <1>2, <1>3, <1>4, <1>5 DEF NetInv

(* A new cycle: pops now count, and the visible size is the size. *)
LEMMA TickOK ==
  ASSUME NetInv, Tick, UNCHANGED randomization
  PROVE  NetInv'
<1>0. TypeOK /\ BuffersOK /\ AsSent /\ OnlySent /\ InOrderOnce BY Zenon DEF NetInv
<1>1. now \in Nat /\ now' = now + 1 BY Zenon, <1>0 DEF TypeOK, Tick
<1>2. UNCHANGED <<scheduled, buffer, m_units_remaining, bw_remaining, sent, received, randomization>>
  BY Zenon DEF Tick, locals, history
<1>3. BuffersOK'
  <2> SUFFICES ASSUME NEW b \in Buffer
               PROVE  BufferOK(buffer[b], MaxSize[b[1]], Latency[b], now + 1, randomization)
    BY Zenon, <1>1, <1>2 DEF BuffersOK
  <2> DEFINE q == buffer[b]
  <2>1. BufferOK(q, MaxSize[b[1]], Latency[b], now, randomization) BY Zenon, <1>0 DEF BuffersOK
  <2>2. q \in MessageBuffers /\ HeapOK(q) /\ SizeOK(q, MaxSize[b[1]], now)
        /\ TimeOK(q, Latency[b], now, randomization)
    BY Zenon, <2>1 DEF BufferOK
  <2>3. MaxSize[b[1]] \in Nat \cup {Infinite} /\ Latency[b] \in Nat BY Zenon, StageTypes
  <2>4. /\ q.m_time_last_time_enqueue \in Nat /\ q.m_time_last_time_pop \in Nat
        /\ q.m_size \in Int /\ q.m_last_arrival_time \in Nat
    BY Zenon, <2>2 DEF MessageBuffers
  <2> HIDE DEF q
  <2>5. SizeOK(q, MaxSize[b[1]], now + 1) BY <1>1, <2>2, <2>3, <2>4 DEF SizeOK, VisibleSize
  <2>6. TimeOK(q, Latency[b], now + 1, randomization) BY <1>1, <2>2, <2>3, <2>4 DEF TimeOK
  <2> QED BY Zenon, <2>2, <2>5, <2>6 DEF BufferOK, q
<1>4. TypeOK' BY <1>0, <1>1, <1>2 DEF TypeOK
<1>5. AsSent' BY <1>0, <1>2 DEF AsSent, Heap
<1>6. OnlySent' BY Zenon, <1>0, <1>2 DEF OnlySent
<1>7. InOrderOnce' BY Zenon, <1>0, <1>2 DEF InOrderOnce, Heap, Outstanding
<1> QED BY Zenon, <1>3, <1>4, <1>5, <1>6, <1>7 DEF NetInv

-----------------------------------------------------------------------------
(***************************************************************************)
(* The switch, the throttles and the theorems.                             *)
(***************************************************************************)
(* The switch copies: the message goes behind all others of its line. *)
LEMMA SwitchMoveOK ==
  ASSUME NetInv, NEW i \in InPort, NEW v \in Vnet, NEW f \in Heap(InBuffer(i, v)),
         SwitchMove(i, v, f), UNCHANGED randomization
  PROVE  NetInv'
<1> DEFINE here == InBuffer(i, v)
           k == f.msg.id
           dest == f.msg.dest
           copy(l) == [f.msg EXCEPT !.dest = {l}]
<1>0. TypeOK /\ BuffersOK /\ AsSent /\ OnlySent /\ InOrderOnce BY Zenon DEF NetInv
<1>1. now \in Nat /\ randomization \in BOOLEAN BY Zenon, <1>0 DEF TypeOK
<1>2. here \in Buffer /\ here[1] = "in" BY Zenon, Places
<1>3. /\ f.msg \in Message /\ k \in Nat \ {0} /\ dest \in SUBSET Link /\ f.msg.src = i
      /\ f \in HeapNode
  BY <1>0, <1>2, Held DEF AsSent, Message
<1>4. IsFront(buffer[here], f) /\ f \in buffer[here].m_prio_heap BY Zenon DEF SwitchMove, IsFront
<1>5. \A n \in Heap(here) : n # f => k < n.msg.id
  <2> SUFFICES ASSUME NEW n \in Heap(here), n # f PROVE k < n.msg.id BY Zenon
  <2>1. n.msg.src = f.msg.src BY <1>0, <1>3 DEF AsSent
  <2>2. buffer[here] \in MessageBuffers /\ HeapOK(buffer[here])
    BY Zenon, <1>0, <1>2 DEF BuffersOK, BufferOK
  <2> QED BY Zenon, <1>4, <2>1, <2>2, FrontFirst DEF Heap
<1>6. \A l \in dest : Available(MidBuffer(l, v)) BY Zenon DEF SwitchMove, Enough
<1>7. PICK t :
        /\ \A l \in dest : t[l] \in AcceptedTimes(MidBuffer(l, v))
        /\ buffer' = [b \in Buffer |->
             IF b = here THEN pop(buffer[b], f, now)
             ELSE IF b \in {MidBuffer(l, v) : l \in dest}
               THEN enqueue(buffer[b], copy(b[2]), t[b[2]], now)
             ELSE buffer[b]]
        /\ scheduled' = [c \in Consumer |->
             IF \E l \in dest : c = Throttle(l) THEN scheduled[c] \cup {t[c[2]]}
                                              ELSE scheduled[c]]
  BY Zenon DEF SwitchMove
<1>8. UNCHANGED <<now, m_units_remaining, bw_remaining, sent, received, randomization>>
  BY Zenon DEF SwitchMove, locals, history
<1>9. /\ buffer'[here] = pop(buffer[here], f, now)
      /\ \A l \in dest : buffer'[MidBuffer(l, v)] = enqueue(buffer[MidBuffer(l, v)], copy(l), t[l], now)
      /\ \A b \in Buffer \ {here} :
           b \notin {MidBuffer(l, v) : l \in dest} => buffer'[b] = buffer[b]
      /\ buffer' = [b \in Buffer |-> buffer'[b]]
  <2>1. \A l \in dest : MidBuffer(l, v) \in Buffer /\ MidBuffer(l, v) # here /\ MidBuffer(l, v)[2] = l
    BY <1>3, Places
  <2> HIDE DEF here, dest, copy
  <2> QED BY Zenon, <1>2, <1>7, <2>1
<1>10. \A l \in dest : copy(l) \in Message /\ copy(l).src = i /\ copy(l).id = k
  BY Zenon, <1>3 DEF Message
<1>11. \A l \in Link :
         /\ Waiting(Heap(here), l) \in SUBSET Nat /\ Ids(Heap(MidBuffer(l, v)), i) \in SUBSET Nat
         /\ Ids(Heap(OutBuffer(l, v)), i) \in SUBSET Nat
  BY Zenon, <1>0, <1>2, Held, NumbersNat, Places
<1>12. \A l \in dest :
         /\ InLine(Waiting(Heap(here), l) \ {k}, Ids(Heap(MidBuffer(l, v)), i) \cup {k},
                   Ids(Heap(OutBuffer(l, v)), i), Outstanding(i, v, l))
         /\ \A x \in Ids(Heap(MidBuffer(l, v)), i) : x < k
  <2> SUFFICES ASSUME NEW l \in dest
               PROVE  /\ InLine(Waiting(Heap(here), l) \ {k}, Ids(Heap(MidBuffer(l, v)), i) \cup {k},
                                Ids(Heap(OutBuffer(l, v)), i), Outstanding(i, v, l))
                      /\ \A x \in Ids(Heap(MidBuffer(l, v)), i) : x < k
    BY Zenon
  <2>1. l \in Link BY Zenon, <1>3
  <2>2. InLine(Waiting(Heap(here), l), Ids(Heap(MidBuffer(l, v)), i),
               Ids(Heap(OutBuffer(l, v)), i), Outstanding(i, v, l))
    BY Zenon, <1>0, <2>1 DEF InOrderOnce
  <2>3. k \in Waiting(Heap(here), l) BY Zenon DEF Waiting
  <2>4. \A x \in Waiting(Heap(here), l) \ {k} : k < x BY Zenon, <1>5 DEF Waiting
  <2> DEFINE in == Waiting(Heap(here), l)
             mid == Ids(Heap(MidBuffer(l, v)), i)
             out == Ids(Heap(OutBuffer(l, v)), i)
             all == Outstanding(i, v, l)
  <2>5. in \in SUBSET Nat /\ mid \in SUBSET Nat /\ out \in SUBSET Nat BY Zenon, <1>11, <2>1
  <2> HIDE DEF in, mid, out, all, k
  <2>6. InLine(in \ {k}, mid \cup {k}, out, all) /\ \A x \in mid : x < k
    BY <2>2, <2>3, <2>4, <2>5, LineIn DEF in, mid, out, all
  <2> QED BY Zenon, <2>6 DEF in, mid, out, all
<1>13. \A l \in dest : /\ t[l] \in Nat
                       /\ BufferOK(buffer'[MidBuffer(l, v)], MaxSize["mid"], Latency[MidBuffer(l, v)], now, randomization)
  <2> SUFFICES ASSUME NEW l \in dest
               PROVE  /\ t[l] \in Nat
                      /\ BufferOK(buffer'[MidBuffer(l, v)], MaxSize["mid"], Latency[MidBuffer(l, v)], now, randomization)
    BY Zenon
  <2> DEFINE mid == MidBuffer(l, v)
  <2>1. mid \in Buffer /\ mid[1] = "mid" BY Zenon, <1>3, Places
  <2>2. MaxSize["mid"] \in Nat \cup {Infinite} /\ Latency[mid] \in Nat BY Zenon, <2>1, StageTypes
  <2>3. BufferOK(buffer[mid], MaxSize["mid"], Latency[mid], now, randomization)
    BY Zenon, <1>0, <2>1 DEF BuffersOK
  <2>4. areNSlotsAvailable(buffer[mid], MaxSize["mid"], 1, now)
    BY Zenon, <1>6, <2>1 DEF Available
  <2>5. /\ t[l] \in ArrivalTimes(buffer[mid], Latency[mid], now, randomization)
        /\ t[l] >= buffer[mid].m_last_arrival_time
    BY Zenon, <1>7, <2>1 DEF AcceptedTimes
  <2>6. copy(l) \in Message /\ copy(l).src = i /\ copy(l).id = k BY Zenon, <1>10
  <2>7. \A n \in buffer[mid].m_prio_heap : n.msg.src = i => n.msg.id < k
    BY Zenon, <1>12 DEF Ids, Heap
  <2>8. buffer'[mid] = enqueue(buffer[mid], copy(l), t[l], now) BY Zenon, <1>9
  <2> HIDE DEF mid, copy, k
  <2>9. \A n \in buffer[mid].m_prio_heap : n.msg.src = copy(l).src => n.msg.id < copy(l).id
    BY Zenon, <2>6, <2>7
  <2>10. t[l] \in Nat /\ BufferOK(enqueue(buffer[mid], copy(l), t[l], now), MaxSize["mid"], Latency[mid], now, randomization)
    BY Zenon, <1>1, <2>2, <2>3, <2>4, <2>5, <2>6, <2>9, EnqueueOK
  <2> QED BY Zenon, <2>8, <2>10 DEF mid
<1>14. BufferOK(buffer'[here], MaxSize["in"], Latency[here], now, randomization)
  <2>1. MaxSize["in"] \in Nat \cup {Infinite} /\ Latency[here] \in Nat BY Zenon, <1>2, StageTypes
  <2>2. BufferOK(buffer[here], MaxSize["in"], Latency[here], now, randomization)
    BY Zenon, <1>0, <1>2 DEF BuffersOK
  <2> HIDE DEF here
  <2> QED BY <1>1, <1>4, <1>9, <2>1, <2>2, PopOK
<1>15. BuffersOK'
  <2>1. \A b \in Buffer : BufferOK(buffer'[b], MaxSize[b[1]], Latency[b], now, randomization)
    <3> SUFFICES ASSUME NEW b \in Buffer
                 PROVE  BufferOK(buffer'[b], MaxSize[b[1]], Latency[b], now, randomization)
      BY Zenon
    <3>1. CASE b = here BY Zenon, <1>2, <1>14, <3>1
    <3>2. CASE \E l \in dest : b = MidBuffer(l, v)
      <4>1. \A l : MidBuffer(l, v)[1] = "mid"
        BY Zenon DEF MidBuffer
      <4> QED BY Zenon, <1>13, <3>2, <4>1
    <3>3. CASE b # here /\ ~\E l \in dest : b = MidBuffer(l, v)
      BY Zenon, <1>0, <1>9, <3>3 DEF BuffersOK
    <3> QED BY Zenon, <3>1, <3>2, <3>3
  <2> QED BY Zenon, <1>8, <2>1 DEF BuffersOK
<1>16. TypeOK'
  <2>1. buffer' \in [Buffer -> MessageBuffers]
    BY Zenon, <1>9, <1>15 DEF BuffersOK, BufferOK
  <2>2. scheduled' \in [Consumer -> SUBSET Nat]
    <3>1. \A l : Throttle(l)[2] = l BY Zenon DEF Throttle
    <3>2. \A c \in Consumer : scheduled'[c] \in SUBSET Nat
      <4> SUFFICES ASSUME NEW c \in Consumer PROVE scheduled'[c] \in SUBSET Nat BY Zenon
      <4>1. scheduled[c] \in SUBSET Nat BY Zenon, <1>0 DEF TypeOK
      <4>2. CASE \E l \in dest : c = Throttle(l)
        <5>1. t[c[2]] \in Nat BY Zenon, <1>13, <3>1, <4>2
        <5> QED BY Zenon, <1>7, <4>1, <4>2, <5>1
      <4>3. CASE ~\E l \in dest : c = Throttle(l) BY Zenon, <1>7, <4>1, <4>3
      <4> QED BY Zenon, <4>2, <4>3
    <3>3. scheduled' = [c \in Consumer |-> scheduled'[c]] BY Zenon, <1>7
    <3> QED BY Zenon, <3>2, <3>3
  <2> QED BY Zenon, <1>0, <1>8, <2>1, <2>2 DEF TypeOK
<1>17. /\ Heap(here)' = Heap(here) \ {f}
       /\ \A j \in InPort, w \in Vnet : j # i \/ w # v => Heap(InBuffer(j, w))' = Heap(InBuffer(j, w))
       /\ \A l \in Link, w \in Vnet : Heap(OutBuffer(l, w))' = Heap(OutBuffer(l, w))
       /\ \A l \in Link, w \in Vnet :
            l \notin dest \/ w # v => Heap(MidBuffer(l, w))' = Heap(MidBuffer(l, w))
  <2>1. Heap(here)' = Heap(here) \ {f}
    BY <1>0, <1>2, <1>9 DEF Heap, pop, TypeOK, MessageBuffers
  <2>2. \A j \in InPort, w \in Vnet : j # i \/ w # v => Heap(InBuffer(j, w))' = Heap(InBuffer(j, w))
    BY <1>9, Places DEF Heap
  <2>3. \A l \in Link, w \in Vnet : Heap(OutBuffer(l, w))' = Heap(OutBuffer(l, w))
    BY <1>9, Places DEF Heap
  <2>4. \A l \in Link, w \in Vnet :
          l \notin dest \/ w # v => Heap(MidBuffer(l, w))' = Heap(MidBuffer(l, w))
    BY <1>9, Places DEF Heap
  <2> QED BY Zenon, <2>1, <2>2, <2>3, <2>4
<1>18. \A l \in dest : \E new : /\ Heap(MidBuffer(l, v))' = Heap(MidBuffer(l, v)) \cup {new}
                                /\ new.msg.src = i /\ new.msg.id = k
  <2> SUFFICES ASSUME NEW l \in dest
               PROVE  \E new : /\ Heap(MidBuffer(l, v))' = Heap(MidBuffer(l, v)) \cup {new}
                              /\ new.msg.src = i /\ new.msg.id = k
    BY Zenon
  <2> DEFINE node == [time |-> t[l], counter |-> buffer[MidBuffer(l, v)].m_msg_counter + 1, msg |-> copy(l)]
  <2>1. MidBuffer(l, v) \in Buffer BY Zenon, <1>3, Places
  <2>2. buffer[MidBuffer(l, v)] \in MessageBuffers BY Zenon, <1>0, <2>1, Held
  <2>4. Heap(MidBuffer(l, v))' = enqueue(buffer[MidBuffer(l, v)], copy(l), t[l], now).m_prio_heap
    BY Zenon, <1>9 DEF Heap
  <2>3. node.msg.src = i /\ node.msg.id = k BY Zenon, <1>10
  <2> HIDE DEF copy
  <2>5. Heap(MidBuffer(l, v))' = Heap(MidBuffer(l, v)) \cup {node}
    <3>1. enqueue(buffer[MidBuffer(l, v)], copy(l), t[l], now).m_prio_heap =
            buffer[MidBuffer(l, v)].m_prio_heap \cup {node}
      BY Zenon, <2>2 DEF enqueue, MessageBuffers
    <3> QED BY Zenon, <2>4, <3>1 DEF Heap
  <2> HIDE DEF node
  <2> QED BY Zenon, <2>3, <2>5
<1>19. AsSent'
  <2> SUFFICES ASSUME NEW j \in InPort, NEW w \in Vnet, NEW n \in Heap(InBuffer(j, w))'
               PROVE  /\ n.msg.src = j
                      /\ n.msg.id \in DOMAIN sent[j][w] /\ n.msg.dest = sent[j][w][n.msg.id]
    BY <1>8 DEF AsSent, Heap
  <2>1. n \in Heap(InBuffer(j, w)) BY Zenon, <1>17
  <2> QED BY <1>0, <2>1 DEF AsSent
<1>20. InOrderOnce'
  <2> SUFFICES ASSUME NEW j \in InPort, NEW w \in Vnet, NEW l \in Link
               PROVE  InLine(Waiting(Heap(InBuffer(j, w))', l), Ids(Heap(MidBuffer(l, w))', j),
                             Ids(Heap(OutBuffer(l, w))', j), Outstanding(j, w, l)')
    BY Zenon DEF InOrderOnce, Heap
  <2>1. InLine(Waiting(Heap(InBuffer(j, w)), l), Ids(Heap(MidBuffer(l, w)), j),
               Ids(Heap(OutBuffer(l, w)), j), Outstanding(j, w, l))
    BY Zenon, <1>0 DEF InOrderOnce
  <2>2. Outstanding(j, w, l)' = Outstanding(j, w, l) BY Zenon, <1>8 DEF Outstanding
  <2>3. Heap(OutBuffer(l, w))' = Heap(OutBuffer(l, w)) BY Zenon, <1>17
  <2>4. CASE w # v BY Zenon, <1>17, <2>1, <2>2, <2>3, <2>4
  <2>5. CASE w = v /\ l \in dest
    <3>1. PICK new : /\ Heap(MidBuffer(l, v))' = Heap(MidBuffer(l, v)) \cup {new}
                     /\ new.msg.src = i /\ new.msg.id = k
      BY Zenon, <1>18, <2>5
    <3>2. Ids(Heap(MidBuffer(l, v)) \cup {new}, j) =
            IF new.msg.src = j THEN Ids(Heap(MidBuffer(l, v)), j) \cup {new.msg.id}
                               ELSE Ids(Heap(MidBuffer(l, v)), j)
      BY ZenonT(40), IdsAdd
    <3>3. CASE j # i BY Zenon, <1>17, <2>1, <2>2, <2>3, <2>5, <3>1, <3>2, <3>3
    <3>4. CASE j = i
      <4>1. Waiting(Heap(here) \ {f}, l) = Waiting(Heap(here), l) \ {k}
        <5>1. \A n \in Heap(here) : n # f => n.msg.id # f.msg.id
          BY <1>0, <1>2, <1>3, <1>5, Held
        <5> HIDE DEF here
        <5> QED BY Zenon, <2>5, <5>1, WaitingRemove DEF here
      <4>2. Ids(Heap(MidBuffer(l, v))', i) = Ids(Heap(MidBuffer(l, v)), i) \cup {k}
        BY Zenon, <3>1, <3>2, <3>4
      <4>3. Waiting(Heap(here)', l) = Waiting(Heap(here), l) \ {k}
        BY Zenon, <1>17, <4>1
      <4>4. InLine(Waiting(Heap(here), l) \ {k}, Ids(Heap(MidBuffer(l, v)), i) \cup {k},
                   Ids(Heap(OutBuffer(l, v)), i), Outstanding(i, v, l))
        BY Zenon, <1>12, <2>5
      <4> HIDE DEF k
      <4> QED BY Zenon, <2>2, <2>3, <2>5, <3>4, <4>2, <4>3, <4>4
    <3> QED BY Zenon, <3>3, <3>4
  <2>6. CASE w = v /\ l \notin dest
    <3>1. Waiting(Heap(here) \ {f}, l) = Waiting(Heap(here), l) BY Zenon, <2>6 DEF Waiting
    <3>2. Heap(MidBuffer(l, v))' = Heap(MidBuffer(l, v)) BY Zenon, <1>17, <2>6
    <3>3. CASE j # i BY Zenon, <1>17, <2>1, <2>2, <2>3, <2>6, <3>2, <3>3
    <3>4. CASE j = i BY Zenon, <1>17, <2>1, <2>2, <2>3, <2>6, <3>1, <3>2, <3>4
    <3> QED BY Zenon, <3>3, <3>4
  <2> QED BY Zenon, <2>4, <2>5, <2>6
<1>21. OnlySent' BY Zenon, <1>0, <1>8 DEF OnlySent
<1> QED BY Zenon, <1>15, <1>16, <1>19, <1>20, <1>21 DEF NetInv

(* The throttle passes a message on. *)
LEMMA ThrottleMoveOK ==
  ASSUME NetInv, NEW l \in Link, NEW v \in Vnet, NEW f \in Heap(MidBuffer(l, v)),
         ThrottleMove(l, v, f), UNCHANGED randomization
  PROVE  NetInv'
<1> DEFINE here == MidBuffer(l, v)
           there == OutBuffer(l, v)
           i == f.msg.src
           k == f.msg.id
<1>0. TypeOK /\ BuffersOK /\ AsSent /\ OnlySent /\ InOrderOnce BY Zenon DEF NetInv
<1>1. now \in Nat /\ randomization \in BOOLEAN BY Zenon, <1>0 DEF TypeOK
<1>2. here \in Buffer /\ here[1] = "mid" /\ there \in Buffer /\ there[1] = "out" /\ here # there
  BY Places
<1>3. f.msg \in Message /\ k \in Nat /\ i \in InPort /\ f.msg.size \in Nat
  BY Zenon, <1>0, <1>2, Held DEF Message
<1>4. IsFront(buffer[here], f) /\ f \in buffer[here].m_prio_heap BY Zenon DEF ThrottleMove, IsFront
<1>5. \A n \in Heap(here) : n # f /\ n.msg.src = i => k < n.msg.id /\ n.msg.id \in Nat
  <2>1. buffer[here] \in MessageBuffers /\ HeapOK(buffer[here])
    BY Zenon, <1>0, <1>2 DEF BuffersOK, BufferOK
  <2> QED BY Zenon, <1>0, <1>2, <1>4, <2>1, FrontFirst, Held DEF Heap
<1>6. PICK t \in AcceptedTimes(there) :
        /\ buffer' = [buffer EXCEPT ![here] = pop(@, f, now), ![there] = enqueue(@, f.msg, t, now)]
        /\ scheduled' = [scheduled EXCEPT ![Controller(l)] = @ \cup {t}]
  BY Zenon DEF ThrottleMove
<1>7. Available(there) /\ Spend(l, v, f.msg.size)
      /\ UNCHANGED <<now, sent, received, randomization>>
  BY Zenon DEF ThrottleMove, history
<1>8. /\ buffer'[here] = pop(buffer[here], f, now)
      /\ buffer'[there] = enqueue(buffer[there], f.msg, t, now)
      /\ \A b \in Buffer \ {here, there} : buffer'[b] = buffer[b]
      /\ buffer' = [b \in Buffer |-> buffer'[b]]
  BY Zenon, <1>0, <1>2, <1>6 DEF TypeOK
<1> DEFINE in == Waiting(Heap(InBuffer(i, v)), l)
           mid == Ids(Heap(here), i)
           out == Ids(Heap(there), i)
           all == Outstanding(i, v, l)
<1>9. InLine(in, mid \ {k}, out \cup {k}, all) /\ \A x \in out : x < k
  <2>1. InLine(in, mid, out, all) BY Zenon, <1>0, <1>3 DEF InOrderOnce
  <2>2. in \in SUBSET Nat /\ mid \in SUBSET Nat /\ out \in SUBSET Nat
    BY Zenon, <1>0, <1>2, <1>3, Held, NumbersNat, Places
  <2>3. k \in mid BY Zenon DEF Ids
  <2>4. \A x \in mid \ {k} : k < x BY Zenon, <1>5 DEF Ids
  <2> HIDE DEF in, mid, out, all, k
  <2> QED BY Zenon, <2>1, <2>2, <2>3, <2>4, LineMid
<1>10. t \in Nat /\ BufferOK(buffer'[there], MaxSize["out"], Latency[there], now, randomization)
  <2>1. MaxSize["out"] \in Nat \cup {Infinite} /\ Latency[there] \in Nat BY Zenon, <1>2, StageTypes
  <2>2. BufferOK(buffer[there], MaxSize["out"], Latency[there], now, randomization)
    BY Zenon, <1>0, <1>2 DEF BuffersOK
  <2>3. areNSlotsAvailable(buffer[there], MaxSize["out"], 1, now)
    BY Zenon, <1>2, <1>7 DEF Available
  <2>4. /\ t \in ArrivalTimes(buffer[there], Latency[there], now, randomization)
        /\ t >= buffer[there].m_last_arrival_time
    BY Zenon, <1>2, <1>6 DEF AcceptedTimes
  <2>5. \A n \in buffer[there].m_prio_heap : n.msg.src = f.msg.src => n.msg.id < f.msg.id
    BY Zenon, <1>9 DEF Ids, Heap
  <2> DEFINE message == f.msg
  <2>6. message \in Message BY Zenon, <1>3
  <2>7. \A n \in buffer[there].m_prio_heap : n.msg.src = message.src => n.msg.id < message.id
    BY Zenon, <2>5
  <2>8. buffer'[there] = enqueue(buffer[there], message, t, now) BY Zenon, <1>8
  <2> HIDE DEF there, message
  <2> QED BY Zenon, <1>1, <2>1, <2>2, <2>3, <2>4, <2>6, <2>7, <2>8, EnqueueOK
<1>11. BufferOK(buffer'[here], MaxSize["mid"], Latency[here], now, randomization)
  <2>1. MaxSize["mid"] \in Nat \cup {Infinite} /\ Latency[here] \in Nat BY Zenon, <1>2, StageTypes
  <2>2. BufferOK(buffer[here], MaxSize["mid"], Latency[here], now, randomization)
    BY Zenon, <1>0, <1>2 DEF BuffersOK
  <2> HIDE DEF here
  <2> QED BY <1>1, <1>4, <1>8, <2>1, <2>2, PopOK
<1>12. BuffersOK'
  <2> HIDE DEF here, there
  <2>1. \A b \in Buffer : BufferOK(buffer'[b], MaxSize[b[1]], Latency[b], now, randomization)
    BY Zenon, <1>0, <1>2, <1>8, <1>10, <1>11 DEF BuffersOK
  <2> QED BY Zenon, <1>7, <2>1 DEF BuffersOK
<1>13. TypeOK'
  <2>1. buffer' \in [Buffer -> MessageBuffers]
    BY Zenon, <1>8, <1>12 DEF BuffersOK, BufferOK
  <2>2. scheduled' \in [Consumer -> SUBSET Nat]
    BY Zenon, <1>0, <1>6, <1>10 DEF TypeOK, Consumer, Controller
  <2>3. m_units_remaining' \in [Link -> [Vnet -> Nat]] /\ bw_remaining' \in 0 .. Bandwidth
    BY Zenon, <1>0, <1>3, <1>7, SpendType
  <2> QED BY Zenon, <1>0, <1>7, <2>1, <2>2, <2>3 DEF TypeOK
<1>14. /\ Heap(here)' = Heap(here) \ {f}
       /\ \E new : Heap(there)' = Heap(there) \cup {new} /\ new.msg = f.msg
       /\ \A b \in Buffer \ {here, there} : Heap(b)' = Heap(b)
  <2>1. Heap(here)' = Heap(here) \ {f}
    BY <1>0, <1>2, <1>8 DEF Heap, pop, TypeOK, MessageBuffers
  <2> DEFINE node == [time |-> t, counter |-> buffer[there].m_msg_counter + 1, msg |-> f.msg]
  <2>2. Heap(there)' = Heap(there) \cup {node}
    <3>1. buffer[there] \in MessageBuffers BY Zenon, <1>0, <1>2, Held
    <3> QED BY <1>8, <3>1, EnqueueHeap DEF Heap
  <2>3. node.msg = f.msg BY Zenon
  <2> HIDE DEF node
  <2> QED BY Zenon, <1>8, <2>1, <2>2, <2>3 DEF Heap
<1>15. AsSent'
  <2>1. \A j \in InPort, w \in Vnet : Heap(InBuffer(j, w))' = Heap(InBuffer(j, w))
    BY <1>14, Places
  <2> QED BY SMTT(40), <1>0, <1>7, <2>1 DEF AsSent, Heap
<1>16. InOrderOnce'
  <2> SUFFICES ASSUME NEW j \in InPort, NEW w \in Vnet, NEW x \in Link
               PROVE  InLine(Waiting(Heap(InBuffer(j, w))', x), Ids(Heap(MidBuffer(x, w))', j),
                             Ids(Heap(OutBuffer(x, w))', j), Outstanding(j, w, x)')
    BY Zenon DEF InOrderOnce, Heap
  <2>1. InLine(Waiting(Heap(InBuffer(j, w)), x), Ids(Heap(MidBuffer(x, w)), j),
               Ids(Heap(OutBuffer(x, w)), j), Outstanding(j, w, x))
    BY Zenon, <1>0 DEF InOrderOnce
  <2>2. Outstanding(j, w, x)' = Outstanding(j, w, x) BY Zenon, <1>7 DEF Outstanding
  <2>3. Heap(InBuffer(j, w))' = Heap(InBuffer(j, w)) BY <1>14, Places
  <2>4. CASE w # v \/ x # l
    <3>1. MidBuffer(x, w) \in Buffer \ {here, there} /\ OutBuffer(x, w) \in Buffer \ {here, there}
      BY <2>4, Places
    <3> QED BY Zenon, <1>14, <2>1, <2>2, <2>3, <3>1
  <2>5. CASE w = v /\ x = l
    <3>1. PICK new : Heap(there)' = Heap(there) \cup {new} /\ new.msg = f.msg BY Zenon, <1>14
    <3>2. Ids(Heap(there) \cup {new}, j) =
            IF new.msg.src = j THEN Ids(Heap(there), j) \cup {new.msg.id} ELSE Ids(Heap(there), j)
      BY ZenonT(40), IdsAdd
    <3>3. Ids(Heap(here) \ {f}, j) =
            IF f.msg.src = j THEN Ids(Heap(here), j) \ {f.msg.id} ELSE Ids(Heap(here), j)
      <4>1. \A n \in Heap(here) : n # f /\ n.msg.src = f.msg.src => n.msg.id # f.msg.id
        BY <1>3, <1>5, SMTT(40)
      <4> HIDE DEF here
      <4> QED BY Zenon, <4>1, IdsRemove DEF here
    <3>4. CASE j # i BY Zenon, <1>14, <2>1, <2>2, <2>3, <2>5, <3>1, <3>2, <3>3, <3>4
    <3>5. CASE j = i BY Zenon, <1>9, <1>14, <2>2, <2>3, <2>5, <3>1, <3>2, <3>3, <3>5
    <3> QED BY Zenon, <3>4, <3>5
  <2> QED BY Zenon, <2>4, <2>5
<1>17. OnlySent' BY Zenon, <1>0, <1>7 DEF OnlySent
<1> QED BY Zenon, <1>12, <1>13, <1>15, <1>16, <1>17 DEF NetInv

(* scheduleEvent and the start of a wakeup() keep the type of scheduled. *)
LEMMA ScheduledType ==
  ASSUME TypeOK, NEW c, NEW list, scheduleEvent(c) \/ Wakeup(c, list) \/ UNCHANGED scheduled
  PROVE  scheduled' \in [Consumer -> SUBSET Nat]
BY DEF TypeOK, scheduleEvent, Wakeup

(* All actions. *)
LEMMA NextOK ==
  ASSUME NetInv, Next PROVE NetInv'
<1>0. TypeOK /\ UNCHANGED randomization BY Zenon DEF NetInv, Next
<1>1. /\ m_units_remaining \in [Link -> [Vnet -> Nat]] /\ bw_remaining \in 0 .. Bandwidth
      /\ Bandwidth \in 0 .. Bandwidth
  BY <1>0, NetworkAssumption DEF TypeOK
<1>2. CASE Tick BY Zenon, <1>0, <1>2, TickOK
<1>3. CASE \E m \in Traffic : Send(m[1], m[2], m[3], m[4])
  <2>1. PICK m \in Traffic : Send(m[1], m[2], m[3], m[4]) BY Zenon, <1>3
  <2>2. m[1] \in InPort /\ m[2] \in Vnet /\ m[3] \in SUBSET Link /\ m[4] \in Nat \ {0}
    BY Zenon, NetworkAssumption
  <2> QED BY Zenon, <1>0, <2>1, <2>2, SendOK
<1>4. CASE SwitchStep
  <2>1. CASE SwitchWakeup
    BY Zenon, <1>0, <1>1, <2>1, QuietOK, ScheduledType DEF SwitchWakeup, locals, history
  <2>2. CASE SwitchReturn
    BY Zenon, <1>0, <1>1, <2>2, QuietOK, ScheduledType DEF SwitchReturn, locals, history
  <2>3. ASSUME NEW i \in InPort, NEW v \in Vnet, NEW f \in Heap(InBuffer(i, v)),
               SwitchMove(i, v, f)
        PROVE  NetInv'
    BY Zenon, <1>0, <2>3, SwitchMoveOK
  <2>4. ASSUME NEW i \in InPort, NEW v \in Vnet, NEW f, SwitchBlocked(i, v, f)
        PROVE  NetInv'
    BY Zenon, <1>0, <1>1, <2>4, QuietOK, ScheduledType DEF SwitchBlocked, locals, history
  <2> QED BY Zenon, <1>4, <2>1, <2>2, <2>3, <2>4 DEF SwitchStep, Heap
<1>5. ASSUME NEW l \in Link, ThrottleStep(l) PROVE NetInv'
  <2>1. CASE ThrottleWakeup(l)
    BY Zenon, <1>0, <1>1, <2>1, QuietOK, ScheduledType DEF ThrottleWakeup, history
  <2>2. CASE ThrottleReturn(l)
    BY Zenon, <1>0, <1>1, <2>2, QuietOK, ScheduledType DEF ThrottleReturn, locals, history
  <2>3. ASSUME NEW v \in Vnet, ThrottleSpend(l, v) PROVE NetInv'
    <3>1. m_units_remaining[l][v] \in Nat BY Zenon, <1>1
    <3> QED BY Zenon, <1>0, <1>1, <2>3, <3>1, QuietOK, ScheduledType, SpendType DEF ThrottleSpend, history
  <2>4. ASSUME NEW v \in Vnet, ThrottleBlocked(l, v) PROVE NetInv'
    BY Zenon, <1>0, <1>1, <2>4, QuietOK, ScheduledType DEF ThrottleBlocked, history
  <2>5. ASSUME NEW v \in Vnet, NEW f \in Heap(MidBuffer(l, v)), ThrottleMove(l, v, f) PROVE NetInv'
    BY Zenon, <1>0, <2>5, ThrottleMoveOK
  <2> QED BY Zenon, <1>5, <2>1, <2>2, <2>3, <2>4, <2>5 DEF ThrottleStep, Heap
<1>6. ASSUME NEW l \in Link, ControllerStep(l) PROVE NetInv'
  <2>1. CASE ControllerWakeup(l)
    BY Zenon, <1>0, <1>1, <2>1, QuietOK, ScheduledType DEF ControllerWakeup, history
  <2>2. CASE ControllerReturn(l)
    BY Zenon, <1>0, <1>1, <2>2, QuietOK, ScheduledType DEF ControllerReturn, locals, history
  <2>3. CASE ControllerIssue(l)
    BY Zenon, <1>0, <1>1, <2>3, QuietOK, ScheduledType DEF ControllerIssue, locals, history
  <2>4. ASSUME NEW v \in Vnet, ControllerResourceStall(l, v) PROVE NetInv'
    BY Zenon, <1>0, <1>1, <2>4, QuietOK, ScheduledType DEF ControllerResourceStall, locals, history
  <2>5. ASSUME NEW v \in Vnet, NEW f \in Heap(OutBuffer(l, v)), ControllerReceive(l, v, f) PROVE NetInv'
    BY Zenon, <1>0, <2>5, ControllerReceiveOK
  <2> QED BY Zenon, <1>6, <2>1, <2>2, <2>3, <2>4, <2>5 DEF ControllerStep, Heap
<1> QED BY Zenon, <1>2, <1>3, <1>4, <1>5, <1>6 DEF Next

-----------------------------------------------------------------------------
(* Theorems *)

(* NetInv is an invariant. *)
THEOREM NetInvariant == Spec => []NetInv
<1>1. Init => NetInv BY Zenon, InitOK
<1>2. NetInv /\ [Next]_vars => NetInv'
  <2>1. ASSUME NetInv, UNCHANGED vars PROVE NetInv'
    <3>1. UNCHANGED <<buffer, now, randomization, sent, received, scheduled,
                      m_units_remaining, bw_remaining>>
      BY Zenon, <2>1 DEF vars, locals, history
    <3>2. TypeOK BY Zenon, <2>1 DEF NetInv
    <3> QED BY Zenon, <2>1, <3>1, <3>2, QuietOK DEF TypeOK
  <2> QED BY Zenon, <2>1, NextOK
<1> QED BY <1>1, <1>2, PTL DEF Spec

(* Every message reaches each destination once and in order.  With fixed   *)
(* and with random delays, whatever the buffers' sizes.                    *)
THEOREM Delivery == Spec => []InOrderOnce
<1>1. NetInv => InOrderOnce BY Zenon DEF NetInv
<1> QED BY <1>1, NetInvariant, PTL

(* No buffer ever holds more than its limit. *)
THEOREM Limits == Spec => []WithinLimit
<1>1. NetInv => WithinLimit
  BY Zenon DEF NetInv, BuffersOK, BufferOK, HeapOK, SizeOK, WithinLimit
<1> QED BY <1>1, NetInvariant, PTL

(* The panic of enqueue cannot be reached. *)
THEOREM Ordered == Spec => []NoPanic
<1>1. NetInv => NoPanic
  <2> SUFFICES ASSUME NetInv, NEW b \in Buffer,
                      NEW t \in ArrivalTimes(buffer[b], Latency[b], now, randomization)
               PROVE  t >= buffer[b].m_last_arrival_time
    BY Zenon DEF NoPanic, AcceptedTimes
  <2>1. buffer[b] \in MessageBuffers /\ TimeOK(buffer[b], Latency[b], now, randomization)
    BY Zenon DEF NetInv, BuffersOK, BufferOK
  <2>2. buffer[b].m_last_arrival_time \in Nat BY Zenon, <2>1 DEF MessageBuffers
  <2>3. now \in Nat /\ randomization \in BOOLEAN BY Zenon DEF NetInv, TypeOK
  <2>4. Latency[b] \in Nat BY Zenon, StageTypes
  <2>5. CASE randomization
    <3>1. PICK r \in Delays : t = Later(buffer[b].m_last_arrival_time, now) + r
      BY Zenon, <2>5 DEF ArrivalTimes
    <3> QED BY <2>2, <2>3, <3>1, BufferAssumption DEF Later
  <2>6. CASE ~randomization
    BY Zenon, <2>1, <2>2, <2>3, <2>4, <2>6 DEF ArrivalTimes, TimeOK
  <2> QED BY Zenon, <2>5, <2>6
<1> QED BY <1>1, NetInvariant, PTL

-----------------------------------------------------------------------------
(***************************************************************************)
(* No message sleeps.  The invariant also speaks of the time while a       *)
(* wakeup() runs: what it has not looked at yet is still on its list.      *)
(***************************************************************************)

(* A message of buffer b has arrived. *)
Due(b) == \E n \in Heap(b) : n.time <= now

Stalled(b) == b[1] = "out" /\ Stalls(b[2], b[3])

(* The consumer of b runs in this or in the next cycle. *)
Scheduled(b) == \E t \in scheduled[ConsumerOf(b)] : t = now \/ t = now + 1

(* The wakeup() under way has still to look at b, or is going to schedule  *)
(* another one when it returns.                                            *)
StillRuns(b) ==
  /\ run = ConsumerOf(b)
  /\ \/ \E k \in DOMAIN todo : todo[k] = b
     \/ b[1] = "mid" /\ (bw_remaining = 0 \/ schedule_wakeup)

BusyOK == busy \in [Link -> BOOLEAN]

(* The messages that m_pending_message_count counts. *)
Pending(v) == {n \in HeapNode : \E i \in InPort : n \in Heap(InBuffer(i, v))}

PendingOK ==
  /\ m_pending_message_count \in [Vnet -> Int]
  /\ \A v \in Vnet : /\ IsFiniteSet(Pending(v))
                     /\ m_pending_message_count[v] = Cardinality(Pending(v))

Announced ==
  \A b \in Buffer : \A n \in Heap(b) : n.time > now => n.time \in scheduled[ConsumerOf(b)]

LookedAt ==
  \A b \in Buffer : Due(b) /\ ~Stalled(b) => Scheduled(b) \/ StillRuns(b)

AwakeInv == m_round_robin_start \in Nat /\ PendingOK /\ Announced /\ LookedAt

(* What a step that is not Tick does to messages and wakeups: a new        *)
(* message arrives later and its consumer knows; a wakeup is forgotten     *)
(* only when it begins.                                                    *)
Moves ==
  /\ now' = now
  /\ \A b \in Buffer : \A n \in Heap(b)' :
       \/ n \in Heap(b)
       \/ n.time \in Nat /\ n.time > now /\ n.time \in scheduled'[ConsumerOf(b)]
  /\ \A c \in Consumer : \A t \in scheduled[c] :
       t \in scheduled'[c] \/ (t = now /\ run' = c /\ run # c)

(* A step of consumer c looks after the buffers of c. *)
OwnLooked(c) ==
  /\ run \in {c, Nobody} /\ run' \in {c, Nobody}
  /\ \A b \in Buffer : ConsumerOf(b) # c => (Stalled(b) => Stalled(b)')
  /\ \A b \in Buffer : ConsumerOf(b) = c /\ Due(b) /\ Due(b)' /\ ~Stalled(b)'
                        => Scheduled(b)' \/ StillRuns(b)'

-----------------------------------------------------------------------------
(* A set of naturals that is not empty has a least member. *)
LEMMA LeastOf ==
  ASSUME NEW T, T \subseteq Nat, T # {}
  PROVE  \E m \in T : \A k \in T : m <= k
<1>1. PICK m \in T : \A k \in T : ~(<<k, m>> \in OpToRel(<, Nat))
  BY Zenon, WFMin, NatLessThanWellFounded
<1>2. \A k \in T : ~(k < m)
  BY Zenon, <1>1 DEF OpToRel
<1> QED BY <1>2

(* A buffer with a message that has arrived is ready: the message with the *)
(* lowest counter is its front, and has arrived too.                       *)
LEMMA DueReady ==
  ASSUME NEW q \in MessageBuffers, HeapOK(q), NEW t \in Nat, NEW n \in q.m_prio_heap, n.time <= t
  PROVE  isReady(q, t)
<1>1. \A o \in q.m_prio_heap : o.counter \in Nat /\ o.time \in Nat
  BY Zenon DEF MessageBuffers, HeapNode
<1> DEFINE T == {o.counter : o \in q.m_prio_heap}
<1>2. T \subseteq Nat /\ T # {}
  BY Zenon, <1>1
<1>3. PICK m \in T : \A k \in T : m <= k
  BY Zenon, <1>2, LeastOf
<1>4. PICK f \in q.m_prio_heap : f.counter = m
  BY Zenon, <1>3
<1>5. \A o \in q.m_prio_heap : f.counter <= o.counter
  BY Zenon, <1>3, <1>4
<1>6. \A o \in q.m_prio_heap : f.time <= o.time
  <2> SUFFICES ASSUME NEW o \in q.m_prio_heap PROVE f.time <= o.time
    BY Zenon
  <2>1. f.counter < o.counter \/ f.counter = o.counter
    BY <1>1, <1>5
  <2>2. f.counter < o.counter => f.time <= o.time
    BY Zenon DEF HeapOK
  <2>3. f.counter = o.counter => f = o
    BY Zenon DEF HeapOK
  <2>4. f.time <= f.time
    BY <1>1
  <2> QED BY Zenon, <2>1, <2>2, <2>3, <2>4
<1>7. \A o \in q.m_prio_heap : ~Before(o, f)
  BY <1>1, <1>5, <1>6 DEF Before
<1>8. f.time <= t
  BY <1>1, <1>6
<1> QED BY Zenon, <1>7, <1>8 DEF isReady, IsFront

(* A message is never due in the cycle in which it is sent. *)
LEMMA ArrivesLater ==
  ASSUME NetInv, NEW b \in Buffer, NEW t \in AcceptedTimes(b)
  PROVE  t \in Nat /\ t > now
<1>1. /\ now \in Nat /\ buffer[b] \in MessageBuffers
      /\ randomization \in BOOLEAN
  BY Zenon DEF NetInv, TypeOK
<1>2. buffer[b].m_last_arrival_time \in Nat
  BY Zenon, <1>1 DEF MessageBuffers
<1>3. Latency[b] \in Nat \ {0}
  <2>1. b[1] \in Stage BY Zenon DEF Buffer, Stage
  <2> QED BY Zenon, <2>1, NetworkAssumption
<1>4. t \in ArrivalTimes(buffer[b], Latency[b], now, randomization)
  BY Zenon DEF AcceptedTimes
<1>5. CASE randomization
  <2>1. PICK r \in Delays : t = Later(buffer[b].m_last_arrival_time, now) + r
    BY Zenon, <1>4, <1>5 DEF ArrivalTimes
  <2>2. r \in Nat \ {0}
    BY Zenon, BufferAssumption
  <2> QED BY <1>1, <1>2, <2>1, <2>2 DEF Later
<1>6. CASE ~randomization
  <2>1. t = now + Latency[b]
    BY Zenon, <1>4, <1>6 DEF ArrivalTimes
  <2> QED BY <1>1, <1>3, <2>1
<1> QED BY Zenon, <1>5, <1>6

(* Who reads which buffer; no two consumers are the same. *)
LEMMA Readers ==
  /\ \A i \in InPort, v \in Vnet : ConsumerOf(InBuffer(i, v)) = Switch
  /\ \A l \in Link, v \in Vnet : /\ ConsumerOf(MidBuffer(l, v)) = Throttle(l)
                                 /\ ConsumerOf(OutBuffer(l, v)) = Controller(l)
  /\ Switch # Nobody
  /\ \A l : /\ Throttle(l) # Nobody /\ Controller(l) # Nobody
            /\ Throttle(l) # Switch /\ Controller(l) # Switch
  /\ \A l, m : /\ Throttle(l) # Controller(m)
               /\ Throttle(l) = Throttle(m) => l = m
               /\ Controller(l) = Controller(m) => l = m
  /\ Switch \in Consumer /\ \A l \in Link : Throttle(l) \in Consumer /\ Controller(l) \in Consumer
<1>1. /\ \A i \in InPort, v \in Vnet : ConsumerOf(InBuffer(i, v)) = Switch
      /\ \A l \in Link, v \in Vnet : /\ ConsumerOf(MidBuffer(l, v)) = Throttle(l)
                                     /\ ConsumerOf(OutBuffer(l, v)) = Controller(l)
  BY Places DEF ConsumerOf
<1>2. /\ Switch # Nobody
      /\ \A l : /\ Throttle(l) # Nobody /\ Controller(l) # Nobody
                /\ Throttle(l) # Switch /\ Controller(l) # Switch
      /\ \A l, m : Throttle(l) # Controller(m)
  BY DEF Switch, Throttle, Controller, Nobody
<1>3. \A l, m : /\ Throttle(l) = Throttle(m) => l = m
                /\ Controller(l) = Controller(m) => l = m
  BY DEF Throttle, Controller
<1>4. Switch \in Consumer /\ \A l \in Link : Throttle(l) \in Consumer /\ Controller(l) \in Consumer
  BY DEF Switch, Throttle, Controller, Consumer
<1> QED BY Zenon, <1>1, <1>2, <1>3, <1>4

(* Every buffer is an in-, a mid- or an out-buffer. *)
LEMMA Kinds ==
  ASSUME NEW b \in Buffer
  PROVE  /\ \/ \E i \in InPort, v \in Vnet : b = InBuffer(i, v)
            \/ \E l \in Link, v \in Vnet : b = MidBuffer(l, v)
            \/ \E l \in Link, v \in Vnet : b = OutBuffer(l, v)
         /\ ConsumerOf(b) \in Consumer /\ ConsumerOf(b) # Nobody
<1>1. \/ \E i \in InPort, v \in Vnet : b = InBuffer(i, v)
      \/ \E l \in Link, v \in Vnet : b = MidBuffer(l, v)
      \/ \E l \in Link, v \in Vnet : b = OutBuffer(l, v)
  BY DEF Buffer, InBuffer, MidBuffer, OutBuffer
<1> QED BY ZenonT(40), <1>1, Readers

-----------------------------------------------------------------------------
(* The lists of a wakeup() *)

(* Remainders: some of n consecutive numbers has remainder i. *)
LEMMA Remainder ==
  ASSUME NEW n \in Nat \ {0}, NEW a \in Nat, NEW i \in 0 .. (n - 1)
  PROVE  \E j \in 0 .. (n - 1) : (a + j) % n = i
<1> DEFINE j == (i - a) % n
           q == (i - a) \div n
<1>1. i - a = (n * q) + j /\ j \in 0 .. (n - 1) /\ q \in Int
  OBVIOUS
<1> HIDE DEF j, q
<1>2. -q \in Int /\ a + j = (n * (-q)) + i
  BY <1>1
<1>3. (a + j) % n = i
  <2>1. \A z \in Int : ((n * z) + i) % n = i
    OBVIOUS
  <2> QED BY Zenon, <1>2, <2>1
<1> QED BY Zenon, <1>1, <1>3

(* The virtual networks by priority, inverted or not, are all of them. *)
LEMMA Priorities ==
  ASSUME NEW c, NEW v \in Vnet
  PROVE  \E k \in 1 .. NumVnets : VnetAt(c, k) = v
<1>1. NumVnets \in Nat /\ v \in 0 .. (NumVnets - 1)
  BY Zenon, NetworkAssumption DEF Vnet
<1>2. CASE Inverts(c)
  <2>1. v + 1 \in 1 .. NumVnets /\ (v + 1) - 1 = v
    BY <1>1
  <2> QED BY Zenon, <1>2, <2>1 DEF VnetAt
<1>3. CASE ~Inverts(c)
  <2>1. NumVnets - v \in 1 .. NumVnets /\ NumVnets - (NumVnets - v) = v
    BY <1>1
  <2> QED BY Zenon, <1>3, <2>1 DEF VnetAt
<1> QED BY Zenon, <1>2, <1>3

(* The switch looks at all its in-buffers. *)
LEMMA RoundRobinAll ==
  ASSUME m_round_robin_start \in Nat, NEW i \in InPort, NEW v \in Vnet
  PROVE  \E p \in DOMAIN RoundRobin : RoundRobin[p] = InBuffer(i, v)
<1>1. NumIn \in Nat \ {0} /\ NumVnets \in Nat /\ i \in 0 .. (NumIn - 1)
  BY Zenon, NetworkAssumption DEF InPort
<1>2. PICK k1 \in 1 .. NumVnets : VnetAt(Switch, k1) = v
  BY Zenon, Priorities
<1>3. PICK k \in 0 .. (NumVnets - 1) : k1 = k + 1
  BY <1>1
<1>4. (m_round_robin_start + k) + 1 \in Nat /\ k \in Nat
  BY <1>1
<1>5. PICK j \in 0 .. (NumIn - 1) : (((m_round_robin_start + k) + 1) + j) % NumIn = i
  BY Zenon, <1>1, <1>4, Remainder
<1>6. ((m_round_robin_start + k) + j) + 1 = ((m_round_robin_start + k) + 1) + j
  BY <1>1, <1>4
<1> DEFINE p == ((NumIn * k) + j) + 1
<1>7. (p - 1) \div NumIn = k /\ (p - 1) % NumIn = j
  <2>1. \A n \in Nat \ {0}, x \in Nat : \A y \in 0 .. (n - 1) :
          ((n * x) + y) \div n = x /\ ((n * x) + y) % n = y
    OBVIOUS
  <2>2. p - 1 = (NumIn * k) + j
    BY <1>1, <1>4
  <2> QED BY Zenon, <1>1, <1>4, <2>1, <2>2
<1>8. p \in 1 .. (NumVnets * NumIn)
  <2>1. \A n \in Nat \ {0}, w \in Nat : \A x \in 0 .. (w - 1), y \in 0 .. (n - 1) :
          ((n * x) + y) + 1 \in 1 .. (w * n)
    <3> SUFFICES ASSUME NEW n \in Nat \ {0}, NEW w \in Nat, NEW x \in 0 .. (w - 1), NEW y \in 0 .. (n - 1)
                 PROVE  ((n * x) + y) + 1 \in 1 .. (w * n)
      BY Zenon
    <3>1. w = (x + 1) + ((w - x) - 1) /\ (w - x) - 1 \in Nat /\ x \in Nat
      OBVIOUS
    <3>2. w * n = ((n * x) + n) + (n * ((w - x) - 1))
      BY <3>1
    <3>3. n * ((w - x) - 1) \in Nat /\ n * x \in Nat
      BY <3>1
    <3> QED BY <3>2, <3>3
  <2> QED BY Zenon, <1>1, <1>3, <1>5, <2>1
<1> HIDE DEF p
<1>9. /\ DOMAIN RoundRobin = 1 .. (NumVnets * NumIn)
      /\ RoundRobin[p] = InBuffer((((m_round_robin_start + ((p - 1) \div NumIn)) + ((p - 1) % NumIn)) + 1) % NumIn,
                                  VnetAt(Switch, ((p - 1) \div NumIn) + 1))
  BY Zenon, <1>8 DEF RoundRobin
<1>10. RoundRobin[p] = InBuffer(i, v)
  BY Zenon, <1>2, <1>3, <1>5, <1>6, <1>7, <1>9
<1> QED BY Zenon, <1>8, <1>9, <1>10

(* A throttle looks at all its virtual networks, a controller at all its   *)
(* in-ports.                                                               *)
LEMMA ListsAll ==
  ASSUME NEW l \in Link, NEW v \in Vnet
  PROVE  /\ LET list == [k \in 1 .. NumVnets |-> MidBuffer(l, VnetAt(Throttle(l), k))]
            IN \E k \in DOMAIN list : list[k] = MidBuffer(l, v)
         /\ \E k \in DOMAIN InPorts(l) : InPorts(l)[k] = OutBuffer(l, v)
<1>1. \E k \in 1 .. NumVnets : VnetAt(Throttle(l), k) = v
  BY Zenon, Priorities
<1>2. v + 1 \in 1 .. NumVnets /\ (v + 1) - 1 = v
  BY NetworkAssumption DEF Vnet
<1>3. \E k \in DOMAIN InPorts(l) : InPorts(l)[k] = OutBuffer(l, v)
  BY Zenon, <1>2 DEF InPorts
<1> QED BY Zenon, <1>1, <1>3

-----------------------------------------------------------------------------
(* Steps seen from one buffer *)

(* Each buffer is left alone, loses a message or gets one that its         *)
(* consumer is scheduled for.                                              *)
LEMMA BufferMoves ==
  ASSUME NetInv, now' = now,
         \A b \in Buffer :
           \/ buffer'[b] = buffer[b]
           \/ \E f : buffer'[b] = pop(buffer[b], f, now)
           \/ \E m : \E t \in AcceptedTimes(b) : /\ buffer'[b] = enqueue(buffer[b], m, t, now)
                                                 /\ t \in scheduled'[ConsumerOf(b)],
         \A c \in Consumer : \A t \in scheduled[c] :
           t \in scheduled'[c] \/ (t = now /\ run' = c /\ run # c)
  PROVE  Moves
<1>1. ASSUME NEW b \in Buffer, NEW n \in Heap(b)', n \notin Heap(b)
      PROVE  n.time \in Nat /\ n.time > now /\ n.time \in scheduled'[ConsumerOf(b)]
  <2>0. buffer[b] \in MessageBuffers
    BY Zenon DEF NetInv, TypeOK
  <2>1. ~(buffer'[b] = buffer[b])
    BY Zenon, <1>1 DEF Heap
  <2>2. ASSUME NEW f, buffer'[b] = pop(buffer[b], f, now) PROVE FALSE
    <3>1. pop(buffer[b], f, now).m_prio_heap = buffer[b].m_prio_heap \ {f}
      BY Zenon, <2>0 DEF pop, MessageBuffers
    <3> QED BY Zenon, <1>1, <2>2, <3>1 DEF Heap
  <2>3. PICK m : \E t \in AcceptedTimes(b) : /\ buffer'[b] = enqueue(buffer[b], m, t, now)
                                             /\ t \in scheduled'[ConsumerOf(b)]
    BY Zenon, <2>1, <2>2
  <2>4. PICK t \in AcceptedTimes(b) : /\ buffer'[b] = enqueue(buffer[b], m, t, now)
                                      /\ t \in scheduled'[ConsumerOf(b)]
    BY Zenon, <2>3
  <2>5. Heap(b)' = Heap(b) \cup {[time |-> t, counter |-> buffer[b].m_msg_counter + 1, msg |-> m]}
    <3>1. enqueue(buffer[b], m, t, now).m_prio_heap =
            buffer[b].m_prio_heap \cup {[time |-> t, counter |-> buffer[b].m_msg_counter + 1, msg |-> m]}
      BY Zenon, <2>0 DEF enqueue, MessageBuffers
    <3> QED BY Zenon, <2>4, <3>1 DEF Heap
  <2>6. n = [time |-> t, counter |-> buffer[b].m_msg_counter + 1, msg |-> m]
    BY Zenon, <1>1, <2>5
  <2>7. n.time = t
    BY Zenon, <2>6
  <2> QED BY Zenon, <2>4, <2>7, ArrivesLater
<1> QED BY Zenon, <1>1 DEF Moves

(* The counts of pending messages stay right while nothing enters or       *)
(* leaves an in-buffer.                                                    *)
LEMMA PendingKept ==
  ASSUME PendingOK, UNCHANGED m_pending_message_count,
         \A i \in InPort, v \in Vnet : buffer'[InBuffer(i, v)] = buffer[InBuffer(i, v)]
  PROVE  PendingOK'
<1>1. \A v \in Vnet : Pending(v)' = Pending(v)
  BY Zenon DEF Pending, Heap
<1> QED BY Zenon, <1>1 DEF PendingOK

(* A step keeps what is announced, and makes no message due. *)
LEMMA MovesKeep ==
  ASSUME NetInv, Announced, Moves
  PROVE  Announced' /\ \A b \in Buffer : Due(b)' => Due(b)
<1>0. now \in Nat /\ now' = now
  BY Zenon DEF NetInv, TypeOK, Moves
<1>1. \A b \in Buffer : \A n \in Heap(b) : n.time \in Nat
  <2> SUFFICES ASSUME NEW b \in Buffer, NEW n \in Heap(b) PROVE n.time \in Nat
    BY Zenon
  <2>1. n \in HeapNode
    BY Zenon, Held DEF NetInv
  <2> QED BY Zenon, <2>1 DEF HeapNode
<1>2. ASSUME NEW b \in Buffer, NEW n \in Heap(b)', n.time > now
      PROVE  n.time \in scheduled'[ConsumerOf(b)]
  <2>1. CASE n \in Heap(b)
    <3>1. n.time \in scheduled[ConsumerOf(b)] /\ ConsumerOf(b) \in Consumer
      BY Zenon, <1>2, <2>1, Kinds DEF Announced
    <3>2. n.time # now
      BY <1>0, <1>1, <1>2, <2>1
    <3> QED BY Zenon, <3>1, <3>2 DEF Moves
  <2>2. CASE n \notin Heap(b)
    BY Zenon, <1>2, <2>2 DEF Moves
  <2> QED BY Zenon, <2>1, <2>2
<1>3. ASSUME NEW b \in Buffer, NEW n \in Heap(b)', n.time <= now
      PROVE  n \in Heap(b)
  <2>1. n \in Heap(b) \/ (n.time \in Nat /\ n.time > now)
    BY Zenon DEF Moves
  <2> QED BY <1>0, <1>3, <2>1
<1>4. Announced'
  BY Zenon, <1>0, <1>2 DEF Announced, Heap
<1>5. \A b \in Buffer : Due(b)' => Due(b)
  BY Zenon, <1>0, <1>3 DEF Due, Heap
<1> QED BY Zenon, <1>4, <1>5

(* The buffers of the consumers that do not run in a step. *)
LEMMA OthersLooked ==
  ASSUME NetInv, AwakeInv, Moves, NEW b \in Buffer,
         ConsumerOf(b) # run, ConsumerOf(b) # run', ~Stalled(b)' => ~Stalled(b),
         Due(b)', ~Stalled(b)'
  PROVE  Scheduled(b)'
<1>1. Due(b) /\ ~Stalled(b)
  BY Zenon, MovesKeep DEF AwakeInv
<1>2. ConsumerOf(b) \in Consumer /\ ConsumerOf(b) # Nobody
  BY Zenon, Kinds
<1>3. Scheduled(b)
  BY Zenon, <1>1, <1>2 DEF AwakeInv, LookedAt, StillRuns
<1>4. PICK t \in scheduled[ConsumerOf(b)] : t = now \/ t = now + 1
  BY Zenon, <1>3 DEF Scheduled
<1>5. t \in scheduled'[ConsumerOf(b)]
  BY Zenon, <1>2, <1>4 DEF Moves
<1> QED BY Zenon, <1>4, <1>5 DEF Scheduled, Moves

(* The consumer that runs keeps its wakeups and its list. *)
LEMMA RunnerLooked ==
  ASSUME NetInv, AwakeInv, Moves, NEW b \in Buffer, ConsumerOf(b) = run, ~Stalled(b)' => ~Stalled(b),
         Due(b)', ~Stalled(b)'
  PROVE  Scheduled(b)' \/ StillRuns(b)
<1>1. Due(b) /\ ~Stalled(b)
  BY Zenon, MovesKeep DEF AwakeInv
<1>2. ConsumerOf(b) \in Consumer
  BY Zenon, Kinds
<1>3. ASSUME Scheduled(b) PROVE Scheduled(b)'
  <2>1. PICK t \in scheduled[ConsumerOf(b)] : t = now \/ t = now + 1
    BY Zenon, <1>3 DEF Scheduled
  <2>2. t \in scheduled'[ConsumerOf(b)]
    BY Zenon, <1>2, <2>1 DEF Moves
  <2> QED BY Zenon, <2>1, <2>2 DEF Scheduled, Moves
<1> QED BY Zenon, <1>1, <1>3 DEF AwakeInv, LookedAt

(* What is left to show for a step of consumer c: that its own buffers are *)
(* looked at.                                                              *)
LEMMA StepAwake ==
  ASSUME NetInv, AwakeInv, Moves, m_round_robin_start' \in Nat, PendingOK',
         NEW c, OwnLooked(c)
  PROVE  AwakeInv'
<1>1. Announced' /\ \A b \in Buffer : Due(b)' => Due(b)
  BY Zenon, MovesKeep DEF AwakeInv
<1>2. ASSUME NEW b \in Buffer, Due(b)', ~Stalled(b)'
      PROVE  Scheduled(b)' \/ StillRuns(b)'
  <2>1. CASE ConsumerOf(b) = c
    BY Zenon, <1>1, <1>2, <2>1 DEF OwnLooked
  <2>2. CASE ConsumerOf(b) # c
    <3>1. ConsumerOf(b) # run /\ ConsumerOf(b) # run' /\ (~Stalled(b)' => ~Stalled(b))
      BY Zenon, <2>2, Kinds DEF OwnLooked
    <3> QED BY Zenon, <1>2, <2>2, <3>1, OthersLooked
  <2> QED BY Zenon, <2>1, <2>2
<1>3. LookedAt'
  BY Zenon, <1>2 DEF LookedAt
<1> QED BY Zenon, <1>1, <1>3 DEF AwakeInv

(* A consumer's buffers. *)
LEMMA Reads ==
  ASSUME NEW b \in Buffer
  PROVE  /\ ConsumerOf(b) = Switch => \E i \in InPort, v \in Vnet : b = InBuffer(i, v)
         /\ \A l : ConsumerOf(b) = Throttle(l) => l \in Link /\ \E v \in Vnet : b = MidBuffer(l, v)
         /\ \A l : ConsumerOf(b) = Controller(l) => l \in Link /\ \E v \in Vnet : b = OutBuffer(l, v)
<1>1. CASE \E i \in InPort, v \in Vnet : b = InBuffer(i, v)
  <2>1. ConsumerOf(b) = Switch
    BY Zenon, <1>1, Readers
  <2>2. \A l : Throttle(l) # Switch /\ Controller(l) # Switch
    BY Zenon, Readers
  <2> QED BY Zenon, <1>1, <2>1, <2>2
<1>2. CASE \E l \in Link, v \in Vnet : b = MidBuffer(l, v)
  <2>1. PICK m \in Link, v \in Vnet : b = MidBuffer(m, v)
    BY Zenon, <1>2
  <2>2. ConsumerOf(b) = Throttle(m)
    BY Zenon, <2>1, Readers
  <2>3. \A l : Throttle(m) = Throttle(l) => l = m
    BY Zenon, Readers
  <2>4. Throttle(m) # Switch /\ \A l : Throttle(m) # Controller(l)
    BY Zenon, Readers
  <2> QED BY Zenon, <2>1, <2>2, <2>3, <2>4
<1>3. CASE \E l \in Link, v \in Vnet : b = OutBuffer(l, v)
  <2>1. PICK m \in Link, v \in Vnet : b = OutBuffer(m, v)
    BY Zenon, <1>3
  <2>2. ConsumerOf(b) = Controller(m)
    BY Zenon, <2>1, Readers
  <2>3. \A l : Controller(m) = Controller(l) => l = m
    BY Zenon, Readers
  <2>4. Controller(m) # Switch /\ \A l : Throttle(l) # Controller(m)
    BY Zenon, Readers
  <2> QED BY Zenon, <2>1, <2>2, <2>3, <2>4
<1> QED BY Zenon, <1>1, <1>2, <1>3, Kinds

(* The buffers of a throttle and of a controller. *)
LEMMA ThrottleReads ==
  ASSUME NEW b \in Buffer, NEW l, ConsumerOf(b) = Throttle(l)
  PROVE  b[1] = "mid" /\ \E v \in Vnet : b = MidBuffer(l, v)
<1>1. PICK v \in Vnet : b = MidBuffer(l, v)
  BY Reads
<1>2. b[1] = "mid"
  BY Zenon, <1>1 DEF MidBuffer
<1> QED BY Zenon, <1>1, <1>2

(* A controller reads the out-buffers of its link. *)
LEMMA ControllerReads ==
  ASSUME NEW b \in Buffer, NEW l, ConsumerOf(b) = Controller(l)
  PROVE  b[1] = "out" /\ \E v \in Vnet : b = OutBuffer(l, v)
<1>1. PICK v \in Vnet : b = OutBuffer(l, v)
  BY Reads
<1>2. b[1] = "out"
  BY Zenon, <1>1 DEF OutBuffer
<1> QED BY Zenon, <1>1, <1>2

(* An in-buffer is none of the others. *)
LEMMA InElsewhere ==
  \A j, w, x, v : InBuffer(j, w) # MidBuffer(x, v) /\ InBuffer(j, w) # OutBuffer(x, v)
<1>1. \A x, v : InBuffer(x, v)[1] = "in" /\ MidBuffer(x, v)[1] = "mid" /\ OutBuffer(x, v)[1] = "out"
  BY Zenon DEF InBuffer, MidBuffer, OutBuffer
<1> QED BY Zenon, <1>1

(* A buffer with a due message passes the test isReady. *)
LEMMA Readied ==
  ASSUME NetInv, NEW b \in Buffer, Due(b)
  PROVE  Ready(b)
<1>1. buffer[b] \in MessageBuffers /\ HeapOK(buffer[b]) /\ now \in Nat
  BY Zenon DEF NetInv, BuffersOK, BufferOK, TypeOK
<1>2. PICK n \in buffer[b].m_prio_heap : n.time <= now
  BY Zenon DEF Due, Heap
<1> QED BY Zenon, <1>1, <1>2, DueReady DEF Ready

(* The event queue calls wakeup(). *)
LEMMA WakeupMoves ==
  ASSUME NetInv, NEW c \in Consumer, NEW list, Wakeup(c, list), UNCHANGED <<now, buffer>>
  PROVE  Moves /\ run = Nobody /\ run' = c /\ todo' = list
<1>0. scheduled \in [Consumer -> SUBSET Nat]
  BY Zenon DEF NetInv, TypeOK
<1>1. run = Nobody /\ run' = c /\ todo' = list /\ scheduled' = [scheduled EXCEPT ![c] = @ \ {now}]
  BY Zenon DEF Wakeup
<1>2. c # Nobody
  BY DEF Consumer, Switch, Nobody
<1>3. ASSUME NEW d \in Consumer, NEW t \in scheduled[d]
      PROVE  t \in scheduled'[d] \/ (t = now /\ run' = d /\ run # d)
  BY Zenon, <1>0, <1>1, <1>2, <1>3
<1>4. Moves
  BY Zenon, <1>3, BufferMoves
<1> QED BY Zenon, <1>1, <1>4

(* A consumer schedules itself for the next cycle, or nothing changes.     *)
LEMMA QuietMoves ==
  ASSUME NetInv, NEW c \in Consumer, scheduleEvent(c) \/ UNCHANGED scheduled, UNCHANGED <<now, buffer>>
  PROVE  /\ Moves
         /\ scheduleEvent(c) => \A b \in Buffer : ConsumerOf(b) = c => Scheduled(b)'
<1>0. scheduled \in [Consumer -> SUBSET Nat]
  BY Zenon DEF NetInv, TypeOK
<1>1. ASSUME NEW d \in Consumer, NEW t \in scheduled[d] PROVE t \in scheduled'[d]
  BY Zenon, <1>0, <1>1 DEF scheduleEvent
<1>2. Moves
  BY Zenon, <1>1, BufferMoves
<1>3. ASSUME scheduleEvent(c) PROVE now + 1 \in scheduled'[c]
  BY Zenon, <1>0, <1>3 DEF scheduleEvent
<1> QED BY Zenon, <1>2, <1>3 DEF Scheduled

-----------------------------------------------------------------------------
(* The steps that move no message *)

(* wakeup() of the switch has every in-buffer on its list. *)
LEMMA SwitchWakeupAwake ==
  ASSUME NetInv, AwakeInv, SwitchWakeup
  PROVE  AwakeInv'
<1>1. Moves /\ run = Nobody /\ run' = Switch /\ todo' = RoundRobin
  BY Zenon, WakeupMoves, Readers DEF SwitchWakeup
<1>2. /\ m_round_robin_start' = (m_round_robin_start + NumVnets) % NumIn
      /\ UNCHANGED <<buffer, m_pending_message_count, busy>>
  BY Zenon DEF SwitchWakeup
<1>3. m_round_robin_start' \in Nat
  <2>1. m_round_robin_start \in Nat /\ NumVnets \in Nat /\ NumIn \in Nat \ {0}
    BY Zenon, NetworkAssumption DEF AwakeInv
  <2> QED BY <1>2, <2>1
<1>4. PendingOK'
  BY Zenon, <1>2, PendingKept DEF AwakeInv
<1>5. ASSUME NEW b \in Buffer, ConsumerOf(b) = Switch PROVE StillRuns(b)'
  <2>1. PICK i \in InPort, v \in Vnet : b = InBuffer(i, v)
    BY Zenon, <1>5, Reads
  <2>2. \E p \in DOMAIN RoundRobin : RoundRobin[p] = b
    BY Zenon, <2>1, RoundRobinAll DEF AwakeInv
  <2> QED BY Zenon, <1>1, <1>5, <2>2 DEF StillRuns
<1>6. \A b \in Buffer : Stalled(b) => Stalled(b)'
  BY Zenon, <1>2 DEF Stalled, Stalls
<1>7. OwnLooked(Switch)
  BY Zenon, <1>1, <1>5, <1>6 DEF OwnLooked
<1> QED BY Zenon, <1>1, <1>3, <1>4, <1>7, StepAwake

(* wakeup() of a throttle, or of a controller, has all its buffers on its  *)
(* list.                                                                   *)
LEMMA LinkWakeupAwake ==
  ASSUME NetInv, AwakeInv, NEW l \in Link, ThrottleWakeup(l) \/ ControllerWakeup(l)
  PROVE  AwakeInv'
<1>2. UNCHANGED <<now, buffer, m_round_robin_start, m_pending_message_count, busy>>
  BY Zenon DEF ThrottleWakeup, ControllerWakeup, switchVars
<1>3. m_round_robin_start' \in Nat /\ PendingOK'
  BY Zenon, <1>2, PendingKept DEF AwakeInv
<1>4. \A b \in Buffer : Stalled(b) => Stalled(b)'
  BY Zenon, <1>2 DEF Stalled, Stalls
<1>5. CASE ThrottleWakeup(l)
  <2> DEFINE list == [k \in 1 .. NumVnets |-> MidBuffer(l, VnetAt(Throttle(l), k))]
  <2>1. Moves /\ run = Nobody /\ run' = Throttle(l) /\ todo' = list
    BY Zenon, <1>2, <1>5, WakeupMoves, Readers DEF ThrottleWakeup
  <2>2. ASSUME NEW b \in Buffer, ConsumerOf(b) = Throttle(l) PROVE StillRuns(b)'
    <3>1. PICK v \in Vnet : b = MidBuffer(l, v)
      BY ZenonT(40), <2>2, Reads
    <3>2. \E k \in DOMAIN list : list[k] = b
      BY Zenon, <3>1, ListsAll
    <3> QED BY Zenon, <2>1, <2>2, <3>2 DEF StillRuns
  <2>3. OwnLooked(Throttle(l))
    BY Zenon, <2>1, <1>4, <2>2 DEF OwnLooked
  <2> QED BY Zenon, <1>3, <2>1, <2>3, StepAwake
<1>6. CASE ControllerWakeup(l)
  <2>1. Moves /\ run = Nobody /\ run' = Controller(l) /\ todo' = InPorts(l)
    BY Zenon, <1>2, <1>6, WakeupMoves, Readers DEF ControllerWakeup
  <2>2. ASSUME NEW b \in Buffer, ConsumerOf(b) = Controller(l) PROVE StillRuns(b)'
    <3>1. PICK v \in Vnet : b = OutBuffer(l, v)
      BY ZenonT(40), <2>2, Reads
    <3>2. \E k \in DOMAIN InPorts(l) : InPorts(l)[k] = b
      BY Zenon, <3>1, ListsAll
    <3> QED BY Zenon, <2>1, <2>2, <3>2 DEF StillRuns
  <2>3. OwnLooked(Controller(l))
    BY Zenon, <2>1, <1>4, <2>2 DEF OwnLooked
  <2> QED BY Zenon, <1>3, <2>1, <2>3, StepAwake
<1> QED BY Zenon, <1>5, <1>6

(* A consumer c goes on, or returns, having done one of three things: it   *)
(* schedules itself, or notes that it is going to, or what it does not     *)
(* look at again has nothing for it.                                       *)
LEMMA RunnerQuiet ==
  ASSUME NetInv, AwakeInv, NEW c \in Consumer, run = c, run' \in {c, Nobody},
         UNCHANGED <<now, buffer, busy, m_round_robin_start, m_pending_message_count>>,
         scheduleEvent(c) \/ UNCHANGED scheduled,
         \/ scheduleEvent(c)
         \/ \A b \in Buffer : ConsumerOf(b) = c /\ StillRuns(b) /\ Due(b) /\ ~Stalled(b) => StillRuns(b)'
  PROVE  AwakeInv'
<1>1. Moves
  BY Zenon, QuietMoves
<1>2. m_round_robin_start' \in Nat /\ PendingOK'
  BY Zenon, PendingKept DEF AwakeInv
<1>3. \A b \in Buffer : Stalled(b)' <=> Stalled(b)
  BY Zenon DEF Stalled, Stalls
<1>4. ASSUME NEW b \in Buffer, ConsumerOf(b) = c, Due(b), Due(b)', ~Stalled(b)'
      PROVE  Scheduled(b)' \/ StillRuns(b)'
  <2>1. CASE scheduleEvent(c)
    BY Zenon, <1>4, <2>1, QuietMoves
  <2>2. CASE ~scheduleEvent(c)
    <3>1. Scheduled(b)' \/ StillRuns(b)
      BY Zenon, <1>1, <1>3, <1>4, RunnerLooked
    <3> QED BY Zenon, <1>3, <1>4, <2>2, <3>1
  <2> QED BY Zenon, <2>1, <2>2
<1>5. OwnLooked(c)
  BY Zenon, <1>3, <1>4 DEF OwnLooked
<1> QED BY Zenon, <1>1, <1>2, <1>5, StepAwake

(* A switch or a throttle that cannot move a message, a controller that    *)
(* lacks a resource, and the wakeups that end.                             *)
LEMMA SwitchQuietAwake ==
  ASSUME NetInv, AwakeInv,
         SwitchReturn \/ \E i, v, f : SwitchBlocked(i, v, f)
  PROVE  AwakeInv'
<1>1. /\ run = Switch /\ run' \in {Switch, Nobody} /\ Switch \in Consumer
      /\ UNCHANGED <<now, buffer, busy, m_round_robin_start, m_pending_message_count>>
      /\ scheduleEvent(Switch) \/ UNCHANGED scheduled
  BY Zenon, Readers DEF SwitchReturn, SwitchBlocked, Return, AtIn, switchVars
<1>2. CASE scheduleEvent(Switch)
  BY Zenon, <1>1, <1>2, RunnerQuiet
<1>3. CASE ~scheduleEvent(Switch)
  <2>1. SwitchReturn
    BY Zenon, <1>3 DEF SwitchBlocked
  <2>2. ASSUME NEW b \in Buffer, ConsumerOf(b) = Switch, StillRuns(b), Due(b)
        PROVE  FALSE
    <3>1. PICK i \in InPort, v \in Vnet : b = InBuffer(i, v)
      BY ZenonT(40), <2>2, Reads
    <3>2. b[1] # "mid" /\ b[3] = v
      BY <3>1 DEF InBuffer
    <3>3. ~Waits(b)
      BY Zenon, <2>1, <2>2, <3>2 DEF SwitchReturn, StillRuns
    <3>4. Ready(b)
      BY Zenon, <2>2, Readied
    <3>5. PICK n \in Heap(b) : n.time <= now
      BY Zenon, <2>2 DEF Due
    <3>6. n \in Pending(v)
      BY Zenon, <3>1, Held DEF Pending, NetInv
    <3>7. IsFiniteSet(Pending(v)) /\ m_pending_message_count[v] = Cardinality(Pending(v))
      BY Zenon, <3>1 DEF AwakeInv, PendingOK
    <3>8. Cardinality(Pending(v)) \in Nat /\ Cardinality(Pending(v)) # 0
      BY Zenon, <3>6, <3>7, FS_CardinalityType, FS_EmptySet
    <3>9. m_pending_message_count[v] > 0
      BY <3>7, <3>8
    <3> QED BY Zenon, <3>2, <3>3, <3>4, <3>9 DEF Waits
  <2> QED BY Zenon, <1>1, <2>2, RunnerQuiet
<1> QED BY Zenon, <1>2, <1>3

(* A throttle that cannot move a message, or returns. *)
LEMMA ThrottleQuietAwake ==
  ASSUME NetInv, AwakeInv, NEW l \in Link,
         ThrottleReturn(l) \/ \E v : ThrottleBlocked(l, v)
  PROVE  AwakeInv'
<1>1. /\ run = Throttle(l) /\ run' \in {Throttle(l), Nobody} /\ Throttle(l) \in Consumer
      /\ UNCHANGED <<now, buffer, busy, m_round_robin_start, m_pending_message_count>>
      /\ scheduleEvent(Throttle(l)) \/ UNCHANGED scheduled
  BY Zenon, Readers DEF ThrottleReturn, ThrottleBlocked, Return, AtVnet, switchVars
<1>2. CASE scheduleEvent(Throttle(l))
  BY Zenon, <1>1, <1>2, RunnerQuiet
<1>3. CASE ~scheduleEvent(Throttle(l))
  <2>1. ASSUME NEW b \in Buffer, ConsumerOf(b) = Throttle(l), StillRuns(b), Due(b)
        PROVE  StillRuns(b)'
    <3>1. b[1] = "mid"
      BY Zenon, <2>1, ThrottleReads
    <3>2. CASE ThrottleReturn(l)
      <4>1. bw_remaining > 0 /\ ~schedule_wakeup
        BY Zenon, <1>3, <3>2 DEF ThrottleReturn
      <4>2. bw_remaining # 0
        BY <4>1
      <4>3. ~Wants(b)
        BY Zenon, <2>1, <3>2, <4>1, <4>2 DEF ThrottleReturn, StillRuns
      <4> QED BY Zenon, <2>1, <4>1, <4>3, Readied DEF Wants
    <3>3. CASE \E v : ThrottleBlocked(l, v)
      <4>1. run' = Throttle(l) /\ schedule_wakeup' = TRUE
        BY Zenon, <1>1, <3>3 DEF ThrottleBlocked
      <4> QED BY Zenon, <2>1, <3>1, <4>1 DEF StillRuns
    <3> QED BY Zenon, <3>2, <3>3
  <2> QED BY Zenon, <1>1, <2>1, RunnerQuiet
<1> QED BY Zenon, <1>2, <1>3

(* A controller that lacks a resource, or returns. *)
LEMMA ControllerQuietAwake ==
  ASSUME NetInv, AwakeInv, NEW l \in Link,
         ControllerReturn(l) \/ \E v : ControllerResourceStall(l, v)
  PROVE  AwakeInv'
<1>1. /\ run = Controller(l) /\ run' \in {Controller(l), Nobody} /\ Controller(l) \in Consumer
      /\ UNCHANGED <<now, buffer, busy, m_round_robin_start, m_pending_message_count>>
      /\ scheduleEvent(Controller(l)) \/ UNCHANGED scheduled
  BY Zenon, Readers DEF ControllerReturn, ControllerResourceStall, Return, AtPort, switchVars
<1>2. CASE scheduleEvent(Controller(l))
  BY Zenon, <1>1, <1>2, RunnerQuiet
<1>3. CASE ~scheduleEvent(Controller(l))
  <2>1. ControllerReturn(l) /\ \A k \in DOMAIN todo : ~Doable(todo[k])
    BY Zenon, <1>3 DEF ControllerReturn, ControllerResourceStall
  <2>2. ASSUME NEW b \in Buffer, ConsumerOf(b) = Controller(l), StillRuns(b), Due(b), ~Stalled(b)
        PROVE  FALSE
    <3>1. b[1] = "out"
      BY Zenon, <2>2, ControllerReads
    <3>2. b[1] # "mid"
      BY <3>1
    <3>3. ~Doable(b)
      BY Zenon, <2>1, <2>2, <3>2 DEF StillRuns
    <3> QED BY Zenon, <2>2, <3>1, <3>3, Readied DEF Doable, Stalled
  <2> QED BY Zenon, <1>1, <2>2, RunnerQuiet
<1> QED BY Zenon, <1>2, <1>3

-----------------------------------------------------------------------------
(* The steps that move a message *)

(* The switch copies a message to the links of its destinations. *)
LEMMA SwitchMoveAwake ==
  ASSUME NetInv, NetInv', AwakeInv, NEW i \in InPort, NEW v \in Vnet, NEW f, SwitchMove(i, v, f)
  PROVE  AwakeInv'
<1> DEFINE here == InBuffer(i, v)
           dest == f.msg.dest
           mids == {MidBuffer(l, v) : l \in dest}
<1>0. /\ scheduled \in [Consumer -> SUBSET Nat] /\ AsSent
      /\ here \in Buffer /\ buffer[here] \in MessageBuffers /\ now \in Nat
  BY Zenon, Places DEF NetInv, TypeOK
<1>1. /\ run = Switch /\ IsFront(buffer[here], f)
      /\ m_pending_message_count' = [m_pending_message_count EXCEPT ![v] = @ - 1]
      /\ UNCHANGED <<now, run, todo, m_round_robin_start, busy>>
  BY Zenon DEF SwitchMove, AtIn
<1>2. PICK t :
        /\ \A l \in dest : t[l] \in AcceptedTimes(MidBuffer(l, v))
        /\ buffer' = [b \in Buffer |->
             IF b = here THEN pop(buffer[b], f, now)
             ELSE IF b \in mids
               THEN enqueue(buffer[b], [f.msg EXCEPT !.dest = {b[2]}], t[b[2]], now)
             ELSE buffer[b]]
        /\ scheduled' = [c \in Consumer |->
             IF \E l \in dest : c = Throttle(l) THEN scheduled[c] \cup {t[c[2]]}
                                              ELSE scheduled[c]]
  BY Zenon DEF SwitchMove
<1>3. \A x : MidBuffer(x, v)[2] = x /\ Throttle(x)[2] = x
  BY Zenon DEF MidBuffer, Throttle
<1>4. \A l \in dest : l \in Link
  <2>1. f \in Heap(here)
    BY Zenon, <1>1 DEF IsFront, Heap
  <2>2. f.msg \in Message
    BY Zenon, <1>0, <2>1, Held DEF NetInv
  <2> QED BY Zenon, <2>2 DEF Message
<1>5. ASSUME NEW b \in Buffer
      PROVE  \/ buffer'[b] = buffer[b]
             \/ \E g : buffer'[b] = pop(buffer[b], g, now)
             \/ \E m : \E u \in AcceptedTimes(b) : /\ buffer'[b] = enqueue(buffer[b], m, u, now)
                                                   /\ u \in scheduled'[ConsumerOf(b)]
  <2>1. CASE b = here
    BY Zenon, <1>2, <2>1
  <2>2. CASE b # here /\ b \in mids
    <3>1. PICK l \in dest : b = MidBuffer(l, v)
      BY Zenon, <2>2
    <3>2. buffer'[b] = enqueue(buffer[b], [f.msg EXCEPT !.dest = {l}], t[l], now)
      BY Zenon, <1>2, <1>3, <2>2, <3>1
    <3>3. ConsumerOf(b) = Throttle(l) /\ Throttle(l) \in Consumer
      BY Zenon, <1>4, <3>1, Readers
    <3>4. scheduled'[Throttle(l)] = scheduled[Throttle(l)] \cup {t[l]}
      BY Zenon, <1>2, <1>3, <3>1, <3>3
    <3> QED BY Zenon, <1>2, <3>1, <3>2, <3>3, <3>4
  <2>3. CASE b # here /\ b \notin mids
    BY Zenon, <1>2, <2>3
  <2> QED BY Zenon, <2>1, <2>2, <2>3
<1>6. ASSUME NEW c \in Consumer, NEW u \in scheduled[c] PROVE u \in scheduled'[c]
  BY Zenon, <1>2, <1>6
<1>7. Moves
  BY Zenon, <1>1, <1>5, <1>6, BufferMoves
<1>8. PendingOK'
  <2>1. /\ m_pending_message_count \in [Vnet -> Int]
        /\ \A w \in Vnet : /\ IsFiniteSet(Pending(w))
                           /\ m_pending_message_count[w] = Cardinality(Pending(w))
    BY Zenon DEF AwakeInv, PendingOK
  <2>2. \A j \in InPort, w \in Vnet : InBuffer(j, w) \in Buffer /\ InBuffer(j, w) \notin mids
    <3>1. \A j \in InPort, w \in Vnet : InBuffer(j, w) \in Buffer
      BY Zenon, Places
    <3> QED BY Zenon, <3>1, InElsewhere
  <2>3. Heap(here)' = Heap(here) \ {f}
    <3>1. pop(buffer[here], f, now).m_prio_heap = buffer[here].m_prio_heap \ {f}
      BY Zenon, <1>0 DEF pop, MessageBuffers
    <3>2. buffer'[here] = pop(buffer[here], f, now)
      BY Zenon, <1>0, <1>2
    <3> QED BY Zenon, <3>1, <3>2 DEF Heap
  <2>4. ASSUME NEW j \in InPort, NEW w \in Vnet, j # i \/ w # v
        PROVE  Heap(InBuffer(j, w))' = Heap(InBuffer(j, w))
    <3>1. InBuffer(j, w) # here
      BY Zenon, <2>4 DEF InBuffer
    <3>2. buffer'[InBuffer(j, w)] = buffer[InBuffer(j, w)]
      BY Zenon, <1>2, <2>2, <3>1
    <3> QED BY Zenon, <3>2 DEF Heap
  <2>5. f \in Heap(here) /\ f \in HeapNode /\ \A j \in InPort : j # i => f \notin Heap(InBuffer(j, v))
    <3>1. f \in Heap(here)
      BY Zenon, <1>1 DEF IsFront, Heap
    <3>2. f \in HeapNode
      BY Zenon, <1>0, <3>1, Held DEF NetInv
    <3>3. \A j \in InPort : f \in Heap(InBuffer(j, v)) => f.msg.src = j
      BY Zenon, <1>0 DEF AsSent
    <3>4. f.msg.src = i
      BY Zenon, <3>1, <3>3
    <3> QED BY Zenon, <3>1, <3>2, <3>3, <3>4
  <2>6. Pending(v)' = Pending(v) \ {f} /\ f \in Pending(v)
    BY ZenonT(40), <2>3, <2>4, <2>5 DEF Pending
  <2>7. \A w \in Vnet : w # v => Pending(w)' = Pending(w)
    BY Zenon, <2>4 DEF Pending
  <2>8. IsFiniteSet(Pending(v)') /\ Cardinality(Pending(v)') = Cardinality(Pending(v)) - 1
    BY Zenon, <2>1, <2>6, FS_RemoveElement
  <2>9. /\ m_pending_message_count' \in [Vnet -> Int]
        /\ m_pending_message_count'[v] = m_pending_message_count[v] - 1
        /\ \A w \in Vnet : w # v => m_pending_message_count'[w] = m_pending_message_count[w]
    BY <1>1, <2>1
  <2> QED BY Zenon, <2>1, <2>7, <2>8, <2>9 DEF PendingOK
<1>9. ASSUME NEW b \in Buffer PROVE Stalled(b)' <=> Stalled(b)
  BY Zenon, <1>1 DEF Stalled, Stalls
<1>10. ASSUME NEW b \in Buffer, ConsumerOf(b) = Switch, Due(b)', ~Stalled(b)'
       PROVE  Scheduled(b)' \/ StillRuns(b)'
  <2>1. Scheduled(b)' \/ StillRuns(b)
    BY Zenon, <1>1, <1>7, <1>9, <1>10, RunnerLooked
  <2>2. PICK j \in InPort, w \in Vnet : b = InBuffer(j, w)
    BY Zenon, <1>10, Reads
  <2>3. b[1] # "mid"
    BY <2>2 DEF InBuffer
  <2> QED BY Zenon, <1>1, <2>1, <2>3 DEF StillRuns
<1>11. OwnLooked(Switch)
  BY Zenon, <1>1, <1>9, <1>10 DEF OwnLooked
<1>12. m_round_robin_start' \in Nat
  BY Zenon, <1>1 DEF AwakeInv
<1> QED BY Zenon, <1>7, <1>8, <1>11, <1>12, StepAwake

(* What a step of a link does not touch. *)
LEMMA InKept ==
  ASSUME AwakeInv, UNCHANGED <<m_round_robin_start, m_pending_message_count>>,
         \A i \in InPort, v \in Vnet : buffer'[InBuffer(i, v)] = buffer[InBuffer(i, v)]
  PROVE  m_round_robin_start' \in Nat /\ PendingOK'
BY Zenon, PendingKept DEF AwakeInv

(* A throttle that has bandwidth left keeps its list. *)
LEMMA ThrottleGoesOn ==
  ASSUME NetInv, AwakeInv, Moves, NEW l \in Link, NEW v, AtVnet(l, v),
         UNCHANGED <<run, todo, schedule_wakeup, busy>>
  PROVE  OwnLooked(Throttle(l))
<1>1. run = Throttle(l) /\ bw_remaining > 0
  BY Zenon DEF AtVnet, Comes, Wants
<1>2. bw_remaining # 0
  BY <1>1
<1>3. ASSUME NEW b \in Buffer PROVE Stalled(b)' <=> Stalled(b)
  BY Zenon DEF Stalled, Stalls
<1>4. ASSUME NEW b \in Buffer, ConsumerOf(b) = Throttle(l), Due(b)', ~Stalled(b)'
      PROVE  Scheduled(b)' \/ StillRuns(b)'
  <2>1. Scheduled(b)' \/ StillRuns(b)
    BY Zenon, <1>1, <1>3, <1>4, RunnerLooked
  <2> QED BY Zenon, <1>2, <2>1 DEF StillRuns
<1> QED BY Zenon, <1>1, <1>3, <1>4 DEF OwnLooked

(* A throttle spends bandwidth on a message that moved before. *)
LEMMA ThrottleSpendAwake ==
  ASSUME NetInv, AwakeInv, NEW l \in Link, NEW v, ThrottleSpend(l, v)
  PROVE  AwakeInv'
<1>1. /\ AtVnet(l, v)
      /\ UNCHANGED <<now, scheduled, buffer, run, todo, schedule_wakeup, busy,
                     m_round_robin_start, m_pending_message_count>>
  BY Zenon DEF ThrottleSpend, switchVars
<1>2. Moves
  BY Zenon, <1>1, BufferMoves
<1>3. OwnLooked(Throttle(l))
  BY Zenon, <1>1, <1>2, ThrottleGoesOn
<1>4. m_round_robin_start' \in Nat /\ PendingOK'
  BY Zenon, <1>1, InKept
<1> QED BY Zenon, <1>2, <1>3, <1>4, StepAwake

(* A throttle passes a message on to the out-buffer. *)
LEMMA ThrottleMoveAwake ==
  ASSUME NetInv, AwakeInv, NEW l \in Link, NEW v \in Vnet, NEW f, ThrottleMove(l, v, f)
  PROVE  AwakeInv'
<1> DEFINE mid == MidBuffer(l, v)
           out == OutBuffer(l, v)
<1>0. /\ scheduled \in [Consumer -> SUBSET Nat] /\ buffer \in [Buffer -> MessageBuffers]
      /\ mid \in Buffer /\ out \in Buffer
  BY Zenon, Places DEF NetInv, TypeOK
<1>1. /\ AtVnet(l, v)
      /\ UNCHANGED <<now, run, todo, schedule_wakeup, busy,
                     m_round_robin_start, m_pending_message_count>>
  BY Zenon DEF ThrottleMove, switchVars
<1>2. PICK t \in AcceptedTimes(out) :
        /\ buffer' = [buffer EXCEPT ![mid] = pop(@, f, now), ![out] = enqueue(@, f.msg, t, now)]
        /\ scheduled' = [scheduled EXCEPT ![Controller(l)] = @ \cup {t}]
  BY Zenon DEF ThrottleMove
<1>3. mid # out
  BY DEF MidBuffer, OutBuffer
<1>4. /\ buffer'[mid] = pop(buffer[mid], f, now)
      /\ buffer'[out] = enqueue(buffer[out], f.msg, t, now)
      /\ \A b \in Buffer : b # mid /\ b # out => buffer'[b] = buffer[b]
  BY Zenon, <1>0, <1>2, <1>3
<1>5. ConsumerOf(out) = Controller(l) /\ Controller(l) \in Consumer
  BY Zenon, Readers
<1>6. /\ t \in scheduled'[Controller(l)]
      /\ \A c \in Consumer : \A u \in scheduled[c] : u \in scheduled'[c]
  BY Zenon, <1>0, <1>2, <1>5
<1>7. ASSUME NEW b \in Buffer
      PROVE  \/ buffer'[b] = buffer[b]
             \/ \E g : buffer'[b] = pop(buffer[b], g, now)
             \/ \E m : \E u \in AcceptedTimes(b) : /\ buffer'[b] = enqueue(buffer[b], m, u, now)
                                                   /\ u \in scheduled'[ConsumerOf(b)]
  <2>1. CASE b = mid
    BY Zenon, <1>4, <2>1
  <2>2. CASE b = out
    BY Zenon, <1>4, <1>5, <1>6, <2>2
  <2>3. CASE b # mid /\ b # out
    BY Zenon, <1>4, <2>3
  <2> QED BY Zenon, <2>1, <2>2, <2>3
<1>8. Moves
  BY Zenon, <1>1, <1>6, <1>7, BufferMoves
<1>9. OwnLooked(Throttle(l))
  BY Zenon, <1>1, <1>8, ThrottleGoesOn
<1>10. \A i \in InPort, w \in Vnet : buffer'[InBuffer(i, w)] = buffer[InBuffer(i, w)]
  <2>1. \A i \in InPort, w \in Vnet : InBuffer(i, w) \in Buffer
    BY Zenon, Places
  <2> QED BY Zenon, <1>4, <2>1, InElsewhere
<1>11. m_round_robin_start' \in Nat /\ PendingOK'
  BY Zenon, <1>1, <1>10, InKept
<1> QED BY Zenon, <1>8, <1>9, <1>11, StepAwake

(* A controller takes a message and looks at all its in-ports again. *)
LEMMA ControllerReceiveAwake ==
  ASSUME NetInv, BusyOK, AwakeInv, NEW l \in Link, NEW v \in Vnet, NEW f, ControllerReceive(l, v, f)
  PROVE  AwakeInv'
<1> DEFINE out == OutBuffer(l, v)
<1>0. buffer \in [Buffer -> MessageBuffers] /\ out \in Buffer
  BY Zenon, Places DEF NetInv, TypeOK
<1>1. /\ run = Controller(l) /\ todo' = InPorts(l)
      /\ buffer' = [buffer EXCEPT ![out] = pop(@, f, now)]
      /\ busy' = [busy EXCEPT ![l] = @ /\ v \in Stallable]
      /\ UNCHANGED <<now, scheduled, run, m_round_robin_start, m_pending_message_count>>
  BY Zenon DEF ControllerReceive, AtPort, switchVars
<1>2. /\ buffer'[out] = pop(buffer[out], f, now)
      /\ \A b \in Buffer : b # out => buffer'[b] = buffer[b]
  BY Zenon, <1>0, <1>1
<1>3. Moves
  BY Zenon, <1>1, <1>2, BufferMoves
<1>4. ASSUME NEW b \in Buffer, ConsumerOf(b) # Controller(l), Stalled(b) PROVE Stalled(b)'
  <2>1. b[1] = "out" /\ busy[b[2]] /\ b[3] \in Stallable
    BY Zenon, <1>4 DEF Stalled, Stalls
  <2>2. ConsumerOf(b) = Controller(b[2]) /\ b[2] \in Link
    BY Zenon, <2>1 DEF ConsumerOf, Buffer
  <2>3. b[2] # l
    BY Zenon, <1>4, <2>2
  <2>4. busy'[b[2]]
    BY Zenon, <1>1, <2>1, <2>2, <2>3 DEF BusyOK
  <2> QED BY Zenon, <2>1, <2>4 DEF Stalled, Stalls
<1>5. ASSUME NEW b \in Buffer, ConsumerOf(b) = Controller(l) PROVE StillRuns(b)'
  <2>1. PICK w \in Vnet : b = OutBuffer(l, w)
    BY Zenon, <1>5, ControllerReads
  <2>2. \E k \in DOMAIN InPorts(l) : InPorts(l)[k] = b
    BY Zenon, <2>1, ListsAll
  <2> QED BY Zenon, <1>1, <1>5, <2>2 DEF StillRuns
<1>6. OwnLooked(Controller(l))
  BY Zenon, <1>1, <1>4, <1>5 DEF OwnLooked
<1>7. \A i \in InPort, w \in Vnet : buffer'[InBuffer(i, w)] = buffer[InBuffer(i, w)]
  <2>1. \A i \in InPort, w \in Vnet : InBuffer(i, w) \in Buffer
    BY Zenon, Places
  <2> QED BY Zenon, <1>2, <2>1, InElsewhere
<1>8. m_round_robin_start' \in Nat /\ PendingOK'
  BY Zenon, <1>1, <1>7, InKept
<1> QED BY Zenon, <1>3, <1>6, <1>8, StepAwake

(* A controller enters a state that stalls: no stall ends. *)
LEMMA ControllerIssueAwake ==
  ASSUME NetInv, BusyOK, AwakeInv, NEW l \in Link, ControllerIssue(l)
  PROVE  AwakeInv'
<1>1. /\ run = Nobody /\ busy' = [busy EXCEPT ![l] = TRUE]
      /\ UNCHANGED <<now, scheduled, buffer, run, m_round_robin_start, m_pending_message_count>>
  BY Zenon DEF ControllerIssue, switchVars
<1>2. Moves
  BY Zenon, <1>1, BufferMoves
<1>3. ASSUME NEW b \in Buffer, Stalled(b) PROVE Stalled(b)'
  <2>1. b[1] = "out" /\ busy[b[2]] /\ b[3] \in Stallable
    BY Zenon, <1>3 DEF Stalled, Stalls
  <2>2. b[2] \in Link
    BY Zenon, <2>1 DEF Buffer
  <2>3. busy'[b[2]]
    BY Zenon, <1>1, <2>1, <2>2 DEF BusyOK
  <2> QED BY Zenon, <2>1, <2>3 DEF Stalled, Stalls
<1>4. OwnLooked(Nobody)
  BY Zenon, <1>1, <1>3, Kinds DEF OwnLooked
<1>5. m_round_robin_start' \in Nat /\ PendingOK'
  BY Zenon, <1>1, InKept
<1> QED BY Zenon, <1>2, <1>4, <1>5, StepAwake

(* A controller sends a message; the switch is scheduled for its arrival. *)
LEMMA SendAwake ==
  ASSUME NetInv, NetInv', AwakeInv, NEW i \in InPort, NEW v \in Vnet, NEW dest, NEW size,
         Send(i, v, dest, size)
  PROVE  AwakeInv'
<1> DEFINE here == InBuffer(i, v)
           message == [src |-> i, id |-> Len(sent[i][v]) + 1, dest |-> dest, size |-> size]
<1>0. /\ scheduled \in [Consumer -> SUBSET Nat] /\ buffer \in [Buffer -> MessageBuffers]
      /\ here \in Buffer /\ Switch \in Consumer /\ ConsumerOf(here) = Switch
      /\ AsSent /\ TypeOK'
  BY Zenon, Places, Readers DEF NetInv, TypeOK
<1>1. /\ run = Nobody
      /\ m_pending_message_count' = [m_pending_message_count EXCEPT ![v] = @ + 1]
      /\ UNCHANGED <<now, run, m_round_robin_start, busy>>
  BY Zenon DEF Send
<1>2. PICK t \in AcceptedTimes(here) :
        /\ buffer' = [buffer EXCEPT ![here] = enqueue(@, message, t, now)]
        /\ scheduled' = [scheduled EXCEPT ![Switch] = @ \cup {t}]
  BY Zenon DEF Send
<1>3. /\ buffer'[here] = enqueue(buffer[here], message, t, now)
      /\ \A b \in Buffer : b # here => buffer'[b] = buffer[b]
  BY Zenon, <1>0, <1>2
<1>4. /\ t \in scheduled'[Switch]
      /\ \A c \in Consumer : \A u \in scheduled[c] : u \in scheduled'[c]
  BY Zenon, <1>0, <1>2
<1>5. ASSUME NEW b \in Buffer
      PROVE  \/ buffer'[b] = buffer[b]
             \/ \E g : buffer'[b] = pop(buffer[b], g, now)
             \/ \E m : \E u \in AcceptedTimes(b) : /\ buffer'[b] = enqueue(buffer[b], m, u, now)
                                                   /\ u \in scheduled'[ConsumerOf(b)]
  <2>1. CASE b = here
    BY Zenon, <1>0, <1>3, <1>4, <2>1
  <2>2. CASE b # here
    BY Zenon, <1>3, <2>2
  <2> QED BY Zenon, <2>1, <2>2
<1>6. Moves
  BY Zenon, <1>1, <1>4, <1>5, BufferMoves
<1>7. PendingOK'
  <2> DEFINE node == [time |-> t, counter |-> buffer[here].m_msg_counter + 1, msg |-> message]
  <2>1. /\ m_pending_message_count \in [Vnet -> Int]
        /\ \A w \in Vnet : /\ IsFiniteSet(Pending(w))
                           /\ m_pending_message_count[w] = Cardinality(Pending(w))
    BY Zenon DEF AwakeInv, PendingOK
  <2>2. Heap(here)' = Heap(here) \cup {node}
    <3>1. enqueue(buffer[here], message, t, now).m_prio_heap = buffer[here].m_prio_heap \cup {node}
      BY Zenon, <1>0 DEF enqueue, MessageBuffers
    <3> QED BY Zenon, <1>3, <3>1 DEF Heap
  <2>3. ASSUME NEW j \in InPort, NEW w \in Vnet, j # i \/ w # v
        PROVE  Heap(InBuffer(j, w))' = Heap(InBuffer(j, w))
    <3>1. InBuffer(j, w) # here /\ InBuffer(j, w) \in Buffer
      BY Zenon, <2>3, Places DEF InBuffer
    <3> QED BY Zenon, <1>3, <3>1 DEF Heap
  <2>4. node \in HeapNode
    <3>1. buffer'[here] \in MessageBuffers
      BY Zenon, <1>0 DEF TypeOK
    <3> QED BY Zenon, <2>2, <3>1 DEF MessageBuffers, Heap
  <2>5. node \notin Pending(v)
    <3> SUFFICES ASSUME NEW j \in InPort, node \in Heap(InBuffer(j, v)) PROVE FALSE
      BY Zenon DEF Pending
    <3>1. node.msg.src = i /\ node.counter = buffer[here].m_msg_counter + 1
      BY Zenon
    <3> HIDE DEF node
    <3>2. j = i
      BY Zenon, <1>0, <3>1 DEF AsSent
    <3>3. node.counter <= buffer[here].m_msg_counter
      <4>1. HeapOK(buffer[here])
        BY Zenon, <1>0 DEF NetInv, BuffersOK, BufferOK
      <4> QED BY Zenon, <3>2, <4>1 DEF HeapOK, Heap
    <3>4. buffer[here].m_msg_counter \in Nat
      BY Zenon, <1>0 DEF MessageBuffers
    <3> QED BY <3>1, <3>3, <3>4
  <2> HIDE DEF node
  <2>6. Pending(v)' = Pending(v) \cup {node}
    BY Zenon, <2>2, <2>3, <2>4 DEF Pending
  <2>7. \A w \in Vnet : w # v => Pending(w)' = Pending(w)
    BY Zenon, <2>3 DEF Pending
  <2>8. IsFiniteSet(Pending(v)') /\ Cardinality(Pending(v)') = Cardinality(Pending(v)) + 1
    BY ZenonT(40), <2>1, <2>5, <2>6, FS_AddElement
  <2>9. /\ m_pending_message_count' \in [Vnet -> Int]
        /\ m_pending_message_count'[v] = m_pending_message_count[v] + 1
        /\ \A w \in Vnet : w # v => m_pending_message_count'[w] = m_pending_message_count[w]
    BY <1>1, <2>1
  <2> QED BY Zenon, <2>1, <2>7, <2>8, <2>9 DEF PendingOK
<1>8. OwnLooked(Nobody)
  <2>1. ASSUME NEW b \in Buffer, Stalled(b) PROVE Stalled(b)'
    BY Zenon, <1>1, <2>1 DEF Stalled, Stalls
  <2> QED BY Zenon, <1>1, <2>1, Kinds DEF OwnLooked
<1>9. m_round_robin_start' \in Nat
  BY Zenon, <1>1 DEF AwakeInv
<1> QED BY Zenon, <1>6, <1>7, <1>8, <1>9, StepAwake

(* Time passes: what becomes due was announced, and what was due before is *)
(* looked at in the new cycle.                                             *)
LEMMA TickAwake ==
  ASSUME NetInv, AwakeInv, Tick
  PROVE  AwakeInv'
<1>1. /\ run = Nobody /\ now' = now + 1 /\ \A c \in Consumer : now \notin scheduled[c]
      /\ UNCHANGED <<scheduled, buffer, busy, m_round_robin_start, m_pending_message_count>>
  BY Zenon DEF Tick, switchVars
<1>2. m_round_robin_start' \in Nat /\ PendingOK'
  BY Zenon, <1>1, InKept
<1>3. /\ now \in Nat
      /\ \A k \in Nat : k <= now + 1 => k <= now \/ (k > now /\ k = now + 1)
      /\ \A k \in Nat : k > now + 1 => k > now
  <2>1. now \in Nat
    BY Zenon DEF NetInv, TypeOK
  <2> QED BY <2>1
<1>4. \A b \in Buffer : \A n \in Heap(b) : n.time \in Nat
  <2> SUFFICES ASSUME NEW b \in Buffer, NEW n \in Heap(b) PROVE n.time \in Nat
    BY Zenon
  <2>1. n \in HeapNode
    BY Zenon, Held DEF NetInv
  <2> QED BY Zenon, <2>1 DEF HeapNode
<1>5. Announced'
  BY Zenon, <1>1, <1>3, <1>4 DEF AwakeInv, Announced, Heap
<1>6. ASSUME NEW b \in Buffer, Due(b)', ~Stalled(b)' PROVE Scheduled(b)'
  <2>0. ~Stalled(b) /\ ConsumerOf(b) \in Consumer /\ ConsumerOf(b) # Nobody
    BY Zenon, <1>1, <1>6, Kinds DEF Stalled, Stalls
  <2>1. PICK n \in Heap(b) : n.time <= now + 1
    BY Zenon, <1>1, <1>6 DEF Due, Heap
  <2>2. CASE n.time <= now
    <3>1. Scheduled(b)
      BY Zenon, <1>1, <2>0, <2>2 DEF AwakeInv, LookedAt, Due, StillRuns
    <3> QED BY Zenon, <1>1, <2>0, <3>1 DEF Scheduled
  <2>3. CASE n.time > now /\ n.time = now + 1
    BY Zenon, <1>1, <2>3 DEF AwakeInv, Announced, Scheduled
  <2> QED BY Zenon, <1>3, <1>4, <2>1, <2>2, <2>3
<1>7. LookedAt'
  BY Zenon, <1>6 DEF LookedAt
<1> QED BY Zenon, <1>2, <1>5, <1>7 DEF AwakeInv

(* Every step leaves a state that stalls, or does not, on each link. *)
LEMMA BusyStep ==
  ASSUME BusyOK, [Next]_vars
  PROVE  BusyOK'
<1>1. ASSUME NEW l \in Link, NEW x \in BOOLEAN, busy' = [busy EXCEPT ![l] = x] PROVE BusyOK'
  BY Zenon, <1>1 DEF BusyOK
<1>2. ASSUME UNCHANGED busy PROVE BusyOK'
  BY Zenon, <1>2 DEF BusyOK
<1>3. CASE Tick \/ \E m \in Traffic : Send(m[1], m[2], m[3], m[4])
  BY Zenon, <1>2, <1>3 DEF Tick, Send
<1>4. CASE SwitchStep
  BY ZenonT(40), <1>2, <1>4 DEF SwitchStep, SwitchWakeup, SwitchReturn, SwitchMove, SwitchBlocked
<1>5. ASSUME NEW l \in Link, ThrottleStep(l) PROVE BusyOK'
  BY Zenon, <1>2, <1>5
  DEF ThrottleStep, ThrottleWakeup, ThrottleReturn, ThrottleSpend, ThrottleBlocked, ThrottleMove
<1>6. ASSUME NEW l \in Link, ControllerStep(l) PROVE BusyOK'
  <2>1. CASE ControllerIssue(l)
    BY Zenon, <1>1, <2>1 DEF ControllerIssue
  <2>2. ASSUME NEW v \in Vnet, NEW f, ControllerReceive(l, v, f) PROVE BusyOK'
    <3>1. busy' = [busy EXCEPT ![l] = (busy[l] /\ v \in Stallable)]
      BY Zenon, <2>2 DEF ControllerReceive, BusyOK
    <3>2. (busy[l] /\ v \in Stallable) \in BOOLEAN
      BY Zenon
    <3> QED BY Zenon, <1>1, <3>1, <3>2
  <2> QED BY Zenon, <1>2, <1>6, <2>1, <2>2
          DEF ControllerStep, ControllerWakeup, ControllerReturn, ControllerResourceStall
<1>7. CASE UNCHANGED vars
  BY Zenon, <1>2, <1>7 DEF vars
<1> QED BY Zenon, <1>3, <1>4, <1>5, <1>6, <1>7 DEF Next

(* Every step of the network keeps the invariant on wakeups. *)
LEMMA AwakeStep ==
  ASSUME NetInv, NetInv', BusyOK, AwakeInv, Next
  PROVE  AwakeInv'
<1>1. CASE Tick
  BY Zenon, <1>1, TickAwake
<1>2. CASE \E m \in Traffic : Send(m[1], m[2], m[3], m[4])
  <2>1. PICK m \in Traffic : Send(m[1], m[2], m[3], m[4])
    BY Zenon, <1>2
  <2>2. m[1] \in InPort /\ m[2] \in Vnet
    BY Zenon, NetworkAssumption
  <2> QED BY Zenon, <2>1, <2>2, SendAwake
<1>3. CASE SwitchStep
  BY Zenon, <1>3, SwitchWakeupAwake, SwitchQuietAwake, SwitchMoveAwake DEF SwitchStep
<1>4. ASSUME NEW l \in Link, ThrottleStep(l) PROVE AwakeInv'
  BY Zenon, <1>4, LinkWakeupAwake, ThrottleQuietAwake, ThrottleSpendAwake, ThrottleMoveAwake
  DEF ThrottleStep
<1>5. ASSUME NEW l \in Link, ControllerStep(l) PROVE AwakeInv'
  BY Zenon, <1>5, LinkWakeupAwake, ControllerQuietAwake, ControllerIssueAwake, ControllerReceiveAwake
  DEF ControllerStep
<1> QED BY Zenon, <1>1, <1>2, <1>3, <1>4, <1>5 DEF Next

(* Nothing is on its way at first. *)
LEMMA AwakeInit ==
  ASSUME Init PROVE BusyOK /\ AwakeInv
<1>1. BusyOK /\ m_round_robin_start \in Nat
  BY Zenon DEF Init, BusyOK
<1>2. \A b \in Buffer : Heap(b) = {}
  BY Zenon DEF Init, Heap, NewBuffer
<1>3. PendingOK
  <2>1. \A v \in Vnet : Pending(v) = {}
    <3>1. \A i \in InPort, v \in Vnet : InBuffer(i, v) \in Buffer
      BY Zenon, Places
    <3> QED BY Zenon, <1>2, <3>1 DEF Pending
  <2>2. m_pending_message_count = [v \in Vnet |-> 0] /\ 0 \in Int
    BY DEF Init
  <2> QED BY Zenon, <2>1, <2>2, FS_EmptySet DEF PendingOK
<1> QED BY Zenon, <1>1, <1>2, <1>3 DEF AwakeInv, Announced, LookedAt, Due

(* No message sleeps, for any number of ports, links and virtual networks, *)
(* any latencies, bandwidth and sizes: whenever no wakeup() runs, the      *)
(* consumer of a message that is on its way is scheduled for its arrival,  *)
(* and the consumer of a message that has arrived, and that it does not    *)
(* stall, for this or the next cycle.                                      *)
THEOREM NothingSleeps == Spec => []Awake
<1> DEFINE Inv == BusyOK /\ AwakeInv
<1>1. Init => Inv
  BY Zenon, AwakeInit
<1>2. ASSUME NetInv, NetInv', Inv, [Next]_vars PROVE Inv'
  <2>1. BusyOK'
    BY Zenon, <1>2, BusyStep
  <2>2. CASE Next
    BY Zenon, <1>2, <2>1, <2>2, AwakeStep
  <2>3. CASE UNCHANGED vars
    <3>1. UNCHANGED <<now, buffer, scheduled, busy, run, todo, bw_remaining, schedule_wakeup,
                      m_round_robin_start, m_pending_message_count>>
      BY Zenon, <2>3 DEF vars, switchVars, locals
    <3>2. m_round_robin_start' \in Nat /\ PendingOK'
      BY Zenon, <1>2, <3>1, InKept
    <3>3. Announced'
      BY Zenon, <1>2, <3>1 DEF AwakeInv, Announced, Heap
    <3>4. LookedAt'
      BY Zenon, <1>2, <3>1 DEF AwakeInv, LookedAt, Due, Heap, Stalled, Stalls, Scheduled, StillRuns
    <3> QED BY Zenon, <2>1, <3>2, <3>3, <3>4 DEF AwakeInv
  <2> QED BY Zenon, <1>2, <2>2, <2>3
<1>3. ASSUME NetInv, Inv PROVE Awake
  <2> SUFFICES ASSUME NEW b \in Buffer, run = Nobody
               PROVE  /\ \A n \in buffer[b].m_prio_heap :
                           n.time > now => n.time \in scheduled[ConsumerOf(b)]
                      /\ Ready(b) /\ ~Stalled(b) => scheduled[ConsumerOf(b)] \cap {now, now + 1} # {}
    BY Zenon DEF Awake, Stalled
  <2>1. \A n \in buffer[b].m_prio_heap : n.time > now => n.time \in scheduled[ConsumerOf(b)]
    BY Zenon, <1>3 DEF AwakeInv, Announced, Heap
  <2>2. ASSUME Ready(b), ~Stalled(b) PROVE scheduled[ConsumerOf(b)] \cap {now, now + 1} # {}
    <3>1. Due(b)
      BY Zenon, <2>2 DEF Ready, isReady, Due, Heap
    <3>2. ConsumerOf(b) # Nobody
      BY Zenon, Kinds
    <3>3. Scheduled(b)
      BY Zenon, <1>3, <2>2, <3>1, <3>2 DEF AwakeInv, LookedAt, StillRuns
    <3> QED BY Zenon, <3>3 DEF Scheduled
  <2> QED BY Zenon, <2>1, <2>2
<1> HIDE DEF Inv
<1> QED BY <1>1, <1>2, <1>3, NetInvariant, PTL DEF Spec

(* Every buffer, counter and schedule keeps its type, and a throttle never *)
(* spends more bandwidth than it has.                                      *)
THEOREM NetworkTyped == Spec => []TypeOK
<1>1. NetInv => TypeOK
  BY Zenon DEF NetInv
<1> QED BY <1>1, NetInvariant, PTL
=============================================================================
