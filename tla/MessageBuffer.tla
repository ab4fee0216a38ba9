--------------------------- MODULE MessageBuffer ---------------------------
(***************************************************************************)
(* Ruby's message buffers (ruby/buffers/MessageBuffer.cc), as operators on *)
(* a record with the buffer's members.  m_prio_heap is the set of its      *)
(* nodes; its front is the node that MessageBufferNode's operator>, by     *)
(* arrival time and then by counter, puts first.                           *)
(*                                                                         *)
(* These are the buffers of ordered networks, m_strict_fifo.  Not here:    *)
(* recycle, stallMessage and reanalyzeMessages, which the MSI protocol     *)
(* does not call, and clear, which runs before any message is sent.        *)
(***************************************************************************)
EXTENDS Integers, FiniteSets

CONSTANT Delays    \* the values of random_time()

ASSUME BufferAssumption == Delays \subseteq Nat \ {0}

Infinite == -1     \* m_max_size of a buffer without a limit

NewBuffer ==
  [m_prio_heap |-> {}, m_msg_counter |-> 0, m_size |-> 0, m_last_arrival_time |-> 0,
   m_time_last_time_enqueue |-> 0, m_msgs_this_cycle |-> 0,
   m_time_last_time_pop |-> 0, m_size_at_cycle_start |-> 0]

(* Mutant: messages that arrive in the same cycle come in any order. *)
Before_time(m, n) == m.time < n.time

Before(m, n) == m.time < n.time \/ (m.time = n.time /\ m.counter < n.counter)

IsFront(b, n) == n \in b.m_prio_heap /\ \A o \in b.m_prio_heap : ~Before(o, n)

isReady(b, now) == \E n \in b.m_prio_heap : IsFront(b, n) /\ n.time <= now

(* The size the network sees: a pop takes effect in the next cycle, an     *)
(* enqueue at once.  Messages enqueued before the first pop of a cycle are *)
(* counted twice.                                                          *)
VisibleSize(b, now) ==
  IF b.m_time_last_time_pop < now THEN b.m_size
  ELSE IF b.m_time_last_time_enqueue < now THEN b.m_size_at_cycle_start
  ELSE b.m_size_at_cycle_start + b.m_msgs_this_cycle

areNSlotsAvailable(b, m_max_size, n, now) ==
  m_max_size = Infinite \/ VisibleSize(b, now) + n <= m_max_size

Later(t, u) == IF t < u THEN u ELSE t

(* Mutant: the random delay counts from now, whatever is on its way. *)
ArrivalTimes_overtake(b, delta, now, random) ==
  IF random THEN {now + r : r \in Delays} ELSE {now + delta}

(* The arrival times enqueue can choose; it panics on one that is before   *)
(* the last.  random is RubySystem::getRandomization().                    *)
ArrivalTimes(b, delta, now, random) ==
  IF random THEN {Later(b.m_last_arrival_time, now) + r : r \in Delays}
            ELSE {now + delta}

enqueue(b, message, arrival_time, now) ==
  [b EXCEPT
     !.m_msg_counter = @ + 1,
     !.m_size = @ + 1,
     !.m_msgs_this_cycle = IF b.m_time_last_time_enqueue < now THEN 1 ELSE @ + 1,
     !.m_time_last_time_enqueue = now,
     !.m_last_arrival_time = arrival_time,
     !.m_prio_heap = @ \cup {[time |-> arrival_time, counter |-> b.m_msg_counter + 1,
                              msg |-> message]}]

pop(b, front, now) ==
  [b EXCEPT
     !.m_prio_heap = @ \ {front},
     !.m_size_at_cycle_start = IF b.m_time_last_time_pop < now THEN b.m_size ELSE @,
     !.m_time_last_time_pop = now,
     !.m_size = @ - 1]
=============================================================================
