--------------------------- MODULE SimpleNetwork ---------------------------
(***************************************************************************)
(* One hop of Ruby's simple network: controllers put messages into the     *)
(* in-buffers of a switch (PerfectSwitch.cc), which copies each to the     *)
(* links of its destinations; behind every link a throttle (Throttle.cc)   *)
(* passes messages on at the link's bandwidth to the out-buffer, whose     *)
(* consumer is a controller generated by SLICC (StateMachine.py).          *)
(*                                                                         *)
(* Nothing runs by itself: RubyEventQueue calls wakeup() of a consumer in  *)
(* the cycles for which someone scheduled it.  A wakeup() is atomic in the *)
(* code.  Here it is a sequence of steps, one for each message it moves or *)
(* cannot move; `run' names the consumer whose wakeup() is under way, and  *)
(* no other action is enabled meanwhile.                                   *)
(***************************************************************************)
EXTENDS MessageBuffer, Sequences

CONSTANTS
  NumIn, NumOut, NumVnets,   \* in-ports, links and virtual networks
  Traffic,               \* the messages sent: in-port, virtual network,
                         \*   destinations, size in units of bandwidth
  Bandwidth,             \* getLinkBandwidth()
  Latency,               \* the delta of enqueue, by buffer
  MaxSize,               \* m_max_size, by stage; Infinite for a node's buffers
  PRIORITY_SWITCH_LIMIT,
  TransitionsPerCycle,   \* m_transitions_per_cycle
  Stallable              \* virtual networks whose messages a controller stalls

InPort == 0 .. (NumIn - 1)
Link == 0 .. (NumOut - 1)
Vnet == 0 .. (NumVnets - 1)

Stage == {"in", "mid", "out"}

Buffer == ({"in"} \X InPort \X Vnet) \cup ({"mid", "out"} \X Link \X Vnet)

ASSUME NetworkAssumption ==
  /\ NumIn \in Nat \ {0} /\ NumOut \in Nat /\ NumVnets \in Nat
  /\ Traffic \subseteq InPort \X Vnet \X (SUBSET Link) \X (Nat \ {0})
  /\ Bandwidth \in Nat \ {0}
  /\ Latency \in [Buffer -> Nat \ {0}]
  /\ MaxSize \in [Stage -> Nat \cup {Infinite}] /\ MaxSize["in"] = Infinite
  /\ TransitionsPerCycle \in Nat \ {0}
  /\ PRIORITY_SWITCH_LIMIT \in Nat
  /\ Stallable \subseteq Vnet

InBuffer(i, v) == <<"in", i, v>>
MidBuffer(l, v) == <<"mid", l, v>>
OutBuffer(l, v) == <<"out", l, v>>

Switch == <<"switch", 0>>
Throttle(l) == <<"throttle", l>>
Controller(l) == <<"controller", l>>
Nobody == <<"nobody", 0>>

Consumer == {Switch} \cup ({"throttle", "controller"} \X Link)

(* setConsumer: addInPort, addVirtualNetwork, and the generated init. *)
ConsumerOf(b) ==
  CASE b[1] = "in"  -> Switch
    [] b[1] = "mid" -> Throttle(b[2])
    [] b[1] = "out" -> Controller(b[2])

VARIABLES
  randomization,   \* RubySystem::getRandomization(), fixed
  now,          \* RubyEventQueue::getTime()
  scheduled,    \* m_scheduled_wakeups of each consumer
  buffer,       \* the message buffers
  run, todo,    \* the consumer that runs, and what it has still to look at
  m_round_robin_start,
  m_wakeups_wo_switch,       \* of the switch and of each throttle
  m_pending_message_count,   \* of the switch, by virtual network
  m_units_remaining,         \* of each throttle, by virtual network
  bw_remaining, schedule_wakeup, counter,   \* locals of wakeup()
  busy,         \* a controller waits for a response and stalls other messages
  sent,         \* history: the destinations of the messages sent
  received      \* history: number of the last message received

switchVars == <<m_round_robin_start, m_pending_message_count>>
locals == <<bw_remaining, schedule_wakeup, counter>>
history == <<sent, received>>
vars == <<randomization, now, scheduled, buffer, run, todo, switchVars, m_wakeups_wo_switch,
          m_units_remaining, locals, busy, history>>

Init ==
  /\ randomization \in BOOLEAN
  /\ now = 0
  /\ scheduled = [c \in Consumer |-> {}]
  /\ buffer = [b \in Buffer |-> NewBuffer]
  /\ run = Nobody /\ todo = <<>>
  /\ m_round_robin_start = 0
  /\ m_wakeups_wo_switch = [c \in Consumer |-> 0]
  /\ m_pending_message_count = [v \in Vnet |-> 0]
  /\ m_units_remaining = [l \in Link |-> [v \in Vnet |-> 0]]
  /\ bw_remaining = 0 /\ schedule_wakeup = FALSE /\ counter = 0
  /\ busy = [l \in Link |-> FALSE]
  /\ sent = [i \in InPort |-> [v \in Vnet |-> <<>>]]
  /\ received = [i \in InPort |-> [v \in Vnet |-> [l \in Link |-> 0]]]

-----------------------------------------------------------------------------
(* Buffers and the event queue *)

Ready(b) == isReady(buffer[b], now)
Available(b) == areNSlotsAvailable(buffer[b], MaxSize[b[1]], 1, now)

(* The arrival times enqueue accepts; it panics on others. *)
AcceptedTimes(b) ==
  {t \in ArrivalTimes(buffer[b], Latency[b], now, randomization) :
     t >= buffer[b].m_last_arrival_time}

scheduleEvent(c) == scheduled' = [scheduled EXCEPT ![c] = @ \cup {now + 1}]

(* The wakeup() ends; the event queue then drops this cycle's entry. *)
Return == run' = Nobody /\ todo' = <<>>

(* Time passes when every wakeup of the cycle is done. *)
Tick ==
  /\ run = Nobody
  /\ \A c \in Consumer : now \notin scheduled[c]
  /\ now' = now + 1
  /\ UNCHANGED <<scheduled, buffer, run, todo, switchVars, m_wakeups_wo_switch,
                 m_units_remaining, locals, busy, history>>

(* A transition of the controller at in-port i sends a message. *)
Send(i, v, dest, size) ==
  /\ run = Nobody
  /\ \E t \in AcceptedTimes(InBuffer(i, v)) :
       /\ buffer' = [buffer EXCEPT ![InBuffer(i, v)] =
            enqueue(@, [src |-> i, id |-> Len(sent[i][v]) + 1, dest |-> dest, size |-> size],
                    t, now)]
       /\ scheduled' = [scheduled EXCEPT ![Switch] = @ \cup {t}]
  /\ m_pending_message_count' = [m_pending_message_count EXCEPT ![v] = @ + 1]
  /\ sent' = [sent EXCEPT ![i][v] = Append(@, dest)]
  /\ UNCHANGED <<now, run, todo, m_round_robin_start, m_wakeups_wo_switch,
                 m_units_remaining, locals, busy, received>>

(* The priority of the virtual networks is inverted now and then. *)
Inverts(c) == m_wakeups_wo_switch[c] + 1 > PRIORITY_SWITCH_LIMIT
VnetAt(c, k) == IF Inverts(c) THEN k - 1 ELSE NumVnets - k

(* The event queue calls wakeup() of consumer c, which is going to look at *)
(* the buffers of its list.                                                *)
Wakeup(c, list) ==
  /\ run = Nobody /\ now \in scheduled[c]
  /\ scheduled' = [scheduled EXCEPT ![c] = @ \ {now}]
  /\ run' = c /\ todo' = list

(* b is the next buffer of the list in which there is something to do. *)
Comes(b, Something(_)) ==
  /\ Something(b)
  /\ \E k \in DOMAIN todo : todo[k] = b /\ \A j \in 1 .. (k - 1) : ~Something(todo[j])

Behind(b) ==
  LET k == CHOOSE k \in DOMAIN todo : todo[k] = b IN SubSeq(todo, k + 1, Len(todo))

CountWakeup(c) ==
  m_wakeups_wo_switch' = [m_wakeups_wo_switch EXCEPT ![c] = IF Inverts(c) THEN 0 ELSE @ + 1]

-----------------------------------------------------------------------------
(* PerfectSwitch::wakeup *)

(* All in-buffers: the virtual networks by priority, the in-ports of each  *)
(* in turn, beginning one port further for each virtual network.           *)
RoundRobin ==
  [p \in 1 .. (NumVnets * NumIn) |->
     LET k == (p - 1) \div NumIn
         j == (p - 1) % NumIn
     IN InBuffer((m_round_robin_start + k + j + 1) % NumIn, VnetAt(Switch, k + 1))]

SwitchWakeup ==
  /\ Wakeup(Switch, RoundRobin)
  /\ CountWakeup(Switch)
  /\ m_round_robin_start' = (m_round_robin_start + NumVnets) % NumIn
  /\ UNCHANGED <<now, buffer, m_pending_message_count, m_units_remaining, locals, busy, history>>

(* Mutant: one free link is enough. *)
Enough_one(dest, v) == dest = {} \/ \E l \in dest : Available(MidBuffer(l, v))

Enough(dest, v) == \A l \in dest : Available(MidBuffer(l, v))

(* isReady, behind the test of the number of pending messages. *)
Waits(b) == m_pending_message_count[b[3]] > 0 /\ Ready(b)

AtIn(i, v) == run = Switch /\ Comes(InBuffer(i, v), Waits)

(* The message goes to the links of all its destinations, or to none yet.  *)
SwitchMove(i, v, f) ==
  LET dest == f.msg.dest
      mids == {MidBuffer(l, v) : l \in dest}
      times == UNION {AcceptedTimes(m) : m \in mids}
  IN
  /\ AtIn(i, v) /\ IsFront(buffer[InBuffer(i, v)], f)
  /\ Enough(dest, v)
  /\ \E t \in [dest -> times] :
       /\ \A l \in dest : t[l] \in AcceptedTimes(MidBuffer(l, v))
       /\ buffer' = [b \in Buffer |->
            IF b = InBuffer(i, v) THEN pop(buffer[b], f, now)
            ELSE IF b \in mids
              THEN enqueue(buffer[b], [f.msg EXCEPT !.dest = {b[2]}], t[b[2]], now)
            ELSE buffer[b]]
       /\ scheduled' = [c \in Consumer |->
            IF \E l \in dest : c = Throttle(l) THEN scheduled[c] \cup {t[c[2]]}
                                             ELSE scheduled[c]]
  /\ m_pending_message_count' = [m_pending_message_count EXCEPT ![v] = @ - 1]
  /\ UNCHANGED <<now, run, todo, m_round_robin_start, m_wakeups_wo_switch,
                 m_units_remaining, locals, busy, history>>

SwitchBlocked(i, v, f) ==
  /\ AtIn(i, v) /\ IsFront(buffer[InBuffer(i, v)], f)
  /\ ~Enough(f.msg.dest, v)
  /\ scheduleEvent(Switch)
  /\ todo' = Behind(InBuffer(i, v))
  /\ UNCHANGED <<now, buffer, run, switchVars, m_wakeups_wo_switch, m_units_remaining,
                 locals, busy, history>>

SwitchReturn ==
  /\ run = Switch /\ \A k \in DOMAIN todo : ~Waits(todo[k])
  /\ Return
  /\ UNCHANGED <<now, scheduled, buffer, switchVars, m_wakeups_wo_switch,
                 m_units_remaining, locals, busy, history>>

-----------------------------------------------------------------------------
(* Throttle::wakeup *)

ThrottleWakeup(l) ==
  /\ Wakeup(Throttle(l), [k \in 1 .. NumVnets |-> MidBuffer(l, VnetAt(Throttle(l), k))])
  /\ CountWakeup(Throttle(l))
  /\ bw_remaining' = Bandwidth /\ schedule_wakeup' = FALSE
  /\ UNCHANGED <<now, buffer, switchVars, m_units_remaining, counter, busy, history>>

(* The throttle has bandwidth left, and buffer b something to send. *)
Wants(b) == bw_remaining > 0 /\ (Ready(b) \/ m_units_remaining[b[2]][b[3]] > 0)

AtVnet(l, v) == run = Throttle(l) /\ Comes(MidBuffer(l, v), Wants)

(* Mutant: the difference is not cut off at 0. *)
Spend_negative(l, v, units) ==
  /\ m_units_remaining' = [m_units_remaining EXCEPT ![l][v] = units - bw_remaining]
  /\ bw_remaining' = bw_remaining - units

Spend(l, v, units) ==
  /\ m_units_remaining' = [m_units_remaining EXCEPT ![l][v] =
                             IF units > bw_remaining THEN units - bw_remaining ELSE 0]
  /\ bw_remaining' = IF bw_remaining > units THEN bw_remaining - units ELSE 0

(* A message moves on when its first unit is sent. *)
ThrottleMove(l, v, f) ==
  /\ AtVnet(l, v) /\ Available(OutBuffer(l, v))
  /\ m_units_remaining[l][v] = 0
  /\ IsFront(buffer[MidBuffer(l, v)], f)
  /\ \E t \in AcceptedTimes(OutBuffer(l, v)) :
       /\ buffer' = [buffer EXCEPT ![MidBuffer(l, v)] = pop(@, f, now),
                                   ![OutBuffer(l, v)] = enqueue(@, f.msg, t, now)]
       /\ scheduled' = [scheduled EXCEPT ![Controller(l)] = @ \cup {t}]
  /\ Spend(l, v, f.msg.size)
  /\ UNCHANGED <<now, run, todo, switchVars, m_wakeups_wo_switch, schedule_wakeup,
                 counter, busy, history>>

(* The rest of a message that moved in an earlier cycle. *)
ThrottleSpend(l, v) ==
  /\ AtVnet(l, v) /\ Available(OutBuffer(l, v))
  /\ m_units_remaining[l][v] > 0
  /\ Spend(l, v, m_units_remaining[l][v])
  /\ UNCHANGED <<now, scheduled, buffer, run, todo, switchVars, m_wakeups_wo_switch,
                 schedule_wakeup, counter, busy, history>>

ThrottleBlocked(l, v) ==
  /\ AtVnet(l, v) /\ ~Available(OutBuffer(l, v))
  /\ schedule_wakeup' = TRUE
  /\ todo' = Behind(MidBuffer(l, v))
  /\ UNCHANGED <<now, scheduled, buffer, run, switchVars, m_wakeups_wo_switch,
                 m_units_remaining, bw_remaining, counter, busy, history>>

ThrottleReturn(l) ==
  /\ run = Throttle(l) /\ \A k \in DOMAIN todo : ~Wants(todo[k])
  /\ IF bw_remaining > 0 /\ ~schedule_wakeup THEN UNCHANGED scheduled
                                             ELSE scheduleEvent(Throttle(l))
  /\ Return
  /\ UNCHANGED <<now, buffer, switchVars, m_wakeups_wo_switch, m_units_remaining,
                 locals, busy, history>>

-----------------------------------------------------------------------------
(* wakeup() of a generated controller; its in-ports are the out-buffers of *)
(* link l.  What a transition does is left to module MSI: here it takes a  *)
(* message, finds a resource missing, or stalls.                           *)

InPorts(l) == [k \in 1 .. NumVnets |-> OutBuffer(l, k - 1)]

ControllerWakeup(l) ==
  /\ Wakeup(Controller(l), InPorts(l))
  /\ counter' = 0
  /\ UNCHANGED <<now, buffer, switchVars, m_wakeups_wo_switch, m_units_remaining,
                 bw_remaining, schedule_wakeup, busy, history>>

(* z_stall, TransitionResult_ProtocolStall: the message waits for a change *)
(* of state, and the controller goes on to its next in-port.               *)
Stalls(l, v) == busy[l] /\ v \in Stallable

Doable(b) == Ready(b) /\ ~Stalls(b[2], b[3])

AtPort(l, v) ==
  run = Controller(l) /\ counter < TransitionsPerCycle /\ Comes(OutBuffer(l, v), Doable)

(* Mutant: the controller goes on to its next in-port. *)
ControllerReceive_onward(l, v, f) ==
  /\ AtPort(l, v) /\ IsFront(buffer[OutBuffer(l, v)], f)
  /\ buffer' = [buffer EXCEPT ![OutBuffer(l, v)] = pop(@, f, now)]
  /\ received' = [received EXCEPT ![f.msg.src][v][l] = f.msg.id]
  /\ busy' = [busy EXCEPT ![l] = @ /\ v \in Stallable]
  /\ counter' = counter + 1
  /\ todo' = Behind(OutBuffer(l, v))
  /\ UNCHANGED <<now, scheduled, run, switchVars, m_wakeups_wo_switch, m_units_remaining,
                 bw_remaining, schedule_wakeup, sent>>

(* TransitionResult_Valid.  A response ends the state that stalls. *)
ControllerReceive(l, v, f) ==
  /\ AtPort(l, v) /\ IsFront(buffer[OutBuffer(l, v)], f)
  /\ buffer' = [buffer EXCEPT ![OutBuffer(l, v)] = pop(@, f, now)]
  /\ received' = [received EXCEPT ![f.msg.src][v][l] = f.msg.id]
  /\ busy' = [busy EXCEPT ![l] = @ /\ v \in Stallable]
  /\ counter' = counter + 1
  /\ todo' = InPorts(l)
  /\ UNCHANGED <<now, scheduled, run, switchVars, m_wakeups_wo_switch, m_units_remaining,
                 bw_remaining, schedule_wakeup, sent>>

(* TransitionResult_ResourceStall *)
ControllerResourceStall(l, v) ==
  /\ AtPort(l, v)
  /\ scheduleEvent(Controller(l))
  /\ todo' = Behind(OutBuffer(l, v))
  /\ UNCHANGED <<now, buffer, run, switchVars, m_wakeups_wo_switch, m_units_remaining,
                 locals, busy, history>>

ControllerReturn(l) ==
  /\ run = Controller(l)
  /\ counter = TransitionsPerCycle \/ \A k \in DOMAIN todo : ~Doable(todo[k])
  /\ IF counter = TransitionsPerCycle THEN scheduleEvent(Controller(l))
                                      ELSE UNCHANGED scheduled
  /\ Return
  /\ UNCHANGED <<now, buffer, switchVars, m_wakeups_wo_switch, m_units_remaining,
                 locals, busy, history>>

(* The controller sends a request and enters a state that stalls. *)
ControllerIssue(l) ==
  /\ run = Nobody /\ ~busy[l]
  /\ busy' = [busy EXCEPT ![l] = TRUE]
  /\ UNCHANGED <<now, scheduled, buffer, run, todo, switchVars, m_wakeups_wo_switch,
                 m_units_remaining, locals, history>>

-----------------------------------------------------------------------------
SwitchStep ==
  \/ SwitchWakeup \/ SwitchReturn
  \/ \E i \in InPort, v \in Vnet : \E f \in buffer[InBuffer(i, v)].m_prio_heap :
       SwitchMove(i, v, f) \/ SwitchBlocked(i, v, f)

ThrottleStep(l) ==
  \/ ThrottleWakeup(l) \/ ThrottleReturn(l)
  \/ \E v \in Vnet :
       \/ ThrottleSpend(l, v) \/ ThrottleBlocked(l, v)
       \/ \E f \in buffer[MidBuffer(l, v)].m_prio_heap : ThrottleMove(l, v, f)

ControllerStep(l) ==
  \/ ControllerWakeup(l) \/ ControllerReturn(l) \/ ControllerIssue(l)
  \/ \E v \in Vnet :
       \/ ControllerResourceStall(l, v)
       \/ \E f \in buffer[OutBuffer(l, v)].m_prio_heap : ControllerReceive(l, v, f)

Next ==
  /\ UNCHANGED randomization
  /\ \/ Tick
     \/ \E m \in Traffic : Send(m[1], m[2], m[3], m[4])
     \/ SwitchStep
     \/ \E l \in Link : ThrottleStep(l) \/ ControllerStep(l)

Spec == Init /\ [][Next]_vars

-----------------------------------------------------------------------------
(* Properties *)

Message == [src : InPort, id : Nat \ {0}, dest : SUBSET Link, size : Nat \ {0}]
HeapNode == [time : Nat, counter : Nat, msg : Message]
MessageBuffers ==
  [m_prio_heap : SUBSET HeapNode, m_msg_counter : Nat, m_size : Int,
   m_last_arrival_time : Nat, m_time_last_time_enqueue : Nat, m_msgs_this_cycle : Nat,
   m_time_last_time_pop : Nat, m_size_at_cycle_start : Int]

(* Types; the throttle never spends more than it has. *)
TypeOK ==
  /\ randomization \in BOOLEAN /\ now \in Nat
  /\ scheduled \in [Consumer -> SUBSET Nat]
  /\ buffer \in [Buffer -> MessageBuffers]
  /\ m_units_remaining \in [Link -> [Vnet -> Nat]]
  /\ bw_remaining \in 0 .. Bandwidth
  /\ sent \in [InPort -> [Vnet -> Seq(SUBSET Link)]]
  /\ received \in [InPort -> [Vnet -> [Link -> Nat]]]

Heap(b) == buffer[b].m_prio_heap

(* The numbers of in-port i's messages in a buffer behind the switch, and  *)
(* of the messages for link l in a buffer before it.                       *)
Ids(heap, i) == {n.msg.id : n \in {m \in heap : m.msg.src = i}}
Waiting(heap, l) == {n.msg.id : n \in {m \in heap : l \in m.msg.dest}}

(* Messages sent on virtual network v from i to l after the last one that  *)
(* was received.                                                           *)
Outstanding(i, v, l) ==
  {k \in DOMAIN sent[i][v] : l \in sent[i][v][k] /\ k > received[i][v][l]}

InLine(in, mid, out, all) ==
  /\ in \cup mid \cup out = all
  /\ \A k \in out, m \in mid : k < m
  /\ \A k \in out \cup mid, m \in in : k < m

(* Every message is delivered once to each destination, and the messages   *)
(* of a pair on a virtual network in the order in which they were sent:    *)
(* what is on the way is what was sent after the last message received,    *)
(* and nothing is in two buffers.                                          *)
InOrderOnce ==
  \A i \in InPort, v \in Vnet, l \in Link :
    InLine(Waiting(Heap(InBuffer(i, v)), l), Ids(Heap(MidBuffer(l, v)), i),
           Ids(Heap(OutBuffer(l, v)), i), Outstanding(i, v, l))

(* No sleeping message: while no wakeup() runs, a message on its way has   *)
(* its consumer scheduled for its arrival, and a consumer with a message   *)
(* that it does not stall at the head of a buffer runs in this or in the   *)
(* next cycle.  A stalled message needs no wakeup: the response that ends  *)
(* the stall makes the controller look at all its in-ports again.          *)
Awake ==
  \A b \in Buffer : run = Nobody =>
    /\ \A n \in buffer[b].m_prio_heap : n.time > now => n.time \in scheduled[ConsumerOf(b)]
    /\ Ready(b) /\ ~(b[1] = "out" /\ Stalls(b[2], b[3])) =>
         scheduled[ConsumerOf(b)] \cap {now, now + 1} # {}

(* A buffer with a limit never holds more, although pops and enqueues of a *)
(* cycle come in any order and the visible size lags behind.               *)
WithinLimit ==
  \A b \in Buffer :
    /\ buffer[b].m_size = Cardinality(buffer[b].m_prio_heap)
    /\ MaxSize[b[1]] # Infinite => buffer[b].m_size <= MaxSize[b[1]]

(* enqueue never panics with "FIFO ordering violated". *)
NoPanic ==
  \A b \in Buffer : AcceptedTimes(b) = ArrivalTimes(buffer[b], Latency[b], now, randomization)
=============================================================================
