-------------------------- MODULE MC_SimpleNetwork --------------------------
(* Two in-ports, two links, two virtual networks; a message to both links. *)
EXTENDS SimpleNetwork

CONSTANTS
  MaxEvents,   \* bound on the messages, stalls and missing resources,
  MaxRandom,   \*   and on them with random delays
  MaxTime      \* bound on the time

VARIABLE left

Messages == {<<0, 0, {0, 1}, 3>>, <<0, 1, {0}, 1>>, <<1, 0, {0}, 1>>}
Latencies == [b \in Buffer |-> IF b = InBuffer(0, 1) THEN 2 ELSE 1]
Limits == [in |-> Infinite, mid |-> 2, out |-> 1]

MCInit == Init /\ left = IF randomization THEN MaxRandom ELSE MaxEvents

(* What the controllers decide: messages, states that stall, resources. *)
Event ==
  \/ sent' # sent
  \/ \E l \in Link : \/ ~busy[l] /\ busy'[l]
                     \/ run = Controller(l) /\ run' = run /\ scheduled' # scheduled

(* Time passes while something is scheduled; with random delays nothing is *)
(* sent to both links.                                                     *)
MCNext ==
  /\ Next
  /\ now' <= MaxTime
  /\ now' # now => \E c \in Consumer : scheduled[c] # {}
  /\ left' = IF Event THEN left - 1 ELSE left
  /\ left' >= 0
  /\ randomization => sent'[0][0] = <<>>

MCSpec == MCInit /\ [][MCNext]_<<vars, left>>
=============================================================================
