------------------------------ MODULE Dataflow ------------------------------
(***************************************************************************)
(* What an out-of-order machine promises, without its mechanism: an        *)
(* instruction starts once, not before the results it needs have been      *)
(* published, and results are published one at a time, once each, by       *)
(* instructions that have started.                                         *)
(***************************************************************************)
VARIABLES
  needs,      \* instruction -> the instructions whose results it reads
  started,    \* instructions that have begun to execute
  published   \* instructions whose result has been on the bus

vars == <<needs, started, published>>

Init == started = {} /\ published = {}

Start ==
  \E S \in SUBSET (DOMAIN needs \ started) :
    /\ \A i \in S : needs[i] \subseteq published
    /\ started' = started \cup S
    /\ UNCHANGED <<needs, published>>

Publish ==
  \E i \in started \ published :
    /\ published' = published \cup {i}
    /\ UNCHANGED <<needs, started>>

Next == Start \/ Publish

Spec == Init /\ [][Next]_vars
=============================================================================
