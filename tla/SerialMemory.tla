---------------------------- MODULE SerialMemory ----------------------------
(***************************************************************************)
(* What the memory system promises the CPUs about one line: each accepted  *)
(* request takes effect on a single memory in one step, the step in which  *)
(* its callback runs.  A load and an LL return the memory; a store writes  *)
(* it; an SC may fail, and may succeed only if no other CPU wrote since    *)
(* the LL.                                                                 *)
(***************************************************************************)
CONSTANTS Processor, Value, InitValue, ReqType

VARIABLES mem, pending, result, reserved

serialVars == <<mem, pending, result, reserved>>

Init ==
  /\ mem = InitValue
  /\ pending = [p \in Processor |-> "NULL"]
  /\ result = [p \in Processor |-> InitValue]
  /\ reserved = [p \in Processor |-> FALSE]

Issue(p, type) ==
  /\ pending[p] = "NULL"
  /\ pending' = [pending EXCEPT ![p] = type]
  /\ UNCHANGED <<mem, result, reserved>>

Complete(p) == pending' = [pending EXCEPT ![p] = "NULL"]

Load(p) ==
  /\ pending[p] \in {"LD", "LL"}
  /\ Complete(p)
  /\ result' = [result EXCEPT ![p] = mem]
  /\ reserved' = [reserved EXCEPT ![p] = IF pending[p] = "LL" THEN TRUE ELSE @]
  /\ UNCHANGED mem

Store(p, v) ==
  /\ pending[p] = "ST" \/ (pending[p] = "SC" /\ reserved[p])
  /\ Complete(p)
  /\ mem' = v
  /\ reserved' = [q \in Processor |-> FALSE]
  /\ UNCHANGED result

FailedSC(p) ==
  /\ pending[p] = "SC"
  /\ Complete(p)
  /\ reserved' = [reserved EXCEPT ![p] = FALSE]
  /\ UNCHANGED <<mem, result>>

Next ==
  \E p \in Processor :
    \/ \E type \in ReqType : Issue(p, type)
    \/ Load(p)
    \/ \E v \in Value : Store(p, v)
    \/ FailedSC(p)

Spec == Init /\ [][Next]_serialVars

=============================================================================
