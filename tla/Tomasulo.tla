------------------------------ MODULE Tomasulo ------------------------------
(***************************************************************************)
(* The out-of-order timing model of Lab3/simplesim-3.0d-assig3/tomasulo.c. *)
(*                                                                         *)
(* runTomasulo replays a finished instruction trace and, cycle by cycle,   *)
(* calls its five stage functions in reverse pipeline order.  One action   *)
(* is one such call; the variable stage says which call comes next.  What  *)
(* the program produces is, for every instruction, the cycle in which it   *)
(* entered each stage, and these stamps are what the properties speak of.  *)
(*                                                                         *)
(* An instruction is its position in the trace (the field index); 0 is the *)
(* NULL pointer.  A reservation station or functional unit array is the    *)
(* set of instructions it holds: which slot holds one is never observed,   *)
(* and the unit an instruction uses follows from its opcode.  The tags     *)
(* Q[0..2] of an instruction are the set of the non-NULL ones.             *)
(***************************************************************************)
EXTENDS Integers, FiniteSets, Sequences

CONSTANTS
  sim_num_insn,      \* length of the trace
  Reg,               \* registers
  Programs,          \* the traces considered
  INSTR_TRACE_SIZE,  \* entries in one table of the trace
  INSTR_QUEUE_SIZE,  \* capacity of the instruction queue
  RESERV_SIZE,       \* capacity of the stations, per unit
  FU_SIZE,           \* number of functional units, per unit
  FU_LATENCY         \* cycles an execution takes, per unit

Units == {"INT", "FP"}
Opcodes == {"icomp", "fcomp", "load", "store", "branch", "trap"}
Instr == [op : Opcodes, r_in : SUBSET Reg, r_out : SUBSET Reg]
NULL == 0

(* Trace positions: the entry after the last one exists and is all zeroes. *)
Trace == 1 .. sim_num_insn
Index == 1 .. (sim_num_insn + 1)

(* What the instruction set guarantees of every instruction of a trace:    *)
(* a store writes no register.                                             *)
WellFormed(instr) == instr.op = "store" => instr.r_out = {}

ASSUME SizesAssumption ==
  /\ sim_num_insn \in Nat
  /\ INSTR_QUEUE_SIZE \in Nat \ {0} /\ INSTR_TRACE_SIZE \in Nat \ {0}
  /\ RESERV_SIZE \in [Units -> Nat \ {0}]
  /\ FU_SIZE \in [Units -> Nat \ {0}]
  /\ FU_LATENCY \in [Units -> Nat \ {0}]

ASSUME ProgramsAssumption ==
  Programs \subseteq {p \in [Trace -> Instr] : \A i \in Trace : WellFormed(p[i])}

VARIABLES
  trace,               \* the instruction trace, never changed
  stage, cycle,        \* the next call of runTomasulo's loop, and its cycle
  fetch_index,         \* the last trace position fetched
  instr_queue,         \* instruction queue, a sequence of positions
  reserv, fu,          \* contents of reservation stations, functional units
  commonDataBus,       \* the instruction on the bus, or NULL
  map_table,           \* register -> its pending producer, or NULL
  Q,                   \* instruction -> producers it still waits for
  tom_dispatch_cycle, tom_issue_cycle, tom_execute_cycle, tom_cdb_cycle

stamps == <<tom_dispatch_cycle, tom_issue_cycle, tom_execute_cycle, tom_cdb_cycle>>
vars == <<trace, stage, cycle, fetch_index, instr_queue, reserv, fu,
          commonDataBus, map_table, Q, stamps>>

-----------------------------------------------------------------------------
(* Instruction classes *)

op(i) == IF i \in Trace THEN trace[i].op ELSE "none"
r_in(i) == IF i \in Trace THEN trace[i].r_in ELSE {}
r_out(i) == IF i \in Trace THEN trace[i].r_out ELSE {}

USES_INT_FU(i) == op(i) \in {"icomp", "load", "store"}
USES_FP_FU(i) == op(i) = "fcomp"
WRITES_CDB(i) == op(i) \in {"icomp", "load", "fcomp"}
UsesUnit(i, u) == IF u = "INT" THEN USES_INT_FU(i) ELSE USES_FP_FU(i)

EXECUTION_DONE(i) ==
  \E u \in Units : UsesUnit(i, u) /\ cycle >= tom_execute_cycle[i] + FU_LATENCY[u]

(* The n instructions of S that come first in program order. *)
Oldest(S, n) == {i \in S : Cardinality({j \in S : j < i}) < n}

-----------------------------------------------------------------------------
Init ==
  /\ trace \in Programs
  /\ stage = "CDB_To_retire" /\ cycle = 1
  /\ fetch_index = 0 /\ instr_queue = <<>>
  /\ reserv = {} /\ fu = {} /\ commonDataBus = NULL
  /\ map_table = [r \in Reg |-> NULL]
  /\ Q = [i \in Index |-> {}]
  /\ tom_dispatch_cycle = [i \in Index |-> 0]
  /\ tom_issue_cycle = [i \in Index |-> 0]
  /\ tom_execute_cycle = [i \in Index |-> 0]
  /\ tom_cdb_cycle = [i \in Index |-> 0]

(* Mutant: the statements below assign, and so clear the map-table entry   *)
(* of a register even when a younger instruction produces it.              *)
CDB_To_retire_assigns ==
  /\ stage = "CDB_To_retire"
  /\ stage' = "execute_To_CDB"
  /\ LET retires == commonDataBus # NULL /\ tom_cdb_cycle[commonDataBus] < cycle
     IN /\ commonDataBus' = IF retires THEN NULL ELSE commonDataBus
        /\ map_table' = [r \in Reg |->
             IF retires /\ r \in r_out(commonDataBus) THEN NULL ELSE map_table[r]]
  /\ UNCHANGED <<trace, cycle, fetch_index, instr_queue, reserv, fu, Q, stamps>>

(* The statements that should clear the map table here compare instead of  *)
(* assigning, so only the bus changes.                                     *)
CDB_To_retire ==
  /\ stage = "CDB_To_retire"
  /\ stage' = "execute_To_CDB"
  /\ commonDataBus' =
       IF commonDataBus # NULL /\ tom_cdb_cycle[commonDataBus] < cycle
         THEN NULL ELSE commonDataBus
  /\ UNCHANGED <<trace, cycle, fetch_index, instr_queue, reserv, fu, map_table, Q, stamps>>

(* Mutant: the stations are searched instead of the units. *)
Finished_stations == {i \in reserv : EXECUTION_DONE(i)}

Finished == {i \in fu : EXECUTION_DONE(i)}

(* Mutant: the comparison of the indices is the wrong way round. *)
YoungestComplete ==
  {i \in Finished : WRITES_CDB(i) /\ \A j \in Finished : WRITES_CDB(j) => j <= i}

OldestComplete == Oldest({i \in Finished : WRITES_CDB(i)}, 1)

(* Finished instructions without a result just leave; of the others the    *)
(* oldest takes the bus.                                                   *)
execute_To_CDB ==
  /\ stage = "execute_To_CDB"
  /\ stage' = "issue_To_execute"
  /\ LET winner  == IF commonDataBus = NULL THEN OldestComplete ELSE {}
         leaving == IF commonDataBus = NULL
                      THEN {i \in Finished : ~WRITES_CDB(i)} \cup winner ELSE {}
     IN /\ reserv' = reserv \ leaving
        /\ fu' = fu \ leaving
        /\ commonDataBus' =
             IF winner = {} THEN commonDataBus ELSE CHOOSE i \in winner : TRUE
        /\ tom_cdb_cycle' = [i \in Index |->
             IF i \in winner THEN cycle ELSE tom_cdb_cycle[i]]
  /\ UNCHANGED <<trace, cycle, fetch_index, instr_queue, map_table, Q,
                 tom_dispatch_cycle, tom_issue_cycle, tom_execute_cycle>>

Issueable(u) ==
  {i \in reserv : /\ UsesUnit(i, u)
                  /\ Q[i] = {}
                  /\ tom_execute_cycle[i] = 0
                  /\ cycle > tom_issue_cycle[i]}

Free(u) == FU_SIZE[u] - Cardinality({i \in fu : UsesUnit(i, u)})

(* Mutant: a free unit takes the youngest instruction. *)
Starting_youngest ==
  UNION {{i \in Issueable(u) :
            Cardinality({j \in Issueable(u) : j > i}) < Free(u)} : u \in Units}

Starting == UNION {Oldest(Issueable(u), Free(u)) : u \in Units}

broadcast_tags(inst) ==
  /\ map_table' = [r \in Reg |-> IF map_table[r] = inst THEN NULL ELSE map_table[r]]
  /\ Q' = [i \in Index |-> IF i \in reserv THEN Q[i] \ {inst} ELSE Q[i]]

(* Every free unit takes the oldest instruction whose tags are clear; only *)
(* then is the result on the bus broadcast.                                *)
issue_To_execute ==
  /\ stage = "issue_To_execute"
  /\ stage' = "dispatch_To_issue"
  /\ fu' = fu \cup Starting
  /\ tom_execute_cycle' = [i \in Index |->
       IF i \in Starting THEN cycle ELSE tom_execute_cycle[i]]
  /\ IF commonDataBus # NULL THEN broadcast_tags(commonDataBus)
                             ELSE UNCHANGED <<map_table, Q>>
  /\ UNCHANGED <<trace, cycle, fetch_index, instr_queue, reserv, commonDataBus,
                 tom_dispatch_cycle, tom_issue_cycle, tom_cdb_cycle>>

set_tags(inst) ==
  /\ Q' = [Q EXCEPT ![inst] = {map_table[r] : r \in r_in(inst)} \ {NULL}]
  /\ map_table' = [r \in Reg |-> IF r \in r_out(inst) THEN inst ELSE map_table[r]]

(* Mutant: no test for a free station. *)
Reserve_full(inst, u) ==
  /\ UsesUnit(inst, u)
  /\ reserv' = reserv \cup {inst}
  /\ tom_issue_cycle' = [tom_issue_cycle EXCEPT ![inst] = cycle]
  /\ set_tags(inst)
  /\ instr_queue' = Tail(instr_queue)

(* The head of the queue moves to a free station of its unit. *)
Reserve(inst, u) ==
  /\ UsesUnit(inst, u)
  /\ Cardinality({i \in reserv : UsesUnit(i, u)}) < RESERV_SIZE[u]
  /\ reserv' = reserv \cup {inst}
  /\ tom_issue_cycle' = [tom_issue_cycle EXCEPT ![inst] = cycle]
  /\ set_tags(inst)
  /\ instr_queue' = Tail(instr_queue)

(* A branch, or an instruction that uses no unit, only leaves the queue. *)
PopOnly(inst) ==
  /\ \A u \in Units : ~UsesUnit(inst, u)
  /\ instr_queue' = Tail(instr_queue)
  /\ UNCHANGED <<reserv, tom_issue_cycle, Q, map_table>>

Stall ==
  /\ instr_queue # <<>> =>
       \E u \in Units : /\ UsesUnit(Head(instr_queue), u)
                        /\ Cardinality({i \in reserv : UsesUnit(i, u)}) >= RESERV_SIZE[u]
  /\ UNCHANGED <<instr_queue, reserv, tom_issue_cycle, Q, map_table>>

dispatch_To_issue ==
  /\ stage = "dispatch_To_issue"
  /\ stage' = "fetch_To_dispatch"
  /\ \/ /\ instr_queue # <<>>
        /\ \/ \E u \in Units : Reserve(Head(instr_queue), u)
           \/ PopOnly(Head(instr_queue))
     \/ Stall
  /\ UNCHANGED <<trace, cycle, fetch_index, fu, commonDataBus,
                 tom_dispatch_cycle, tom_execute_cycle, tom_cdb_cycle>>

(* The position fetched next: traps are skipped.  Fetching goes on while   *)
(* the last position fetched is at most sim_num_insn, so the zero entry    *)
(* behind the trace is fetched too.                                        *)
IsNext(i) ==
  /\ i > fetch_index /\ op(i) # "trap"
  /\ \A j \in (fetch_index + 1) .. (i - 1) : op(j) = "trap"

(* put_instr links a new table only when an instruction needs one; so this *)
(* is the number of the last table when positions 0..sim_num_insn are in.  *)
LastTable == sim_num_insn \div INSTR_TRACE_SIZE

(* get_instr asserts that the table of the position exists; the program    *)
(* stops where it does not, and takes no further step.                     *)
get_instr_aborts(i) == i \div INSTR_TRACE_SIZE > LastTable

WillFetch == Len(instr_queue) < INSTR_QUEUE_SIZE /\ fetch_index <= sim_num_insn

(* Mutant: the index is incremented after the look-up as well. *)
fetch_twice(i) ==
  /\ fetch_index' = i + 1
  /\ instr_queue' = Append(instr_queue, i)

fetch(i) ==
  /\ fetch_index' = i
  /\ instr_queue' = Append(instr_queue, i)

(* Mutant: done as soon as everything has been fetched and issued. *)
is_simulation_done_early ==
  fetch_index' > sim_num_insn /\ instr_queue' = <<>>

(* Mutant: one position too late. *)
is_simulation_done_late ==
  /\ fetch_index' > sim_num_insn + 1
  /\ instr_queue' = <<>>
  /\ reserv = {} /\ fu = {} /\ commonDataBus = NULL
  /\ \A r \in Reg : map_table[r] = NULL

(* Evaluated after fetch, in the state it leaves. *)
is_simulation_done ==
  /\ fetch_index' > sim_num_insn
  /\ instr_queue' = <<>>
  /\ reserv = {} /\ fu = {} /\ commonDataBus = NULL
  /\ \A r \in Reg : map_table[r] = NULL

fetch_To_dispatch ==
  /\ stage = "fetch_To_dispatch"
  /\ \/ \E i \in Index : WillFetch /\ IsNext(i) /\ ~get_instr_aborts(i) /\ fetch(i)
     \/ ~WillFetch /\ UNCHANGED <<fetch_index, instr_queue>>
  /\ tom_dispatch_cycle' = [i \in Index |->
       IF /\ instr_queue' # <<>>
          /\ i = instr_queue'[Len(instr_queue')]
          /\ tom_dispatch_cycle[i] = 0
       THEN cycle ELSE tom_dispatch_cycle[i]]
  /\ IF is_simulation_done THEN stage' = "done" /\ cycle' = cycle
                           ELSE stage' = "CDB_To_retire" /\ cycle' = cycle + 1
  /\ UNCHANGED <<trace, reserv, fu, commonDataBus, map_table, Q,
                 tom_issue_cycle, tom_execute_cycle, tom_cdb_cycle>>

(* runTomasulo has returned. *)
Returned == stage = "done" /\ UNCHANGED vars

runTomasulo ==
  CDB_To_retire \/ execute_To_CDB \/ issue_To_execute \/ dispatch_To_issue
    \/ fetch_To_dispatch

Next == runTomasulo \/ Returned

Spec == Init /\ [][Next]_vars

-----------------------------------------------------------------------------
(* Properties *)

Enters(i) == \E u \in Units : UsesUnit(i, u)

(* The instructions whose results i reads: for one of its source registers *)
(* the last earlier instruction that goes through a unit and writes it.    *)
Producers(i) ==
  {p \in Trace : /\ p < i /\ Enters(p)
                 /\ \E r \in r_in(i) \cap r_out(p) :
                      \A q \in Trace : p < q /\ q < i /\ Enters(q) => r \notin r_out(q)}

(* All variables have the types of their declarations; the stations, units *)
(* and queue hold trace positions.                                         *)
TypeOK ==
  /\ trace \in Programs
  /\ stage \in {"CDB_To_retire", "execute_To_CDB", "issue_To_execute",
                "dispatch_To_issue", "fetch_To_dispatch", "done"}
  /\ cycle \in Nat \ {0}
  /\ fetch_index \in 0 .. (sim_num_insn + 1)
  /\ instr_queue \in Seq(Index)
  /\ reserv \in SUBSET Index /\ fu \in SUBSET Index
  /\ commonDataBus \in Index \cup {NULL}
  /\ map_table \in [Reg -> Index \cup {NULL}]
  /\ Q \in [Index -> SUBSET Index]
  /\ tom_dispatch_cycle \in [Index -> Nat]
  /\ tom_issue_cycle \in [Index -> Nat]
  /\ tom_execute_cycle \in [Index -> Nat]
  /\ tom_cdb_cycle \in [Index -> Nat]

(* "All RAW dependences need to have been resolved with stalls before an   *)
(* instruction enters execute" (comment above issue_To_execute): whatever  *)
(* has started executing started after the cycle in which each producer of *)
(* its operands was on the bus.                                            *)
RAWResolved ==
  \A i \in Trace : tom_execute_cycle[i] # 0 =>
    \A p \in Producers(i) : /\ tom_cdb_cycle[p] # 0
                            /\ tom_cdb_cycle[p] < tom_execute_cycle[i]

(* Could i have started executing in cycle c, judging by the stamps alone? *)
ReadyIn(i, c) ==
  /\ tom_issue_cycle[i] # 0 /\ tom_issue_cycle[i] < c
  /\ \A p \in Producers(i) : tom_cdb_cycle[p] # 0 /\ tom_cdb_cycle[p] < c

(* "We prioritize old instructions (in program order) over new ones, if    *)
(* they both contend for the same functional unit": no instruction starts  *)
(* in a cycle in which an older one of its unit was ready and did not.     *)
OldestStartsFirst ==
  \A j \in Trace : tom_execute_cycle[j] # 0 =>
    \A i \in Trace, u \in Units :
      /\ i < j /\ UsesUnit(i, u) /\ UsesUnit(j, u) /\ ReadyIn(i, tom_execute_cycle[j])
      => tom_execute_cycle[i] # 0 /\ tom_execute_cycle[i] <= tom_execute_cycle[j]

(* The bus carries one result per cycle, and of the results available in a *)
(* cycle the oldest: a result does not pass an older one that had finished *)
(* executing (execute_To_CDB).                                             *)
OldestBroadcastsFirst ==
  \A j \in Trace : tom_cdb_cycle[j] # 0 =>
    /\ \A i \in Trace : tom_cdb_cycle[i] = tom_cdb_cycle[j] => i = j
    /\ \A i \in Trace, u \in Units :
         /\ i < j /\ UsesUnit(i, u) /\ WRITES_CDB(i) /\ tom_execute_cycle[i] # 0
         /\ tom_execute_cycle[i] + FU_LATENCY[u] <= tom_cdb_cycle[j]
         => tom_cdb_cycle[i] # 0 /\ tom_cdb_cycle[i] < tom_cdb_cycle[j]

(* The structural limits: an executing instruction still occupies its      *)
(* station, and queue, stations and units never hold more than fits        *)
(* (dispatch_To_issue, issue_To_execute and fetch test for a free slot).   *)
Occupancy ==
  /\ fu \subseteq reserv
  /\ Len(instr_queue) <= INSTR_QUEUE_SIZE
  /\ \A u \in Units :
       /\ Cardinality({i \in reserv : UsesUnit(i, u)}) <= RESERV_SIZE[u]
       /\ Cardinality({i \in fu : UsesUnit(i, u)}) <= FU_SIZE[u]

(* When runTomasulo returns, every instruction but the traps has been      *)
(* dispatched, in program order; every one with a unit was issued later,   *)
(* executed later still, and the ones with a result were on the bus after  *)
(* their full latency; no stamp belongs to a stage an instruction skips.   *)
AllAccountedFor ==
  stage = "done" =>
    \A i \in Trace :
      /\ (tom_dispatch_cycle[i] # 0) = (op(i) # "trap")
      /\ \A j \in Trace : j < i /\ op(i) # "trap"
           => tom_dispatch_cycle[j] < tom_dispatch_cycle[i]
      /\ IF Enters(i)
           THEN /\ tom_dispatch_cycle[i] < tom_issue_cycle[i]
                /\ tom_issue_cycle[i] < tom_execute_cycle[i]
           ELSE tom_issue_cycle[i] = 0 /\ tom_execute_cycle[i] = 0
      /\ IF WRITES_CDB(i)
           THEN \A u \in Units : UsesUnit(i, u) =>
                  tom_cdb_cycle[i] >= tom_execute_cycle[i] + FU_LATENCY[u]
           ELSE tom_cdb_cycle[i] = 0

(* The cycles a machine takes that runs one instruction at a time, with    *)
(* three cycles to fill and to drain.                                      *)
SerialTime ==
  3 + Cardinality({i \in Trace : ~Enters(i)})
    + (FU_LATENCY["INT"] + 1) * Cardinality({i \in Trace : UsesUnit(i, "INT")})
    + (FU_LATENCY["FP"] + 1) * Cardinality({i \in Trace : UsesUnit(i, "FP")})

(* runTomasulo is never slower than running the instructions one at a      *)
(* time, and so returns for every trace, unless the assertion of get_instr *)
(* ends it (get_instr_aborts): no instruction waits for ever for a tag, a  *)
(* station, a unit or the bus, and the map table drains.                   *)
NeverSlower == cycle <= SerialTime

(* The machine implements Dataflow: an instruction has started once it has *)
(* an execute stamp and has published its result once it has a bus stamp.  *)
Abstract == INSTANCE Dataflow WITH
  needs     <- [i \in Trace |-> Producers(i)],
  started   <- {i \in Trace : tom_execute_cycle[i] # 0},
  published <- {i \in Trace : tom_cdb_cycle[i] # 0}

(* The stage functions only take steps that Dataflow allows. *)
IsDataflow == Abstract!Spec
=============================================================================
