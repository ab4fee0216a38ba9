---------------------------- MODULE MC_Tomasulo ----------------------------
(***************************************************************************)
(* Instances of Tomasulo: every trace of a given length over a small       *)
(* instruction repertoire, with units and queues small enough to fill up.  *)
(***************************************************************************)
EXTENDS Tomasulo

Ins(o, in, out) == [op |-> o, r_in |-> in, r_out |-> out]

(* Repertoire: independent and dependent integer and floating-point        *)
(* instructions over two registers, with read-modify-write (in and out     *)
(* overlap), two sources, a store, a branch that writes a register like    *)
(* jal, and a trap.                                                        *)
Repertoire ==
  {Ins("icomp", {}, {1}), Ins("icomp", {1, 2}, {2}),
   Ins("load", {2}, {1}), Ins("fcomp", {1}, {2}), Ins("fcomp", {}, {1, 2}),
   Ins("store", {1, 2}, {}), Ins("branch", {1}, {2}), Ins("trap", {}, {})}

MC_Reg == 1 .. 2
MC_All == [Trace -> Repertoire]
MC_Reserv == [INT |-> 3, FP |-> 1]
MC_Fu == [INT |-> 2, FP |-> 1]
MC_Latency == [INT |-> 2, FP |-> 3]
=============================================================================
