--------------------------- MODULE TomasuloProofs ---------------------------
(***************************************************************************)
(* Proofs about Tomasulo, for every trace, register set, queue, station    *)
(* and unit size and every latency.                                        *)
(*                                                                         *)
(* RAWResolved is not inductive: whether an instruction may start is       *)
(* decided by its tags Q, which were read from the map table when it was   *)
(* issued.  The inductive invariant therefore says what the map table and  *)
(* the tags mean in terms of the stamps, and that instructions are issued  *)
(* in program order, so that the map table always speaks of the last       *)
(* earlier writer of a register.                                           *)
(*                                                                         *)
(* Each later section adds the invariant its theorem needs: OInv for the   *)
(* order of starting and for Dataflow, AInv for the stamps of a finished   *)
(* run, Occupancy by itself, and PInv for the running time, which counts   *)
(* the cycles of SerialTime that the machine has behind it.                *)
(***************************************************************************)
EXTENDS Tomasulo, FiniteSetTheorems, SequenceTheorems, WellFoundedInduction, TLAPS

Issued(i) == tom_issue_cycle[i] # 0

(* The result of i has been broadcast to the stations and the map table:   *)
(* it went on the bus in an earlier cycle, or earlier in this one.         *)
Broadcast(i) ==
  /\ tom_cdb_cycle[i] # 0
  /\ \/ tom_cdb_cycle[i] < cycle
     \/ stage \in {"dispatch_To_issue", "fetch_To_dispatch", "done"}

(* How the stamps of an instruction relate to where it is. *)
StampInv ==
  \A i \in Index :
    /\ tom_cdb_cycle[i] <= cycle
    /\ stage \in {"CDB_To_retire", "execute_To_CDB"} => tom_cdb_cycle[i] < cycle
    /\ tom_execute_cycle[i] = 0 => tom_cdb_cycle[i] = 0
    /\ i \in fu => tom_execute_cycle[i] # 0 /\ tom_cdb_cycle[i] = 0
    /\ i \in reserv => Issued(i)
    /\ i = commonDataBus => tom_cdb_cycle[i] # 0
    /\ WRITES_CDB(i) /\ tom_execute_cycle[i] # 0 /\ tom_cdb_cycle[i] = 0 => i \in fu

(* Instructions are issued in program order: the queue is increasing and   *)
(* holds what has been fetched and not issued.                             *)
QueueInv ==
  /\ \A k \in 1 .. Len(instr_queue) :
       /\ instr_queue[k] <= fetch_index
       /\ \A l \in 1 .. Len(instr_queue) : k < l => instr_queue[k] < instr_queue[l]
       /\ \A i \in Index : Issued(i) => i < instr_queue[k]
  /\ \A i \in Index : Issued(i) => i <= fetch_index /\ Enters(i)
  /\ \A i \in Index : Enters(i) /\ i <= fetch_index /\ ~Issued(i)
       => \E k \in 1 .. Len(instr_queue) : instr_queue[k] = i

(* q is the last issued instruction that writes r. *)
LastWriter(q, r) ==
  /\ Issued(q) /\ r \in r_out(q)
  /\ \A x \in Index : Issued(x) /\ r \in r_out(x) => x <= q

(* The map table names the last issued writer of a register unless its     *)
(* result has been broadcast.                                              *)
MapInv ==
  \A r \in Reg, q \in Index : LastWriter(q, r) => map_table[r] = q \/ Broadcast(q)

(* An issued instruction that has not started has a tag for every producer *)
(* whose result has not been broadcast.                                    *)
TagInv ==
  \A i \in Trace : Issued(i) /\ tom_execute_cycle[i] = 0 =>
    \A p \in Producers(i) : p \in Q[i] \/ Broadcast(p)

IInv == TypeOK /\ StampInv /\ QueueInv /\ MapInv /\ TagInv
          /\ RAWResolved /\ OldestBroadcastsFirst

-----------------------------------------------------------------------------
(* A unit that starts now does not finish in the past. *)
LEMMA NotBefore ==
  ASSUME NEW now \in Nat, NEW l \in Nat, l # 0, NEW t \in Nat, t <= now, now + l <= t
  PROVE  FALSE
OBVIOUS

(* What an instruction is depends on the trace alone, which never changes. *)
LEMMA Rigid ==
  ASSUME trace' = trace
  PROVE  /\ \A i \in Index : op(i)' = op(i) /\ r_out(i)' = r_out(i)
         /\ \A i \in Index, u \in Units : UsesUnit(i, u)' = UsesUnit(i, u)
         /\ \A i \in Index : WRITES_CDB(i)' = WRITES_CDB(i)
         /\ \A i \in Index : Enters(i)' = Enters(i)
         /\ \A i \in Trace : Producers(i)' = Producers(i)
  BY DEF op, r_in, r_out, UsesUnit, USES_INT_FU, USES_FP_FU, WRITES_CDB, Enters, Producers

(* Trace positions are positions, and positions are positive.  A producer  *)
(* of an instruction is an earlier instruction of the trace.               *)
LEMMA Positions ==
  /\ Trace \subseteq Index /\ Index \subseteq Nat /\ NULL \notin Index
  /\ \A i \in Trace : \A p \in Producers(i) : p \in Trace /\ p < i /\ Enters(p)
  BY SizesAssumption DEF Trace, Index, NULL, Producers

(* Oldest(S, 1), the choice of execute_To_CDB, is the least member of S.   *)
LEMMA OldestIsLeast ==
  ASSUME NEW S \in SUBSET Index, NEW i \in Oldest(S, 1)
  PROVE  i \in S /\ \A j \in S : i <= j
<1> DEFINE Smaller == {j \in S : j < i}
<1>1. i \in S /\ Cardinality(Smaller) < 1 /\ Smaller \subseteq Index
  BY Zenon DEF Oldest
<1>2. IsFiniteSet(Index)
  BY SizesAssumption, FS_Interval DEF Index
<1>3. IsFiniteSet(Smaller)
  BY Zenon, <1>1, <1>2, FS_Subset
<1>4. Cardinality(Smaller) = 0
  BY <1>1, <1>3, FS_CardinalityType
<1>5. Smaller = {}
  BY Zenon, <1>3, <1>4, FS_EmptySet
<1> QED
  BY <1>1, <1>5, Positions

(* The invariant holds of the state runTomasulo sets up. *)
LEMMA InitInv == Init => IInv
<1> SUFFICES ASSUME Init PROVE IInv
  BY Zenon
<1>1. TypeOK
  BY SizesAssumption DEF Init, TypeOK, Index, NULL
<1>2. StampInv
  BY DEF Init, StampInv, NULL, Issued
<1>3. QueueInv
  BY Positions DEF Init, QueueInv, Issued
<1>4. MapInv /\ TagInv
  BY Zenon, Positions DEF Init, MapInv, TagInv, LastWriter, Issued
<1>5. RAWResolved /\ OldestBroadcastsFirst
  BY Zenon, Positions DEF Init, RAWResolved, OldestBroadcastsFirst
<1> QED
  BY Zenon, <1>1, <1>2, <1>3, <1>4, <1>5 DEF IInv

(* Retiring only takes a result off the bus that has been broadcast. *)
LEMMA RetireInv == IInv /\ CDB_To_retire => IInv'
<1> SUFFICES ASSUME IInv, CDB_To_retire PROVE IInv'
  BY Zenon
<1> USE Positions DEF IInv
<1>0. /\ trace' = trace
      /\ UNCHANGED <<cycle, fetch_index, instr_queue, reserv, fu, map_table, Q,
                     tom_dispatch_cycle, tom_issue_cycle, tom_execute_cycle, tom_cdb_cycle>>
      /\ stage = "CDB_To_retire" /\ stage' = "execute_To_CDB"
      /\ commonDataBus' \in {commonDataBus, NULL}
  BY Zenon DEF CDB_To_retire, stamps
<1>1. TypeOK'
  BY Zenon, <1>0 DEF TypeOK
<1>2. StampInv'
  BY Zenon, <1>0, <1>1, Rigid DEF StampInv, Issued, TypeOK
<1>3. QueueInv'
  BY Zenon, <1>0, Rigid DEF QueueInv, Issued
<1>4. MapInv'
  BY Zenon, <1>0, Rigid DEF MapInv, LastWriter, Issued, Broadcast
<1>5. TagInv'
  BY Zenon, <1>0, Rigid DEF TagInv, Issued, Broadcast
<1>6. RAWResolved'
  BY Zenon, <1>0, Rigid DEF RAWResolved
<1>7. OldestBroadcastsFirst'
  BY Zenon, <1>0, Rigid DEF OldestBroadcastsFirst
<1> QED
  BY Zenon, <1>1, <1>2, <1>3, <1>4, <1>5, <1>6, <1>7

(* The bus goes to the oldest finished instruction; it had no bus stamp,   *)
(* and every other stamp is from an earlier cycle.                         *)
LEMMA ExecuteInv == IInv /\ execute_To_CDB => IInv'
<1> SUFFICES ASSUME IInv, execute_To_CDB PROVE IInv'
  BY Zenon
<1> USE Positions DEF IInv
<1> DEFINE Writers == {i \in Finished : WRITES_CDB(i)}
           winner  == IF commonDataBus = NULL THEN OldestComplete ELSE {}
<1>0. /\ trace' = trace
      /\ UNCHANGED <<cycle, fetch_index, instr_queue, map_table, Q,
                     tom_dispatch_cycle, tom_issue_cycle, tom_execute_cycle>>
      /\ stage = "execute_To_CDB" /\ stage' = "issue_To_execute"
      /\ reserv' \subseteq reserv /\ fu' \subseteq fu
      /\ \A i \in fu : WRITES_CDB(i) /\ i \notin winner => i \in fu'
      /\ \A i \in winner : i \notin fu'
      /\ tom_cdb_cycle' = [i \in Index |-> IF i \in winner THEN cycle ELSE tom_cdb_cycle[i]]
      /\ commonDataBus' = commonDataBus \/ commonDataBus' \in winner
  BY Zenon DEF execute_To_CDB
<1>w. \A i \in winner : /\ i \in Index /\ i \in fu /\ WRITES_CDB(i) /\ i \in Writers
                        /\ \A j \in Writers : i <= j
  <2>1. Writers \in SUBSET Index
    BY Zenon DEF Finished, TypeOK
  <2> QED
    BY Zenon, <2>1, OldestIsLeast DEF OldestComplete, Finished
<1>o. \A i, j \in winner : i = j
  <2> SUFFICES ASSUME NEW i \in winner, NEW j \in winner PROVE i = j
    BY Zenon
  <2>1. i \in Nat /\ j \in Nat /\ i <= j /\ j <= i
    BY Zenon, <1>w
  <2> QED
    BY <2>1
<1> HIDE DEF winner
<1>1. TypeOK'
  BY Zenon, <1>0, <1>w DEF TypeOK
<1>2. StampInv'
  BY <1>0, <1>w, <1>1, Rigid DEF StampInv, Issued, TypeOK
<1>b. \A i \in Index : Broadcast(i)' = Broadcast(i)
  BY <1>0, <1>w DEF Broadcast, StampInv, TypeOK
<1>3. QueueInv'
  BY Zenon, <1>0, Rigid DEF QueueInv, Issued
<1>4. MapInv'
  BY Zenon, <1>0, <1>b, Rigid DEF MapInv, LastWriter, Issued
<1>5. TagInv'
  BY Zenon, <1>0, <1>b, Rigid DEF TagInv, Issued
<1>6. RAWResolved'
  BY Zenon, <1>0, <1>w, Rigid DEF RAWResolved, StampInv
<1>7. OldestBroadcastsFirst'
  <2> SUFFICES ASSUME NEW j \in Trace, tom_cdb_cycle'[j] # 0
               PROVE  /\ \A i \in Trace : tom_cdb_cycle'[i] = tom_cdb_cycle'[j] => i = j
                      /\ \A i \in Trace, u \in Units :
                           /\ i < j /\ UsesUnit(i, u) /\ WRITES_CDB(i)
                           /\ tom_execute_cycle[i] # 0
                           /\ tom_execute_cycle[i] + FU_LATENCY[u] <= tom_cdb_cycle'[j]
                           => tom_cdb_cycle'[i] # 0 /\ tom_cdb_cycle'[i] < tom_cdb_cycle'[j]
    BY Zenon, <1>0, Rigid DEF OldestBroadcastsFirst
  <2>1. CASE j \in winner
    <3>1. tom_cdb_cycle'[j] = cycle
      BY Zenon, <1>0, <2>1
    <3>2. ASSUME NEW i \in Trace, i # j
          PROVE  tom_cdb_cycle'[i] = tom_cdb_cycle[i] /\ tom_cdb_cycle[i] < cycle
      BY Zenon, <1>0, <1>o, <2>1, <3>2 DEF StampInv
    <3>3. ASSUME NEW i \in Trace, NEW u \in Units, i < j, UsesUnit(i, u), WRITES_CDB(i),
                 tom_execute_cycle[i] # 0, tom_execute_cycle[i] + FU_LATENCY[u] <= cycle
          PROVE  tom_cdb_cycle[i] # 0
      <4> SUFFICES ASSUME tom_cdb_cycle[i] = 0 PROVE FALSE
        BY Zenon
      <4>1. i \in fu
        BY Zenon, <3>3 DEF StampInv
      <4>2. i \in Writers
        BY Zenon, <3>3, <4>1, SizesAssumption DEF Finished, EXECUTION_DONE, TypeOK
      <4> QED
        BY <1>w, <2>1, <3>3, <4>2
    <3>4. ASSUME NEW i \in Trace, tom_cdb_cycle'[i] = tom_cdb_cycle'[j] PROVE i = j
      BY <3>1, <3>2, <3>4 DEF TypeOK
    <3>5. ASSUME NEW i \in Trace, NEW u \in Units, i < j, UsesUnit(i, u), WRITES_CDB(i),
                 tom_execute_cycle[i] # 0,
                 tom_execute_cycle[i] + FU_LATENCY[u] <= tom_cdb_cycle'[j]
          PROVE  tom_cdb_cycle'[i] # 0 /\ tom_cdb_cycle'[i] < tom_cdb_cycle'[j]
      <4>1. i # j
        BY <3>5
      <4>2. tom_cdb_cycle[i] # 0
        BY Zenon, <3>1, <3>3, <3>5
      <4> QED
        BY Zenon, <3>1, <3>2, <4>1, <4>2
    <3> QED
      BY Zenon, <3>4, <3>5
  <2>2. CASE j \notin winner
    <3>1. tom_cdb_cycle'[j] = tom_cdb_cycle[j] /\ tom_cdb_cycle[j] < cycle
      BY Zenon, <1>0, <2>2 DEF StampInv
    <3>2. ASSUME NEW i \in Trace, i \in winner
          PROVE  tom_cdb_cycle'[i] = cycle /\ tom_cdb_cycle[i] = 0
      BY Zenon, <1>0, <1>w, <3>2 DEF StampInv
    <3>3. ASSUME NEW i \in Trace, i \notin winner
          PROVE  tom_cdb_cycle'[i] = tom_cdb_cycle[i]
      BY Zenon, <1>0, <3>3
    <3>4. ASSUME NEW i \in Trace, tom_cdb_cycle'[i] = tom_cdb_cycle'[j] PROVE i = j
      BY SMTT(40), <3>1, <3>2, <3>3, <3>4 DEF OldestBroadcastsFirst, TypeOK
    <3>5. ASSUME NEW i \in Trace, NEW u \in Units, i < j, UsesUnit(i, u), WRITES_CDB(i),
                 tom_execute_cycle[i] # 0,
                 tom_execute_cycle[i] + FU_LATENCY[u] <= tom_cdb_cycle'[j]
          PROVE  tom_cdb_cycle'[i] # 0 /\ tom_cdb_cycle'[i] < tom_cdb_cycle'[j]
      <4>1. tom_cdb_cycle[i] # 0 /\ tom_cdb_cycle[i] < tom_cdb_cycle[j]
        BY Zenon, <3>1, <3>5 DEF OldestBroadcastsFirst
      <4> QED
        BY Zenon, <3>1, <3>2, <3>3, <4>1
    <3> QED
      BY Zenon, <3>4, <3>5
  <2> QED
    BY Zenon, <2>1, <2>2
<1> QED
  BY Zenon, <1>1, <1>2, <1>3, <1>4, <1>5, <1>6, <1>7

(* An instruction starts only with clear tags, so its producers have been  *)
(* broadcast; a tag is only cleared by the broadcast of its producer.      *)
LEMMA IssueInv == IInv /\ issue_To_execute => IInv'
<1> SUFFICES ASSUME IInv, issue_To_execute PROVE IInv'
  BY Zenon
<1> USE Positions DEF IInv
<1>0. /\ trace' = trace
      /\ UNCHANGED <<cycle, fetch_index, instr_queue, reserv, commonDataBus,
                     tom_dispatch_cycle, tom_issue_cycle, tom_cdb_cycle>>
      /\ stage = "issue_To_execute" /\ stage' = "dispatch_To_issue"
      /\ fu' = fu \cup Starting
      /\ tom_execute_cycle' = [i \in Index |->
           IF i \in Starting THEN cycle ELSE tom_execute_cycle[i]]
  BY Zenon DEF issue_To_execute
<1>s. \A i \in Starting : /\ i \in Index /\ i \in reserv
                          /\ Q[i] = {} /\ tom_execute_cycle[i] = 0
  <2> SUFFICES ASSUME NEW i \in Starting
               PROVE  i \in Index /\ i \in reserv /\ Q[i] = {} /\ tom_execute_cycle[i] = 0
    BY Zenon
  <2>1. PICK u \in Units : i \in Oldest(Issueable(u), Free(u))
    BY Zenon DEF Starting
  <2>2. i \in Issueable(u)
    BY Zenon, <2>1 DEF Oldest
  <2> QED
    BY Zenon, <2>2 DEF Issueable, TypeOK
<1>t. \/ commonDataBus = NULL /\ UNCHANGED <<map_table, Q>>
      \/ commonDataBus # NULL /\ broadcast_tags(commonDataBus)
  BY Zenon DEF issue_To_execute
<1>b. /\ \A i \in Index : Broadcast(i) => Broadcast(i)'
      /\ \A i \in Index : i = commonDataBus => Broadcast(i)'
      /\ \A i \in Index : Broadcast(i) => tom_cdb_cycle[i] # 0 /\ tom_cdb_cycle[i] < cycle
  BY Zenon, <1>0 DEF Broadcast, StampInv, TypeOK
<1> HIDE DEF Starting
<1>1. TypeOK'
  <2>1. map_table' \in [Reg -> Index \cup {NULL}]
    BY Zenon, <1>t DEF TypeOK, broadcast_tags
  <2>2. Q' \in [Index -> SUBSET Index]
    BY SMTT(40), <1>t DEF TypeOK, broadcast_tags
  <2>3. fu' \in SUBSET Index /\ tom_execute_cycle' \in [Index -> Nat]
    BY Zenon, <1>0, <1>s DEF TypeOK
  <2> QED
    BY Zenon, <1>0, <2>1, <2>2, <2>3 DEF TypeOK
<1>2. StampInv'
  BY Zenon, <1>0, <1>s, <1>1, Rigid DEF StampInv, Issued, TypeOK
<1>3. QueueInv'
  BY Zenon, <1>0, Rigid DEF QueueInv, Issued
<1>4. MapInv'
  <2> SUFFICES ASSUME NEW r \in Reg, NEW q \in Index, LastWriter(q, r)
               PROVE  map_table'[r] = q \/ Broadcast(q)'
    BY Zenon, <1>0, Rigid DEF MapInv, LastWriter, Issued
  <2>1. map_table[r] = q \/ Broadcast(q)
    BY Zenon DEF MapInv
  <2>2. map_table'[r] = map_table[r] \/ (commonDataBus = map_table[r] /\ commonDataBus # NULL)
    <3>1. CASE commonDataBus = NULL
      BY Zenon, <1>t, <3>1
    <3>2. CASE commonDataBus # NULL
      BY Zenon, <1>t, <3>2 DEF broadcast_tags
    <3> QED
      BY Zenon, <3>1, <3>2
  <2> QED
    BY Zenon, <2>1, <2>2, <1>b
<1>5. TagInv'
  <2> SUFFICES ASSUME NEW i \in Trace, Issued(i), tom_execute_cycle[i] = 0,
                      NEW p \in Producers(i)
               PROVE  p \in Q'[i] \/ Broadcast(p)'
    BY Zenon, <1>0, <1>s, Rigid, SizesAssumption DEF TagInv, Issued, TypeOK
  <2>1. p \in Q[i] \/ Broadcast(p)
    BY Zenon DEF TagInv
  <2>2. p \in Q[i] => p \in Q'[i] \/ (commonDataBus = p /\ commonDataBus # NULL)
    <3>1. CASE commonDataBus = NULL
      BY Zenon, <1>t, <3>1
    <3>2. CASE commonDataBus # NULL
      BY Zenon, <1>t, <3>2 DEF broadcast_tags
    <3> QED
      BY Zenon, <3>1, <3>2
  <2> QED
    BY Zenon, <2>1, <2>2, <1>b
<1>6. RAWResolved'
  <2> SUFFICES ASSUME NEW i \in Trace, tom_execute_cycle'[i] # 0, NEW p \in Producers(i)
               PROVE  tom_cdb_cycle[p] # 0 /\ tom_cdb_cycle[p] < tom_execute_cycle'[i]
    BY Zenon, <1>0, Rigid DEF RAWResolved
  <2>1. CASE i \in Starting
    <3>1. Broadcast(p)
      BY Zenon, <1>s, <2>1 DEF TagInv, StampInv
    <3> QED
      BY Zenon, <1>0, <1>b, <2>1, <3>1
  <2>2. CASE i \notin Starting
    BY Zenon, <1>0, <2>2 DEF RAWResolved
  <2> QED
    BY Zenon, <2>1, <2>2
<1>7. OldestBroadcastsFirst'
  <2> SUFFICES ASSUME NEW j \in Trace, tom_cdb_cycle[j] # 0, NEW i \in Trace, NEW u \in Units,
                      i < j, UsesUnit(i, u), WRITES_CDB(i), tom_execute_cycle'[i] # 0,
                      tom_execute_cycle'[i] + FU_LATENCY[u] <= tom_cdb_cycle[j]
               PROVE  tom_cdb_cycle[i] # 0 /\ tom_cdb_cycle[i] < tom_cdb_cycle[j]
    BY Zenon, <1>0, Rigid DEF OldestBroadcastsFirst
  <2>1. i \notin Starting
    <3> SUFFICES ASSUME i \in Starting PROVE FALSE
      BY Zenon
    <3>1. tom_execute_cycle'[i] = cycle /\ tom_cdb_cycle[j] <= cycle
      BY Zenon, <1>0, Positions DEF StampInv
    <3>2. FU_LATENCY[u] \in Nat /\ FU_LATENCY[u] # 0
      BY Zenon, SizesAssumption
    <3>3. cycle \in Nat /\ tom_cdb_cycle[j] \in Nat
      BY Zenon, Positions DEF TypeOK
    <3>4. cycle + FU_LATENCY[u] <= tom_cdb_cycle[j]
      BY Zenon, <3>1
    <3> QED
      BY Zenon, <3>1, <3>2, <3>3, <3>4, NotBefore
  <2> QED
    BY Zenon, <1>0, <2>1 DEF OldestBroadcastsFirst
<1> QED
  BY Zenon, <1>1, <1>2, <1>3, <1>4, <1>5, <1>6, <1>7

(* Taking the head off the queue, whether or not it is issued, keeps the   *)
(* queue in order.                                                         *)
LEMMA PopQueue ==
  ASSUME IInv, instr_queue # <<>>, instr_queue' = Tail(instr_queue), trace' = trace,
         UNCHANGED fetch_index, NEW h \in Index, h = Head(instr_queue),
         \A i \in Index : i # h => Issued(i)' = Issued(i),
         Issued(h)' <=> Enters(h)
  PROVE  QueueInv'
<1> USE Positions DEF IInv
<1> DEFINE n == Len(instr_queue)
<1>1. /\ instr_queue \in Seq(Index) /\ n \in Nat /\ n # 0
      /\ h \in Index /\ h = instr_queue[1]
      /\ Len(instr_queue') = n - 1
      /\ \A k \in 1 .. n : instr_queue[k] \in Index
      /\ \A k \in 1 .. (n - 1) : instr_queue'[k] = instr_queue[k + 1]
  BY SMTT(40) DEF TypeOK
<1>2. ASSUME NEW k \in 1 .. (n - 1)
      PROVE  /\ instr_queue'[k] <= fetch_index
             /\ \A l \in 1 .. (n - 1) : k < l => instr_queue'[k] < instr_queue'[l]
             /\ h < instr_queue'[k]
  BY <1>1 DEF QueueInv
<1>3. ASSUME NEW k \in 1 .. (n - 1), NEW i \in Index, Issued(i)'
      PROVE  i < instr_queue'[k]
  <2>1. CASE i = h
    BY Zenon, <1>2, <2>1
  <2>2. CASE i # h
    BY <1>1, <1>3, <2>2 DEF QueueInv
  <2> QED
    BY Zenon, <2>1, <2>2
<1>4. ASSUME NEW i \in Index, Issued(i)'
      PROVE  i <= fetch_index /\ Enters(i)
  <2>1. CASE i = h
    BY <1>1, <1>4, <2>1 DEF QueueInv
  <2>2. CASE i # h
    BY Zenon, <1>1, <1>4, <2>2 DEF QueueInv
  <2> QED
    BY Zenon, <2>1, <2>2
<1>5. ASSUME NEW i \in Index, Enters(i), i <= fetch_index, ~Issued(i)'
      PROVE  \E k \in 1 .. (n - 1) : instr_queue'[k] = i
  <2>1. i # h
    BY Zenon, <1>5
  <2>2. PICK k \in 1 .. n : instr_queue[k] = i
    BY Zenon, <1>5, <2>1 DEF QueueInv
  <2>3. k - 1 \in 1 .. (n - 1) /\ instr_queue'[k - 1] = i
    BY <1>1, <2>1, <2>2
  <2> QED
    BY Zenon, <2>3
<1> QED
  BY Zenon, <1>1, <1>2, <1>3, <1>4, <1>5, Rigid DEF QueueInv

(* The head of the queue is next in program order: of the instructions     *)
(* that use a unit exactly the earlier ones have been issued.              *)
LEMMA HeadIsNext ==
  ASSUME IInv, instr_queue # <<>>, NEW h, h = Head(instr_queue), Enters(h)
  PROVE  /\ h \in Trace /\ h = instr_queue[1] /\ Len(instr_queue) \in Nat \ {0}
         /\ r_in(h) \subseteq Reg
         /\ \A x \in Index : Issued(x) => x < h /\ Enters(x)
         /\ \A x \in Index : x < h /\ Enters(x) => Issued(x)
<1> USE Positions DEF IInv
<1>h. /\ h \in Trace /\ h = instr_queue[1] /\ Len(instr_queue) \in Nat \ {0}
      /\ r_in(h) \subseteq Reg
  <2>1. h \in Index /\ h = instr_queue[1] /\ Len(instr_queue) \in Nat \ {0}
    BY DEF TypeOK
  <2>2. h \in Trace
    BY Zenon, <2>1 DEF Enters, UsesUnit, USES_INT_FU, USES_FP_FU, op
  <2>3. trace \in [Trace -> Instr]
    BY Zenon, ProgramsAssumption DEF TypeOK
  <2> QED
    BY Zenon, <2>1, <2>2, <2>3 DEF r_in, Instr
<1>e. /\ \A x \in Index : Issued(x) => x < h /\ Enters(x)
      /\ \A x \in Index : x < h /\ Enters(x) => Issued(x)
  <2>1. \A x \in Index : Issued(x) => x < h /\ Enters(x)
    BY <1>h DEF QueueInv
  <2>2. ASSUME NEW x \in Index, x < h, Enters(x), ~Issued(x) PROVE FALSE
    <3>1. h <= fetch_index /\ fetch_index \in Nat
      BY <1>h DEF QueueInv, TypeOK
    <3>2. PICK k \in 1 .. Len(instr_queue) : instr_queue[k] = x
      BY <1>h, <2>2, <3>1 DEF QueueInv
    <3>3. k # 1 /\ 1 \in 1 .. Len(instr_queue) /\ 1 < k
      BY <1>h, <2>2, <3>2
    <3>4. h < x
      BY ZenonT(40), <1>h, <3>2, <3>3 DEF QueueInv
    <3> QED
      BY <1>h, <2>2, <3>4
  <2> QED
    BY Zenon, <2>1, <2>2
<1> QED
  BY Zenon, <1>h, <1>e

(* An instruction is issued after all earlier ones, so the map table knows *)
(* the last earlier writer of each of its operands.                        *)
LEMMA ReserveInv ==
  ASSUME IInv, dispatch_To_issue, instr_queue # <<>>, NEW u \in Units,
         NEW h, h = Head(instr_queue), Reserve(h, u)
  PROVE  IInv'
<1> USE Positions DEF IInv
<1>0. /\ trace' = trace
      /\ UNCHANGED <<cycle, fetch_index, fu, commonDataBus,
                     tom_dispatch_cycle, tom_execute_cycle, tom_cdb_cycle>>
      /\ stage = "dispatch_To_issue" /\ stage' = "fetch_To_dispatch"
      /\ reserv' = reserv \cup {h}
      /\ tom_issue_cycle' = [tom_issue_cycle EXCEPT ![h] = cycle]
      /\ instr_queue' = Tail(instr_queue)
      /\ Enters(h)
      /\ Q' = [Q EXCEPT ![h] = {map_table[r] : r \in r_in(h)} \ {NULL}]
      /\ map_table' = [r \in Reg |-> IF r \in r_out(h) THEN h ELSE map_table[r]]
  BY Zenon DEF dispatch_To_issue, Reserve, set_tags, Enters
<1>h. /\ h \in Trace /\ h = instr_queue[1] /\ Len(instr_queue) \in Nat \ {0}
      /\ r_in(h) \subseteq Reg
  BY Zenon, <1>0, HeadIsNext
<1>i. /\ \A i \in Index : i # h => Issued(i)' = Issued(i)
      /\ Issued(h)'
      /\ \A i \in Index : Broadcast(i)' = Broadcast(i)
  BY Zenon, <1>0, <1>h DEF Issued, Broadcast, TypeOK
<1>e. /\ \A x \in Index : Issued(x) => x < h /\ Enters(x)
      /\ \A x \in Index : x < h /\ Enters(x) => Issued(x)
  BY Zenon, <1>0, HeadIsNext
<1>1. TypeOK'
  <2>1. instr_queue' \in Seq(Index)
    BY <1>0 DEF TypeOK
  <2>2. Q' \in [Index -> SUBSET Index]
    BY <1>0, <1>h DEF TypeOK
  <2>3. map_table' \in [Reg -> Index \cup {NULL}]
    BY Zenon, <1>0, <1>h DEF TypeOK
  <2>4. tom_issue_cycle' \in [Index -> Nat] /\ reserv' \in SUBSET Index
    BY Zenon, <1>0, <1>h DEF TypeOK
  <2> QED
    BY Zenon, <1>0, <2>1, <2>2, <2>3, <2>4 DEF TypeOK
<1>2. StampInv'
  <2>1. \A i \in Index : i \in reserv' => Issued(i)'
    BY Zenon, <1>0, <1>i DEF StampInv
  <2> QED
    BY Zenon, <1>0, <2>1, Rigid DEF StampInv
<1>3. QueueInv'
  <2>1. h \in Index
    BY Zenon, <1>h
  <2> QED
    BY Zenon, <1>0, <1>i, <2>1, PopQueue
<1>4. MapInv'
  <2> SUFFICES ASSUME NEW r \in Reg, NEW q \in Index, LastWriter(q, r)'
               PROVE  map_table'[r] = q \/ Broadcast(q)
    BY Zenon, <1>i DEF MapInv
  <2>0. /\ Issued(q)' /\ r \in r_out(q)
        /\ \A x \in Index : Issued(x)' /\ r \in r_out(x) => x <= q
    BY Zenon, <1>0, Rigid DEF LastWriter
  <2>1. CASE r \in r_out(h)
    <3>1. h <= q
      BY Zenon, <1>h, <1>i, <2>0, <2>1
    <3>2. q = h
      BY <1>h, <1>i, <1>e, <2>0, <3>1
    <3> QED
      BY Zenon, <1>0, <2>1, <3>2
  <2>2. CASE r \notin r_out(h)
    <3>1. q # h
      BY Zenon, <2>0, <2>2
    <3>2. LastWriter(q, r)
      BY Zenon, <1>i, <2>0, <2>2, <3>1 DEF LastWriter
    <3> QED
      BY Zenon, <1>0, <2>2, <3>2 DEF MapInv
  <2> QED
    BY Zenon, <2>1, <2>2
<1>5. TagInv'
  <2> SUFFICES ASSUME NEW i \in Trace, Issued(i)', tom_execute_cycle[i] = 0,
                      NEW p \in Producers(i)
               PROVE  p \in Q'[i] \/ Broadcast(p)
    BY Zenon, <1>0, <1>i, Rigid DEF TagInv
  <2>1. CASE i = h
    <3>1. PICK r \in r_in(h) \cap r_out(p) :
                 \A q \in Trace : p < q /\ q < h /\ Enters(q) => r \notin r_out(q)
      BY Zenon, <2>1 DEF Producers
    <3>2. p < h /\ p \in Trace /\ Issued(p) /\ r \in Reg
      BY Zenon, <1>h, <1>e, <2>1
    <3>3. ASSUME NEW x \in Index, Issued(x), r \in r_out(x) PROVE x <= p
      <4>1. x \in Trace
        BY Zenon, <3>3 DEF r_out
      <4> QED
        BY <1>e, <3>1, <3>2, <3>3, <4>1
    <3>4. LastWriter(p, r)
      BY Zenon, <3>1, <3>2, <3>3 DEF LastWriter
    <3>5. map_table[r] = p \/ Broadcast(p)
      BY Zenon, <3>2, <3>4 DEF MapInv
    <3>6. Q'[h] = {map_table[s] : s \in r_in(h)} \ {NULL}
      BY Zenon, <1>0, <1>h DEF TypeOK
    <3> QED
      BY Zenon, <2>1, <3>1, <3>2, <3>5, <3>6
  <2>2. CASE i # h
    BY Zenon, <1>0, <1>h, <1>i, <2>2 DEF TagInv, TypeOK
  <2> QED
    BY Zenon, <2>1, <2>2
<1>6. RAWResolved' /\ OldestBroadcastsFirst'
  BY Zenon, <1>0, Rigid DEF RAWResolved, OldestBroadcastsFirst
<1> QED
  BY Zenon, <1>1, <1>2, <1>3, <1>4, <1>5, <1>6

(* An instruction that uses no unit leaves no trace in tags or map table,  *)
(* and a stall changes nothing.                                            *)
LEMMA SkipInv ==
  ASSUME IInv, dispatch_To_issue,
         \/ instr_queue # <<>> /\ PopOnly(Head(instr_queue))
         \/ Stall
  PROVE  IInv'
<1> USE Positions DEF IInv
<1>0. /\ trace' = trace
      /\ UNCHANGED <<cycle, fetch_index, fu, commonDataBus, reserv, Q, map_table,
                     tom_dispatch_cycle, tom_issue_cycle, tom_execute_cycle, tom_cdb_cycle>>
      /\ stage = "dispatch_To_issue" /\ stage' = "fetch_To_dispatch"
  BY Zenon DEF dispatch_To_issue, PopOnly, Stall
<1>i. \A i \in Index : Issued(i)' = Issued(i) /\ Broadcast(i)' = Broadcast(i)
  BY Zenon, <1>0 DEF Issued, Broadcast
<1>q. instr_queue' \in Seq(Index) /\ QueueInv'
  <2>1. CASE instr_queue # <<>> /\ PopOnly(Head(instr_queue))
    <3>0. Head(instr_queue) \in Index
      BY <2>1 DEF TypeOK
    <3>1. PICK h \in Index : h = Head(instr_queue)
      BY Zenon, <3>0
    <3>2. ~Enters(h)
      BY Zenon, <2>1, <3>1 DEF PopOnly, Enters
    <3>3. Issued(h)' <=> Enters(h)
      BY Zenon, <1>i, <3>2 DEF QueueInv
    <3>4. instr_queue' = Tail(instr_queue)
      BY Zenon, <2>1 DEF PopOnly
    <3>5. QueueInv'
      BY Zenon, <1>0, <1>i, <2>1, <3>1, <3>3, <3>4, PopQueue
    <3> QED
      BY <2>1, <3>4, <3>5 DEF TypeOK
  <2>2. CASE Stall
    BY Zenon, <1>0, <1>i, <2>2, Rigid DEF Stall, QueueInv, TypeOK
  <2> QED
    BY Zenon, <2>1, <2>2
<1>1. TypeOK'
  BY Zenon, <1>0, <1>q DEF TypeOK
<1>2. StampInv'
  BY Zenon, <1>0, <1>i, Rigid DEF StampInv
<1>3. MapInv' /\ TagInv'
  BY Zenon, <1>0, <1>i, Rigid DEF MapInv, LastWriter, TagInv
<1>4. RAWResolved' /\ OldestBroadcastsFirst'
  BY Zenon, <1>0, Rigid DEF RAWResolved, OldestBroadcastsFirst
<1> QED
  BY Zenon, <1>q, <1>1, <1>2, <1>3, <1>4

(* The three cases of dispatch_To_issue together. *)
LEMMA DispatchInv == IInv /\ dispatch_To_issue => IInv'
<1> SUFFICES ASSUME IInv, dispatch_To_issue PROVE IInv'
  BY Zenon
<1>1. \/ instr_queue # <<>> /\ \E u \in Units : Reserve(Head(instr_queue), u)
      \/ instr_queue # <<>> /\ PopOnly(Head(instr_queue))
      \/ Stall
  BY Zenon DEF dispatch_To_issue
<1> QED
  BY Zenon, <1>1, ReserveInv, SkipInv

(* Only traps are skipped, so nothing that uses a unit is passed over; in  *)
(* the next cycle every result on the bus has been broadcast.              *)
LEMMA FetchInv == IInv /\ fetch_To_dispatch => IInv'
<1> SUFFICES ASSUME IInv, fetch_To_dispatch PROVE IInv'
  BY Zenon
<1> USE Positions DEF IInv
<1>0. /\ trace' = trace
      /\ UNCHANGED <<reserv, fu, commonDataBus, map_table, Q,
                     tom_issue_cycle, tom_execute_cycle, tom_cdb_cycle>>
      /\ stage = "fetch_To_dispatch"
      /\ \/ stage' = "done" /\ cycle' = cycle
         \/ stage' = "CDB_To_retire" /\ cycle' = cycle + 1
  BY Zenon DEF fetch_To_dispatch
<1>c. cycle \in Nat /\ cycle' \in Nat \ {0}
  BY <1>0 DEF TypeOK
<1>i. \A i \in Index : /\ Issued(i)' = Issued(i)
                       /\ Broadcast(i) => Broadcast(i)'
  BY <1>0, <1>c DEF Issued, Broadcast, StampInv, TypeOK
<1>d. tom_dispatch_cycle' \in [Index -> Nat]
  <2>1. tom_dispatch_cycle' = [i \in Index |->
          IF /\ instr_queue' # <<>>
             /\ i = instr_queue'[Len(instr_queue')]
             /\ tom_dispatch_cycle[i] = 0
          THEN cycle ELSE tom_dispatch_cycle[i]]
    BY Zenon DEF fetch_To_dispatch
  <2> QED
    BY Zenon, <1>c, <2>1 DEF TypeOK
<1>q. /\ fetch_index' \in 0 .. (sim_num_insn + 1)
      /\ instr_queue' \in Seq(Index) /\ QueueInv'
  <2>1. CASE UNCHANGED <<fetch_index, instr_queue>>
    BY Zenon, <1>0, <1>i, <2>1, Rigid DEF QueueInv, TypeOK
  <2>2. ASSUME NEW i \in Index, IsNext(i), fetch(i)
        PROVE  /\ fetch_index' \in 0 .. (sim_num_insn + 1)
               /\ instr_queue' \in Seq(Index) /\ QueueInv'
    <3> DEFINE n == Len(instr_queue)
    <3>1. /\ n \in Nat /\ fetch_index \in Nat /\ fetch_index < i /\ fetch_index' = i
          /\ instr_queue' = Append(instr_queue, i)
          /\ \A k \in 1 .. n : instr_queue[k] \in Index
      BY <2>2, SizesAssumption DEF fetch, IsNext, TypeOK
    <3>2. /\ Len(instr_queue') = n + 1 /\ instr_queue'[n + 1] = i
          /\ \A k \in 1 .. n : instr_queue'[k] = instr_queue[k]
          /\ instr_queue' \in Seq(Index)
      BY <3>1 DEF TypeOK
    <3>3. ASSUME NEW k \in 1 .. (n + 1)
          PROVE  /\ instr_queue'[k] <= i
                 /\ \A l \in 1 .. (n + 1) : k < l => instr_queue'[k] < instr_queue'[l]
                 /\ \A x \in Index : Issued(x) => x < instr_queue'[k]
      <4>1. CASE k = n + 1
        BY <3>1, <3>2, <4>1 DEF QueueInv
      <4>2. CASE k \in 1 .. n
        <5>1. instr_queue[k] <= fetch_index /\ instr_queue[k] \in Nat
          BY Zenon, <3>1, <4>2 DEF QueueInv
        <5>2. ASSUME NEW l \in 1 .. (n + 1), k < l
              PROVE  instr_queue'[k] < instr_queue'[l]
          <6>1. CASE l = n + 1
            BY <3>1, <3>2, <4>2, <5>1, <6>1
          <6>2. CASE l \in 1 .. n
            BY Zenon, <3>2, <4>2, <5>2, <6>2 DEF QueueInv
          <6> QED
            BY <3>1, <6>1, <6>2
        <5> QED
          BY SMTT(40), <3>1, <3>2, <4>2, <5>1, <5>2 DEF QueueInv
      <4> QED
        BY <3>1, <4>1, <4>2
    <3>4. \A x \in Index : Issued(x) => x <= i /\ Enters(x)
      BY <3>1 DEF QueueInv
    <3>5. ASSUME NEW x \in Index, Enters(x), x <= i, ~Issued(x)
          PROVE  \E k \in 1 .. (n + 1) : instr_queue'[k] = x
      <4>1. op(x) # "trap"
        BY Zenon, <3>5 DEF Enters, UsesUnit, USES_INT_FU, USES_FP_FU
      <4>2. x = i \/ x <= fetch_index
        BY <2>2, <3>1, <3>5, <4>1 DEF IsNext
      <4>3. CASE x = i
        BY <3>1, <3>2, <4>3
      <4>4. CASE x <= fetch_index
        <5>1. PICK k \in 1 .. n : instr_queue[k] = x
          BY Zenon, <3>5, <4>4 DEF QueueInv
        <5> QED
          BY <3>1, <3>2, <5>1
      <4> QED
        BY Zenon, <4>2, <4>3, <4>4
    <3>6. QueueInv'
      BY Zenon, <1>0, <1>i, <3>1, <3>2, <3>3, <3>4, <3>5, Rigid DEF QueueInv
    <3> QED
      BY <3>1, <3>2, <3>6, SizesAssumption DEF Index
  <2> QED
    BY Zenon, <2>1, <2>2 DEF fetch_To_dispatch
<1>1. TypeOK'
  BY Zenon, <1>0, <1>c, <1>d, <1>q DEF TypeOK
<1>2. StampInv'
  <2>1. ASSUME NEW i \in Index
        PROVE  /\ tom_cdb_cycle[i] <= cycle'
               /\ stage' \in {"CDB_To_retire", "execute_To_CDB"} => tom_cdb_cycle[i] < cycle'
    <3>1. tom_cdb_cycle[i] \in Nat /\ tom_cdb_cycle[i] <= cycle
      BY Zenon DEF StampInv, TypeOK
    <3> HIDE DEF IInv
    <3>2. \A k, m \in Nat : k <= m => k <= m + 1 /\ k < m + 1
      OBVIOUS
    <3>3. "done" \notin {"CDB_To_retire", "execute_To_CDB"}
      OBVIOUS
    <3> QED
      BY Zenon, <1>0, <1>c, <3>1, <3>2, <3>3
  <2>2. \A i \in Index : WRITES_CDB(i)' = WRITES_CDB(i)
    BY Zenon, <1>0, Rigid
  <2> QED
    BY Zenon, <1>0, <1>i, <2>1, <2>2 DEF StampInv
<1>3. MapInv'
  BY Zenon, <1>0, <1>i, Rigid DEF MapInv, LastWriter
<1>4. TagInv'
  BY Zenon, <1>0, <1>i, Rigid DEF TagInv
<1>5. RAWResolved' /\ OldestBroadcastsFirst'
  BY Zenon, <1>0, Rigid DEF RAWResolved, OldestBroadcastsFirst
<1> QED
  BY Zenon, <1>q, <1>1, <1>2, <1>3, <1>4, <1>5

(* A stuttering step changes no stamp. *)
LEMMA IdleInv == IInv /\ UNCHANGED vars => IInv'
<1> SUFFICES ASSUME IInv, UNCHANGED vars PROVE IInv'
  BY Zenon
<1> USE Positions DEF IInv
<1>0. /\ trace' = trace
      /\ UNCHANGED <<cycle, fetch_index, instr_queue, reserv, fu,
                     commonDataBus, map_table, Q,
                     tom_dispatch_cycle, tom_issue_cycle, tom_execute_cycle, tom_cdb_cycle>>
      /\ stage' = stage
  BY Zenon DEF vars, stamps
<1>i. \A i \in Index : Issued(i)' = Issued(i) /\ Broadcast(i)' = Broadcast(i)
  BY Zenon, <1>0 DEF Issued, Broadcast
<1>1. TypeOK'
  BY Zenon, <1>0 DEF TypeOK
<1>2. StampInv'
  BY Zenon, <1>0, <1>i, Rigid DEF StampInv
<1>3. QueueInv'
  BY Zenon, <1>0, <1>i, Rigid DEF QueueInv
<1>4. MapInv' /\ TagInv'
  BY Zenon, <1>0, <1>i, Rigid DEF MapInv, LastWriter, TagInv
<1>5. RAWResolved' /\ OldestBroadcastsFirst'
  BY Zenon, <1>0, Rigid DEF RAWResolved, OldestBroadcastsFirst
<1> QED
  BY Zenon, <1>1, <1>2, <1>3, <1>4, <1>5

(* One step of runTomasulo's loop preserves the invariant. *)
LEMMA StepInv == IInv /\ [Next]_vars => IInv'
BY Zenon, RetireInv, ExecuteInv, IssueInv, DispatchInv, FetchInv, IdleInv
DEF Next, runTomasulo, Returned

(* The invariant holds throughout a simulation. *)
THEOREM Invariant == Spec => []IInv
<1>1. Init => IInv
  BY Zenon, InitInv
<1>2. IInv /\ [Next]_vars => IInv'
  BY Zenon, StepInv
<1> QED
  BY <1>1, <1>2, PTL DEF Spec

(* The variables keep the types of their declarations: in particular the   *)
(* queue, stations, units, tags and map table only ever hold positions of  *)
(* the trace or the one entry behind it.                                   *)
THEOREM Types == Spec => []TypeOK
BY Invariant, PTL DEF IInv

(* Stage order and tags together resolve every read-after-write dependence *)
(* for all traces and all machine sizes: whatever executes does so after   *)
(* the bus cycle of each of its producers.                                 *)
THEOREM RAW == Spec => []RAWResolved
BY Invariant, PTL DEF IInv

(* The bus carries at most one result per cycle, and a result never passes *)
(* an older one that had finished executing.                               *)
THEOREM BusOrder == Spec => []OldestBroadcastsFirst
BY Invariant, PTL DEF IInv

-----------------------------------------------------------------------------
(* Where an issued instruction is, and when its stamps were set. *)
StationInv ==
  \A i \in Index :
    /\ Issued(i) /\ tom_execute_cycle[i] = 0 => i \in reserv
    /\ ~Issued(i) => Q[i] = {} /\ tom_execute_cycle[i] = 0
    /\ tom_execute_cycle[i] <= cycle
    /\ stage = "issue_To_execute" /\ tom_cdb_cycle[i] = cycle => i = commonDataBus

(* Every tag and every map table entry names a producer whose result is    *)
(* still to be broadcast.                                                  *)
NoStaleTag ==
  /\ \A r \in Reg, q \in Index : map_table[r] = q => LastWriter(q, r) /\ ~Broadcast(q)
  /\ \A i \in Trace : Issued(i) /\ tom_execute_cycle[i] = 0 =>
       \A p \in Q[i] : p \in Producers(i) /\ ~Broadcast(p)

OInv == IInv /\ StationInv /\ NoStaleTag /\ OldestStartsFirst

-----------------------------------------------------------------------------
(* execute_To_CDB puts at most one instruction on the bus, one that was    *)
(* executing, and only executing instructions leave their stations.        *)
LEMMA ExecuteEffect ==
  ASSUME IInv, execute_To_CDB
  PROVE  /\ \/ tom_cdb_cycle' = tom_cdb_cycle
            \/ \E w \in Trace : /\ w \in fu /\ commonDataBus' = w
                                /\ WRITES_CDB(w) /\ EXECUTION_DONE(w)
                                /\ tom_cdb_cycle' = [tom_cdb_cycle EXCEPT ![w] = cycle]
         /\ \A i \in reserv : tom_execute_cycle[i] = 0 => i \in reserv'
<1> USE Positions DEF IInv
<1> DEFINE Writers == {i \in Finished : WRITES_CDB(i)}
           winner  == IF commonDataBus = NULL THEN OldestComplete ELSE {}
<1>1. /\ tom_cdb_cycle' = [i \in Index |-> IF i \in winner THEN cycle ELSE tom_cdb_cycle[i]]
      /\ commonDataBus' = IF winner = {} THEN commonDataBus ELSE CHOOSE i \in winner : TRUE
      /\ \A i \in reserv : i \notin fu => i \in reserv'
  <2>1. OldestComplete \subseteq fu
    BY Zenon DEF OldestComplete, Oldest, Finished
  <2> QED
    BY Zenon, <2>1 DEF execute_To_CDB, Finished
<1>2. \A i \in winner : i \in Trace /\ i \in fu /\ i \in Writers /\ \A j \in Writers : i <= j
  <2>1. Writers \in SUBSET Index
    BY Zenon DEF Finished, TypeOK
  <2>2. \A i \in winner : i \in Writers /\ \A j \in Writers : i <= j
    BY Zenon, <2>1, OldestIsLeast DEF OldestComplete
  <2>3. \A i \in Writers : i \in Trace /\ i \in fu
    BY Zenon DEF Finished, WRITES_CDB, op
  <2> QED
    BY Zenon, <2>2, <2>3
<1> HIDE DEF winner, Writers
<1>3. CASE winner = {}
  <2>1. tom_cdb_cycle' = tom_cdb_cycle
    BY Zenon, <1>1, <1>3 DEF TypeOK
  <2> QED
    BY Zenon, <1>1, <2>1 DEF StampInv, TypeOK
<1>4. CASE winner # {}
  <2>1. PICK w \in winner : commonDataBus' = w
    BY Zenon, <1>1, <1>4
  <2>2. ASSUME NEW i \in winner PROVE i = w
    <3>1. i \in Nat /\ w \in Nat /\ i <= w /\ w <= i
      BY Zenon, <1>2
    <3> QED
      BY <3>1
  <2>3. tom_cdb_cycle' = [tom_cdb_cycle EXCEPT ![w] = cycle]
    BY Zenon, <1>1, <1>2, <2>2 DEF TypeOK
  <2>4. w \in Trace /\ w \in fu
    BY Zenon, <1>2
  <2>5. WRITES_CDB(w) /\ EXECUTION_DONE(w)
    BY Zenon, <1>2 DEF Writers, Finished
  <2> QED
    BY Zenon, <1>1, <2>1, <2>3, <2>4, <2>5 DEF StampInv, TypeOK
<1> QED
  BY Zenon, <1>3, <1>4

(* Whatever starts was in a station, had clear tags and had not started.   *)
LEMMA StartingReady ==
  ASSUME IInv, NEW i \in Starting
  PROVE  /\ i \in Trace /\ i \in reserv /\ Q[i] = {} /\ tom_execute_cycle[i] = 0
         /\ cycle > tom_issue_cycle[i]
         /\ \E u \in Units : UsesUnit(i, u) /\ i \in Oldest(Issueable(u), Free(u))
<1>1. PICK u \in Units : i \in Oldest(Issueable(u), Free(u))
  BY Zenon DEF Starting
<1>2. i \in Issueable(u)
  BY Zenon, <1>1 DEF Oldest
<1>3. /\ UsesUnit(i, u) /\ i \in reserv /\ Q[i] = {} /\ tom_execute_cycle[i] = 0
      /\ cycle > tom_issue_cycle[i]
  BY Zenon, <1>2 DEF Issueable
<1>4. i \in Trace
  BY Zenon, <1>3 DEF UsesUnit, USES_INT_FU, USES_FP_FU, op
<1> QED
  BY Zenon, <1>1, <1>3, <1>4

(* The mapping sends initial states to initial states of Dataflow. *)
LEMMA RefineInit == Init => Abstract!Init
BY Zenon, Positions DEF Init, Abstract!Init

(* Starting a set of instructions is a Start step, taking the bus is a     *)
(* Publish step, and every other call leaves the mapped state alone.       *)
LEMMA RefineStep == IInv /\ [Next]_vars => [Abstract!Next]_(Abstract!vars)
<1> SUFFICES ASSUME IInv, [Next]_vars PROVE [Abstract!Next]_(Abstract!vars)
  BY Zenon
<1> USE Positions DEF IInv
<1> DEFINE started == {i \in Trace : tom_execute_cycle[i] # 0}
           published == {i \in Trace : tom_cdb_cycle[i] # 0}
           needs == [i \in Trace |-> Producers(i)]
<1>n. needs' = needs
  <2>1. trace' = trace
    BY Zenon DEF Next, runTomasulo, CDB_To_retire, execute_To_CDB, issue_To_execute,
       dispatch_To_issue, fetch_To_dispatch, Returned, vars
  <2> QED
    BY Zenon, <2>1, Rigid
<1>1. CASE issue_To_execute
  <2>1. /\ tom_cdb_cycle' = tom_cdb_cycle
        /\ tom_execute_cycle' = [i \in Index |->
             IF i \in Starting THEN cycle ELSE tom_execute_cycle[i]]
    BY Zenon, <1>1 DEF issue_To_execute
  <2>2. Starting \in SUBSET (Trace \ started)
    BY Zenon, StartingReady
  <2>3. ASSUME NEW i \in Starting PROVE needs[i] \subseteq published
    <3>1. i \in Trace /\ i \in reserv /\ Q[i] = {} /\ tom_execute_cycle[i] = 0
      BY Zenon, StartingReady
    <3>2. Issued(i)
      BY Zenon, <3>1 DEF StampInv
    <3>3. \A p \in Producers(i) : Broadcast(p)
      BY Zenon, <3>1, <3>2 DEF TagInv
    <3> QED
      BY Zenon, <3>1, <3>3 DEF Broadcast
  <2>4. started' = started \cup Starting
    BY Zenon, <2>1, <2>2 DEF TypeOK
  <2>5. published' = published
    BY Zenon, <2>1
  <2> QED
    BY Zenon, <1>n, <2>2, <2>3, <2>4, <2>5 DEF Abstract!Next, Abstract!Start
<1>2. CASE execute_To_CDB
  <2>1. tom_execute_cycle' = tom_execute_cycle
    BY Zenon, <1>2 DEF execute_To_CDB
  <2>2. CASE tom_cdb_cycle' = tom_cdb_cycle
    BY Zenon, <1>n, <2>1, <2>2 DEF Abstract!vars
  <2>3. CASE tom_cdb_cycle' # tom_cdb_cycle
    <3>1. PICK w \in Trace : w \in fu /\ tom_cdb_cycle' = [tom_cdb_cycle EXCEPT ![w] = cycle]
      BY Zenon, <1>2, <2>3, ExecuteEffect
    <3>2. w \in started \ published
      BY Zenon, <3>1 DEF StampInv
    <3>3. published' = published \cup {w} /\ started' = started
      BY <2>1, <3>1 DEF TypeOK
    <3> QED
      BY Zenon, <1>n, <3>2, <3>3 DEF Abstract!Next, Abstract!Publish
  <2> QED
    BY Zenon, <2>2, <2>3
<1>3. CASE UNCHANGED <<tom_execute_cycle, tom_cdb_cycle>>
  BY Zenon, <1>n, <1>3 DEF Abstract!vars
<1> QED
  BY Zenon, <1>1, <1>2, <1>3 DEF Next, runTomasulo, CDB_To_retire, dispatch_To_issue,
     fetch_To_dispatch, Returned, vars, stamps

(* For every trace and every machine size the stage functions implement    *)
(* Dataflow, the promise of an out-of-order machine.                       *)
THEOREM Refinement == Spec => IsDataflow
<1>1. Init => Abstract!Init
  BY Zenon, RefineInit
<1>2. IInv /\ [Next]_vars => [Abstract!Next]_(Abstract!vars)
  BY Zenon, RefineStep
<1> QED
  BY <1>1, <1>2, Invariant, PTL DEF Spec, IsDataflow, Abstract!Spec

-----------------------------------------------------------------------------
(* If a member of S is among the n oldest, so is every older member. *)
LEMMA OldestDownward ==
  ASSUME NEW S \in SUBSET Index, NEW n \in Int, NEW j \in Oldest(S, n), NEW i \in S, i < j
  PROVE  i \in Oldest(S, n)
<1> DEFINE Below(k) == {x \in S : x < k}
<1>1. j \in S /\ Cardinality(Below(j)) < n
  BY Zenon DEF Oldest
<1>2. Below(i) \subseteq Below(j) /\ Below(j) \subseteq Index
  <2>1. i \in Nat /\ j \in Nat /\ \A x \in S : x \in Nat /\ x \in Index
    BY Zenon, <1>1, Positions
  <2>2. \A x \in S : x < i => x < j
    BY <2>1
  <2> QED
    BY Zenon, <2>1, <2>2
<1>3. IsFiniteSet(Index)
  BY SizesAssumption, FS_Interval DEF Index
<1>4. IsFiniteSet(Below(j))
  BY Zenon, <1>2, <1>3, FS_Subset
<1>5. IsFiniteSet(Below(i)) /\ Cardinality(Below(i)) <= Cardinality(Below(j))
  BY Zenon, <1>2, <1>4, FS_Subset
<1>6. Cardinality(Below(i)) \in Nat /\ Cardinality(Below(j)) \in Nat
  BY Zenon, <1>4, <1>5, FS_CardinalityType
<1>7. Cardinality(Below(i)) < n
  BY <1>1, <1>5, <1>6
<1> QED
  BY Zenon, <1>7 DEF Oldest

(* A call that starts nothing cannot make OldestStartsFirst false: a stamp *)
(* set in this cycle is too late to make an instruction ready in the cycle *)
(* of an earlier start.                                                    *)
LEMMA NoLateReady ==
  ASSUME OInv, trace' = trace, UNCHANGED tom_execute_cycle,
         \A i \in Index : tom_issue_cycle'[i] = tom_issue_cycle[i] \/ tom_issue_cycle'[i] = cycle,
         \A i \in Index : tom_cdb_cycle'[i] = tom_cdb_cycle[i] \/ tom_cdb_cycle'[i] = cycle
  PROVE  OldestStartsFirst'
<1> USE Positions DEF OInv, IInv
<1> SUFFICES ASSUME NEW j \in Trace, tom_execute_cycle[j] # 0, NEW i \in Trace, NEW u \in Units,
                    i < j, UsesUnit(i, u), UsesUnit(j, u),
                    /\ tom_issue_cycle'[i] # 0 /\ tom_issue_cycle'[i] < tom_execute_cycle[j]
                    /\ \A p \in Producers(i) : /\ tom_cdb_cycle'[p] # 0
                                               /\ tom_cdb_cycle'[p] < tom_execute_cycle[j]
             PROVE  tom_execute_cycle[i] # 0 /\ tom_execute_cycle[i] <= tom_execute_cycle[j]
  BY Zenon, Rigid DEF OldestStartsFirst, ReadyIn
<1>1. tom_execute_cycle[j] \in Nat /\ cycle \in Nat /\ tom_execute_cycle[j] <= cycle
  BY Zenon DEF StationInv, TypeOK
<1>2. tom_issue_cycle[i] # 0 /\ tom_issue_cycle[i] < tom_execute_cycle[j]
  BY <1>1
<1>3. ASSUME NEW p \in Producers(i)
      PROVE  tom_cdb_cycle[p] # 0 /\ tom_cdb_cycle[p] < tom_execute_cycle[j]
  <2>1. p \in Index /\ tom_cdb_cycle'[p] < tom_execute_cycle[j] /\ tom_cdb_cycle'[p] # 0
    BY Zenon
  <2> QED
    BY <1>1, <2>1
<1> QED
  BY Zenon, <1>2, <1>3 DEF OldestStartsFirst, ReadyIn

(* Initially nothing has been issued. *)
LEMMA OrderInit == Init => OInv
<1> SUFFICES ASSUME Init PROVE OInv
  BY Zenon
<1>1. StationInv
  BY Positions DEF Init, StationInv, Issued
<1>2. NoStaleTag
  BY Zenon, Positions DEF Init, NoStaleTag, Issued
<1>3. OldestStartsFirst
  BY Zenon, Positions DEF Init, OldestStartsFirst
<1> QED
  BY Zenon, <1>1, <1>2, <1>3, InitInv DEF OInv

(* Calls that issue, start and publish nothing. *)
LEMMA OrderOther ==
  ASSUME OInv, IInv', trace' = trace,
         UNCHANGED <<reserv, map_table, Q, tom_issue_cycle, tom_execute_cycle, tom_cdb_cycle>>,
         cycle <= cycle', stage' # "issue_To_execute",
         \A q \in Index : Broadcast(q)' => Broadcast(q)
  PROVE  OInv'
<1>0. /\ StationInv /\ NoStaleTag
      /\ cycle \in Nat /\ cycle' \in Nat /\ tom_execute_cycle \in [Index -> Nat]
  BY Zenon DEF OInv, IInv, TypeOK
<1>1. StationInv'
  BY <1>0 DEF StationInv, Issued
<1>2. NoStaleTag'
  <2>1. \A r \in Reg, q \in Index : map_table'[r] = q => LastWriter(q, r)' /\ ~Broadcast(q)'
    BY Zenon, <1>0, Rigid DEF NoStaleTag, LastWriter, Issued
  <2>2. ASSUME NEW i \in Trace, Issued(i)', tom_execute_cycle'[i] = 0, NEW p \in Q'[i]
        PROVE  p \in Producers(i)' /\ ~Broadcast(p)'
    <3>1. p \in Producers(i) /\ ~Broadcast(p)
      BY Zenon, <1>0, <2>2 DEF NoStaleTag, Issued
    <3> QED
      BY Zenon, <3>1, Rigid, Positions
  <2> QED
    BY Zenon, <2>1, <2>2 DEF NoStaleTag
<1>3. OldestStartsFirst'
  BY Zenon, NoLateReady
<1> QED
  BY Zenon, <1>1, <1>2, <1>3 DEF OInv

(* Publishing a result broadcasts nothing yet. *)
LEMMA OrderExecute ==
  ASSUME OInv, IInv', execute_To_CDB
  PROVE  OInv'
<1>0. /\ trace' = trace
      /\ UNCHANGED <<cycle, map_table, Q, tom_issue_cycle, tom_execute_cycle>>
      /\ stage = "execute_To_CDB" /\ stage' = "issue_To_execute"
      /\ StationInv /\ NoStaleTag /\ cycle \in Nat
      /\ tom_cdb_cycle \in [Index -> Nat] /\ StampInv
  BY Zenon DEF execute_To_CDB, OInv, IInv, TypeOK
<1>1. /\ \A i \in reserv : tom_execute_cycle[i] = 0 => i \in reserv'
      /\ \A i \in Index : \/ tom_cdb_cycle'[i] = tom_cdb_cycle[i] /\ tom_cdb_cycle[i] < cycle
                          \/ tom_cdb_cycle'[i] = cycle /\ i = commonDataBus'
  <2>1. IInv
    BY Zenon DEF OInv
  <2> QED
    BY Zenon, <1>0, <2>1, ExecuteEffect, Positions DEF StampInv
<1>2. StationInv'
  BY <1>0, <1>1 DEF StationInv, Issued
<1>3. \A q \in Index : Broadcast(q)' => Broadcast(q)
  BY <1>0, <1>1 DEF Broadcast
<1>4. NoStaleTag'
  <2>1. \A r \in Reg, q \in Index : map_table'[r] = q => LastWriter(q, r)' /\ ~Broadcast(q)'
    BY Zenon, <1>0, <1>3, Rigid DEF NoStaleTag, LastWriter, Issued
  <2>2. ASSUME NEW i \in Trace, Issued(i)', tom_execute_cycle'[i] = 0, NEW p \in Q'[i]
        PROVE  p \in Producers(i)' /\ ~Broadcast(p)'
    <3>1. p \in Producers(i) /\ ~Broadcast(p)
      BY Zenon, <1>0, <2>2 DEF NoStaleTag, Issued
    <3> QED
      BY Zenon, <1>0, <1>3, <3>1, Rigid, Positions
  <2> QED
    BY Zenon, <2>1, <2>2 DEF NoStaleTag
<1>5. OldestStartsFirst'
  BY Zenon, <1>0, <1>1, NoLateReady
<1> QED
  BY Zenon, <1>2, <1>4, <1>5 DEF OInv

(* A unit takes the oldest instructions whose tags are clear, and tags are *)
(* clear as soon as all producers have been broadcast.                     *)
LEMMA OrderIssue ==
  ASSUME OInv, IInv', issue_To_execute
  PROVE  OInv'
<1>0. /\ trace' = trace
      /\ UNCHANGED <<cycle, reserv, tom_issue_cycle, tom_cdb_cycle>>
      /\ stage = "issue_To_execute" /\ stage' = "dispatch_To_issue"
      /\ tom_execute_cycle' = [i \in Index |->
           IF i \in Starting THEN cycle ELSE tom_execute_cycle[i]]
      /\ \/ commonDataBus = NULL /\ UNCHANGED <<map_table, Q>>
         \/ commonDataBus # NULL /\ broadcast_tags(commonDataBus)
  BY Zenon DEF issue_To_execute
<1>t. /\ IInv /\ TypeOK /\ StampInv /\ StationInv /\ NoStaleTag /\ OldestStartsFirst
      /\ cycle \in Nat \ {0}
      /\ map_table \in [Reg -> Index \cup {NULL}] /\ Q \in [Index -> SUBSET Index]
      /\ tom_issue_cycle \in [Index -> Nat] /\ tom_execute_cycle \in [Index -> Nat]
      /\ tom_cdb_cycle \in [Index -> Nat]
  BY Zenon DEF OInv, IInv, TypeOK
<1>s. \A i \in Starting : i \in Trace /\ i \in reserv /\ tom_execute_cycle[i] = 0
  BY Zenon, <1>t, StartingReady
<1>b. \A q \in Index : Broadcast(q)' => Broadcast(q) \/ q = commonDataBus
  BY <1>0, <1>t DEF Broadcast, StationInv, StampInv
<1>m. \A r \in Reg : map_table'[r] # NULL => map_table'[r] = map_table[r] /\ map_table[r] # commonDataBus
  <2>1. CASE commonDataBus = NULL
    BY Zenon, <1>0, <2>1
  <2>2. CASE commonDataBus # NULL
    BY Zenon, <1>0, <2>2 DEF broadcast_tags
  <2> QED
    BY Zenon, <2>1, <2>2
<1>q. /\ \A i \in Index : Q'[i] \subseteq Q[i]
      /\ \A i \in reserv : commonDataBus \notin Q'[i]
  <2>1. CASE commonDataBus = NULL
    BY Zenon, <1>0, <1>t, <2>1, Positions DEF TypeOK
  <2>2. CASE commonDataBus # NULL
    BY Zenon, <1>0, <1>t, <2>2 DEF broadcast_tags, TypeOK
  <2> QED
    BY Zenon, <2>1, <2>2
<1>1. StationInv'
  <2>1. \A i \in Index : Issued(i)' = Issued(i) /\ (i \in reserv => Issued(i))
    BY Zenon, <1>0, <1>t DEF Issued, StampInv
  <2> QED
    BY <1>0, <1>t, <1>s, <1>q, <2>1 DEF StationInv
<1>2. NoStaleTag'
  <2>1. ASSUME NEW r \in Reg, NEW q \in Index, map_table'[r] = q
        PROVE  LastWriter(q, r)' /\ ~Broadcast(q)'
    <3>1. map_table[r] = q /\ q # commonDataBus
      BY Zenon, <1>m, <2>1, Positions
    <3>2. LastWriter(q, r) /\ ~Broadcast(q)
      BY Zenon, <1>t, <3>1 DEF NoStaleTag
    <3>3. LastWriter(q, r)'
      BY Zenon, <1>0, <3>2, Rigid DEF LastWriter, Issued
    <3> QED
      BY Zenon, <1>b, <3>1, <3>2, <3>3
  <2>2. ASSUME NEW i \in Trace, Issued(i)', tom_execute_cycle'[i] = 0, NEW p \in Q'[i]
        PROVE  p \in Producers(i)' /\ ~Broadcast(p)'
    <3>1. Issued(i) /\ tom_execute_cycle[i] = 0 /\ i \in Index
      BY Zenon, <1>0, <1>t, <2>2, Positions DEF Issued
    <3>2. i \in reserv /\ p \in Q[i] /\ p # commonDataBus
      BY Zenon, <1>t, <1>q, <2>2, <3>1 DEF StationInv
    <3>3. p \in Producers(i) /\ ~Broadcast(p)
      BY Zenon, <1>t, <3>1, <3>2 DEF NoStaleTag
    <3> QED
      BY Zenon, <1>0, <1>b, <3>2, <3>3, Rigid, Positions
  <2> QED
    BY Zenon, <2>1, <2>2 DEF NoStaleTag
<1>3. OldestStartsFirst'
  <2> SUFFICES ASSUME NEW j \in Trace, tom_execute_cycle'[j] # 0, NEW i \in Trace,
                      NEW u \in Units, i < j, UsesUnit(i, u), UsesUnit(j, u),
                      ReadyIn(i, tom_execute_cycle'[j])
               PROVE  tom_execute_cycle'[i] # 0 /\ tom_execute_cycle'[i] <= tom_execute_cycle'[j]
    BY Zenon, <1>0, Rigid, Positions DEF OldestStartsFirst, ReadyIn
  <2>0. i \in Index /\ j \in Index
    BY Zenon, Positions
  <2>1. CASE j \in Starting
    <3>1. tom_execute_cycle'[j] = cycle
      BY Zenon, <1>0, <2>0, <2>1
    <3>2. CASE tom_execute_cycle[i] # 0
      BY SMTT(40), <1>0, <1>t, <2>0, <3>1, <3>2 DEF StationInv
    <3>3. CASE tom_execute_cycle[i] = 0
      <4>1. /\ tom_issue_cycle[i] # 0 /\ tom_issue_cycle[i] < cycle
            /\ \A p \in Producers(i) : tom_cdb_cycle[p] # 0 /\ tom_cdb_cycle[p] < cycle
        BY Zenon, <3>1 DEF ReadyIn
      <4>2. Q[i] = {}
        BY Zenon, <1>t, <3>3, <4>1 DEF NoStaleTag, Issued, Broadcast
      <4>3. i \in Issueable(u)
        BY Zenon, <1>t, <2>0, <3>3, <4>1, <4>2 DEF Issueable, StationInv, Issued
      <4>4. PICK v \in Units : UsesUnit(j, v) /\ j \in Oldest(Issueable(v), Free(v))
        BY Zenon, <1>t, <2>1, StartingReady
      <4>5. v = u
        BY Zenon, <4>4 DEF UsesUnit, USES_INT_FU, USES_FP_FU, Units
      <4>6. Issueable(u) \in SUBSET Index /\ Free(u) \in Int
        <5>1. IsFiniteSet(Index)
          BY SizesAssumption, FS_Interval DEF Index
        <5>2. {x \in fu : UsesUnit(x, u)} \subseteq Index
          BY Zenon, <1>t DEF TypeOK
        <5>3. Cardinality({x \in fu : UsesUnit(x, u)}) \in Nat
          BY Zenon, <5>1, <5>2, FS_Subset, FS_CardinalityType
        <5> QED
          BY <1>t, <5>3, SizesAssumption DEF Issueable, Free, TypeOK
      <4>7. i \in Oldest(Issueable(u), Free(u))
        BY Zenon, <4>3, <4>4, <4>5, <4>6, OldestDownward
      <4>8. i \in Starting
        BY Zenon, <4>7 DEF Starting
      <4> QED
        BY <1>0, <1>t, <2>0, <3>1, <4>8
    <3> QED
      BY Zenon, <3>2, <3>3
  <2>2. CASE j \notin Starting
    <3>1. tom_execute_cycle'[j] = tom_execute_cycle[j]
      BY Zenon, <1>0, <2>0, <2>2
    <3>2. tom_execute_cycle[i] # 0 /\ tom_execute_cycle[i] <= tom_execute_cycle[j]
      BY Zenon, <1>t, <3>1 DEF OldestStartsFirst
    <3>3. i \notin Starting
      BY Zenon, <1>s, <3>2
    <3> QED
      BY Zenon, <1>0, <2>0, <3>1, <3>2, <3>3
  <2> QED
    BY Zenon, <2>1, <2>2
<1> QED
  BY Zenon, <1>1, <1>2, <1>3 DEF OInv

(* The tags of a newly issued instruction are the last earlier writers of  *)
(* its operands, and itself it has not been broadcast.                     *)
LEMMA OrderReserve ==
  ASSUME OInv, IInv', dispatch_To_issue, instr_queue # <<>>, NEW u \in Units,
         NEW h, h = Head(instr_queue), Reserve(h, u)
  PROVE  OInv'
<1>0. /\ trace' = trace
      /\ UNCHANGED <<cycle, tom_execute_cycle, tom_cdb_cycle>>
      /\ stage = "dispatch_To_issue" /\ stage' = "fetch_To_dispatch"
      /\ reserv' = reserv \cup {h}
      /\ tom_issue_cycle' = [tom_issue_cycle EXCEPT ![h] = cycle]
      /\ Enters(h)
      /\ Q' = [Q EXCEPT ![h] = {map_table[r] : r \in r_in(h)} \ {NULL}]
      /\ map_table' = [r \in Reg |-> IF r \in r_out(h) THEN h ELSE map_table[r]]
  BY Zenon DEF dispatch_To_issue, Reserve, set_tags, Enters
<1>t. /\ IInv /\ StampInv /\ StationInv /\ NoStaleTag
      /\ cycle \in Nat \ {0}
      /\ map_table \in [Reg -> Index \cup {NULL}] /\ Q \in [Index -> SUBSET Index]
      /\ tom_issue_cycle \in [Index -> Nat]
  BY Zenon DEF OInv, IInv, TypeOK
<1>h. /\ h \in Trace /\ r_in(h) \subseteq Reg
      /\ \A x \in Index : Issued(x) => x < h /\ Enters(x)
      /\ \A x \in Index : x < h /\ Enters(x) => Issued(x)
  BY Zenon, <1>0, <1>t, HeadIsNext
<1>n. h \in Index /\ h \in Nat /\ ~Issued(h) /\ tom_execute_cycle[h] = 0 /\ tom_cdb_cycle[h] = 0
  <2>1. h \in Index /\ h \in Nat /\ ~Issued(h)
    BY <1>h, Positions
  <2> QED
    BY Zenon, <1>t, <2>1 DEF StationInv, StampInv
<1>i. /\ \A i \in Index : i # h => Issued(i)' = Issued(i)
      /\ Issued(h)'
      /\ \A i \in Index : Broadcast(i)' = Broadcast(i)
      /\ ~Broadcast(h)
  BY Zenon, <1>0, <1>n, <1>t DEF Issued, Broadcast
<1>1. StationInv'
  <2>1. \A i \in Index : i # h => Q'[i] = Q[i]
    BY Zenon, <1>0, <1>t
  <2> QED
    BY Zenon, <1>0, <1>t, <1>i, <2>1 DEF StationInv
<1>2. NoStaleTag'
  <2>1. ASSUME NEW r \in Reg, NEW q \in Index, map_table'[r] = q
        PROVE  LastWriter(q, r)' /\ ~Broadcast(q)'
    <3>1. CASE r \in r_out(h)
      <4>1. q = h
        BY Zenon, <1>0, <2>1, <3>1
      <4>2. \A x \in Index : Issued(x)' => x <= h
        BY <1>h, <1>i, <1>n, Positions
      <4> QED
        BY Zenon, <1>0, <1>i, <1>n, <3>1, <4>1, <4>2, Rigid DEF LastWriter
    <3>2. CASE r \notin r_out(h)
      <4>1. map_table[r] = q
        BY Zenon, <1>0, <2>1, <3>2
      <4>2. LastWriter(q, r) /\ ~Broadcast(q)
        BY Zenon, <1>t, <4>1 DEF NoStaleTag
      <4>3. q # h
        BY Zenon, <3>2, <4>2 DEF LastWriter
      <4> QED
        BY Zenon, <1>0, <1>i, <3>2, <4>2, <4>3, Rigid DEF LastWriter
    <3> QED
      BY Zenon, <3>1, <3>2
  <2>2. ASSUME NEW i \in Trace, Issued(i)', tom_execute_cycle'[i] = 0, NEW p \in Q'[i]
        PROVE  p \in Producers(i)' /\ ~Broadcast(p)'
    <3>0. Producers(i)' = Producers(i) /\ i \in Index
      BY Zenon, <1>0, Rigid, Positions
    <3>1. CASE i = h
      <4>1. PICK r \in r_in(h) : p = map_table[r] /\ p # NULL
        BY Zenon, <1>0, <1>n, <1>t, <2>2, <3>1
      <4>2. r \in Reg /\ p \in Index
        BY Zenon, <1>h, <1>t, <4>1
      <4>3. LastWriter(p, r) /\ ~Broadcast(p)
        BY Zenon, <1>t, <4>1, <4>2 DEF NoStaleTag
      <4>4. p < h /\ Enters(p) /\ r \in r_out(p) /\ p \in Trace
        BY Zenon, <1>h, <4>2, <4>3 DEF LastWriter, r_out
      <4>5. ASSUME NEW q \in Trace, p < q, q < h, Enters(q) PROVE r \notin r_out(q)
        <5>1. Issued(q) /\ q \in Index
          BY Zenon, <1>h, <4>5, Positions
        <5>2. r \in r_out(q) => q <= p
          BY Zenon, <4>3, <5>1 DEF LastWriter
        <5>3. p \in Nat /\ q \in Nat
          BY Zenon, <4>2, <5>1, Positions
        <5> QED
          BY <4>5, <5>2, <5>3
      <4>6. p \in Producers(h)
        BY Zenon, <4>1, <4>4, <4>5 DEF Producers
      <4> QED
        BY Zenon, <1>i, <3>0, <3>1, <4>2, <4>3, <4>6
    <3>2. CASE i # h
      <4>1. Issued(i) /\ tom_execute_cycle[i] = 0 /\ p \in Q[i]
        BY Zenon, <1>0, <1>i, <1>t, <2>2, <3>0, <3>2
      <4>2. p \in Producers(i) /\ ~Broadcast(p)
        BY Zenon, <1>t, <4>1 DEF NoStaleTag
      <4> QED
        BY Zenon, <1>i, <3>0, <4>2, Positions
    <3> QED
      BY Zenon, <3>1, <3>2
  <2> QED
    BY Zenon, <2>1, <2>2 DEF NoStaleTag
<1>3. OldestStartsFirst'
  <2>1. \A i \in Index : tom_issue_cycle'[i] = tom_issue_cycle[i] \/ tom_issue_cycle'[i] = cycle
    BY Zenon, <1>0, <1>t
  <2> QED
    BY Zenon, <1>0, <2>1, NoLateReady
<1> QED
  BY Zenon, <1>1, <1>2, <1>3 DEF OInv

(* Every call of runTomasulo preserves the stronger invariant. *)
LEMMA OrderStep == OInv /\ [Next]_vars => OInv'
<1> SUFFICES ASSUME OInv, [Next]_vars PROVE OInv'
  BY Zenon
<1>0. IInv' /\ TypeOK /\ StampInv /\ cycle \in Nat \ {0} /\ tom_cdb_cycle \in [Index -> Nat]
  BY Zenon, StepInv DEF OInv, IInv, TypeOK
<1>1. CASE CDB_To_retire
  <2>1. \A q \in Index : Broadcast(q)' => Broadcast(q)
    BY Zenon, <1>1 DEF CDB_To_retire, Broadcast, stamps
  <2> QED
    BY <1>0, <1>1, <2>1, OrderOther DEF CDB_To_retire, stamps
<1>2. CASE execute_To_CDB
  BY Zenon, <1>0, <1>2, OrderExecute
<1>3. CASE issue_To_execute
  BY Zenon, <1>0, <1>3, OrderIssue
<1>4. CASE dispatch_To_issue
  <2>1. CASE instr_queue # <<>> /\ \E u \in Units : Reserve(Head(instr_queue), u)
    BY Zenon, <1>0, <1>4, <2>1, OrderReserve
  <2>2. CASE (instr_queue # <<>> /\ PopOnly(Head(instr_queue))) \/ Stall
    <3>1. /\ UNCHANGED <<trace, cycle, reserv, map_table, Q, tom_issue_cycle,
                         tom_execute_cycle, tom_cdb_cycle>>
          /\ stage = "dispatch_To_issue" /\ stage' = "fetch_To_dispatch"
      BY Zenon, <1>4, <2>2 DEF dispatch_To_issue, PopOnly, Stall
    <3>2. \A q \in Index : Broadcast(q)' => Broadcast(q)
      BY Zenon, <3>1 DEF Broadcast
    <3> QED
      BY <1>0, <3>1, <3>2, OrderOther
  <2> QED
    BY Zenon, <1>4, <2>1, <2>2 DEF dispatch_To_issue
<1>5. CASE fetch_To_dispatch
  <2>1. /\ UNCHANGED <<trace, reserv, map_table, Q, tom_issue_cycle,
                       tom_execute_cycle, tom_cdb_cycle>>
        /\ stage = "fetch_To_dispatch" /\ stage' \in {"done", "CDB_To_retire"}
        /\ cycle' = cycle \/ cycle' = cycle + 1
    BY Zenon, <1>5 DEF fetch_To_dispatch
  <2>2. \A q \in Index : Broadcast(q)' => Broadcast(q)
    BY Zenon, <2>1 DEF Broadcast
  <2> QED
    BY <1>0, <2>1, <2>2, OrderOther
<1>6. CASE UNCHANGED vars
  <2>1. /\ UNCHANGED <<trace, cycle, reserv, map_table, Q, commonDataBus, tom_issue_cycle,
                       tom_execute_cycle, tom_cdb_cycle>>
        /\ stage' = stage
    BY Zenon, <1>6 DEF vars, stamps
  <2>2. \A q \in Index : Broadcast(q)' => Broadcast(q)
    BY Zenon, <2>1 DEF Broadcast
  <2>3. CASE stage' # "issue_To_execute"
    BY <1>0, <2>1, <2>2, <2>3, OrderOther
  <2>4. CASE stage' = "issue_To_execute"
    <3>2. StationInv'
      BY Zenon, <2>1, <2>4 DEF OInv, StationInv, Issued
    <3>3. NoStaleTag'
      BY Zenon, <2>1, <2>4, Rigid DEF OInv, NoStaleTag, LastWriter, Issued, Broadcast
    <3>4. OldestStartsFirst'
      BY Zenon, <2>1, NoLateReady
    <3> QED
      BY Zenon, <1>0, <3>2, <3>3, <3>4 DEF OInv
  <2> QED
    BY Zenon, <2>3, <2>4
<1> QED
  BY Zenon, <1>1, <1>2, <1>3, <1>4, <1>5, <1>6 DEF Next, runTomasulo, Returned

(* "We prioritize old instructions over new ones", for all traces and all  *)
(* machine sizes: no instruction starts in a cycle in which an older one   *)
(* of its unit was ready and did not.                                      *)
THEOREM StartOrder == Spec => []OldestStartsFirst
<1>1. Init => OInv
  BY Zenon, OrderInit
<1>2. OInv /\ [Next]_vars => OInv'
  BY Zenon, OrderStep
<1>3. OInv => OldestStartsFirst
  BY Zenon DEF OInv
<1> QED
  BY <1>1, <1>2, <1>3, PTL DEF Spec

-----------------------------------------------------------------------------
(* Exactly what has been fetched has a dispatch stamp, and the stamps are  *)
(* in program order.                                                       *)
DispatchedInv ==
  /\ \A i \in Index, k \in 1 .. Len(instr_queue) : instr_queue[k] = i => op(i) # "trap"
  /\ \A i \in Index :
       /\ tom_dispatch_cycle[i] # 0 <=> i <= fetch_index /\ op(i) # "trap"
       /\ tom_dispatch_cycle[i] <= cycle
       /\ stage # "done" => tom_dispatch_cycle[i] < cycle
       /\ \A j \in Index : j < i /\ tom_dispatch_cycle[i] # 0
            => tom_dispatch_cycle[j] < tom_dispatch_cycle[i]

(* The stamps of an instruction increase from stage to stage. *)
StagesInv ==
  \A i \in Index :
    /\ Issued(i) => tom_dispatch_cycle[i] < tom_issue_cycle[i]
    /\ tom_execute_cycle[i] # 0 => tom_issue_cycle[i] < tom_execute_cycle[i]
    /\ ~WRITES_CDB(i) => tom_cdb_cycle[i] = 0
    /\ \A u \in Units : tom_cdb_cycle[i] # 0 /\ UsesUnit(i, u)
         => tom_cdb_cycle[i] >= tom_execute_cycle[i] + FU_LATENCY[u]

(* runTomasulo returns with everything empty. *)
DoneInv ==
  stage = "done" =>
    fetch_index > sim_num_insn /\ instr_queue = <<>> /\ reserv = {} /\ fu = {}

AInv == OInv /\ DispatchedInv /\ StagesInv /\ DoneInv

(* Nothing is stamped at the start. *)
LEMMA AccountInit == Init => AInv
<1> SUFFICES ASSUME Init PROVE AInv
  BY Zenon
<1>1. DispatchedInv
  BY Positions DEF Init, DispatchedInv
<1>2. StagesInv
  BY Zenon DEF Init, StagesInv, Issued
<1>3. DoneInv
  BY Zenon DEF Init, DoneInv
<1> QED
  BY Zenon, <1>1, <1>2, <1>3, OrderInit DEF AInv

(* Of the two units an instruction uses at most one. *)
LEMMA OneUnit ==
  ASSUME NEW i, NEW u \in Units, NEW v \in Units, UsesUnit(i, u), UsesUnit(i, v)
  PROVE  u = v
BY Zenon DEF UsesUnit, USES_INT_FU, USES_FP_FU, Units

(* A call that fetches nothing and takes at most the head off the queue    *)
(* leaves the dispatch stamps as they are.                                 *)
LEMMA DispatchedKept ==
  ASSUME AInv, trace' = trace, UNCHANGED <<cycle, fetch_index, tom_dispatch_cycle>>,
         stage # "done",
         \/ instr_queue' = instr_queue
         \/ instr_queue # <<>> /\ instr_queue' = Tail(instr_queue)
  PROVE  DispatchedInv'
<1>0. DispatchedInv /\ instr_queue \in Seq(Index)
  BY Zenon DEF AInv, OInv, IInv, TypeOK
<1>2. \A i \in Index, k \in 1 .. Len(instr_queue') : instr_queue'[k] = i => op(i) # "trap"
  <2>1. CASE instr_queue' = instr_queue
    BY Zenon, <1>0, <2>1 DEF DispatchedInv
  <2>2. CASE instr_queue # <<>> /\ instr_queue' = Tail(instr_queue)
    <3>1. ASSUME NEW k \in 1 .. Len(instr_queue')
          PROVE  \E l \in 1 .. Len(instr_queue) : instr_queue'[k] = instr_queue[l]
      <4>1. k + 1 \in 1 .. Len(instr_queue) /\ instr_queue'[k] = instr_queue[k + 1]
        BY <1>0, <2>2
      <4> QED
        BY Zenon, <4>1
    <3> QED
      BY ZenonT(40), <1>0, <3>1 DEF DispatchedInv
  <2> QED
    BY Zenon, <2>1, <2>2
<1> QED
  BY Zenon, <1>0, <1>2, Rigid DEF DispatchedInv

(* The bus stamp comes after the full latency of the unit. *)
LEMMA AccountExecute ==
  ASSUME AInv, OInv', execute_To_CDB
  PROVE  AInv'
<1>0. /\ trace' = trace
      /\ UNCHANGED <<cycle, fetch_index, instr_queue, tom_dispatch_cycle, tom_issue_cycle,
                     tom_execute_cycle>>
      /\ stage = "execute_To_CDB" /\ stage' = "issue_To_execute"
  BY Zenon DEF execute_To_CDB
<1>t. IInv /\ StagesInv /\ tom_cdb_cycle \in [Index -> Nat]
  BY Zenon DEF AInv, OInv, IInv, TypeOK
<1>1. DispatchedInv'
  BY Zenon, <1>0, DispatchedKept
<1>2. StagesInv'
  <2>1. CASE tom_cdb_cycle' = tom_cdb_cycle
    BY Zenon, <1>0, <1>t, <2>1, Rigid DEF StagesInv, Issued
  <2>2. ASSUME NEW w \in Trace, WRITES_CDB(w), EXECUTION_DONE(w),
               tom_cdb_cycle' = [tom_cdb_cycle EXCEPT ![w] = cycle]
        PROVE  StagesInv'
    <3>1. PICK v \in Units : UsesUnit(w, v) /\ cycle >= tom_execute_cycle[w] + FU_LATENCY[v]
      BY Zenon, <2>2 DEF EXECUTION_DONE
    <3>2. \A u \in Units : UsesUnit(w, u) => cycle >= tom_execute_cycle[w] + FU_LATENCY[u]
      BY Zenon, <3>1, OneUnit
    <3>3. w \in Index /\ tom_cdb_cycle'[w] = cycle
          /\ \A i \in Index : i # w => tom_cdb_cycle'[i] = tom_cdb_cycle[i]
      BY Zenon, <1>t, <2>2, Positions
    <3> QED
      BY Zenon, <1>0, <1>t, <2>2, <3>2, <3>3, Rigid DEF StagesInv, Issued
  <2> QED
    BY Zenon, <1>t, <2>1, <2>2, ExecuteEffect
<1>3. DoneInv'
  BY Zenon, <1>0 DEF DoneInv
<1> QED
  BY Zenon, <1>1, <1>2, <1>3 DEF AInv

(* An instruction starts after the cycle in which it was issued. *)
LEMMA AccountIssue ==
  ASSUME AInv, OInv', issue_To_execute
  PROVE  AInv'
<1>0. /\ trace' = trace
      /\ UNCHANGED <<cycle, fetch_index, instr_queue, tom_dispatch_cycle, tom_issue_cycle,
                     tom_cdb_cycle>>
      /\ tom_execute_cycle' = [i \in Index |->
           IF i \in Starting THEN cycle ELSE tom_execute_cycle[i]]
      /\ stage = "issue_To_execute" /\ stage' = "dispatch_To_issue"
  BY Zenon DEF issue_To_execute
<1>t. IInv /\ StagesInv /\ StampInv /\ tom_issue_cycle \in [Index -> Nat] /\ cycle \in Nat
  BY Zenon DEF AInv, OInv, IInv, TypeOK
<1>1. DispatchedInv'
  BY Zenon, <1>0, DispatchedKept
<1>2. StagesInv'
  <2>1. ASSUME NEW i \in Starting
        PROVE  tom_issue_cycle[i] < cycle /\ tom_cdb_cycle[i] = 0
    <3>1. i \in Index /\ tom_execute_cycle[i] = 0 /\ cycle > tom_issue_cycle[i]
      BY Zenon, <1>t, StartingReady, Positions
    <3>2. tom_issue_cycle[i] < cycle
      BY Zenon, <1>t, <3>1
    <3> QED
      BY Zenon, <1>t, <3>1, <3>2 DEF StampInv
  <2>2. \A i \in Index : i \notin Starting => tom_execute_cycle'[i] = tom_execute_cycle[i]
    BY Zenon, <1>0
  <2>3. \A i \in Index : i \in Starting => tom_execute_cycle'[i] = cycle
    BY Zenon, <1>0
  <2> QED
    BY Zenon, <1>0, <1>t, <2>1, <2>2, <2>3, Rigid DEF StagesInv, Issued
<1>3. DoneInv'
  BY Zenon, <1>0 DEF DoneInv
<1> QED
  BY Zenon, <1>1, <1>2, <1>3 DEF AInv

(* An instruction is issued after the cycle in which it was dispatched. *)
LEMMA AccountDispatch ==
  ASSUME AInv, OInv', dispatch_To_issue
  PROVE  AInv'
<1>0. /\ trace' = trace
      /\ UNCHANGED <<cycle, fetch_index, fu, tom_dispatch_cycle, tom_execute_cycle, tom_cdb_cycle>>
      /\ stage = "dispatch_To_issue" /\ stage' = "fetch_To_dispatch"
  BY Zenon DEF dispatch_To_issue
<1>t. /\ IInv /\ StagesInv /\ StationInv /\ DispatchedInv
      /\ tom_issue_cycle \in [Index -> Nat] /\ cycle \in Nat
  BY Zenon DEF AInv, OInv, IInv, TypeOK
<1>3. DoneInv'
  BY Zenon, <1>0 DEF DoneInv
<1>4. ASSUME instr_queue # <<>>, NEW u \in Units, NEW h, h = Head(instr_queue), Reserve(h, u)
      PROVE  AInv'
  <2>1. /\ tom_issue_cycle' = [tom_issue_cycle EXCEPT ![h] = cycle]
        /\ instr_queue' = Tail(instr_queue) /\ Enters(h)
    BY Zenon, <1>4 DEF Reserve, Enters
  <2>2. h \in Trace /\ \A x \in Index : Issued(x) => x < h
    BY Zenon, <1>t, <1>4, <2>1, HeadIsNext
  <2>3. h \in Index /\ h \in Nat /\ ~(h < h)
    BY <2>2, Positions
  <2>4. tom_execute_cycle[h] = 0
    BY Zenon, <1>t, <2>2, <2>3 DEF StationInv
  <2>5. tom_dispatch_cycle[h] < cycle
    BY SMTT(40), <1>0, <1>t, <2>3 DEF DispatchedInv
  <2>6. /\ tom_issue_cycle'[h] = cycle
        /\ \A i \in Index : i # h => tom_issue_cycle'[i] = tom_issue_cycle[i]
    BY Zenon, <1>t, <2>1, <2>3
  <2>7. StagesInv'
    BY Zenon, <1>0, <1>t, <2>4, <2>5, <2>6, Rigid DEF StagesInv, Issued
  <2>8. DispatchedInv'
    BY Zenon, <1>0, <1>4, <2>1, DispatchedKept
  <2> QED
    BY Zenon, <1>3, <2>7, <2>8 DEF AInv
<1>5. CASE (instr_queue # <<>> /\ PopOnly(Head(instr_queue))) \/ Stall
  <2>1. /\ UNCHANGED tom_issue_cycle
        /\ \/ instr_queue' = instr_queue
           \/ instr_queue # <<>> /\ instr_queue' = Tail(instr_queue)
    BY Zenon, <1>5 DEF PopOnly, Stall
  <2>2. DispatchedInv'
    BY Zenon, <1>0, <2>1, DispatchedKept
  <2>3. StagesInv'
    BY Zenon, <1>0, <1>t, <2>1, Rigid DEF StagesInv, Issued
  <2> QED
    BY Zenon, <1>3, <2>2, <2>3 DEF AInv
<1> QED
  BY Zenon, <1>4, <1>5 DEF dispatch_To_issue

(* What is fetched comes after everything fetched before; when nothing is  *)
(* fetched the last instruction of the queue has its stamp already.        *)
LEMMA FetchEffect ==
  ASSUME AInv, fetch_To_dispatch
  PROVE  \/ UNCHANGED <<fetch_index, instr_queue, tom_dispatch_cycle>>
         \/ \E f \in Index :
              /\ fetch_index < f /\ fetch_index' = f /\ op(f) # "trap"
              /\ \A j \in Index : fetch_index < j /\ j < f => op(j) = "trap"
              /\ instr_queue' = Append(instr_queue, f)
              /\ tom_dispatch_cycle' = [tom_dispatch_cycle EXCEPT ![f] = cycle]
<1>0. tom_dispatch_cycle' = [i \in Index |->
        IF /\ instr_queue' # <<>>
           /\ i = instr_queue'[Len(instr_queue')]
           /\ tom_dispatch_cycle[i] = 0
        THEN cycle ELSE tom_dispatch_cycle[i]]
  BY Zenon DEF fetch_To_dispatch
<1>t. /\ DispatchedInv /\ QueueInv /\ instr_queue \in Seq(Index) /\ fetch_index \in Nat
      /\ tom_dispatch_cycle \in [Index -> Nat]
  BY SizesAssumption DEF AInv, OInv, IInv, TypeOK
<1>1. CASE UNCHANGED <<fetch_index, instr_queue>>
  <2>1. ASSUME instr_queue # <<>>, NEW i, i = instr_queue[Len(instr_queue)]
        PROVE  tom_dispatch_cycle[i] # 0
    <3>1. Len(instr_queue) \in 1 .. Len(instr_queue) /\ i \in Index
      BY <1>t, <2>1
    <3> QED
      BY ZenonT(40), <1>t, <2>1, <3>1 DEF DispatchedInv, QueueInv
  <2>2. tom_dispatch_cycle' = tom_dispatch_cycle
    BY Zenon, <1>0, <1>1, <1>t, <2>1
  <2> QED
    BY Zenon, <1>1, <2>2
<1>2. ASSUME NEW f \in Index, IsNext(f), fetch(f)
      PROVE  /\ fetch_index < f /\ fetch_index' = f /\ op(f) # "trap"
             /\ \A j \in Index : fetch_index < j /\ j < f => op(j) = "trap"
             /\ instr_queue' = Append(instr_queue, f)
             /\ tom_dispatch_cycle' = [tom_dispatch_cycle EXCEPT ![f] = cycle]
  <2>1. /\ fetch_index < f /\ fetch_index' = f /\ op(f) # "trap" /\ ~(f <= fetch_index)
        /\ instr_queue' = Append(instr_queue, f)
    BY <1>2, <1>t, Positions DEF IsNext, fetch
  <2>2. ASSUME NEW j \in Index, fetch_index < j, j < f PROVE op(j) = "trap"
    <3>1. j \in (fetch_index + 1) .. (f - 1)
      BY <1>t, <2>2, Positions
    <3> QED
      BY Zenon, <1>2, <3>1 DEF IsNext
  <2>3. instr_queue' # <<>> /\ instr_queue'[Len(instr_queue')] = f
    BY SMTT(40), <1>t, <2>1
  <2>4. tom_dispatch_cycle[f] = 0
    BY ZenonT(40), <1>t, <2>1 DEF DispatchedInv
  <2>5. tom_dispatch_cycle' = [tom_dispatch_cycle EXCEPT ![f] = cycle]
    BY Zenon, <1>0, <1>t, <2>3, <2>4
  <2> QED
    BY Zenon, <2>1, <2>2, <2>5
<1> QED
  BY Zenon, <1>1, <1>2 DEF fetch_To_dispatch

(* The dispatch stamp of a fetched instruction is later than all others.   *)
LEMMA AccountFetch ==
  ASSUME AInv, OInv', fetch_To_dispatch
  PROVE  AInv'
<1>0. /\ trace' = trace
      /\ UNCHANGED <<reserv, fu, tom_issue_cycle, tom_execute_cycle, tom_cdb_cycle>>
      /\ stage = "fetch_To_dispatch"
      /\ \/ is_simulation_done /\ stage' = "done" /\ cycle' = cycle
         \/ stage' = "CDB_To_retire" /\ cycle' = cycle + 1
  BY Zenon DEF fetch_To_dispatch
<1>t. /\ DispatchedInv /\ StagesInv /\ QueueInv
      /\ instr_queue \in Seq(Index) /\ fetch_index \in Nat /\ cycle \in Nat \ {0}
      /\ tom_dispatch_cycle \in [Index -> Nat] /\ tom_dispatch_cycle' \in [Index -> Nat]
  <2>1. 0 .. (sim_num_insn + 1) \subseteq Nat
    BY SMTT(40), SizesAssumption
  <2> QED
    BY Zenon, <2>1 DEF AInv, OInv, IInv, TypeOK
<1>c. \A t \in Nat : /\ t <= cycle => t <= cycle' /\ (stage' # "done" => t < cycle')
                     /\ t < cycle => t <= cycle
  BY <1>0, <1>t
<1>b. \A i \in Index : tom_dispatch_cycle[i] \in Nat /\ tom_dispatch_cycle[i] < cycle
  BY Zenon, <1>0, <1>t DEF DispatchedInv
<1>3. DoneInv'
  BY Zenon, <1>0 DEF DoneInv, is_simulation_done
<1>4. CASE UNCHANGED <<fetch_index, instr_queue, tom_dispatch_cycle>>
  <2>1. \A i \in Index : /\ tom_dispatch_cycle'[i] <= cycle'
                         /\ stage' # "done" => tom_dispatch_cycle'[i] < cycle'
    BY Zenon, <1>4, <1>b, <1>c
  <2>2. DispatchedInv'
    <3>1. \A i \in Index, k \in 1 .. Len(instr_queue') : instr_queue'[k] = i => op(i) # "trap"
      BY Zenon, <1>t, <1>4 DEF DispatchedInv
    <3>2. \A i \in Index : tom_dispatch_cycle'[i] # 0 <=> i <= fetch_index' /\ op(i) # "trap"
      BY Zenon, <1>t, <1>4 DEF DispatchedInv
    <3>3. \A i, j \in Index : j < i /\ tom_dispatch_cycle'[i] # 0
            => tom_dispatch_cycle'[j] < tom_dispatch_cycle'[i]
      BY Zenon, <1>t, <1>4 DEF DispatchedInv
    <3> QED
      BY ZenonT(40), <1>0, <2>1, <3>1, <3>2, <3>3, Rigid DEF DispatchedInv
  <2>3. StagesInv'
    BY Zenon, <1>0, <1>t, <1>4, Rigid DEF StagesInv, Issued
  <2> QED
    BY Zenon, <1>3, <2>2, <2>3 DEF AInv
<1>5. ASSUME NEW f \in Index,
             fetch_index < f, fetch_index' = f, op(f) # "trap",
             \A j \in Index : fetch_index < j /\ j < f => op(j) = "trap",
             instr_queue' = Append(instr_queue, f),
             tom_dispatch_cycle' = [tom_dispatch_cycle EXCEPT ![f] = cycle]
      PROVE  AInv'
  <2>1. \A i \in Index, k \in 1 .. Len(instr_queue') : instr_queue'[k] = i => op(i) # "trap"
    <3>2. ASSUME NEW k \in 1 .. Len(instr_queue')
          PROVE  instr_queue'[k] = f \/ \E l \in 1 .. Len(instr_queue) : instr_queue'[k] = instr_queue[l]
      <4>1. \/ k = Len(instr_queue) + 1 /\ instr_queue'[k] = f
            \/ k \in 1 .. Len(instr_queue) /\ instr_queue'[k] = instr_queue[k]
        BY <1>t, <1>5
      <4> QED
        BY Zenon, <4>1
    <3> QED
      BY ZenonT(40), <1>t, <1>5, <3>2 DEF DispatchedInv
  <2>2. /\ tom_dispatch_cycle'[f] = cycle /\ tom_dispatch_cycle[f] = 0
        /\ \A i \in Index : i # f => tom_dispatch_cycle'[i] = tom_dispatch_cycle[i]
    <3>1. ~(f <= fetch_index)
      BY <1>t, <1>5, Positions
    <3> QED
      BY Zenon, <1>t, <1>5, <3>1 DEF DispatchedInv
  <2>3. ASSUME NEW i \in Index
        PROVE  tom_dispatch_cycle'[i] # 0 <=> i <= fetch_index' /\ op(i) # "trap"
    <3>1. CASE i = f
      BY <1>5, <1>t, <2>2, <3>1, Positions
    <3>2. CASE i # f
      <4>1. i <= f /\ op(i) # "trap" <=> i <= fetch_index /\ op(i) # "trap"
        <5>1. i \in Nat /\ f \in Nat
          BY Zenon, Positions
        <5>2. i <= fetch_index \/ f <= i \/ op(i) = "trap"
          BY <1>t, <1>5, <5>1
        <5> QED
          BY <1>t, <1>5, <3>2, <5>1, <5>2
      <4> QED
        BY Zenon, <1>5, <1>t, <2>2, <3>2, <4>1 DEF DispatchedInv
    <3> QED
      BY Zenon, <3>1, <3>2
  <2>4. ASSUME NEW i \in Index
        PROVE  /\ tom_dispatch_cycle'[i] <= cycle'
               /\ stage' # "done" => tom_dispatch_cycle'[i] < cycle'
    <3>1. tom_dispatch_cycle'[i] \in Nat /\ tom_dispatch_cycle'[i] <= cycle
      <4>1. tom_dispatch_cycle'[i] \in Nat
        BY Zenon, <1>t
      <4>2. tom_dispatch_cycle'[i] = cycle \/ tom_dispatch_cycle'[i] < cycle
        BY ZenonT(40), <1>b, <2>2
      <4> QED
        BY <1>t, <4>1, <4>2
    <3> QED
      BY Zenon, <1>c, <3>1
  <2>5. ASSUME NEW i \in Index, NEW j \in Index, j < i, tom_dispatch_cycle'[i] # 0
        PROVE  tom_dispatch_cycle'[j] < tom_dispatch_cycle'[i]
    <3>1. i <= f
      BY Zenon, <1>5, <2>3, <2>5
    <3>2. j # f
      BY <2>5, <3>1, Positions
    <3>3. CASE i = f
      BY Zenon, <1>b, <2>2, <3>2, <3>3
    <3>4. CASE i # f
      BY Zenon, <1>t, <2>2, <2>5, <3>2, <3>4 DEF DispatchedInv
    <3> QED
      BY Zenon, <3>3, <3>4
  <2>6. DispatchedInv'
    BY Zenon, <1>0, <2>1, <2>3, <2>4, <2>5, Rigid DEF DispatchedInv
  <2>7. ~Issued(f)
    BY <1>t, <1>5, Positions DEF QueueInv
  <2>8. StagesInv'
    BY Zenon, <1>0, <1>t, <2>2, <2>7, Rigid DEF StagesInv, Issued
  <2> QED
    BY Zenon, <1>3, <2>6, <2>8 DEF AInv
<1> QED
  BY Zenon, <1>4, <1>5, FetchEffect

(* Every call of runTomasulo preserves the invariant on the stamps. *)
LEMMA AccountStep == AInv /\ [Next]_vars => AInv'
<1> SUFFICES ASSUME AInv, [Next]_vars PROVE AInv'
  BY Zenon
<1>0. OInv' /\ DispatchedInv /\ StagesInv /\ DoneInv
  BY Zenon, OrderStep DEF AInv
<1>1. CASE CDB_To_retire
  <2>1. /\ trace' = trace
        /\ UNCHANGED <<cycle, fetch_index, instr_queue, tom_dispatch_cycle, tom_issue_cycle,
                       tom_execute_cycle, tom_cdb_cycle>>
        /\ stage = "CDB_To_retire" /\ stage' = "execute_To_CDB"
    BY Zenon, <1>1 DEF CDB_To_retire, stamps
  <2>2. DispatchedInv' /\ DoneInv'
    BY Zenon, <2>1, DispatchedKept DEF DoneInv
  <2>3. StagesInv'
    BY Zenon, <1>0, <2>1, Rigid DEF StagesInv, Issued
  <2> QED
    BY Zenon, <1>0, <2>2, <2>3 DEF AInv
<1>2. CASE execute_To_CDB
  BY Zenon, <1>0, <1>2, AccountExecute
<1>3. CASE issue_To_execute
  BY Zenon, <1>0, <1>3, AccountIssue
<1>4. CASE dispatch_To_issue
  BY Zenon, <1>0, <1>4, AccountDispatch
<1>5. CASE fetch_To_dispatch
  BY Zenon, <1>0, <1>5, AccountFetch
<1>6. CASE UNCHANGED vars
  <2>1. /\ trace' = trace /\ stage' = stage
        /\ UNCHANGED <<cycle, fetch_index, instr_queue, reserv, fu, tom_dispatch_cycle,
                       tom_issue_cycle, tom_execute_cycle, tom_cdb_cycle>>
    BY Zenon, <1>6 DEF vars, stamps
  <2>2. DoneInv'
    BY Zenon, <1>0, <2>1 DEF DoneInv
  <2>3. StagesInv'
    BY Zenon, <1>0, <2>1, Rigid DEF StagesInv, Issued
  <2>4. DispatchedInv'
    BY ZenonT(40), <1>0, <2>1, Rigid DEF DispatchedInv
  <2> QED
    BY Zenon, <1>0, <2>2, <2>3, <2>4 DEF AInv
<1> QED
  BY Zenon, <1>1, <1>2, <1>3, <1>4, <1>5, <1>6 DEF Next, runTomasulo, Returned

(* When the machine is empty, every stage an instruction goes through has  *)
(* stamped it.                                                             *)
LEMMA AccountHolds == AInv => AllAccountedFor
<1> SUFFICES ASSUME AInv, stage = "done", NEW i \in Trace
             PROVE  /\ (tom_dispatch_cycle[i] # 0) = (op(i) # "trap")
                    /\ \A j \in Trace : j < i /\ op(i) # "trap"
                         => tom_dispatch_cycle[j] < tom_dispatch_cycle[i]
                    /\ IF Enters(i)
                         THEN /\ tom_dispatch_cycle[i] < tom_issue_cycle[i]
                              /\ tom_issue_cycle[i] < tom_execute_cycle[i]
                         ELSE tom_issue_cycle[i] = 0 /\ tom_execute_cycle[i] = 0
                    /\ IF WRITES_CDB(i)
                         THEN \A u \in Units : UsesUnit(i, u) =>
                                tom_cdb_cycle[i] >= tom_execute_cycle[i] + FU_LATENCY[u]
                         ELSE tom_cdb_cycle[i] = 0
  BY Zenon DEF AllAccountedFor
<1>0. /\ DispatchedInv /\ StagesInv /\ StationInv /\ QueueInv /\ StampInv
      /\ fetch_index > sim_num_insn /\ instr_queue = <<>> /\ reserv = {} /\ fu = {}
      /\ fetch_index \in Nat /\ i \in Index
  BY Positions, SizesAssumption DEF AInv, OInv, IInv, TypeOK, DoneInv
<1>1. i <= fetch_index
  BY <1>0, SizesAssumption DEF Trace
<1>2. tom_dispatch_cycle[i] # 0 <=> op(i) # "trap"
  BY Zenon, <1>0, <1>1 DEF DispatchedInv
<1>3. ASSUME NEW j \in Trace, j < i, op(i) # "trap"
      PROVE  tom_dispatch_cycle[j] < tom_dispatch_cycle[i]
  BY ZenonT(40), <1>0, <1>2, <1>3, Positions DEF DispatchedInv
<1>4. ASSUME Enters(i)
      PROVE  /\ tom_dispatch_cycle[i] < tom_issue_cycle[i]
             /\ tom_issue_cycle[i] < tom_execute_cycle[i]
             /\ tom_execute_cycle[i] # 0
  <2>1. ~\E k \in 1 .. Len(instr_queue) : instr_queue[k] = i
    BY <1>0
  <2>2. Issued(i)
    BY Zenon, <1>0, <1>1, <1>4, <2>1 DEF QueueInv
  <2>3. tom_execute_cycle[i] # 0
    BY Zenon, <1>0, <2>2 DEF StationInv
  <2> QED
    BY Zenon, <1>0, <2>2, <2>3 DEF StagesInv
<1>5. ASSUME ~Enters(i) PROVE tom_issue_cycle[i] = 0 /\ tom_execute_cycle[i] = 0
  <2>1. ~Issued(i)
    BY Zenon, <1>0, <1>5 DEF QueueInv
  <2> QED
    BY Zenon, <1>0, <2>1 DEF StationInv, Issued
<1>6. ASSUME WRITES_CDB(i), NEW u \in Units, UsesUnit(i, u)
      PROVE  tom_cdb_cycle[i] >= tom_execute_cycle[i] + FU_LATENCY[u]
  <2>1. Enters(i)
    BY Zenon, <1>6 DEF Enters
  <2>2. tom_cdb_cycle[i] # 0
    BY Zenon, <1>0, <1>4, <1>6, <2>1 DEF StampInv
  <2> QED
    BY Zenon, <1>0, <1>6, <2>2 DEF StagesInv
<1>7. ~WRITES_CDB(i) => tom_cdb_cycle[i] = 0
  BY Zenon, <1>0 DEF StagesInv
<1>8. (tom_dispatch_cycle[i] # 0) = (op(i) # "trap")
  BY Zenon, <1>2
<1> QED
  BY Zenon, <1>3, <1>4, <1>5, <1>6, <1>7, <1>8

(* When runTomasulo returns, for any trace and any machine, every          *)
(* instruction went through exactly the stages it needs, in order and with *)
(* its full latency.                                                       *)
THEOREM Accounted == Spec => []AllAccountedFor
<1>1. Init => AInv
  BY Zenon, AccountInit
<1>2. AInv /\ [Next]_vars => AInv'
  BY Zenon, AccountStep
<1>3. AInv => AllAccountedFor
  BY Zenon, AccountHolds
<1> QED
  BY <1>1, <1>2, <1>3, PTL DEF Spec

-----------------------------------------------------------------------------
(* A set of naturals that is not empty has a least member. *)
LEMMA LeastMember ==
  ASSUME NEW T, T \subseteq Nat, T # {}
  PROVE  \E m \in T : \A k \in T : m <= k
<1>1. PICK m \in T : \A k \in T : ~(<<k, m>> \in OpToRel(<, Nat))
  BY Zenon, WFMin, NatLessThanWellFounded
<1>2. \A k \in T : ~(k < m)
  BY Zenon, <1>1 DEF OpToRel
<1> QED
  BY <1>2

(* Sets of positions are finite. *)
LEMMA FinitePositions ==
  ASSUME NEW S, S \subseteq Index
  PROVE  IsFiniteSet(S) /\ Cardinality(S) \in Nat
<1>1. IsFiniteSet(Index)
  BY SizesAssumption, FS_Interval DEF Index
<1>2. IsFiniteSet(S)
  BY Zenon, <1>1, FS_Subset
<1> QED
  BY Zenon, <1>2, FS_CardinalityType

(* A smaller set of positions has no more members. *)
LEMMA SmallerCount ==
  ASSUME NEW S, S \subseteq Index, NEW T, T \subseteq S, NEW n \in Nat, Cardinality(S) <= n
  PROVE  Cardinality(T) <= n
<1>1. Cardinality(S) \in Nat /\ IsFiniteSet(S)
  BY Zenon, FinitePositions
<1>2. T \subseteq Index
  BY Zenon
<1>3. Cardinality(T) \in Nat
  BY Zenon, <1>2, FinitePositions
<1>4. Cardinality(T) <= Cardinality(S)
  BY Zenon, <1>1, FS_Subset
<1> QED
  BY <1>1, <1>3, <1>4

(* Two sets of positions together have no more members than their sum. *)
LEMMA UnionCount ==
  ASSUME NEW S, S \subseteq Index, NEW T, T \subseteq Index,
         NEW m \in Nat, NEW n \in Nat, Cardinality(S) <= m, Cardinality(T) <= n
  PROVE  Cardinality(S \cup T) <= m + n
<1>1. /\ Cardinality(S) \in Nat /\ IsFiniteSet(S)
      /\ Cardinality(T) \in Nat /\ IsFiniteSet(T)
  BY Zenon, FinitePositions
<1>2. S \cap T \subseteq Index
  BY Zenon
<1>3. Cardinality(S \cap T) \in Nat
  BY Zenon, <1>2, FinitePositions
<1>4. Cardinality(S \cup T) = Cardinality(S) + Cardinality(T) - Cardinality(S \cap T)
  BY Zenon, <1>1, FS_Union
<1> QED
  BY <1>1, <1>3, <1>4

(* Oldest(S, n) has at most n members: all but its last come before that.  *)
LEMMA OldestCount ==
  ASSUME NEW S, S \subseteq Index, NEW n \in Nat
  PROVE  Cardinality(Oldest(S, n)) <= n
<1> DEFINE N == sim_num_insn + 1
           O == Oldest(S, n)
           T == {N - i : i \in O}
<1>1. CASE O = {}
  <2>1. Cardinality(O) = 0
    BY Zenon, <1>1, FS_EmptySet
  <2> QED
    BY <2>1
<1>2. CASE O # {}
  <2>1. O \subseteq S
    BY Zenon DEF Oldest
  <2>2. \A i \in O : i \in Nat /\ N - i \in Nat
    <3>1. \A i \in Index : i \in Nat /\ N - i \in Nat
      BY SMTT(40), SizesAssumption DEF Index
    <3> QED
      BY Zenon, <2>1, <3>1
  <2>3. T \subseteq Nat /\ T # {}
    BY Zenon, <1>2, <2>2
  <2>4. PICK t \in T : \A k \in T : t <= k
    BY Zenon, <2>3, LeastMember
  <2>5. PICK m \in O : t = N - m
    BY Zenon
  <2>6. ASSUME NEW j \in O PROVE j <= m
    <3>1. N - m <= N - j
      BY Zenon, <2>4, <2>5
    <3> QED
      BY <2>2, <3>1, SizesAssumption
  <2> DEFINE B == {j \in S : j < m}
  <2>7. O \subseteq B \cup {m}
    <3>1. \A j \in O : j = m \/ j < m
      BY <2>2, <2>6
    <3> QED
      BY Zenon, <2>1, <3>1
  <2>8. Cardinality(B) < n /\ B \subseteq Index /\ B \cup {m} \subseteq Index
    BY Zenon, <2>1 DEF Oldest
  <2> HIDE DEF B, O
  <2>9. IsFiniteSet(B) /\ Cardinality(B) \in Nat
    BY Zenon, <2>8, FinitePositions
  <2>10. Cardinality(B \cup {m}) \in {Cardinality(B), Cardinality(B) + 1}
    BY Zenon, <2>9, FS_AddElement
  <2>11. Cardinality(B \cup {m}) <= n
    BY <2>8, <2>9, <2>10
  <2>12. Cardinality(O) <= n
    BY Zenon, <2>7, <2>8, <2>11, SmallerCount
  <2> QED
    BY Zenon, <2>12 DEF O
<1> QED
  BY Zenon, <1>1, <1>2

(* A call that only takes instructions out of queue, stations and units    *)
(* keeps within the limits.                                                *)
LEMMA OccupancyShrinks ==
  ASSUME IInv, Occupancy, trace' = trace, reserv' \subseteq reserv, fu' \subseteq fu,
         fu' \subseteq reserv', Len(instr_queue') <= INSTR_QUEUE_SIZE
  PROVE  Occupancy'
<1>1. reserv \subseteq Index /\ fu \subseteq Index
  BY Zenon DEF IInv, TypeOK
<1>2. ASSUME NEW u \in Units
      PROVE  /\ Cardinality({i \in reserv' : UsesUnit(i, u)}) <= RESERV_SIZE[u]
             /\ Cardinality({i \in fu' : UsesUnit(i, u)}) <= FU_SIZE[u]
  <2>1. /\ {i \in reserv : UsesUnit(i, u)} \subseteq Index
        /\ {i \in fu : UsesUnit(i, u)} \subseteq Index
        /\ {i \in reserv' : UsesUnit(i, u)} \subseteq {i \in reserv : UsesUnit(i, u)}
        /\ {i \in fu' : UsesUnit(i, u)} \subseteq {i \in fu : UsesUnit(i, u)}
    BY Zenon, <1>1
  <2>2. RESERV_SIZE[u] \in Nat /\ FU_SIZE[u] \in Nat
    BY Zenon, SizesAssumption
  <2> QED
    BY Zenon, <2>1, <2>2, SmallerCount DEF Occupancy
<1>3. ASSUME NEW u \in Units
      PROVE  /\ {i \in reserv' : UsesUnit(i, u)'} = {i \in reserv' : UsesUnit(i, u)}
             /\ {i \in fu' : UsesUnit(i, u)'} = {i \in fu' : UsesUnit(i, u)}
  BY Zenon, <1>1, Rigid
<1> QED
  BY Zenon, <1>2, <1>3 DEF Occupancy

(* A unit only takes as many instructions as it has free places. *)
LEMMA OccupancyIssue ==
  ASSUME IInv, Occupancy, issue_To_execute
  PROVE  Occupancy'
<1>0. /\ trace' = trace /\ UNCHANGED <<instr_queue, reserv>> /\ fu' = fu \cup Starting
  BY Zenon DEF issue_To_execute
<1>1. reserv \subseteq Index /\ fu \subseteq Index
  BY Zenon DEF IInv, TypeOK
<1>2. \A i \in Starting : i \in reserv /\ i \in Index
  BY Zenon, <1>1, StartingReady
<1>3. fu' \subseteq reserv'
  BY Zenon, <1>0, <1>2 DEF Occupancy
<1>4. ASSUME NEW u \in Units
      PROVE  Cardinality({i \in fu' : UsesUnit(i, u)}) <= FU_SIZE[u]
  <2> DEFINE Busy == {i \in fu : UsesUnit(i, u)}
             New  == Oldest(Issueable(u), Free(u))
  <2>1. Busy \subseteq Index /\ Issueable(u) \subseteq Index /\ New \subseteq Index
    BY Zenon, <1>1 DEF Issueable, Oldest
  <2>2. Cardinality(Busy) \in Nat /\ Cardinality(Busy) <= FU_SIZE[u] /\ FU_SIZE[u] \in Nat
    BY Zenon, <2>1, FinitePositions, SizesAssumption DEF Occupancy
  <2>3. Free(u) \in Nat /\ Cardinality(Busy) + Free(u) = FU_SIZE[u]
    BY <2>2 DEF Free
  <2>4. Cardinality(New) <= Free(u)
    BY Zenon, <2>1, <2>3, OldestCount
  <2>5. Cardinality(Busy) <= Cardinality(Busy)
    BY <2>2
  <2>6. {i \in fu' : UsesUnit(i, u)} \subseteq Busy \cup New
    <3>1. ASSUME NEW i \in Starting, UsesUnit(i, u) PROVE i \in New
      <4>1. PICK v \in Units : UsesUnit(i, v) /\ i \in Oldest(Issueable(v), Free(v))
        BY Zenon, StartingReady
      <4> QED
        BY Zenon, <3>1, <4>1, OneUnit
    <3> QED
      BY Zenon, <1>0, <3>1
  <2> HIDE DEF Busy, New
  <2>7. Cardinality(Busy \cup New) <= Cardinality(Busy) + Free(u)
    BY Zenon, <2>1, <2>2, <2>3, <2>4, <2>5, UnionCount
  <2>8. Cardinality(Busy \cup New) <= FU_SIZE[u] /\ Busy \cup New \subseteq Index
    BY Zenon, <2>1, <2>3, <2>7
  <2> QED
    BY Zenon, <2>2, <2>6, <2>8, SmallerCount
<1>5. ASSUME NEW u \in Units
      PROVE  /\ {i \in reserv' : UsesUnit(i, u)'} = {i \in reserv : UsesUnit(i, u)}
             /\ {i \in fu' : UsesUnit(i, u)'} = {i \in fu' : UsesUnit(i, u)}
  BY Zenon, <1>0, <1>1, <1>2, Rigid
<1> QED
  BY Zenon, <1>0, <1>3, <1>4, <1>5 DEF Occupancy

(* An instruction is issued only to a station that is free. *)
LEMMA OccupancyDispatch ==
  ASSUME IInv, Occupancy, dispatch_To_issue
  PROVE  Occupancy'
<1>0. trace' = trace /\ UNCHANGED fu
  BY Zenon DEF dispatch_To_issue
<1>1. /\ reserv \subseteq Index /\ fu \subseteq Index /\ instr_queue \in Seq(Index)
      /\ INSTR_QUEUE_SIZE \in Nat
  BY Zenon, SizesAssumption DEF IInv, TypeOK
<1>q. \/ instr_queue' = instr_queue
      \/ instr_queue # <<>> /\ instr_queue' = Tail(instr_queue)
  BY Zenon DEF dispatch_To_issue, Reserve, PopOnly, Stall
<1>l. Len(instr_queue') <= INSTR_QUEUE_SIZE
  <2>1. Len(instr_queue) <= INSTR_QUEUE_SIZE
    BY Zenon DEF Occupancy
  <2>2. Len(instr_queue) \in Nat /\ Len(instr_queue') \in {Len(instr_queue), Len(instr_queue) - 1}
    BY <1>1, <1>q
  <2> QED
    BY <1>1, <2>1, <2>2
<1>2. CASE reserv' = reserv
  BY Zenon, <1>0, <1>l, <1>2, OccupancyShrinks DEF Occupancy
<1>3. ASSUME instr_queue # <<>>, NEW u \in Units, NEW h, h = Head(instr_queue), Reserve(h, u)
      PROVE  Occupancy'
  <2> DEFINE Held(v) == {i \in reserv : UsesUnit(i, v)}
  <2>1. /\ reserv' = reserv \cup {h} /\ UsesUnit(h, u) /\ Cardinality(Held(u)) < RESERV_SIZE[u]
    BY Zenon, <1>3 DEF Reserve
  <2>2. h \in Index
    BY <1>1, <1>3
  <2>3. ASSUME NEW v \in Units
        PROVE  /\ Cardinality({i \in reserv' : UsesUnit(i, v)}) <= RESERV_SIZE[v]
    <3>0. Held(v) \subseteq Index /\ RESERV_SIZE[v] \in Nat
      BY Zenon, <1>1, SizesAssumption
    <3>1. CASE v = u
      <4>1. {i \in reserv' : UsesUnit(i, v)} = Held(v) \cup {h}
        BY Zenon, <2>1, <3>1
      <4>2. IsFiniteSet(Held(v)) /\ Cardinality(Held(v)) \in Nat
        BY Zenon, <3>0, FinitePositions
      <4>3. Cardinality(Held(v)) < RESERV_SIZE[v]
        BY Zenon, <2>1, <3>1
      <4> HIDE DEF Held
      <4>4. Cardinality(Held(v) \cup {h}) \in {Cardinality(Held(v)), Cardinality(Held(v)) + 1}
        BY Zenon, <4>2, FS_AddElement
      <4>5. Cardinality(Held(v) \cup {h}) <= RESERV_SIZE[v]
        BY <3>0, <4>2, <4>3, <4>4
      <4> QED
        BY Zenon, <4>1, <4>5
    <3>2. CASE v # u
      <4>1. {i \in reserv' : UsesUnit(i, v)} = Held(v)
        BY Zenon, <2>1, <3>2, OneUnit
      <4> QED
        BY Zenon, <4>1 DEF Occupancy
    <3> QED
      BY Zenon, <3>1, <3>2
  <2>4. ASSUME NEW v \in Units
        PROVE  /\ {i \in reserv' : UsesUnit(i, v)'} = {i \in reserv' : UsesUnit(i, v)}
               /\ {i \in fu' : UsesUnit(i, v)'} = {i \in fu : UsesUnit(i, v)}
    BY Zenon, <1>0, <1>1, <2>1, <2>2, Rigid
  <2>5. fu' \subseteq reserv'
    BY Zenon, <1>0, <2>1 DEF Occupancy
  <2> QED
    BY Zenon, <1>l, <2>3, <2>4, <2>5 DEF Occupancy
<1> QED
  BY Zenon, <1>2, <1>3 DEF dispatch_To_issue, PopOnly, Stall

(* fetch only appends to a queue that is not full. *)
LEMMA OccupancyFetch ==
  ASSUME IInv, Occupancy, fetch_To_dispatch
  PROVE  Occupancy'
<1>0. trace' = trace /\ UNCHANGED <<reserv, fu>>
  BY Zenon DEF fetch_To_dispatch
<1>1. CASE UNCHANGED instr_queue
  BY Zenon, <1>0, <1>1, OccupancyShrinks DEF Occupancy
<1>2. ASSUME NEW i \in Index, WillFetch, fetch(i) PROVE Occupancy'
  <2>1. /\ Len(instr_queue) < INSTR_QUEUE_SIZE /\ instr_queue' = Append(instr_queue, i)
        /\ instr_queue \in Seq(Index) /\ INSTR_QUEUE_SIZE \in Nat
    BY Zenon, <1>2, SizesAssumption DEF WillFetch, fetch, IInv, TypeOK
  <2>2. Len(instr_queue') <= INSTR_QUEUE_SIZE
    BY <2>1
  <2> QED
    BY Zenon, <1>0, <2>2, OccupancyShrinks DEF Occupancy
<1> QED
  BY Zenon, <1>1, <1>2 DEF fetch_To_dispatch

(* Every call of runTomasulo keeps within the structural limits. *)
LEMMA OccupancyStep == IInv /\ Occupancy /\ [Next]_vars => Occupancy'
<1> SUFFICES ASSUME IInv, Occupancy, [Next]_vars PROVE Occupancy'
  BY Zenon
<1>1. CASE CDB_To_retire
  BY Zenon, <1>1, OccupancyShrinks DEF CDB_To_retire, Occupancy
<1>2. CASE execute_To_CDB
  <2>1. /\ trace' = trace /\ UNCHANGED instr_queue
        /\ \E leaving : reserv' = reserv \ leaving /\ fu' = fu \ leaving
    BY Zenon, <1>2 DEF execute_To_CDB
  <2>2. reserv' \subseteq reserv /\ fu' \subseteq fu /\ fu' \subseteq reserv'
    BY Zenon, <2>1 DEF Occupancy
  <2> QED
    BY Zenon, <2>1, <2>2, OccupancyShrinks DEF Occupancy
<1>3. CASE UNCHANGED vars
  BY Zenon, <1>3, OccupancyShrinks DEF vars, Occupancy
<1> QED
  BY Zenon, <1>1, <1>2, <1>3, OccupancyIssue, OccupancyDispatch, OccupancyFetch
  DEF Next, runTomasulo, Returned

(* The machine starts empty. *)
LEMMA OccupancyInit == Init => Occupancy
<1> SUFFICES ASSUME Init PROVE Occupancy
  BY Zenon
<1>1. reserv = {} /\ fu = {} /\ instr_queue = <<>>
  BY Zenon DEF Init
<1>2. ASSUME NEW u \in Units
      PROVE  /\ Cardinality({i \in reserv : UsesUnit(i, u)}) <= RESERV_SIZE[u]
             /\ Cardinality({i \in fu : UsesUnit(i, u)}) <= FU_SIZE[u]
  <2>1. {i \in reserv : UsesUnit(i, u)} = {} /\ {i \in fu : UsesUnit(i, u)} = {}
    BY Zenon, <1>1
  <2>2. RESERV_SIZE[u] \in Nat /\ FU_SIZE[u] \in Nat
    BY Zenon, SizesAssumption
  <2>3. 0 <= RESERV_SIZE[u] /\ 0 <= FU_SIZE[u]
    BY <2>2
  <2> QED
    BY Zenon, <2>1, <2>3, FS_EmptySet
<1>3. fu \subseteq reserv /\ Len(instr_queue) <= INSTR_QUEUE_SIZE
  BY <1>1, SizesAssumption
<1> QED
  BY Zenon, <1>2, <1>3 DEF Occupancy

(* For any trace and any machine, queue, stations and units never hold     *)
(* more than fits, and what executes occupies its station.                 *)
THEOREM WithinSizes == Spec => []Occupancy
<1>1. Init => Occupancy
  BY Zenon, OccupancyInit
<1>2. IInv /\ Occupancy /\ [Next]_vars => Occupancy'
  BY Zenon, OccupancyStep
<1> QED
  BY <1>1, <1>2, Invariant, PTL DEF Spec

-----------------------------------------------------------------------------
(* The cycles that SerialTime counts, as a set of pairs: one for an        *)
(* instruction without a unit, and for one with a unit its latency and one *)
(* more.                                                                   *)
Work ==
  (({i \in Trace : UsesUnit(i, "INT")} \X (1 .. (FU_LATENCY["INT"] + 1)))
     \cup ({i \in Trace : UsesUnit(i, "FP")} \X (1 .. (FU_LATENCY["FP"] + 1))))
    \cup ({i \in Trace : ~Enters(i)} \X {1})

(* The cycles in which execution has gone on. *)
Elapsed ==
  IF stage \in {"dispatch_To_issue", "fetch_To_dispatch", "done"} THEN cycle ELSE cycle - 1

(* Which of them the machine has behind it: an instruction without a unit  *)
(* has left the queue; one with a unit has executed for k cycles, or has   *)
(* left its unit.                                                          *)
Behind(i, k) ==
  \/ /\ ~Enters(i) /\ i <= fetch_index
     /\ \A q \in 1 .. Len(instr_queue) : instr_queue[q] # i
  \/ \E u \in Units :
       /\ UsesUnit(i, u) /\ tom_execute_cycle[i] # 0
       /\ IF k <= FU_LATENCY[u] THEN tom_execute_cycle[i] + k <= Elapsed + 1 ELSE i \notin fu

Served == {x \in Work : Behind(x[1], x[2])}

(* The cycle exceeds the number of served cycles by at most k. *)
Within(k) == cycle <= Cardinality(Served) + k

AllIn == fetch_index > sim_num_insn /\ instr_queue = <<>>

(* Where instructions are in the course of a cycle. *)
TimeInv ==
  /\ \A i \in Index :
       /\ i \in reserv /\ tom_execute_cycle[i] # 0 => i \in fu
       /\ tom_issue_cycle[i] <= cycle
       /\ stage \in {"CDB_To_retire", "execute_To_CDB", "issue_To_execute"}
            => tom_issue_cycle[i] < cycle /\ tom_execute_cycle[i] < cycle
  /\ stage = "execute_To_CDB" => commonDataBus = NULL
  /\ stage # "fetch_To_dispatch" /\ instr_queue = <<>> /\ fetch_index <= sim_num_insn
       => cycle = 1

(* How far the machine may be behind at each point of a cycle. *)
PaceInv ==
  /\ stage \in {"CDB_To_retire", "execute_To_CDB"} =>
       /\ Within(3)
       /\ reserv = {} /\ ~AllIn => Within(2)
  /\ stage = "issue_To_execute" =>
       \/ Within(2)
       \/ /\ Within(3) /\ commonDataBus = NULL
          /\ \/ reserv = {} /\ AllIn
             \/ reserv # {} /\ fu = {}
             \/ \E i \in fu : ~EXECUTION_DONE(i)
  /\ stage = "dispatch_To_issue" =>
       \/ Within(2)
       \/ Within(3) /\ commonDataBus = NULL /\ reserv = {} /\ AllIn
  /\ stage = "fetch_To_dispatch" =>
       \/ Within(1)
       \/ Within(2) /\ (reserv # {} \/ AllIn)
       \/ Within(3) /\ commonDataBus = NULL /\ reserv = {} /\ AllIn
  /\ stage = "done" => Within(3)

PInv == OInv /\ Occupancy /\ TimeInv /\ PaceInv


-----------------------------------------------------------------------------
(* The members of Work. *)
LEMMA WorkMembers ==
  /\ \A i \in Trace, u \in Units : \A k \in 1 .. (FU_LATENCY[u] + 1) :
       UsesUnit(i, u) => <<i, k>> \in Work
  /\ \A i \in Trace : ~Enters(i) => <<i, 1>> \in Work
  /\ \A x \in Work :
       \/ \E i \in Trace : x = <<i, 1>> /\ ~Enters(i)
       \/ \E i \in Trace, u \in Units : \E k \in 1 .. (FU_LATENCY[u] + 1) :
            x = <<i, k>> /\ UsesUnit(i, u)
<1>1. ASSUME NEW i \in Trace, NEW u \in Units, NEW k \in 1 .. (FU_LATENCY[u] + 1), UsesUnit(i, u)
      PROVE  <<i, k>> \in Work
  BY Zenon, <1>1 DEF Work, Units
<1>2. ASSUME NEW i \in Trace, ~Enters(i) PROVE <<i, 1>> \in Work
  BY Zenon, <1>2 DEF Work
<1>3. ASSUME NEW x \in Work
      PROVE  \/ \E i \in Trace : x = <<i, 1>> /\ ~Enters(i)
             \/ \E i \in Trace, u \in Units : \E k \in 1 .. (FU_LATENCY[u] + 1) :
                  x = <<i, k>> /\ UsesUnit(i, u)
  <2>1. CASE x \in {i \in Trace : ~Enters(i)} \X {1}
    <3>1. x = <<x[1], 1>> /\ x[1] \in Trace /\ ~Enters(x[1])
      BY <2>1
    <3> QED
      BY Zenon, <3>1
  <2>2. ASSUME NEW u \in Units,
               x \in {j \in Trace : UsesUnit(j, u)} \X (1 .. (FU_LATENCY[u] + 1))
        PROVE  \E i \in Trace, v \in Units : \E k \in 1 .. (FU_LATENCY[v] + 1) :
                  x = <<i, k>> /\ UsesUnit(i, v)
    <3>1. /\ x = <<x[1], x[2]>> /\ x[1] \in Trace /\ UsesUnit(x[1], u)
          /\ x[2] \in 1 .. (FU_LATENCY[u] + 1)
      BY <2>2
    <3> QED
      BY Zenon, <3>1
  <2>3. \/ x \in {i \in Trace : ~Enters(i)} \X {1}
        \/ \E u \in Units : x \in {j \in Trace : UsesUnit(j, u)} \X (1 .. (FU_LATENCY[u] + 1))
    BY Zenon DEF Work, Units
  <2> QED
    BY Zenon, <2>1, <2>2, <2>3
<1> QED
  BY Zenon, <1>1, <1>2, <1>3

(* Sets of trace positions are finite. *)
LEMMA FiniteTrace ==
  ASSUME NEW S, S \subseteq Trace
  PROVE  IsFiniteSet(S) /\ Cardinality(S) \in Nat
<1>1. S \subseteq Index
  BY Zenon, Positions
<1> QED
  BY Zenon, <1>1, FinitePositions

(* Work has as many members as SerialTime counts cycles. *)
LEMMA WorkCount ==
  IsFiniteSet(Work) /\ Cardinality(Work) \in Nat /\ Cardinality(Work) + 3 = SerialTime
<1> DEFINE None == {i \in Trace : ~Enters(i)}
           UI == {i \in Trace : UsesUnit(i, "INT")}
           UF == {i \in Trace : UsesUnit(i, "FP")}
           li == FU_LATENCY["INT"] + 1
           lf == FU_LATENCY["FP"] + 1
           A == UI \X (1 .. li)
           B == UF \X (1 .. lf)
           C == None \X {1}
<1>0. li \in Nat /\ lf \in Nat /\ li >= 1 /\ lf >= 1
  BY SizesAssumption DEF Units
<1>1. Work = (A \cup B) \cup C
  BY ZenonT(40) DEF Work
<1>2. /\ IsFiniteSet(UI) /\ Cardinality(UI) \in Nat
      /\ IsFiniteSet(UF) /\ Cardinality(UF) \in Nat
      /\ IsFiniteSet(None) /\ Cardinality(None) \in Nat
  BY Zenon, FiniteTrace
<1>3. A \cap B = {} /\ (A \cup B) \cap C = {}
  <2>1. UI \cap UF = {} /\ UI \cap None = {} /\ UF \cap None = {}
    BY Zenon DEF UsesUnit, USES_INT_FU, USES_FP_FU, Enters, Units
  <2> HIDE DEF UI, UF, None
  <2> QED
    BY Zenon, <2>1
<1> HIDE DEF UI, UF, None, li, lf
<1>4. /\ IsFiniteSet(1 .. li) /\ Cardinality(1 .. li) = li
      /\ IsFiniteSet(1 .. lf) /\ Cardinality(1 .. lf) = lf
      /\ IsFiniteSet({1}) /\ Cardinality({1}) = 1
  <2>1. /\ IsFiniteSet(1 .. li) /\ Cardinality(1 .. li) = li
    BY <1>0, FS_Interval
  <2>2. /\ IsFiniteSet(1 .. lf) /\ Cardinality(1 .. lf) = lf
    BY <1>0, FS_Interval
  <2> QED
    BY Zenon, <2>1, <2>2, FS_Singleton
<1>5. /\ IsFiniteSet(A) /\ Cardinality(A) = Cardinality(UI) * li
      /\ IsFiniteSet(B) /\ Cardinality(B) = Cardinality(UF) * lf
      /\ IsFiniteSet(C) /\ Cardinality(C) = Cardinality(None) * 1
  BY ZenonT(40), <1>2, <1>4, FS_Product
<1> HIDE DEF A, B, C
<1>6. /\ Cardinality(A) \in Nat /\ Cardinality(B) \in Nat /\ Cardinality(C) \in Nat
      /\ Cardinality({}) = 0
  BY Zenon, <1>5, FS_CardinalityType, FS_EmptySet
<1>7. IsFiniteSet(A \cup B) /\ Cardinality(A \cup B) = Cardinality(A) + Cardinality(B)
  <2>1. IsFiniteSet(A \cup B) /\ Cardinality(A \cup B) = Cardinality(A) + Cardinality(B) - Cardinality(A \cap B)
    BY Zenon, <1>5, FS_Union
  <2>2. Cardinality(A \cup B) = Cardinality(A) + Cardinality(B) - 0
    BY ZenonT(40), <1>3, <1>6, <2>1
  <2> QED
    BY <1>6, <2>1, <2>2
<1>8. IsFiniteSet(Work) /\ Cardinality(Work) = Cardinality(A) + Cardinality(B) + Cardinality(C)
  <2>1. /\ IsFiniteSet((A \cup B) \cup C)
        /\ Cardinality((A \cup B) \cup C) = Cardinality(A \cup B) + Cardinality(C) - Cardinality((A \cup B) \cap C)
    BY Zenon, <1>5, <1>7, FS_Union
  <2>2. /\ IsFiniteSet(Work)
        /\ Cardinality(Work) = Cardinality(A) + Cardinality(B) + Cardinality(C) - 0
    BY Zenon, <1>1, <1>3, <1>6, <1>7, <2>1
  <2> QED
    BY <1>6, <2>2
<1>9. SerialTime = 3 + Cardinality(None) + li * Cardinality(UI) + lf * Cardinality(UF)
  BY Zenon DEF SerialTime, None, UI, UF, li, lf
<1>10. /\ Cardinality(UI) * li = li * Cardinality(UI)
       /\ Cardinality(UF) * lf = lf * Cardinality(UF)
       /\ Cardinality(None) * 1 = Cardinality(None)
  BY <1>0, <1>2
<1>11. Cardinality(Work) = li * Cardinality(UI) + lf * Cardinality(UF) + Cardinality(None)
  BY Zenon, <1>5, <1>8, <1>10
<1> DEFINE a == li * Cardinality(UI)
           b == lf * Cardinality(UF)
           c == Cardinality(None)
<1>12. a \in Nat /\ b \in Nat /\ c \in Nat /\ SerialTime = 3 + c + a + b
       /\ Cardinality(Work) = a + b + c
  BY Zenon, <1>2, <1>5, <1>6, <1>9, <1>10, <1>11
<1> HIDE DEF a, b, c
<1>13. Cardinality(Work) \in Nat /\ Cardinality(Work) + 3 = SerialTime
  BY <1>12
<1> QED
  BY Zenon, <1>8, <1>13

(* Work depends on the trace alone. *)
LEMMA WorkRigid ==
  ASSUME trace' = trace
  PROVE  Work' = Work
<1>1. /\ \A i \in Trace, u \in Units : UsesUnit(i, u)' = UsesUnit(i, u)
      /\ \A i \in Trace : Enters(i)' = Enters(i)
  BY Zenon, Rigid, Positions
<1>2. /\ {i \in Trace : UsesUnit(i, "INT")'} = {i \in Trace : UsesUnit(i, "INT")}
      /\ {i \in Trace : UsesUnit(i, "FP")'} = {i \in Trace : UsesUnit(i, "FP")}
      /\ {i \in Trace : ~Enters(i)'} = {i \in Trace : ~Enters(i)}
  BY Zenon, <1>1 DEF Units
<1> QED
  BY Zenon, <1>2 DEF Work

(* Served cycles are never lost while the trace stays the same, and every  *)
(* newly served cycle makes up for one that has passed.                    *)
LEMMA Pace ==
  ASSUME trace' = trace, cycle \in Nat, cycle' \in Nat, Served \subseteq Served'
  PROVE  /\ (Within(1)' => Within(2)') /\ (Within(2)' => Within(3)')
         /\ cycle' = cycle => /\ Within(1) => Within(1)'
                              /\ Within(2) => Within(2)'
                              /\ Within(3) => Within(3)'
         /\ cycle' = cycle + 1 => /\ Within(1) => Within(2)'
                                  /\ Within(2) => Within(3)'
         /\ \A x \in Served' : cycle' = cycle /\ x \notin Served =>
              /\ Within(2) => Within(1)'
              /\ Within(3) => Within(2)'
         /\ cycle' = 1 => Within(1)'
<1>1. Work' = Work
  BY ZenonT(40), WorkRigid
<1>2. Served \subseteq Work /\ Served' \subseteq Work
  BY Zenon, <1>1 DEF Served
<1> HIDE DEF Served
<1>3. /\ IsFiniteSet(Served) /\ Cardinality(Served) \in Nat
      /\ IsFiniteSet(Served') /\ Cardinality(Served') \in Nat
  BY Zenon, <1>2, WorkCount, FS_Subset, FS_CardinalityType
<1>4. Cardinality(Served) <= Cardinality(Served')
  BY Zenon, <1>3, FS_Subset
<1>5. ASSUME NEW x \in Served', x \notin Served
      PROVE  Cardinality(Served) + 1 <= Cardinality(Served')
  <2>1. Cardinality(Served \cup {x}) = Cardinality(Served) + 1
    BY Zenon, <1>3, <1>5, FS_AddElement
  <2>2. Served \cup {x} \subseteq Served'
    BY Zenon, <1>5
  <2> QED
    BY Zenon, <1>3, <2>1, <2>2, FS_Subset
<1>6. /\ Within(1)' <=> cycle' <= Cardinality(Served') + 1
      /\ Within(2)' <=> cycle' <= Cardinality(Served') + 2
      /\ Within(3)' <=> cycle' <= Cardinality(Served') + 3
  BY Zenon DEF Within
<1>7. /\ (Within(1)' => Within(2)') /\ (Within(2)' => Within(3)')
      /\ cycle' = cycle => /\ Within(1) => Within(1)'
                           /\ Within(2) => Within(2)'
                           /\ Within(3) => Within(3)'
      /\ cycle' = cycle + 1 => /\ Within(1) => Within(2)'
                               /\ Within(2) => Within(3)'
      /\ cycle' = 1 => Within(1)'
  BY SMTT(40), <1>3, <1>4, <1>6 DEF Within
<1>8. ASSUME NEW x \in Served', x \notin Served, cycle' = cycle
      PROVE  (Within(2) => Within(1)') /\ (Within(3) => Within(2)')
  <2>1. Cardinality(Served) + 1 <= Cardinality(Served')
    BY Zenon, <1>5, <1>8
  <2> QED
    BY <1>3, <1>6, <1>8, <2>1 DEF Within
<1> QED
  BY ZenonT(40), <1>7, <1>8

(* A member of Work is a position of the trace and a number. *)
LEMMA WorkPair ==
  ASSUME NEW x \in Work
  PROVE  \E i \in Trace, k \in Nat : x = <<i, k>> /\ x[1] = i /\ x[2] = k
<1>1. CASE \E i \in Trace : x = <<i, 1>> /\ ~Enters(i)
  <2>1. PICK i \in Trace : x = <<i, 1>>
    BY Zenon, <1>1
  <2>2. x[1] = i /\ x[2] = 1 /\ 1 \in Nat
    BY Zenon, <2>1
  <2> QED
    BY Zenon, <2>1, <2>2
<1>2. CASE \E i \in Trace, u \in Units : \E k \in 1 .. (FU_LATENCY[u] + 1) :
             x = <<i, k>> /\ UsesUnit(i, u)
  <2>1. PICK i \in Trace, u \in Units : \E k \in 1 .. (FU_LATENCY[u] + 1) : x = <<i, k>>
    BY Zenon, <1>2
  <2>2. PICK k \in 1 .. (FU_LATENCY[u] + 1) : x = <<i, k>>
    BY Zenon, <2>1
  <2>3. x[1] = i /\ x[2] = k /\ k \in Nat
    BY <2>2
  <2> QED
    BY Zenon, <2>2, <2>3
<1> QED
  BY Zenon, <1>1, <1>2, WorkMembers

(* A call loses no served cycle if nothing comes back into the queue or    *)
(* into a unit and no execute stamp changes once it is set.                *)
LEMMA ServedKept ==
  ASSUME trace' = trace,
         \A i \in Trace : ~Enters(i) /\ i <= fetch_index => i <= fetch_index',
         \A i \in Trace : /\ ~Enters(i) /\ i <= fetch_index
                          /\ \A q \in 1 .. Len(instr_queue) : instr_queue[q] # i
                          => \A q \in 1 .. Len(instr_queue') : instr_queue'[q] # i,
         \A i \in Trace : tom_execute_cycle[i] # 0 =>
           tom_execute_cycle'[i] = tom_execute_cycle[i] /\ (i \in fu' => i \in fu),
         tom_execute_cycle \in [Index -> Nat],
         Elapsed \in Int, Elapsed' \in Int, Elapsed <= Elapsed'
  PROVE  Served \subseteq Served'
<1> SUFFICES ASSUME NEW x \in Work, Behind(x[1], x[2])
             PROVE  x \in Served'
  BY Zenon DEF Served
<1>1. PICK i \in Trace, k \in Nat : x = <<i, k>> /\ x[1] = i /\ x[2] = k
  BY Zenon, WorkPair
<1>2. Work' = Work
  BY ZenonT(40), WorkRigid
<1>3. Behind(i, k)'
  <2>1. CASE /\ ~Enters(i) /\ i <= fetch_index
             /\ \A q \in 1 .. Len(instr_queue) : instr_queue[q] # i
    <3>1. /\ ~Enters(i)' /\ i <= fetch_index'
          /\ \A q \in 1 .. Len(instr_queue') : instr_queue'[q] # i
      BY Zenon, <2>1, Rigid, Positions
    <3> QED
      BY Zenon, <3>1 DEF Behind
  <2>2. ASSUME NEW u \in Units, UsesUnit(i, u), tom_execute_cycle[i] # 0,
               IF k <= FU_LATENCY[u] THEN tom_execute_cycle[i] + k <= Elapsed + 1 ELSE i \notin fu
        PROVE  Behind(i, k)'
    <3>1. UsesUnit(i, u)' /\ tom_execute_cycle'[i] = tom_execute_cycle[i]
      BY Zenon, <2>2, Rigid, Positions
    <3>2. tom_execute_cycle[i] \in Nat
      BY Zenon, Positions
    <3>3. tom_execute_cycle[i] + k <= Elapsed + 1 => tom_execute_cycle[i] + k <= Elapsed' + 1
      BY <3>2
    <3>4. IF k <= FU_LATENCY[u] THEN tom_execute_cycle'[i] + k <= Elapsed' + 1 ELSE i \notin fu'
      BY Zenon, <2>2, <3>1, <3>3
    <3> QED
      BY Zenon, <2>2, <3>1, <3>4 DEF Behind
  <2> QED
    BY Zenon, <1>1, <2>1, <2>2 DEF Behind
<1>4. Behind(x[1], x[2])'
  BY Zenon, <1>1, <1>3
<1> QED
  BY Zenon, <1>2, <1>4 DEF Served

(* A cycle that was not behind the machine and now is is newly served. *)
LEMMA NewlyServed ==
  ASSUME trace' = trace, NEW i, NEW k, <<i, k>> \in Work, ~Behind(i, k), Behind(i, k)'
  PROVE  <<i, k>> \in Served' /\ <<i, k>> \notin Served
<1>1. Work' = Work
  BY Zenon, WorkRigid
<1>2. <<i, k>>[1] = i /\ <<i, k>>[2] = k
  BY Zenon
<1>3. <<i, k>> \notin Served
  BY Zenon, <1>2 DEF Served
<1>4. Behind(<<i, k>>[1], <<i, k>>[2])'
  BY Zenon, <1>2
<1>5. <<i, k>> \in Served'
  BY Zenon, <1>1, <1>4 DEF Served
<1> QED
  BY Zenon, <1>3, <1>5

(* TimeInv holds at the start and after every call. *)
LEMMA TimeStep ==
  ASSUME PInv, OInv', [Next]_vars
  PROVE  TimeInv'
<1>t. /\ IInv /\ TimeInv /\ StampInv /\ StationInv /\ Occupancy
      /\ cycle \in Nat \ {0} /\ commonDataBus \in Index \cup {NULL}
      /\ tom_issue_cycle \in [Index -> Nat] /\ tom_execute_cycle \in [Index -> Nat]
      /\ instr_queue \in Seq(Index)
  BY Zenon DEF PInv, OInv, IInv, TypeOK
<1>1. CASE CDB_To_retire
  <2>1. /\ stage = "CDB_To_retire" /\ stage' = "execute_To_CDB"
        /\ UNCHANGED <<cycle, fetch_index, instr_queue, reserv, fu, tom_issue_cycle,
                       tom_execute_cycle>>
        /\ commonDataBus' = IF commonDataBus # NULL /\ tom_cdb_cycle[commonDataBus] < cycle
                              THEN NULL ELSE commonDataBus
    BY Zenon, <1>1 DEF CDB_To_retire, stamps
  <2>2. commonDataBus' = NULL
    BY Zenon, <1>t, <2>1 DEF StampInv
  <2> QED
    BY Zenon, <1>t, <2>1, <2>2 DEF TimeInv
<1>2. CASE execute_To_CDB
  <2>1. /\ stage = "execute_To_CDB" /\ stage' = "issue_To_execute"
        /\ UNCHANGED <<cycle, fetch_index, instr_queue, tom_issue_cycle, tom_execute_cycle>>
        /\ \E leaving : reserv' = reserv \ leaving /\ fu' = fu \ leaving
    BY Zenon, <1>2 DEF execute_To_CDB
  <2>2. \A i \in Index : i \in reserv' /\ tom_execute_cycle[i] # 0 => i \in fu'
    BY Zenon, <1>t, <2>1 DEF TimeInv
  <2> QED
    BY Zenon, <1>t, <2>1, <2>2 DEF TimeInv
<1>3. CASE issue_To_execute
  <2>1. /\ stage = "issue_To_execute" /\ stage' = "dispatch_To_issue"
        /\ UNCHANGED <<cycle, fetch_index, instr_queue, reserv, tom_issue_cycle>>
        /\ fu' = fu \cup Starting
        /\ tom_execute_cycle' = [i \in Index |->
             IF i \in Starting THEN cycle ELSE tom_execute_cycle[i]]
    BY Zenon, <1>3 DEF issue_To_execute
  <2>2. \A i \in Index : i \in reserv' /\ tom_execute_cycle'[i] # 0 => i \in fu'
    BY Zenon, <1>t, <2>1 DEF TimeInv
  <2> QED
    BY Zenon, <1>t, <2>1, <2>2 DEF TimeInv
<1>4. CASE dispatch_To_issue
  <2>1. /\ stage = "dispatch_To_issue" /\ stage' = "fetch_To_dispatch"
        /\ UNCHANGED <<cycle, fu, tom_execute_cycle>>
    BY Zenon, <1>4 DEF dispatch_To_issue
  <2>2. CASE UNCHANGED <<reserv, tom_issue_cycle>>
    BY Zenon, <1>t, <2>1, <2>2 DEF TimeInv
  <2>3. ASSUME instr_queue # <<>>, NEW u \in Units, NEW h, h = Head(instr_queue), Reserve(h, u)
        PROVE  TimeInv'
    <3>1. /\ reserv' = reserv \cup {h} /\ Enters(h)
          /\ tom_issue_cycle' = [tom_issue_cycle EXCEPT ![h] = cycle]
      BY Zenon, <2>3 DEF Reserve, Enters
    <3>2. h \in Trace /\ \A x \in Index : Issued(x) => x < h
      BY Zenon, <1>t, <2>3, <3>1, HeadIsNext
    <3>3. h \in Index /\ h \in Nat /\ ~(h < h)
      BY <3>2, Positions
    <3>4. tom_execute_cycle[h] = 0
      BY Zenon, <1>t, <3>2, <3>3 DEF StationInv
    <3>5. \A i \in Index : i \in reserv' /\ tom_execute_cycle'[i] # 0 => i \in fu'
      BY Zenon, <1>t, <2>1, <3>1, <3>4 DEF TimeInv
    <3>6. \A i \in Index : tom_issue_cycle'[i] \in {tom_issue_cycle[i], cycle}
      BY Zenon, <1>t, <3>1
    <3>7. \A i \in Index : tom_issue_cycle'[i] <= cycle'
      <4>1. cycle <= cycle
        BY SMTT(40), <1>t
      <4> QED
        BY Zenon, <1>t, <2>1, <3>6, <4>1 DEF TimeInv
    <3> QED
      BY Zenon, <2>1, <3>5, <3>7 DEF TimeInv
  <2> QED
    BY Zenon, <1>4, <2>2, <2>3 DEF dispatch_To_issue, PopOnly, Stall
<1>5. CASE fetch_To_dispatch
  <2>1. /\ stage = "fetch_To_dispatch"
        /\ UNCHANGED <<reserv, fu, tom_issue_cycle, tom_execute_cycle>>
        /\ \/ stage' = "done" /\ cycle' = cycle
           \/ stage' = "CDB_To_retire" /\ cycle' = cycle + 1
    BY Zenon, <1>5 DEF fetch_To_dispatch
  <2>2. instr_queue' # <<>> \/ fetch_index' > sim_num_insn
    <3>1. CASE ~WillFetch /\ UNCHANGED <<fetch_index, instr_queue>>
      <4>1. fetch_index \in Nat /\ sim_num_insn \in Nat /\ INSTR_QUEUE_SIZE \in Nat \ {0}
        BY SizesAssumption DEF PInv, OInv, IInv, TypeOK
      <4> QED
        BY SMTT(40), <1>t, <3>1, <4>1 DEF WillFetch
    <3>2. ASSUME NEW i \in Index, fetch(i) PROVE instr_queue' # <<>>
      BY SMTT(40), <1>t, <3>2 DEF fetch
    <3> QED
      BY Zenon, <1>5, <3>1, <3>2 DEF fetch_To_dispatch
  <2>3. instr_queue' = <<>> => ~(fetch_index' <= sim_num_insn)
    BY <2>2, SizesAssumption DEF OInv, IInv, TypeOK
  <2>4. \A i \in Index : /\ tom_issue_cycle[i] \in Nat /\ tom_issue_cycle[i] <= cycle
                         /\ tom_execute_cycle[i] \in Nat /\ tom_execute_cycle[i] <= cycle
    BY Zenon, <1>t DEF TimeInv, StationInv
  <2>5. \A i \in Index : /\ tom_issue_cycle'[i] <= cycle'
                         /\ stage' # "done" => /\ tom_issue_cycle'[i] < cycle'
                                               /\ tom_execute_cycle'[i] < cycle'
    BY <1>t, <2>1, <2>4
  <2>6. \A i \in Index : i \in reserv' /\ tom_execute_cycle'[i] # 0 => i \in fu'
    BY Zenon, <1>t, <2>1 DEF TimeInv
  <2> QED
    BY Zenon, <2>1, <2>3, <2>5, <2>6 DEF TimeInv
<1>6. CASE UNCHANGED vars
  BY Zenon, <1>t, <1>6 DEF TimeInv, vars, stamps
<1> QED
  BY Zenon, <1>1, <1>2, <1>3, <1>4, <1>5, <1>6 DEF Next, runTomasulo, Returned

(* A set of positions that is not empty has an oldest member. *)
LEMMA OldestExists ==
  ASSUME NEW S, S \subseteq Index, S # {}, NEW n \in Nat, n # 0
  PROVE  Oldest(S, n) # {}
<1>1. PICK m \in S : \A k \in S : m <= k
  <2>1. S \subseteq Nat
    BY Zenon, Positions
  <2> QED
    BY Zenon, <2>1, LeastMember
<1>2. {j \in S : j < m} = {}
  <2>1. \A k \in S : k \in Nat
    BY Zenon, Positions
  <2>2. \A k \in S : ~(k < m)
    BY <1>1, <2>1
  <2> QED
    BY Zenon, <2>2
<1>3. Cardinality({j \in S : j < m}) = 0 /\ 0 < n
  <2>1. 0 < n
    OBVIOUS
  <2> QED
    BY Zenon, <1>2, <2>1, FS_EmptySet
<1>4. m \in Oldest(S, n)
  BY Zenon, <1>3 DEF Oldest
<1> QED
  BY Zenon, <1>4

(* What the invariant says of the instructions in stations and units. *)
LEMMA PaceTypes ==
  ASSUME PInv
  PROVE  /\ IInv /\ OInv /\ TypeOK /\ TimeInv /\ PaceInv /\ StampInv /\ StationInv /\ Occupancy
         /\ QueueInv /\ NoStaleTag
         /\ cycle \in Nat /\ cycle # 0 /\ Elapsed \in Int /\ fetch_index \in Nat
         /\ sim_num_insn \in Nat
         /\ commonDataBus \in Index \cup {NULL} /\ instr_queue \in Seq(Index)
         /\ reserv \subseteq Index /\ fu \subseteq Index /\ fu \subseteq reserv
         /\ tom_issue_cycle \in [Index -> Nat] /\ tom_execute_cycle \in [Index -> Nat]
         /\ tom_cdb_cycle \in [Index -> Nat]
         /\ \A i \in reserv : i \in Trace /\ i \in Nat /\ Issued(i) /\ Enters(i)
<1>1. /\ IInv /\ OInv /\ TypeOK /\ TimeInv /\ PaceInv /\ StampInv /\ StationInv /\ Occupancy
      /\ QueueInv /\ NoStaleTag
      /\ cycle \in Nat \ {0}
      /\ commonDataBus \in Index \cup {NULL} /\ instr_queue \in Seq(Index)
      /\ reserv \subseteq Index /\ fu \subseteq Index /\ fu \subseteq reserv
      /\ tom_issue_cycle \in [Index -> Nat] /\ tom_execute_cycle \in [Index -> Nat]
      /\ tom_cdb_cycle \in [Index -> Nat] /\ fetch_index \in 0 .. (sim_num_insn + 1)
  BY Zenon DEF PInv, OInv, IInv, TypeOK, Occupancy
<1>2. cycle \in Nat /\ cycle # 0 /\ cycle \in Int /\ cycle - 1 \in Int
      /\ fetch_index \in Nat /\ sim_num_insn \in Nat
  BY <1>1, SizesAssumption
<1>3. Elapsed \in Int
  BY Zenon, <1>2 DEF Elapsed
<1>4. ASSUME NEW i \in reserv PROVE i \in Trace /\ i \in Nat /\ Issued(i) /\ Enters(i)
  <2>1. i \in Index /\ i \in Nat /\ Issued(i)
    BY Zenon, <1>1, Positions DEF StampInv
  <2>2. Enters(i)
    BY Zenon, <1>1, <2>1 DEF QueueInv
  <2>3. i \in Trace
    BY Zenon, <2>2 DEF Enters, UsesUnit, USES_INT_FU, USES_FP_FU, op
  <2> QED
    BY Zenon, <2>1, <2>2, <2>3
<1> QED
  BY Zenon, <1>1, <1>2, <1>3, <1>4

(* Whatever leaves its unit has its last cycle served. *)
LEMMA LeavingServed ==
  ASSUME PInv, execute_To_CDB, NEW i \in fu, i \notin fu'
  PROVE  \E x \in Served' : x \notin Served
<1>1. trace' = trace /\ tom_execute_cycle' = tom_execute_cycle
  BY Zenon DEF execute_To_CDB
<1>2. i \in Trace /\ Enters(i) /\ tom_execute_cycle[i] # 0
  BY Zenon, PaceTypes, Positions DEF StampInv
<1>3. PICK u \in Units : UsesUnit(i, u)
  BY Zenon, <1>2 DEF Enters
<1> DEFINE k == FU_LATENCY[u] + 1
<1>4. k \in 1 .. (FU_LATENCY[u] + 1) /\ ~(k <= FU_LATENCY[u])
  BY SizesAssumption
<1>5. <<i, k>> \in Work
  BY Zenon, <1>2, <1>3, <1>4, WorkMembers
<1>6. Behind(i, k)'
  BY Zenon, <1>1, <1>2, <1>3, <1>4, Rigid, Positions DEF Behind
<1>7. ~Behind(i, k)
  BY Zenon, <1>2, <1>3, <1>4, OneUnit DEF Behind
<1> QED
  BY Zenon, <1>1, <1>5, <1>6, <1>7, NewlyServed

(* An instruction that starts has its first cycle served. *)
LEMMA StartingServed ==
  ASSUME PInv, issue_To_execute, NEW i \in Starting
  PROVE  \E x \in Served' : x \notin Served
<1>1. /\ trace' = trace /\ cycle' = cycle /\ stage' = "dispatch_To_issue"
      /\ tom_execute_cycle' = [j \in Index |->
           IF j \in Starting THEN cycle ELSE tom_execute_cycle[j]]
  BY Zenon DEF issue_To_execute
<1>2. i \in Trace /\ i \in Index /\ tom_execute_cycle[i] = 0
  BY Zenon, StartingReady, PaceTypes, Positions
<1>3. PICK u \in Units : UsesUnit(i, u)
  BY Zenon, StartingReady, PaceTypes
<1>4. 1 \in 1 .. (FU_LATENCY[u] + 1) /\ 1 <= FU_LATENCY[u]
  BY SizesAssumption
<1>5. <<i, 1>> \in Work
  BY Zenon, <1>2, <1>3, <1>4, WorkMembers
<1>6. /\ Elapsed' = cycle /\ tom_execute_cycle'[i] = cycle /\ cycle # 0
      /\ cycle + 1 <= cycle + 1
  <2>1. Elapsed' = cycle
    BY Zenon, <1>1 DEF Elapsed
  <2> QED
    BY SMTT(40), <1>1, <1>2, <2>1, PaceTypes
<1>7. Behind(i, 1)'
  BY Zenon, <1>1, <1>2, <1>3, <1>4, <1>6, Rigid, Positions DEF Behind
<1>8. ~Behind(i, 1)
  BY Zenon, <1>2, <1>3 DEF Behind, Enters
<1> QED
  BY Zenon, <1>1, <1>5, <1>7, <1>8, NewlyServed

(* An instruction that goes on executing has another cycle served. *)
LEMMA ExecutingServed ==
  ASSUME PInv, issue_To_execute, NEW i \in fu, ~EXECUTION_DONE(i)
  PROVE  \E x \in Served' : x \notin Served
<1>1. /\ trace' = trace /\ cycle' = cycle
      /\ stage = "issue_To_execute" /\ stage' = "dispatch_To_issue"
      /\ tom_execute_cycle' = [j \in Index |->
           IF j \in Starting THEN cycle ELSE tom_execute_cycle[j]]
  BY Zenon DEF issue_To_execute
<1>2. /\ i \in Trace /\ i \in Index /\ Enters(i) /\ tom_execute_cycle[i] # 0
      /\ tom_execute_cycle[i] \in Nat /\ cycle \in Nat
  BY Zenon, PaceTypes, Positions DEF StampInv
<1>3. PICK u \in Units : UsesUnit(i, u)
  BY Zenon, <1>2 DEF Enters
<1>4. tom_execute_cycle[i] < cycle
  BY Zenon, <1>1, <1>2, PaceTypes DEF TimeInv
<1>5. ~(cycle >= tom_execute_cycle[i] + FU_LATENCY[u]) /\ FU_LATENCY[u] \in Nat
  BY Zenon, <1>3, SizesAssumption DEF EXECUTION_DONE
<1>6. PICK k \in Nat : k = cycle - tom_execute_cycle[i] + 1
  <2>1. cycle - tom_execute_cycle[i] + 1 \in Nat
    BY SMTT(40), <1>2, <1>4
  <2> QED
    BY Zenon, <2>1
<1>7. /\ k \in 1 .. (FU_LATENCY[u] + 1) /\ k <= FU_LATENCY[u]
      /\ tom_execute_cycle[i] + k <= cycle + 1
      /\ ~(tom_execute_cycle[i] + k <= (cycle - 1) + 1)
  BY SMTT(40), <1>2, <1>4, <1>5, <1>6
<1>8. <<i, k>> \in Work
  BY Zenon, <1>2, <1>3, <1>7, WorkMembers
<1>9. Elapsed' = cycle /\ tom_execute_cycle'[i] = tom_execute_cycle[i]
  <2>1. i \notin Starting
    BY Zenon, <1>2, StartingReady, PaceTypes
  <2> QED
    BY Zenon, <1>1, <1>2, <2>1 DEF Elapsed
<1>10. Elapsed = cycle - 1
  BY Zenon, <1>1 DEF Elapsed
<1>11. ~Behind(i, k)
  BY Zenon, <1>2, <1>3, <1>7, <1>10, OneUnit DEF Behind
<1>12. UsesUnit(i, u)' /\ tom_execute_cycle'[i] # 0 /\ tom_execute_cycle'[i] + k <= Elapsed' + 1
  BY Zenon, <1>1, <1>2, <1>3, <1>7, <1>9, Rigid
<1>13. Behind(i, k)'
  BY ZenonT(40), <1>7, <1>12 DEF Behind
<1> QED
  BY ZenonT(40), <1>1, <1>8, <1>11, <1>13, NewlyServed

(* An instruction without a unit that leaves the queue has its cycle       *)
(* served.                                                                 *)
LEMMA PoppedServed ==
  ASSUME PInv, dispatch_To_issue, instr_queue # <<>>, NEW h \in Trace, h = Head(instr_queue),
         ~Enters(h), instr_queue' = Tail(instr_queue)
  PROVE  \E x \in Served' : x \notin Served
<1>1. trace' = trace /\ fetch_index' = fetch_index
  BY Zenon DEF dispatch_To_issue
<1>2. /\ Len(instr_queue) \in Nat /\ Len(instr_queue') = Len(instr_queue) - 1
      /\ 1 \in 1 .. Len(instr_queue) /\ instr_queue[1] = h
      /\ \A k \in 1 .. Len(instr_queue') :
           /\ k + 1 \in 1 .. Len(instr_queue) /\ 1 < k + 1
           /\ instr_queue'[k] = instr_queue[k + 1]
  <2>1. instr_queue \in Seq(Index)
    BY Zenon, PaceTypes
  <2> QED BY SMTT(40), <2>1
<1>3. h <= fetch_index /\ h \in Nat
  <2>1. instr_queue[1] <= fetch_index
    BY Zenon, <1>2, PaceTypes DEF QueueInv
  <2>2. h \in Nat
    BY ZenonT(40), Positions
  <2> QED
    BY Zenon, <1>2, <2>1, <2>2
<1>4. ASSUME NEW k \in 1 .. Len(instr_queue') PROVE instr_queue'[k] # h
  <2>1. h < instr_queue'[k]
    BY Zenon, <1>2, PaceTypes DEF QueueInv
  <2> QED
    BY <1>3, <2>1
<1>5. <<h, 1>> \in Work
  BY Zenon, WorkMembers
<1>6. ~Behind(h, 1)
  BY Zenon, <1>2 DEF Behind, Enters
<1>7. Behind(h, 1)'
  BY Zenon, <1>1, <1>3, <1>4, Rigid, Positions DEF Behind
<1> QED
  BY Zenon, <1>1, <1>5, <1>6, <1>7, NewlyServed

(* No call loses a served cycle. *)
LEMMA ServedStep ==
  ASSUME PInv, OInv', [Next]_vars
  PROVE  trace' = trace /\ cycle' \in Nat /\ Served \subseteq Served'
<1>t. /\ IInv /\ QueueInv /\ cycle \in Nat /\ cycle' \in Nat
      /\ Elapsed \in Int /\ fetch_index \in Nat /\ instr_queue \in Seq(Index)
      /\ tom_execute_cycle \in [Index -> Nat]
  <2>1. cycle' \in Nat \ {0}
    BY Zenon DEF OInv, IInv, TypeOK
  <2> QED
    BY Zenon, <2>1, PaceTypes
<1>e. Elapsed' \in Int /\ Elapsed <= Elapsed
  <2>1. cycle' \in Int /\ cycle' - 1 \in Int /\ Elapsed <= Elapsed
    BY <1>t
  <2> QED
    BY Zenon, <2>1 DEF Elapsed
<1>1. CASE CDB_To_retire \/ execute_To_CDB
  <2>1. /\ trace' = trace /\ fu' \subseteq fu
        /\ UNCHANGED <<cycle, fetch_index, instr_queue, tom_execute_cycle>>
        /\ stage \in {"CDB_To_retire", "execute_To_CDB"}
        /\ stage' \in {"execute_To_CDB", "issue_To_execute"}
    BY Zenon, <1>1 DEF CDB_To_retire, execute_To_CDB, stamps
  <2>2. Elapsed' = Elapsed
    BY Zenon, <2>1 DEF Elapsed
  <2>3. Elapsed <= Elapsed'
    BY Zenon, <1>e, <2>2
  <2>4. Served \subseteq Served'
    BY Zenon, <1>t, <1>e, <2>1, <2>3, ServedKept
  <2> QED
    BY Zenon, <1>t, <2>1, <2>4
<1>2. CASE issue_To_execute
  <2>1. /\ trace' = trace /\ UNCHANGED <<cycle, fetch_index, instr_queue>>
        /\ stage = "issue_To_execute" /\ stage' = "dispatch_To_issue"
        /\ fu' = fu \cup Starting
        /\ tom_execute_cycle' = [i \in Index |->
             IF i \in Starting THEN cycle ELSE tom_execute_cycle[i]]
    BY Zenon, <1>2 DEF issue_To_execute
  <2>2. Elapsed = cycle - 1 /\ Elapsed' = cycle
    BY Zenon, <2>1 DEF Elapsed
  <2>3. Elapsed <= Elapsed'
    BY SMTT(40), <1>t, <2>2
  <2>4. \A i \in Trace : tom_execute_cycle[i] # 0 =>
           tom_execute_cycle'[i] = tom_execute_cycle[i] /\ (i \in fu' => i \in fu)
    BY Zenon, <1>t, <2>1, StartingReady, Positions
  <2>5. Served \subseteq Served'
    BY Zenon, <1>t, <1>e, <2>1, <2>3, <2>4, ServedKept
  <2> QED
    BY Zenon, <1>t, <2>1, <2>5
<1>3. CASE dispatch_To_issue
  <2>1. /\ trace' = trace /\ UNCHANGED <<cycle, fetch_index, fu, tom_execute_cycle>>
        /\ stage = "dispatch_To_issue" /\ stage' = "fetch_To_dispatch"
        /\ \/ instr_queue' = instr_queue
           \/ instr_queue # <<>> /\ instr_queue' = Tail(instr_queue)
    BY Zenon, <1>3 DEF dispatch_To_issue, Reserve, PopOnly, Stall
  <2>2. Elapsed' = Elapsed
    BY Zenon, <2>1 DEF Elapsed
  <2>3. Elapsed <= Elapsed'
    BY Zenon, <1>e, <2>2
  <2>4. ASSUME NEW q \in 1 .. Len(instr_queue')
        PROVE  \E l \in 1 .. Len(instr_queue) : instr_queue'[q] = instr_queue[l]
    <3>1. CASE instr_queue' = instr_queue
      BY Zenon, <3>1
    <3>2. CASE instr_queue # <<>> /\ instr_queue' = Tail(instr_queue)
      <4>1. q + 1 \in 1 .. Len(instr_queue) /\ instr_queue'[q] = instr_queue[q + 1]
        BY <1>t, <3>2
      <4> QED
        BY Zenon, <4>1
    <3> QED
      BY Zenon, <2>1, <3>1, <3>2
  <2>5. Served \subseteq Served'
    BY Zenon, <1>t, <1>e, <2>1, <2>3, <2>4, ServedKept
  <2> QED
    BY Zenon, <1>t, <2>1, <2>5
<1>4. CASE fetch_To_dispatch
  <2>1. /\ trace' = trace /\ UNCHANGED <<fu, tom_execute_cycle>>
        /\ stage = "fetch_To_dispatch"
        /\ \/ stage' = "done" /\ cycle' = cycle
           \/ stage' = "CDB_To_retire" /\ cycle' = cycle + 1
    BY Zenon, <1>4 DEF fetch_To_dispatch
  <2>2. Elapsed' = Elapsed
    <3>1. Elapsed = cycle
      BY Zenon, <2>1 DEF Elapsed
    <3>2. CASE stage' = "done" /\ cycle' = cycle
      BY Zenon, <3>1, <3>2 DEF Elapsed
    <3>3. CASE stage' = "CDB_To_retire" /\ cycle' = cycle + 1
      <4>1. Elapsed' = cycle' - 1
        BY SMTT(40), <3>3 DEF Elapsed
      <4> QED
        BY SMTT(40), <1>t, <3>1, <3>3, <4>1
    <3> QED
      BY Zenon, <2>1, <3>2, <3>3
  <2>3. Elapsed <= Elapsed'
    BY Zenon, <1>e, <2>2
  <2>4. CASE UNCHANGED <<fetch_index, instr_queue>>
    <3>1. Served \subseteq Served'
      BY Zenon, <1>t, <1>e, <2>1, <2>3, <2>4, ServedKept
    <3> QED
      BY Zenon, <1>t, <2>1, <3>1
  <2>5. ASSUME NEW f \in Index, IsNext(f), fetch(f) PROVE Served \subseteq Served'
    <3>1. /\ fetch_index < f /\ fetch_index' = f /\ instr_queue' = Append(instr_queue, f)
          /\ f \in Nat
      BY Zenon, <2>5, <1>t, Positions DEF IsNext, fetch
    <3>2. \A i \in Trace : i <= fetch_index => i <= fetch_index' /\ i # f
      BY SMTT(40), <1>t, <3>1, Positions
    <3>3. ASSUME NEW q \in 1 .. Len(instr_queue')
          PROVE  instr_queue'[q] = f \/ \E l \in 1 .. Len(instr_queue) : instr_queue'[q] = instr_queue[l]
      <4>1. \/ instr_queue'[q] = f
            \/ q \in 1 .. Len(instr_queue) /\ instr_queue'[q] = instr_queue[q]
        BY SMTT(40), <1>t, <3>1
      <4> QED
        BY Zenon, <4>1
    <3> QED
      BY Zenon, <1>t, <1>e, <2>1, <2>3, <3>2, <3>3, ServedKept
  <2> QED
    BY Zenon, <1>t, <1>4, <2>1, <2>4, <2>5 DEF fetch_To_dispatch
<1>5. CASE UNCHANGED vars
  <2>1. /\ trace' = trace /\ stage' = stage
        /\ UNCHANGED <<cycle, fetch_index, instr_queue, fu, tom_execute_cycle>>
    BY Zenon, <1>5 DEF vars, stamps
  <2>2. Elapsed' = Elapsed
    BY Zenon, <2>1 DEF Elapsed
  <2>3. Elapsed <= Elapsed'
    BY Zenon, <1>e, <2>2
  <2>4. Served \subseteq Served'
    BY Zenon, <1>t, <1>e, <2>1, <2>3, ServedKept
  <2> QED
    BY Zenon, <1>t, <2>1, <2>4
<1> QED
  BY Zenon, <1>1, <1>2, <1>3, <1>4, <1>5 DEF Next, runTomasulo, Returned

(* An instruction that goes through a unit and writes a register has a     *)
(* result for the bus.                                                     *)
LEMMA WritersBroadcast ==
  ASSUME TypeOK, NEW p \in Trace, Enters(p), r_out(p) # {}
  PROVE  WRITES_CDB(p)
<1>1. trace \in [Trace -> Instr] /\ WellFormed(trace[p])
  BY Zenon, ProgramsAssumption DEF TypeOK
<1>2. op(p) = trace[p].op /\ r_out(p) = trace[p].r_out
  BY Zenon DEF op, r_out
<1>3. op(p) # "store"
  BY Zenon, <1>1, <1>2 DEF WellFormed
<1> QED
  BY Zenon, <1>3 DEF Enters, UsesUnit, USES_INT_FU, USES_FP_FU, WRITES_CDB

(* With idle units and a free bus the oldest instruction in a station has  *)
(* its operands, so something starts.                                      *)
LEMMA SomethingStarts ==
  ASSUME PInv, stage = "issue_To_execute", commonDataBus = NULL, reserv # {}, fu = {}
  PROVE  Starting # {}
<1> USE PaceTypes
<1>1. PICK i \in reserv : \A j \in reserv : i <= j
  <2>1. reserv \subseteq Nat
    BY Zenon
  <2> QED
    BY Zenon, <2>1, LeastMember
<1>2. i \in Index /\ i \in Trace /\ Issued(i) /\ Enters(i) /\ tom_execute_cycle[i] = 0
  BY Zenon DEF TimeInv
<1>3. ASSUME NEW p \in Q[i] PROVE FALSE
  <2>1. p \in Producers(i) /\ ~Broadcast(p)
    BY Zenon, <1>2 DEF NoStaleTag
  <2>2. p \in Trace /\ p < i /\ Enters(p) /\ p \in Index /\ p \in Nat /\ i \in Nat
    BY Zenon, <1>2, <2>1, Positions
  <2>3. r_out(p) # {}
    BY Zenon, <2>1 DEF Producers
  <2>4. WRITES_CDB(p)
    BY Zenon, <2>2, <2>3, WritersBroadcast
  <2>5. Issued(p)
    <3> SUFFICES ASSUME ~Issued(p) PROVE FALSE
      BY Zenon
    <3>1. i <= fetch_index
      BY Zenon, <1>2 DEF QueueInv
    <3>2. p <= fetch_index
      BY <2>2, <3>1
    <3>3. PICK k \in 1 .. Len(instr_queue) : instr_queue[k] = p
      BY Zenon, <2>2, <3>2 DEF QueueInv
    <3>4. i < p
      BY Zenon, <1>2, <3>3 DEF QueueInv
    <3> QED
      BY <2>2, <3>4
  <2>6. tom_execute_cycle[p] # 0
    <3>1. p \notin reserv
      BY SMTT(40), <1>1, <2>2
    <3> QED
      BY Zenon, <2>2, <2>5, <3>1 DEF StationInv
  <2>7. tom_cdb_cycle[p] # 0
    BY Zenon, <2>2, <2>4, <2>6 DEF StampInv
  <2>8. tom_cdb_cycle[p] <= cycle /\ tom_cdb_cycle[p] # cycle /\ tom_cdb_cycle[p] \in Nat
    BY Zenon, <2>2, Positions DEF StampInv, StationInv
  <2>9. tom_cdb_cycle[p] < cycle
    BY SMTT(40), <2>8
  <2> QED
    BY Zenon, <2>1, <2>7, <2>9 DEF Broadcast
<1>4. PICK u \in Units : UsesUnit(i, u)
  BY Zenon, <1>2 DEF Enters
<1>5. cycle > tom_issue_cycle[i]
  BY Zenon, <1>2 DEF TimeInv
<1>6. i \in Issueable(u) /\ Issueable(u) \subseteq Index
  BY Zenon, <1>2, <1>3, <1>4, <1>5 DEF Issueable
<1>7. Free(u) \in Nat /\ Free(u) # 0
  <2>1. {j \in fu : UsesUnit(j, u)} = {}
    BY Zenon
  <2>2. Free(u) = FU_SIZE[u] - 0
    BY Zenon, <2>1, FS_EmptySet DEF Free
  <2>3. FU_SIZE[u] \in Nat \ {0}
    BY Zenon, SizesAssumption
  <2> QED
    BY SMTT(40), <2>2, <2>3
<1>8. Oldest(Issueable(u), Free(u)) # {}
  BY Zenon, <1>6, <1>7, OldestExists
<1> QED
  BY Zenon, <1>8 DEF Starting

(* An instruction that has been broadcast by the end of the cycle leaves   *)
(* no entry in the map table: with empty stations the table is empty.      *)
LEMMA MapDrained ==
  ASSUME PInv, stage = "fetch_To_dispatch", reserv = {}, NEW r \in Reg
  PROVE  map_table[r] = NULL
<1> USE PaceTypes
<1>1. map_table[r] \in Index \cup {NULL}
  BY Zenon DEF TypeOK
<1>2. ASSUME NEW q \in Index, map_table[r] = q PROVE FALSE
  <2>1. Issued(q) /\ r \in r_out(q) /\ ~Broadcast(q)
    BY Zenon, <1>2 DEF NoStaleTag, LastWriter
  <2>2. Enters(q) /\ q \in Trace
    BY ZenonT(40), <2>1 DEF QueueInv, r_out
  <2>3. WRITES_CDB(q)
    BY Zenon, <2>1, <2>2, WritersBroadcast
  <2>4. tom_execute_cycle[q] # 0
    BY Zenon, <2>1 DEF StationInv
  <2>5. tom_cdb_cycle[q] # 0
    BY Zenon, <2>3, <2>4 DEF StampInv
  <2> QED
    BY Zenon, <2>1, <2>5 DEF Broadcast
<1> QED
  BY Zenon, <1>1, <1>2

(* CDB_To_retire gains and loses nothing. *)
LEMMA PaceRetire ==
  ASSUME PInv, OInv', CDB_To_retire
  PROVE  PaceInv'
<1>1. /\ stage = "CDB_To_retire" /\ stage' = "execute_To_CDB" /\ cycle' = cycle
      /\ reserv' = reserv /\ AllIn' = AllIn
  BY Zenon DEF CDB_To_retire, AllIn
<1>2. Within(3) /\ (reserv = {} /\ ~AllIn => Within(2))
  BY Zenon, <1>1, PaceTypes DEF PaceInv
<1>3. (Within(3) => Within(3)') /\ (Within(2) => Within(2)')
  BY Zenon, <1>1, ServedStep, PaceTypes, Pace DEF Next, runTomasulo
<1> QED
  BY Zenon, <1>1, <1>2, <1>3 DEF PaceInv

(* execute_To_CDB either lets an instruction out of its unit, which is a   *)
(* served cycle, or finds every busy unit still executing.                 *)
LEMMA PaceExecute ==
  ASSUME PInv, OInv', execute_To_CDB
  PROVE  PaceInv'
<1> USE PaceTypes
<1>1. /\ stage = "execute_To_CDB" /\ stage' = "issue_To_execute" /\ cycle' = cycle
      /\ commonDataBus = NULL /\ AllIn' = AllIn
      /\ trace' = trace /\ tom_execute_cycle' = tom_execute_cycle
  BY Zenon DEF execute_To_CDB, AllIn, TimeInv
<1>2. Within(3) /\ (reserv = {} /\ ~AllIn => Within(2))
  BY Zenon, <1>1 DEF PaceInv
<1>3. /\ (Within(3) => Within(3)') /\ (Within(2) => Within(2)')
      /\ \A x \in Served' : x \notin Served /\ Within(3) => Within(2)'
  BY ZenonT(40), <1>1, ServedStep, Pace DEF Next, runTomasulo
<1>4. CASE \E i \in fu : i \notin fu'
  <2>1. Within(2)'
    BY Zenon, <1>2, <1>3, <1>4, LeavingServed
  <2> QED
    BY Zenon, <1>1, <2>1 DEF PaceInv
<1>5. CASE \A i \in fu : i \in fu'
  <2> DEFINE leaving == {i \in Finished : ~WRITES_CDB(i)} \cup OldestComplete
  <2>1. /\ reserv' = reserv \ leaving /\ fu' = fu \ leaving
        /\ OldestComplete = {} => commonDataBus' = NULL
    BY Zenon, <1>1 DEF execute_To_CDB
  <2>2. OldestComplete \subseteq fu /\ Finished \subseteq fu
    BY Zenon DEF OldestComplete, Oldest, Finished
  <2>3. leaving = {} /\ OldestComplete = {}
    BY Zenon, <1>5, <2>1, <2>2
  <2>4. reserv' = reserv /\ fu' = fu /\ commonDataBus' = NULL
    BY Zenon, <2>1, <2>3
  <2>5. CASE reserv = {} /\ ~AllIn
    <3>1. Within(2)'
      BY Zenon, <1>2, <1>3, <2>5
    <3> QED
      BY Zenon, <1>1, <3>1 DEF PaceInv
  <2>6. CASE reserv = {} /\ AllIn
    <3>1. Within(3)' /\ reserv' = {} /\ AllIn'
      BY Zenon, <1>1, <1>2, <1>3, <2>4, <2>6
    <3> QED
      BY Zenon, <1>1, <2>4, <3>1 DEF PaceInv
  <2>7. CASE reserv # {} /\ fu = {}
    <3>1. Within(3)' /\ reserv' # {} /\ fu' = {}
      BY Zenon, <1>2, <1>3, <2>4, <2>7
    <3> QED
      BY Zenon, <1>1, <2>4, <3>1 DEF PaceInv
  <2>8. CASE fu # {}
    <3>1. PICK i \in fu : ~EXECUTION_DONE(i)
      <4> SUFFICES ASSUME \A i \in fu : EXECUTION_DONE(i) PROVE FALSE
        BY Zenon
      <4>1. {i \in Finished : WRITES_CDB(i)} # {} /\ {i \in Finished : WRITES_CDB(i)} \subseteq Index
        BY Zenon, <2>2, <2>3, <2>8 DEF Finished
      <4>2. 1 \in Nat /\ 1 # 0
        BY SMTT(40)
      <4>3. OldestComplete # {}
        BY Zenon, <4>1, <4>2, OldestExists DEF OldestComplete
      <4> QED
        BY Zenon, <2>3, <4>3
    <3>2. (~EXECUTION_DONE(i))'
      BY Zenon, <1>1, <3>1, Rigid DEF EXECUTION_DONE
    <3>3. Within(3)' /\ \E j \in fu' : ~EXECUTION_DONE(j)'
      BY Zenon, <1>2, <1>3, <2>4, <3>2
    <3> QED
      BY Zenon, <1>1, <2>4, <3>3 DEF PaceInv
  <2> QED
    BY Zenon, <2>5, <2>6, <2>7, <2>8
<1> QED
  BY Zenon, <1>4, <1>5

(* issue_To_execute serves a cycle of every busy unit, and starts an       *)
(* instruction when the units are idle.                                    *)
LEMMA PaceIssue ==
  ASSUME PInv, OInv', issue_To_execute
  PROVE  PaceInv'
<1> USE PaceTypes
<1>1. /\ stage = "issue_To_execute" /\ stage' = "dispatch_To_issue" /\ cycle' = cycle
      /\ commonDataBus' = commonDataBus /\ AllIn' = AllIn /\ reserv' = reserv
  BY Zenon DEF issue_To_execute, AllIn
<1>2. /\ (Within(3) => Within(3)') /\ (Within(2) => Within(2)')
      /\ \A x \in Served' : x \notin Served /\ Within(3) => Within(2)'
  BY Zenon, <1>1, ServedStep, Pace DEF Next, runTomasulo
<1>3. \/ Within(2)
      \/ /\ Within(3) /\ commonDataBus = NULL
         /\ \/ reserv = {} /\ AllIn
            \/ reserv # {} /\ fu = {}
            \/ \E i \in fu : ~EXECUTION_DONE(i)
  BY Zenon, <1>1 DEF PaceInv
<1>4. \/ Within(2)'
      \/ Within(3)' /\ commonDataBus' = NULL /\ reserv' = {} /\ AllIn'
  BY Zenon, <1>1, <1>2, <1>3, SomethingStarts, StartingServed, ExecutingServed
<1> QED
  BY Zenon, <1>1, <1>4 DEF PaceInv

(* Removing the only element of a sequence leaves the empty sequence. *)
LEMMA OnlyElement ==
  ASSUME NEW S, NEW s \in Seq(S), Len(s) = 1
  PROVE  Tail(s) = <<>>
<1>1. s # <<>>
  BY SMTT(40)
<1>2. Tail(s) \in Seq(S) /\ Len(Tail(s)) = Len(s) - 1
  BY <1>1
<1>3. Len(Tail(s)) = 0
  BY <1>2
<1> QED
  BY ZenonT(40), <1>2, <1>3, EmptySeq

(* The zero entry behind the trace is the last one fetched, so when it is  *)
(* the oldest in the queue it is the only one.                             *)
LEMMA LastInQueue ==
  ASSUME TypeOK, QueueInv, instr_queue # <<>>, Head(instr_queue) \notin Trace
  PROVE  fetch_index > sim_num_insn /\ Tail(instr_queue) = <<>>
<1>1. /\ sim_num_insn \in Nat /\ fetch_index \in 0 .. (sim_num_insn + 1)
      /\ instr_queue \in Seq(Index)
  BY Zenon, SizesAssumption DEF TypeOK
<1>2. /\ Head(instr_queue) = instr_queue[1] /\ 1 \in 1 .. Len(instr_queue)
      /\ Head(instr_queue) \in Index /\ Len(instr_queue) \in Nat
  BY <1>1
<1>3. instr_queue[1] = sim_num_insn + 1
  BY SMTT(40), <1>1, <1>2 DEF Index, Trace
<1>4. instr_queue[1] <= fetch_index
  BY Zenon, <1>2 DEF QueueInv
<1>5. fetch_index > sim_num_insn
  BY SMTT(40), <1>1, <1>3, <1>4
<1>6. Len(instr_queue) = 1
  <2> SUFFICES ASSUME Len(instr_queue) # 1 PROVE FALSE
    BY Zenon
  <2>1. 2 \in 1 .. Len(instr_queue) /\ 1 < 2
    <3>1. Len(instr_queue) \in Nat /\ 1 \in 1 .. Len(instr_queue)
      BY Zenon, <1>2
    <3>2. \A n \in Nat : n = 1 \/ 1 \notin 1 .. n \/ (2 \in 1 .. n /\ 1 < 2)
      OBVIOUS
    <3> QED
      BY Zenon, <3>1, <3>2
  <2>2. instr_queue[2] \in Index
    BY Zenon, <1>1, <2>1, ElementOfSeq
  <2>3. instr_queue[1] < instr_queue[2]
    BY Zenon, <1>2, <2>1 DEF QueueInv
  <2> QED
    BY SMTT(40), <1>1, <1>3, <2>2, <2>3 DEF Index
<1>7. Tail(instr_queue) = <<>>
  BY Zenon, <1>1, <1>6, OnlyElement
<1> QED
  BY Zenon, <1>5, <1>7

(* dispatch_To_issue empties the queue, fills a station or serves an       *)
(* instruction that uses no unit, except in the first cycle.               *)
LEMMA PaceDispatch ==
  ASSUME PInv, OInv', dispatch_To_issue
  PROVE  PaceInv'
<1> USE PaceTypes
<1>1. /\ stage = "dispatch_To_issue" /\ stage' = "fetch_To_dispatch" /\ cycle' = cycle
      /\ commonDataBus' = commonDataBus /\ fetch_index' = fetch_index
  BY Zenon DEF dispatch_To_issue
<1>2. /\ (Within(3) => Within(3)') /\ (Within(2) => Within(2)')
      /\ \A x \in Served' : x \notin Served /\ Within(2) => Within(1)'
      /\ cycle' = 1 => Within(1)'
  BY Zenon, <1>1, ServedStep, Pace DEF Next, runTomasulo
<1>3. \/ Within(2)
      \/ Within(3) /\ commonDataBus = NULL /\ reserv = {} /\ AllIn
  BY Zenon, <1>1 DEF PaceInv
<1> DEFINE Goal == \/ Within(1)'
                   \/ Within(2)' /\ (reserv' # {} \/ AllIn')
                   \/ Within(3)' /\ commonDataBus' = NULL /\ reserv' = {} /\ AllIn'
<1> SUFFICES Goal
  BY Zenon, <1>1 DEF PaceInv
<1>4. CASE ~Within(2)
  <2>1. /\ Within(3)' /\ commonDataBus' = NULL /\ reserv = {}
        /\ instr_queue = <<>> /\ fetch_index > sim_num_insn
    BY Zenon, <1>1, <1>2, <1>3, <1>4 DEF AllIn
  <2>2. reserv' = reserv /\ instr_queue' = instr_queue
    BY Zenon, <2>1 DEF dispatch_To_issue, Stall
  <2> QED
    BY ZenonT(40), <1>1, <2>1, <2>2 DEF AllIn
<1>5. ASSUME Within(2), NEW u \in Units, Reserve(Head(instr_queue), u) PROVE Goal
  <2>1. reserv' # {}
    BY Zenon, <1>5 DEF Reserve
  <2> QED
    BY Zenon, <1>2, <1>5, <2>1
<1>6. CASE Within(2) /\ instr_queue # <<>> /\ PopOnly(Head(instr_queue))
  <2>1. Head(instr_queue) \in Index /\ Head(instr_queue) = instr_queue[1] /\ 1 \in 1 .. Len(instr_queue)
    BY SMTT(40), <1>6
  <2>2. instr_queue' = Tail(instr_queue) /\ ~Enters(Head(instr_queue))
    BY Zenon, <1>6 DEF PopOnly, Enters
  <2>3. CASE Head(instr_queue) \in Trace
    BY Zenon, <1>2, <1>6, <2>2, <2>3, PoppedServed
  <2>4. CASE Head(instr_queue) \notin Trace
    <3>1. fetch_index > sim_num_insn /\ instr_queue' = <<>>
      BY ZenonT(40), <1>6, <2>2, <2>4, LastInQueue
    <3> QED
      BY Zenon, <1>1, <1>2, <1>6, <3>1 DEF AllIn
  <2> QED
    BY Zenon, <2>3, <2>4
<1>7. CASE Within(2) /\ Stall
  <2>1. instr_queue' = instr_queue /\ reserv' = reserv
    BY Zenon, <1>7 DEF Stall
  <2>2. CASE instr_queue = <<>> /\ fetch_index > sim_num_insn
    BY Zenon, <1>1, <1>2, <1>7, <2>1, <2>2 DEF AllIn
  <2>3. CASE instr_queue = <<>> /\ ~(fetch_index > sim_num_insn)
    <3>1. fetch_index <= sim_num_insn
      BY <2>3
    <3>2. stage # "fetch_To_dispatch"
      BY Zenon, <1>1
    <3>3. cycle' = 1
      BY Zenon, <1>1, <2>3, <3>1, <3>2 DEF TimeInv
    <3> QED
      BY Zenon, <1>2, <3>3
  <2>4. CASE instr_queue # <<>>
    <3>1. PICK u \in Units : Cardinality({i \in reserv : UsesUnit(i, u)}) >= RESERV_SIZE[u]
      BY Zenon, <1>7, <2>4 DEF Stall
    <3>2. reserv # {}
      <4> SUFFICES ASSUME reserv = {} PROVE FALSE
        BY Zenon
      <4>1. {i \in reserv : UsesUnit(i, u)} = {}
        BY Zenon
      <4>2. Cardinality({i \in reserv : UsesUnit(i, u)}) = 0
        BY Zenon, <4>1, FS_EmptySet
      <4>3. RESERV_SIZE[u] \in Nat \ {0}
        BY Zenon, SizesAssumption
      <4> QED
        BY SMTT(40), <3>1, <4>2, <4>3
    <3> QED
      BY ZenonT(40), <1>2, <1>7, <2>1, <3>2
  <2> QED
    BY Zenon, <2>2, <2>3, <2>4
<1> QED
  BY ZenonT(40), <1>4, <1>5, <1>6, <1>7 DEF dispatch_To_issue

(* fetch_To_dispatch ends the cycle, or the program.  A machine that is    *)
(* three cycles behind has nothing left to do, and stops.                  *)
LEMMA PaceFetch ==
  ASSUME PInv, OInv', fetch_To_dispatch
  PROVE  PaceInv'
<1> USE PaceTypes
<1>1. /\ stage = "fetch_To_dispatch" /\ reserv' = reserv /\ commonDataBus' = commonDataBus
      /\ \/ is_simulation_done /\ stage' = "done" /\ cycle' = cycle
         \/ ~is_simulation_done /\ stage' = "CDB_To_retire" /\ cycle' = cycle + 1
  BY Zenon DEF fetch_To_dispatch
<1>2. /\ (Within(1)' => Within(2)') /\ (Within(2)' => Within(3)')
      /\ cycle' = cycle => /\ Within(1) => Within(1)'
                           /\ Within(2) => Within(2)'
                           /\ Within(3) => Within(3)'
      /\ cycle' = cycle + 1 => /\ Within(1) => Within(2)'
                               /\ Within(2) => Within(3)'
  BY Zenon, ServedStep, Pace DEF Next, runTomasulo
<1>3. \/ Within(1)
      \/ Within(2) /\ (reserv # {} \/ AllIn)
      \/ Within(3) /\ commonDataBus = NULL /\ reserv = {} /\ AllIn
  BY Zenon, <1>1 DEF PaceInv
<1>4. AllIn => AllIn'
  <2>1. AllIn => ~WillFetch
    BY DEF AllIn, WillFetch
  <2> QED
    BY Zenon, <2>1 DEF AllIn, fetch_To_dispatch
<1>5. CASE stage' = "done" /\ cycle' = cycle
  <2>1. Within(3)'
    BY Zenon, <1>2, <1>3, <1>5
  <2> QED
    BY Zenon, <1>5, <2>1 DEF PaceInv
<1>6. CASE ~is_simulation_done /\ stage' = "CDB_To_retire" /\ cycle' = cycle + 1
  <2>1. CASE Within(1)
    <3>1. Within(2)' /\ Within(3)'
      BY Zenon, <1>2, <1>6, <2>1
    <3> QED
      BY Zenon, <1>6, <3>1 DEF PaceInv
  <2>2. CASE Within(2) /\ (reserv # {} \/ AllIn)
    <3>1. Within(3)' /\ ~(reserv' = {} /\ ~AllIn')
      BY Zenon, <1>1, <1>2, <1>4, <1>6, <2>2
    <3> QED
      BY Zenon, <1>6, <3>1 DEF PaceInv
  <2>3. CASE commonDataBus = NULL /\ reserv = {} /\ AllIn
    <3>1. fu = {} /\ \A r \in Reg : map_table[r] = NULL
      BY Zenon, <1>1, <2>3, MapDrained
    <3> QED
      BY Zenon, <1>4, <1>6, <2>3, <3>1 DEF is_simulation_done, AllIn
  <2> QED
    BY Zenon, <1>3, <2>1, <2>2, <2>3
<1> QED
  BY Zenon, <1>1, <1>5, <1>6

(* PInv holds initially. *)
LEMMA PaceInit ==
  ASSUME Init
  PROVE  PInv
<1>1. OInv /\ Occupancy
  BY Zenon, OrderInit, OccupancyInit
<1>2. /\ cycle = 1 /\ stage = "CDB_To_retire" /\ reserv = {}
      /\ commonDataBus = NULL
      /\ \A i \in Index : tom_issue_cycle[i] = 0 /\ tom_execute_cycle[i] = 0
  BY Zenon DEF Init
<1>3. TimeInv
  BY <1>2 DEF TimeInv
<1>4. Cardinality(Served) \in Nat
  <2>1. IsFiniteSet(Work) /\ Served \subseteq Work
    BY Zenon, <1>1, WorkCount DEF Served, OInv, IInv
  <2> QED
    BY Zenon, <2>1, FS_Subset, FS_CardinalityType
<1>5. Within(3) /\ Within(2)
  BY <1>2, <1>4 DEF Within
<1>6. PaceInv
  BY Zenon, <1>2, <1>5 DEF PaceInv
<1> QED
  BY Zenon, <1>1, <1>3, <1>6 DEF PInv

(* Every step preserves PInv. *)
LEMMA PaceStep ==
  ASSUME PInv, [Next]_vars
  PROVE  PInv'
<1>1. OInv /\ Occupancy /\ IInv
  BY Zenon, PaceTypes
<1>2. OInv' /\ Occupancy'
  BY Zenon, <1>1, OrderStep, OccupancyStep
<1>3. TimeInv'
  BY Zenon, <1>2, TimeStep
<1>4. CASE UNCHANGED vars
  <2>1. /\ stage' = stage /\ reserv' = reserv /\ fu' = fu /\ commonDataBus' = commonDataBus
        /\ AllIn' = AllIn /\ cycle' = cycle /\ trace' = trace
        /\ tom_execute_cycle' = tom_execute_cycle
    BY Zenon, <1>4 DEF vars, stamps, AllIn
  <2>2. /\ Within(1) => Within(1)'
        /\ Within(2) => Within(2)'
        /\ Within(3) => Within(3)'
    BY Zenon, <1>2, <2>1, PaceTypes, ServedStep, Pace
  <2>3. \A i \in fu : ~EXECUTION_DONE(i) => ~EXECUTION_DONE(i)'
    BY Zenon, <2>1, PaceTypes, Rigid DEF EXECUTION_DONE
  <2>4. PaceInv
    BY Zenon, PaceTypes
  <2>5. PaceInv'
    BY SMTT(40), <2>1, <2>2, <2>3, <2>4 DEF PaceInv
  <2> QED
    BY Zenon, <1>2, <1>3, <2>5 DEF PInv
<1>5. CASE Next
  <2>1. CASE runTomasulo
    BY Zenon, <1>2, <1>3, <2>1, PaceRetire, PaceExecute, PaceIssue, PaceDispatch, PaceFetch
       DEF runTomasulo, PInv
  <2> QED
    BY Zenon, <1>4, <1>5, <2>1 DEF Next, Returned
<1> QED
  BY Zenon, <1>4, <1>5

(* Overlapping the instructions never costs anything: runTomasulo returns  *)
(* a cycle count that is at most the sum of the units' latencies plus one  *)
(* per instruction, plus three, for every program, every number of         *)
(* stations and units and every latency.                                   *)
THEOREM BoundedTime == Spec => []NeverSlower
<1>1. Init => PInv
  BY Zenon, PaceInit
<1>2. PInv /\ [Next]_vars => PInv'
  BY Zenon, PaceStep
<1>3. PInv => NeverSlower
  <2> SUFFICES ASSUME PInv PROVE NeverSlower
    BY Zenon
  <2>1. IsFiniteSet(Work) /\ Served \subseteq Work /\ Cardinality(Work) + 3 = SerialTime
    BY Zenon, PaceTypes, WorkCount DEF Served
  <2>2. /\ Cardinality(Served) <= Cardinality(Work)
        /\ Cardinality(Served) \in Nat /\ Cardinality(Work) \in Nat
    BY Zenon, <2>1, FS_Subset, FS_CardinalityType
  <2>3. Within(1) \/ Within(2) \/ Within(3)
    BY Zenon, PaceTypes DEF PaceInv, TypeOK
  <2> QED
    <3>1. cycle \in Nat
      BY Zenon, PaceTypes
    <3> QED
      BY SMTT(40), <2>1, <2>2, <2>3, <3>1 DEF Within, NeverSlower
<1> QED
  BY <1>1, <1>2, <1>3, PTL DEF Spec

=============================================================================
