-------------------------------- MODULE MSI --------------------------------
(***************************************************************************)
(* The directory MSI coherence protocol of Lab5: the L1 cache controller   *)
(* (MSI-cache.sm), the directory controller (MSI-dir.sm), their messages   *)
(* (MSI-msg.sm), the ordered virtual networks between them, the Ruby       *)
(* sequencer that turns CPU requests into mandatory-queue entries and the  *)
(* controller's callbacks into CPU responses, and the memory controller.   *)
(*                                                                         *)
(* One cache line is modelled.  Other lines act on it only by taking its   *)
(* way (the Replacement event, possible at any time) and by standing       *)
(* before it in a FIFO, which is a delay.                                  *)
(*                                                                         *)
(* One action is one generated doTransition call: all the SLICC actions of *)
(* a transition, the pop of the in-port and setState happen together.  A   *)
(* stalled (state, event) pair has no action: the message stays at the     *)
(* head of its buffer.                                                     *)
(***************************************************************************)
EXTENDS Integers, Sequences, FiniteSets

CONSTANTS
  Cache,          \* the L1 caches; each has one sequencer and one CPU
  Dir,            \* the directory controller
  Value,          \* contents of the cache line
  InitValue,      \* a cleared DataBlock, and the initial memory contents
  ReqType,        \* the request types the CPUs issue
  SendEvictions,  \* the controller parameter send_evictions (O3 CPUs)
  UseMap,         \* DirectoryMemory is a sparse map (se.py) or an array
  AccessPhysMem   \* RubyPort's access_phys_mem: CPU data is M5's, not Ruby's

ASSUME MSIAssumption ==
  /\ IsFiniteSet(Cache)
  /\ Dir \notin Cache
  /\ InitValue \in Value
  /\ ReqType \subseteq {"LD", "ST", "LL", "SC"}
  /\ SendEvictions \in BOOLEAN
  /\ UseMap \in BOOLEAN
  /\ AccessPhysMem \in BOOLEAN

VARIABLES
  requestTable,    \* the sequencer's outstanding request for the line
  mandatoryQueue,  \* sequencer -> cache controller
  result,          \* the data the last load of each CPU returned
  lsq,             \* the CPU's load queue holds an executed, uncommitted load of
                   \* the line and has seen no eviction of it since
  cacheState,      \* state of the line in each L1
  DataBlk,         \* data in the cache entry
  locked,          \* m_locked of the entry names this sequencer
  tbeData,         \* data in the L1's TBE
  pendingAcks,     \* acks the TBE still waits for, negative before the data
  requestNet,      \* requests of each cache in flight on virtual network 2
  requestToDir,    \* requests that reached the directory
  forwardToCache,  \* virtual network 3, directory -> cache
  responseNet,     \* virtual network 4, from any machine to any machine
  dirState, Sharers, Owner,
  dirData,         \* DataBlk of the directory entry
  memBuffer,       \* requests the memory controller works on
  physMem,         \* M5 physical memory; without access_phys_mem a history
                   \* variable: what the last completed write left
  reserved         \* history: no other CPU wrote since this CPU's last LL

cpuVars   == <<requestTable, mandatoryQueue, result, lsq>>
cacheVars == <<cacheState, DataBlk, locked, tbeData, pendingAcks>>
dirVars   == <<dirState, Sharers, Owner, dirData, memBuffer>>
netVars   == <<requestNet, requestToDir, forwardToCache, responseNet>>
vars == <<cpuVars, cacheVars, netVars, dirVars, physMem, reserved>>

(***************************************************************************)
(* Types.                                                                  *)
(***************************************************************************)
CacheStates == {"I", "S", "M", "IS_D", "IM_AD", "IM_A", "SM_AD", "SM_A",
                "MI_A", "SI_A", "II_A"}
DirStates   == {"I", "M", "S", "IS_MD", "IM_MD", "MS_OD", "MS_MA", "MI_MA"}
Machine     == Cache \cup {Dir}
NoRequest   == "NULL"
StoreTypes  == {"ST", "LL", "SC"}

RequestMsg  == [Type : {"GETS", "GETM", "PUTS", "PUTM"},
                Requestor : Cache, DataBlk : Value]
ForwardMsg  == [Type : {"GETS", "GETM", "INV", "WB_ACK"}, Requestor : Machine]
ResponseMsg == [Type : {"DATA_FROM_DIR", "DATA_FROM_OWNER", "ACK", "DATA"},
                DataBlk : Value, AckCount : Int]
MemoryMsg   == [Type : {"MEMORY_READ", "MEMORY_WB"},
                OriginalRequestor : Cache, DataBlk : Value]

TypeOK ==
  /\ requestTable \in [Cache -> ReqType \cup {NoRequest}]
  /\ mandatoryQueue \in [Cache -> Seq(ReqType)]
  /\ result \in [Cache -> Value]
  /\ lsq \in [Cache -> BOOLEAN]
  /\ cacheState \in [Cache -> CacheStates]
  /\ DataBlk \in [Cache -> Value]
  /\ locked \in [Cache -> BOOLEAN]
  /\ tbeData \in [Cache -> Value]
  /\ pendingAcks \in [Cache -> Int]
  /\ requestNet \in [Cache -> Seq(RequestMsg)]
  /\ requestToDir \in Seq(RequestMsg)
  /\ forwardToCache \in [Cache -> Seq(ForwardMsg)]
  /\ responseNet \in [Machine -> [Machine -> Seq(ResponseMsg)]]
  /\ dirState \in DirStates
  /\ Sharers \in SUBSET Cache
  /\ Owner \in SUBSET Cache
  /\ dirData \in Value
  /\ memBuffer \in Seq(MemoryMsg)
  /\ physMem \in Value
  /\ reserved \in [Cache -> BOOLEAN]

Init ==
  /\ requestTable = [c \in Cache |-> NoRequest]
  /\ mandatoryQueue = [c \in Cache |-> <<>>]
  /\ result = [c \in Cache |-> InitValue]
  /\ lsq = [c \in Cache |-> FALSE]
  /\ cacheState = [c \in Cache |-> "I"]
  /\ DataBlk = [c \in Cache |-> InitValue]
  /\ locked = [c \in Cache |-> FALSE]
  /\ tbeData = [c \in Cache |-> InitValue]
  /\ pendingAcks = [c \in Cache |-> 0]
  /\ requestNet = [c \in Cache |-> <<>>]
  /\ requestToDir = <<>>
  /\ forwardToCache = [c \in Cache |-> <<>>]
  /\ responseNet = [s \in Machine |-> [d \in Machine |-> <<>>]]
  /\ dirState = "I"
  /\ Sharers = {}
  /\ Owner = {}
  /\ dirData = InitValue
  /\ memBuffer = <<>>
  /\ physMem = InitValue
  /\ reserved = [c \in Cache |-> FALSE]

-----------------------------------------------------------------------------
(***************************************************************************)
(* Sends and receives.  A buffer is a FIFO; requests of different caches   *)
(* and responses of different machines may overtake each other.            *)
(***************************************************************************)
SendRequest(c, type, data) ==
  requestNet' = [requestNet EXCEPT ![c] =
                   Append(@, [Type |-> type, Requestor |-> c, DataBlk |-> data])]

Response(type, data, count) ==
  [Type |-> type, DataBlk |-> data, AckCount |-> count]

SendResponse(src, dst, m) ==
  responseNet' = [responseNet EXCEPT ![src][dst] = Append(@, m)]

PopResponse(src, dst) ==
  responseNet' = [responseNet EXCEPT ![src][dst] = Tail(@)]

o_popForwardedRequestQueue(c) ==
  forwardToCache' = [forwardToCache EXCEPT ![c] = Tail(@)]

\* Mutant: the request stays in the queue after its transition.
m_popMandatoryQueue_kept(c) == UNCHANGED mandatoryQueue

m_popMandatoryQueue(c) ==
  mandatoryQueue' = [mandatoryQueue EXCEPT ![c] = Tail(@)]

i_popIncomingRequestQueue == requestToDir' = Tail(requestToDir)

qm_popMemQueue == memBuffer' = Tail(memBuffer)

(***************************************************************************)
(* Events: what an in-port makes of the message at its head.               *)
(***************************************************************************)
mandatory_request_type_to_event(t) == IF t = "LD" THEN "Load" ELSE "Store"

ForwardEvent ==
  [GETM |-> "Fwd_GetM", GETS |-> "Fwd_GetS", INV |-> "Inv", WB_ACK |-> "WB_Ack"]

ResponseEvent(c, m) ==
  LET last == pendingAcks[c] - m.AckCount = 0
  IN  CASE m.Type = "DATA_FROM_DIR" /\ m.AckCount = 0 -> "Data_from_Dir_No_Acks"
        [] m.Type = "DATA_FROM_DIR" /\ m.AckCount # 0 /\ last ->
             "Data_from_Dir_Ack_Cnt_Last"
        [] m.Type = "DATA_FROM_DIR" /\ m.AckCount # 0 /\ ~last ->
             "Data_from_Dir_Ack_Cnt"
        [] m.Type = "DATA_FROM_OWNER" -> "Data_from_Owner"
        [] m.Type = "ACK" /\ last -> "Inv_Ack_all"
        [] m.Type = "ACK" /\ ~last -> "Inv_Ack"
        [] OTHER -> "error"

RequestEvent(m) ==
  LET lastSharer == Cardinality(Sharers) < 2 /\ m.Requestor \in Sharers
  IN  CASE m.Type \in {"GETS", "GETM"} -> m.Type
        [] m.Type = "PUTM" /\ m.Requestor \in Owner -> "PUTM_Owner"
        [] m.Type = "PUTM" /\ m.Requestor \notin Owner -> "PUTM_NotOwner"
        [] m.Type = "PUTS" /\ lastSharer -> "PUTS_Last"
        [] m.Type = "PUTS" /\ ~lastSharer -> "PUTS_NotLast"

MandatoryReady(c, event) ==
  /\ mandatoryQueue[c] # <<>>
  /\ mandatory_request_type_to_event(Head(mandatoryQueue[c])) = event

ForwardReady(c, event) ==
  /\ forwardToCache[c] # <<>>
  /\ ForwardEvent[Head(forwardToCache[c]).Type] = event

ResponseReady(c, s, events) ==
  /\ responseNet[s][c] # <<>>
  /\ ResponseEvent(c, Head(responseNet[s][c])) \in events

RequestReady(events) ==
  /\ requestToDir # <<>>
  /\ RequestEvent(Head(requestToDir)) \in events

MemoryReady(type) == memBuffer # <<>> /\ Head(memBuffer).Type = type

-----------------------------------------------------------------------------
(***************************************************************************)
(* The sequencer.  makeRequest admits one request per line; writeCallback  *)
(* and readCallback retire it.  A store's data is picked when the callback *)
(* merges it: nothing looks at the packet before.                          *)
(***************************************************************************)
makeRequest(c, type) ==
  /\ requestTable[c] = NoRequest
  /\ requestTable' = [requestTable EXCEPT ![c] = type]
  /\ mandatoryQueue' = [mandatoryQueue EXCEPT ![c] = Append(@, type)]
  /\ UNCHANGED <<result, lsq, cacheVars, netVars, dirVars, physMem, reserved>>

\* RubyPort's hitCallback: a read answers from physical memory or from Ruby.
ReadData(blk) == IF AccessPhysMem THEN physMem ELSE blk

\* The load queue has the data of a load, LL included; MSI.py sets
\* send_evictions for the O3 CPU, the only one with a load queue.
completeDataAccess(c, isLoad) ==
  lsq' = [lsq EXCEPT ![c] = IF isLoad THEN SendEvictions ELSE @]

readCallback(c, blk) ==
  /\ requestTable' = [requestTable EXCEPT ![c] = NoRequest]
  /\ result' = [result EXCEPT ![c] = ReadData(blk)]
  /\ completeDataAccess(c, TRUE)
  /\ UNCHANGED <<physMem, reserved>>

\* handleLlsc: only an SC can fail, when the entry is not locked.
Success(c) == requestTable[c] = "SC" => locked[c]

\* blk is the entry's data at the call, v the data in the packet.  hitCallback
\* merges v into the Ruby block for every write, a failed SC included; physical
\* memory is written by successful ones only.
writeCallback(c, blk, v) ==
  LET isLL   == requestTable[c] = "LL"
      writes == ~isLL /\ Success(c)
  IN  /\ requestTable' = [requestTable EXCEPT ![c] = NoRequest]
      /\ DataBlk' = [DataBlk EXCEPT ![c] = IF isLL THEN blk ELSE v]
      /\ locked' = [locked EXCEPT ![c] = isLL]
      /\ physMem' = IF writes THEN v ELSE physMem
      /\ result' = [result EXCEPT ![c] = IF isLL THEN ReadData(blk) ELSE @]
      /\ reserved' = [d \in Cache |-> IF d = c THEN isLL
                                      ELSE reserved[d] /\ ~writes]
      /\ completeDataAccess(c, isLL)

\* Mutant: the CPU is never told.
forward_eviction_to_cpu_lost(c) == UNCHANGED lsq

\* The load queue marks its loads of the line: they are executed again, or
\* tested when an older load executes.
checkSnoop(c) == lsq' = [lsq EXCEPT ![c] = FALSE]

\* evictionCallback: the CPU's load queue learns that the line is gone.
forward_eviction_to_cpu(c) == IF SendEvictions THEN checkSnoop(c) ELSE UNCHANGED lsq

\* commitLoad; from here on an eviction does not concern the load.
Commit(c) ==
  /\ lsq[c]
  /\ lsq' = [lsq EXCEPT ![c] = FALSE]
  /\ UNCHANGED <<requestTable, mandatoryQueue, result, cacheVars, netVars,
                 dirVars, physMem, reserved>>

-----------------------------------------------------------------------------
(***************************************************************************)
(* L1 cache controller, mandatory queue: CPU requests and replacements.    *)
(***************************************************************************)
\* Mutant: the next entry of the line inherits the lock.
h_deallocateL1CacheBlock_locked(c) ==
  DataBlk' = [DataBlk EXCEPT ![c] = InitValue] /\ UNCHANGED locked

h_deallocateL1CacheBlock(c) ==
  /\ DataBlk' = [DataBlk EXCEPT ![c] = InitValue]
  /\ locked' = [locked EXCEPT ![c] = FALSE]

\* A TBE keeps its data and its count from v_allocateTBE to w_deallocateTBE.
w_deallocateTBE(c) ==
  /\ tbeData' = [tbeData EXCEPT ![c] = InitValue]
  /\ pendingAcks' = [pendingAcks EXCEPT ![c] = 0]

\* Mutant: the TBE of a replaced line keeps its cleared block.
x_copyDataFromCacheToTBE_skipped(c) == UNCHANGED tbeData

x_copyDataFromCacheToTBE(c) == tbeData' = [tbeData EXCEPT ![c] = DataBlk[c]]

SetState(c, next) == cacheState' = [cacheState EXCEPT ![c] = next]

as_issueGetS(c) ==
  /\ MandatoryReady(c, "Load")
  /\ cacheState[c] = "I"
  /\ SetState(c, "IS_D")
  /\ SendRequest(c, "GETS", InitValue)
  /\ m_popMandatoryQueue(c)
  /\ UNCHANGED <<requestTable, result, lsq, DataBlk, locked, tbeData,
                 pendingAcks, requestToDir, forwardToCache, responseNet,
                 dirVars, physMem, reserved>>

am_issueGetM(c) ==
  /\ MandatoryReady(c, "Store")
  /\ \/ /\ cacheState[c] = "I"
        /\ SetState(c, "IM_AD")
        /\ UNCHANGED tbeData
     \/ /\ cacheState[c] = "S"
        /\ SetState(c, "SM_AD")
        /\ x_copyDataFromCacheToTBE(c)
  /\ SendRequest(c, "GETM", InitValue)
  /\ m_popMandatoryQueue(c)
  /\ UNCHANGED <<requestTable, result, lsq, DataBlk, locked, pendingAcks,
                 requestToDir, forwardToCache, responseNet, dirVars, physMem,
                 reserved>>

r_load_hit(c) ==
  /\ MandatoryReady(c, "Load")
  /\ cacheState[c] \in {"S", "SM_AD", "SM_A", "M"}
  /\ readCallback(c, DataBlk[c])
  /\ m_popMandatoryQueue(c)
  /\ UNCHANGED <<cacheVars, netVars, dirVars>>

s_store_hit(c, v) ==
  /\ MandatoryReady(c, "Store")
  /\ cacheState[c] = "M"
  /\ writeCallback(c, DataBlk[c], v)
  /\ m_popMandatoryQueue(c)
  /\ UNCHANGED <<cacheState, tbeData, pendingAcks, netVars, dirVars>>

\* Another line needs this line's way: the mandatory in-port's Replacement.
Replacement(c) ==
  /\ \/ /\ cacheState[c] = "S"
        /\ SetState(c, "SI_A")
        /\ SendRequest(c, "PUTS", DataBlk[c])
     \/ /\ cacheState[c] = "M"
        /\ SetState(c, "MI_A")
        /\ SendRequest(c, "PUTM", DataBlk[c])
  /\ x_copyDataFromCacheToTBE(c)
  /\ UNCHANGED <<cpuVars, DataBlk, locked, pendingAcks, requestToDir,
                 forwardToCache, responseNet, dirVars, physMem, reserved>>

(***************************************************************************)
(* L1 cache controller, forwarded requests.                              *)
(***************************************************************************)
fi_sendInvAck(c) ==
  SendResponse(c, Head(forwardToCache[c]).Requestor,
               Response("ACK", InitValue, 1))

I_Inv(c) == cacheState[c] = "I" /\ SetState(c, "I")

SM_AD_Inv(c) == cacheState[c] = "SM_AD" /\ SetState(c, "IM_AD")

\* Mutant: an invalidated PUTS forgets that its WB_ACK is still to come.
SI_A_Inv_to_I(c) == cacheState[c] = "SI_A" /\ SetState(c, "I")

SI_A_Inv(c) == cacheState[c] = "SI_A" /\ SetState(c, "II_A")

\* Inv where the transition only acknowledges it.
AckInv(c) ==
  /\ ForwardReady(c, "Inv")
  /\ I_Inv(c) \/ SM_AD_Inv(c) \/ SI_A_Inv(c)
  /\ fi_sendInvAck(c)
  /\ o_popForwardedRequestQueue(c)
  /\ UNCHANGED <<cpuVars, DataBlk, locked, tbeData, pendingAcks, requestNet,
                 requestToDir, dirVars, physMem, reserved>>

InvalidateS(c) ==
  /\ ForwardReady(c, "Inv")
  /\ cacheState[c] = "S"
  /\ SetState(c, "I")
  /\ forward_eviction_to_cpu(c)
  /\ fi_sendInvAck(c)
  /\ h_deallocateL1CacheBlock(c)
  /\ o_popForwardedRequestQueue(c)
  /\ UNCHANGED <<requestTable, mandatoryQueue, result, tbeData, pendingAcks,
                 requestNet, requestToDir, dirVars, physMem, reserved>>

\* Data to the requestor and to the directory.
SendDataToBoth(c, data) ==
  responseNet' = [responseNet EXCEPT
    ![c] = [d \in Machine |->
      IF d = Head(forwardToCache[c]).Requestor
        THEN Append(@[d], Response("DATA_FROM_OWNER", data, 0))
      ELSE IF d = Dir THEN Append(@[d], Response("DATA", data, 0))
      ELSE @[d]]]

FwdGetS(c) ==
  /\ ForwardReady(c, "Fwd_GetS")
  /\ \/ cacheState[c] = "M"    /\ SetState(c, "S")    /\ SendDataToBoth(c, DataBlk[c])
     \/ cacheState[c] = "MI_A" /\ SetState(c, "SI_A") /\ SendDataToBoth(c, tbeData[c])
  /\ o_popForwardedRequestQueue(c)
  /\ UNCHANGED <<cpuVars, DataBlk, locked, tbeData, pendingAcks, requestNet,
                 requestToDir, dirVars, physMem, reserved>>

SendDataFromOwner(c, data) ==
  SendResponse(c, Head(forwardToCache[c]).Requestor,
               Response("DATA_FROM_OWNER", data, 0))

FwdGetM(c) ==
  /\ ForwardReady(c, "Fwd_GetM")
  /\ \/ /\ cacheState[c] = "M"
        /\ SetState(c, "I")
        /\ SendDataFromOwner(c, DataBlk[c])
        /\ forward_eviction_to_cpu(c)
        /\ h_deallocateL1CacheBlock(c)
     \/ /\ cacheState[c] = "MI_A"
        /\ SetState(c, "II_A")
        /\ SendDataFromOwner(c, tbeData[c])
        /\ UNCHANGED <<lsq, DataBlk, locked>>
  /\ o_popForwardedRequestQueue(c)
  /\ UNCHANGED <<requestTable, mandatoryQueue, result, tbeData, pendingAcks,
                 requestNet, requestToDir, dirVars, physMem, reserved>>

WBAck(c) ==
  /\ ForwardReady(c, "WB_Ack")
  /\ cacheState[c] \in {"MI_A", "SI_A", "II_A"}
  /\ SetState(c, "I")
  /\ forward_eviction_to_cpu(c)
  /\ h_deallocateL1CacheBlock(c)
  /\ w_deallocateTBE(c)
  /\ o_popForwardedRequestQueue(c)
  /\ UNCHANGED <<requestTable, mandatoryQueue, result, requestNet,
                 requestToDir, responseNet, dirVars, physMem, reserved>>

(***************************************************************************)
(* L1 cache controller, responses from machine s.                          *)
(***************************************************************************)
q_updateAckCount(c, m) ==
  pendingAcks' = [pendingAcks EXCEPT ![c] = @ - m.AckCount]

rx_load_hit(c, s) ==
  LET m == Head(responseNet[s][c])
  IN  /\ ResponseReady(c, s, {"Data_from_Dir_No_Acks", "Data_from_Owner"})
      /\ cacheState[c] = "IS_D"
      /\ SetState(c, "S")
      /\ DataBlk' = [DataBlk EXCEPT ![c] = m.DataBlk]
      /\ readCallback(c, m.DataBlk)
      /\ w_deallocateTBE(c)
      /\ PopResponse(s, c)
      /\ UNCHANGED <<mandatoryQueue, locked, requestNet, requestToDir,
                     forwardToCache, dirVars>>

\* The data is the last thing the store waited for.
sx_store_hit_data(c, s, v) ==
  LET m == Head(responseNet[s][c])
  IN  /\ ResponseReady(c, s, {"Data_from_Dir_No_Acks", "Data_from_Owner",
                              "Data_from_Dir_Ack_Cnt_Last"})
      /\ cacheState[c] \in {"IM_AD", "SM_AD"}
      /\ SetState(c, "M")
      /\ writeCallback(c, m.DataBlk, v)
      /\ w_deallocateTBE(c)
      /\ PopResponse(s, c)
      /\ UNCHANGED <<mandatoryQueue, requestNet, requestToDir, forwardToCache,
                     dirVars>>

\* The data came, acknowledgements are missing.
u_writeDataToCache(c, s) ==
  LET m == Head(responseNet[s][c])
  IN  /\ ResponseReady(c, s, {"Data_from_Dir_Ack_Cnt"})
      /\ \/ cacheState[c] = "IM_AD" /\ SetState(c, "IM_A")
         \/ cacheState[c] = "SM_AD" /\ SetState(c, "SM_A")
      /\ DataBlk' = [DataBlk EXCEPT ![c] = m.DataBlk]
      /\ q_updateAckCount(c, m)
      /\ PopResponse(s, c)
      /\ UNCHANGED <<cpuVars, locked, tbeData, requestNet, requestToDir,
                     forwardToCache, dirVars, physMem, reserved>>

InvAck(c, s) ==
  /\ ResponseReady(c, s, {"Inv_Ack"})
  /\ cacheState[c] \in {"IM_AD", "IM_A", "SM_AD", "SM_A"}
  /\ q_updateAckCount(c, Head(responseNet[s][c]))
  /\ PopResponse(s, c)
  /\ UNCHANGED <<cpuVars, cacheState, DataBlk, locked, tbeData, requestNet,
                 requestToDir, forwardToCache, dirVars, physMem, reserved>>

\* The last acknowledgement.
sx_store_hit_acks(c, s, v) ==
  /\ ResponseReady(c, s, {"Inv_Ack_all"})
  /\ cacheState[c] \in {"IM_A", "SM_A"}
  /\ SetState(c, "M")
  /\ writeCallback(c, DataBlk[c], v)
  /\ w_deallocateTBE(c)
  /\ PopResponse(s, c)
  /\ UNCHANGED <<mandatoryQueue, requestNet, requestToDir, forwardToCache,
                 dirVars>>

-----------------------------------------------------------------------------
(***************************************************************************)
(* Directory controller.  req is the request at the head of requestToDir.  *)
(***************************************************************************)
req == Head(requestToDir)

RequestArrives(c) ==
  /\ requestNet[c] # <<>>
  /\ requestToDir' = Append(requestToDir, Head(requestNet[c]))
  /\ requestNet' = [requestNet EXCEPT ![c] = Tail(@)]
  /\ UNCHANGED <<cpuVars, cacheVars, forwardToCache, responseNet, dirVars,
                 physMem, reserved>>

SendForward(dests, type, requestor) ==
  forwardToCache' = [d \in Cache |->
    IF d \in dests
      THEN Append(forwardToCache[d], [Type |-> type, Requestor |-> requestor])
      ELSE forwardToCache[d]]

\* Mutant: a put handled on the request queue is not acknowledged.
a_sendWriteBackAck_lost == UNCHANGED forwardToCache

a_sendWriteBackAck == SendForward({req.Requestor}, "WB_ACK", Dir)

\* Mutant: a put handled on the memory queue is not acknowledged.
la_sendWriteBackAck_lost == UNCHANGED forwardToCache

la_sendWriteBackAck ==
  LET r == Head(memBuffer).OriginalRequestor IN SendForward({r}, "WB_ACK", r)

f_forwardRequest == SendForward(Owner, req.Type, req.Requestor)

\* Mutant: the requestor is asked to invalidate itself.
fwm_sendFwdInvToAllSharers == SendForward(Sharers, "INV", req.Requestor)

fwm_sendFwdInvToSharersMinusRequestor ==
  SendForward(Sharers \ {req.Requestor}, "INV", req.Requestor)

\* Mutant: the directory adds itself instead of the requestor.
ars2_addRequestorToSharers_machineID == Sharers' = Sharers \cup {Dir}

ars2_addRequestorToSharers == Sharers' = Sharers \cup {req.Requestor}

\* Mutant: the sharers survive a GETM.
cs_clearSharers_kept == UNCHANGED Sharers

cs_clearSharers == Sharers' = {}

ds_sendSharedData ==
  SendResponse(Dir, req.Requestor, Response("DATA_FROM_DIR", dirData, 0))

\* Mutant: the requestor's own copy is counted as one that will acknowledge.
ds2_countRequestor ==
  SendResponse(Dir, req.Requestor,
    Response("DATA_FROM_DIR", dirData, 0 - Cardinality(Sharers)))

\* Mutant: the requestor is told to wait for nobody.
ds2_noAcks ==
  SendResponse(Dir, req.Requestor, Response("DATA_FROM_DIR", dirData, 0))

\* Minus the number of sharers that will acknowledge.
ds2_sendSharedData ==
  SendResponse(Dir, req.Requestor,
    Response("DATA_FROM_DIR", dirData,
             (IF req.Requestor \in Sharers THEN 1 ELSE 0) - Cardinality(Sharers)))

d_sendData ==
  LET m == Head(memBuffer)
  IN  SendResponse(Dir, m.OriginalRequestor,
                   Response("DATA_FROM_DIR", m.DataBlk, 0))

QueueMemory(type, requestor, data) ==
  memBuffer' = Append(memBuffer, [Type |-> type, OriginalRequestor |-> requestor,
                                  DataBlk |-> data])

\* Mutant: vv_allocateTBEFromRequestNet sets Len to the size of the block.
TBELen_block == 64

\* No transition sets tbe.Len, so copyPartial copies 0 bytes of the TBE's
\* block, which is the cleared block of the GETS or GETM.
TBELen == 0

w_writeDataToDirectoryFromTBE ==
  dirData' = IF TBELen = 0 THEN dirData ELSE InitValue

\* setState(I) drops the sparse map's entry; the next lookup makes a new one.
invalidateBlock(data) == IF UseMap THEN InitValue ELSE data

(***************************************************************************)
(* Directory controller, requests.                                         *)
(***************************************************************************)
DirI_GETS ==
  /\ dirState = "I"
  /\ RequestReady({"GETS"})
  /\ dirState' = "IS_MD"
  /\ ars2_addRequestorToSharers
  /\ QueueMemory("MEMORY_READ", req.Requestor, dirData)
  /\ i_popIncomingRequestQueue
  /\ UNCHANGED <<cpuVars, cacheVars, requestNet, forwardToCache, responseNet,
                 Owner, dirData, physMem, reserved>>

DirI_GETM ==
  /\ dirState = "I"
  /\ RequestReady({"GETM"})
  /\ dirState' = "IM_MD"
  /\ Owner' = {req.Requestor}
  /\ QueueMemory("MEMORY_READ", req.Requestor, dirData)
  /\ i_popIncomingRequestQueue
  /\ UNCHANGED <<cpuVars, cacheVars, requestNet, forwardToCache, responseNet,
                 Sharers, dirData, physMem, reserved>>

DirS_GETS ==
  /\ dirState = "S"
  /\ RequestReady({"GETS"})
  /\ ds_sendSharedData
  /\ ars2_addRequestorToSharers
  /\ i_popIncomingRequestQueue
  /\ UNCHANGED <<cpuVars, cacheVars, requestNet, forwardToCache, dirState,
                 Owner, dirData, memBuffer, physMem, reserved>>

DirS_GETM ==
  /\ dirState = "S"
  /\ RequestReady({"GETM"})
  /\ dirState' = "M"
  /\ ds2_sendSharedData
  /\ fwm_sendFwdInvToSharersMinusRequestor
  /\ cs_clearSharers
  /\ Owner' = {req.Requestor}
  /\ i_popIncomingRequestQueue
  /\ UNCHANGED <<cpuVars, cacheVars, requestNet, dirData, memBuffer, physMem,
                 reserved>>

DirM_GETS ==
  /\ dirState = "M"
  /\ RequestReady({"GETS"})
  /\ dirState' = "MS_OD"
  /\ f_forwardRequest
  /\ Sharers' = Sharers \cup Owner \cup {req.Requestor}
  /\ Owner' = {}
  /\ i_popIncomingRequestQueue
  /\ UNCHANGED <<cpuVars, cacheVars, requestNet, responseNet, dirData,
                 memBuffer, physMem, reserved>>

DirM_GETM ==
  /\ dirState = "M"
  /\ RequestReady({"GETM"})
  /\ f_forwardRequest
  /\ Owner' = {req.Requestor}
  /\ i_popIncomingRequestQueue
  /\ UNCHANGED <<cpuVars, cacheVars, requestNet, responseNet, dirState,
                 Sharers, dirData, memBuffer, physMem, reserved>>

DirM_PUTM_Owner ==
  /\ dirState = "M"
  /\ RequestReady({"PUTM_Owner"})
  /\ dirState' = "MI_MA"
  /\ QueueMemory("MEMORY_WB", req.Requestor, req.DataBlk)
  /\ dirData' = req.DataBlk
  /\ i_popIncomingRequestQueue
  /\ UNCHANGED <<cpuVars, cacheVars, requestNet, forwardToCache, responseNet,
                 Sharers, Owner, physMem, reserved>>

DirS_PUTS_Last ==
  /\ dirState = "S"
  /\ RequestReady({"PUTS_Last"})
  /\ dirState' = "I"
  /\ Sharers' = Sharers \ {req.Requestor}
  /\ dirData' = invalidateBlock(dirData)
  /\ a_sendWriteBackAck
  /\ i_popIncomingRequestQueue
  /\ UNCHANGED <<cpuVars, cacheVars, requestNet, responseNet, Owner,
                 memBuffer, physMem, reserved>>

S_Put == dirState = "S" /\ RequestReady({"PUTS_NotLast", "PUTM_NotOwner"})

MS_OD_Put ==
  dirState = "MS_OD" /\ RequestReady({"PUTS_NotLast", "PUTM_NotOwner", "PUTM_Owner"})

MS_MA_Put ==
  dirState = "MS_MA" /\ RequestReady({"PUTS_NotLast", "PUTM_NotOwner", "PUTM_Owner"})

MI_MA_Put == dirState = "MI_MA" /\ RequestReady({"PUTS_NotLast", "PUTM_NotOwner"})

\* A put that removes a sharer and leaves the state: kk, a, i.
DirPut ==
  /\ S_Put \/ MS_OD_Put \/ MS_MA_Put \/ MI_MA_Put
  /\ Sharers' = Sharers \ {req.Requestor}
  /\ a_sendWriteBackAck
  /\ i_popIncomingRequestQueue
  /\ UNCHANGED <<cpuVars, cacheVars, requestNet, responseNet, dirState, Owner,
                 dirData, memBuffer, physMem, reserved>>

\* A put that comes after its sender lost the line: a, i.
DirStalePut ==
  /\ dirState \in {"I", "M"}
  /\ RequestReady({"PUTS_NotLast", "PUTS_Last", "PUTM_NotOwner"})
  /\ a_sendWriteBackAck
  /\ i_popIncomingRequestQueue
  /\ UNCHANGED <<cpuVars, cacheVars, requestNet, responseNet, dirVars, physMem,
                 reserved>>

(***************************************************************************)
(* Directory controller, data from an owner and memory replies.            *)
(***************************************************************************)
DirMS_OD_Data(s) ==
  LET m == Head(responseNet[s][Dir])
  IN  /\ dirState = "MS_OD"
      /\ responseNet[s][Dir] # <<>>
      /\ m.Type = "DATA"
      /\ dirState' = "MS_MA"
      /\ QueueMemory("MEMORY_WB", s, m.DataBlk)
      /\ dirData' = m.DataBlk
      /\ PopResponse(s, Dir)
      /\ UNCHANGED <<cpuVars, cacheVars, requestNet, requestToDir,
                     forwardToCache, Sharers, Owner, physMem, reserved>>

DirMemory_Data ==
  /\ MemoryReady("MEMORY_READ")
  /\ \/ dirState = "IS_MD" /\ dirState' = "S"
     \/ dirState = "IM_MD" /\ dirState' = "M"
  /\ d_sendData
  /\ w_writeDataToDirectoryFromTBE
  /\ qm_popMemQueue
  /\ UNCHANGED <<cpuVars, cacheVars, requestNet, requestToDir, forwardToCache,
                 Sharers, Owner, physMem, reserved>>

DirMS_MA_Memory_Ack ==
  /\ MemoryReady("MEMORY_WB")
  /\ dirState = "MS_MA"
  /\ dirState' = "S"
  /\ Owner' = {}
  /\ qm_popMemQueue
  /\ UNCHANGED <<cpuVars, cacheVars, netVars, Sharers, dirData, physMem,
                 reserved>>

DirMI_MA_Memory_Ack ==
  /\ MemoryReady("MEMORY_WB")
  /\ dirState = "MI_MA"
  /\ dirState' = "I"
  /\ la_sendWriteBackAck
  /\ Owner' = {}
  /\ dirData' = invalidateBlock(dirData)
  /\ qm_popMemQueue
  /\ UNCHANGED <<cpuVars, cacheVars, requestNet, requestToDir, responseNet,
                 Sharers, physMem, reserved>>

-----------------------------------------------------------------------------
(***************************************************************************)
(* One disjunct per in-port; the CPU and the other lines of the cache are  *)
(* the environment.                                                        *)
(***************************************************************************)
MandatoryPort(c) ==
  \/ as_issueGetS(c)
  \/ am_issueGetM(c)
  \/ r_load_hit(c)
  \/ \E v \in Value : s_store_hit(c, v)

ForwardPort(c) ==
  AckInv(c) \/ InvalidateS(c) \/ FwdGetS(c) \/ FwdGetM(c) \/ WBAck(c)

ResponsePort(c, s) ==
  \/ rx_load_hit(c, s)
  \/ \E v \in Value : sx_store_hit_data(c, s, v)
  \/ u_writeDataToCache(c, s)
  \/ InvAck(c, s)
  \/ \E v \in Value : sx_store_hit_acks(c, s, v)

DirRequestPort ==
  \/ DirI_GETS \/ DirI_GETM \/ DirS_GETS \/ DirS_GETM \/ DirM_GETS
  \/ DirM_GETM \/ DirM_PUTM_Owner \/ DirS_PUTS_Last \/ DirPut \/ DirStalePut

DirMemPort == DirMemory_Data \/ DirMS_MA_Memory_Ack \/ DirMI_MA_Memory_Ack

Environment ==
  \E c \in Cache : \/ \E type \in ReqType : makeRequest(c, type)
                   \/ Replacement(c)
                   \/ Commit(c)

Next ==
  \/ Environment
  \/ \E c \in Cache : RequestArrives(c) \/ MandatoryPort(c) \/ ForwardPort(c)
  \/ \E c \in Cache, s \in Machine : ResponsePort(c, s)
  \/ DirRequestPort
  \/ \E c \in Cache : DirMS_OD_Data(c)
  \/ DirMemPort

Spec == Init /\ [][Next]_vars

\* Every in-port with a message that its state accepts is eventually served:
\* the consumer wakes up for each arrival, and a stalled head is looked at
\* again with the message that ends the stalling state (SimpleNetwork's Awake).
\* CPUs need not issue requests, lines need not be replaced.
Fairness ==
  /\ \A c \in Cache :
       /\ WF_vars(RequestArrives(c))
       /\ WF_vars(MandatoryPort(c))
       /\ WF_vars(ForwardPort(c))
       /\ \A s \in Machine : WF_vars(ResponsePort(c, s))
       /\ WF_vars(DirMS_OD_Data(c))
  /\ WF_vars(DirRequestPort)
  /\ WF_vars(DirMemPort)

FairSpec == Spec /\ Fairness

-----------------------------------------------------------------------------
(***************************************************************************)
(* Properties.                                                             *)
(***************************************************************************)
\* The states whose transitions serve a Load: S, SM_AD, SM_A and M.
Readable(c) == cacheState[c] \in {"S", "SM_AD", "SM_A", "M"}

\* Single writer, multiple readers: while one L1 has the line in M, no other
\* L1 serves a load or a store of it.
SWMR ==
  \A c, d \in Cache : c # d /\ cacheState[c] = "M" => ~Readable(d)

\* A copy that a load can hit, and the directory's copy whenever no L1 owns
\* the line, hold what the last completed store wrote.
DataValue ==
  /\ \A c \in Cache : Readable(c) => DataBlk[c] = physMem
  /\ dirState \in {"I", "IS_MD", "IM_MD", "S", "MS_MA"} => dirData = physMem

\* The transition tables, stalls included, by event.
CacheTransitions ==
  [Load     |-> CacheStates,
   Store    |-> CacheStates,
   Inv      |-> {"I", "IS_D", "S", "SM_AD", "SI_A"},
   Fwd_GetS |-> {"IM_AD", "IM_A", "SM_AD", "SM_A", "M", "MI_A"},
   Fwd_GetM |-> {"IM_AD", "IM_A", "SM_AD", "SM_A", "M", "MI_A"},
   WB_Ack   |-> {"MI_A", "SI_A", "II_A"},
   Data_from_Dir_No_Acks      |-> {"IS_D", "IM_AD", "SM_AD"},
   Data_from_Owner            |-> {"IS_D", "IM_AD", "SM_AD"},
   Data_from_Dir_Ack_Cnt      |-> {"IM_AD", "SM_AD"},
   Data_from_Dir_Ack_Cnt_Last |-> {"IM_AD", "SM_AD"},
   Inv_Ack                    |-> {"IM_AD", "IM_A", "SM_AD", "SM_A"},
   Inv_Ack_all                |-> {"IM_A", "SM_A"},
   error                      |-> {}]

DirTransitions ==
  [GETS          |-> DirStates,
   GETM          |-> DirStates,
   PUTS_Last     |-> DirStates,
   PUTS_NotLast  |-> DirStates,
   PUTM_NotOwner |-> DirStates,
   PUTM_Owner    |-> {"M", "MS_OD", "MS_MA"}]

\* No controller ever meets an event its state has no transition for: the
\* generated doTransition would end the simulation with "Invalid transition".
NoInvalidTransition ==
  /\ \A c \in Cache :
       /\ forwardToCache[c] # <<>> =>
            cacheState[c] \in
              CacheTransitions[ForwardEvent[Head(forwardToCache[c]).Type]]
       /\ \A s \in Machine : responseNet[s][c] # <<>> =>
            cacheState[c] \in
              CacheTransitions[ResponseEvent(c, Head(responseNet[s][c]))]
  /\ requestToDir # <<>> =>
       dirState \in DirTransitions[RequestEvent(Head(requestToDir))]
  /\ \A s \in Machine : responseNet[s][Dir] # <<>> =>
       dirState = "MS_OD" /\ Head(responseNet[s][Dir]).Type = "DATA"
  /\ memBuffer # <<>> =>
       dirState \in IF Head(memBuffer).Type = "MEMORY_READ"
                    THEN {"IS_MD", "IM_MD"} ELSE {"MS_MA", "MI_MA"}

\* The assertions of the directory's setState, extended to the transient
\* states: an owner or sharers, never both, and none in I.
DirAssertions ==
  /\ dirState = "I" => Owner = {} /\ Sharers = {}
  /\ dirState \in {"IM_MD", "M", "MI_MA"} =>
       Sharers = {} /\ \E o \in Cache : Owner = {o}
  /\ dirState \in {"IS_MD", "S", "MS_OD", "MS_MA"} => Owner = {}

\* The controller waits for an answer to the CPU's request.
Waiting == {"IS_D", "IM_AD", "IM_A", "SM_AD", "SM_A"}

\* The sequencer and its controller agree on the outstanding request: it is in
\* the mandatory queue or the controller is in a transient state of its kind,
\* so the callbacks find the entry they assert.
SequencerAsserts ==
  \A c \in Cache :
    \/ /\ requestTable[c] # NoRequest
       /\ mandatoryQueue[c] = <<requestTable[c]>>
       /\ cacheState[c] \notin Waiting
    \/ /\ mandatoryQueue[c] = <<>>
       /\ requestTable[c] \in IF cacheState[c] = "IS_D" THEN {"LD"}
                              ELSE IF cacheState[c] \in Waiting THEN StoreTypes
                              ELSE {NoRequest}

\* While a cache can read the line, a lock on its entry means what LL promised:
\* no other CPU has written the line since.
LockHonest == \A c \in Cache : locked[c] /\ Readable(c) => reserved[c]

\* Load-linked / store-conditional: an SC reports success only if no other CPU
\* wrote the line since the LL ("proper semantics", makeRequest's comment).
SCAtomic ==
  [][\A c \in Cache :
       (/\ requestTable[c] = "SC"
        /\ requestTable'[c] = NoRequest
        /\ locked[c]) => reserved[c]]_vars

\* By the time a cache has no copy of the line and no writeback of it under
\* way, its CPU was told, if its load queue has a load of the line that is
\* executed and not committed (checkViolations: "if we see a snoop before it's
\* commited, we need to squash").
EvictionSent ==
  \A c \in Cache : lsq[c] => cacheState[c] \notin {"I", "IS_D", "IM_AD", "IM_A"}

\* By the time a controller has freed the entry of a line its CPU was told, on
\* an invalidation at once, after a replacement with the WB_ACK: as long as
\* the load queue has an uncommitted load of the line and is untold, the line
\* has not been in I since.  An upgrade that loses the line keeps its entry
\* and is left out: IM_AD and IM_A are where EvictionSent fails.
FreedTold == \A c \in Cache : lsq[c] => cacheState[c] \notin {"I", "IS_D"}

\* Every request the sequencer accepted gets its callback (the sequencer's
\* deadlock check never finds an old request).
RequestServed ==
  \A c \in Cache : requestTable[c] # NoRequest ~> requestTable[c] = NoRequest

\* Every replacement frees its way.
WritebackCompletes ==
  \A c \in Cache : cacheState[c] \in {"MI_A", "SI_A", "II_A"} ~> cacheState[c] = "I"

(***************************************************************************)
(* The protocol implements a memory that serves one access at a time.      *)
(***************************************************************************)
Serial == INSTANCE SerialMemory
            WITH Processor <- Cache, mem <- physMem, pending <- requestTable

SerialSpec == Serial!Spec

=============================================================================
