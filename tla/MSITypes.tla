------------------------------ MODULE MSITypes ------------------------------
(***************************************************************************)
(* Type correctness of the MSI protocol, the assertions of the sequencer's *)
(* callbacks and of the directory's setState, and the notices of evictions *)
(* to the CPU, for any number of caches; and the steps of locks and of     *)
(* callbacks, which need no more than the types.                           *)
(*                                                                         *)
(* TypeOK is inductive; the others are inductive relative to it.           *)
(***************************************************************************)
EXTENDS MSI, FiniteSetTheorems, TLAPS

(***************************************************************************)
(* Types of the message operations.                                        *)
(***************************************************************************)
\* The head of a non-empty sequence and what remains have the element's type.
LEMMA HeadTail ==
  ASSUME NEW S, NEW s \in Seq(S), s # <<>>
  PROVE  Head(s) \in S /\ Tail(s) \in Seq(S)
OBVIOUS

\* Appending an element keeps a sequence a sequence over the same set.
LEMMA AppendType ==
  ASSUME NEW S, NEW s \in Seq(S), NEW e \in S
  PROVE  Append(s, e) \in Seq(S)
OBVIOUS

\* A request of a cache keeps requestNet well typed.
LEMMA SendRequestType ==
  ASSUME TypeOK, NEW c \in Cache, NEW data \in Value,
         NEW type \in {"GETS", "GETM", "PUTS", "PUTM"},
         SendRequest(c, type, data)
  PROVE  requestNet' \in [Cache -> Seq(RequestMsg)]
<1> DEFINE m == [Type |-> type, Requestor |-> c, DataBlk |-> data]
<1>1. m \in RequestMsg
  BY Zenon DEF RequestMsg
<1>2. requestNet[c] \in Seq(RequestMsg)
  BY Zenon DEF TypeOK
<1>3. Append(requestNet[c], m) \in Seq(RequestMsg)
  BY Zenon, <1>1, <1>2, AppendType
<1> QED BY Zenon, <1>3 DEF TypeOK, SendRequest

\* A response keeps responseNet well typed.
LEMMA SendResponseType ==
  ASSUME TypeOK, NEW s \in Machine, NEW d \in Machine, NEW m \in ResponseMsg,
         SendResponse(s, d, m)
  PROVE  responseNet' \in [Machine -> [Machine -> Seq(ResponseMsg)]]
<1>1. responseNet[s][d] \in Seq(ResponseMsg)
  BY DEF TypeOK
<1>2. Append(responseNet[s][d], m) \in Seq(ResponseMsg)
  BY Zenon, <1>1, AppendType
<1> QED BY Zenon, <1>2 DEF TypeOK, SendResponse

\* So does the removal of one.
LEMMA PopResponseType ==
  ASSUME TypeOK, NEW s \in Machine, NEW d \in Machine,
         responseNet[s][d] # <<>>, PopResponse(s, d)
  PROVE  responseNet' \in [Machine -> [Machine -> Seq(ResponseMsg)]]
<1>1. responseNet[s][d] \in Seq(ResponseMsg)
  BY DEF TypeOK
<1>2. Tail(responseNet[s][d]) \in Seq(ResponseMsg)
  BY Zenon, <1>1, HeadTail
<1> QED BY Zenon, <1>2 DEF TypeOK, PopResponse

\* A forward of the directory keeps forwardToCache well typed.
LEMMA SendForwardType ==
  ASSUME TypeOK, NEW dests, NEW type \in {"GETS", "GETM", "INV", "WB_ACK"},
         NEW r \in Machine, SendForward(dests, type, r)
  PROVE  forwardToCache' \in [Cache -> Seq(ForwardMsg)]
<1> DEFINE m == [Type |-> type, Requestor |-> r]
<1>1. m \in ForwardMsg
  BY Zenon DEF ForwardMsg
<1>2. \A d \in Cache : Append(forwardToCache[d], m) \in Seq(ForwardMsg)
  BY Zenon, <1>1, AppendType DEF TypeOK
<1> QED BY Zenon, <1>2 DEF TypeOK, SendForward

\* A cache that consumes a forward keeps forwardToCache well typed, and the
\* forward's requestor is a machine.
LEMMA PopForwardType ==
  ASSUME TypeOK, NEW c \in Cache, forwardToCache[c] # <<>>,
         o_popForwardedRequestQueue(c)
  PROVE  /\ forwardToCache' \in [Cache -> Seq(ForwardMsg)]
         /\ Head(forwardToCache[c]).Requestor \in Machine
<1>1. forwardToCache[c] \in Seq(ForwardMsg)
  BY Zenon DEF TypeOK
<1>2. /\ Tail(forwardToCache[c]) \in Seq(ForwardMsg)
      /\ Head(forwardToCache[c]) \in ForwardMsg
  BY Zenon, <1>1, HeadTail
<1> QED BY Zenon, <1>2 DEF TypeOK, o_popForwardedRequestQueue, ForwardMsg

\* A pop of the mandatory queue keeps it well typed.
LEMMA PopMandatoryType ==
  ASSUME TypeOK, NEW c \in Cache, mandatoryQueue[c] # <<>>,
         m_popMandatoryQueue(c)
  PROVE  mandatoryQueue' \in [Cache -> Seq(ReqType)]
<1>1. mandatoryQueue[c] \in Seq(ReqType)
  BY Zenon DEF TypeOK
<1>2. Tail(mandatoryQueue[c]) \in Seq(ReqType)
  BY Zenon, <1>1, HeadTail
<1> QED BY Zenon, <1>2 DEF TypeOK, m_popMandatoryQueue

\* The directory's head request, and the queue without it.
LEMMA PopRequestType ==
  ASSUME TypeOK, requestToDir # <<>>
  PROVE  /\ req \in RequestMsg
         /\ req.Requestor \in Cache
         /\ req.Requestor \in Machine
         /\ req.DataBlk \in Value
         /\ i_popIncomingRequestQueue => requestToDir' \in Seq(RequestMsg)
<1>1. Head(requestToDir) \in RequestMsg /\ Tail(requestToDir) \in Seq(RequestMsg)
  BY Zenon, HeadTail DEF TypeOK
<1> QED BY Zenon, <1>1 DEF req, i_popIncomingRequestQueue, RequestMsg, Machine

\* A memory request keeps memBuffer well typed.
LEMMA QueueMemoryType ==
  ASSUME TypeOK, NEW type \in {"MEMORY_READ", "MEMORY_WB"}, NEW c \in Cache,
         NEW data \in Value, QueueMemory(type, c, data)
  PROVE  memBuffer' \in Seq(MemoryMsg)
<1> DEFINE m == [Type |-> type, OriginalRequestor |-> c, DataBlk |-> data]
<1>1. m \in MemoryMsg
  BY Zenon DEF MemoryMsg
<1> QED BY Zenon, <1>1, AppendType DEF TypeOK, QueueMemory

\* The memory's reply, and the buffer without it.
LEMMA PopMemoryType ==
  ASSUME TypeOK, memBuffer # <<>>
  PROVE  /\ Head(memBuffer).OriginalRequestor \in Cache
         /\ Head(memBuffer).OriginalRequestor \in Machine
         /\ Head(memBuffer).DataBlk \in Value
         /\ qm_popMemQueue => memBuffer' \in Seq(MemoryMsg)
<1>1. Head(memBuffer) \in MemoryMsg /\ Tail(memBuffer) \in Seq(MemoryMsg)
  BY Zenon, HeadTail DEF TypeOK
<1> QED BY <1>1, SMTT(30) DEF qm_popMemQueue, MemoryMsg, Machine

\* A response the caches and the directory build is a ResponseMsg.
LEMMA ResponseType ==
  ASSUME NEW type \in {"DATA_FROM_DIR", "DATA_FROM_OWNER", "ACK", "DATA"},
         NEW data \in Value, NEW count \in Int
  PROVE  Response(type, data, count) \in ResponseMsg
BY Zenon DEF Response, ResponseMsg

\* A response at the head of a channel.
LEMMA HeadResponseType ==
  ASSUME TypeOK, NEW s \in Machine, NEW d \in Machine, responseNet[s][d] # <<>>
  PROVE  /\ Head(responseNet[s][d]).DataBlk \in Value
         /\ Head(responseNet[s][d]).AckCount \in Int
<1>1. responseNet[s][d] \in Seq(ResponseMsg)
  BY DEF TypeOK
<1>2. Head(responseNet[s][d]) \in ResponseMsg
  BY Zenon, <1>1, HeadTail
<1> QED BY Zenon, <1>2 DEF ResponseMsg

\* The callbacks keep the CPU's and the entry's variables well typed.
LEMMA ReadCallbackType ==
  ASSUME TypeOK, NEW c \in Cache, NEW blk \in Value, readCallback(c, blk)
  PROVE  /\ requestTable' \in [Cache -> ReqType \cup {NoRequest}]
         /\ result' \in [Cache -> Value]
         /\ lsq' \in [Cache -> BOOLEAN]
         /\ physMem' \in Value
         /\ reserved' \in [Cache -> BOOLEAN]
<1>1. ReadData(blk) \in Value
  BY Zenon DEF ReadData, TypeOK
<1>2. requestTable' \in [Cache -> ReqType \cup {NoRequest}]
  BY Zenon DEF readCallback, TypeOK
<1>3. result' \in [Cache -> Value]
  BY Zenon, <1>1 DEF readCallback, TypeOK
<1>4. lsq' \in [Cache -> BOOLEAN]
  BY Zenon, MSIAssumption DEF readCallback, completeDataAccess, TypeOK
<1> QED BY Zenon, <1>2, <1>3, <1>4 DEF readCallback, TypeOK

\* The same for a write, which also changes the entry's data and lock.
LEMMA WriteCallbackType ==
  ASSUME TypeOK, NEW c \in Cache, NEW blk \in Value, NEW v \in Value,
         writeCallback(c, blk, v)
  PROVE  /\ requestTable' \in [Cache -> ReqType \cup {NoRequest}]
         /\ result' \in [Cache -> Value]
         /\ lsq' \in [Cache -> BOOLEAN]
         /\ DataBlk' \in [Cache -> Value]
         /\ locked' \in [Cache -> BOOLEAN]
         /\ physMem' \in Value
         /\ reserved' \in [Cache -> BOOLEAN]
<1>1. ReadData(blk) \in Value
  BY Zenon DEF ReadData, TypeOK
<1>2. requestTable' \in [Cache -> ReqType \cup {NoRequest}]
  BY Zenon DEF writeCallback, TypeOK
<1>3. result' \in [Cache -> Value]
  BY Zenon, <1>1 DEF writeCallback, TypeOK
<1>4. DataBlk' \in [Cache -> Value] /\ physMem' \in Value
  BY Zenon DEF writeCallback, TypeOK
<1>5. locked' \in [Cache -> BOOLEAN]
  BY Zenon DEF writeCallback, TypeOK
<1>6. reserved' \in [Cache -> BOOLEAN]
  BY ZenonT(30) DEF writeCallback, TypeOK
<1>7. lsq' \in [Cache -> BOOLEAN]
  BY Zenon, MSIAssumption DEF writeCallback, completeDataAccess, TypeOK
<1> QED BY Zenon, <1>2, <1>3, <1>4, <1>5, <1>6, <1>7

(***************************************************************************)
(* Every step keeps the types.                                             *)
(***************************************************************************)
\* Steps of the environment and of a cache's mandatory queue.
LEMMA MandatoryTypeStep ==
  ASSUME TypeOK, NEW c \in Cache,
         \/ \E type \in ReqType : makeRequest(c, type)
         \/ Replacement(c)
         \/ Commit(c)
         \/ RequestArrives(c)
         \/ MandatoryPort(c)
  PROVE  TypeOK'
<1> USE MSIAssumption
<1>d. DataBlk[c] \in Value
  BY Zenon DEF TypeOK
<1>1. ASSUME NEW type \in ReqType, makeRequest(c, type) PROVE TypeOK'
  <2>1. mandatoryQueue' \in [Cache -> Seq(ReqType)]
    BY Zenon, <1>1, AppendType DEF makeRequest, TypeOK
  <2> QED BY Zenon, <1>1, <2>1 DEF TypeOK, makeRequest, cacheVars, netVars, dirVars
<1>2. CASE Replacement(c)
  <2>1. requestNet' \in [Cache -> Seq(RequestMsg)]
    BY Zenon, <1>2, <1>d, SendRequestType DEF Replacement
  <2>2. /\ cacheState' \in [Cache -> CacheStates]
        /\ tbeData' \in [Cache -> Value]
    BY Zenon, <1>2, <1>d DEF TypeOK, Replacement, SetState, CacheStates,
                      x_copyDataFromCacheToTBE
  <2> QED BY <1>2, <2>1, <2>2, SMTT(30)
             DEF TypeOK, Replacement, cpuVars, dirVars
<1>3. CASE Commit(c)
  BY Zenon, <1>3 DEF TypeOK, Commit, cacheVars, netVars, dirVars
<1>4. CASE RequestArrives(c)
  <2>1. requestNet[c] \in Seq(RequestMsg) /\ requestNet[c] # <<>>
    BY Zenon, <1>4 DEF RequestArrives, TypeOK
  <2>2. /\ Head(requestNet[c]) \in RequestMsg
        /\ Tail(requestNet[c]) \in Seq(RequestMsg)
    BY Zenon, <2>1, HeadTail
  <2>3. requestToDir' \in Seq(RequestMsg)
    BY Zenon, <1>4, <2>2, AppendType DEF RequestArrives, TypeOK
  <2>4. requestNet' \in [Cache -> Seq(RequestMsg)]
    BY Zenon, <1>4, <2>2 DEF RequestArrives, TypeOK
  <2> QED BY Zenon, <1>4, <2>3, <2>4
             DEF TypeOK, RequestArrives, cpuVars, cacheVars, dirVars
<1>5. CASE as_issueGetS(c)
  <2>1. requestNet' \in [Cache -> Seq(RequestMsg)]
    BY Zenon, <1>5, SendRequestType DEF as_issueGetS
  <2>0. mandatoryQueue[c] # <<>> /\ m_popMandatoryQueue(c)
    BY Zenon, <1>5 DEF as_issueGetS, MandatoryReady
  <2>2. mandatoryQueue' \in [Cache -> Seq(ReqType)]
    BY Zenon, <2>0, PopMandatoryType
  <2>3. cacheState' \in [Cache -> CacheStates]
    BY Zenon, <1>5 DEF TypeOK, as_issueGetS, SetState, CacheStates
  <2> QED BY Zenon, <1>5, <2>1, <2>2, <2>3 DEF TypeOK, as_issueGetS, dirVars
<1>6. CASE am_issueGetM(c)
  <2>1. requestNet' \in [Cache -> Seq(RequestMsg)]
    BY Zenon, <1>6, SendRequestType DEF am_issueGetM
  <2>0. mandatoryQueue[c] # <<>> /\ m_popMandatoryQueue(c)
    BY Zenon, <1>6 DEF am_issueGetM, MandatoryReady
  <2>2. mandatoryQueue' \in [Cache -> Seq(ReqType)]
    BY Zenon, <2>0, PopMandatoryType
  <2>3. /\ cacheState' \in [Cache -> CacheStates]
        /\ tbeData' \in [Cache -> Value]
    BY Zenon, <1>6, <1>d DEF TypeOK, am_issueGetM, SetState, CacheStates,
                      x_copyDataFromCacheToTBE
  <2> QED BY Zenon, <1>6, <2>1, <2>2, <2>3 DEF TypeOK, am_issueGetM, dirVars
<1>7. CASE r_load_hit(c)
  <2>0. mandatoryQueue[c] # <<>> /\ m_popMandatoryQueue(c)
    BY Zenon, <1>7 DEF r_load_hit, MandatoryReady
  <2>1. mandatoryQueue' \in [Cache -> Seq(ReqType)]
    BY Zenon, <2>0, PopMandatoryType
  <2>2. readCallback(c, DataBlk[c])
    BY Zenon, <1>7 DEF r_load_hit
  <2> QED BY <1>7, <1>d, <2>1, <2>2, ReadCallbackType, SMTT(30)
          DEF TypeOK, r_load_hit, cacheVars, netVars, dirVars
<1>8. ASSUME NEW v \in Value, s_store_hit(c, v) PROVE TypeOK'
  <2>0. mandatoryQueue[c] # <<>> /\ m_popMandatoryQueue(c)
    BY Zenon, <1>8 DEF s_store_hit, MandatoryReady
  <2>1. mandatoryQueue' \in [Cache -> Seq(ReqType)]
    BY Zenon, <2>0, PopMandatoryType
  <2>2. writeCallback(c, DataBlk[c], v)
    BY Zenon, <1>8 DEF s_store_hit
  <2> QED BY <1>8, <1>d, <2>1, <2>2, WriteCallbackType, SMTT(30)
          DEF TypeOK, s_store_hit, netVars, dirVars
<1> QED BY Zenon, <1>1, <1>2, <1>3, <1>4, <1>5, <1>6, <1>7, <1>8 DEF MandatoryPort

\* Steps of a cache's forward port.
LEMMA ForwardTypeStep ==
  ASSUME TypeOK, NEW c \in Cache, ForwardPort(c)
  PROVE  TypeOK'
<1> USE MSIAssumption
<1> DEFINE r == Head(forwardToCache[c]).Requestor
<1>c. c \in Machine /\ Dir \in Machine
  BY Zenon DEF Machine
<1>d. DataBlk[c] \in Value /\ tbeData[c] \in Value
  BY SMTT(30) DEF TypeOK
<1>f. /\ forwardToCache[c] # <<>>
      /\ o_popForwardedRequestQueue(c)
  BY Zenon DEF ForwardPort, AckInv, InvalidateS, FwdGetS, FwdGetM, WBAck, ForwardReady
<1>p. forwardToCache' \in [Cache -> Seq(ForwardMsg)] /\ r \in Machine
  BY Zenon, <1>f, PopForwardType
<1>a. fi_sendInvAck(c) => responseNet' \in [Machine -> [Machine -> Seq(ResponseMsg)]]
  <2>1. Response("ACK", InitValue, 1) \in ResponseMsg
    BY ResponseType, SMTT(30)
  <2> QED BY Zenon, <1>c, <1>p, <2>1, SendResponseType DEF fi_sendInvAck
<1>o. ASSUME NEW data \in Value, SendDataFromOwner(c, data)
      PROVE  responseNet' \in [Machine -> [Machine -> Seq(ResponseMsg)]]
  <2>1. Response("DATA_FROM_OWNER", data, 0) \in ResponseMsg
    BY ResponseType
  <2> QED BY Zenon, <1>c, <1>o, <1>p, <2>1, SendResponseType DEF SendDataFromOwner
<1>b. ASSUME NEW data \in Value, SendDataToBoth(c, data)
      PROVE  responseNet' \in [Machine -> [Machine -> Seq(ResponseMsg)]]
  <2>1. /\ Response("DATA_FROM_OWNER", data, 0) \in ResponseMsg
        /\ Response("DATA", data, 0) \in ResponseMsg
    BY ResponseType
  <2>2. \A d \in Machine : responseNet[c][d] \in Seq(ResponseMsg)
    BY <1>c DEF TypeOK
  <2>3. \A d \in Machine :
          /\ Append(responseNet[c][d], Response("DATA_FROM_OWNER", data, 0))
               \in Seq(ResponseMsg)
          /\ Append(responseNet[c][d], Response("DATA", data, 0))
               \in Seq(ResponseMsg)
    BY Zenon, <2>1, <2>2, AppendType
  <2>4. responseNet'[c] \in [Machine -> Seq(ResponseMsg)]
    BY Zenon, <1>b, <1>c, <2>2, <2>3 DEF SendDataToBoth, TypeOK
  <2> QED BY <1>b, <1>c, <2>4, SMTT(30) DEF SendDataToBoth, TypeOK
<1>e. forward_eviction_to_cpu(c) => lsq' \in [Cache -> BOOLEAN]
  BY Zenon DEF forward_eviction_to_cpu, checkSnoop, TypeOK
<1>h. h_deallocateL1CacheBlock(c) =>
        DataBlk' \in [Cache -> Value] /\ locked' \in [Cache -> BOOLEAN]
  BY DEF h_deallocateL1CacheBlock, TypeOK
<1>1. CASE AckInv(c)
  <2>0. PICK s \in CacheStates : cacheState' = [cacheState EXCEPT ![c] = s]
    BY Zenon, <1>1 DEF AckInv, I_Inv, SM_AD_Inv, SI_A_Inv, SetState, CacheStates
  <2>1. cacheState' \in [Cache -> CacheStates]
    BY Zenon, <2>0 DEF TypeOK
  <2> QED BY <1>1, <1>a, <1>p, <2>1, SMTT(30)
             DEF TypeOK, AckInv, cpuVars, dirVars
<1>2. CASE InvalidateS(c)
  <2>1. cacheState' \in [Cache -> CacheStates]
    BY Zenon, <1>2 DEF TypeOK, InvalidateS, SetState, CacheStates
  <2> QED BY Zenon, <1>2, <1>a, <1>e, <1>h, <1>p, <2>1 DEF TypeOK, InvalidateS, dirVars
<1>3. CASE FwdGetS(c)
  <2>1. cacheState' \in [Cache -> CacheStates]
    <3>1. \E next \in {"S", "SI_A"} : SetState(c, next)
      BY Zenon, <1>3 DEF FwdGetS
    <3> QED BY <3>1, SMTT(30) DEF TypeOK, SetState, CacheStates
  <2>2. responseNet' \in [Machine -> [Machine -> Seq(ResponseMsg)]]
    BY Zenon, <1>3, <1>b, <1>d DEF FwdGetS
  <2> QED BY Zenon, <1>3, <1>p, <2>1, <2>2 DEF TypeOK, FwdGetS, cpuVars, dirVars
<1>4. CASE FwdGetM(c)
  <2>1. cacheState' \in [Cache -> CacheStates]
    <3>1. \E next \in {"I", "II_A"} : SetState(c, next)
      BY Zenon, <1>4 DEF FwdGetM
    <3> QED BY Zenon, <3>1 DEF TypeOK, SetState, CacheStates
  <2>2. responseNet' \in [Machine -> [Machine -> Seq(ResponseMsg)]]
    BY Zenon, <1>4, <1>d, <1>o DEF FwdGetM
  <2>3. /\ lsq' \in [Cache -> BOOLEAN]
        /\ DataBlk' \in [Cache -> Value]
        /\ locked' \in [Cache -> BOOLEAN]
    BY Zenon, <1>4, <1>e, <1>h DEF FwdGetM, TypeOK
  <2> QED BY ZenonT(30), <1>4, <1>p, <2>1, <2>2, <2>3
             DEF TypeOK, FwdGetM, dirVars
<1>5. CASE WBAck(c)
  <2>1. cacheState' \in [Cache -> CacheStates]
    BY Zenon, <1>5 DEF TypeOK, WBAck, SetState, CacheStates
  <2>2. /\ tbeData' \in [Cache -> Value]
        /\ pendingAcks' \in [Cache -> Int]
    BY <1>5 DEF TypeOK, WBAck, w_deallocateTBE
  <2> QED BY <1>5, <1>e, <1>h, <1>p, <2>1, <2>2, SMTT(30)
             DEF TypeOK, WBAck, dirVars
<1> QED BY Zenon, <1>1, <1>2, <1>3, <1>4, <1>5 DEF ForwardPort

\* Steps of a cache's response port.
LEMMA ResponseTypeStep ==
  ASSUME TypeOK, NEW c \in Cache, NEW s \in Machine, ResponsePort(c, s)
  PROVE  TypeOK'
<1> USE MSIAssumption
<1> DEFINE m == Head(responseNet[s][c])
<1>c. c \in Machine
  BY Zenon DEF Machine
<1>d. DataBlk[c] \in Value
  BY SMTT(30) DEF TypeOK
<1>f. responseNet[s][c] # <<>> /\ PopResponse(s, c)
  BY ZenonT(30)
     DEF ResponsePort, rx_load_hit, sx_store_hit_data, u_writeDataToCache,
         InvAck, sx_store_hit_acks, ResponseReady
<1>p. /\ responseNet' \in [Machine -> [Machine -> Seq(ResponseMsg)]]
      /\ m.DataBlk \in Value
      /\ m.AckCount \in Int
  BY Zenon, <1>c, <1>f, PopResponseType, HeadResponseType
<1>w. w_deallocateTBE(c) =>
        tbeData' \in [Cache -> Value] /\ pendingAcks' \in [Cache -> Int]
  BY DEF w_deallocateTBE, TypeOK
<1>q. q_updateAckCount(c, m) => pendingAcks' \in [Cache -> Int]
  <2>1. pendingAcks[c] - m.AckCount \in Int
    BY <1>p, SMTT(30) DEF TypeOK
  <2> HIDE DEF m
  <2> QED BY <2>1 DEF q_updateAckCount, TypeOK
<1> HIDE DEF m
<1>1. CASE rx_load_hit(c, s)
  <2>1. /\ cacheState' \in [Cache -> CacheStates]
        /\ DataBlk' \in [Cache -> Value]
    BY ZenonT(30), <1>1, <1>p DEF TypeOK, rx_load_hit, SetState, CacheStates, m
  <2>2. readCallback(c, m.DataBlk)
    BY ZenonT(30), <1>1 DEF rx_load_hit, m
  <2> QED BY ZenonT(30), <1>1, <1>p, <1>w, <2>1, <2>2, ReadCallbackType
          DEF TypeOK, rx_load_hit, dirVars
<1>2. ASSUME NEW v \in Value, sx_store_hit_data(c, s, v) PROVE TypeOK'
  <2>1. cacheState' \in [Cache -> CacheStates]
    BY <1>2, SMTT(30) DEF TypeOK, sx_store_hit_data, SetState, CacheStates
  <2>2. writeCallback(c, m.DataBlk, v)
    BY ZenonT(30), <1>2 DEF sx_store_hit_data, m
  <2> QED BY ZenonT(30), <1>2, <1>p, <1>w, <2>1, <2>2, WriteCallbackType
          DEF TypeOK, sx_store_hit_data, dirVars
<1>3. CASE u_writeDataToCache(c, s)
  <2>1. /\ cacheState' \in [Cache -> CacheStates]
        /\ DataBlk' \in [Cache -> Value]
        /\ pendingAcks' \in [Cache -> Int]
    BY Zenon, <1>3, <1>p, <1>q
       DEF TypeOK, u_writeDataToCache, SetState, CacheStates, m
  <2> QED BY ZenonT(30), <1>3, <1>p, <2>1
             DEF TypeOK, u_writeDataToCache, cpuVars, dirVars
<1>4. CASE InvAck(c, s)
  <2>1. pendingAcks' \in [Cache -> Int]
    BY <1>4, <1>q, SMTT(30) DEF InvAck, m
  <2> QED BY Zenon, <1>4, <1>p, <2>1 DEF TypeOK, InvAck, cpuVars, dirVars
<1>5. ASSUME NEW v \in Value, sx_store_hit_acks(c, s, v) PROVE TypeOK'
  <2>1. cacheState' \in [Cache -> CacheStates]
    BY <1>5, SMTT(30) DEF TypeOK, sx_store_hit_acks, SetState, CacheStates
  <2>2. writeCallback(c, DataBlk[c], v)
    BY Zenon, <1>5 DEF sx_store_hit_acks
  <2> QED BY <1>5, <1>d, <1>p, <1>w, <2>1, <2>2, WriteCallbackType, SMTT(30)
          DEF TypeOK, sx_store_hit_acks, dirVars
<1> QED BY Zenon, <1>1, <1>2, <1>3, <1>4, <1>5 DEF ResponsePort

-----------------------------------------------------------------------------
\* Steps of the directory.
LEMMA DirectoryTypeStep ==
  ASSUME TypeOK, DirRequestPort \/ (\E c \in Cache : DirMS_OD_Data(c)) \/ DirMemPort
  PROVE  TypeOK'
<1> USE MSIAssumption
<1>dir. Dir \in Machine /\ Cache \subseteq Machine
  BY Zenon DEF Machine
<1>1. CASE DirRequestPort
  <2>f. requestToDir # <<>> /\ i_popIncomingRequestQueue
    BY Zenon, <1>1
       DEF DirRequestPort, DirI_GETS, DirI_GETM, DirS_GETS, DirS_GETM,
         DirM_GETS, DirM_GETM, DirM_PUTM_Owner, DirS_PUTS_Last, DirPut,
         S_Put, MS_OD_Put, MS_MA_Put, MI_MA_Put, DirStalePut, RequestReady
  <2>p. /\ requestToDir' \in Seq(RequestMsg)
        /\ req.Requestor \in Cache
        /\ req.Requestor \in Machine
        /\ req.DataBlk \in Value
    BY Zenon, <2>f, PopRequestType
  <2>a. a_sendWriteBackAck => forwardToCache' \in [Cache -> Seq(ForwardMsg)]
    BY Zenon, <1>dir, SendForwardType DEF a_sendWriteBackAck
  <2>m. ASSUME NEW type \in {"MEMORY_READ", "MEMORY_WB"}, NEW data \in Value,
               QueueMemory(type, req.Requestor, data)
        PROVE  memBuffer' \in Seq(MemoryMsg)
    BY Zenon, <2>m, <2>p, QueueMemoryType
  <2>1. CASE DirI_GETS
    <3>1. Sharers' \in SUBSET Cache /\ dirState' \in DirStates
      BY Zenon, <2>1, <2>p DEF TypeOK, DirI_GETS, ars2_addRequestorToSharers, DirStates
    <3>2. memBuffer' \in Seq(MemoryMsg)
      BY Zenon, <2>1, <2>m DEF DirI_GETS, TypeOK
    <3> QED BY <2>1, <2>p, <3>1, <3>2, SMTT(30)
               DEF TypeOK, DirI_GETS, cpuVars, cacheVars
  <2>2. CASE DirI_GETM
    <3>1. Owner' \in SUBSET Cache /\ dirState' \in DirStates
      BY Zenon, <2>2, <2>p DEF TypeOK, DirI_GETM, DirStates
    <3>2. memBuffer' \in Seq(MemoryMsg)
      BY Zenon, <2>2, <2>m DEF DirI_GETM, TypeOK
    <3> QED BY <2>2, <2>p, <3>1, <3>2, SMTT(30)
               DEF TypeOK, DirI_GETM, cpuVars, cacheVars
  <2>3. CASE DirS_GETS
    <3>1. Sharers' \in SUBSET Cache
      BY Zenon, <2>3, <2>p DEF TypeOK, DirS_GETS, ars2_addRequestorToSharers
    <3>2. Response("DATA_FROM_DIR", dirData, 0) \in ResponseMsg
      BY ResponseType DEF TypeOK
    <3>3. responseNet' \in [Machine -> [Machine -> Seq(ResponseMsg)]]
      BY Zenon, <2>3, <1>dir, <2>p, <3>2, SendResponseType
         DEF DirS_GETS, ds_sendSharedData
    <3> QED BY <2>3, <2>p, <3>1, <3>3, SMTT(30)
               DEF TypeOK, DirS_GETS, cpuVars, cacheVars
  <2>4. CASE DirS_GETM
    <3> DEFINE n == (IF req.Requestor \in Sharers THEN 1 ELSE 0) - Cardinality(Sharers)
    <3>1. /\ Sharers' \in SUBSET Cache
          /\ Owner' \in SUBSET Cache
          /\ dirState' \in DirStates
      BY Zenon, <2>4, <2>p DEF TypeOK, DirS_GETM, cs_clearSharers, DirStates
    <3>2. Cardinality(Sharers) \in Nat
      BY Zenon, FS_Subset, FS_CardinalityType DEF TypeOK
    <3>3. Response("DATA_FROM_DIR", dirData, n) \in ResponseMsg
      BY <3>2, ResponseType DEF TypeOK
    <3>4. responseNet' \in [Machine -> [Machine -> Seq(ResponseMsg)]]
      BY Zenon, <2>4, <1>dir, <2>p, <3>3, SendResponseType
         DEF DirS_GETM, ds2_sendSharedData
    <3>5. forwardToCache' \in [Cache -> Seq(ForwardMsg)]
      BY Zenon, <2>4, <2>p, SendForwardType
         DEF DirS_GETM, fwm_sendFwdInvToSharersMinusRequestor
    <3> QED BY <2>4, <2>p, <3>1, <3>4, <3>5, SMTT(30)
               DEF TypeOK, DirS_GETM, cpuVars, cacheVars
  <2>5. ASSUME DirM_GETS \/ DirM_GETM
        PROVE  forwardToCache' \in [Cache -> Seq(ForwardMsg)]
    <3>1. req.Type \in {"GETS", "GETM"}
      <4>1. req \in RequestMsg
        BY Zenon, <2>f, PopRequestType
      <4> QED BY Zenon, <2>5, <4>1
                 DEF DirM_GETS, DirM_GETM, RequestReady, RequestEvent, req, RequestMsg
    <3> QED BY SMTT(40), <2>5, <2>p, <3>1, SendForwardType
               DEF DirM_GETS, DirM_GETM, f_forwardRequest
  <2>6. CASE DirM_GETS
    <3>1. /\ Sharers' \in SUBSET Cache
          /\ Owner' \in SUBSET Cache
          /\ dirState' \in DirStates
      BY Zenon, <2>6, <2>p DEF TypeOK, DirM_GETS, DirStates
    <3> QED BY <2>5, <2>6, <2>p, <3>1, SMTT(30)
               DEF TypeOK, DirM_GETS, cpuVars, cacheVars
  <2>7. CASE DirM_GETM
    <3>1. Owner' \in SUBSET Cache
      BY Zenon, <2>7, <2>p DEF TypeOK, DirM_GETM
    <3> QED BY <2>5, <2>7, <2>p, <3>1, SMTT(30)
               DEF TypeOK, DirM_GETM, cpuVars, cacheVars
  <2>8. CASE DirM_PUTM_Owner
    <3>1. dirState' \in DirStates
      BY Zenon, <2>8 DEF DirM_PUTM_Owner, DirStates
    <3>2. memBuffer' \in Seq(MemoryMsg)
      BY Zenon, <2>8, <2>m, <2>p DEF DirM_PUTM_Owner
    <3> QED BY <2>8, <2>p, <3>1, <3>2, SMTT(30)
               DEF TypeOK, DirM_PUTM_Owner, cpuVars, cacheVars
  <2>9. CASE DirS_PUTS_Last
    <3>1. dirState' \in DirStates /\ Sharers' \in SUBSET Cache /\ dirData' \in Value
      BY Zenon, <2>9 DEF TypeOK, DirS_PUTS_Last, DirStates, invalidateBlock
    <3> QED BY Zenon, <2>9, <2>a, <2>p, <3>1
               DEF TypeOK, DirS_PUTS_Last, cpuVars, cacheVars
  <2>10. CASE DirPut
    <3>1. Sharers' \in SUBSET Cache
      BY Zenon, <2>10 DEF TypeOK, DirPut
    <3> QED BY Zenon, <2>10, <2>a, <2>p, <3>1
               DEF TypeOK, DirPut, cpuVars, cacheVars
  <2>11. CASE DirStalePut
    BY <2>11, <2>a, <2>p, SMTT(30)
       DEF TypeOK, DirStalePut, cpuVars, cacheVars, dirVars
  <2> QED BY <1>1, <2>1, <2>2, <2>3, <2>4, <2>6, <2>7, <2>8, <2>9, <2>10, <2>11, SMTT(30)
          DEF DirRequestPort
<1>2. ASSUME NEW c \in Cache, DirMS_OD_Data(c) PROVE TypeOK'
  <2>1. responseNet[c][Dir] # <<>> /\ PopResponse(c, Dir)
    BY <1>2, SMTT(30) DEF DirMS_OD_Data
  <2>2. /\ responseNet' \in [Machine -> [Machine -> Seq(ResponseMsg)]]
        /\ Head(responseNet[c][Dir]).DataBlk \in Value
    BY <1>dir, <2>1, PopResponseType, HeadResponseType, SMTT(30)
  <2>3. memBuffer' \in Seq(MemoryMsg)
    BY ZenonT(30), <1>2, <2>2, QueueMemoryType DEF DirMS_OD_Data
  <2>4. dirState' \in DirStates /\ dirData' \in Value
    BY Zenon, <1>2, <2>2 DEF DirMS_OD_Data, DirStates
  <2> QED BY ZenonT(30), <1>2, <2>2, <2>3, <2>4
             DEF TypeOK, DirMS_OD_Data, cpuVars, cacheVars
<1>3. CASE DirMemPort
  <2> DEFINE r == Head(memBuffer).OriginalRequestor
  <2>f. memBuffer # <<>> /\ qm_popMemQueue
    BY Zenon, <1>3 DEF DirMemPort, DirMemory_Data, DirMS_MA_Memory_Ack,
                DirMI_MA_Memory_Ack, MemoryReady
  <2>p. /\ memBuffer' \in Seq(MemoryMsg)
        /\ r \in Cache
        /\ r \in Machine
        /\ Head(memBuffer).DataBlk \in Value
    BY Zenon, <2>f, PopMemoryType
  <2>1. CASE DirMemory_Data
    <3>1. dirState' \in DirStates
      BY Zenon, <2>1 DEF DirMemory_Data, DirStates
    <3>2. dirData' \in Value
      BY Zenon, <2>1 DEF DirMemory_Data, TypeOK, w_writeDataToDirectoryFromTBE
    <3>3. Response("DATA_FROM_DIR", Head(memBuffer).DataBlk, 0) \in ResponseMsg
      BY <2>p, ResponseType
    <3>4. responseNet' \in [Machine -> [Machine -> Seq(ResponseMsg)]]
      BY Zenon, <2>1, <1>dir, <2>p, <3>3, SendResponseType
         DEF DirMemory_Data, d_sendData
    <3> QED BY <2>1, <2>p, <3>1, <3>2, <3>4, SMTT(30)
               DEF TypeOK, DirMemory_Data, cpuVars, cacheVars
  <2>2. CASE DirMS_MA_Memory_Ack
    <3>1. dirState' \in DirStates /\ Owner' \in SUBSET Cache
      BY Zenon, <2>2 DEF DirMS_MA_Memory_Ack, DirStates
    <3> QED BY <2>2, <2>p, <3>1, SMTT(30)
               DEF TypeOK, DirMS_MA_Memory_Ack, cpuVars, cacheVars, netVars
  <2>3. CASE DirMI_MA_Memory_Ack
    <3>1. dirState' \in DirStates /\ Owner' \in SUBSET Cache
      BY Zenon, <2>3 DEF DirMI_MA_Memory_Ack, DirStates
    <3>2. dirData' \in Value
      BY Zenon, <2>3 DEF DirMI_MA_Memory_Ack, invalidateBlock, TypeOK
    <3>3. forwardToCache' \in [Cache -> Seq(ForwardMsg)]
      BY Zenon, <2>3, <2>p, SendForwardType
         DEF DirMI_MA_Memory_Ack, la_sendWriteBackAck
    <3> QED BY <2>3, <2>p, <3>1, <3>2, <3>3, SMTT(30)
               DEF TypeOK, DirMI_MA_Memory_Ack, cpuVars, cacheVars
  <2> QED BY Zenon, <1>3, <2>1, <2>2, <2>3 DEF DirMemPort
<1> QED BY Zenon, <1>1, <1>2, <1>3

(***************************************************************************)
(* Type correctness.                                                       *)
(***************************************************************************)
\* Every variable keeps its type in every execution, for any number of caches.
THEOREM TypeCorrect == Spec => []TypeOK
<1>1. Init => TypeOK
  BY MSIAssumption DEF Init, TypeOK, CacheStates, DirStates, Machine
<1>2. TypeOK /\ [Next]_vars => TypeOK'
  <2> SUFFICES ASSUME TypeOK, [Next]_vars PROVE TypeOK'
    BY Zenon
  <2>1. CASE UNCHANGED vars
    BY Zenon, <2>1 DEF TypeOK, vars, cpuVars, cacheVars, netVars, dirVars
  <2>2. CASE Next
    BY Zenon, <2>2, MandatoryTypeStep, ForwardTypeStep, ResponseTypeStep,
       DirectoryTypeStep DEF Next, Environment
  <2> QED BY Zenon, <2>1, <2>2
<1> QED BY <1>1, <1>2, PTL DEF Spec

-----------------------------------------------------------------------------
(***************************************************************************)
(* The sequencer's assertions.                                             *)
(***************************************************************************)
\* SequencerAsserts for one cache, given its variables.
Agree(type, queue, state) ==
  \/ type # NoRequest /\ queue = <<type>> /\ state \notin Waiting
  \/ /\ queue = <<>>
     /\ type \in IF state = "IS_D" THEN {"LD"}
                 ELSE IF state \in Waiting THEN StoreTypes ELSE {NoRequest}

\* What the agreement says of an idle sequencer and of a queued request.
LEMMA AgreeQueue ==
  ASSUME NEW t, NEW q, NEW state, Agree(t, q, state)
  PROVE  /\ t = NoRequest => q = <<>> /\ state \notin Waiting
         /\ q # <<>> => /\ t # NoRequest
                        /\ state \notin Waiting
                        /\ Head(q) = t
                        /\ Tail(q) = <<>>
         /\ state \in Waiting => q = <<>>
<1>1. \A x : <<x>> # <<>> /\ Head(<<x>>) = x /\ Tail(<<x>>) = <<>>
  OBVIOUS
<1> QED BY Zenon, <1>1 DEF Agree, NoRequest, StoreTypes, Waiting

\* A retired request, an issued request and a state change that is not an
\* answer to the CPU keep the agreement.
LEMMA AgreeStep ==
  /\ \A state : state \notin Waiting => Agree(NoRequest, <<>>, state)
  /\ \A t, state : t # NoRequest /\ state \notin Waiting => Agree(t, <<t>>, state)
  /\ Agree("LD", <<>>, "IS_D")
  /\ \A t \in StoreTypes : \A state \in Waiting \ {"IS_D"} : Agree(t, <<>>, state)
  /\ \A t, q, state, next :
       /\ Agree(t, q, state)
       /\ state \notin Waiting /\ next \notin Waiting
       => Agree(t, q, next)
  /\ \A t, q, state, next :
       /\ Agree(t, q, state)
       /\ state \in Waiting \ {"IS_D"} /\ next \in Waiting \ {"IS_D"}
       => Agree(t, q, next)
BY ZenonT(40) DEF Agree, Waiting, StoreTypes, NoRequest

\* The callbacks readCallback and writeCallback always find the request they
\* assert, for any number of caches.
THEOREM SequencerSafe == Spec => []SequencerAsserts
<1>1. Init => SequencerAsserts
  BY DEF Init, SequencerAsserts, Waiting
<1>2. TypeOK /\ SequencerAsserts /\ [Next]_vars => SequencerAsserts'
  <2> SUFFICES ASSUME TypeOK, SequencerAsserts, [Next]_vars, NEW d \in Cache
               PROVE  Agree(requestTable'[d], mandatoryQueue'[d], cacheState'[d])
    BY Zenon DEF SequencerAsserts, Agree
  <2>t. /\ requestTable \in [Cache -> ReqType \cup {NoRequest}]
        /\ mandatoryQueue \in [Cache -> Seq(ReqType)]
        /\ cacheState \in [Cache -> CacheStates]
    BY Zenon DEF TypeOK
  <2>a. Agree(requestTable[d], mandatoryQueue[d], cacheState[d])
    BY Zenon DEF SequencerAsserts, Agree
  <2>q. /\ requestTable[d] = NoRequest =>
             mandatoryQueue[d] = <<>> /\ cacheState[d] \notin Waiting
        /\ mandatoryQueue[d] # <<>> => /\ requestTable[d] # NoRequest
                                       /\ cacheState[d] \notin Waiting
                                       /\ Head(mandatoryQueue[d]) = requestTable[d]
                                       /\ Tail(mandatoryQueue[d]) = <<>>
        /\ cacheState[d] \in Waiting => mandatoryQueue[d] = <<>>
    BY Zenon, <2>a, AgreeQueue
  <2>0. CASE UNCHANGED <<requestTable, mandatoryQueue, cacheState>>
    BY Zenon, <2>0, <2>a
  <2>1. ASSUME NEW c \in Cache, NEW type \in ReqType, makeRequest(c, type)
        PROVE  Agree(requestTable'[d], mandatoryQueue'[d], cacheState'[d])
    <3>1. CASE c # d
      <4>1. UNCHANGED <<requestTable[d], mandatoryQueue[d], cacheState[d]>>
        BY Zenon, <2>1, <2>t, <3>1 DEF makeRequest, cacheVars
      <4> QED BY Zenon, <4>1, <2>a
    <3>2. CASE c = d
      <4>1. mandatoryQueue[d] = <<>> /\ cacheState[d] \notin Waiting
        BY Zenon, <2>1, <2>q, <3>2 DEF makeRequest
      <4>2. Append(<<>>, type) = <<type>>
        OBVIOUS
      <4>3. type # NoRequest
        BY Zenon, MSIAssumption DEF NoRequest
      <4>4. /\ requestTable'[d] = type
            /\ mandatoryQueue'[d] = Append(mandatoryQueue[d], type)
            /\ cacheState'[d] = cacheState[d]
        BY Zenon, <2>1, <2>t, <3>2 DEF makeRequest, cacheVars
      <4>5. mandatoryQueue'[d] = <<type>>
        BY Zenon, <4>1, <4>2, <4>4
      <4>6. Agree(type, <<type>>, cacheState[d])
        BY Zenon, <4>1, <4>3, AgreeStep
      <4> QED BY Zenon, <4>4, <4>5, <4>6
    <3> QED BY Zenon, <3>1, <3>2
  <2>2. ASSUME NEW c \in Cache, as_issueGetS(c) \/ am_issueGetM(c)
        PROVE  Agree(requestTable'[d], mandatoryQueue'[d], cacheState'[d])
    <3>1. CASE c # d
      <4>1. UNCHANGED <<requestTable[d], mandatoryQueue[d], cacheState[d]>>
        BY Zenon, <2>2, <2>t, <3>1 DEF as_issueGetS, am_issueGetM, m_popMandatoryQueue,
             SetState
      <4> QED BY Zenon, <4>1, <2>a
    <3>2. CASE c = d
      <4>0. mandatoryQueue[d] # <<>>
        BY Zenon, <2>2, <3>2 DEF as_issueGetS, am_issueGetM, MandatoryReady
      <4>1. /\ requestTable'[d] = requestTable[d]
            /\ mandatoryQueue'[d] = Tail(mandatoryQueue[d])
        BY Zenon, <2>2, <2>t, <3>2 DEF as_issueGetS, am_issueGetM, m_popMandatoryQueue
      <4>2. mandatoryQueue'[d] = <<>>
        BY Zenon, <4>0, <4>1, <2>q
      <4>3. CASE as_issueGetS(c)
        <5>1. requestTable[d] = "LD"
          BY Zenon, <4>3, <4>0, <2>q, <3>2 DEF as_issueGetS, MandatoryReady,
               mandatory_request_type_to_event
        <5>2. cacheState'[d] = "IS_D"
          BY Zenon, <4>3, <2>t, <3>2 DEF as_issueGetS, SetState
        <5> QED BY Zenon, <4>1, <4>2, <5>1, <5>2, AgreeStep
      <4>4. CASE am_issueGetM(c)
        <5>1. requestTable[d] \in StoreTypes
          BY Zenon, <4>4, <4>0, <2>q, <2>t, <3>2, MSIAssumption
             DEF am_issueGetM, MandatoryReady, mandatory_request_type_to_event,
                 StoreTypes
        <5>2. cacheState'[d] \in Waiting \ {"IS_D"}
          BY <4>4, <2>t, <3>2, SMTT(30) DEF am_issueGetM, SetState, Waiting
        <5> QED BY Zenon, <4>1, <4>2, <5>1, <5>2, AgreeStep
      <4> QED BY Zenon, <2>2, <4>3, <4>4
    <3> QED BY Zenon, <3>1, <3>2
  <2>3. ASSUME NEW c \in Cache, NEW v \in Value, r_load_hit(c) \/ s_store_hit(c, v)
        PROVE  Agree(requestTable'[d], mandatoryQueue'[d], cacheState'[d])
    <3>1. CASE c # d
      <4>1. UNCHANGED <<requestTable[d], mandatoryQueue[d], cacheState[d]>>
        BY Zenon, <2>3, <2>t, <3>1 DEF r_load_hit, s_store_hit, m_popMandatoryQueue,
             readCallback, writeCallback, cacheVars
      <4> QED BY Zenon, <4>1, <2>a
    <3>2. CASE c = d
      <4>0. mandatoryQueue[d] # <<>>
        BY Zenon, <2>3, <3>2 DEF r_load_hit, s_store_hit, MandatoryReady
      <4>1. /\ requestTable'[d] = NoRequest
            /\ mandatoryQueue'[d] = Tail(mandatoryQueue[d])
            /\ cacheState'[d] = cacheState[d]
        BY Zenon, <2>3, <2>t, <3>2 DEF r_load_hit, s_store_hit, m_popMandatoryQueue,
             readCallback, writeCallback, cacheVars
      <4>2. mandatoryQueue'[d] = <<>> /\ cacheState[d] \notin Waiting
        BY Zenon, <4>0, <4>1, <2>q
      <4> QED BY Zenon, <4>1, <4>2, AgreeStep
    <3> QED BY Zenon, <3>1, <3>2
  <2>4. ASSUME NEW c \in Cache, Replacement(c) \/ ForwardPort(c)
        PROVE  Agree(requestTable'[d], mandatoryQueue'[d], cacheState'[d])
    <3>1. UNCHANGED <<requestTable, mandatoryQueue>>
      BY Zenon, <2>4
         DEF Replacement, ForwardPort, AckInv, InvalidateS, FwdGetS, FwdGetM,
           WBAck, cpuVars
    <3>2. CASE c # d
      <4>1. cacheState'[d] = cacheState[d]
        BY Zenon, <2>4, <2>t, <3>2 DEF Replacement, ForwardPort, AckInv, I_Inv, SM_AD_Inv, SI_A_Inv, InvalidateS,
             FwdGetS, FwdGetM, WBAck, SetState
      <4> QED BY <3>1, <4>1, <2>a, SMTT(30)
    <3>3. CASE c = d
      <4>1. \/ cacheState[d] \notin Waiting /\ cacheState'[d] \notin Waiting
            \/ cacheState[d] = "SM_AD" /\ cacheState'[d] = "IM_AD"
        <5>0. \A next : SetState(c, next) => cacheState'[d] = next
          BY Zenon, <2>t, <3>3 DEF SetState
        <5>1. CASE Replacement(c)
          BY <5>0, <5>1, <3>3, SMTT(30) DEF Replacement, Waiting
        <5>2. CASE AckInv(c)
          BY <5>0, <5>2, <3>3, SMTT(30) DEF AckInv, I_Inv, SM_AD_Inv, SI_A_Inv, Waiting
        <5>3. CASE InvalidateS(c) \/ WBAck(c)
          BY Zenon, <5>0, <5>3, <3>3 DEF InvalidateS, WBAck, Waiting
        <5>4. CASE FwdGetS(c)
          BY Zenon, <5>0, <5>4, <3>3 DEF FwdGetS, Waiting
        <5>5. CASE FwdGetM(c)
          BY Zenon, <5>0, <5>5, <3>3 DEF FwdGetM, Waiting
        <5> QED BY Zenon, <2>4, <5>1, <5>2, <5>3, <5>4, <5>5 DEF ForwardPort
      <4>2. {"SM_AD", "IM_AD"} \subseteq Waiting \ {"IS_D"}
        BY Zenon DEF Waiting
      <4> QED BY Zenon, <3>1, <4>1, <4>2, <2>a, AgreeStep
    <3> QED BY Zenon, <3>2, <3>3
  <2>5. ASSUME NEW c \in Cache, NEW s \in Machine, NEW v \in Value,
               \/ rx_load_hit(c, s)
               \/ sx_store_hit_data(c, s, v)
               \/ sx_store_hit_acks(c, s, v)
        PROVE  Agree(requestTable'[d], mandatoryQueue'[d], cacheState'[d])
    <3>1. CASE c # d
      <4>1. UNCHANGED <<requestTable[d], mandatoryQueue[d], cacheState[d]>>
        BY Zenon, <2>5, <2>t, <3>1
           DEF rx_load_hit, sx_store_hit_data, sx_store_hit_acks,
             readCallback, writeCallback, SetState
      <4> QED BY Zenon, <4>1, <2>a
    <3>2. CASE c = d
      <4>1. /\ requestTable'[d] = NoRequest
            /\ mandatoryQueue'[d] = mandatoryQueue[d]
            /\ cacheState'[d] \in {"S", "M"}
            /\ cacheState[d] \in Waiting
        BY Zenon, <2>5, <2>t, <3>2
           DEF rx_load_hit, sx_store_hit_data, sx_store_hit_acks,
             readCallback, writeCallback, SetState, Waiting
      <4>2. cacheState'[d] \notin Waiting
        BY Zenon, <4>1 DEF Waiting
      <4>3. mandatoryQueue'[d] = <<>>
        BY Zenon, <4>1, <2>q
      <4> QED BY Zenon, <4>1, <4>2, <4>3, AgreeStep
    <3> QED BY Zenon, <3>1, <3>2
  <2>6. ASSUME NEW c \in Cache, NEW s \in Machine, u_writeDataToCache(c, s)
        PROVE  Agree(requestTable'[d], mandatoryQueue'[d], cacheState'[d])
    <3>1. UNCHANGED <<requestTable, mandatoryQueue>>
      BY Zenon, <2>6 DEF u_writeDataToCache, cpuVars
    <3>2. \/ cacheState'[d] = cacheState[d]
          \/ /\ cacheState[d] \in Waiting \ {"IS_D"}
             /\ cacheState'[d] \in Waiting \ {"IS_D"}
      BY <2>6, <2>t, SMTT(30) DEF u_writeDataToCache, SetState, Waiting
    <3> QED BY Zenon, <3>1, <3>2, <2>a, AgreeStep
  <2>7. ASSUME NEW c \in Cache, NEW s \in Machine,
               Commit(c) \/ RequestArrives(c) \/ InvAck(c, s) \/ DirMS_OD_Data(c)
        PROVE  UNCHANGED <<requestTable, mandatoryQueue, cacheState>>
    BY <2>7, SMTT(30)
       DEF Commit, RequestArrives, InvAck, DirMS_OD_Data, cpuVars, cacheVars
  <2>8. ASSUME DirRequestPort \/ DirMemPort \/ UNCHANGED vars
        PROVE  UNCHANGED <<requestTable, mandatoryQueue, cacheState>>
    BY Zenon, <2>8
       DEF DirRequestPort, DirI_GETS, DirI_GETM, DirS_GETS, DirS_GETM,
         DirM_GETS, DirM_GETM, DirM_PUTM_Owner, DirS_PUTS_Last, DirPut,
         DirStalePut, DirMemPort, DirMemory_Data, DirMS_MA_Memory_Ack,
         DirMI_MA_Memory_Ack, vars, cpuVars, cacheVars
  <2>9. Dir \in Machine
    BY Zenon DEF Machine
  <2> QED BY Zenon, <2>0, <2>1, <2>2, <2>3, <2>4, <2>5, <2>6, <2>7, <2>8, <2>9,
             MSIAssumption
       DEF Next, Environment, MandatoryPort, ResponsePort
<1> QED BY <1>1, <1>2, TypeCorrect, PTL DEF Spec

(***************************************************************************)
(* The directory's assertions.                                             *)
(***************************************************************************)
\* A set with fewer than two elements holds at most one.
LEMMA LastSharer ==
  ASSUME TypeOK, NEW c \in Sharers, Cardinality(Sharers) < 2
  PROVE  Sharers \ {c} = {}
<1>1. IsFiniteSet(Sharers)
  BY Zenon, MSIAssumption, FS_Subset DEF TypeOK
<1>2. Cardinality(Sharers \ {c}) = Cardinality(Sharers) - 1
  BY Zenon, <1>1, FS_RemoveElement
<1>3. IsFiniteSet(Sharers \ {c})
  BY Zenon, <1>1, FS_RemoveElement
<1>4. Cardinality(Sharers \ {c}) \in Nat
  BY Zenon, <1>3, FS_CardinalityType
<1>5. Cardinality(Sharers \ {c}) = 0
  BY <1>1, <1>2, <1>4, FS_CardinalityType
<1> QED BY Zenon, <1>3, <1>5, FS_EmptySet

\* The assertions of the directory's setState never fail, for any number of
\* caches: M has one owner and no sharer, I has neither.
THEOREM DirectorySafe == Spec => []DirAssertions
<1>1. Init => DirAssertions
  BY Zenon DEF Init, DirAssertions
<1>2. TypeOK /\ DirAssertions /\ [Next]_vars => DirAssertions'
  <2> SUFFICES ASSUME TypeOK, DirAssertions, [Next]_vars PROVE DirAssertions'
    BY Zenon
  <2>0. UNCHANGED <<dirState, Sharers, Owner>> => DirAssertions'
    BY Zenon DEF DirAssertions
  <2>r. requestToDir # <<>> => req.Requestor \in Cache
    BY Zenon, PopRequestType
  <2>1. CASE DirI_GETS \/ DirI_GETM \/ DirS_GETS \/ DirS_GETM \/ DirM_GETS \/ DirM_GETM
    BY Zenon, <2>1, <2>r DEF DirAssertions, DirI_GETS, DirI_GETM, DirS_GETS, DirS_GETM,
         DirM_GETS, DirM_GETM, RequestReady, ars2_addRequestorToSharers,
         cs_clearSharers
  <2>2. CASE DirM_PUTM_Owner \/ DirPut \/ DirStalePut
    BY Zenon, <2>2 DEF DirAssertions, DirM_PUTM_Owner, DirPut, DirStalePut, dirVars
  <2>3. CASE DirS_PUTS_Last
    <3>1. req.Requestor \in Sharers /\ Cardinality(Sharers) < 2
      <4>1. req \in RequestMsg
        BY Zenon, <2>3, PopRequestType DEF DirS_PUTS_Last, RequestReady
      <4> QED BY Zenon, <2>3, <4>1
                 DEF DirS_PUTS_Last, RequestReady, RequestEvent, req, RequestMsg
    <3>2. Sharers' = {}
      BY Zenon, <2>3, <3>1, LastSharer DEF DirS_PUTS_Last
    <3> QED BY Zenon, <2>3, <3>2 DEF DirAssertions, DirS_PUTS_Last
  <2>4. ASSUME NEW c \in Cache, DirMS_OD_Data(c) PROVE DirAssertions'
    BY Zenon, <2>4 DEF DirAssertions, DirMS_OD_Data
  <2>5. CASE DirMemPort
    BY Zenon, <2>5 DEF DirAssertions, DirMemPort, DirMemory_Data, DirMS_MA_Memory_Ack,
         DirMI_MA_Memory_Ack
  <2>6. ASSUME Environment \/ UNCHANGED vars
        PROVE  UNCHANGED <<dirState, Sharers, Owner>>
    BY <2>6, SMTT(30)
       DEF Environment, makeRequest, Replacement, Commit, vars, dirVars
  <2>7. ASSUME NEW c \in Cache,
               RequestArrives(c) \/ MandatoryPort(c) \/ ForwardPort(c)
        PROVE  UNCHANGED <<dirState, Sharers, Owner>>
    BY ZenonT(30), <2>7
       DEF RequestArrives, MandatoryPort, as_issueGetS, am_issueGetM,
         r_load_hit, s_store_hit, ForwardPort, AckInv, InvalidateS, FwdGetS,
         FwdGetM, WBAck, dirVars
  <2>8. ASSUME NEW c \in Cache, NEW s \in Machine, ResponsePort(c, s)
        PROVE  UNCHANGED <<dirState, Sharers, Owner>>
    BY Zenon, <2>8
       DEF ResponsePort, rx_load_hit, sx_store_hit_data, u_writeDataToCache,
         InvAck, sx_store_hit_acks, dirVars
  <2> QED BY Zenon, <2>0, <2>1, <2>2, <2>3, <2>4, <2>5, <2>6, <2>7, <2>8
       DEF Next, DirRequestPort
<1> QED BY <1>1, <1>2, TypeCorrect, PTL DEF Spec

-----------------------------------------------------------------------------
(***************************************************************************)
(* The notices to the CPU.                                                 *)
(***************************************************************************)
\* Every step after which the entry of the line is free tells the CPU, and the
\* load queue is only watched when the controller sends evictions.
LEMMA FreedToldStep ==
  ASSUME TypeOK, FreedTold, \A c \in Cache : lsq[c] => SendEvictions, [Next]_vars
  PROVE  FreedTold' /\ (\A c \in Cache : lsq[c] => SendEvictions)'
<1>t. lsq \in [Cache -> BOOLEAN] /\ cacheState \in [Cache -> CacheStates]
  BY Zenon DEF TypeOK
<1> DEFINE E(c) == lsq[c] => cacheState[c] \notin {"I", "IS_D"} /\ SendEvictions
<1>0. SUFFICES ASSUME NEW c \in Cache PROVE E(c)'
  BY Zenon DEF FreedTold
<1>e. E(c)
  BY Zenon DEF FreedTold
<1>k. lsq'[c] = lsq[c] /\ cacheState'[c] = cacheState[c] => E(c)'
  BY Zenon, <1>e
<1>1. CASE UNCHANGED vars
  BY Zenon, <1>1, <1>k DEF vars, cpuVars, cacheVars
<1>2. ASSUME NEW d \in Cache, (\E type \in ReqType : makeRequest(d, type)) \/ RequestArrives(d) PROVE E(c)'
  BY Zenon, <1>2, <1>k DEF makeRequest, RequestArrives, cpuVars, cacheVars
<1>3. ASSUME NEW d \in Cache, Replacement(d) \/ MandatoryPort(d) \/ Commit(d) \/ ForwardPort(d) PROVE E(c)'
  <2>1. CASE c # d
    BY ZenonT(40), <1>t, <1>k, <1>3, <2>1 DEF Replacement, Commit, MandatoryPort, as_issueGetS, am_issueGetM, r_load_hit, s_store_hit,
         ForwardPort, AckInv, I_Inv, SM_AD_Inv, SI_A_Inv, InvalidateS, FwdGetS, FwdGetM, WBAck, SetState, readCallback, writeCallback, completeDataAccess,
         forward_eviction_to_cpu, checkSnoop, cpuVars, cacheVars
  <2>2. CASE c = d
    <3>1. CASE as_issueGetS(c) \/ AckInv(c)
      <4>1. cacheState[c] \in {"I", "SM_AD", "SI_A"} /\ lsq' = lsq
        BY Zenon, <3>1 DEF as_issueGetS, AckInv, I_Inv, SM_AD_Inv, SI_A_Inv, cpuVars
      <4>2. cacheState[c] # "I" => cacheState'[c] \in {"IM_AD", "II_A"}
        BY SMTT(40), <1>t, <3>1, <4>1 DEF as_issueGetS, AckInv, I_Inv, SM_AD_Inv, SI_A_Inv, SetState
      <4> QED BY SMTT(40), <1>e, <4>1, <4>2
    <3>2. CASE am_issueGetM(c) \/ Replacement(c) \/ FwdGetS(c)
      <4>1. lsq' = lsq /\ cacheState'[c] \notin {"I", "IS_D"}
        BY Zenon, <1>t, <3>2 DEF am_issueGetM, Replacement, FwdGetS, SetState, cpuVars
      <4> QED BY ZenonT(40), <1>e, <4>1
    <3>3. CASE InvalidateS(c) \/ FwdGetM(c) \/ WBAck(c)
      <4>1. forward_eviction_to_cpu(c) \/ (lsq' = lsq /\ cacheState'[c] = "II_A")
        BY ZenonT(40), <1>t, <3>3 DEF InvalidateS, FwdGetM, WBAck, SetState
      <4>2. CASE forward_eviction_to_cpu(c)
        BY ZenonT(40), <1>t, <1>e, <4>2 DEF forward_eviction_to_cpu, checkSnoop
      <4>3. CASE lsq' = lsq /\ cacheState'[c] = "II_A"
        BY Zenon, <1>e, <4>3
      <4> QED BY ZenonT(40), <4>1, <4>2, <4>3
    <3>4. CASE r_load_hit(c)
      <4>1. lsq'[c] = SendEvictions /\ cacheState'[c] = cacheState[c] /\ cacheState[c] \notin {"I", "IS_D"}
        BY Zenon, <1>t, <3>4 DEF r_load_hit, readCallback, completeDataAccess, cacheVars
      <4> QED BY Zenon, <4>1
    <3>5. CASE Commit(c)
      BY Zenon, <1>t, <3>5 DEF Commit
    <3>6. ASSUME NEW v \in Value, s_store_hit(c, v) PROVE E(c)'
      <4>1. lsq'[c] \in {SendEvictions, lsq[c]} /\ cacheState'[c] = "M"
        BY ZenonT(40), <1>t, <3>6 DEF s_store_hit, writeCallback, completeDataAccess
      <4> QED BY Zenon, <1>e, <4>1
    <3> QED BY ZenonT(40), <1>3, <2>2, <3>1, <3>2, <3>3, <3>4, <3>5, <3>6 DEF MandatoryPort, ForwardPort
  <2> QED BY ZenonT(40), <2>1, <2>2
<1>4. ASSUME NEW d \in Cache, NEW s \in Machine, ResponsePort(d, s) PROVE E(c)'
  <2>1. CASE c # d
    BY ZenonT(40), <1>t, <1>k, <1>4, <2>1 DEF ResponsePort, rx_load_hit, sx_store_hit_data, u_writeDataToCache, InvAck, sx_store_hit_acks,
         SetState, readCallback, writeCallback, completeDataAccess, cpuVars
  <2>2. CASE c = d
    <3>1. CASE rx_load_hit(c, s)
      <4>1. lsq'[c] = SendEvictions /\ cacheState'[c] = "S"
        BY ZenonT(40), <1>t, <3>1 DEF rx_load_hit, readCallback, completeDataAccess, SetState
      <4> QED BY Zenon, <4>1
    <3>2. CASE ~rx_load_hit(c, s)
      <4>1. \/ lsq' = lsq /\ (cacheState'[c] \in {"IM_A", "SM_A"} \/ cacheState'[c] = cacheState[c])
            \/ lsq'[c] \in {SendEvictions, lsq[c]} /\ cacheState'[c] = "M"
        BY ZenonT(40), <1>t, <1>4, <2>2, <3>2 DEF ResponsePort, sx_store_hit_data, u_writeDataToCache, InvAck, sx_store_hit_acks,
             writeCallback, completeDataAccess, SetState, cpuVars
      <4> QED BY Zenon, <1>e, <4>1
    <3> QED BY ZenonT(40), <3>1, <3>2
  <2> QED BY ZenonT(40), <2>1, <2>2
<1>5. CASE DirRequestPort \/ (\E d \in Cache : DirMS_OD_Data(d)) \/ DirMemPort
  <2>1. UNCHANGED <<lsq, cacheState>>
    BY ZenonT(40), <1>5 DEF DirRequestPort, DirMemPort, DirI_GETS, DirI_GETM, DirS_GETS, DirS_GETM, DirM_GETS, DirM_GETM, DirM_PUTM_Owner,
         DirS_PUTS_Last, DirPut, DirStalePut, DirMS_OD_Data, DirMemory_Data, DirMS_MA_Memory_Ack, DirMI_MA_Memory_Ack, cpuVars, cacheVars
  <2> QED BY ZenonT(40), <2>1, <1>k
<1> QED BY ZenonT(40), <1>1, <1>2, <1>3, <1>4, <1>5 DEF Next, Environment

\* For any number of caches: forward_eviction_to_cpu is called by every
\* transition that frees the entry of the line, so that no uncommitted load of
\* the CPU outlives the entry it was served from, the entry of an upgrade that
\* lost the line (SM_AD, Inv) excepted, which is not freed.
THEOREM FreedLinesTold == Spec => []FreedTold
<1> DEFINE A == \A c \in Cache : lsq[c] => SendEvictions
<1>1. Init => FreedTold /\ A
  BY Zenon DEF Init, FreedTold
<1>2. TypeOK /\ FreedTold /\ A /\ [Next]_vars => FreedTold' /\ A'
  BY Zenon, FreedToldStep
<1> HIDE DEF A
<1> QED BY <1>1, <1>2, TypeCorrect, PTL DEF Spec

-----------------------------------------------------------------------------
(***************************************************************************)
(* One step with a lock, and one callback seen from the abstract memory.   *)
(***************************************************************************)
\* A lock of a readable line is honest, and a line that is not there has none.
LockKept(c) ==
  /\ locked[c] /\ Readable(c) => reserved[c]
  /\ cacheState[c] \in {"I", "IS_D"} => ~locked[c]

\* A write of another cache takes the line from c.
LEMMA LockWrite ==
  ASSUME TypeOK, SWMR', NEW c \in Cache, NEW d \in Cache, LockKept(c), NEW blk, NEW v, writeCallback(d, blk, v),
         cacheState'[d] = "M", c # d => cacheState'[c] = cacheState[c]
  PROVE  LockKept(c)'
<1>t. locked \in [Cache -> BOOLEAN] /\ reserved \in [Cache -> BOOLEAN]
  BY Zenon DEF TypeOK
<1>1. CASE c = d
  <2>1. locked'[c] = (requestTable[c] = "LL") /\ reserved'[c] = (requestTable[c] = "LL")
    BY Zenon, <1>t, <1>1 DEF writeCallback
  <2>2. cacheState'[c] \notin {"I", "IS_D"}
    BY Zenon, <1>1
  <2> QED BY Zenon, <2>1, <2>2 DEF LockKept
<1>2. CASE c # d
  <2>1. locked'[c] = locked[c] /\ cacheState'[c] = cacheState[c]
    BY Zenon, <1>t, <1>2 DEF writeCallback
  <2>2. ~Readable(c)'
    BY Zenon, <1>2 DEF SWMR
  <2> QED BY Zenon, <2>1, <2>2 DEF LockKept
<1> QED BY Zenon, <1>1, <1>2

\* Every step keeps the lock of one cache honest: only writes take a
\* reservation away, and they need the only copy of the line.
LEMMA LockStep ==
  ASSUME TypeOK, SWMR', [Next]_vars, NEW c \in Cache, LockKept(c)
  PROVE  LockKept(c)'
<1>t. locked \in [Cache -> BOOLEAN] /\ reserved \in [Cache -> BOOLEAN] /\ cacheState \in [Cache -> CacheStates]
  BY Zenon DEF TypeOK
<1>k. ASSUME locked'[c] = locked[c], reserved'[c] = reserved[c],
             \/ cacheState'[c] = cacheState[c]
             \/ cacheState[c] \in {"S", "SM_AD", "M", "IS_D"} /\ cacheState'[c] \in {"S", "SM_AD", "SM_A"}
             \/ cacheState'[c] \in {"IM_AD", "IM_A", "SI_A", "MI_A", "II_A"}
             \/ cacheState[c] = "I" /\ cacheState'[c] = "IS_D"
      PROVE  LockKept(c)'
  <2>1. CASE cacheState'[c] = cacheState[c]
    BY Zenon, <2>1, <1>k DEF LockKept, Readable
  <2>2. CASE cacheState[c] \in {"S", "SM_AD", "M", "IS_D"} /\ cacheState'[c] \in {"S", "SM_AD", "SM_A"}
    <3>1. locked[c] => Readable(c)
      BY Zenon, <2>2 DEF LockKept, Readable
    <3>2. cacheState'[c] \notin {"I", "IS_D"}
      BY Zenon, <2>2
    <3> QED BY Zenon, <3>1, <3>2, <1>k DEF LockKept
  <2>3. CASE cacheState'[c] \in {"IM_AD", "IM_A", "SI_A", "MI_A", "II_A"}
    BY Zenon, <2>3 DEF LockKept, Readable
  <2>4. CASE cacheState[c] = "I" /\ cacheState'[c] = "IS_D"
    BY Zenon, <2>4, <1>k DEF LockKept, Readable
  <2> QED BY ZenonT(40), <1>k, <2>1, <2>2, <2>3, <2>4
<1>f. ~locked'[c] => LockKept(c)'
  BY Zenon DEF LockKept
<1>1. CASE UNCHANGED vars
  BY Zenon, <1>1, <1>k DEF vars, cacheVars
<1>2. ASSUME NEW d \in Cache, (\E type \in ReqType : makeRequest(d, type)) \/ RequestArrives(d) \/ Commit(d) \/ r_load_hit(d)
      PROVE  LockKept(c)'
  BY Zenon, <1>2, <1>k DEF makeRequest, RequestArrives, Commit, r_load_hit, readCallback, cacheVars
<1>3. ASSUME NEW d \in Cache, Replacement(d) \/ as_issueGetS(d) \/ am_issueGetM(d) PROVE LockKept(c)'
  <2>1. locked' = locked /\ reserved' = reserved
    BY Zenon, <1>3 DEF Replacement, as_issueGetS, am_issueGetM
  <2>2. CASE c # d
    BY ZenonT(40), <1>t, <1>3, <2>1, <2>2, <1>k DEF Replacement, as_issueGetS, am_issueGetM, SetState
  <2>3. CASE c = d
    <3>1. CASE as_issueGetS(c)
      BY ZenonT(40), <1>t, <2>1, <3>1, <1>k DEF as_issueGetS, SetState
    <3>2. CASE am_issueGetM(c) \/ Replacement(c)
      <4>1. \/ cacheState[c] = "S" /\ cacheState'[c] = "SM_AD"
            \/ cacheState'[c] \in {"IM_AD", "SI_A", "MI_A"}
        BY ZenonT(40), <1>t, <3>2 DEF am_issueGetM, Replacement, SetState
      <4> QED BY ZenonT(40), <4>1, <2>1, <1>k
    <3> QED BY ZenonT(40), <1>3, <2>3, <3>1, <3>2
  <2> QED BY Zenon, <2>2, <2>3
<1>4. ASSUME NEW d \in Cache, NEW v \in Value, s_store_hit(d, v) PROVE LockKept(c)'
  BY ZenonT(40), <1>4, LockWrite DEF s_store_hit
<1>5. ASSUME NEW d \in Cache, ForwardPort(d) PROVE LockKept(c)'
  <2>1. reserved' = reserved
    BY Zenon, <1>5 DEF ForwardPort, AckInv, InvalidateS, FwdGetS, FwdGetM, WBAck
  <2>2. CASE c # d
    BY ZenonT(40), <1>t, <1>5, <2>1, <2>2, <1>k DEF ForwardPort, AckInv, I_Inv, SM_AD_Inv, SI_A_Inv, InvalidateS, FwdGetS, FwdGetM, WBAck, SetState, h_deallocateL1CacheBlock
  <2>3. CASE c = d
    <3>1. CASE AckInv(c)
      <4>1. \/ cacheState[c] = "I" /\ cacheState'[c] = "I"
            \/ cacheState'[c] \in {"IM_AD", "II_A"}
        BY <1>t, <3>1 DEF AckInv, I_Inv, SM_AD_Inv, SI_A_Inv, SetState
      <4>2. locked' = locked
        BY Zenon, <3>1 DEF AckInv
      <4> QED BY ZenonT(40), <4>1, <4>2, <2>1, <1>k
    <3>2. CASE FwdGetS(c)
      <4>1. \/ cacheState[c] = "M" /\ cacheState'[c] = "S"
            \/ cacheState'[c] = "SI_A"
        BY ZenonT(40), <1>t, <3>2 DEF FwdGetS, SetState
      <4>2. locked' = locked
        BY Zenon, <3>2 DEF FwdGetS
      <4> QED BY ZenonT(40), <4>1, <4>2, <2>1, <1>k
    <3>3. CASE InvalidateS(c) \/ WBAck(c) \/ FwdGetM(c)
      <4>1. ~locked'[c] \/ (locked' = locked /\ cacheState'[c] = "II_A")
        BY ZenonT(40), <1>t, <3>3 DEF InvalidateS, WBAck, FwdGetM, SetState, h_deallocateL1CacheBlock
      <4> QED BY ZenonT(40), <4>1, <2>1, <1>k, <1>f
    <3> QED BY ZenonT(40), <1>5, <2>3, <3>1, <3>2, <3>3 DEF ForwardPort
  <2> QED BY Zenon, <2>2, <2>3
<1>6. ASSUME NEW d \in Cache, NEW s \in Machine, rx_load_hit(d, s) \/ u_writeDataToCache(d, s) \/ InvAck(d, s) PROVE LockKept(c)'
  <2>1. locked' = locked /\ reserved' = reserved
    BY Zenon, <1>6 DEF rx_load_hit, u_writeDataToCache, InvAck, readCallback
  <2>2. \/ cacheState'[c] = cacheState[c]
        \/ cacheState[c] = "IS_D" /\ cacheState'[c] = "S"
        \/ cacheState[c] = "SM_AD" /\ cacheState'[c] = "SM_A"
        \/ cacheState'[c] = "IM_A"
    BY Zenon, <1>t, <1>6 DEF rx_load_hit, u_writeDataToCache, InvAck, SetState
  <2> QED BY ZenonT(40), <2>1, <2>2, <1>k
<1>7. ASSUME NEW d \in Cache, NEW s \in Machine, NEW v \in Value, sx_store_hit_data(d, s, v) \/ sx_store_hit_acks(d, s, v) PROVE LockKept(c)'
  <2>1. cacheState'[d] = "M" /\ (c # d => cacheState'[c] = cacheState[c]) /\ \E blk : writeCallback(d, blk, v)
    BY Zenon, <1>t, <1>7 DEF sx_store_hit_data, sx_store_hit_acks, SetState
  <2> QED BY Zenon, <2>1, LockWrite
<1>8. CASE DirRequestPort \/ (\E d \in Cache : DirMS_OD_Data(d)) \/ DirMemPort
  <2>1. UNCHANGED <<locked, cacheState, reserved>>
    BY ZenonT(40), <1>8 DEF DirRequestPort, DirMemPort, DirI_GETS, DirI_GETM, DirS_GETS, DirS_GETM, DirM_GETS, DirM_GETM, DirM_PUTM_Owner,
         DirS_PUTS_Last, DirPut, DirStalePut, DirMS_OD_Data, DirMemory_Data, DirMS_MA_Memory_Ack, DirMI_MA_Memory_Ack, cacheVars
  <2> QED BY ZenonT(40), <2>1, <1>k
<1> QED BY ZenonT(40), <1>1, <1>2, <1>3, <1>4, <1>5, <1>6, <1>7, <1>8 DEF Next, Environment, MandatoryPort, ResponsePort

\* The data a callback returns is the memory's.
Answers(blk) == AccessPhysMem \/ blk = physMem

\* A load's callback is the abstract load.
LEMMA LoadRefines ==
  ASSUME TypeOK, NEW c \in Cache, requestTable[c] = "LD", NEW blk, Answers(blk), readCallback(c, blk)
  PROVE  Serial!Load(c)
<1>1. ReadData(blk) = physMem
  BY Zenon DEF Answers, ReadData
<1>2. [reserved EXCEPT ![c] = IF requestTable[c] = "LL" THEN TRUE ELSE @] = reserved
  <2>1. reserved \in [Cache -> BOOLEAN] /\ requestTable[c] # "LL"
    BY Zenon DEF TypeOK
  <2> QED BY Zenon, <2>1
<1> QED BY Zenon, <1>1, <1>2 DEF Serial!Load, Serial!Complete, readCallback, NoRequest

\* A store's callback is the abstract store, an LL's the abstract load.
LEMMA WriteRefines ==
  ASSUME TypeOK, NEW c \in Cache, requestTable[c] \in {"ST", "LL"}, NEW blk, Answers(blk), NEW v \in Value, writeCallback(c, blk, v)
  PROVE  Serial!Load(c) \/ Serial!Store(c, v)
<1>t. reserved \in [Cache -> BOOLEAN] /\ result \in [Cache -> Value]
  BY Zenon DEF TypeOK
<1>1. CASE requestTable[c] = "LL"
  <2>1. ReadData(blk) = physMem
    BY Zenon DEF Answers, ReadData
  <2>2. reserved' = [d \in Cache |-> IF d = c THEN TRUE ELSE reserved[d]]
    <3>1. reserved' = [d \in Cache |-> IF d = c THEN TRUE ELSE reserved[d] /\ TRUE]
      BY Zenon, <1>1 DEF writeCallback
    <3>2. \A d \in Cache : (reserved[d] /\ TRUE) = reserved[d]
      BY Zenon, <1>t
    <3> QED BY Zenon, <3>1, <3>2
  <2>3. reserved' = [reserved EXCEPT ![c] = IF requestTable[c] = "LL" THEN TRUE ELSE @]
    BY Zenon, <1>t, <1>1, <2>2
  <2>4. result' = [result EXCEPT ![c] = physMem] /\ physMem' = physMem /\ requestTable' = [requestTable EXCEPT ![c] = "NULL"]
    BY ZenonT(40), <1>1, <2>1 DEF writeCallback, NoRequest
  <2> QED BY ZenonT(40), <1>1, <2>3, <2>4 DEF Serial!Load, Serial!Complete
<1>2. CASE requestTable[c] = "ST"
  <2>1. requestTable[c] # "LL" /\ Success(c)
    BY Zenon, <1>2 DEF Success
  <2>2. result' = result
    <3>1. result' = [result EXCEPT ![c] = @]
      BY Zenon, <2>1 DEF writeCallback
    <3> QED BY Zenon, <1>t, <3>1
  <2>3. reserved' = [d \in Cache |-> FALSE]
    <3>1. reserved' = [d \in Cache |-> IF d = c THEN FALSE ELSE reserved[d] /\ FALSE]
      BY Zenon, <2>1 DEF writeCallback
    <3> QED BY Zenon, <3>1
  <2>4. physMem' = v /\ requestTable' = [requestTable EXCEPT ![c] = "NULL"]
    BY Zenon, <2>1 DEF writeCallback, NoRequest
  <2> QED BY ZenonT(40), <1>2, <2>2, <2>3, <2>4 DEF Serial!Store, Serial!Complete
<1> QED BY ZenonT(40), <1>1, <1>2

\* The request a callback retires is of the kind the controller served.
LEMMA RequestServedKind ==
  ASSUME TypeOK, SequencerAsserts, "SC" \notin ReqType, NEW c \in Cache
  PROVE  /\ MandatoryReady(c, "Load") => requestTable[c] = "LD"
         /\ MandatoryReady(c, "Store") => requestTable[c] \in {"ST", "LL"}
         /\ cacheState[c] = "IS_D" => requestTable[c] = "LD"
         /\ cacheState[c] \in {"IM_AD", "IM_A", "SM_AD", "SM_A"} => requestTable[c] \in {"ST", "LL"}
<1>1. requestTable[c] \in {"LD", "ST", "LL", NoRequest}
  BY Zenon, MSIAssumption DEF TypeOK
<1>2. mandatoryQueue[c] # <<>> => Head(mandatoryQueue[c]) = requestTable[c] /\ requestTable[c] # NoRequest
  BY DEF SequencerAsserts
<1>3. MandatoryReady(c, "Load") => requestTable[c] = "LD"
  BY Zenon, <1>1, <1>2 DEF MandatoryReady, mandatory_request_type_to_event
<1>4. MandatoryReady(c, "Store") => requestTable[c] \in {"ST", "LL"}
  BY Zenon, <1>1, <1>2 DEF MandatoryReady, mandatory_request_type_to_event
<1>5. cacheState[c] = "IS_D" => requestTable[c] = "LD"
  BY Zenon DEF SequencerAsserts, Waiting
<1>6. cacheState[c] \in {"IM_AD", "IM_A", "SM_AD", "SM_A"} => requestTable[c] \in {"ST", "LL"}
  BY Zenon, <1>1 DEF SequencerAsserts, Waiting, StoreTypes, NoRequest
<1> QED BY Zenon, <1>3, <1>4, <1>5, <1>6
=============================================================================
