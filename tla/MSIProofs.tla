----------------------------- MODULE MSIProofs ------------------------------
(***************************************************************************)
(* The theorems about the MSI protocol for any number of caches and        *)
(* values: the inductive invariants Coherent and Fresh, and what follows   *)
(* from them.                                                              *)
(*                                                                         *)
(* Coherent is inductive relative to TypeOK and DirAssertions, which       *)
(* MSITypes proves; Fresh is inductive relative to Coherent. SWMR,         *)
(* NoInvalidTransition, OneCarrier and AckConservation follow from         *)
(* Coherent, DataValue from Fresh, and the refinement of SerialMemory from *)
(* both.                                                                   *)
(***************************************************************************)
EXTENDS MSIData, MSITypes, MSITransactions

(***************************************************************************)
(* Coherence.                                                              *)
(***************************************************************************)
\* The facts about cardinalities that the counting lemmas take as hypotheses.
LEMMA CacheCardinality == CardFacts
<1>1. SUFFICES ASSUME NEW S \in SUBSET Cache
      PROVE  /\ Cardinality(S) \in Nat
             /\ Cardinality(S) = 0 <=> S = {}
             /\ \A x \in S : Cardinality(S \ {x}) = Cardinality(S) - 1
  BY Zenon DEF CardFacts
<1>2. IsFiniteSet(S)
  BY Zenon, MSIAssumption, FS_Subset
<1> QED BY SMTT(40), <1>2, FS_CardinalityType, FS_EmptySet, FS_RemoveElement

\* Nothing is on the way at the start and the directory has the token.
LEMMA CoherentInit == Init => Coherent
<1> SUFFICES ASSUME Init PROVE Coherent
  BY Zenon
<1>1. /\ \A c \in Cache : /\ cacheState[c] = "I" /\ pendingAcks[c] = 0
                          /\ requestNet[c] = <<>> /\ forwardToCache[c] = <<>>
      /\ \A s, d \in Machine : responseNet[s][d] = <<>>
      /\ requestToDir = <<>> /\ memBuffer = <<>> /\ dirState = "I" /\ Sharers = {} /\ Owner = {}
  BY Zenon DEF Init
<1>2. Contents(<<>>) = {} /\ DOMAIN <<>> = {} /\ Len(<<>>) = 0
  BY SMTT(40) DEF Contents
<1>3. \A c \in Cache : Requests(c) = {} /\ Forwards(c) = {}
  BY Zenon, <1>1, <1>2 DEF Requests, Forwards
<1>4. /\ \A c \in Cache : ~Asking(c) /\ (\A t : ~Asks(c, t)) /\ ~WbAcked(c) /\ \A t, r : ~Fwd(c, t, r)
      /\ \A c \in Cache : ~InMemory(c) /\ (\A s \in Machine : ~Data(s, c) /\ ~Ack(s, c)) /\ Count(c) = 0
      /\ ~DataToDir
  BY Zenon, <1>1, <1>3, MachineFacts DEF Asking, Asks, WbAcked, Fwd, InMemory, Data, Ack, Count, DataToDir
<1>5. \A c \in Cache : ~HasForward(c) /\ ~Forwarded(c) /\ ~Invalidated(c) /\ ~Answered(c) /\ \A d \in Cache : ~Forward(d, c)
  BY Zenon, <1>4 DEF HasForward, Forwarded, Forward, Invalidated, Answered
<1>6. RequestQueues /\ ForwardQueues /\ ResponseQueues /\ Memory
  BY SMTT(40), <1>1, <1>2, <1>3 DEF RequestQueues, ForwardQueues, InOrder, ResponseQueues, Memory
<1>7. Carried
  <2>1. \A c \in Cache : cacheState[c] \notin Outstanding
    BY Zenon, <1>1 DEF Outstanding, Gets, Puts
  <2> QED BY ZenonT(40), <2>1, <1>4, <1>5 DEF Carried, CarriedOnce
<1>8. AskAgrees /\ AnswerAgrees /\ MemoryAgrees
  BY Zenon, <1>4, <1>5 DEF AskAgrees, AnswerAgrees, MemoryAgrees
<1>9. \A c \in Cache : ~Token(c) /\ ~Gathering(c) /\ ~Reader(c)
  BY Zenon, <1>1 DEF Token, Gathering, Reader, Gets, Counting
<1>10. \A c, d \in Cache : ~Owes(d, c)
  BY Zenon, <1>4, MachineFacts DEF Owes
<1>11. OneToken /\ AckTargets /\ Readers
  BY ZenonT(40), <1>4, <1>9, <1>10, MachineFacts DEF OneToken, AckTargets, Readers
<1>12. AckCounts
  <2>1. \A c \in Cache : Owing(c) = {}
    BY Zenon, <1>10 DEF Owing
  <2>2. Cardinality({}) = 0
    BY Zenon, CacheCardinality DEF CardFacts
  <2>3. \A c \in Cache : cacheState[c] \notin Counting
    BY Zenon, <1>1 DEF Counting
  <2>4. \A c \in Cache : /\ pendingAcks[c] = 0 /\ Count(c) = 0 /\ Cardinality(Owing(c)) = 0
    BY Zenon, <2>1, <2>2, <1>1, <1>4
  <2>5. \A c \in Cache : pendingAcks[c] - Count(c) = Cardinality(Owing(c)) /\ pendingAcks[c] <= 0
    BY SMTT(40), <2>4
  <2> QED BY Zenon, <2>3, <2>4, <2>5 DEF AckCounts
<1>13. InvTargets /\ FwdTargets /\ OwnerAnswers /\ KnownSharers
  BY Zenon, <1>1, <1>4, <1>5, MachineFacts DEF InvTargets, FwdTargets, OwnerAnswers, KnownSharers
<1> QED BY ZenonT(40), <1>6, <1>7, <1>8, <1>11, <1>12, <1>13 DEF Coherent

\* Every step of a cache, of the directory and of the network keeps the
\* invariant: one lemma of MSICacheSteps, MSIData or MSIDirectorySteps each.
LEMMA CoherentStep ==
  ASSUME TypeOK, DirAssertions, Coherent, [Next]_vars
  PROVE  Coherent'
<1>c. CardFacts
  BY Zenon, CacheCardinality
<1>q. RequestQueues
  BY Zenon DEF Coherent
<1>0. ASSUME UNCHANGED <<cacheState, pendingAcks, requestNet, requestToDir,
               forwardToCache, responseNet, dirState, Sharers, Owner, memBuffer>>
      PROVE  Coherent'
  <2>1. RequestsSame
    BY Zenon, <1>0, <1>q, RequestsKept
  <2> QED BY Zenon, <2>1, <1>0, KeptOK
<1>1. CASE UNCHANGED vars
  BY Zenon, <1>0, <1>1 DEF vars, cacheVars, netVars, dirVars
<1>2. CASE Environment
  <2>1. PICK c \in Cache : \/ \E type \in ReqType : makeRequest(c, type)
                           \/ Replacement(c)
                           \/ Commit(c)
    BY Zenon, <1>2 DEF Environment
  <2>2. CASE \E type \in ReqType : makeRequest(c, type)
    BY Zenon, <2>2, <1>0 DEF makeRequest, cacheVars, netVars, dirVars
  <2>3. CASE Replacement(c)
    BY Zenon, <2>3, IssueOK
  <2>4. CASE Commit(c)
    BY Zenon, <2>4, <1>0 DEF Commit, cacheVars, netVars, dirVars
  <2> QED BY ZenonT(40), <2>1, <2>2, <2>3, <2>4
<1>3. ASSUME NEW c \in Cache, RequestArrives(c) PROVE Coherent'
  <2>1. RequestsSame
    BY ZenonT(40), <1>3, <1>q, RequestArrived
  <2> QED BY ZenonT(40), <2>1, <1>3, KeptOK DEF RequestArrives, cacheVars, dirVars
<1>4. ASSUME NEW c \in Cache, MandatoryPort(c) PROVE Coherent'
  <2>1. CASE as_issueGetS(c) \/ am_issueGetM(c)
    BY Zenon, <2>1, IssueOK
  <2>2. CASE r_load_hit(c)
    BY Zenon, <2>2, <1>0 DEF r_load_hit, cacheVars, netVars, dirVars
  <2>3. ASSUME NEW v \in Value, s_store_hit(c, v) PROVE Coherent'
    BY Zenon, <2>3, <1>0 DEF s_store_hit, netVars, dirVars
  <2> QED BY ZenonT(40), <1>4, <2>1, <2>2, <2>3 DEF MandatoryPort
<1>5. ASSUME NEW c \in Cache, ForwardPort(c) PROVE Coherent'
  BY ZenonT(40), <1>5, AcknowledgeOK, FwdGetSOK, FwdGetMOK, WBAckOK DEF ForwardPort
<1>6. ASSUME NEW c \in Cache, NEW s \in Machine, ResponsePort(c, s) PROVE Coherent'
  BY ZenonT(40), <1>6, <1>c, LoadHitOK, StoreHitOK, StoreWaitsOK, InvAckOK, LastAckOK DEF ResponsePort
<1>7. CASE DirRequestPort
  BY ZenonT(40), <1>7, <1>c, DirIOK, DirSGetSOK, DirSGetMOK, DirMOK, DirPutmOK, DirPutsOK DEF DirRequestPort
<1>8. ASSUME NEW c \in Cache, DirMS_OD_Data(c) PROVE Coherent'
  BY Zenon, <1>8, DirOwnerDataOK
<1>9. CASE DirMemPort
  BY ZenonT(40), <1>9, DirMemoryDataOK, DirSharedAckOK, DirOwnerAckOK DEF DirMemPort
<1> QED BY ZenonT(40), <1>1, <1>2, <1>3, <1>4, <1>5, <1>6, <1>7, <1>8, <1>9 DEF Next

\* The token argument holds in every execution of the two controllers of
\* MSI-cache.sm and MSI-dir.sm, for any number of caches.
THEOREM CoherenceInvariant == Spec => []Coherent
<1>1. Init => Coherent
  BY Zenon, CoherentInit
<1>2. TypeOK /\ DirAssertions /\ Coherent /\ [Next]_vars => Coherent'
  BY Zenon, CoherentStep
<1> QED BY <1>1, <1>2, TypeCorrect, DirectorySafe, PTL DEF Spec

\* While the cache controller of one cache has the line in M, no other cache
\* is in a state that serves loads: two of them would share the token, or an
\* invalidation would be on the way to a cache that still counts.
THEOREM SingleWriter == Spec => []SWMR
<1>1. Coherent => SWMR
  <2> SUFFICES ASSUME Coherent, NEW c \in Cache, NEW d \in Cache, c # d, cacheState[c] = "M", Readable(d)
               PROVE  FALSE
    BY Zenon DEF SWMR
  <2>1. Token(c) /\ ~DirToken /\ ~Token(d)
    BY Zenon DEF Token, OneToken, Coherent
  <2>2. Reader(d)
    <3>1. cacheState[d] \notin Counting \cup {"M"}
      BY Zenon, <2>1 DEF Token
    <3> QED BY Zenon, <3>1 DEF Readable, Reader, Counting
  <2>3. PICK r \in Cache : Fwd(d, "INV", r)
    BY ZenonT(40), <2>1, <2>2 DEF Coherent, Readers, Invalidated
  <2>4. Gathering(r)
    BY Zenon, <2>3 DEF Coherent, AckTargets, Owes
  <2>5. Token(r)
    BY Zenon, <2>4, MachineFacts DEF Gathering, Token, Answered
  <2>6. r = c
    BY ZenonT(40), <2>1, <2>5 DEF Coherent, OneToken
  <2> QED BY Zenon, <2>4, <2>6 DEF Gathering, Counting, Gets
<1> QED BY <1>1, CoherenceInvariant, PTL

\* What the queues hold when a controller looks at them, by event.
LEMMA CoherentEvents ==
  ASSUME TypeOK, DirAssertions, Coherent PROVE NoInvalidTransition
<1>1. ASSUME NEW c \in Cache, forwardToCache[c] # <<>>
      PROVE  cacheState[c] \in CacheTransitions[ForwardEvent[Head(forwardToCache[c]).Type]]
  <2> DEFINE m == Head(forwardToCache[c])
  <2>1. m \in Forwards(c) /\ m \in ForwardMsg
    <3>1. forwardToCache[c] \in Seq(ForwardMsg)
      BY Zenon DEF TypeOK
    <3> QED BY SMTT(40), <1>1, <3>1 DEF Forwards, Contents
  <2>2. m.Type \in {"GETS", "GETM", "INV", "WB_ACK"} /\ m = [Type |-> m.Type, Requestor |-> m.Requestor]
    BY Zenon, <2>1 DEF ForwardMsg
  <2>3. m.Type # "WB_ACK" => m.Requestor \in Cache /\ Fwd(c, m.Type, m.Requestor)
    BY ZenonT(40), <2>1, <2>2 DEF ForwardQueues, Fwd, Coherent
  <2> HIDE DEF m
  <2>4. CASE m.Type = "WB_ACK"
    <3>1. cacheState[c] \in Puts
      BY ZenonT(40), <2>1, <2>4 DEF AnswerAgrees, WbAcked, Coherent
    <3> QED BY SMTT(40), <2>4, <3>1 DEF m, ForwardEvent, CacheTransitions, Puts
  <2>5. CASE m.Type = "INV"
    <3>1. cacheState[c] \in {"IS_D", "S", "SM_AD", "SI_A"}
      BY ZenonT(40), <2>3, <2>5 DEF InvTargets, Invalidated, Coherent
    <3> QED BY SMTT(40), <2>5, <3>1 DEF m, ForwardEvent, CacheTransitions
  <2>6. CASE m.Type \in {"GETS", "GETM"}
    <3>1. m.Type = "GETS" \/ m.Type = "GETM"
      BY Zenon, <2>6
    <3>2. HasForward(c) /\ m.Type # "WB_ACK"
      BY ZenonT(40), <2>3, <3>1 DEF HasForward, Forward
    <3>3. Possessor(c)
      BY ZenonT(40), <3>2 DEF FwdTargets, Coherent
    <3> QED BY SMTT(40), <3>1, <3>3 DEF m, ForwardEvent, CacheTransitions, Possessor, Counting, Gets
  <2> QED BY SMTT(40), <2>2, <2>4, <2>5, <2>6
<1>2. ASSUME NEW c \in Cache, NEW s \in Machine, responseNet[s][c] # <<>>
      PROVE  cacheState[c] \in CacheTransitions[ResponseEvent(c, Head(responseNet[s][c]))]
  <2> DEFINE m == Head(responseNet[s][c])
             e == ResponseEvent(c, m)
  <2>q. ResponseQueues
    BY Zenon DEF Coherent
  <2>1. /\ m \in ResponseMsg
        /\ \/ s = Dir /\ m.Type = "DATA_FROM_DIR" /\ m.AckCount = 0 /\ e = "Data_from_Dir_No_Acks"
           \/ /\ s = Dir /\ m.Type = "DATA_FROM_DIR" /\ m.AckCount # 0
              /\ e \in {"Data_from_Dir_Ack_Cnt_Last", "Data_from_Dir_Ack_Cnt"}
           \/ s \in Cache /\ m.Type = "DATA_FROM_OWNER" /\ e = "Data_from_Owner"
           \/ s \in Cache /\ m.Type = "ACK" /\ pendingAcks[c] = 1 /\ e = "Inv_Ack_all"
           \/ s \in Cache /\ m.Type = "ACK" /\ e = "Inv_Ack"
    BY ZenonT(40), <1>2, <2>q, ResponseKind
  <2>t. pendingAcks[c] \in Int /\ m.AckCount \in Int
    BY SMTT(40), <2>1 DEF TypeOK, ResponseMsg
  <2> HIDE DEF e
  <2>2. CASE m.Type \in {"DATA_FROM_DIR", "DATA_FROM_OWNER"}
    <3>1. Answered(c)
      BY Zenon, <1>2, <2>2 DEF Answered, Data
    <3>2. cacheState[c] \in {"IM_AD", "SM_AD", "IS_D"}
      BY Zenon, <3>1 DEF AnswerAgrees, Gets, Coherent
    <3>3. s = Dir /\ m.AckCount # 0 => cacheState[c] # "IS_D"
      <4>1. SUFFICES ASSUME s = Dir, m.AckCount # 0 PROVE Gathering(c)
        BY Zenon DEF Gathering, Counting, Gets
      <4>2. Count(c) # 0
        <5>1. responseNet[Dir][c] # <<>> /\ Head(responseNet[Dir][c]).AckCount # 0
          BY ZenonT(40), <4>1, <1>2
        <5> QED BY Zenon, <5>1 DEF Count
      <4> QED BY Zenon, <4>2 DEF AckCounts, Coherent
    <3> QED BY SMTT(40), <2>1, <2>2, <3>2, <3>3 DEF CacheTransitions, e
  <2>3. CASE m.Type = "ACK"
    <3>1. e \in {"Inv_Ack", "Inv_Ack_all"} /\ s \in Cache /\ (e = "Inv_Ack_all" => pendingAcks[c] = 1)
      BY Zenon, <2>1, <2>3
    <3>2. Ack(s, c)
      BY Zenon, <1>2, <2>3 DEF Ack
    <3>3. Gathering(c)
      BY ZenonT(40), <3>1, <3>2 DEF AckTargets, Owes, Coherent
    <3>4. cacheState[c] \in {"IM_AD", "IM_A", "SM_AD", "SM_A"}
      BY Zenon, <3>3 DEF Gathering, Counting, Gets
    <3>5. pendingAcks[c] = 1 => cacheState[c] \in {"IM_A", "SM_A"}
      BY SMTT(40), <2>t DEF AckCounts, Counting, Coherent
    <3> QED BY SMTT(40), <3>1, <3>4, <3>5 DEF CacheTransitions, e
  <2> QED BY SMTT(40), <2>1, <2>2, <2>3
<1>3. ASSUME requestToDir # <<>> PROVE dirState \in DirTransitions[RequestEvent(Head(requestToDir))]
  <2>t. dirState \in DirStates
    BY Zenon DEF TypeOK
  <2>1. CASE RequestEvent(req) # "PUTM_Owner"
    <3>1. RequestEvent(req) \in {"GETS", "GETM", "PUTM_NotOwner", "PUTS_Last", "PUTS_NotLast"}
      BY SMTT(40), <1>3, <2>1, RequestKind
    <3> QED BY SMTT(40), <3>1, <2>t DEF DirTransitions, req
  <2>2. CASE RequestEvent(req) = "PUTM_Owner"
    <3>1. req.Type = "PUTM" /\ req.Requestor \in Owner
      BY SMTT(40), <1>3, <2>2, RequestKind
    <3>2. req \in Requests(req.Requestor) /\ req.Requestor \in Cache
      <4>1. requestToDir \in Seq(RequestMsg)
        BY Zenon DEF TypeOK
      <4>2. req \in Contents(requestToDir) /\ req.Requestor \in Cache
        <5>1. 1 \in DOMAIN requestToDir /\ req = requestToDir[1]
          BY SMTT(40), <1>3, <4>1 DEF req
        <5> QED BY Zenon, <5>1, <1>3, PopRequestType DEF Contents
      <4> QED BY Zenon, <4>2 DEF Requests
    <3>3. PICK r \in Cache : r = req.Requestor
      BY Zenon, <3>2
    <3>4. Asks(r, "PUTM") /\ Asking(r) /\ r \in Owner
      BY Zenon, <3>1, <3>2, <3>3 DEF Asks, Asking
    <3>5. cacheState[r] \in Puts /\ ~InMemory(r)
      BY ZenonT(40), <3>4 DEF AskAgrees, Carried, CarriedOnce, Coherent
    <3>6. dirState \in {"IM_MD", "M", "MI_MA"} /\ Owner = {r}
      BY Zenon, <2>t, <3>4 DEF DirAssertions, DirStates
    <3>7. dirState = "M"
      <4>1. SUFFICES ASSUME dirState # "M" PROVE FALSE
        BY Zenon
      <4>2. memBuffer # <<>>
        BY Zenon, <3>6, <4>1 DEF Memory, Coherent
      <4>3. PICK x \in Cache : InMemory(x)
        <5>1. Head(memBuffer) \in MemoryMsg
          BY SMTT(40), <4>2 DEF TypeOK
        <5> QED BY SMTT(40), <5>1, <3>6, <4>2 DEF InMemory, MemoryMsg
      <4>4. x \in Owner
        BY SMTT(40), <3>6, <4>3 DEF MemoryAgrees, Coherent
      <4> QED BY SMTT(40), <3>5, <3>6, <4>3, <4>4
    <3> QED BY SMTT(40), <2>2, <3>7 DEF DirTransitions, req
  <2> QED BY ZenonT(40), <2>1, <2>2
<1>4. ASSUME NEW s \in Machine, responseNet[s][Dir] # <<>>
      PROVE  dirState = "MS_OD" /\ Head(responseNet[s][Dir]).Type = "DATA"
  <2>1. s \in Cache /\ Head(responseNet[s][Dir]).Type = "DATA"
    BY SMTT(40), <1>4, MachineFacts DEF ResponseQueues, GoodResponse, Coherent
  <2> QED BY SMTT(40), <2>1, <1>4 DEF OwnerAnswers, DataToDir, Coherent
<1>5. ASSUME memBuffer # <<>>
      PROVE  dirState \in IF Head(memBuffer).Type = "MEMORY_READ"
                          THEN {"IS_MD", "IM_MD"} ELSE {"MS_MA", "MI_MA"}
  BY Zenon, <1>5 DEF Memory, Coherent
<1> QED BY ZenonT(40), <1>1, <1>2, <1>3, <1>4, <1>5 DEF NoInvalidTransition

\* Whatever message is at the head of a port, the controller has a transition
\* for it in the state it is in: the generated code's "Invalid transition"
\* error is never reached, for any number of caches and any delays.
THEOREM EveryEventHandled == Spec => []NoInvalidTransition
<1>1. TypeOK /\ DirAssertions /\ Coherent => NoInvalidTransition
  BY Zenon, CoherentEvents
<1> QED BY <1>1, TypeCorrect, DirectorySafe, CoherenceInvariant, PTL

-----------------------------------------------------------------------------
(***************************************************************************)
(* The data.                                                               *)
(***************************************************************************)
\* Memory and directory agree at the start.
LEMMA FreshInit == Init => Fresh
<1> SUFFICES ASSUME Init PROVE Fresh
  BY Zenon
<1>1. /\ \A c \in Cache : cacheState[c] = "I"
      /\ \A s, d \in Machine : responseNet[s][d] = <<>>
      /\ memBuffer = <<>> /\ dirData = InitValue /\ physMem = InitValue
  BY Zenon DEF Init
<1>2. Contents(<<>>) = {}
  BY DEF Contents
<1>3. FreshCopies /\ FreshPuts
  BY Zenon, <1>1 DEF FreshCopies, FreshPuts
<1> QED BY ZenonT(40), <1>1, <1>2, <1>3 DEF Fresh, FreshResponses, FreshMemory

\* Every step keeps the data fresh: a write is done by the only cache that may
\* still be read from, and a copy is made of a fresh one.
LEMMA FreshStep ==
  ASSUME TypeOK, DirAssertions, Coherent, Fresh, TypeOK', Coherent', DataAssumption, [Next]_vars
  PROVE  Fresh'
<1>c. CardFacts
  BY Zenon, CacheCardinality
<1>1. CASE UNCHANGED vars
  <2>1. UNCHANGED <<cacheState, DataBlk, tbeData, forwardToCache, responseNet, dirState, dirData, memBuffer, physMem, requestNet, requestToDir>>
    BY Zenon, <1>1 DEF vars, cacheVars, netVars, dirVars
  <2>2. \A d \in Cache : Requests(d)' = Requests(d)
    BY Zenon, <2>1 DEF Requests
  <2> QED BY ZenonT(40), <2>1, <2>2, FreshKept
<1>2. CASE Environment
  BY ZenonT(40), <1>2, IdleFresh, IssueFresh DEF Environment
<1>3. ASSUME NEW c \in Cache, RequestArrives(c) \/ MandatoryPort(c) PROVE Fresh'
  <2>1. ASSUME NEW v \in Value, s_store_hit(c, v) PROVE Fresh'
    <3>1. Dir \in Machine
      BY Zenon, MachineFacts
    <3> QED BY ZenonT(40), <2>1, <3>1, StoreFresh
  <2> QED BY ZenonT(40), <1>3, <2>1, IdleFresh, IssueFresh DEF MandatoryPort
<1>4. ASSUME NEW c \in Cache, ForwardPort(c) PROVE Fresh'
  BY Zenon, <1>4, ForwardFresh
<1>5. ASSUME NEW c \in Cache, NEW s \in Machine, ResponsePort(c, s) PROVE Fresh'
  BY ZenonT(40), <1>5, TakeFresh, StoreFresh DEF ResponsePort
<1>6. CASE DirRequestPort
  BY ZenonT(40), <1>6, <1>c, DirReadsFresh, DirForwardsFresh, DirWritebackFresh, DirPutsFresh DEF DirRequestPort
<1>7. ASSUME NEW c \in Cache, DirMS_OD_Data(c) PROVE Fresh'
  BY Zenon, <1>7, DirOwnerDataFresh
<1>8. CASE DirMemPort
  BY Zenon, <1>8, DirMemoryFresh
<1> QED BY ZenonT(40), <1>1, <1>2, <1>3, <1>4, <1>5, <1>6, <1>7, <1>8 DEF Next

\* Every copy that can still be read, in a cache, in a message, in a TBE or at
\* the directory, holds the last completed write.
THEOREM FreshInvariant == ASSUME DataAssumption PROVE Spec => []Fresh
<1>1. Init => Fresh
  BY Zenon, FreshInit
<1>2. TypeOK /\ TypeOK' /\ DirAssertions /\ Coherent /\ Coherent' /\ Fresh /\ [Next]_vars => Fresh'
  BY Zenon, FreshStep
<1> QED BY <1>1, <1>2, TypeCorrect, DirectorySafe, CoherenceInvariant, PTL DEF Spec

\* A cache from which the sequencer may serve a load, and the directory when
\* no cache owns the line, hold what the last store callback left, when the
\* directory answers from its own copy and no store conditional fails.
THEOREM DataCorrect == ASSUME DataAssumption PROVE Spec => []DataValue
<1>1. Fresh => DataValue
  <2> SUFFICES ASSUME Fresh PROVE DataValue
    BY Zenon
  <2>1. \A c \in Cache : Readable(c) => DataBlk[c] = physMem
    BY Zenon DEF Fresh, FreshCopies, Readable
  <2>2. dirState \in {"I", "IS_MD", "IM_MD", "S", "MS_MA"} => dirData = physMem
    BY Zenon DEF Fresh, FreshMemory
  <2> QED BY Zenon, <2>1, <2>2 DEF DataValue
<1> QED BY <1>1, FreshInvariant, PTL

-----------------------------------------------------------------------------
(***************************************************************************)
(* Locks.                                                                  *)
(***************************************************************************)
\* A line that the sequencer finds locked when a store conditional arrives has
\* not been written by anyone since the load linked, although setLocked and
\* clearLocked only touch the cache's own entry.
THEOREM LocksHonest == Spec => []LockHonest
<1> DEFINE L == \A c \in Cache : LockKept(c)
<1>1. Init => L
  BY Zenon DEF Init, LockKept
<1>2. TypeOK /\ SWMR' /\ L /\ [Next]_vars => L'
  BY Zenon, LockStep
<1>3. L => LockHonest
  BY Zenon DEF LockKept, LockHonest
<1> HIDE DEF L
<1> QED BY <1>1, <1>2, <1>3, TypeCorrect, SingleWriter, PTL DEF Spec

-----------------------------------------------------------------------------
(***************************************************************************)
(* One access at a time.                                                   *)
(***************************************************************************)
\* A callback is the abstract operation of its request, every other step
\* leaves the memory, the requests and the results as they are.
LEMMA RefinementStep ==
  ASSUME TypeOK, SequencerAsserts, Coherent, "SC" \notin ReqType, AccessPhysMem \/ Fresh, [Next]_vars
  PROVE  [Serial!Next]_(Serial!serialVars)
<1>s. UNCHANGED <<physMem, requestTable, result, reserved>> => UNCHANGED Serial!serialVars
  BY Zenon DEF Serial!serialVars
<1>1. CASE UNCHANGED vars
  BY ZenonT(40), <1>1, <1>s DEF vars, cpuVars
<1>2. ASSUME NEW c \in Cache, NEW type \in ReqType, makeRequest(c, type) PROVE Serial!Next
  BY Zenon, <1>2 DEF makeRequest, Serial!Next, Serial!Issue, NoRequest
<1>3. ASSUME NEW c \in Cache, Replacement(c) \/ Commit(c) \/ RequestArrives(c) \/ as_issueGetS(c) \/ am_issueGetM(c) \/ ForwardPort(c)
      PROVE  UNCHANGED Serial!serialVars
  BY ZenonT(40), <1>3, <1>s DEF Replacement, Commit, RequestArrives, as_issueGetS, am_issueGetM, ForwardPort, AckInv, InvalidateS, FwdGetS, FwdGetM, WBAck, cpuVars
<1>4. ASSUME NEW c \in Cache, r_load_hit(c) PROVE Serial!Next
  <2>1. DataBlk[c] = physMem \/ AccessPhysMem
    <3>1. cacheState[c] \in {"S", "SM_AD", "SM_A", "M"}
      BY Zenon, <1>4 DEF r_load_hit
    <3>2. cacheState[c] \in {"S", "SM_AD", "IM_A", "SM_A", "M"}
      BY Zenon, <3>1
    <3> QED BY Zenon, <3>2 DEF Fresh, FreshCopies
  <2>2. requestTable[c] = "LD"
    BY ZenonT(40), <1>4, RequestServedKind DEF r_load_hit
  <2>3. Answers(DataBlk[c])
    BY Zenon, <2>1 DEF Answers
  <2>4. Serial!Load(c)
    BY ZenonT(40), <1>4, <2>2, <2>3, LoadRefines DEF r_load_hit
  <2> QED BY Zenon, <2>4 DEF Serial!Next
<1>5. ASSUME NEW c \in Cache, NEW s \in Machine, rx_load_hit(c, s) PROVE Serial!Next
  <2> DEFINE m == Head(responseNet[s][c])
  <2>1. /\ ResponseEvent(c, m) \in {"Data_from_Dir_No_Acks", "Data_from_Owner"} /\ responseNet[s][c] # <<>>
        /\ PopResponse(s, c) /\ cacheState[c] = "IS_D" /\ readCallback(c, m.DataBlk) /\ physMem' = physMem
    BY ZenonT(40), <1>5 DEF rx_load_hit, ResponseReady, readCallback
  <2>2. m.Type # "ACK"
    BY Zenon, <2>1, ResponseKind DEF Coherent
  <2>3. Fresh => m.DataBlk = physMem
    BY ZenonT(40), <2>1, <2>2, FreshPopped, MachineFacts DEF Fresh
  <2>4. Answers(m.DataBlk)
    BY Zenon, <2>3 DEF Answers
  <2>5. requestTable[c] = "LD"
    BY ZenonT(40), <2>1, RequestServedKind
  <2>6. Serial!Load(c)
    BY ZenonT(40), <2>1, <2>4, <2>5, LoadRefines
  <2> QED BY Zenon, <2>6 DEF Serial!Next
<1>6. ASSUME NEW c \in Cache, NEW s \in Machine, NEW v \in Value,
             s_store_hit(c, v) \/ sx_store_hit_data(c, s, v) \/ sx_store_hit_acks(c, s, v)
      PROVE  Serial!Next
  <2>1. \E blk : Answers(blk) /\ writeCallback(c, blk, v)
    <3>1. CASE Fresh
      <4>1. writeCallback(c, physMem, v)
        BY ZenonT(40), <1>6, <3>1, StoreReadsLast
      <4> QED BY Zenon, <4>1 DEF Answers
    <3>2. CASE AccessPhysMem
      BY ZenonT(40), <1>6, <3>2 DEF Answers, s_store_hit, sx_store_hit_data, sx_store_hit_acks
    <3> QED BY ZenonT(40), <3>1, <3>2
  <2>2. requestTable[c] \in {"ST", "LL"}
    <3>1. MandatoryReady(c, "Store") \/ cacheState[c] \in {"IM_AD", "IM_A", "SM_AD", "SM_A"}
      BY Zenon, <1>6 DEF s_store_hit, sx_store_hit_data, sx_store_hit_acks
    <3> QED BY ZenonT(40), <3>1, RequestServedKind
  <2>3. Serial!Load(c) \/ Serial!Store(c, v)
    BY ZenonT(40), <2>1, <2>2, WriteRefines
  <2> QED BY Zenon, <2>3 DEF Serial!Next
<1>7. ASSUME NEW c \in Cache, NEW s \in Machine, u_writeDataToCache(c, s) \/ InvAck(c, s) PROVE UNCHANGED Serial!serialVars
  BY ZenonT(40), <1>7, <1>s DEF u_writeDataToCache, InvAck, cpuVars
<1>8. CASE DirRequestPort \/ (\E d \in Cache : DirMS_OD_Data(d)) \/ DirMemPort
  <2>1. UNCHANGED <<physMem, requestTable, result, reserved>>
    BY Zenon, <1>8 DEF DirRequestPort, DirMemPort, DirI_GETS, DirI_GETM, DirS_GETS, DirS_GETM, DirM_GETS, DirM_GETM, DirM_PUTM_Owner,
         DirS_PUTS_Last, DirPut, DirStalePut, DirMS_OD_Data, DirMemory_Data, DirMS_MA_Memory_Ack, DirMI_MA_Memory_Ack, cpuVars
  <2> QED BY ZenonT(40), <2>1, <1>s
<1>9. Dir \in Machine
  BY Zenon, MachineFacts
<1> QED BY ZenonT(40), <1>1, <1>2, <1>3, <1>4, <1>5, <1>6, <1>7, <1>8, <1>9 DEF Next, Environment, MandatoryPort, ResponsePort

\* The caches, the directory and the network together serve loads, stores and
\* load linked one at a time, each from the memory that the previous one left:
\* the protocol implements SerialMemory, for any number of caches and values.
THEOREM ServesOneAtATime ==
  ASSUME "SC" \notin ReqType, AccessPhysMem \/ ~UseMap
  PROVE  Spec => SerialSpec
<1>1. Init => Serial!Init
  BY Zenon DEF Init, Serial!Init, NoRequest
<1>2. CASE AccessPhysMem
  <2>1. TypeOK /\ SequencerAsserts /\ Coherent /\ [Next]_vars => [Serial!Next]_(Serial!serialVars)
    BY Zenon, <1>2, RefinementStep
  <2> QED BY <1>1, <2>1, TypeCorrect, SequencerSafe, CoherenceInvariant, PTL DEF Spec, SerialSpec, Serial!Spec
<1>3. CASE ~UseMap
  <2>1. TypeOK /\ SequencerAsserts /\ Coherent /\ Fresh /\ [Next]_vars => [Serial!Next]_(Serial!serialVars)
    BY Zenon, RefinementStep
  <2>2. DataAssumption
    BY Zenon, <1>3 DEF DataAssumption
  <2>3. Spec => []Fresh
    BY Zenon, <2>2, FreshInvariant
  <2> QED BY <1>1, <2>1, <2>3, TypeCorrect, SequencerSafe, CoherenceInvariant, PTL DEF Spec, SerialSpec, Serial!Spec
<1> QED BY Zenon, <1>2, <1>3

-----------------------------------------------------------------------------
(***************************************************************************)
(* Conservation of messages.                                               *)
(***************************************************************************)
\* A request is at one place of one queue.
LEMMA RequestOnce ==
  ASSUME TypeOK, RequestQueues, NEW c \in Cache
  PROVE  /\ RequestAt(c) # {} <=> Asking(c)
         /\ \A k, l \in RequestAt(c) : k = l
<1>t. requestNet[c] \in Seq(RequestMsg) /\ requestToDir \in Seq(RequestMsg)
  BY Zenon DEF TypeOK
<1>1. requestNet[c] # <<>> <=> \E i \in DOMAIN requestNet[c] : TRUE
  BY Zenon, <1>t, ContentsEmpty DEF Contents
<1>2. RequestAt(c) # {} <=> (\E i \in DOMAIN requestNet[c] : TRUE) \/ \E i \in DOMAIN requestToDir : requestToDir[i].Requestor = c
  BY Zenon DEF RequestAt
<1>3. Asking(c) <=> (\E i \in DOMAIN requestNet[c] : TRUE) \/ \E i \in DOMAIN requestToDir : requestToDir[i].Requestor = c
  BY Zenon DEF Asking, Requests, Contents
<1>4. \A i, j \in DOMAIN requestNet[c] : i = j
  <2>1. SUFFICES ASSUME NEW i \in DOMAIN requestNet[c], NEW j \in DOMAIN requestNet[c] PROVE i = j
    BY Zenon
  <2>2. Len(requestNet[c]) = 1
    BY Zenon, <1>1, <2>1 DEF RequestQueues
  <2> QED BY SMTT(40), <1>t, <2>1, <2>2
<1>5. \A i, j \in DOMAIN requestToDir : requestToDir[i].Requestor = c /\ requestToDir[j].Requestor = c => i = j
  <2> SUFFICES ASSUME NEW i \in DOMAIN requestToDir, NEW j \in DOMAIN requestToDir,
                      requestToDir[i].Requestor = c, requestToDir[j].Requestor = c, i # j
               PROVE  FALSE
    BY Zenon
  <2>1. requestToDir[i].Requestor # requestToDir[j].Requestor
    BY Zenon DEF RequestQueues
  <2> QED BY Zenon, <2>1
<1>6. \A i \in DOMAIN requestNet[c] : \A j \in DOMAIN requestToDir : requestToDir[j].Requestor # c
  BY Zenon, <1>1 DEF RequestQueues
<1>7. \A k, l \in RequestAt(c) : k = l
  BY Zenon, <1>4, <1>5, <1>6 DEF RequestAt
<1> QED BY Zenon, <1>2, <1>3, <1>7

\* So is what the memory works on,
LEMMA MemoryOnce ==
  ASSUME TypeOK, Memory, NEW c \in Cache
  PROVE  /\ MemoryAt(c) # {} <=> InMemory(c)
         /\ \A k, l \in MemoryAt(c) : k = l
<1>1. memBuffer = <<>> \/ (memBuffer # <<>> /\ DOMAIN memBuffer = {1} /\ Head(memBuffer) = memBuffer[1])
  <2>1. memBuffer \in Seq(MemoryMsg)
    BY Zenon DEF TypeOK
  <2>2. memBuffer # <<>> => Len(memBuffer) = 1 /\ Head(memBuffer) = memBuffer[1]
    BY Zenon, <2>1, TailOfOne DEF Memory
  <2>3. Len(memBuffer) = 1 => DOMAIN memBuffer = {1}
    BY <2>1
  <2> QED BY Zenon, <2>2, <2>3
<1>2. DOMAIN <<>> = {}
  OBVIOUS
<1>3. CASE memBuffer = <<>>
  BY Zenon, <1>2, <1>3 DEF MemoryAt, InMemory
<1>4. CASE memBuffer # <<>>
  BY Zenon, <1>1, <1>4 DEF MemoryAt, InMemory
<1> QED BY Zenon, <1>3, <1>4

\* a forward on behalf of c,
LEMMA ForwardOnce ==
  ASSUME TypeOK, ForwardQueues, NEW c \in Cache, \A d, e \in Cache : Forward(d, c) /\ Forward(e, c) => d = e,
         \A d \in Cache : ~(Fwd(d, "GETS", c) /\ Fwd(d, "GETM", c))
  PROVE  /\ ForwardAt(c) # {} <=> Forwarded(c)
         /\ \A k, l \in ForwardAt(c) : k = l
<1> DEFINE F(d, i) == i \in DOMAIN forwardToCache[d] /\ forwardToCache[d][i].Requestor = c /\ forwardToCache[d][i].Type \in {"GETS", "GETM"}
<1>t. \A d \in Cache : forwardToCache[d] \in Seq(ForwardMsg)
  BY Zenon DEF TypeOK
<1>m. \A d \in Cache : \A i \in DOMAIN forwardToCache[d] : forwardToCache[d][i] \in ForwardMsg
  BY <1>t
<1>r. \A m \in ForwardMsg : m = [Type |-> m.Type, Requestor |-> m.Requestor]
  BY DEF ForwardMsg
<1>1. ASSUME NEW d \in Cache, NEW i, F(d, i)
      PROVE  \/ Fwd(d, "GETS", c) /\ forwardToCache[d][i] = [Type |-> "GETS", Requestor |-> c]
             \/ Fwd(d, "GETM", c) /\ forwardToCache[d][i] = [Type |-> "GETM", Requestor |-> c]
  <2>2. PICK t \in {"GETS", "GETM"} : forwardToCache[d][i].Type = t
    BY Zenon, <1>1
  <2>3. forwardToCache[d][i] = [Type |-> t, Requestor |-> c]
    BY Zenon, <1>m, <1>r, <1>1, <2>2
  <2>4. Fwd(d, t, c)
    BY Zenon, <1>1, <2>3 DEF Fwd, Forwards, Contents
  <2> QED BY Zenon, <2>2, <2>3, <2>4
<1>2. \A d \in Cache : Forward(d, c) => \E i : F(d, i)
  <2>1. [Type |-> "GETS", Requestor |-> c].Requestor = c /\ [Type |-> "GETM", Requestor |-> c].Requestor = c
    BY Zenon
  <2>2. [Type |-> "GETS", Requestor |-> c].Type = "GETS" /\ [Type |-> "GETM", Requestor |-> c].Type = "GETM"
    BY Zenon
  <2>3. SUFFICES ASSUME NEW d \in Cache, NEW t \in {"GETS", "GETM"}, Fwd(d, t, c) PROVE \E i : F(d, i)
    BY Zenon DEF Forward
  <2>4. PICK i \in DOMAIN forwardToCache[d] : forwardToCache[d][i] = [Type |-> t, Requestor |-> c]
    BY Zenon, <2>3 DEF Fwd, Forwards, Contents
  <2> QED BY SMTT(40), <2>4
<1>3. \A k : k \in ForwardAt(c) <=> \E d \in Cache : \E i : F(d, i) /\ k = <<"forwardToCache", d, i>>
  <2>1. ASSUME NEW k \in ForwardAt(c) PROVE \E d \in Cache : \E i : F(d, i) /\ k = <<"forwardToCache", d, i>>
    BY Zenon, <2>1 DEF ForwardAt
  <2>2. ASSUME NEW d \in Cache, NEW i, F(d, i) PROVE <<"forwardToCache", d, i>> \in ForwardAt(c)
    <3>1. <<"forwardToCache", d, i>> \in {<<"forwardToCache", d, x>> : x \in {j \in DOMAIN forwardToCache[d] :
            /\ forwardToCache[d][j].Requestor = c
            /\ forwardToCache[d][j].Type \in {"GETS", "GETM"}}}
      BY Zenon, <2>2
    <3> QED BY Zenon, <3>1 DEF ForwardAt
  <2> HIDE DEF F
  <2> QED BY Zenon, <2>1, <2>2
<1>4. ForwardAt(c) # {} <=> Forwarded(c)
  <2>1. (\E d \in Cache : \E i : F(d, i)) <=> \E d \in Cache : Forward(d, c)
    BY ZenonT(40), <1>1, <1>2 DEF Forward
  <2> HIDE DEF F
  <2> QED BY Zenon, <2>1, <1>3 DEF Forwarded
<1>5. ASSUME NEW d \in Cache, NEW i, NEW e \in Cache, NEW j, F(d, i), F(e, j) PROVE d = e /\ i = j
  <2>1. d = e
    BY Zenon, <1>1, <1>5 DEF Forward
  <2>2. forwardToCache[d][i] = forwardToCache[d][j]
    BY ZenonT(40), <1>1, <1>5, <2>1
  <2>3. InOrder(forwardToCache[d])
    BY Zenon DEF ForwardQueues
  <2>4. i \in Nat /\ j \in Nat /\ i \in DOMAIN forwardToCache[d] /\ j \in DOMAIN forwardToCache[d]
    BY SMTT(40), <1>t, <1>5, <2>1
  <2>5. ~(i < j) /\ ~(j < i)
    BY Zenon, <2>2, <2>3, <2>4 DEF InOrder
  <2>6. i = j
    BY SMTT(40), <2>4, <2>5
  <2> QED BY Zenon, <2>1, <2>6
<1> HIDE DEF F
<1>6. ASSUME NEW k \in ForwardAt(c), NEW l \in ForwardAt(c) PROVE k = l
  <2>1. PICK d \in Cache : \E i : F(d, i) /\ k = <<"forwardToCache", d, i>>
    BY Zenon, <1>3
  <2>2. PICK e \in Cache : \E j : F(e, j) /\ l = <<"forwardToCache", e, j>>
    BY ZenonT(40), <1>3
  <2> QED BY ZenonT(40), <2>1, <2>2, <1>5
<1> QED BY ZenonT(40), <1>4, <1>6

\* a write-back acknowledgement,
LEMMA WbAckOnce ==
  ASSUME TypeOK, ForwardQueues, NEW c \in Cache
  PROVE  /\ WbAckAt(c) # {} <=> WbAcked(c)
         /\ \A k, l \in WbAckAt(c) : k = l
<1>t. forwardToCache[c] \in Seq(ForwardMsg)
  BY Zenon DEF TypeOK
<1>1. WbAckAt(c) # {} <=> WbAcked(c)
  BY Zenon DEF WbAckAt, WbAcked, Forwards, Contents
<1>2. ASSUME NEW i \in DOMAIN forwardToCache[c], NEW j \in DOMAIN forwardToCache[c],
             forwardToCache[c][i].Type = "WB_ACK", forwardToCache[c][j].Type = "WB_ACK"
      PROVE  i = j
  <2>1. InOrder(forwardToCache[c])
    BY Zenon DEF ForwardQueues
  <2>2. ~(i < j) /\ ~(j < i)
    BY Zenon, <1>2, <2>1 DEF InOrder
  <2>3. i \in Nat /\ j \in Nat
    BY SMTT(40), <1>t, <1>2
  <2> QED BY SMTT(40), <2>2, <2>3
<1>3. \A k, l \in WbAckAt(c) : k = l
  BY Zenon, <1>2 DEF WbAckAt
<1> QED BY ZenonT(40), <1>1, <1>3

\* A channel with a response has one.
LEMMA OneResponse ==
  ASSUME TypeOK, ResponseQueues, NEW s \in Machine, NEW d \in Machine
  PROVE  \/ responseNet[s][d] = <<>> /\ DOMAIN responseNet[s][d] = {}
         \/ responseNet[s][d] # <<>> /\ DOMAIN responseNet[s][d] = {1} /\ responseNet[s][d][1] = Head(responseNet[s][d])
<1>t. responseNet[s][d] \in Seq(ResponseMsg)
  <2>1. responseNet \in [Machine -> [Machine -> Seq(ResponseMsg)]]
    BY Zenon DEF TypeOK
  <2> QED BY Zenon, <2>1
<1>1. responseNet[s][d] # <<>> => Len(responseNet[s][d]) = 1
  BY Zenon DEF ResponseQueues
<1>2. Len(responseNet[s][d]) = 1 => DOMAIN responseNet[s][d] = {1} /\ responseNet[s][d][1] = Head(responseNet[s][d])
  BY SMTT(40), <1>t
<1>3. DOMAIN <<>> = {}
  OBVIOUS
<1> QED BY Zenon, <1>1, <1>2, <1>3

\* and the data that answers c.
LEMMA DataOnce ==
  ASSUME TypeOK, ResponseQueues, NEW c \in Cache, \A s, u \in Machine : Data(s, c) /\ Data(u, c) => s = u
  PROVE  /\ DataAt(c) # {} <=> Answered(c)
         /\ \A k, l \in DataAt(c) : k = l
<1>1. \A s \in Machine : \A i : i \in DOMAIN responseNet[s][c] /\ responseNet[s][c][i].Type # "ACK" <=> i = 1 /\ Data(s, c)
  <2>1. SUFFICES ASSUME NEW s \in Machine
                 PROVE  \A i : i \in DOMAIN responseNet[s][c] /\ responseNet[s][c][i].Type # "ACK" <=> i = 1 /\ Data(s, c)
    BY Zenon
  <2>2. \/ responseNet[s][c] = <<>> /\ DOMAIN responseNet[s][c] = {}
        \/ responseNet[s][c] # <<>> /\ DOMAIN responseNet[s][c] = {1} /\ responseNet[s][c][1] = Head(responseNet[s][c])
    BY Zenon, OneResponse, MachineFacts
  <2> QED BY Zenon, <2>2 DEF Data
<1>2. \A k : k \in DataAt(c) <=> \E s \in Machine : Data(s, c) /\ k = <<"responseNet", s, 1>>
  <2>1. ASSUME NEW k \in DataAt(c) PROVE \E s \in Machine : Data(s, c) /\ k = <<"responseNet", s, 1>>
    <3>1. PICK s \in Machine : \E i \in DOMAIN responseNet[s][c] : responseNet[s][c][i].Type # "ACK" /\ k = <<"responseNet", s, i>>
      BY Zenon, <2>1 DEF DataAt
    <3> QED BY Zenon, <3>1, <1>1
  <2>2. ASSUME NEW s \in Machine, Data(s, c) PROVE <<"responseNet", s, 1>> \in DataAt(c)
    <3>1. <<"responseNet", s, 1>> \in {<<"responseNet", s, i>> : i \in {j \in DOMAIN responseNet[s][c] : responseNet[s][c][j].Type # "ACK"}}
      BY ZenonT(40), <2>2, <1>1
    <3> QED BY Zenon, <3>1 DEF DataAt
  <2> QED BY Zenon, <2>1, <2>2
<1>3. DataAt(c) # {} <=> Answered(c)
  BY Zenon, <1>2 DEF Answered
<1>4. ASSUME NEW k \in DataAt(c), NEW l \in DataAt(c) PROVE k = l
  <2>1. PICK s \in Machine : Data(s, c) /\ k = <<"responseNet", s, 1>>
    BY Zenon, <1>2
  <2>2. PICK u \in Machine : Data(u, c) /\ l = <<"responseNet", u, 1>>
    BY ZenonT(40), <1>2
  <2> QED BY ZenonT(40), <2>1, <2>2
<1> QED BY Zenon, <1>3, <1>4

\* Each of the five places holds at most one carrier, and only one of them any.
LEMMA CoherentCarriers == ASSUME TypeOK, Coherent PROVE OneCarrier
<1>1. SUFFICES ASSUME NEW c \in Cache
               PROVE  IF cacheState[c] \in {"IS_D", "IM_AD", "SM_AD", "MI_A", "SI_A", "II_A"}
                      THEN \E k \in Carriers(c) : Carriers(c) = {k} ELSE Carriers(c) = {}
  BY Zenon DEF OneCarrier
<1>2. CarriedOnce(c)
  BY Zenon DEF Coherent, Carried
<1>3. (RequestAt(c) # {} <=> Asking(c)) /\ \A k, l \in RequestAt(c) : k = l
  BY Zenon, RequestOnce DEF Coherent
<1>4. (MemoryAt(c) # {} <=> InMemory(c)) /\ \A k, l \in MemoryAt(c) : k = l
  BY Zenon, MemoryOnce DEF Coherent
<1>5. (ForwardAt(c) # {} <=> Forwarded(c)) /\ \A k, l \in ForwardAt(c) : k = l
  <2>1. \A d \in Cache : ~(Fwd(d, "GETS", c) /\ Fwd(d, "GETM", c))
    <3>1. SUFFICES ASSUME NEW d \in Cache, Fwd(d, "GETS", c), Fwd(d, "GETM", c) PROVE FALSE
      BY Zenon
    <3>2. cacheState[c] = "IS_D" /\ cacheState[c] \in Gets
      BY Zenon, <3>1 DEF Coherent, AnswerAgrees
    <3> QED BY Zenon, <3>2 DEF Gets
  <2>2. \A d, e \in Cache : Forward(d, c) /\ Forward(e, c) => d = e
    BY Zenon, <1>2 DEF CarriedOnce
  <2> QED BY Zenon, <2>1, <2>2, ForwardOnce DEF Coherent
<1>6. (WbAckAt(c) # {} <=> WbAcked(c)) /\ \A k, l \in WbAckAt(c) : k = l
  BY Zenon, WbAckOnce DEF Coherent
<1>7. (DataAt(c) # {} <=> Answered(c)) /\ \A k, l \in DataAt(c) : k = l
  <2>1. \A s, u \in Machine : Data(s, c) /\ Data(u, c) => s = u
    BY Zenon, <1>2 DEF CarriedOnce
  <2> QED BY Zenon, <2>1, DataOnce DEF Coherent
<1>8. \A k, l \in Carriers(c) : k = l
  BY Zenon, <1>2, <1>3, <1>4, <1>5, <1>6, <1>7 DEF Carriers, CarriedOnce
<1>9. Carriers(c) # {} <=> cacheState[c] \in Outstanding
  BY Zenon, <1>2, <1>3, <1>4, <1>5, <1>6, <1>7 DEF Carriers, CarriedOnce
<1>10. cacheState[c] \in Outstanding <=> cacheState[c] \in {"IS_D", "IM_AD", "SM_AD", "MI_A", "SI_A", "II_A"}
  BY Zenon DEF Outstanding, Gets, Puts
<1> QED BY Zenon, <1>8, <1>9, <1>10

\* Who owes an acknowledgement has it once, in its queue or on the way back.
LEMMA CoherentAcks == ASSUME TypeOK, Coherent PROVE AckConservation
<1>1. ASSUME NEW c \in Cache, NEW d \in Cache
      PROVE  /\ AckAt(d, c) # {} <=> Owes(d, c)
             /\ \A k, l \in AckAt(d, c) : k = l
  <2> DEFINE m == [Type |-> "INV", Requestor |-> c]
  <2>1. \A i, j \in DOMAIN forwardToCache[d] : forwardToCache[d][i] = m /\ forwardToCache[d][j] = m => i = j
    <3>1. SUFFICES ASSUME NEW i \in DOMAIN forwardToCache[d], NEW j \in DOMAIN forwardToCache[d], forwardToCache[d][i] = forwardToCache[d][j] PROVE i = j
      BY Zenon
    <3>2. InOrder(forwardToCache[d])
      BY Zenon DEF Coherent, ForwardQueues
    <3>3. ~(i < j) /\ ~(j < i)
      BY ZenonT(40), <3>1, <3>2 DEF InOrder
    <3>4. i \in Nat /\ j \in Nat
      <4>1. forwardToCache[d] \in Seq(ForwardMsg)
        BY Zenon DEF TypeOK
      <4> QED BY SMTT(40), <3>1, <4>1
    <3> QED BY SMTT(40), <3>3, <3>4
  <2>2. \A i : i \in DOMAIN responseNet[d][c] /\ responseNet[d][c][i].Type = "ACK" <=> i = 1 /\ Ack(d, c)
    <3>1. \/ responseNet[d][c] = <<>> /\ DOMAIN responseNet[d][c] = {}
          \/ responseNet[d][c] # <<>> /\ DOMAIN responseNet[d][c] = {1} /\ responseNet[d][c][1] = Head(responseNet[d][c])
      BY ZenonT(40), OneResponse, MachineFacts DEF Coherent
    <3> QED BY Zenon, <3>1 DEF Ack
  <2>3. (\E i \in DOMAIN forwardToCache[d] : forwardToCache[d][i] = m) <=> Fwd(d, "INV", c)
    BY Zenon DEF Fwd, Forwards, Contents
  <2>4. ~(Fwd(d, "INV", c) /\ Ack(d, c))
    BY Zenon DEF Coherent, AckTargets
  <2>5. \A k : k \in AckAt(d, c) <=> \/ \E i \in DOMAIN forwardToCache[d] : forwardToCache[d][i] = m /\ k = <<"INV", i>>
                                     \/ Ack(d, c) /\ k = <<"ACK", 1>>
    BY Zenon, <2>2 DEF AckAt
  <2> HIDE DEF m
  <2>6. ASSUME NEW k \in AckAt(d, c), NEW l \in AckAt(d, c) PROVE k = l
    <3>1. CASE Ack(d, c)
      <4>1. k = <<"ACK", 1>> /\ l = <<"ACK", 1>>
        BY ZenonT(40), <3>1, <2>3, <2>4, <2>5
      <4> QED BY Zenon, <4>1
    <3>2. CASE ~Ack(d, c)
      <4>1. PICK i \in DOMAIN forwardToCache[d] : forwardToCache[d][i] = m /\ k = <<"INV", i>>
        BY ZenonT(40), <3>2, <2>5
      <4>2. PICK j \in DOMAIN forwardToCache[d] : forwardToCache[d][j] = m /\ l = <<"INV", j>>
        BY ZenonT(40), <3>2, <2>5
      <4> QED BY ZenonT(40), <4>1, <4>2, <2>1
    <3> QED BY Zenon, <3>1, <3>2
  <2>7. AckAt(d, c) # {} <=> Owes(d, c)
    BY Zenon, <2>3, <2>5 DEF Owes
  <2> QED BY ZenonT(40), <2>6, <2>7
<1>2. \A c \in Cache : {d \in Cache : AckAt(d, c) # {}} = Owing(c)
  BY Zenon, <1>1 DEF Owing
<1>3. \A c \in Cache : pendingAcks[c] - Count(c) = Cardinality(Owing(c))
  BY Zenon DEF Coherent, AckCounts
<1> QED BY ZenonT(40), <1>1, <1>2, <1>3 DEF AckConservation, Count

\* A transaction that a cache has started is carried by exactly one message of
\* one queue until the cache is answered: no request, forward or reply of the
\* two controllers is lost or doubled.
THEOREM OneCarrierAlways == Spec => []OneCarrier
<1>1. TypeOK /\ Coherent => OneCarrier
  BY Zenon, CoherentCarriers
<1> QED BY <1>1, TypeCorrect, CoherenceInvariant, PTL

\* The acknowledgements a cache waits for are exactly the invalidations and
\* acknowledgements on the way for it, with the count the directory sent.
THEOREM AcksConserved == Spec => []AckConservation
<1>1. TypeOK /\ Coherent => AckConservation
  BY Zenon, CoherentAcks
<1> QED BY <1>1, TypeCorrect, CoherenceInvariant, PTL
=============================================================================
