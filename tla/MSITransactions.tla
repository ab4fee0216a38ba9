-------------------------- MODULE MSITransactions --------------------------
(***************************************************************************)
(* Conservation laws of the MSI protocol: a transient state is matched by  *)
(* exactly one message that will end it, and the acknowledgements a writer *)
(* waits for by the invalidations on their way.  A message is named by its *)
(* queue and its position, so that two equal messages are two.             *)
(***************************************************************************)
EXTENDS MSI

\* The messages that carry cache c's transaction: its request,
RequestAt(c) ==
  {<<"requestNet", c, i>> : i \in DOMAIN requestNet[c]}
  \cup {<<"requestToDir", c, i>> :
          i \in {j \in DOMAIN requestToDir : requestToDir[j].Requestor = c}}

\* the memory access done for it (a MEMORY_WB in MS_MA writes back for a GETS
\* that the owner has answered already),
MemoryAt(c) ==
  {<<"memBuffer", c, i>> : i \in {j \in DOMAIN memBuffer :
     memBuffer[j].OriginalRequestor = c /\ dirState # "MS_MA"}}

\* the forward to the owner,
ForwardAt(c) ==
  UNION {{<<"forwardToCache", d, i>> : i \in {j \in DOMAIN forwardToCache[d] :
            /\ forwardToCache[d][j].Requestor = c
            /\ forwardToCache[d][j].Type \in {"GETS", "GETM"}}} : d \in Cache}

\* and the answer, to a put or to a get.
WbAckAt(c) ==
  {<<"WB_ACK", c, i>> : i \in {j \in DOMAIN forwardToCache[c] :
                                 forwardToCache[c][j].Type = "WB_ACK"}}

DataAt(c) ==
  UNION {{<<"responseNet", s, i>> : i \in {j \in DOMAIN responseNet[s][c] :
            responseNet[s][c][j].Type # "ACK"}} : s \in Machine}

Carriers(c) == RequestAt(c) \cup MemoryAt(c) \cup ForwardAt(c) \cup WbAckAt(c) \cup DataAt(c)

\* A cache waits for the directory's or an owner's answer exactly while one
\* message carries its transaction: none is lost, none is answered twice.
OneCarrier ==
  \A c \in Cache :
    IF cacheState[c] \in {"IS_D", "IM_AD", "SM_AD", "MI_A", "SI_A", "II_A"}
    THEN \E k \in Carriers(c) : Carriers(c) = {k}
    ELSE Carriers(c) = {}

\* The invalidations of cache d for c, and its acknowledgements on the way.
AckAt(d, c) ==
  {<<"INV", i>> : i \in {j \in DOMAIN forwardToCache[d] :
     forwardToCache[d][j] = [Type |-> "INV", Requestor |-> c]}}
  \cup {<<"ACK", i>> : i \in {j \in DOMAIN responseNet[d][c] :
          responseNet[d][c][j].Type = "ACK"}}

\* The TBE's count, negative while acknowledgements overtake the data, plus the
\* count in the directory's data message equals the acknowledgements to come,
\* and no cache acknowledges twice.
AckConservation ==
  \A c \in Cache :
    /\ pendingAcks[c]
         - (IF responseNet[Dir][c] = <<>> THEN 0 ELSE Head(responseNet[Dir][c]).AckCount)
       = Cardinality({d \in Cache : AckAt(d, c) # {}})
    /\ \A d \in Cache : \A k, l \in AckAt(d, c) : k = l

=============================================================================
