---------------------------- MODULE MSICoherence ----------------------------
(***************************************************************************)
(* Why the MSI protocol of module MSI is coherent: the inductive invariant *)
(* behind SWMR, NoInvalidTransition, DataValue and the refinement of a     *)
(* serial memory.                                                          *)
(*                                                                         *)
(* The argument.  The right to write the line is a token.  A cache holds   *)
(* it from the moment its data is on the way until it gives the line up,   *)
(* the directory holds it otherwise, and nobody else does.  Whoever may    *)
(* still read the line holds the token, is a sharer of a directory that    *)
(* holds it, or has an invalidation on the way; an invalidation or its     *)
(* acknowledgement on the way means that the cache it is for has the token *)
(* and is still counting, so it is not in M.                               *)
(***************************************************************************)
EXTENDS MSI

-----------------------------------------------------------------------------
(***************************************************************************)
(* What is on the way, as the proofs look at it.                           *)
(***************************************************************************)
Contents(q) == {q[i] : i \in DOMAIN q}

\* The requests of c that the directory has not handled yet.
Requests(c) ==
  Contents(requestNet[c]) \cup {m \in Contents(requestToDir) : m.Requestor = c}

Asks(c, type) == \E m \in Requests(c) : m.Type = type
Asking(c) == Requests(c) # {}

\* The forwards c has not handled yet.
Forwards(c) == Contents(forwardToCache[c])

Fwd(d, type, r) == [Type |-> type, Requestor |-> r] \in Forwards(d)

\* d has been told to send its data to r.
Forward(d, r) == Fwd(d, "GETS", r) \/ Fwd(d, "GETM", r)
HasForward(d) == \E r \in Cache : Forward(d, r)
Forwarded(r) == \E d \in Cache : Forward(d, r)

Invalidated(d) == \E r \in Cache : Fwd(d, "INV", r)

WbAcked(c) == \E m \in Forwards(c) : m.Type = "WB_ACK"

\* The memory works on the request of c.
InMemory(c) ==
  memBuffer # <<>> /\ Head(memBuffer).OriginalRequestor = c /\ dirState # "MS_MA"

Data(s, c) == responseNet[s][c] # <<>> /\ Head(responseNet[s][c]).Type # "ACK"
Answered(c) == \E s \in Machine : Data(s, c)
DataToDir == \E s \in Cache : responseNet[s][Dir] # <<>>

Ack(d, c) == responseNet[d][c] # <<>> /\ Head(responseNet[d][c]).Type = "ACK"

\* The count that the directory's data carries: minus the number of sharers.
Count(c) ==
  IF responseNet[Dir][c] = <<>> THEN 0 ELSE Head(responseNet[Dir][c]).AckCount

-----------------------------------------------------------------------------
(***************************************************************************)
(* The queues.                                                             *)
(***************************************************************************)
\* A cache has at most one request on its way.
RequestQueues ==
  /\ \A c \in Cache : requestNet[c] # <<>> =>
       /\ Len(requestNet[c]) = 1
       /\ requestNet[c][1].Requestor = c
       /\ \A i \in DOMAIN requestToDir : requestToDir[i].Requestor # c
  /\ \A i, j \in DOMAIN requestToDir :
       i # j => requestToDir[i].Requestor # requestToDir[j].Requestor

\* A WB_ACK is the last of its queue, an INV the first, and no forward occurs
\* twice.
InOrder(q) ==
  \A i, j \in DOMAIN q : i < j =>
    q[i].Type # "WB_ACK" /\ q[j].Type # "INV" /\ q[i] # q[j]

ForwardQueues ==
  \A c \in Cache :
    /\ InOrder(forwardToCache[c])
    /\ \A m \in Forwards(c) : m.Type # "WB_ACK" => m.Requestor \in Cache

\* What s may send to d.
GoodResponse(s, d, m) ==
  \/ s \in Cache /\ d = Dir /\ m.Type = "DATA"
  \/ s = Dir /\ d \in Cache /\ m.Type = "DATA_FROM_DIR"
  \/ s \in Cache /\ d \in Cache /\ m.Type = "DATA_FROM_OWNER"
  \/ s \in Cache /\ d \in Cache /\ m.Type = "ACK" /\ m.AckCount = 1

\* A channel holds one response.
ResponseQueues ==
  \A s, d \in Machine : responseNet[s][d] # <<>> =>
    Len(responseNet[s][d]) = 1 /\ GoodResponse(s, d, Head(responseNet[s][d]))

\* The memory has work in the states that wait for it, of the kind they wait for.
Memory ==
  /\ Len(memBuffer) <= 1
  /\ memBuffer # <<>> <=> dirState \in {"IS_MD", "IM_MD", "MS_MA", "MI_MA"}
  /\ memBuffer # <<>> =>
       (Head(memBuffer).Type = "MEMORY_READ" <=> dirState \in {"IS_MD", "IM_MD"})

-----------------------------------------------------------------------------
(***************************************************************************)
(* Transactions.                                                           *)
(***************************************************************************)
Puts == {"MI_A", "SI_A", "II_A"}
Gets == {"IM_AD", "SM_AD"}
Counting == {"IM_A", "SM_A"}
Outstanding == Gets \cup Puts \cup {"IS_D"}

\* A transaction in progress is in one place: on its way to the directory, at
\* the memory, forwarded to an owner, or answered.
CarriedOnce(c) ==
  /\ cacheState[c] \in Outstanding <=>
       Asking(c) \/ InMemory(c) \/ Forwarded(c) \/ WbAcked(c) \/ Answered(c)
  /\ Asking(c)    => ~InMemory(c) /\ ~Forwarded(c) /\ ~WbAcked(c) /\ ~Answered(c)
  /\ InMemory(c)  => ~Forwarded(c) /\ ~WbAcked(c) /\ ~Answered(c)
  /\ Forwarded(c) => ~WbAcked(c) /\ ~Answered(c)
  /\ WbAcked(c)   => ~Answered(c)
  /\ \A d, e \in Cache : Forward(d, c) /\ Forward(e, c) => d = e
  /\ \A s, t \in Machine : Data(s, c) /\ Data(t, c) => s = t

Carried == \A c \in Cache : CarriedOnce(c)

\* What carries a transaction fits the state of the cache.
AskAgrees ==
  \A c \in Cache :
    /\ Asks(c, "GETS") => cacheState[c] = "IS_D"
    /\ Asks(c, "GETM") => cacheState[c] \in Gets
    /\ Asks(c, "PUTS") => cacheState[c] \in {"SI_A", "II_A"}
    /\ Asks(c, "PUTM") => cacheState[c] \in Puts

AnswerAgrees ==
  \A c \in Cache :
    /\ WbAcked(c) => cacheState[c] \in Puts
    /\ Answered(c) => cacheState[c] \in Gets \cup {"IS_D"}
    /\ \A d \in Cache :
         /\ Fwd(d, "GETS", c) => cacheState[c] = "IS_D"
         /\ Fwd(d, "GETM", c) => cacheState[c] \in Gets

MemoryAgrees ==
  \A c \in Cache : InMemory(c) =>
    \/ dirState = "IS_MD" /\ cacheState[c] = "IS_D" /\ c \in Sharers
    \/ dirState = "IM_MD" /\ cacheState[c] = "IM_AD" /\ c \in Owner
    \/ dirState = "MI_MA" /\ cacheState[c] = "MI_A" /\ c \in Owner

-----------------------------------------------------------------------------
(***************************************************************************)
(* The token.                                                              *)
(***************************************************************************)
Token(c) ==
  \/ cacheState[c] \in Counting \cup {"M"}
  \/ cacheState[c] \in Gets /\ Answered(c)
  \/ cacheState[c] = "MI_A" /\ (Asking(c) \/ HasForward(c))

DirToken == dirState # "M" /\ (dirState = "MS_OD" => DataToDir)

OneToken ==
  \A c \in Cache : Token(c) => ~DirToken /\ \A d \in Cache : Token(d) => c = d

\* d still has to acknowledge to c, or its acknowledgement is on the way.
Owes(d, c) == Fwd(d, "INV", c) \/ Ack(d, c)
Owing(c) == {d \in Cache : Owes(d, c)}

Gathering(c) ==
  cacheState[c] \in Counting \/ (cacheState[c] \in Gets /\ Data(Dir, c))

\* Acknowledgements go to a cache that has, or is about to get, the data, one
\* for each it counts.
AckTargets ==
  \A c, d \in Cache :
    /\ Owes(d, c) => Gathering(c) /\ c # d
    /\ ~(Fwd(d, "INV", c) /\ Ack(d, c))

AckCounts ==
  \A c \in Cache :
    /\ pendingAcks[c] - Count(c) = Cardinality(Owing(c))
    /\ IF cacheState[c] \in Counting THEN pendingAcks[c] > 0 ELSE pendingAcks[c] <= 0
    /\ ~Gathering(c) => pendingAcks[c] = 0 /\ Count(c) = 0

\* c can serve a load, or will with the data on the way.
Reader(c) ==
  cacheState[c] \in {"S", "SM_AD"} \/ (cacheState[c] = "IS_D" /\ Answered(c))

Readers ==
  \A c \in Cache : Reader(c) =>
    Token(c) \/ Invalidated(c) \/ (c \in Sharers /\ DirToken)

-----------------------------------------------------------------------------
(***************************************************************************)
(* What the directory knows.                                               *)
(***************************************************************************)
\* An invalidation finds a cache that shares the line or has just given it up.
InvTargets ==
  \A c \in Cache : Invalidated(c) =>
    /\ cacheState[c] \in {"IS_D", "S", "SM_AD", "SI_A"}
    /\ cacheState[c] = "IS_D" => ~Asking(c)

\* c owns the line or its GETM has been handled.
Possessor(c) ==
  \/ cacheState[c] \in Counting \cup {"M", "MI_A"}
  \/ cacheState[c] \in Gets /\ ~Asking(c)

FwdTargets ==
  \A c \in Cache :
    /\ HasForward(c) \/ c \in Owner => Possessor(c)
    /\ c \in Owner => ~HasForward(c) /\ (dirState = "M" => ~WbAcked(c))
    /\ \A r, u \in Cache : Forward(c, r) /\ Forward(c, u) => r = u

\* The data an owner sends to the directory, before and after it is sent.
OwnerAnswers ==
  /\ DataToDir => dirState = "MS_OD"
  /\ \A s, u \in Cache :
       responseNet[s][Dir] # <<>> /\ responseNet[u][Dir] # <<>> => s = u
  /\ \A c, e \in Cache : Fwd(c, "GETS", e) =>
       /\ dirState = "MS_OD" /\ ~DataToDir
       /\ e \in Sharers
       /\ c \in Sharers \/ WbAcked(c)
       /\ \A d, u \in Cache : Fwd(d, "GETS", u) => c = d

\* A cache in Sharers has the line, gives it up, waits for it, or is the owner
\* that has to answer first.
KnownSharer(c) ==
  \/ cacheState[c] = "IS_D" /\ ~Asking(c) /\ ~Invalidated(c)
  \/ /\ DirToken /\ ~Invalidated(c)
     /\ \/ cacheState[c] = "S"
        \/ cacheState[c] \in {"SM_AD", "SI_A"} /\ Asking(c)
  \/ /\ ~DirToken
     /\ \E e \in Cache : Fwd(c, "GETS", e)
     /\ cacheState[c] = "MI_A" => Asking(c)

KnownSharers == \A c \in Sharers : KnownSharer(c)

\* The token argument as a whole.  Whatever MSI-cache.sm and MSI-dir.sm have
\* exchanged so far, the right to write is in one place, its holder or an
\* invalidation on the way accounts for every reader, each transaction is
\* carried once, and every count matches what is to come.
Coherent ==
  /\ RequestQueues /\ ForwardQueues /\ ResponseQueues /\ Memory
  /\ Carried /\ AskAgrees /\ AnswerAgrees /\ MemoryAgrees
  /\ OneToken /\ AckTargets /\ AckCounts /\ Readers
  /\ InvTargets /\ FwdTargets /\ OwnerAnswers /\ KnownSharers

-----------------------------------------------------------------------------
(***************************************************************************)
(* The data.                                                               *)
(***************************************************************************)
\* Whatever may still be read holds what the last completed write left: the
\* copy of a cache that has the line,
FreshCopies ==
  \A c \in Cache :
    cacheState[c] \in {"S", "SM_AD", "IM_A", "SM_A", "M"} => DataBlk[c] = physMem

\* data on the way from the directory or an owner,
FreshResponses ==
  \A s, d \in Machine : \A m \in Contents(responseNet[s][d]) :
    m.Type # "ACK" => m.DataBlk = physMem

\* a writeback, and the TBE behind it, that still has to answer,
FreshPuts ==
  \A c \in Cache : cacheState[c] = "MI_A" /\ (Asking(c) \/ HasForward(c)) =>
    tbeData[c] = physMem /\ \A m \in Requests(c) : m.DataBlk = physMem

\* and the directory's copy while no cache owns the line.
FreshMemory ==
  /\ dirState \notin {"M", "MS_OD"} => dirData = physMem
  /\ \A m \in Contents(memBuffer) : m.DataBlk = physMem

\* No store callback leaves a stale copy behind that a later load, forward or
\* memory reply could still use.
Fresh == FreshCopies /\ FreshResponses /\ FreshPuts /\ FreshMemory
=============================================================================
