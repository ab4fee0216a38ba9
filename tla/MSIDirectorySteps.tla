------------------------- MODULE MSIDirectorySteps --------------------------
(***************************************************************************)
(* The steps of the directory keep the invariant Coherent of MSICoherence, *)
(* for any number of caches: one lemma per group of transitions of         *)
(* MSI-dir.sm.                                                             *)
(***************************************************************************)
EXTENDS MSICacheSteps

(***************************************************************************)
(* Requests that find the line at the directory or take it back.           *)
(***************************************************************************)
\* The directory has taken the request of r.
RequestTaken(r) ==
  /\ RequestQueues'
  /\ \A d \in Cache : (Asking(d)' <=> Asking(d) /\ d # r) /\ \A t : Asks(d, t)' <=> Asks(d, t) /\ d # r
  /\ AskAgrees'
  /\ \A d \in Cache : Possessor(d) => Possessor(d)'

\* The request is all there is of its transaction.
LEMMA Handled ==
  ASSUME TypeOK, Coherent, requestToDir # <<>>, i_popIncomingRequestQueue,
         UNCHANGED <<requestNet, cacheState>>
  PROVE  \E r \in Cache :
           /\ r = req.Requestor /\ RequestTaken(r)
           /\ Asking(r) /\ ~InMemory(r) /\ ~Forwarded(r) /\ ~WbAcked(r) /\ ~Answered(r)
           /\ req.Type = "GETS" => cacheState[r] = "IS_D" /\ ~Invalidated(r)
           /\ req.Type = "GETM" => cacheState[r] \in Gets
           /\ req.Type = "PUTS" => cacheState[r] \in {"SI_A", "II_A"}
           /\ req.Type = "PUTM" => cacheState[r] \in Puts
<1> USE DEF Coherent
<1>1. /\ RequestQueues' /\ req.Requestor \in Cache
      /\ \A d \in Cache :
              /\ Asking(d)' <=> Asking(d) /\ d # req.Requestor
              /\ \A t : Asks(d, t)' <=> Asks(d, t) /\ d # req.Requestor
      /\ Asking(req.Requestor) /\ \A t : Asks(req.Requestor, t) <=> t = req.Type
  BY Zenon, RequestHandled
<1>2. PICK r \in Cache : r = req.Requestor
  BY Zenon, <1>1
<1>3. /\ Asking(r) /\ (\A t : Asks(r, t) <=> t = req.Type)
      /\ \A d \in Cache : (Asking(d)' <=> Asking(d) /\ d # r) /\ \A t : Asks(d, t)' <=> Asks(d, t) /\ d # r
  BY Zenon, <1>1, <1>2
<1>4. AskAgrees'
  BY Zenon, <1>3 DEF AskAgrees
<1>5. \A d \in Cache : Possessor(d) => Possessor(d)'
  BY Zenon, <1>3 DEF Possessor
<1>6. ~InMemory(r) /\ ~Forwarded(r) /\ ~WbAcked(r) /\ ~Answered(r)
  BY Zenon, <1>3 DEF Carried, CarriedOnce
<1>7. /\ req.Type = "GETS" => cacheState[r] = "IS_D"
      /\ req.Type = "GETM" => cacheState[r] \in Gets
      /\ req.Type = "PUTS" => cacheState[r] \in {"SI_A", "II_A"}
      /\ req.Type = "PUTM" => cacheState[r] \in Puts
  BY Zenon, <1>3 DEF AskAgrees
<1>8. cacheState[r] = "IS_D" => ~Invalidated(r)
  BY Zenon, <1>3 DEF InvTargets
<1> QED BY Zenon, <1>1, <1>2, <1>3, <1>4, <1>5, <1>6, <1>7, <1>8 DEF RequestTaken

\* While the directory has the token, nobody owes an acknowledgement.
LEMMA DirTokenQuiet ==
  ASSUME OneToken, AckTargets, DirToken
  PROVE  \A x \in Cache : ~Token(x) /\ ~Gathering(x) /\ ~Invalidated(x) /\ \A d \in Cache : ~Owes(d, x)
<1>1. \A x \in Cache : ~Token(x)
  BY Zenon DEF OneToken
<1>2. \A x \in Cache : ~Gathering(x)
  BY Zenon, <1>1, MachineFacts DEF Gathering, Token, Answered
<1>3. \A x, d \in Cache : ~Owes(d, x)
  BY Zenon, <1>2 DEF AckTargets
<1> QED BY Zenon, <1>1, <1>2, <1>3 DEF Owes, Invalidated

\* A write-back acknowledgement for r.
LEMMA WbAckSent ==
  ASSUME TypeOK, ForwardQueues, NEW r \in Cache, NEW m \in Machine, ~WbAcked(r), SendForward({r}, "WB_ACK", m)
  PROVE  /\ ForwardQueues'
         /\ \A d, x \in Cache :
              /\ Fwd(d, "GETS", x)' <=> Fwd(d, "GETS", x)
              /\ Fwd(d, "GETM", x)' <=> Fwd(d, "GETM", x)
              /\ Fwd(d, "INV", x)' <=> Fwd(d, "INV", x)
         /\ \A d \in Cache : (WbAcked(d)' <=> WbAcked(d) \/ d = r) /\ (Invalidated(d)' <=> Invalidated(d))
<1> DEFINE dests == {r}
<1> DEFINE type == "WB_ACK"
<1>1. /\ SendForward(dests, type, m) /\ dests \in SUBSET Cache
      /\ \A d : d \in dests <=> d = r
  BY Zenon
<1>2. /\ type \in {"GETS", "GETM", "INV", "WB_ACK"} /\ type = "WB_ACK"
      /\ type # "GETS" /\ type # "GETM" /\ type # "INV"
  BY Zenon
<1>3. m \in Machine /\ (type # "WB_ACK" => m \in Cache)
  BY Zenon
<1>4. MaySend(dests, type, m)
  <2>1. [Type |-> type, Requestor |-> m].Type = "WB_ACK"
    BY Zenon
  <2>2. ~Fwd(r, type, m)
    BY Zenon, <2>1 DEF Fwd, WbAcked
  <2> QED BY Zenon, <2>2 DEF MaySend
<1> HIDE DEF dests, type
<1>5. ForwardAdded(dests, type, m)
  BY Zenon, <1>1, <1>2, <1>3, <1>4, ForwardSent
<1> QED BY Zenon, <1>1, <1>2, <1>5 DEF ForwardAdded

\* A GETS of r forwarded to the owner o.
LEMMA GetSForwarded ==
  ASSUME TypeOK, ForwardQueues, NEW r \in Cache, NEW o \in Cache, ~WbAcked(o), ~Fwd(o, "GETS", r), SendForward({o}, "GETS", r)
  PROVE  /\ ForwardQueues'
         /\ \A d, x \in Cache :
              /\ Fwd(d, "GETS", x)' <=> Fwd(d, "GETS", x) \/ (d = o /\ r = x)
              /\ Fwd(d, "GETM", x)' <=> Fwd(d, "GETM", x)
              /\ Fwd(d, "INV", x)' <=> Fwd(d, "INV", x)
         /\ \A d \in Cache : (WbAcked(d)' <=> WbAcked(d)) /\ (Invalidated(d)' <=> Invalidated(d))
<1> DEFINE dests == {o}
<1> DEFINE type == "GETS"
<1>1. /\ SendForward(dests, type, r) /\ dests \in SUBSET Cache
      /\ \A d : d \in dests <=> d = o
  BY Zenon
<1>2. /\ type \in {"GETS", "GETM", "INV", "WB_ACK"} /\ type = "GETS"
      /\ type # "GETM" /\ type # "INV" /\ type # "WB_ACK"
  BY Zenon
<1>3. r \in Machine /\ (type # "WB_ACK" => r \in Cache)
  BY Zenon, MachineFacts
<1>4. MaySend(dests, type, r)
  BY Zenon DEF MaySend
<1> HIDE DEF dests, type
<1>5. ForwardAdded(dests, type, r)
  BY Zenon, <1>1, <1>2, <1>3, <1>4, ForwardSent
<1> QED BY Zenon, <1>1, <1>2, <1>5 DEF ForwardAdded

\* A GETM of r forwarded to the owner o.
LEMMA GetMForwarded ==
  ASSUME TypeOK, ForwardQueues, NEW r \in Cache, NEW o \in Cache, ~WbAcked(o), ~Fwd(o, "GETM", r), SendForward({o}, "GETM", r)
  PROVE  /\ ForwardQueues'
         /\ \A d, x \in Cache :
              /\ Fwd(d, "GETS", x)' <=> Fwd(d, "GETS", x)
              /\ Fwd(d, "GETM", x)' <=> Fwd(d, "GETM", x) \/ (d = o /\ r = x)
              /\ Fwd(d, "INV", x)' <=> Fwd(d, "INV", x)
         /\ \A d \in Cache : (WbAcked(d)' <=> WbAcked(d)) /\ (Invalidated(d)' <=> Invalidated(d))
<1> DEFINE dests == {o}
<1> DEFINE type == "GETM"
<1>1. /\ SendForward(dests, type, r) /\ dests \in SUBSET Cache
      /\ \A d : d \in dests <=> d = o
  BY Zenon
<1>2. /\ type \in {"GETS", "GETM", "INV", "WB_ACK"} /\ type = "GETM"
      /\ type # "GETS" /\ type # "INV" /\ type # "WB_ACK"
  BY Zenon
<1>3. r \in Machine /\ (type # "WB_ACK" => r \in Cache)
  BY Zenon, MachineFacts
<1>4. MaySend(dests, type, r)
  BY Zenon DEF MaySend
<1> HIDE DEF dests, type
<1>5. ForwardAdded(dests, type, r)
  BY Zenon, <1>1, <1>2, <1>3, <1>4, ForwardSent
<1> QED BY Zenon, <1>1, <1>2, <1>5 DEF ForwardAdded

\* The sharers in D are told to acknowledge to r.
LEMMA InvalidationsSent ==
  ASSUME TypeOK, ForwardQueues, NEW r \in Cache, NEW D \in SUBSET Cache, \A d \in D : Forwards(d) = {}, SendForward(D, "INV", r)
  PROVE  /\ ForwardQueues'
         /\ \A d, x \in Cache :
              /\ Fwd(d, "GETS", x)' <=> Fwd(d, "GETS", x)
              /\ Fwd(d, "GETM", x)' <=> Fwd(d, "GETM", x)
              /\ Fwd(d, "INV", x)' <=> Fwd(d, "INV", x) \/ (d \in D /\ r = x)
         /\ \A d \in Cache : (WbAcked(d)' <=> WbAcked(d)) /\ (Invalidated(d)' <=> Invalidated(d) \/ d \in D)
<1> DEFINE dests == D
<1> DEFINE type == "INV"
<1>1. /\ SendForward(dests, type, r) /\ dests \in SUBSET Cache
      /\ \A d : d \in dests <=> d \in D
  BY Zenon
<1>2. /\ type \in {"GETS", "GETM", "INV", "WB_ACK"} /\ type = "INV"
      /\ type # "GETS" /\ type # "GETM" /\ type # "WB_ACK"
  BY Zenon
<1>3. r \in Machine /\ (type # "WB_ACK" => r \in Cache)
  BY Zenon, MachineFacts
<1>4. MaySend(dests, type, r)
  BY Zenon DEF MaySend, WbAcked, Fwd
<1> HIDE DEF dests, type
<1>5. ForwardAdded(dests, type, r)
  BY Zenon, <1>1, <1>2, <1>3, <1>4, ForwardSent
<1> QED BY Zenon, <1>1, <1>2, <1>5 DEF ForwardAdded

\* The directory in I reads the line for r.
LEMMA DirIOK ==
  ASSUME TypeOK, Coherent, DirAssertions, DirI_GETS \/ DirI_GETM
  PROVE  Coherent'
<1>t. Sharers \subseteq Cache /\ Owner \subseteq Cache
  BY Zenon DEF TypeOK
<1>u. /\ UNCHANGED <<cacheState, pendingAcks, requestNet, forwardToCache, responseNet>>
      /\ requestToDir # <<>> /\ i_popIncomingRequestQueue
      /\ dirState = "I"
      /\ \/ RequestEvent(req) = "GETS" /\ dirState' = "IS_MD" /\ Sharers' = Sharers \cup {req.Requestor} /\ Owner' = Owner
         \/ RequestEvent(req) = "GETM" /\ dirState' = "IM_MD" /\ Sharers' = Sharers /\ Owner' = {req.Requestor}
      /\ \E data : QueueMemory("MEMORY_READ", req.Requestor, data)
  BY Zenon DEF DirI_GETS, DirI_GETM, cacheVars, RequestReady, req, ars2_addRequestorToSharers
<1>k. /\ RequestEvent(req) = "GETS" => req.Type = "GETS"
      /\ RequestEvent(req) = "GETM" => req.Type = "GETM"
  BY Zenon, <1>u, RequestKind
<1>r. PICK r \in Cache :
        /\ r = req.Requestor /\ RequestTaken(r)
        /\ Asking(r) /\ ~InMemory(r) /\ ~Forwarded(r) /\ ~WbAcked(r) /\ ~Answered(r)
        /\ req.Type = "GETS" => cacheState[r] = "IS_D" /\ ~Invalidated(r)
        /\ req.Type = "GETM" => cacheState[r] \in Gets
  BY Zenon, <1>u, Handled
<1> USE DEF Coherent, RequestTaken
<1>q. dirState = "I" /\ Sharers = {} /\ DirToken /\ DirToken' /\ memBuffer = <<>>
  BY Zenon, <1>u DEF DirAssertions, DirToken, Memory
<1>c. \/ /\ dirState' = "IS_MD" /\ cacheState[r] = "IS_D" /\ ~Invalidated(r)
         /\ Sharers' = Sharers \cup {r} /\ Owner' = Owner
      \/ /\ dirState' = "IM_MD" /\ cacheState[r] = "IM_AD" /\ Sharers' = Sharers /\ Owner' = {r}
  <2>1. cacheState[r] # "SM_AD"
    <3>1. ~Token(r) /\ ~Invalidated(r)
      BY Zenon, <1>q, DirTokenQuiet
    <3> QED BY Zenon, <3>1, <1>q DEF Readers, Reader
  <2> QED BY Zenon, <2>1, <1>u, <1>k, <1>r DEF Gets
<1>n. Memory' /\ (\A d \in Cache : ~InMemory(d)) /\ \A d \in Cache : InMemory(d)' <=> d = r
  <2>1. PICK data : QueueMemory("MEMORY_READ", r, data)
    BY Zenon, <1>u, <1>r
  <2>2. dirState' \in {"IS_MD", "IM_MD"} /\ dirState' # "MS_MA"
    BY Zenon, <1>u
  <2> QED BY Zenon, <2>1, <2>2, <1>q, MemoryAsked
<1>f. ForwardsSame
  BY Zenon, <1>u, ForwardsKept
<1>d. ResponsesSame
  BY Zenon, <1>u, ResponsesKept
<1> USE DEF ForwardsSame, ResponsesSame
<1>4. \A x \in Cache : ~Token(x) /\ ~Token(x)'
  <2>1. \A x \in Cache : ~Token(x)
    BY Zenon, <1>q, DirTokenQuiet
  <2> QED BY Zenon, <2>1, <1>u, <1>r, <1>f, <1>d DEF Token
<1>5. \A x \in Cache : Gathering(x)' <=> Gathering(x)
  BY Zenon, <1>u, <1>d, MachineFacts DEF Gathering
<1>6. \A x, d \in Cache : Owes(d, x)' <=> Owes(d, x)
  BY Zenon, <1>f, <1>d DEF Owes
<1>7. Carried'
  <2>1. ASSUME NEW x \in Cache PROVE CarriedOnce(x)'
    <3>1. CarriedOnce(x)
      BY Zenon DEF Carried
    <3> QED BY Zenon, <3>1, <1>u, <1>r, <1>d, <1>f, <1>n DEF CarriedOnce
  <2> QED BY Zenon, <2>1 DEF Carried
<1>9. AnswerAgrees'
  BY Zenon, <1>u, <1>f, <1>d DEF AnswerAgrees
<1>10. MemoryAgrees'
  <2>1. r \in Sharers \cup {r} /\ r \in {r}
    BY Zenon
  <2> QED BY Zenon, <2>1, <1>u, <1>c, <1>n DEF MemoryAgrees
<1>11. OneToken'
  BY Zenon, <1>4 DEF OneToken
<1>12. AckTargets'
  BY Zenon, <1>5, <1>6, <1>f, <1>d DEF AckTargets
<1>13. AckCounts'
  <2>1. \A x \in Cache : Owing(x)' = Owing(x)
    BY Zenon, <1>6 DEF Owing
  <2> QED BY Zenon, <2>1, <1>5, <1>u, <1>d DEF AckCounts
<1>14. Readers'
  <2>1. \A x \in Cache : Reader(x)' => Reader(x)
    BY Zenon, <1>u, <1>d DEF Reader
  <2>2. \A x \in Cache : ~Reader(x)
    <3>1. \A x \in Cache : ~Token(x) /\ ~Invalidated(x)
      BY Zenon, <1>q, DirTokenQuiet
    <3> QED BY Zenon, <3>1, <1>q DEF Readers
  <2> QED BY Zenon, <2>1, <2>2 DEF Readers
<1>15. InvTargets'
  BY Zenon, <1>u, <1>f, <1>r DEF InvTargets
<1>16. FwdTargets'
  <2>1. Owner' = {r} => ~HasForward(r)
    <3>1. Owner' = {r} => cacheState[r] = "IM_AD" \/ Owner = {r}
      BY Zenon, <1>c
    <3>2. cacheState[r] = "IM_AD" => ~Possessor(r)
      BY Zenon, <1>r DEF Possessor, Gets, Counting
    <3> QED BY Zenon, <3>1, <3>2 DEF FwdTargets
  <2>2. Owner' = {r} => Possessor(r)'
    <3>1. dirState' = "IM_MD" => Possessor(r)'
      BY Zenon, <1>c, <1>r, <1>u DEF Possessor, Gets, Counting
    <3>2. dirState' # "IM_MD" => Owner' = Owner
      BY Zenon, <1>c
    <3> QED BY Zenon, <3>1, <3>2, <1>r DEF FwdTargets
  <2>3. dirState' # "M"
    BY Zenon, <1>u
  <2>4. Owner' = Owner \/ Owner' = {r}
    BY Zenon, <1>c
  <2>5. \A x \in Cache : x \in Owner' => ~HasForward(x) /\ Possessor(x)'
    BY Zenon, <2>1, <2>2, <2>4, <1>r DEF FwdTargets
  <2> QED BY Zenon, <2>3, <2>5, <1>f, <1>r DEF FwdTargets
<1>17. OwnerAnswers'
  <2>1. ~DataToDir /\ \A x, y \in Cache : ~Fwd(x, "GETS", y)
    BY Zenon, <1>q DEF OwnerAnswers
  <2> QED BY Zenon, <2>1, <1>f, <1>d DEF OwnerAnswers, DataToDir
<1>18. KnownSharers'
  <2>1. \A x \in Sharers' : x = r /\ cacheState[r] = "IS_D" /\ ~Invalidated(r)
    BY Zenon, <1>c, <1>q
  <2> QED BY Zenon, <2>1, <1>r, <1>f, <1>u DEF KnownSharers, KnownSharer
<1> QED BY ZenonT(40), <1>7, <1>9, <1>10, <1>11, <1>12, <1>13, <1>14, <1>15, <1>16, <1>17, <1>18, <1>r, <1>f, <1>d, <1>n

\* The directory writes the line of its owner back.
LEMMA DirPutmOK ==
  ASSUME TypeOK, Coherent, DirAssertions, DirM_PUTM_Owner
  PROVE  Coherent'
<1>u. /\ UNCHANGED <<cacheState, pendingAcks, requestNet, forwardToCache, responseNet, Sharers, Owner>>
      /\ requestToDir # <<>> /\ i_popIncomingRequestQueue
      /\ dirState = "M" /\ RequestEvent(req) = "PUTM_Owner" /\ dirState' = "MI_MA"
      /\ \E data : QueueMemory("MEMORY_WB", req.Requestor, data)
  BY Zenon DEF DirM_PUTM_Owner, cacheVars, RequestReady, req
<1>k. req.Type = "PUTM" /\ req.Requestor \in Owner
  BY Zenon, <1>u, RequestKind
<1>r. PICK r \in Cache :
        /\ r = req.Requestor /\ RequestTaken(r)
        /\ Asking(r) /\ ~InMemory(r) /\ ~Forwarded(r) /\ ~WbAcked(r) /\ ~Answered(r)
        /\ req.Type = "PUTM" => cacheState[r] \in Puts
  BY Zenon, <1>u, Handled
<1> USE DEF Coherent, RequestTaken
<1>q. dirState = "M" /\ Sharers = {} /\ ~DirToken /\ DirToken' /\ memBuffer = <<>>
  BY Zenon, <1>u DEF DirAssertions, DirToken, Memory
<1>c. cacheState[r] = "MI_A" /\ r \in Owner /\ ~HasForward(r) /\ Token(r)
  <2>1. r \in Owner /\ ~HasForward(r) /\ Possessor(r)
    BY Zenon, <1>k, <1>r DEF FwdTargets
  <2>2. cacheState[r] = "MI_A"
    BY Zenon, <2>1, <1>k, <1>r DEF Possessor, Puts, Gets, Counting
  <2> QED BY Zenon, <2>1, <2>2, <1>r DEF Token
<1>n. Memory' /\ (\A d \in Cache : ~InMemory(d)) /\ \A d \in Cache : InMemory(d)' <=> d = r
  <2>1. PICK data : QueueMemory("MEMORY_WB", r, data)
    BY Zenon, <1>u, <1>r
  <2>2. dirState' \in {"MS_MA", "MI_MA"} /\ dirState' # "MS_MA"
    BY Zenon, <1>u
  <2> QED BY Zenon, <2>1, <2>2, <1>q, MemoryAsked
<1>f. ForwardsSame
  BY Zenon, <1>u, ForwardsKept
<1>d. ResponsesSame
  BY Zenon, <1>u, ResponsesKept
<1> USE DEF ForwardsSame, ResponsesSame
<1>4. \A x \in Cache : ~Token(x)'
  <2>1. \A x \in Cache : Token(x)' => Token(x)
    BY Zenon, <1>u, <1>r, <1>f, <1>d DEF Token
  <2>2. \A x \in Cache : Token(x) => x = r
    BY ZenonT(40), <1>c DEF OneToken
  <2>3. ~Token(r)'
    BY Zenon, <1>c, <1>u, <1>r, <1>f DEF Token, Gets, Counting
  <2> QED BY Zenon, <2>1, <2>2, <2>3
<1>5. \A x \in Cache : Gathering(x)' <=> Gathering(x)
  BY Zenon, <1>u, <1>d, MachineFacts DEF Gathering
<1>6. \A x, d \in Cache : Owes(d, x)' <=> Owes(d, x)
  BY Zenon, <1>f, <1>d DEF Owes
<1>7. Carried'
  <2>1. ASSUME NEW x \in Cache PROVE CarriedOnce(x)'
    <3>1. CarriedOnce(x)
      BY Zenon DEF Carried
    <3> QED BY Zenon, <3>1, <1>u, <1>r, <1>d, <1>f, <1>n DEF CarriedOnce
  <2> QED BY Zenon, <2>1 DEF Carried
<1>9. AnswerAgrees'
  BY Zenon, <1>u, <1>f, <1>d DEF AnswerAgrees
<1>10. MemoryAgrees'
  BY Zenon, <1>u, <1>c, <1>n DEF MemoryAgrees
<1>11. OneToken'
  BY Zenon, <1>4 DEF OneToken
<1>12. AckTargets'
  BY ZenonT(40), <1>5, <1>6, <1>f, <1>d DEF AckTargets
<1>13. AckCounts'
  <2>1. \A x \in Cache : Owing(x)' = Owing(x)
    BY Zenon, <1>6 DEF Owing
  <2> QED BY Zenon, <2>1, <1>5, <1>u, <1>d DEF AckCounts
<1>14. Readers'
  <2>1. \A x \in Cache : Reader(x)' => Reader(x)
    BY Zenon, <1>u, <1>d DEF Reader
  <2>2. ~Reader(r)
    BY Zenon, <1>c DEF Reader
  <2>3. \A x \in Cache : Token(x) => x = r
    BY Zenon, <1>c DEF OneToken
  <2> QED BY Zenon, <2>1, <2>2, <2>3, <1>q, <1>f DEF Readers
<1>15. InvTargets'
  BY Zenon, <1>u, <1>f, <1>r DEF InvTargets
<1>16. FwdTargets'
  <2>1. dirState' # "M"
    BY Zenon, <1>u
  <2> QED BY Zenon, <2>1, <1>f, <1>r, <1>u DEF FwdTargets
<1>17. OwnerAnswers'
  <2>1. ~DataToDir /\ \A x, y \in Cache : ~Fwd(x, "GETS", y)
    BY Zenon, <1>q DEF OwnerAnswers
  <2> QED BY Zenon, <2>1, <1>f, <1>d DEF OwnerAnswers, DataToDir
<1>18. KnownSharers'
  BY Zenon, <1>q, <1>u DEF KnownSharers
<1> QED BY Zenon, <1>7, <1>9, <1>10, <1>11, <1>12, <1>13, <1>14, <1>15, <1>16, <1>17, <1>18, <1>r, <1>f, <1>d, <1>n

\* The directory acknowledges a put of a cache that does not own the line.
LEMMA DirPutsOK ==
  ASSUME TypeOK, Coherent, DirAssertions, DirS_PUTS_Last \/ DirPut \/ DirStalePut
  PROVE  Coherent'
<1>t. Sharers \subseteq Cache /\ Owner \subseteq Cache
  BY Zenon DEF TypeOK
<1>u. /\ UNCHANGED <<cacheState, pendingAcks, requestNet, responseNet, memBuffer, Owner>>
      /\ requestToDir # <<>> /\ i_popIncomingRequestQueue
      /\ a_sendWriteBackAck
      /\ \/ dirState \in {"S", "MS_OD", "MS_MA", "MI_MA"} /\ Sharers' = Sharers \ {req.Requestor}
         \/ dirState \in {"I", "M"} /\ Sharers' = Sharers
      /\ dirState' = dirState \/ (dirState = "S" /\ dirState' = "I")
      /\ RequestEvent(req) \in {"PUTS_Last", "PUTS_NotLast", "PUTM_NotOwner", "PUTM_Owner"}
      /\ RequestEvent(req) = "PUTM_Owner" => dirState \in {"MS_OD", "MS_MA"}
  <2>1. CASE DirS_PUTS_Last
    BY Zenon, <2>1 DEF DirS_PUTS_Last, cacheVars, RequestReady, req
  <2>2. CASE DirPut
    BY Zenon, <2>2 DEF DirPut, S_Put, MS_OD_Put, MS_MA_Put, MI_MA_Put, cacheVars, RequestReady, req
  <2>3. CASE DirStalePut
    BY Zenon, <2>3 DEF DirStalePut, cacheVars, dirVars, RequestReady, req
  <2> QED BY Zenon, <2>1, <2>2, <2>3
<1>k. /\ req.Type \in {"PUTS", "PUTM"}
      /\ RequestEvent(req) = "PUTM_Owner" \/ req.Type = "PUTS" \/ req.Requestor \notin Owner
  BY Zenon, <1>u, RequestKind
<1>r. PICK r \in Cache :
        /\ r = req.Requestor /\ RequestTaken(r)
        /\ Asking(r) /\ ~InMemory(r) /\ ~Forwarded(r) /\ ~WbAcked(r) /\ ~Answered(r)
        /\ req.Type = "PUTS" => cacheState[r] \in {"SI_A", "II_A"}
        /\ req.Type = "PUTM" => cacheState[r] \in Puts
  BY Zenon, <1>u, Handled
<1> USE DEF Coherent, RequestTaken
<1>c. r \notin Owner /\ cacheState[r] \in Puts
  <2>1. cacheState[r] \in {"SI_A", "II_A"} => r \notin Owner
    BY Zenon DEF FwdTargets, Possessor, Gets, Counting
  <2>2. dirState \in {"MS_OD", "MS_MA"} => Owner = {}
    BY Zenon DEF DirAssertions
  <2> QED BY Zenon, <2>1, <2>2, <1>u, <1>k, <1>r DEF Puts
<1>q. Sharers' = Sharers \ {r}
  <2>1. dirState \in {"I", "M"} => Sharers = {}
    BY Zenon DEF DirAssertions
  <2> QED BY Zenon, <2>1, <1>u, <1>r
<1>f. /\ ForwardQueues'
      /\ \A d, x \in Cache :
              /\ Fwd(d, "GETS", x)' <=> Fwd(d, "GETS", x)
              /\ Fwd(d, "GETM", x)' <=> Fwd(d, "GETM", x)
              /\ Fwd(d, "INV", x)' <=> Fwd(d, "INV", x)
      /\ \A d \in Cache : (WbAcked(d)' <=> WbAcked(d) \/ d = r) /\ (Invalidated(d)' <=> Invalidated(d))
  <2>1. SendForward({r}, "WB_ACK", Dir) /\ Dir \in Machine
    BY Zenon, <1>u, <1>r, MachineFacts DEF a_sendWriteBackAck
  <2> QED BY Zenon, <2>1, <1>r, WbAckSent
<1>h. /\ \A d, x \in Cache : Forward(d, x)' <=> Forward(d, x)
      /\ \A d \in Cache : (HasForward(d)' <=> HasForward(d)) /\ (Forwarded(d)' <=> Forwarded(d))
  BY Zenon, <1>f DEF Forward, HasForward, Forwarded
<1>n. MemorySame
  <2>1. CASE dirState' = dirState
    BY Zenon, <2>1, <1>u, MemoryKept
  <2>2. CASE dirState = "S" /\ dirState' = "I"
    BY Zenon, <2>2, <1>u DEF Memory, MemorySame, InMemory
  <2> QED BY Zenon, <2>1, <2>2, <1>u
<1>d. ResponsesSame
  BY Zenon, <1>u, ResponsesKept
<1> USE DEF ResponsesSame, MemorySame
<1>4. \A x \in Cache : Token(x)' => Token(x)
  BY Zenon, <1>u, <1>r, <1>h, <1>d DEF Token
<1>4b. DirToken' <=> DirToken
  BY Zenon, <1>u, <1>d DEF DirToken
<1>4c. \A x \in Cache : x # r => (Token(x)' <=> Token(x))
  BY Zenon, <1>u, <1>r, <1>h, <1>d DEF Token
<1>5. \A x \in Cache : Gathering(x)' <=> Gathering(x)
  BY Zenon, <1>u, <1>d, MachineFacts DEF Gathering
<1>6. \A x, d \in Cache : Owes(d, x)' <=> Owes(d, x)
  BY Zenon, <1>f, <1>d DEF Owes
<1>7. Carried'
  <2>1. ASSUME NEW x \in Cache PROVE CarriedOnce(x)'
    <3>1. CarriedOnce(x)
      BY Zenon DEF Carried
    <3> QED BY Zenon, <3>1, <1>u, <1>r, <1>d, <1>f, <1>h, <1>n DEF CarriedOnce
  <2> QED BY Zenon, <2>1 DEF Carried
<1>9. AnswerAgrees'
  BY Zenon, <1>u, <1>c, <1>f, <1>d DEF AnswerAgrees
<1>10. MemoryAgrees'
  <2>1. \A x \in Cache : InMemory(x)' => dirState' = dirState /\ dirState # "IS_MD" /\ InMemory(x)
    <3>1. \A x \in Cache : InMemory(x) => dirState # "S"
      BY Zenon DEF MemoryAgrees
    <3>2. dirState # "IS_MD"
      BY Zenon, <1>u
    <3> QED BY Zenon, <3>1, <3>2, <1>u, <1>n
  <2> QED BY Zenon, <2>1, <1>u DEF MemoryAgrees
<1>11. OneToken'
  BY Zenon, <1>4, <1>4b DEF OneToken
<1>12. AckTargets'
  BY Zenon, <1>5, <1>6, <1>f, <1>d DEF AckTargets
<1>13. AckCounts'
  <2>1. \A x \in Cache : Owing(x)' = Owing(x)
    BY Zenon, <1>6 DEF Owing
  <2> QED BY Zenon, <2>1, <1>5, <1>u, <1>d DEF AckCounts
<1>14. Readers'
  <2>1. \A x \in Cache : Reader(x)' => Reader(x) /\ x # r
    <3>1. ~Reader(r)
      BY Zenon, <1>c DEF Reader, Puts
    <3> QED BY Zenon, <3>1, <1>u, <1>d DEF Reader
  <2>2. \A x \in Cache : x # r /\ x \in Sharers => x \in Sharers'
    BY Zenon, <1>q
  <2> QED BY Zenon, <2>1, <2>2, <1>4b, <1>4c, <1>f DEF Readers
<1>15. InvTargets'
  BY Zenon, <1>u, <1>f, <1>r DEF InvTargets
<1>16. FwdTargets'
  <2>1. \A x \in Cache : x \in Owner => (dirState' = "M" => ~WbAcked(x)')
    BY Zenon, <1>u, <1>c, <1>f DEF FwdTargets
  <2> QED BY ZenonT(40), <2>1, <1>f, <1>h, <1>r, <1>u DEF FwdTargets
<1>17. OwnerAnswers'
  <2>1. dirState = "MS_OD" => dirState' = "MS_OD"
    BY Zenon, <1>u
  <2>2. \A c, e \in Cache : Fwd(c, "GETS", e) => e # r
    BY Zenon, <1>c DEF AnswerAgrees, Puts
  <2>3. \A x \in Cache : x # r /\ x \in Sharers => x \in Sharers'
    BY Zenon, <1>q
  <2>4. DataToDir' => dirState' = "MS_OD"
    BY Zenon, <2>1, <1>d DEF OwnerAnswers
  <2>5. \A s, u \in Cache : responseNet'[s][Dir] # <<>> /\ responseNet'[u][Dir] # <<>> => s = u
    BY Zenon, <1>d DEF OwnerAnswers
  <2>6. \A c, e \in Cache : Fwd(c, "GETS", e)' =>
          /\ dirState' = "MS_OD" /\ ~DataToDir'
          /\ e \in Sharers'
          /\ c \in Sharers' \/ WbAcked(c)'
    BY Zenon, <2>1, <2>2, <2>3, <1>f, <1>d DEF OwnerAnswers
  <2>7. \A c, e, d, u \in Cache : Fwd(c, "GETS", e)' /\ Fwd(d, "GETS", u)' => c = d
    BY Zenon, <1>f DEF OwnerAnswers
  <2> QED BY Zenon, <2>4, <2>5, <2>6, <2>7 DEF OwnerAnswers
<1>18. KnownSharers'
  <2>1. \A x \in Sharers' : x \in Sharers /\ x # r /\ x \in Cache
    BY Zenon, <1>q, <1>t
  <2> QED BY Zenon, <2>1, <1>4b, <1>r, <1>f, <1>u DEF KnownSharers, KnownSharer
<1> QED BY ZenonT(40), <1>7, <1>9, <1>10, <1>11, <1>12, <1>13, <1>14, <1>15, <1>16, <1>17, <1>18, <1>r, <1>f, <1>d, <1>n

\* The directory in S answers a load.
LEMMA DirSGetSOK ==
  ASSUME TypeOK, Coherent, DirAssertions, DirS_GETS
  PROVE  Coherent'
<1>t. Sharers \subseteq Cache /\ Owner \subseteq Cache
  BY Zenon DEF TypeOK
<1>u. /\ UNCHANGED <<cacheState, pendingAcks, requestNet, forwardToCache, dirState, memBuffer, Owner>>
      /\ requestToDir # <<>> /\ i_popIncomingRequestQueue
      /\ dirState = "S" /\ RequestEvent(req) = "GETS" /\ Sharers' = Sharers \cup {req.Requestor}
      /\ SendResponse(Dir, req.Requestor, Response("DATA_FROM_DIR", dirData, 0))
  BY Zenon DEF DirS_GETS, cacheVars, RequestReady, req, ars2_addRequestorToSharers, ds_sendSharedData
<1>k. req.Type = "GETS"
  BY Zenon, <1>u, RequestKind
<1>r. PICK r \in Cache :
        /\ r = req.Requestor /\ RequestTaken(r)
        /\ Asking(r) /\ ~InMemory(r) /\ ~Forwarded(r) /\ ~WbAcked(r) /\ ~Answered(r)
        /\ req.Type = "GETS" => cacheState[r] = "IS_D" /\ ~Invalidated(r)
  BY Zenon, <1>u, Handled
<1> USE DEF Coherent, RequestTaken
<1>q. DirToken /\ DirToken' /\ Sharers' = Sharers \cup {r} /\ cacheState[r] = "IS_D" /\ ~Invalidated(r)
  BY Zenon, <1>u, <1>k, <1>r DEF DirToken
<1>n. MemorySame
  BY Zenon, <1>u, MemoryKept
<1>f. ForwardsSame
  BY Zenon, <1>u, ForwardsKept
<1>d. /\ ResponseQueues'
      /\ \A x \in Machine, y \in Cache : Data(x, y)' <=> Data(x, y) \/ (x = Dir /\ y = r)
      /\ \A y \in Cache : Answered(y)' <=> Answered(y) \/ y = r
      /\ \A y \in Cache : Count(y)' = Count(y)
      /\ \A x, y \in Cache : Ack(x, y)' <=> Ack(x, y)
      /\ \A x \in Cache : responseNet'[x][Dir] = responseNet[x][Dir]
      /\ DataToDir' <=> DataToDir
      /\ \A x \in Machine : ~Data(x, r)
  <2>1. \A x \in Machine : ~Data(x, r)
    BY Zenon, <1>r DEF Answered
  <2>2. responseNet[Dir][r] = <<>> /\ Count(r) = 0
    BY Zenon, <2>1, DirChannel, MachineFacts
  <2>3. PICK v : SendResponse(Dir, r, Response("DATA_FROM_DIR", v, 0))
    BY Zenon, <1>u, <1>r
  <2>4. /\ ResponseQueues'
        /\ \A x \in Machine, y \in Cache : Data(x, y)' <=> Data(x, y) \/ (x = Dir /\ y = r)
        /\ \A y \in Cache : Answered(y)' <=> Answered(y) \/ y = r
        /\ \A y \in Cache : Count(y)' = IF y = r THEN 0 ELSE Count(y)
        /\ \A x, y \in Cache : Ack(x, y)' <=> Ack(x, y)
        /\ \A x \in Cache : responseNet'[x][Dir] = responseNet[x][Dir]
        /\ DataToDir' <=> DataToDir
    BY Zenon, <2>2, <2>3, DirDataSent
  <2> QED BY Zenon, <2>1, <2>2, <2>4
<1> USE DEF ForwardsSame, MemorySame
<1>4. \A x \in Cache : ~Token(x)'
  <2>1. \A x \in Cache : ~Token(x)
    BY Zenon, <1>q, DirTokenQuiet
  <2>2. cacheState[r] \notin Gets
    BY Zenon, <1>q DEF Gets
  <2> QED BY Zenon, <2>1, <2>2, <1>u, <1>r, <1>f, <1>d DEF Token
<1>5. \A x \in Cache : Gathering(x)' <=> Gathering(x)
  BY Zenon, <1>q, <1>u, <1>d, MachineFacts DEF Gathering, Gets
<1>6. \A x, d \in Cache : Owes(d, x)' <=> Owes(d, x)
  BY Zenon, <1>f, <1>d DEF Owes
<1>7. Carried'
  <2>1. ASSUME NEW x \in Cache, x # r PROVE CarriedOnce(x)'
    <3>1. CarriedOnce(x)
      BY Zenon DEF Carried
    <3> QED BY Zenon, <2>1, <3>1, <1>u, <1>r, <1>d, <1>f, <1>n DEF CarriedOnce
  <2>2. CarriedOnce(r)'
    <3>1. CarriedOnce(r)
      BY Zenon DEF Carried
    <3> QED BY Zenon, <3>1, <1>u, <1>r, <1>d, <1>f, <1>n DEF CarriedOnce
  <2> QED BY Zenon, <2>1, <2>2 DEF Carried
<1>9. AnswerAgrees'
  <2>1. cacheState[r] \in Gets \cup {"IS_D"}
    BY Zenon, <1>q
  <2> QED BY Zenon, <2>1, <1>u, <1>f, <1>d DEF AnswerAgrees
<1>10. MemoryAgrees'
  <2>1. \A x \in Cache : ~InMemory(x)
    BY Zenon, <1>u DEF MemoryAgrees
  <2> QED BY Zenon, <2>1, <1>n DEF MemoryAgrees
<1>11. OneToken'
  BY Zenon, <1>4 DEF OneToken
<1>12. AckTargets'
  BY ZenonT(40), <1>5, <1>6, <1>f, <1>d DEF AckTargets
<1>13. AckCounts'
  <2>1. \A x \in Cache : Owing(x)' = Owing(x)
    BY Zenon, <1>6 DEF Owing
  <2> QED BY Zenon, <2>1, <1>5, <1>u, <1>d DEF AckCounts
<1>14. Readers'
  <2>1. \A x \in Cache : Reader(x)' => Reader(x) \/ x = r
    BY Zenon, <1>u, <1>d DEF Reader
  <2>2. \A x \in Cache : Reader(x) => x \in Sharers
    <3>1. \A x \in Cache : ~Token(x) /\ ~Invalidated(x)
      BY Zenon, <1>q, DirTokenQuiet
    <3> QED BY Zenon, <3>1, <1>q DEF Readers
  <2>3. \A x \in Cache : Reader(x)' => x \in Sharers'
    BY Zenon, <2>1, <2>2, <1>q
  <2> QED BY Zenon, <2>3, <1>q DEF Readers
<1>15. InvTargets'
  BY Zenon, <1>u, <1>f, <1>r DEF InvTargets
<1>16. FwdTargets'
  BY Zenon, <1>f, <1>r, <1>u DEF FwdTargets
<1>17. OwnerAnswers'
  <2>1. ~DataToDir /\ \A x, y \in Cache : ~Fwd(x, "GETS", y)
    BY Zenon, <1>u DEF OwnerAnswers
  <2> QED BY Zenon, <2>1, <1>f, <1>d DEF OwnerAnswers, DataToDir
<1>18. KnownSharers'
  <2>1. \A x \in Sharers' : x \in Cache /\ (x = r \/ x \in Sharers)
    BY Zenon, <1>q, <1>t
  <2>2. KnownSharer(r)'
    BY Zenon, <1>q, <1>r, <1>f, <1>u DEF KnownSharer
  <2> QED BY Zenon, <2>1, <2>2, <1>q, <1>r, <1>f, <1>u DEF KnownSharers, KnownSharer
<1> QED BY ZenonT(40), <1>7, <1>9, <1>10, <1>11, <1>12, <1>13, <1>14, <1>15, <1>16, <1>17, <1>18, <1>r, <1>f, <1>d, <1>n

-----------------------------------------------------------------------------
(***************************************************************************)
(* Data from the owner and from the memory.                                *)
(***************************************************************************)
\* The owner's data reaches the directory.
LEMMA DirOwnerDataOK ==
  ASSUME TypeOK, Coherent, DirAssertions, NEW s \in Cache, DirMS_OD_Data(s)
  PROVE  Coherent'
<1>t. Sharers \subseteq Cache /\ Owner \subseteq Cache
  BY Zenon DEF TypeOK
<1>u. /\ UNCHANGED <<cacheState, pendingAcks, requestNet, requestToDir, forwardToCache, Sharers, Owner>>
      /\ dirState = "MS_OD" /\ dirState' = "MS_MA"
      /\ responseNet[s][Dir] # <<>> /\ PopResponse(s, Dir)
      /\ \E data : QueueMemory("MEMORY_WB", s, data)
  BY Zenon DEF DirMS_OD_Data, cacheVars
<1> USE DEF Coherent
<1>q. DataToDir /\ DirToken /\ DirToken' /\ memBuffer = <<>>
  BY Zenon, <1>u DEF DirToken, Memory, DataToDir
<1>n. Memory' /\ (\A d \in Cache : ~InMemory(d)) /\ \A d \in Cache : ~InMemory(d)'
  <2>1. PICK data : QueueMemory("MEMORY_WB", s, data)
    BY Zenon, <1>u
  <2>2. dirState' \in {"MS_MA", "MI_MA"} /\ dirState' = "MS_MA"
    BY Zenon, <1>u
  <2> QED BY Zenon, <2>1, <2>2, <1>q, MemoryAsked
<1>a. RequestsSame
  BY Zenon, <1>u, RequestsKept
<1>f. ForwardsSame
  BY Zenon, <1>u, ForwardsKept
<1>d. /\ ResponseQueues'
      /\ \A x \in Machine, y \in Cache : Data(x, y)' <=> Data(x, y)
      /\ \A y \in Cache : Count(y)' = Count(y)
      /\ \A x, y \in Cache : Ack(x, y)' <=> Ack(x, y)
      /\ \A x \in Cache : responseNet'[x][Dir] # <<>> => responseNet[x][Dir] # <<>> /\ x # s
  <2>1. s \in Machine /\ Dir \in Machine /\ Dir \notin Cache
    BY Zenon, MachineFacts
  <2>2. /\ ResponseQueues'
        /\ \A x, y \in Machine : responseNet'[x][y] = IF x = s /\ y = Dir THEN <<>> ELSE responseNet[x][y]
        /\ \A x \in Machine, y \in Cache : Data(x, y)' <=> Data(x, y) /\ ~(x = s /\ y = Dir)
        /\ \A y \in Cache : Count(y)' = IF s = Dir /\ y = Dir THEN 0 ELSE Count(y)
        /\ \A x, y \in Cache : Ack(x, y)' <=> Ack(x, y) /\ ~(x = s /\ y = Dir)
    BY <2>1, <1>u, ResponsePopped
  <2>3. \A x \in Cache : x \in Machine
    BY Zenon, MachineFacts
  <2> QED BY Zenon, <2>1, <2>2, <2>3
<1>e. ~DataToDir' /\ \A x, y \in Cache : ~Fwd(x, "GETS", y)
  BY Zenon, <1>u, <1>q, <1>d DEF OwnerAnswers, DataToDir
<1>g. \A y \in Cache : Answered(y)' <=> Answered(y)
  BY Zenon, <1>d DEF Answered
<1> USE DEF RequestsSame, ForwardsSame
<1>4. \A x \in Cache : Token(x)' <=> Token(x)
  BY Zenon, <1>u, <1>a, <1>f, <1>g DEF Token
<1>5. \A x \in Cache : Gathering(x)' <=> Gathering(x)
  BY Zenon, <1>u, <1>d, MachineFacts DEF Gathering
<1>6. \A x, d \in Cache : Owes(d, x)' <=> Owes(d, x)
  BY Zenon, <1>f, <1>d DEF Owes
<1>7. Carried'
  <2>1. ASSUME NEW x \in Cache PROVE CarriedOnce(x)'
    <3>1. CarriedOnce(x)
      BY Zenon DEF Carried
    <3> QED BY Zenon, <3>1, <1>u, <1>a, <1>d, <1>f, <1>g, <1>n DEF CarriedOnce
  <2> QED BY Zenon, <2>1 DEF Carried
<1>8. AskAgrees'
  BY Zenon, <1>u, <1>a DEF AskAgrees
<1>9. AnswerAgrees'
  BY Zenon, <1>u, <1>f, <1>g DEF AnswerAgrees
<1>10. MemoryAgrees'
  BY Zenon, <1>n DEF MemoryAgrees
<1>11. OneToken'
  BY Zenon, <1>4, <1>q DEF OneToken
<1>12. AckTargets'
  BY Zenon, <1>5, <1>6, <1>f, <1>d DEF AckTargets
<1>13. AckCounts'
  <2>1. \A x \in Cache : Owing(x)' = Owing(x)
    BY Zenon, <1>6 DEF Owing
  <2> QED BY Zenon, <2>1, <1>5, <1>u, <1>d DEF AckCounts
<1>14. Readers'
  <2>1. \A x \in Cache : Reader(x)' => Reader(x)
    BY Zenon, <1>u, <1>g DEF Reader
  <2> QED BY Zenon, <2>1, <1>4, <1>q, <1>u, <1>f DEF Readers
<1>15. InvTargets'
  BY Zenon, <1>u, <1>f, <1>a DEF InvTargets
<1>16. FwdTargets'
  <2>1. \A x \in Cache : Possessor(x)' <=> Possessor(x)
    BY Zenon, <1>u, <1>a DEF Possessor
  <2>2. dirState' # "M"
    BY Zenon, <1>u
  <2> QED BY Zenon, <2>1, <2>2, <1>f, <1>u DEF FwdTargets
<1>17. OwnerAnswers'
  BY Zenon, <1>e, <1>f DEF OwnerAnswers, DataToDir
<1>18. KnownSharers'
  BY Zenon, <1>q, <1>t, <1>a, <1>f, <1>u DEF KnownSharers, KnownSharer
<1> QED BY ZenonT(40), <1>7, <1>8, <1>9, <1>10, <1>11, <1>12, <1>13, <1>14, <1>15, <1>16, <1>17, <1>18, <1>a, <1>f, <1>d, <1>n

\* The memory's data goes to the cache it was read for.
LEMMA DirMemoryDataOK ==
  ASSUME TypeOK, Coherent, DirAssertions, DirMemory_Data
  PROVE  Coherent'
<1>t. Sharers \subseteq Cache /\ Owner \subseteq Cache
  BY Zenon DEF TypeOK
<1>u. /\ UNCHANGED <<cacheState, pendingAcks, requestNet, requestToDir, forwardToCache, Sharers, Owner>>
      /\ memBuffer # <<>> /\ qm_popMemQueue
      /\ \/ dirState = "IS_MD" /\ dirState' = "S"
         \/ dirState = "IM_MD" /\ dirState' = "M"
      /\ \E v : SendResponse(Dir, Head(memBuffer).OriginalRequestor, Response("DATA_FROM_DIR", v, 0))
  BY Zenon DEF DirMemory_Data, cacheVars, MemoryReady, d_sendData
<1> USE DEF Coherent
<1>n. Memory' /\ (\A d \in Cache : ~InMemory(d)') /\ Head(memBuffer) \in MemoryMsg
  <2>1. dirState' \notin {"IS_MD", "IM_MD", "MS_MA", "MI_MA"}
    BY Zenon, <1>u
  <2> QED BY Zenon, <2>1, <1>u, MemoryDone
<1>r. PICK r \in Cache : r = Head(memBuffer).OriginalRequestor
  BY Zenon, <1>n DEF MemoryMsg
<1>i. InMemory(r) /\ \A x \in Cache : InMemory(x) => x = r
  BY Zenon, <1>u, <1>r DEF InMemory
<1>c. /\ ~Asking(r) /\ ~Forwarded(r) /\ ~WbAcked(r) /\ ~Answered(r)
      /\ \/ dirState = "IS_MD" /\ dirState' = "S" /\ cacheState[r] = "IS_D" /\ r \in Sharers
         \/ dirState = "IM_MD" /\ dirState' = "M" /\ cacheState[r] = "IM_AD" /\ Owner = {r} /\ Sharers = {}
  <2>1. ~Asking(r) /\ ~Forwarded(r) /\ ~WbAcked(r) /\ ~Answered(r)
    BY Zenon, <1>i DEF Carried, CarriedOnce
  <2>2. \/ dirState = "IS_MD" /\ cacheState[r] = "IS_D" /\ r \in Sharers
        \/ dirState = "IM_MD" /\ cacheState[r] = "IM_AD" /\ r \in Owner
    BY Zenon, <1>i, <1>u DEF MemoryAgrees
  <2>3. dirState = "IM_MD" => Sharers = {} /\ \E o \in Cache : Owner = {o}
    BY Zenon DEF DirAssertions
  <2> QED BY Zenon, <2>1, <2>2, <2>3, <1>u
<1>q. DirToken /\ (DirToken' <=> dirState' = "S")
  BY Zenon, <1>u DEF DirToken
<1>a. RequestsSame
  BY Zenon, <1>u, RequestsKept
<1>f. ForwardsSame
  BY Zenon, <1>u, ForwardsKept
<1>d. /\ ResponseQueues'
      /\ \A x \in Machine, y \in Cache : Data(x, y)' <=> Data(x, y) \/ (x = Dir /\ y = r)
      /\ \A y \in Cache : Answered(y)' <=> Answered(y) \/ y = r
      /\ \A y \in Cache : Count(y)' = Count(y)
      /\ \A x, y \in Cache : Ack(x, y)' <=> Ack(x, y)
      /\ \A x \in Cache : responseNet'[x][Dir] = responseNet[x][Dir]
      /\ DataToDir' <=> DataToDir
      /\ \A x \in Machine : ~Data(x, r)
  <2>1. \A x \in Machine : ~Data(x, r)
    BY Zenon, <1>c DEF Answered
  <2>2. responseNet[Dir][r] = <<>> /\ Count(r) = 0
    BY Zenon, <2>1, DirChannel, MachineFacts
  <2>3. PICK v : SendResponse(Dir, r, Response("DATA_FROM_DIR", v, 0))
    BY Zenon, <1>u, <1>r
  <2>4. /\ ResponseQueues'
        /\ \A x \in Machine, y \in Cache : Data(x, y)' <=> Data(x, y) \/ (x = Dir /\ y = r)
        /\ \A y \in Cache : Answered(y)' <=> Answered(y) \/ y = r
        /\ \A y \in Cache : Count(y)' = IF y = r THEN 0 ELSE Count(y)
        /\ \A x, y \in Cache : Ack(x, y)' <=> Ack(x, y)
        /\ \A x \in Cache : responseNet'[x][Dir] = responseNet[x][Dir]
        /\ DataToDir' <=> DataToDir
    BY Zenon, <2>2, <2>3, DirDataSent
  <2> QED BY Zenon, <2>1, <2>2, <2>4
<1> USE DEF RequestsSame, ForwardsSame
<1>3. \A x \in Cache : ~Token(x) /\ ~Gathering(x) /\ ~Invalidated(x) /\ \A d \in Cache : ~Owes(d, x)
  BY Zenon, <1>q, DirTokenQuiet
<1>4. \A x \in Cache : Token(x)' <=> x = r /\ dirState' = "M"
  <2>1. \A x \in Cache : x # r => ~Token(x)'
    BY Zenon, <1>3, <1>u, <1>a, <1>f, <1>d DEF Token
  <2>2. Token(r)' <=> dirState' = "M"
    BY Zenon, <1>c, <1>u, <1>d DEF Token, Gets, Counting
  <2> QED BY Zenon, <2>1, <2>2
<1>5. \A x \in Cache : Gathering(x) => Gathering(x)'
  BY Zenon, <1>3
<1>6. \A x, d \in Cache : Owes(d, x)' <=> Owes(d, x)
  BY Zenon, <1>f, <1>d DEF Owes
<1>7. Carried'
  <2>1. ASSUME NEW x \in Cache, x # r PROVE CarriedOnce(x)'
    <3>1. CarriedOnce(x) /\ ~InMemory(x)
      BY Zenon, <2>1, <1>i DEF Carried
    <3> QED BY Zenon, <2>1, <3>1, <1>u, <1>a, <1>d, <1>f, <1>n DEF CarriedOnce
  <2>2. CarriedOnce(r)'
    <3>1. CarriedOnce(r)
      BY Zenon DEF Carried
    <3> QED BY Zenon, <3>1, <1>i, <1>u, <1>a, <1>c, <1>d, <1>f, <1>n DEF CarriedOnce
  <2> QED BY Zenon, <2>1, <2>2 DEF Carried
<1>8. AskAgrees'
  BY Zenon, <1>u, <1>a DEF AskAgrees
<1>9. AnswerAgrees'
  <2>1. cacheState[r] \in Gets \cup {"IS_D"}
    BY Zenon, <1>c DEF Gets
  <2> QED BY Zenon, <2>1, <1>u, <1>f, <1>d DEF AnswerAgrees
<1>10. MemoryAgrees'
  BY Zenon, <1>n DEF MemoryAgrees
<1>11. OneToken'
  <2>1. dirState' = "M" => ~DirToken'
    BY Zenon, <1>q
  <2> QED BY Zenon, <2>1, <1>4 DEF OneToken
<1>12. AckTargets'
  BY ZenonT(40), <1>5, <1>6, <1>f, <1>d DEF AckTargets
<1>13. AckCounts'
  <2>1. \A x \in Cache : Owing(x)' = Owing(x)
    BY Zenon, <1>6 DEF Owing
  <2> QED BY Zenon, <2>1, <1>5, <1>u, <1>d DEF AckCounts
<1>14. Readers'
  <2>1. \A x \in Cache : Reader(x)' => Reader(x) \/ (x = r /\ cacheState[r] = "IS_D")
    BY Zenon, <1>u, <1>d DEF Reader
  <2>2. \A x \in Cache : Reader(x) => x \in Sharers
    BY Zenon, <1>3 DEF Readers
  <2>3. \A x \in Cache : Reader(x)' => x \in Sharers /\ dirState' = "S"
    BY Zenon, <2>1, <2>2, <1>c
  <2> QED BY Zenon, <2>3, <1>q, <1>u DEF Readers
<1>15. InvTargets'
  BY Zenon, <1>u, <1>f, <1>a DEF InvTargets
<1>16. FwdTargets'
  <2>1. \A x \in Cache : Possessor(x)' <=> Possessor(x)
    BY Zenon, <1>u, <1>a DEF Possessor
  <2>2. \A x \in Cache : x \in Owner => (dirState' = "M" => ~WbAcked(x))
    BY Zenon, <1>c
  <2> QED BY Zenon, <2>1, <2>2, <1>f, <1>u DEF FwdTargets
<1>17. OwnerAnswers'
  <2>1. ~DataToDir /\ \A x, y \in Cache : ~Fwd(x, "GETS", y)
    BY Zenon, <1>u DEF OwnerAnswers
  <2> QED BY Zenon, <2>1, <1>f, <1>d DEF OwnerAnswers, DataToDir
<1>18. KnownSharers'
  <2>1. \A x \in Sharers' : x \in Cache /\ x \in Sharers /\ DirToken'
    BY Zenon, <1>c, <1>q, <1>t, <1>u
  <2> QED BY Zenon, <2>1, <1>q, <1>a, <1>f, <1>u DEF KnownSharers, KnownSharer
<1> QED BY ZenonT(40), <1>7, <1>8, <1>9, <1>10, <1>11, <1>12, <1>13, <1>14, <1>15, <1>16, <1>17, <1>18, <1>a, <1>f, <1>d, <1>n

\* The write-back of shared data is done.
LEMMA DirSharedAckOK ==
  ASSUME TypeOK, Coherent, DirAssertions, DirMS_MA_Memory_Ack
  PROVE  Coherent'
<1>t. Sharers \subseteq Cache
  BY Zenon DEF TypeOK
<1>u. /\ UNCHANGED <<cacheState, pendingAcks, requestNet, requestToDir, forwardToCache, responseNet, Sharers>>
      /\ memBuffer # <<>> /\ qm_popMemQueue
      /\ dirState = "MS_MA" /\ dirState' = "S" /\ Owner' = {}
  BY Zenon DEF DirMS_MA_Memory_Ack, cacheVars, netVars, MemoryReady
<1> USE DEF Coherent
<1>n. Memory' /\ (\A d \in Cache : ~InMemory(d)') /\ \A d \in Cache : ~InMemory(d)
  <2>1. dirState' \notin {"IS_MD", "IM_MD", "MS_MA", "MI_MA"}
    BY Zenon, <1>u
  <2>2. \A d \in Cache : ~InMemory(d)
    BY Zenon, <1>u DEF InMemory
  <2> QED BY Zenon, <2>1, <2>2, <1>u, MemoryDone
<1>q. DirToken /\ DirToken' /\ Owner = {}
  BY Zenon, <1>u DEF DirToken, DirAssertions
<1>a. RequestsSame
  BY Zenon, <1>u, RequestsKept
<1>f. ForwardsSame
  BY Zenon, <1>u, ForwardsKept
<1>d. ResponsesSame
  BY Zenon, <1>u, ResponsesKept
<1> USE DEF RequestsSame, ForwardsSame, ResponsesSame
<1>4. \A x \in Cache : Token(x)' <=> Token(x)
  BY Zenon, <1>u, <1>a, <1>f, <1>d DEF Token
<1>5. \A x \in Cache : Gathering(x)' <=> Gathering(x)
  BY Zenon, <1>u, <1>d, MachineFacts DEF Gathering
<1>6. \A x, d \in Cache : Owes(d, x)' <=> Owes(d, x)
  BY Zenon, <1>f, <1>d DEF Owes
<1>7. Carried'
  <2>1. ASSUME NEW x \in Cache PROVE CarriedOnce(x)'
    <3>1. CarriedOnce(x)
      BY Zenon DEF Carried
    <3> QED BY Zenon, <3>1, <1>u, <1>a, <1>d, <1>f, <1>n DEF CarriedOnce
  <2> QED BY Zenon, <2>1 DEF Carried
<1>8. AskAgrees'
  BY Zenon, <1>u, <1>a DEF AskAgrees
<1>9. AnswerAgrees'
  BY Zenon, <1>u, <1>f, <1>d DEF AnswerAgrees
<1>10. MemoryAgrees'
  BY Zenon, <1>n DEF MemoryAgrees
<1>11. OneToken'
  BY Zenon, <1>4, <1>q DEF OneToken
<1>12. AckTargets'
  BY Zenon, <1>5, <1>6, <1>f, <1>d DEF AckTargets
<1>13. AckCounts'
  <2>1. \A x \in Cache : Owing(x)' = Owing(x)
    BY Zenon, <1>6 DEF Owing
  <2> QED BY Zenon, <2>1, <1>5, <1>u, <1>d DEF AckCounts
<1>14. Readers'
  <2>1. \A x \in Cache : Reader(x)' => Reader(x)
    BY Zenon, <1>u, <1>d DEF Reader
  <2> QED BY Zenon, <2>1, <1>4, <1>q, <1>u, <1>f DEF Readers
<1>15. InvTargets'
  BY Zenon, <1>u, <1>f, <1>a DEF InvTargets
<1>16. FwdTargets'
  <2>1. \A x \in Cache : Possessor(x)' <=> Possessor(x)
    BY Zenon, <1>u, <1>a DEF Possessor
  <2>2. Owner' = {}
    BY Zenon, <1>u
  <2> QED BY Zenon, <2>1, <2>2, <1>f DEF FwdTargets
<1>17. OwnerAnswers'
  <2>1. ~DataToDir /\ \A x, y \in Cache : ~Fwd(x, "GETS", y)
    BY Zenon, <1>u DEF OwnerAnswers
  <2> QED BY Zenon, <2>1, <1>f, <1>d DEF OwnerAnswers, DataToDir
<1>18. KnownSharers'
  BY Zenon, <1>q, <1>t, <1>a, <1>f, <1>u DEF KnownSharers, KnownSharer
<1> QED BY ZenonT(40), <1>7, <1>8, <1>9, <1>10, <1>11, <1>12, <1>13, <1>14, <1>15, <1>16, <1>17, <1>18, <1>a, <1>f, <1>d, <1>n

\* The write-back of the owner's data is done: the owner is told.
LEMMA DirOwnerAckOK ==
  ASSUME TypeOK, Coherent, DirAssertions, DirMI_MA_Memory_Ack
  PROVE  Coherent'
<1>u. /\ UNCHANGED <<cacheState, pendingAcks, requestNet, requestToDir, responseNet, Sharers>>
      /\ memBuffer # <<>> /\ qm_popMemQueue
      /\ dirState = "MI_MA" /\ dirState' = "I" /\ Owner' = {}
      /\ SendForward({Head(memBuffer).OriginalRequestor}, "WB_ACK", Head(memBuffer).OriginalRequestor)
  BY Zenon DEF DirMI_MA_Memory_Ack, cacheVars, netVars, MemoryReady, la_sendWriteBackAck
<1> USE DEF Coherent
<1>n. Memory' /\ (\A d \in Cache : ~InMemory(d)') /\ Head(memBuffer) \in MemoryMsg
  <2>1. dirState' \notin {"IS_MD", "IM_MD", "MS_MA", "MI_MA"}
    BY Zenon, <1>u
  <2> QED BY Zenon, <2>1, <1>u, MemoryDone
<1>r. PICK r \in Cache : r = Head(memBuffer).OriginalRequestor
  BY Zenon, <1>n DEF MemoryMsg
<1>i. InMemory(r) /\ \A x \in Cache : InMemory(x) => x = r
  BY Zenon, <1>u, <1>r DEF InMemory
<1>c. /\ ~Asking(r) /\ ~Forwarded(r) /\ ~WbAcked(r) /\ ~Answered(r)
      /\ cacheState[r] = "MI_A"
  <2>1. ~Asking(r) /\ ~Forwarded(r) /\ ~WbAcked(r) /\ ~Answered(r)
    BY Zenon, <1>i DEF Carried, CarriedOnce
  <2>2. cacheState[r] = "MI_A"
    BY Zenon, <1>i, <1>u DEF MemoryAgrees
  <2> QED BY Zenon, <2>1, <2>2
<1>q. DirToken /\ DirToken' /\ Sharers = {}
  BY Zenon, <1>u DEF DirToken, DirAssertions
<1>f. /\ ForwardQueues'
      /\ \A d, x \in Cache :
              /\ Fwd(d, "GETS", x)' <=> Fwd(d, "GETS", x)
              /\ Fwd(d, "GETM", x)' <=> Fwd(d, "GETM", x)
              /\ Fwd(d, "INV", x)' <=> Fwd(d, "INV", x)
      /\ \A d \in Cache : (WbAcked(d)' <=> WbAcked(d) \/ d = r) /\ (Invalidated(d)' <=> Invalidated(d))
  <2>1. SendForward({r}, "WB_ACK", r) /\ r \in Machine
    BY Zenon, <1>u, <1>r, MachineFacts
  <2> QED BY Zenon, <2>1, <1>c, WbAckSent
<1>h. /\ \A d, x \in Cache : Forward(d, x)' <=> Forward(d, x)
      /\ \A d \in Cache : (HasForward(d)' <=> HasForward(d)) /\ (Forwarded(d)' <=> Forwarded(d))
  BY Zenon, <1>f DEF Forward, HasForward, Forwarded
<1>a. RequestsSame
  BY Zenon, <1>u, RequestsKept
<1>d. ResponsesSame
  BY Zenon, <1>u, ResponsesKept
<1> USE DEF RequestsSame, ResponsesSame
<1>4. \A x \in Cache : Token(x)' <=> Token(x)
  BY Zenon, <1>u, <1>a, <1>h, <1>d DEF Token
<1>5. \A x \in Cache : Gathering(x)' <=> Gathering(x)
  BY Zenon, <1>u, <1>d, MachineFacts DEF Gathering
<1>6. \A x, d \in Cache : Owes(d, x)' <=> Owes(d, x)
  BY Zenon, <1>f, <1>d DEF Owes
<1>7. Carried'
  <2>1. ASSUME NEW x \in Cache PROVE CarriedOnce(x)'
    <3>1. CarriedOnce(x)
      BY Zenon DEF Carried
    <3> QED BY Zenon, <3>1, <1>u, <1>i, <1>c, <1>a, <1>d, <1>f, <1>h, <1>n DEF CarriedOnce
  <2> QED BY Zenon, <2>1 DEF Carried
<1>8. AskAgrees'
  BY Zenon, <1>u, <1>a DEF AskAgrees
<1>9. AnswerAgrees'
  <2>1. cacheState[r] \in Puts
    BY Zenon, <1>c DEF Puts
  <2> QED BY Zenon, <2>1, <1>u, <1>f, <1>d DEF AnswerAgrees
<1>10. MemoryAgrees'
  BY Zenon, <1>n DEF MemoryAgrees
<1>11. OneToken'
  BY Zenon, <1>4, <1>q DEF OneToken
<1>12. AckTargets'
  BY ZenonT(40), <1>5, <1>6, <1>f, <1>d DEF AckTargets
<1>13. AckCounts'
  <2>1. \A x \in Cache : Owing(x)' = Owing(x)
    BY Zenon, <1>6 DEF Owing
  <2> QED BY Zenon, <2>1, <1>5, <1>u, <1>d DEF AckCounts
<1>14. Readers'
  <2>1. \A x \in Cache : Reader(x)' => Reader(x)
    BY Zenon, <1>u, <1>d DEF Reader
  <2> QED BY Zenon, <2>1, <1>4, <1>q, <1>u, <1>f DEF Readers
<1>15. InvTargets'
  BY Zenon, <1>u, <1>f, <1>a DEF InvTargets
<1>16. FwdTargets'
  <2>1. \A x \in Cache : Possessor(x)' <=> Possessor(x)
    BY Zenon, <1>u, <1>a DEF Possessor
  <2>2. Owner' = {}
    BY Zenon, <1>u
  <2> QED BY Zenon, <2>1, <2>2, <1>h DEF FwdTargets
<1>17. OwnerAnswers'
  <2>1. ~DataToDir /\ \A x, y \in Cache : ~Fwd(x, "GETS", y)
    BY Zenon, <1>u DEF OwnerAnswers
  <2> QED BY Zenon, <2>1, <1>f, <1>d DEF OwnerAnswers, DataToDir
<1>18. KnownSharers'
  BY Zenon, <1>q, <1>u DEF KnownSharers
<1> QED BY ZenonT(40), <1>7, <1>8, <1>9, <1>10, <1>11, <1>12, <1>13, <1>14, <1>15, <1>16, <1>17, <1>18, <1>a, <1>f, <1>d, <1>n

-----------------------------------------------------------------------------
(***************************************************************************)
(* Requests that take the line from sharers or from an owner.              *)
(***************************************************************************)
\* A queue without forwards of any kind is empty.
LEMMA NoForwards ==
  ASSUME TypeOK, ForwardQueues, NEW d \in Cache, ~WbAcked(d), ~HasForward(d), ~Invalidated(d)
  PROVE  Forwards(d) = {}
<1>1. SUFFICES ASSUME NEW m \in Forwards(d) PROVE FALSE
  BY Zenon
<1>2. m \in ForwardMsg
  <2>1. forwardToCache[d] \in Seq(ForwardMsg)
    BY Zenon DEF TypeOK
  <2> QED BY <2>1 DEF Forwards, Contents
<1>3. m.Type # "WB_ACK" /\ m.Requestor \in Cache
  BY Zenon DEF WbAcked, ForwardQueues
<1>4. m.Type \in {"GETS", "GETM", "INV"} /\ m = [Type |-> m.Type, Requestor |-> m.Requestor]
  BY Zenon, <1>2, <1>3 DEF ForwardMsg
<1>5. Fwd(d, m.Type, m.Requestor)
  BY Zenon, <1>4 DEF Fwd
<1>6. m.Type = "GETS" \/ m.Type = "GETM" \/ m.Type = "INV"
  BY Zenon, <1>4
<1> QED BY Zenon, <1>3, <1>5, <1>6 DEF HasForward, Forward, Invalidated

\* The directory in S answers a store and has the sharers invalidated.
LEMMA DirSGetMOK ==
  ASSUME TypeOK, Coherent, DirAssertions, CardFacts, DirS_GETM
  PROVE  Coherent'
<1>t. Sharers \subseteq Cache /\ pendingAcks \in [Cache -> Int]
  BY Zenon DEF TypeOK
<1>u. /\ UNCHANGED <<cacheState, pendingAcks, requestNet, memBuffer>>
      /\ requestToDir # <<>> /\ i_popIncomingRequestQueue
      /\ dirState = "S" /\ dirState' = "M" /\ RequestEvent(req) = "GETM"
      /\ Sharers' = {} /\ Owner' = {req.Requestor}
      /\ SendForward(Sharers \ {req.Requestor}, "INV", req.Requestor)
      /\ \E v : SendResponse(Dir, req.Requestor, Response("DATA_FROM_DIR", v, (IF req.Requestor \in Sharers THEN 1 ELSE 0) - Cardinality(Sharers)))
  BY Zenon DEF DirS_GETM, cacheVars, RequestReady, req, cs_clearSharers, fwm_sendFwdInvToSharersMinusRequestor, ds2_sendSharedData
<1>k. req.Type = "GETM"
  BY Zenon, <1>u, RequestKind
<1>r. PICK r \in Cache :
        /\ r = req.Requestor /\ RequestTaken(r)
        /\ Asking(r) /\ ~InMemory(r) /\ ~Forwarded(r) /\ ~WbAcked(r) /\ ~Answered(r)
        /\ req.Type = "GETM" => cacheState[r] \in Gets
  BY Zenon, <1>u, Handled
<1>D. PICK D \in SUBSET Cache : D = Sharers \ {r}
  BY Zenon, <1>t
<1> USE DEF Coherent, RequestTaken
<1>q. /\ DirToken /\ ~DirToken' /\ cacheState[r] \in Gets /\ r \notin D
      /\ ~DataToDir /\ (\A x, y \in Cache : ~Fwd(x, "GETS", y)) /\ \A x \in Cache : ~InMemory(x)
  <2>1. DirToken /\ ~DirToken' /\ cacheState[r] \in Gets /\ r \notin D
    BY Zenon, <1>u, <1>k, <1>r, <1>D DEF DirToken
  <2>2. ~DataToDir /\ \A x, y \in Cache : ~Fwd(x, "GETS", y)
    BY Zenon, <1>u DEF OwnerAnswers
  <2>3. \A x \in Cache : ~InMemory(x)
    BY Zenon, <1>u DEF MemoryAgrees
  <2> QED BY Zenon, <2>1, <2>2, <2>3
<1>3. \A x \in Cache : ~Token(x) /\ ~Gathering(x) /\ ~Invalidated(x) /\ \A d \in Cache : ~Owes(d, x)
  BY Zenon, <1>q, DirTokenQuiet
<1>s. \A d \in D : /\ cacheState[d] \in {"IS_D", "S", "SM_AD", "SI_A"}
                   /\ cacheState[d] = "IS_D" => ~Asking(d)
                   /\ cacheState[d] \in {"SM_AD", "SI_A"} => Asking(d)
  <2>1. \A d \in D : KnownSharer(d)
    BY Zenon, <1>D DEF KnownSharers
  <2> QED BY Zenon, <2>1, <1>q DEF KnownSharer
<1>e. \A d \in D : Forwards(d) = {}
  <2>1. SUFFICES ASSUME NEW d \in D PROVE Forwards(d) = {}
    BY Zenon
  <2>2. d \in Cache /\ ~Invalidated(d)
    BY Zenon, <1>3, <1>D
  <2>3. ~WbAcked(d)
    <3>1. WbAcked(d) => cacheState[d] \in Puts /\ ~Asking(d)
      BY Zenon, <2>2 DEF AnswerAgrees, Carried, CarriedOnce
    <3> QED BY Zenon, <3>1, <1>s DEF Puts
  <2>4. ~HasForward(d)
    <3>1. HasForward(d) => Possessor(d)
      BY Zenon, <2>2 DEF FwdTargets
    <3> QED BY Zenon, <3>1, <1>s DEF Possessor, Gets, Counting
  <2> QED BY Zenon, <2>2, <2>3, <2>4, NoForwards
<1>f. /\ ForwardQueues'
      /\ \A d, x \in Cache :
              /\ Fwd(d, "GETS", x)' <=> Fwd(d, "GETS", x)
              /\ Fwd(d, "GETM", x)' <=> Fwd(d, "GETM", x)
              /\ Fwd(d, "INV", x)' <=> Fwd(d, "INV", x) \/ (d \in D /\ r = x)
      /\ \A d \in Cache : (WbAcked(d)' <=> WbAcked(d)) /\ (Invalidated(d)' <=> Invalidated(d) \/ d \in D)
  <2>1. SendForward(D, "INV", r)
    BY Zenon, <1>u, <1>r, <1>D
  <2> QED BY Zenon, <2>1, <1>e, InvalidationsSent
<1>h. /\ \A d, x \in Cache : Forward(d, x)' <=> Forward(d, x)
      /\ \A d \in Cache : (HasForward(d)' <=> HasForward(d)) /\ (Forwarded(d)' <=> Forwarded(d))
  BY Zenon, <1>f DEF Forward, HasForward, Forwarded
<1>n. MemorySame
  BY Zenon, <1>u DEF Memory, MemorySame, InMemory
<1>d. /\ ResponseQueues'
      /\ \A x \in Machine, y \in Cache : Data(x, y)' <=> Data(x, y) \/ (x = Dir /\ y = r)
      /\ \A y \in Cache : Answered(y)' <=> Answered(y) \/ y = r
      /\ \A y \in Cache : Count(y)' = IF y = r THEN 0 - Cardinality(D) ELSE Count(y)
      /\ \A x, y \in Cache : Ack(x, y)' <=> Ack(x, y)
      /\ \A x \in Cache : responseNet'[x][Dir] = responseNet[x][Dir]
      /\ DataToDir' <=> DataToDir
      /\ \A x \in Machine : ~Data(x, r)
  <2>1. \A x \in Machine : ~Data(x, r)
    BY Zenon, <1>r DEF Answered
  <2>2. responseNet[Dir][r] = <<>>
    BY Zenon, <2>1, DirChannel, MachineFacts
  <2>n. (IF r \in Sharers THEN 1 ELSE 0) - Cardinality(Sharers) = 0 - Cardinality(D)
    <3>1. Cardinality(Sharers) \in Nat /\ Cardinality(D) \in Nat
      BY Zenon, <1>t DEF CardFacts
    <3>2. CASE r \in Sharers
      <4>1. Cardinality(D) = Cardinality(Sharers) - 1
        BY Zenon, <3>2, <1>t, <1>D DEF CardFacts
      <4> QED BY <3>1, <3>2, <4>1
    <3>3. CASE r \notin Sharers
      <4>1. D = Sharers
        BY Zenon, <3>3, <1>D
      <4> QED BY Zenon, <3>1, <3>3, <4>1
    <3> QED BY Zenon, <3>2, <3>3
  <2>3. PICK v : SendResponse(Dir, r, Response("DATA_FROM_DIR", v, 0 - Cardinality(D)))
    BY Zenon, <2>n, <1>u, <1>r
  <2>4. /\ ResponseQueues'
        /\ \A x \in Machine, y \in Cache : Data(x, y)' <=> Data(x, y) \/ (x = Dir /\ y = r)
        /\ \A y \in Cache : Answered(y)' <=> Answered(y) \/ y = r
        /\ \A y \in Cache : Count(y)' = IF y = r THEN 0 - Cardinality(D) ELSE Count(y)
        /\ \A x, y \in Cache : Ack(x, y)' <=> Ack(x, y)
        /\ \A x \in Cache : responseNet'[x][Dir] = responseNet[x][Dir]
        /\ DataToDir' <=> DataToDir
    BY Zenon, <2>2, <2>3, DirDataSent
  <2> QED BY Zenon, <2>1, <2>4
<1> USE DEF MemorySame
<1>4. \A x \in Cache : Token(x)' <=> x = r
  <2>1. \A x \in Cache : x # r => ~Token(x)'
    BY Zenon, <1>3, <1>u, <1>r, <1>h, <1>d DEF Token
  <2>2. Token(r)'
    BY Zenon, <1>q, <1>u, <1>d DEF Token
  <2> QED BY Zenon, <2>1, <2>2
<1>5. \A x \in Cache : Gathering(x)' <=> x = r
  <2>1. \A x \in Cache : x # r => ~Gathering(x)'
    BY Zenon, <1>3, <1>u, <1>d, MachineFacts DEF Gathering
  <2>2. Gathering(r)'
    BY Zenon, <1>q, <1>u, <1>d, MachineFacts DEF Gathering
  <2> QED BY Zenon, <2>1, <2>2
<1>6. \A x, d \in Cache : /\ Owes(d, x)' <=> d \in D /\ x = r
                          /\ ~Ack(d, x) /\ ~Fwd(d, "INV", x)
  <2>1. \A x, d \in Cache : ~Ack(d, x) /\ ~Fwd(d, "INV", x)
    BY Zenon, <1>3 DEF Owes
  <2> QED BY Zenon, <2>1, <1>f, <1>d DEF Owes
<1>7. Carried'
  <2>1. ASSUME NEW x \in Cache, x # r PROVE CarriedOnce(x)'
    <3>1. CarriedOnce(x)
      BY Zenon DEF Carried
    <3> QED BY Zenon, <2>1, <3>1, <1>u, <1>r, <1>d, <1>f, <1>h, <1>n DEF CarriedOnce
  <2>2. CarriedOnce(r)'
    <3>1. CarriedOnce(r)
      BY Zenon DEF Carried
    <3> QED BY Zenon, <3>1, <1>u, <1>r, <1>d, <1>f, <1>h, <1>n DEF CarriedOnce
  <2> QED BY Zenon, <2>1, <2>2 DEF Carried
<1>9. AnswerAgrees'
  <2>1. cacheState[r] \in Gets \cup {"IS_D"}
    BY Zenon, <1>q
  <2> QED BY Zenon, <2>1, <1>u, <1>f, <1>d DEF AnswerAgrees
<1>10. MemoryAgrees'
  BY Zenon, <1>q, <1>n DEF MemoryAgrees
<1>11. OneToken'
  BY Zenon, <1>4, <1>q DEF OneToken
<1>12. AckTargets'
  <2>1. \A d \in D : d # r
    BY Zenon, <1>q
  <2> QED BY Zenon, <2>1, <1>5, <1>6, <1>f, <1>d DEF AckTargets
<1>13. AckCounts'
  <2>1. Owing(r)' = D
    BY Zenon, <1>6 DEF Owing
  <2>2. \A x \in Cache : x # r => Owing(x)' = Owing(x)
    <3>1. \A x \in Cache : x # r => Owing(x)' = {}
      BY Zenon, <1>6 DEF Owing
    <3>2. \A x \in Cache : Owing(x) = {}
      BY Zenon, <1>3 DEF Owing
    <3> QED BY Zenon, <3>1, <3>2
  <2>3. pendingAcks[r] = 0 /\ Cardinality(D) \in Nat
    BY Zenon, <1>3 DEF AckCounts, CardFacts
  <2>4. cacheState[r] \notin Counting
    BY Zenon, <1>q DEF Gets, Counting
  <2>5. ASSUME NEW x \in Cache
        PROVE  /\ pendingAcks[x] - Count(x)' = Cardinality(Owing(x)')
               /\ IF cacheState[x] \in Counting THEN pendingAcks[x] > 0 ELSE pendingAcks[x] <= 0
               /\ ~Gathering(x)' => pendingAcks[x] = 0 /\ Count(x)' = 0
    <3>1. CASE x = r
      <4>1. Count(r)' = 0 - Cardinality(D) /\ Cardinality(Owing(r)') = Cardinality(D)
        BY Zenon, <2>1, <1>d
      <4>2. pendingAcks[r] - Count(r)' = Cardinality(Owing(r)')
        BY <4>1, <2>3
      <4>3. pendingAcks[r] <= 0
        BY <2>3
      <4> QED BY Zenon, <3>1, <4>2, <4>3, <2>4, <1>5
    <3>2. CASE x # r
      <4>1. Count(x)' = Count(x) /\ Owing(x)' = Owing(x) /\ ~Gathering(x)
        BY Zenon, <3>2, <2>2, <1>d, <1>3
      <4> QED BY Zenon, <4>1 DEF AckCounts
    <3> QED BY Zenon, <3>1, <3>2
  <2> QED BY Zenon, <2>5, <1>u DEF AckCounts
<1>14. Readers'
  <2>1. \A x \in Cache : Reader(x)' => Reader(x) \/ x = r
    BY Zenon, <1>u, <1>d DEF Reader
  <2>2. \A x \in Cache : Reader(x) => x \in Sharers
    BY Zenon, <1>3 DEF Readers
  <2>3. \A x \in Cache : Reader(x)' => x = r \/ x \in D
    BY Zenon, <2>1, <2>2, <1>D
  <2> QED BY Zenon, <2>3, <1>4, <1>f DEF Readers
<1>15. InvTargets'
  BY Zenon, <1>s, <1>u, <1>f, <1>r DEF InvTargets
<1>16. FwdTargets'
  <2>1. ~HasForward(r) /\ ~WbAcked(r) /\ Possessor(r)'
    <3>1. ~Possessor(r)
      BY Zenon, <1>q, <1>r DEF Possessor, Gets, Counting
    <3>2. Possessor(r)'
      BY ZenonT(40), <1>q, <1>r, <1>u DEF Possessor
    <3> QED BY Zenon, <3>1, <3>2, <1>r DEF FwdTargets
  <2>2. \A x \in Owner' : x = r
    BY Zenon, <1>u, <1>r
  <2> QED BY Zenon, <2>1, <2>2, <1>f, <1>h, <1>r DEF FwdTargets
<1>17. OwnerAnswers'
  BY Zenon, <1>q, <1>f, <1>d DEF OwnerAnswers, DataToDir
<1>18. KnownSharers'
  BY Zenon, <1>u DEF KnownSharers
<1> QED BY ZenonT(40), <1>7, <1>9, <1>10, <1>11, <1>12, <1>13, <1>14, <1>15, <1>16, <1>17, <1>18, <1>r, <1>f, <1>d, <1>n

\* The owner before it answers: what it holds, and that forwarding to it gives
\* nobody the token.
LEMMA OwnerFacts ==
  ASSUME TypeOK, Coherent, DirAssertions, dirState = "M"
  PROVE  /\ \E o \in Cache : Owner = {o} /\ Possessor(o) /\ ~HasForward(o) /\ ~WbAcked(o) /\ (cacheState[o] = "MI_A" => Asking(o))
         /\ Sharers = {} /\ ~DataToDir /\ ~DirToken /\ memBuffer = <<>>
         /\ \A x, y \in Cache : ~Fwd(x, "GETS", y)
         /\ \A x \in Cache : ~InMemory(x)
<1> USE DEF Coherent
<1>1. PICK o \in Cache : Owner = {o}
  BY Zenon DEF DirAssertions
<1>2. Possessor(o) /\ ~HasForward(o) /\ ~WbAcked(o)
  BY Zenon, <1>1 DEF FwdTargets
<1>3. Sharers = {} /\ ~DirToken /\ memBuffer = <<>>
  BY Zenon DEF DirAssertions, DirToken, Memory
<1>4. ~DataToDir /\ (\A x, y \in Cache : ~Fwd(x, "GETS", y))
  BY Zenon DEF OwnerAnswers
<1>5. \A x \in Cache : ~InMemory(x)
  BY Zenon, <1>3 DEF InMemory
<1>6. ASSUME cacheState[o] = "MI_A" PROVE Asking(o)
  <2>1. ~Answered(o) /\ \A d \in Cache : ~Fwd(d, "GETM", o)
    BY Zenon, <1>6 DEF AnswerAgrees, Gets
  <2>2. ~Forwarded(o)
    BY Zenon, <2>1, <1>4 DEF Forwarded, Forward
  <2>3. cacheState[o] \in Outstanding
    BY Zenon, <1>6 DEF Outstanding, Puts
  <2> QED BY Zenon, <2>1, <2>2, <2>3, <1>2, <1>5 DEF Carried, CarriedOnce
<1> QED BY Zenon, <1>1, <1>2, <1>3, <1>4, <1>5, <1>6

\* The directory in M forwards a load or a store to the owner.
LEMMA DirMOK ==
  ASSUME TypeOK, Coherent, DirAssertions, DirM_GETS \/ DirM_GETM
  PROVE  Coherent'
<1>u. /\ UNCHANGED <<cacheState, pendingAcks, requestNet, responseNet, memBuffer>>
      /\ requestToDir # <<>> /\ i_popIncomingRequestQueue
      /\ dirState = "M"
      /\ SendForward(Owner, req.Type, req.Requestor)
      /\ \/ /\ RequestEvent(req) = "GETS" /\ dirState' = "MS_OD"
            /\ Sharers' = Sharers \cup Owner \cup {req.Requestor} /\ Owner' = {}
         \/ /\ RequestEvent(req) = "GETM" /\ dirState' = "M" /\ Sharers' = Sharers /\ Owner' = {req.Requestor}
  BY Zenon DEF DirM_GETS, DirM_GETM, cacheVars, RequestReady, req, f_forwardRequest
<1>k. /\ RequestEvent(req) = "GETS" => req.Type = "GETS"
      /\ RequestEvent(req) = "GETM" => req.Type = "GETM"
  BY Zenon, <1>u, RequestKind
<1>r. PICK r \in Cache :
        /\ r = req.Requestor /\ RequestTaken(r)
        /\ Asking(r) /\ ~InMemory(r) /\ ~Forwarded(r) /\ ~WbAcked(r) /\ ~Answered(r)
        /\ req.Type = "GETS" => cacheState[r] = "IS_D" /\ ~Invalidated(r)
        /\ req.Type = "GETM" => cacheState[r] \in Gets
  BY Zenon, <1>u, Handled
<1>o. PICK o \in Cache :
        /\ Owner = {o} /\ Possessor(o) /\ ~HasForward(o) /\ ~WbAcked(o) /\ (cacheState[o] = "MI_A" => Asking(o))
        /\ Sharers = {} /\ ~DataToDir /\ ~DirToken /\ memBuffer = <<>>
        /\ \A x, y \in Cache : ~Fwd(x, "GETS", y)
        /\ \A x \in Cache : ~InMemory(x)
  BY Zenon, <1>u, OwnerFacts
<1> USE DEF Coherent, RequestTaken
<1>c. /\ \/ /\ dirState' = "MS_OD" /\ cacheState[r] = "IS_D" /\ ~Invalidated(r)
            /\ Sharers' = {o, r} /\ Owner' = {} /\ SendForward({o}, "GETS", r)
         \/ /\ dirState' = "M" /\ cacheState[r] \in Gets
            /\ Sharers' = {} /\ Owner' = {r} /\ SendForward({o}, "GETM", r)
      /\ o # r
  <2>1. CASE RequestEvent(req) = "GETS"
    <3>1. cacheState[r] = "IS_D" /\ ~Invalidated(r) /\ SendForward({o}, "GETS", r)
      BY Zenon, <2>1, <1>u, <1>k, <1>r, <1>o
    <3>2. o # r
      BY SMTT(40), <3>1, <1>o DEF Possessor, Gets, Counting
    <3> QED BY Zenon, <2>1, <3>1, <3>2, <1>u, <1>r, <1>o
  <2>2. CASE RequestEvent(req) = "GETM"
    <3>1. cacheState[r] \in Gets /\ SendForward({o}, "GETM", r)
      BY ZenonT(40), <2>2, <1>u, <1>k, <1>r, <1>o
    <3>2. o # r
      BY Zenon, <3>1, <1>o, <1>r DEF Possessor, Gets, Counting
    <3> QED BY Zenon, <2>2, <3>1, <3>2, <1>u, <1>r, <1>o
  <2> QED BY ZenonT(40), <2>1, <2>2, <1>u
<1>f. /\ ForwardQueues'
      /\ \A d, x \in Cache :
              /\ Fwd(d, "GETS", x)' <=> d = o /\ x = r /\ dirState' = "MS_OD"
              /\ Fwd(d, "GETM", x)' <=> Fwd(d, "GETM", x) \/ (d = o /\ r = x /\ dirState' = "M")
              /\ Fwd(d, "INV", x)' <=> Fwd(d, "INV", x)
      /\ \A d \in Cache : (WbAcked(d)' <=> WbAcked(d)) /\ (Invalidated(d)' <=> Invalidated(d))
  <2>1. ~Fwd(o, "GETS", r) /\ ~Fwd(o, "GETM", r) /\ ForwardQueues
    BY Zenon, <1>o DEF HasForward, Forward
  <2>2. CASE SendForward({o}, "GETS", r) /\ dirState' = "MS_OD"
    <3>1. /\ ForwardQueues'
          /\ \A d, x \in Cache :
              /\ Fwd(d, "GETS", x)' <=> Fwd(d, "GETS", x) \/ (d = o /\ r = x)
              /\ Fwd(d, "GETM", x)' <=> Fwd(d, "GETM", x)
              /\ Fwd(d, "INV", x)' <=> Fwd(d, "INV", x)
          /\ \A d \in Cache : (WbAcked(d)' <=> WbAcked(d)) /\ (Invalidated(d)' <=> Invalidated(d))
      BY Zenon, <2>1, <2>2, <1>o, GetSForwarded
    <3>2. dirState' # "M"
      BY Zenon, <2>2
    <3> QED BY Zenon, <3>1, <3>2, <2>2, <1>o
  <2>3. CASE SendForward({o}, "GETM", r) /\ dirState' = "M"
    <3>1. /\ ForwardQueues'
          /\ \A d, x \in Cache :
              /\ Fwd(d, "GETS", x)' <=> Fwd(d, "GETS", x)
              /\ Fwd(d, "GETM", x)' <=> Fwd(d, "GETM", x) \/ (d = o /\ r = x)
              /\ Fwd(d, "INV", x)' <=> Fwd(d, "INV", x)
          /\ \A d \in Cache : (WbAcked(d)' <=> WbAcked(d)) /\ (Invalidated(d)' <=> Invalidated(d))
      BY Zenon, <2>1, <2>3, <1>o, GetMForwarded
    <3>2. dirState' # "MS_OD"
      BY Zenon, <2>3
    <3> QED BY Zenon, <3>1, <3>2, <2>3, <1>o
  <2> QED BY Zenon, <2>2, <2>3, <1>c
<1>h. /\ \A d, x \in Cache : Forward(d, x)' <=> Forward(d, x) \/ (d = o /\ x = r)
      /\ \A d \in Cache : (HasForward(d)' <=> HasForward(d) \/ d = o) /\ (Forwarded(d)' <=> Forwarded(d) \/ d = r)
      /\ \A x \in Cache : ~Forward(o, x) /\ ~Forward(x, r)
  <2>1. \A d, x \in Cache : Forward(d, x)' <=> Forward(d, x) \/ (d = o /\ x = r)
    BY Zenon, <1>f, <1>o, <1>c DEF Forward
  <2>2. \A d \in Cache : (HasForward(d)' <=> HasForward(d) \/ d = o) /\ (Forwarded(d)' <=> Forwarded(d) \/ d = r)
    BY Zenon, <2>1 DEF HasForward, Forwarded
  <2>3. \A x \in Cache : ~Forward(o, x) /\ ~Forward(x, r)
    BY ZenonT(40), <1>o, <1>r DEF HasForward, Forwarded
  <2> QED BY Zenon, <2>1, <2>2, <2>3
<1>n. MemorySame
  <2>1. dirState' \notin {"IS_MD", "IM_MD", "MS_MA", "MI_MA"} /\ Len(<<>>) = 0
    BY Zenon, <1>c
  <2> QED BY Zenon, <2>1, <1>o, <1>u DEF Memory, MemorySame, InMemory
<1>d. ResponsesSame
  BY ZenonT(40), <1>u, ResponsesKept
<1> USE DEF ResponsesSame, MemorySame
<1>q. ~DirToken'
  BY Zenon, <1>c, <1>o, <1>d DEF DirToken
<1>4. \A x \in Cache : Token(x)' <=> Token(x)
  <2>1. \A x \in Cache : x # o /\ x # r => (Token(x)' <=> Token(x))
    BY Zenon, <1>u, <1>r, <1>h, <1>d DEF Token
  <2>2. Token(o)' <=> Token(o)
    BY Zenon, <1>u, <1>r, <1>o, <1>c, <1>h, <1>d DEF Token
  <2>3. Token(r)' <=> Token(r)
    <3>1. cacheState[r] # "MI_A"
      BY Zenon, <1>c DEF Gets
    <3> QED BY Zenon, <3>1, <1>u, <1>d DEF Token
  <2> QED BY Zenon, <2>1, <2>2, <2>3
<1>5. \A x \in Cache : Gathering(x)' <=> Gathering(x)
  BY Zenon, <1>u, <1>d, MachineFacts DEF Gathering
<1>6. \A x, d \in Cache : Owes(d, x)' <=> Owes(d, x)
  BY Zenon, <1>f, <1>d DEF Owes
<1>7. Carried'
  <2>1. ASSUME NEW x \in Cache, x # r PROVE CarriedOnce(x)'
    <3>1. CarriedOnce(x)
      BY Zenon DEF Carried
    <3> QED BY ZenonT(40), <2>1, <3>1, <1>u, <1>r, <1>d, <1>f, <1>h, <1>n DEF CarriedOnce
  <2>2. CarriedOnce(r)'
    <3>1. CarriedOnce(r)
      BY Zenon DEF Carried
    <3> QED BY Zenon, <3>1, <1>u, <1>r, <1>d, <1>f, <1>h, <1>n DEF CarriedOnce
  <2> QED BY Zenon, <2>1, <2>2 DEF Carried
<1>9. AnswerAgrees'
  <2>1. (dirState' = "MS_OD" => cacheState[r] = "IS_D") /\ (dirState' = "M" => cacheState[r] \in Gets)
    BY Zenon, <1>c
  <2> QED BY Zenon, <2>1, <1>u, <1>f, <1>d DEF AnswerAgrees
<1>10. MemoryAgrees'
  BY Zenon, <1>o, <1>n DEF MemoryAgrees
<1>11. OneToken'
  BY Zenon, <1>4, <1>q DEF OneToken
<1>12. AckTargets'
  BY ZenonT(40), <1>5, <1>6, <1>f, <1>d DEF AckTargets
<1>13. AckCounts'
  <2>1. \A x \in Cache : Owing(x)' = Owing(x)
    BY Zenon, <1>6 DEF Owing
  <2> QED BY Zenon, <2>1, <1>5, <1>u, <1>d DEF AckCounts
<1>14. Readers'
  <2>1. \A x \in Cache : Reader(x)' => Reader(x)
    BY Zenon, <1>u, <1>d DEF Reader
  <2> QED BY Zenon, <2>1, <1>4, <1>o, <1>f DEF Readers
<1>15. InvTargets'
  BY Zenon, <1>u, <1>f, <1>r DEF InvTargets
<1>16. FwdTargets'
  <2>1. Owner' = {r} => Possessor(r)' /\ ~HasForward(r)' /\ ~WbAcked(r)'
    <3>1. Owner' = {r} => cacheState[r] \in Gets
      BY SMTT(40), <1>c
    <3>2. cacheState[r] \in Gets => ~Possessor(r)
      BY Zenon, <1>r DEF Possessor, Gets, Counting
    <3>3. cacheState[r] \in Gets => Possessor(r)'
      BY Zenon, <1>r, <1>u DEF Possessor
    <3> QED BY ZenonT(40), <3>1, <3>2, <3>3, <1>c, <1>f, <1>h, <1>r DEF FwdTargets
  <2>2. \A x \in Owner' : x = r /\ Owner' = {r}
    BY Zenon, <1>c
  <2>3. \A x \in Cache : HasForward(x)' => Possessor(x)'
    BY Zenon, <1>h, <1>o, <1>r DEF FwdTargets
  <2>4. \A c, x, y \in Cache : Forward(c, x)' /\ Forward(c, y)' => x = y
    <3>1. \A c, x, y \in Cache : Forward(c, x) /\ Forward(c, y) => x = y
      BY Zenon DEF FwdTargets
    <3>2. ASSUME NEW c \in Cache, NEW x \in Cache, NEW y \in Cache, Forward(c, x)', Forward(c, y)' PROVE x = y
      <4>1. CASE c = o
        BY Zenon, <4>1, <3>2, <1>h
      <4>2. CASE c # o
        BY Zenon, <4>2, <3>1, <3>2, <1>h
      <4> QED BY Zenon, <4>1, <4>2
    <3> QED BY Zenon, <3>2
  <2> QED BY Zenon, <2>1, <2>2, <2>3, <2>4 DEF FwdTargets
<1>17. OwnerAnswers'
  <2>1. dirState' = "MS_OD" => o \in Sharers' /\ r \in Sharers'
    BY Zenon, <1>c
  <2> QED BY Zenon, <2>1, <1>o, <1>f, <1>d DEF OwnerAnswers, DataToDir
<1>18. KnownSharers'
  <2>1. ASSUME NEW x \in Sharers' PROVE KnownSharer(x)'
    <3>1. x \in {o, r} /\ dirState' = "MS_OD" /\ cacheState[r] = "IS_D" /\ ~Invalidated(r)
      BY Zenon, <1>c
    <3>2. KnownSharer(r)'
      BY Zenon, <3>1, <1>r, <1>f, <1>u DEF KnownSharer
    <3>3. KnownSharer(o)'
      BY Zenon, <3>1, <1>q, <1>r, <1>o, <1>c, <1>f, <1>u DEF KnownSharer
    <3> QED BY Zenon, <3>1, <3>2, <3>3
  <2> QED BY Zenon, <2>1 DEF KnownSharers
<1> QED BY ZenonT(40), <1>7, <1>9, <1>10, <1>11, <1>12, <1>13, <1>14, <1>15, <1>16, <1>17, <1>18, <1>r, <1>f, <1>d, <1>n
=============================================================================
