------------------------------ MODULE MSIData -------------------------------
(***************************************************************************)
(* A cache that takes data or an acknowledgement keeps the invariant       *)
(* Coherent, and every step keeps Fresh: what can still be read is the     *)
(* last completed write.                                                   *)
(*                                                                         *)
(* Fresh needs Coherent: a write is harmless because the token says that   *)
(* no other copy can be read, and data leaves a cache or the directory     *)
(* only while that copy is fresh.                                          *)
(***************************************************************************)
EXTENDS MSIDirectorySteps

(***************************************************************************)
(* The response port of a cache.                                           *)
(***************************************************************************)
\* Cache c takes the data that machine s sent.
LEMMA DataTaken ==
  ASSUME TypeOK, Coherent, NEW c \in Cache, NEW s \in Machine, Data(s, c), PopResponse(s, c),
         UNCHANGED <<requestNet, requestToDir, forwardToCache, dirState, Sharers, Owner, memBuffer>>,
         \A d \in Cache : d # c => cacheState'[d] = cacheState[d],
         \/ cacheState[c] = "IS_D" /\ cacheState'[c] = "S"
         \/ cacheState[c] \in Gets /\ cacheState'[c] = "M" /\ Owing(c) = {}
         \/ cacheState[c] \in Gets /\ cacheState'[c] \in Counting,
         AckCounts'
  PROVE  Coherent'
<1>t. Sharers \subseteq Cache
  BY Zenon DEF TypeOK
<1> USE DEF Coherent
<1>a. RequestsSame
  BY Zenon, RequestsKept
<1>f. ForwardsSame
  BY Zenon, ForwardsKept
<1>n. MemorySame
  BY Zenon, MemoryKept
<1> USE DEF RequestsSame, ForwardsSame, MemorySame
<1>d. /\ ResponseQueues'
      /\ \A x \in Machine, y \in Cache : Data(x, y)' <=> Data(x, y) /\ ~(x = s /\ y = c)
      /\ \A x, y \in Cache : Ack(x, y)' <=> Ack(x, y)
      /\ \A x \in Cache : responseNet'[x][Dir] = responseNet[x][Dir]
      /\ DataToDir' <=> DataToDir
  <2>1. responseNet[s][c] # <<>> /\ c \in Machine
    BY Zenon, MachineFacts DEF Data
  <2>2. \A x, y \in Cache : Ack(x, y)' <=> Ack(x, y) /\ ~(x = s /\ y = c)
    BY <2>1, ResponsePopped
  <2>3. ~(s \in Cache /\ Ack(s, c))
    BY Zenon DEF Ack, Data
  <2>4. /\ ResponseQueues'
        /\ \A x \in Machine, y \in Cache : Data(x, y)' <=> Data(x, y) /\ ~(x = s /\ y = c)
        /\ \A x \in Cache : responseNet'[x][Dir] = responseNet[x][Dir]
        /\ DataToDir' <=> DataToDir
    BY Zenon, <2>1, ResponsePopped
  <2> QED BY Zenon, <2>2, <2>3, <2>4
<1>2. /\ Answered(c) /\ ~Asking(c) /\ ~InMemory(c) /\ ~Forwarded(c) /\ ~WbAcked(c)
      /\ \A x \in Machine : Data(x, c) => x = s
  <2>1. CarriedOnce(c) /\ Answered(c)
    BY Zenon DEF Carried, Answered
  <2> QED BY Zenon, <2>1 DEF CarriedOnce
<1>3. \A y \in Cache : Answered(y)' <=> Answered(y) /\ y # c
  BY Zenon, <1>d, <1>2 DEF Answered
<1>4. \A x \in Cache : Token(x)' <=> Token(x)
  <2>1. Token(c)' <=> Token(c)
    BY Zenon, <1>2 DEF Token, Gets, Counting
  <2>2. \A x \in Cache : x # c => (Token(x)' <=> Token(x))
    BY Zenon, <1>a, <1>f, <1>3 DEF Token
  <2> QED BY Zenon, <2>1, <2>2
<1>5. DirToken' <=> DirToken
  BY Zenon, <1>d DEF DirToken
<1>6. \A x \in Cache : Gathering(x) => Gathering(x)' \/ Owing(x) = {}
  <2>1. Gathering(c) => Gathering(c)' \/ Owing(c) = {}
    BY Zenon DEF Gathering, Gets, Counting
  <2>2. \A x \in Cache : x # c => (Gathering(x) => Gathering(x)')
    BY Zenon, <1>d, MachineFacts DEF Gathering
  <2> QED BY Zenon, <2>1, <2>2
<1>7. \A x, d \in Cache : Owes(d, x)' <=> Owes(d, x)
  BY Zenon, <1>f, <1>d DEF Owes
<1>8. Carried'
  <2>1. CarriedOnce(c)'
    <3>1. CarriedOnce(c) /\ cacheState'[c] \notin Outstanding
      BY Zenon DEF Carried, Outstanding, Gets, Puts, Counting
    <3>2. \A x \in Machine : ~Data(x, c)'
      BY Zenon, <1>d, <1>2
    <3> QED BY Zenon, <3>1, <3>2, <1>2, <1>3, <1>a, <1>f, <1>n DEF CarriedOnce
  <2>2. ASSUME NEW x \in Cache, x # c PROVE CarriedOnce(x)'
    <3>1. CarriedOnce(x)
      BY Zenon DEF Carried
    <3> QED BY Zenon, <2>2, <3>1, <1>a, <1>d, <1>f, <1>3, <1>n DEF CarriedOnce
  <2> QED BY Zenon, <2>1, <2>2 DEF Carried
<1>9. AskAgrees'
  <2>1. \A t : ~Asks(c, t)
    BY Zenon, <1>2 DEF Asks, Asking
  <2> QED BY Zenon, <2>1, <1>a DEF AskAgrees
<1>10. AnswerAgrees'
  <2>1. \A d \in Cache : ~Fwd(d, "GETS", c) /\ ~Fwd(d, "GETM", c)
    BY Zenon, <1>2 DEF Forwarded, Forward
  <2> QED BY Zenon, <2>1, <1>2, <1>f, <1>3 DEF AnswerAgrees
<1>11. MemoryAgrees'
  BY Zenon, <1>2, <1>n DEF MemoryAgrees
<1>12. OneToken'
  BY Zenon, <1>4, <1>5 DEF OneToken
<1>13. AckTargets'
  BY Zenon, <1>6, <1>7, <1>f, <1>d DEF AckTargets, Owing
<1>14. Readers'
  <2>1. \A x \in Cache : Reader(x)' => Reader(x)
    <3>1. Reader(c)' => Reader(c)
      BY Zenon, <1>2 DEF Reader, Gets, Counting
    <3> QED BY Zenon, <3>1, <1>3 DEF Reader
  <2> QED BY Zenon, <2>1, <1>4, <1>5, <1>f DEF Readers
<1>15. Token(c) => ~Invalidated(c)
  <2>1. SUFFICES ASSUME Token(c), NEW r \in Cache, Fwd(c, "INV", r) PROVE FALSE
    BY Zenon DEF Invalidated
  <2>2. Gathering(r) /\ r # c
    BY Zenon, <2>1 DEF AckTargets, Owes
  <2>3. Token(r)
    BY Zenon, <2>2, MachineFacts DEF Gathering, Token, Answered
  <2> QED BY Zenon, <2>1, <2>2, <2>3 DEF OneToken
<1>16. InvTargets'
  <2>1. Invalidated(c) => cacheState'[c] = "S"
    BY Zenon, <1>15, <1>2 DEF Token
  <2> QED BY Zenon, <2>1, <1>f, <1>a DEF InvTargets
<1>17. FwdTargets'
  <2>1. \A x \in Cache : Possessor(x) => Possessor(x)'
    <3>1. Possessor(c) => Possessor(c)'
      BY Zenon DEF Possessor, Gets, Counting
    <3> QED BY Zenon, <3>1, <1>a DEF Possessor
  <2> QED BY Zenon, <2>1, <1>f DEF FwdTargets
<1>18. OwnerAnswers'
  BY Zenon, <1>f, <1>d DEF OwnerAnswers
<1>19. KnownSharers'
  <2>1. ASSUME c \in Sharers PROVE KnownSharer(c)'
    <3>1. KnownSharer(c)
      BY Zenon, <2>1 DEF KnownSharers
    <3>2. CASE cacheState[c] = "IS_D"
      <4>1. ~Invalidated(c) /\ ~Token(c) /\ cacheState'[c] = "S"
        <5>1. \A e \in Cache : ~Fwd(c, "GETS", e)
          BY Zenon, <3>2 DEF FwdTargets, HasForward, Forward, Possessor, Gets, Counting
        <5> QED BY Zenon, <5>1, <3>1, <3>2 DEF KnownSharer, Token, Gets, Counting
      <4>2. DirToken
        BY Zenon, <4>1, <3>2, <1>2 DEF Readers, Reader
      <4> QED BY Zenon, <4>1, <4>2, <1>5, <1>f DEF KnownSharer
    <3>3. CASE cacheState[c] \in Gets
      <4>1. ~DirToken
        BY Zenon, <3>3, <1>2 DEF Token, OneToken
      <4>2. cacheState'[c] # "MI_A" /\ cacheState[c] # "IS_D"
        BY Zenon, <3>3 DEF Gets, Counting
      <4> QED BY Zenon, <4>1, <4>2, <3>1, <1>5, <1>f DEF KnownSharer
    <3> QED BY Zenon, <3>2, <3>3
  <2> QED BY Zenon, <2>1, <1>5, <1>t, <1>a, <1>f DEF KnownSharers, KnownSharer
<1> QED BY Zenon, <1>8, <1>9, <1>10, <1>11, <1>12, <1>13, <1>14, <1>16, <1>17, <1>18, <1>19, <1>a, <1>f, <1>d, <1>n

\* Counting after the response from s has been taken.
LEMMA CountsAfterData ==
  ASSUME TypeOK, ResponseQueues, AckTargets, AckCounts, CardFacts, NEW c \in Cache, NEW s \in Machine,
         Data(s, c), PopResponse(s, c), UNCHANGED forwardToCache, ForwardQueues,
         \A d \in Cache : d # c => cacheState'[d] = cacheState[d] /\ pendingAcks'[d] = pendingAcks[d],
         s # Dir => Count(c) = 0,
         pendingAcks'[c] = Cardinality(Owing(c)),
         cacheState'[c] \in Counting => pendingAcks'[c] > 0,
         cacheState'[c] \notin Counting => pendingAcks'[c] = 0
  PROVE  AckCounts'
<1>1. responseNet[s][c] # <<>> /\ c \in Machine
  BY Zenon, MachineFacts DEF Data
<1>2. /\ \A x \in Machine, y \in Cache : Data(x, y)' <=> Data(x, y) /\ ~(x = s /\ y = c)
      /\ \A x, y \in Cache : Ack(x, y)' <=> Ack(x, y) /\ ~(x = s /\ y = c)
      /\ \A y \in Cache : Count(y)' = IF s = Dir /\ y = c THEN 0 ELSE Count(y)
  BY <1>1, ResponsePopped
<1>3. ~(s \in Cache /\ Ack(s, c))
  BY Zenon DEF Ack, Data
<1>4. ForwardsSame
  BY Zenon, ForwardsKept
<1>5. \A x \in Cache : Owing(x)' = Owing(x)
  <2>1. \A x, d \in Cache : Owes(d, x)' <=> Owes(d, x)
    BY Zenon, <1>2, <1>3, <1>4 DEF Owes, ForwardsSame
  <2> QED BY Zenon, <2>1 DEF Owing
<1>6. Count(c)' = 0
  BY Zenon, <1>2
<1>7. \A x \in Cache : x # c => (Gathering(x)' <=> Gathering(x))
  BY Zenon, <1>2, MachineFacts DEF Gathering
<1>8. ~Gathering(c)' => cacheState'[c] \notin Counting
  BY Zenon DEF Gathering
<1>9. \A x \in Cache : x # c => Count(x)' = Count(x) /\ (cacheState'[x] \in Counting <=> cacheState[x] \in Counting)
  BY Zenon, <1>2
<1>10. ASSUME NEW x \in Cache
       PROVE  /\ pendingAcks'[x] - Count(x)' = Cardinality(Owing(x)')
              /\ IF cacheState'[x] \in Counting THEN pendingAcks'[x] > 0 ELSE pendingAcks'[x] <= 0
              /\ ~Gathering(x)' => pendingAcks'[x] = 0 /\ Count(x)' = 0
  <2>t. pendingAcks[x] \in Int
    BY Zenon DEF TypeOK
  <2>1. CASE x = c
    <3>1. pendingAcks'[c] \in Nat
      BY Zenon DEF CardFacts, Owing
    <3>2. pendingAcks'[c] - Count(c)' = Cardinality(Owing(c)')
      <4>1. Cardinality(Owing(c)') = pendingAcks'[c]
        BY Zenon, <1>5
      <4> QED BY <3>1, <4>1, <1>6
    <3>3. IF cacheState'[c] \in Counting THEN pendingAcks'[c] > 0 ELSE pendingAcks'[c] <= 0
      BY <3>1
    <3> QED BY Zenon, <2>1, <3>2, <3>3, <1>6, <1>8
  <2>2. CASE x # c
    BY Zenon, <2>2, <1>5, <1>7, <1>9 DEF AckCounts
  <2> QED BY Zenon, <2>1, <2>2
<1> QED BY Zenon, <1>10 DEF AckCounts

\* The numbers that the counting lemmas compare.
LEMMA DataTypes ==
  ASSUME TypeOK, ResponseQueues, AckCounts, CardFacts, NEW c \in Cache, NEW s \in Machine, responseNet[s][c] # <<>>
  PROVE  /\ pendingAcks[c] \in Int /\ Count(c) \in Int /\ Cardinality(Owing(c)) \in Nat
         /\ Cardinality(Owing(c)) = 0 <=> Owing(c) = {}
         /\ s = Dir => Count(c) = Head(responseNet[s][c]).AckCount
<1>1. pendingAcks[c] \in Int
  BY Zenon DEF TypeOK
<1>2. Owing(c) \in SUBSET Cache
  BY Zenon DEF Owing
<1>3. s = Dir => Count(c) = Head(responseNet[s][c]).AckCount
  BY Zenon DEF Count
<1>4. Count(c) \in Int
  <2>1. responseNet[Dir][c] # <<>> => Head(responseNet[Dir][c]) \in ResponseMsg
    BY Zenon, MachineFacts, ResponseKind
  <2> QED BY <2>1 DEF Count, ResponseMsg
<1> QED BY Zenon, <1>1, <1>2, <1>3, <1>4 DEF CardFacts

\* A load's data arrives.
LEMMA LoadHitOK ==
  ASSUME TypeOK, Coherent, CardFacts, NEW c \in Cache, NEW s \in Machine, rx_load_hit(c, s)
  PROVE  Coherent'
<1>t. cacheState \in [Cache -> CacheStates] /\ pendingAcks \in [Cache -> Int]
  BY Zenon DEF TypeOK
<1>u. /\ UNCHANGED <<requestNet, requestToDir, forwardToCache, dirState, Sharers, Owner, memBuffer>>
      /\ responseNet[s][c] # <<>> /\ PopResponse(s, c)
      /\ ResponseEvent(c, Head(responseNet[s][c])) \in {"Data_from_Dir_No_Acks", "Data_from_Owner"}
  BY Zenon DEF rx_load_hit, dirVars, ResponseReady
<1>s. /\ \A d \in Cache : d # c => cacheState'[d] = cacheState[d]
      /\ cacheState[c] = "IS_D" /\ cacheState'[c] = "S"
      /\ \A d \in Cache : pendingAcks'[d] = IF d = c THEN 0 ELSE pendingAcks[d]
  BY Zenon, <1>t DEF rx_load_hit, SetState, w_deallocateTBE
<1> USE DEF Coherent
<1>1. Data(s, c)
  <2>1. Head(responseNet[s][c]).Type # "ACK"
    BY Zenon, <1>u, ResponseKind
  <2> QED BY ZenonT(40), <1>u, <2>1 DEF Data
<1>2. ~Gathering(c)
  BY Zenon, <1>s DEF Gathering, Counting, Gets
<1>3. Owing(c) = {} /\ Count(c) = 0 /\ Cardinality(Owing(c)) = 0
  <2>1. Owing(c) = {} /\ Count(c) = 0
    BY Zenon, <1>2, NoAcks
  <2> QED BY Zenon, <2>1, <1>u, DataTypes
<1>4. AckCounts'
  <2>1. cacheState'[c] \notin Counting
    BY Zenon, <1>s DEF Counting
  <2> QED BY ZenonT(40), <2>1, <1>s, <1>u, <1>1, <1>3, CountsAfterData
<1> QED BY Zenon, <1>1, <1>4, <1>s, <1>u, DataTaken

\* A store's data arrives and nothing is missing.
LEMMA StoreHitOK ==
  ASSUME TypeOK, Coherent, CardFacts, NEW c \in Cache, NEW s \in Machine, NEW v, sx_store_hit_data(c, s, v)
  PROVE  Coherent'
<1>t. cacheState \in [Cache -> CacheStates] /\ pendingAcks \in [Cache -> Int]
  BY Zenon DEF TypeOK
<1>u. /\ UNCHANGED <<requestNet, requestToDir, forwardToCache, dirState, Sharers, Owner, memBuffer>>
      /\ responseNet[s][c] # <<>> /\ PopResponse(s, c)
      /\ ResponseEvent(c, Head(responseNet[s][c])) \in {"Data_from_Dir_No_Acks", "Data_from_Owner", "Data_from_Dir_Ack_Cnt_Last"}
  BY Zenon DEF sx_store_hit_data, dirVars, ResponseReady
<1>s. /\ \A d \in Cache : d # c => cacheState'[d] = cacheState[d]
      /\ cacheState[c] \in Gets /\ cacheState'[c] = "M"
      /\ \A d \in Cache : pendingAcks'[d] = IF d = c THEN 0 ELSE pendingAcks[d]
  BY SMTT(40), <1>t DEF sx_store_hit_data, SetState, w_deallocateTBE, Gets
<1> USE DEF Coherent
<1>k. \/ s = Dir /\ Head(responseNet[s][c]).AckCount = 0
      \/ s = Dir /\ Head(responseNet[s][c]).AckCount = pendingAcks[c]
      \/ s # Dir
  <2>1. \/ s = Dir /\ Head(responseNet[s][c]).AckCount = 0
        \/ s = Dir /\ Head(responseNet[s][c]).AckCount = pendingAcks[c]
        \/ s = Dir /\ ResponseEvent(c, Head(responseNet[s][c])) = "Data_from_Dir_Ack_Cnt"
        \/ s \in Cache
    BY Zenon, <1>u, ResponseKind
  <2>2. ResponseEvent(c, Head(responseNet[s][c])) # "Data_from_Dir_Ack_Cnt"
    BY Zenon, <1>u
  <2> QED BY Zenon, <2>1, <2>2, MachineFacts
<1>1. Data(s, c)
  <2>1. Head(responseNet[s][c]).Type # "ACK"
    BY Zenon, <1>u, ResponseKind
  <2> QED BY Zenon, <1>u, <2>1 DEF Data
<1>2. cacheState[c] \notin Counting
  BY Zenon, <1>s DEF Counting, Gets
<1>3. s # Dir => Owing(c) = {} /\ Count(c) = 0
  <2>1. s # Dir => ~Gathering(c)
    <3>1. CarriedOnce(c)
      BY Zenon DEF Carried
    <3> QED BY Zenon, <3>1, <1>1, <1>2, MachineFacts DEF Gathering, CarriedOnce
  <2> QED BY Zenon, <2>1, NoAcks
<1>4. Owing(c) = {} /\ Cardinality(Owing(c)) = 0
  <2>1. s = Dir => Cardinality(Owing(c)) = 0
    <3>1. pendingAcks[c] - Count(c) = Cardinality(Owing(c)) /\ pendingAcks[c] <= 0
      BY Zenon, <1>2 DEF AckCounts
    <3>2. /\ pendingAcks[c] \in Int /\ Count(c) \in Int /\ Cardinality(Owing(c)) \in Nat
          /\ s = Dir => Count(c) = Head(responseNet[s][c]).AckCount
      BY Zenon, <1>u, DataTypes
    <3> QED BY <3>1, <3>2, <1>k
  <2>2. Cardinality(Owing(c)) = 0 <=> Owing(c) = {}
    BY Zenon, <1>u, DataTypes
  <2> QED BY Zenon, <2>1, <2>2, <1>3
<1>5. AckCounts'
  <2>1. cacheState'[c] \notin Counting
    BY Zenon, <1>s DEF Counting
  <2> QED BY ZenonT(40), <2>1, <1>s, <1>u, <1>1, <1>3, <1>4, CountsAfterData
<1> QED BY Zenon, <1>1, <1>4, <1>5, <1>s, <1>u, DataTaken

\* A store's data arrives before the last acknowledgement.
LEMMA StoreWaitsOK ==
  ASSUME TypeOK, Coherent, CardFacts, NEW c \in Cache, NEW s \in Machine, u_writeDataToCache(c, s)
  PROVE  Coherent'
<1>t. cacheState \in [Cache -> CacheStates] /\ pendingAcks \in [Cache -> Int]
  BY Zenon DEF TypeOK
<1>u. /\ UNCHANGED <<requestNet, requestToDir, forwardToCache, dirState, Sharers, Owner, memBuffer>>
      /\ responseNet[s][c] # <<>> /\ PopResponse(s, c)
      /\ ResponseEvent(c, Head(responseNet[s][c])) = "Data_from_Dir_Ack_Cnt"
  BY Zenon DEF u_writeDataToCache, dirVars, ResponseReady
<1>s. /\ \A d \in Cache : d # c => cacheState'[d] = cacheState[d]
      /\ cacheState[c] \in Gets /\ cacheState'[c] \in Counting
      /\ \A d \in Cache : pendingAcks'[d] = IF d = c THEN pendingAcks[c] - Head(responseNet[s][c]).AckCount ELSE pendingAcks[d]
  BY Zenon, <1>t DEF u_writeDataToCache, SetState, q_updateAckCount, Gets, Counting
<1> USE DEF Coherent
<1>k. s = Dir /\ Head(responseNet[s][c]).AckCount # pendingAcks[c] /\ Head(responseNet[s][c]).Type # "ACK"
  BY Zenon, <1>u, ResponseKind
<1>1. Data(s, c)
  BY Zenon, <1>u, <1>k DEF Data
<1>2. pendingAcks'[c] = Cardinality(Owing(c)) /\ pendingAcks'[c] > 0
  <2>1. pendingAcks[c] - Count(c) = Cardinality(Owing(c))
    BY Zenon DEF AckCounts
  <2>2. /\ pendingAcks[c] \in Int /\ Count(c) \in Int /\ Cardinality(Owing(c)) \in Nat
        /\ Count(c) = Head(responseNet[s][c]).AckCount
    BY SMTT(40), <1>k, <1>u, DataTypes
  <2> QED BY <2>1, <2>2, <1>k, <1>s
<1>3. AckCounts'
  BY Zenon, <1>s, <1>u, <1>k, <1>1, <1>2, CountsAfterData
<1> QED BY Zenon, <1>1, <1>3, <1>s, <1>u, DataTaken

\* Cache c takes the acknowledgement that cache s sent.
LEMMA AckTaken ==
  ASSUME TypeOK, Coherent, NEW c \in Cache, NEW s \in Cache, Ack(s, c), PopResponse(s, c),
         UNCHANGED <<requestNet, requestToDir, forwardToCache, dirState, Sharers, Owner, memBuffer>>,
         \A d \in Cache : d # c => cacheState'[d] = cacheState[d],
         \/ cacheState'[c] = cacheState[c]
         \/ cacheState[c] \in Counting /\ cacheState'[c] = "M" /\ Owing(c) = {s},
         AckCounts'
  PROVE  Coherent'
<1>t. Sharers \subseteq Cache
  BY Zenon DEF TypeOK
<1> USE DEF Coherent
<1>a. RequestsSame
  BY Zenon, RequestsKept
<1>f. ForwardsSame
  BY Zenon, ForwardsKept
<1>n. MemorySame
  BY Zenon, MemoryKept
<1> USE DEF RequestsSame, ForwardsSame, MemorySame
<1>d. /\ ResponseQueues'
      /\ \A x \in Machine, y \in Cache : Data(x, y)' <=> Data(x, y)
      /\ \A x, y \in Cache : Ack(x, y)' <=> Ack(x, y) /\ ~(x = s /\ y = c)
      /\ \A x \in Cache : responseNet'[x][Dir] = responseNet[x][Dir]
      /\ DataToDir' <=> DataToDir
  <2>1. responseNet[s][c] # <<>> /\ c \in Machine /\ s \in Machine
    BY Zenon, MachineFacts DEF Ack
  <2>2. \A x \in Machine, y \in Cache : Data(x, y)' <=> Data(x, y) /\ ~(x = s /\ y = c)
    BY Zenon, <2>1, ResponsePopped
  <2>3. ~Data(s, c)
    BY Zenon DEF Ack, Data
  <2>4. /\ ResponseQueues'
        /\ \A x, y \in Cache : Ack(x, y)' <=> Ack(x, y) /\ ~(x = s /\ y = c)
        /\ \A x \in Cache : responseNet'[x][Dir] = responseNet[x][Dir]
        /\ DataToDir' <=> DataToDir
    BY <2>1, ResponsePopped
  <2> QED BY Zenon, <2>2, <2>3, <2>4
<1>3. \A y \in Cache : Answered(y)' <=> Answered(y)
  BY Zenon, <1>d DEF Answered
<1>o. \A x \in Cache : cacheState'[x] \in Outstanding <=> cacheState[x] \in Outstanding
  BY Zenon DEF Outstanding, Gets, Puts, Counting
<1>p. /\ \A x \in Cache : cacheState'[x] = cacheState[x] \/ cacheState[x] \notin Outstanding
      /\ \A x \in Cache : cacheState'[x] = cacheState[x] \/ (cacheState[x] \notin {"S", "SM_AD", "SI_A", "MI_A"} /\ cacheState'[x] = "M")
  BY Zenon DEF Outstanding, Gets, Puts, Counting
<1>4. \A x \in Cache : Token(x)' <=> Token(x)
  <2>1. Token(c)' <=> Token(c)
    BY Zenon, <1>a, <1>f, <1>3 DEF Token, Gets, Counting
  <2>2. \A x \in Cache : x # c => (Token(x)' <=> Token(x))
    BY Zenon, <1>a, <1>f, <1>3 DEF Token
  <2> QED BY Zenon, <2>1, <2>2
<1>5. DirToken' <=> DirToken
  BY Zenon, <1>d DEF DirToken
<1>6. \A x \in Cache : Gathering(x) => Gathering(x)' \/ (x = c /\ Owing(c) = {s})
  <2>1. Gathering(c) => Gathering(c)' \/ Owing(c) = {s}
    BY Zenon, <1>d, MachineFacts DEF Gathering
  <2>2. \A x \in Cache : x # c => (Gathering(x) => Gathering(x)')
    BY Zenon, <1>d, MachineFacts DEF Gathering
  <2> QED BY Zenon, <2>1, <2>2
<1>8. Carried'
  <2>1. ASSUME NEW x \in Cache PROVE CarriedOnce(x)'
    <3>1. CarriedOnce(x)
      BY Zenon DEF Carried
    <3> QED BY Zenon, <3>1, <1>o, <1>a, <1>d, <1>f, <1>3, <1>n DEF CarriedOnce
  <2> QED BY Zenon, <2>1 DEF Carried
<1>9. AskAgrees'
  <2>1. \A x \in Cache : \A t : Asks(x, t) => Asking(x)
    BY Zenon DEF Asks, Asking
  <2>2. \A x \in Cache : Asking(x) => cacheState'[x] = cacheState[x]
    BY Zenon, <1>p DEF Carried, CarriedOnce
  <2> QED BY Zenon, <2>1, <2>2, <1>a DEF AskAgrees
<1>10. AnswerAgrees'
  <2>1. \A x \in Cache : WbAcked(x) \/ Answered(x) \/ Forwarded(x) => cacheState'[x] = cacheState[x]
    BY Zenon, <1>p DEF Carried, CarriedOnce
  <2>2. \A x, d \in Cache : Fwd(d, "GETS", x) \/ Fwd(d, "GETM", x) => Forwarded(x)
    BY Zenon DEF Forwarded, Forward
  <2> QED BY Zenon, <2>1, <2>2, <1>f, <1>3 DEF AnswerAgrees
<1>11. MemoryAgrees'
  <2>1. \A x \in Cache : InMemory(x) => cacheState'[x] = cacheState[x]
    BY Zenon, <1>p DEF Carried, CarriedOnce
  <2> QED BY Zenon, <2>1, <1>n DEF MemoryAgrees
<1>12. OneToken'
  BY Zenon, <1>4, <1>5 DEF OneToken
<1>13. AckTargets'
  <2>1. \A x, d \in Cache : Owes(d, x)' => Owes(d, x)
    BY Zenon, <1>f, <1>d DEF Owes
  <2>2. ~Owes(s, c)'
    <3>1. ~Fwd(s, "INV", c)
      BY Zenon DEF AckTargets
    <3> QED BY Zenon, <3>1, <1>f, <1>d DEF Owes
  <2>3. Owing(c) = {s} => \A d \in Cache : ~Owes(d, c)'
    BY Zenon, <2>1, <2>2 DEF Owing
  <2>4. \A x, d \in Cache : Owes(d, x)' => Gathering(x)' /\ x # d
    <3>1. \A x, d \in Cache : Owes(d, x)' => Gathering(x) /\ x # d
      BY Zenon, <2>1 DEF AckTargets
    <3> QED BY Zenon, <3>1, <2>3, <1>6
  <2>5. \A x, d \in Cache : ~(Fwd(d, "INV", x)' /\ Ack(d, x)')
    BY ZenonT(40), <1>f, <1>d DEF AckTargets
  <2> QED BY Zenon, <2>4, <2>5 DEF AckTargets
<1>14. Readers'
  <2>1. \A x \in Cache : Reader(x)' => Reader(x)
    BY Zenon, <1>p, <1>3 DEF Reader
  <2> QED BY Zenon, <2>1, <1>4, <1>5, <1>f DEF Readers
<1>16. InvTargets'
  <2>1. \A x \in Cache : Invalidated(x) => cacheState'[x] = cacheState[x]
    BY Zenon, <1>p DEF InvTargets, Outstanding
  <2> QED BY Zenon, <2>1, <1>f, <1>a DEF InvTargets
<1>17. FwdTargets'
  <2>1. \A x \in Cache : Possessor(x) => Possessor(x)'
    BY Zenon, <1>p, <1>a DEF Possessor
  <2> QED BY Zenon, <2>1, <1>f DEF FwdTargets
<1>18. OwnerAnswers'
  BY Zenon, <1>f, <1>d DEF OwnerAnswers
<1>19. KnownSharers'
  <2>1. ASSUME NEW x \in Sharers PROVE KnownSharer(x)'
    <3>1. KnownSharer(x) /\ x \in Cache
      BY Zenon, <1>t DEF KnownSharers
    <3>2. cacheState'[x] = cacheState[x] \/ (cacheState[x] \notin {"S", "SM_AD", "SI_A", "IS_D"} /\ cacheState'[x] = "M")
      BY Zenon, <3>1, <1>p DEF Outstanding
    <3> QED BY Zenon, <3>1, <3>2, <1>5, <1>a, <1>f DEF KnownSharer
  <2> QED BY Zenon, <2>1 DEF KnownSharers
<1> QED BY Zenon, <1>8, <1>9, <1>10, <1>11, <1>12, <1>13, <1>14, <1>16, <1>17, <1>18, <1>19, <1>a, <1>f, <1>d, <1>n

\* One acknowledgement less is owed to c.
LEMMA OneAckLess ==
  ASSUME TypeOK, ResponseQueues, ForwardQueues, AckTargets, AckCounts, CardFacts, NEW c \in Cache, NEW s \in Machine,
         responseNet[s][c] # <<>>, Head(responseNet[s][c]).Type = "ACK", s \in Cache, PopResponse(s, c),
         UNCHANGED forwardToCache
  PROVE  /\ Ack(s, c)
         /\ s \in Owing(c) /\ Owing(c)' = Owing(c) \ {s}
         /\ \A x \in Cache : x # c => Owing(x)' = Owing(x)
         /\ \A x \in Cache : Count(x)' = Count(x) /\ (Data(Dir, x)' <=> Data(Dir, x))
         /\ pendingAcks[c] \in Int /\ Cardinality(Owing(c)) \in Nat
         /\ Cardinality(Owing(c)') = Cardinality(Owing(c)) - 1
         /\ Cardinality(Owing(c)') \in Nat /\ (Cardinality(Owing(c)') = 0 => Owing(c) = {s})
<1>1. Ack(s, c) /\ ~Data(s, c) /\ c \in Machine /\ s # Dir
  BY Zenon, MachineFacts DEF Ack, Data
<1>2. /\ \A x \in Machine, y \in Cache : Data(x, y)' <=> Data(x, y) /\ ~(x = s /\ y = c)
      /\ \A x, y \in Cache : Ack(x, y)' <=> Ack(x, y) /\ ~(x = s /\ y = c)
      /\ \A y \in Cache : Count(y)' = IF s = Dir /\ y = c THEN 0 ELSE Count(y)
  BY Zenon, <1>1, ResponsePopped
<1>3. ForwardsSame
  BY Zenon, ForwardsKept
<1>4. ~Fwd(s, "INV", c)
  BY Zenon, <1>1 DEF AckTargets
<1>5. \A x, d \in Cache : Owes(d, x)' <=> Owes(d, x) /\ ~(x = c /\ d = s)
  BY Zenon, <1>2, <1>3, <1>4 DEF Owes, ForwardsSame
<1>6. s \in Owing(c) /\ Owing(c)' = Owing(c) \ {s} /\ \A x \in Cache : x # c => Owing(x)' = Owing(x)
  <2>1. Owes(s, c)
    BY Zenon, <1>1 DEF Owes
  <2> QED BY Zenon, <1>5, <2>1 DEF Owing
<1>7. \A x \in Cache : Count(x)' = Count(x) /\ (Data(Dir, x)' <=> Data(Dir, x))
  BY Zenon, <1>1, <1>2, MachineFacts
<1>8. Owing(c) \in SUBSET Cache /\ Owing(c) \ {s} \in SUBSET Cache
  BY Zenon DEF Owing
<1>9. /\ Cardinality(Owing(c)) \in Nat /\ Cardinality(Owing(c) \ {s}) \in Nat
      /\ Cardinality(Owing(c) \ {s}) = Cardinality(Owing(c)) - 1
      /\ Cardinality(Owing(c) \ {s}) = 0 <=> Owing(c) \ {s} = {}
  BY Zenon, <1>6, <1>8 DEF CardFacts
<1>10. Owing(c) \ {s} = {} => Owing(c) = {s}
  BY Zenon, <1>6
<1>11. pendingAcks[c] \in Int
  BY Zenon DEF TypeOK
<1> QED BY Zenon, <1>1, <1>6, <1>7, <1>9, <1>10, <1>11

\* An acknowledgement that is not the last.
LEMMA InvAckOK ==
  ASSUME TypeOK, Coherent, CardFacts, NEW c \in Cache, NEW s \in Machine, InvAck(c, s)
  PROVE  Coherent'
<1>t. cacheState \in [Cache -> CacheStates] /\ pendingAcks \in [Cache -> Int]
  BY Zenon DEF TypeOK
<1>u. /\ UNCHANGED <<cacheState, requestNet, requestToDir, forwardToCache, dirState, Sharers, Owner, memBuffer>>
      /\ responseNet[s][c] # <<>> /\ PopResponse(s, c)
      /\ ResponseEvent(c, Head(responseNet[s][c])) = "Inv_Ack"
  BY Zenon DEF InvAck, dirVars, ResponseReady
<1>s. \A d \in Cache : pendingAcks'[d] = IF d = c THEN pendingAcks[c] - Head(responseNet[s][c]).AckCount ELSE pendingAcks[d]
  BY Zenon, <1>t DEF InvAck, q_updateAckCount
<1> USE DEF Coherent
<1>k. s \in Cache /\ Head(responseNet[s][c]).Type = "ACK" /\ Head(responseNet[s][c]).AckCount = 1 /\ pendingAcks[c] # 1
  BY Zenon, <1>u, ResponseKind
<1>1. /\ Ack(s, c)
      /\ \A x \in Cache : x # c => Owing(x)' = Owing(x)
      /\ \A x \in Cache : Count(x)' = Count(x) /\ (Data(Dir, x)' <=> Data(Dir, x))
      /\ Cardinality(Owing(c)') = Cardinality(Owing(c)) - 1
      /\ s \in Owing(c) /\ pendingAcks[c] \in Int /\ Cardinality(Owing(c)) \in Nat
  BY Zenon, <1>u, <1>k, OneAckLess
<1>2. AckCounts'
  <2>1. \A x \in Cache : Gathering(x)' <=> Gathering(x)
    BY Zenon, <1>1, <1>u DEF Gathering
  <2>2. Gathering(c)
    <3>1. Owes(s, c)
      BY Zenon, <1>1 DEF Owes
    <3> QED BY Zenon, <3>1, <1>k DEF AckTargets
  <2>3. \A x \in Cache : Count(x)' = Count(x) /\ (cacheState'[x] \in Counting <=> cacheState[x] \in Counting)
    BY Zenon, <1>1, <1>u
  <2>4. ASSUME NEW x \in Cache
        PROVE  /\ pendingAcks'[x] - Count(x)' = Cardinality(Owing(x)')
               /\ IF cacheState'[x] \in Counting THEN pendingAcks'[x] > 0 ELSE pendingAcks'[x] <= 0
               /\ ~Gathering(x)' => pendingAcks'[x] = 0 /\ Count(x)' = 0
    <3>1. CASE x = c
      <4>1. pendingAcks'[c] = pendingAcks[c] - 1 /\ Count(c)' = Count(c)
        BY Zenon, <1>s, <1>k, <1>1
      <4>2. /\ pendingAcks[c] - Count(c) = Cardinality(Owing(c))
            /\ IF cacheState[c] \in Counting THEN pendingAcks[c] > 0 ELSE pendingAcks[c] <= 0
        BY Zenon DEF AckCounts
      <4>3. Count(c) \in Int
        <5>1. responseNet[Dir][c] # <<>> => Head(responseNet[Dir][c]) \in ResponseMsg
          BY Zenon, MachineFacts, ResponseKind
        <5> QED BY <5>1 DEF Count, ResponseMsg
      <4>4. pendingAcks'[c] - Count(c)' = Cardinality(Owing(c)')
        <5> HIDE DEF Coherent
        <5> QED BY SMTT(40), <4>1, <4>2, <4>3, <1>1
      <4>5. IF cacheState'[c] \in Counting THEN pendingAcks'[c] > 0 ELSE pendingAcks'[c] <= 0
        <5> HIDE DEF Coherent
        <5> QED BY SMTT(40), <4>1, <4>2, <1>1, <1>k, <2>3
      <4> QED BY Zenon, <3>1, <4>4, <4>5, <2>1, <2>2
    <3>2. CASE x # c
      <4>1. pendingAcks'[x] = pendingAcks[x] /\ Owing(x)' = Owing(x)
        BY Zenon, <3>2, <1>s, <1>1
      <4> QED BY Zenon, <4>1, <2>1, <2>3 DEF AckCounts
    <3> QED BY Zenon, <3>1, <3>2
  <2> QED BY Zenon, <2>4 DEF AckCounts
<1> QED BY Zenon, <1>1, <1>2, <1>u, <1>k, AckTaken

\* The last acknowledgement.
LEMMA LastAckOK ==
  ASSUME TypeOK, Coherent, CardFacts, NEW c \in Cache, NEW s \in Machine, NEW v, sx_store_hit_acks(c, s, v)
  PROVE  Coherent'
<1>t. cacheState \in [Cache -> CacheStates] /\ pendingAcks \in [Cache -> Int]
  BY Zenon DEF TypeOK
<1>u. /\ UNCHANGED <<requestNet, requestToDir, forwardToCache, dirState, Sharers, Owner, memBuffer>>
      /\ responseNet[s][c] # <<>> /\ PopResponse(s, c)
      /\ ResponseEvent(c, Head(responseNet[s][c])) = "Inv_Ack_all"
  BY Zenon DEF sx_store_hit_acks, dirVars, ResponseReady
<1>s. /\ \A d \in Cache : d # c => cacheState'[d] = cacheState[d]
      /\ cacheState[c] \in Counting /\ cacheState'[c] = "M"
      /\ \A d \in Cache : pendingAcks'[d] = IF d = c THEN 0 ELSE pendingAcks[d]
  BY SMTT(40), <1>t DEF sx_store_hit_acks, SetState, w_deallocateTBE, Counting
<1> USE DEF Coherent
<1>k. s \in Cache /\ Head(responseNet[s][c]).Type = "ACK" /\ pendingAcks[c] = 1
  BY Zenon, <1>u, ResponseKind
<1>1. /\ Ack(s, c)
      /\ \A x \in Cache : x # c => Owing(x)' = Owing(x)
      /\ \A x \in Cache : Count(x)' = Count(x) /\ (Data(Dir, x)' <=> Data(Dir, x))
      /\ Cardinality(Owing(c)') = Cardinality(Owing(c)) - 1
      /\ s \in Owing(c) /\ pendingAcks[c] \in Int /\ Cardinality(Owing(c)) \in Nat
      /\ Cardinality(Owing(c)') = 0 => Owing(c) = {s}
  BY Zenon, <1>u, <1>k, OneAckLess
<1>2. Count(c) = 0
  <2>1. ~Data(Dir, c)
    <3>1. ~Answered(c)
      BY Zenon, <1>s DEF AnswerAgrees, Gets, Counting
    <3> QED BY Zenon, <3>1, MachineFacts DEF Answered
  <2> QED BY Zenon, <2>1, DirChannel
<1>3. Cardinality(Owing(c)') = 0 /\ Owing(c) = {s}
  <2>1. pendingAcks[c] - Count(c) = Cardinality(Owing(c))
    BY Zenon DEF AckCounts
  <2>2. Cardinality(Owing(c)') = 0
    BY <2>1, <1>1, <1>2, <1>k
  <2> QED BY Zenon, <2>2, <1>1
<1>4. AckCounts'
  <2>1. \A x \in Cache : x # c => (Gathering(x)' <=> Gathering(x))
    BY Zenon, <1>1, <1>s DEF Gathering
  <2>2. \A x \in Cache : x # c => Count(x)' = Count(x) /\ (cacheState'[x] \in Counting <=> cacheState[x] \in Counting)
    BY Zenon, <1>1, <1>s
  <2>4. ASSUME NEW x \in Cache
        PROVE  /\ pendingAcks'[x] - Count(x)' = Cardinality(Owing(x)')
               /\ IF cacheState'[x] \in Counting THEN pendingAcks'[x] > 0 ELSE pendingAcks'[x] <= 0
               /\ ~Gathering(x)' => pendingAcks'[x] = 0 /\ Count(x)' = 0
    <3>1. CASE x = c
      <4>1. pendingAcks'[c] = 0 /\ Count(c)' = 0 /\ cacheState'[c] \notin Counting
        BY Zenon, <1>s, <1>1, <1>2 DEF Counting
      <4> QED BY <3>1, <4>1, <1>3
    <3>2. CASE x # c
      <4>1. pendingAcks'[x] = pendingAcks[x] /\ Owing(x)' = Owing(x)
        BY Zenon, <3>2, <1>s, <1>1
      <4> QED BY Zenon, <4>1, <3>2, <2>1, <2>2 DEF AckCounts
    <3> QED BY Zenon, <3>1, <3>2
  <2> QED BY Zenon, <2>4 DEF AckCounts
<1> QED BY Zenon, <1>1, <1>3, <1>4, <1>s, <1>u, <1>k, AckTaken

-----------------------------------------------------------------------------
(***************************************************************************)
(* Fresh: operations on queues, and the steps of a cache.                  *)
(***************************************************************************)
\* The directory keeps its copy of an uncached line, and no SC can fail.
DataAssumption == ~UseMap /\ "SC" \notin ReqType

\* A queue's messages after one more.
LEMMA Joined ==
  ASSUME NEW S, NEW q \in Seq(S), NEW m \in S
  PROVE  \A x : x \in Contents(Append(q, m)) => x \in Contents(q) \/ x = m
<1>1. Contents(Append(q, m)) = Contents(q) \cup {m}
  BY ContentsAppend
<1> QED BY Zenon, <1>1

\* A response with the right data, or without data, joins a channel.
LEMMA FreshSent ==
  ASSUME TypeOK, FreshResponses, physMem' = physMem, NEW s \in Machine, NEW d \in Machine,
         NEW m \in ResponseMsg, m.Type = "ACK" \/ m.DataBlk = physMem, SendResponse(s, d, m)
  PROVE  FreshResponses'
<1>1. responseNet \in [Machine -> [Machine -> Seq(ResponseMsg)]]
  BY Zenon DEF TypeOK
<1>2. \A x, y \in Machine : responseNet'[x][y] =
        IF x = s /\ y = d THEN Append(responseNet[s][d], m) ELSE responseNet[x][y]
  BY Zenon, <1>1 DEF SendResponse
<1>3. \A k : k \in Contents(Append(responseNet[s][d], m)) => k \in Contents(responseNet[s][d]) \/ k = m
  <2>1. responseNet[s][d] \in Seq(ResponseMsg)
    BY Zenon, <1>1
  <2> QED BY ZenonT(40), <2>1, Joined
<1>4. \A x, y \in Machine : \A n \in Contents(responseNet'[x][y]) : n \in Contents(responseNet[x][y]) \/ n = m
  BY Zenon, <1>2, <1>3
<1> QED BY Zenon, <1>4 DEF FreshResponses

\* An owner sends the right data to a cache and to the directory.
LEMMA FreshBoth ==
  ASSUME TypeOK, FreshResponses, physMem' = physMem, NEW s \in Cache, NEW v, v = physMem,
         SendDataToBoth(s, v)
  PROVE  FreshResponses'
<1> DEFINE m == Response("DATA_FROM_OWNER", v, 0)
           n == Response("DATA", v, 0)
<1>1. responseNet \in [Machine -> [Machine -> Seq(ResponseMsg)]] /\ physMem \in Value
  BY Zenon DEF TypeOK
<1>2. m \in ResponseMsg /\ n \in ResponseMsg /\ m.DataBlk = physMem /\ n.DataBlk = physMem
  BY <1>1 DEF Response, ResponseMsg
<1>3. \A x, y \in Machine : \/ responseNet'[x][y] = responseNet[x][y]
                            \/ responseNet'[x][y] = Append(responseNet[x][y], m)
                            \/ responseNet'[x][y] = Append(responseNet[x][y], n)
  <2>1. \A y \in Machine : \/ responseNet'[s][y] = responseNet[s][y]
                           \/ responseNet'[s][y] = Append(responseNet[s][y], m)
                           \/ responseNet'[s][y] = Append(responseNet[s][y], n)
    BY Zenon, <1>1, MachineFacts DEF SendDataToBoth
  <2>2. \A x \in Machine : x # s => responseNet'[x] = responseNet[x]
    BY Zenon, <1>1 DEF SendDataToBoth
  <2> QED BY Zenon, <2>1, <2>2
<1> HIDE DEF m, n
<1>4. ASSUME NEW x \in Machine, NEW y \in Machine, NEW k \in Contents(responseNet'[x][y])
      PROVE  k \in Contents(responseNet[x][y]) \/ k = m \/ k = n
  <2>1. responseNet[x][y] \in Seq(ResponseMsg)
    BY Zenon, <1>1
  <2>2. /\ \A j : j \in Contents(Append(responseNet[x][y], m)) => j \in Contents(responseNet[x][y]) \/ j = m
        /\ \A j : j \in Contents(Append(responseNet[x][y], n)) => j \in Contents(responseNet[x][y]) \/ j = n
    BY ZenonT(40), <2>1, <1>2, Joined
  <2>3. CASE responseNet'[x][y] = responseNet[x][y]
    BY Zenon, <2>3, <1>4
  <2>4. CASE responseNet'[x][y] = Append(responseNet[x][y], m)
    BY Zenon, <2>2, <2>4, <1>4
  <2>5. CASE responseNet'[x][y] = Append(responseNet[x][y], n)
    BY ZenonT(40), <2>2, <2>5, <1>4
  <2> QED BY Zenon, <2>3, <2>4, <2>5, <1>3
<1> QED BY Zenon, <1>2, <1>4 DEF FreshResponses

\* A response leaves its channel.
LEMMA FreshPopped ==
  ASSUME TypeOK, FreshResponses, physMem' = physMem, NEW s \in Machine, NEW d \in Machine,
         responseNet[s][d] # <<>>, PopResponse(s, d)
  PROVE  FreshResponses' /\ (Head(responseNet[s][d]).Type # "ACK" => Head(responseNet[s][d]).DataBlk = physMem)
<1>1. responseNet \in [Machine -> [Machine -> Seq(ResponseMsg)]]
  BY Zenon DEF TypeOK
<1>2. \A x, y \in Machine : responseNet'[x][y] =
        IF x = s /\ y = d THEN Tail(responseNet[s][d]) ELSE responseNet[x][y]
  BY Zenon, <1>1 DEF PopResponse
<1>3. /\ Contents(responseNet[s][d]) = Contents(Tail(responseNet[s][d])) \cup {Head(responseNet[s][d])}
      /\ Head(responseNet[s][d]) \in Contents(responseNet[s][d])
  <2>1. responseNet[s][d] \in Seq(ResponseMsg)
    BY Zenon, <1>1
  <2> QED BY Zenon, <2>1, ContentsTail
<1>4. \A x, y \in Machine : \A n \in Contents(responseNet'[x][y]) : n \in Contents(responseNet[x][y])
  BY Zenon, <1>2, <1>3
<1> QED BY ZenonT(40), <1>3, <1>4 DEF FreshResponses

\* The memory gets a message with the right data, or finishes one.
LEMMA FreshQueued ==
  ASSUME TypeOK, FreshMemory, physMem' = physMem, NEW type \in {"MEMORY_READ", "MEMORY_WB"},
         NEW r \in Cache, QueueMemory(type, r, physMem)
  PROVE  \A m \in Contents(memBuffer') : m.DataBlk = physMem'
<1> DEFINE n == [Type |-> type, OriginalRequestor |-> r, DataBlk |-> physMem]
<1>1. memBuffer \in Seq(MemoryMsg) /\ n \in MemoryMsg /\ n.DataBlk = physMem
  BY Zenon DEF TypeOK, MemoryMsg
<1>2. memBuffer' = Append(memBuffer, n)
  BY Zenon DEF QueueMemory
<1> HIDE DEF n
<1>3. \A k : k \in Contents(memBuffer') => k \in Contents(memBuffer) \/ k = n
  <2>1. \A k : k \in Contents(Append(memBuffer, n)) => k \in Contents(memBuffer) \/ k = n
    BY ZenonT(40), <1>1, Joined
  <2> QED BY Zenon, <1>2, <2>1
<1> QED BY Zenon, <1>1, <1>3 DEF FreshMemory

\* The memory's reply is what memory holds.
LEMMA FreshDone ==
  ASSUME TypeOK, FreshMemory, physMem' = physMem, memBuffer # <<>>, qm_popMemQueue
  PROVE  /\ \A m \in Contents(memBuffer') : m.DataBlk = physMem'
         /\ Head(memBuffer).DataBlk = physMem
<1>1. memBuffer \in Seq(MemoryMsg) /\ memBuffer' = Tail(memBuffer)
  BY Zenon DEF TypeOK, qm_popMemQueue
<1>2. /\ Contents(memBuffer) = Contents(Tail(memBuffer)) \cup {Head(memBuffer)}
      /\ Head(memBuffer) \in Contents(memBuffer)
  BY Zenon, <1>1, ContentsTail
<1> QED BY Zenon, <1>1, <1>2 DEF FreshMemory

\* A cache's forward is taken from its queue.
LEMMA ForwardTaken ==
  ASSUME TypeOK, NEW c \in Cache, forwardToCache[c] # <<>>, o_popForwardedRequestQueue(c)
  PROVE  \A d \in Cache : HasForward(d)' => HasForward(d)
<1>1. forwardToCache \in [Cache -> Seq(ForwardMsg)]
  BY Zenon DEF TypeOK
<1>2. \A d \in Cache : forwardToCache'[d] = IF d = c THEN Tail(forwardToCache[c]) ELSE forwardToCache[d]
  BY Zenon, <1>1 DEF o_popForwardedRequestQueue
<1>3. Contents(forwardToCache[c]) = Contents(Tail(forwardToCache[c])) \cup {Head(forwardToCache[c])}
  BY Zenon, <1>1, ContentsTail
<1>4. \A d \in Cache : \A x \in Contents(forwardToCache'[d]) : x \in Contents(forwardToCache[d])
  BY Zenon, <1>2, <1>3
<1> QED BY Zenon, <1>4 DEF HasForward, Forward, Fwd, Forwards

\* A WB_ACK or an invalidation is sent.
LEMMA ForwardOther ==
  ASSUME TypeOK, NEW dests, NEW type \in {"INV", "WB_ACK"}, NEW r \in Machine, SendForward(dests, type, r)
  PROVE  \A d \in Cache : HasForward(d)' => HasForward(d)
<1> DEFINE n == [Type |-> type, Requestor |-> r]
<1>1. forwardToCache \in [Cache -> Seq(ForwardMsg)] /\ n \in ForwardMsg
  BY Zenon DEF TypeOK, ForwardMsg
<1>2. \A d \in Cache : forwardToCache'[d] = forwardToCache[d] \/ forwardToCache'[d] = Append(forwardToCache[d], n)
  BY Zenon DEF SendForward
<1>3. \A x, t : [Type |-> t, Requestor |-> x] = n => t \notin {"GETS", "GETM"}
  BY Zenon
<1> HIDE DEF n
<1>4. ASSUME NEW d \in Cache
      PROVE  \A k : k \in Contents(Append(forwardToCache[d], n)) => k \in Contents(forwardToCache[d]) \/ k = n
  <2>1. forwardToCache[d] \in Seq(ForwardMsg)
    BY Zenon, <1>1
  <2> QED BY ZenonT(40), <1>1, <2>1, Joined
<1>5. \A d \in Cache : \A x \in Contents(forwardToCache'[d]) : x \in Contents(forwardToCache[d]) \/ x = n
  BY ZenonT(40), <1>2, <1>4
<1>6. \A d, x \in Cache : (Fwd(d, "GETS", x)' => Fwd(d, "GETS", x)) /\ (Fwd(d, "GETM", x)' => Fwd(d, "GETM", x))
  BY Zenon, <1>3, <1>5 DEF Fwd, Forwards
<1> QED BY Zenon, <1>6 DEF HasForward, Forward

\* The writebacks after a step that sends none.
LEMMA FreshPutsKept ==
  ASSUME FreshPuts, physMem' = physMem,
         \A c \in Cache : cacheState'[c] = "MI_A" =>
           /\ cacheState[c] = "MI_A" /\ tbeData'[c] = tbeData[c]
           /\ Asking(c)' \/ HasForward(c)' => Asking(c) \/ HasForward(c)
           /\ Requests(c)' \subseteq Requests(c)
  PROVE  FreshPuts'
BY Zenon DEF FreshPuts

\* A step that changes none of this.
LEMMA FreshKept ==
  ASSUME Fresh, UNCHANGED <<cacheState, DataBlk, tbeData, forwardToCache, responseNet, dirState, dirData, memBuffer, physMem>>,
         \A d \in Cache : Requests(d)' = Requests(d)
  PROVE  Fresh'
<1>1. \A d \in Cache : (HasForward(d)' => HasForward(d)) /\ (Asking(d)' => Asking(d))
  BY Zenon DEF HasForward, Forward, Fwd, Forwards, Asking
<1>2. FreshPuts'
  BY Zenon, <1>1, FreshPutsKept DEF Fresh
<1> QED BY Zenon, <1>2 DEF Fresh, FreshCopies, FreshResponses, FreshMemory

\* The only reader is the writer.
LEMMA WriterFresh ==
  ASSUME TypeOK', Coherent', NEW c \in Cache, cacheState'[c] = "M", DataBlk'[c] = physMem'
  PROVE  Fresh'
<1> USE DEF Coherent
<1>1. ~DirToken' /\ \A d \in Cache : d # c => ~Token(d)'
  <2>1. Token(c)'
    BY Zenon DEF Token
  <2> QED BY Zenon, <2>1 DEF OneToken
<1>2. \A d \in Cache : d # c => ~Reader(d)'
  <2>1. SUFFICES ASSUME NEW d \in Cache, d # c, Reader(d)' PROVE FALSE
    BY Zenon
  <2>2. PICK r \in Cache : Fwd(d, "INV", r)'
    BY Zenon, <2>1, <1>1 DEF Readers, Invalidated
  <2>3. Gathering(r)'
    BY Zenon, <2>2 DEF AckTargets, Owes
  <2>4. Token(r)'
    BY Zenon, <2>3, MachineFacts DEF Gathering, Token, Answered
  <2>5. r = c
    BY Zenon, <1>1, <2>4
  <2> QED BY Zenon, <2>3, <2>5 DEF Gathering, Counting, Gets
<1>3. \A d \in Cache : ~Answered(d)'
  <2>1. SUFFICES ASSUME NEW d \in Cache, Answered(d)' PROVE FALSE
    BY Zenon
  <2>2. cacheState'[d] \in Gets \cup {"IS_D"}
    BY Zenon, <2>1 DEF AnswerAgrees
  <2>3. d # c
    BY Zenon, <2>2 DEF Gets
  <2> QED BY Zenon, <2>1, <2>2, <2>3, <1>1, <1>2 DEF Token, Reader
<1>4. FreshCopies'
  <2>1. ASSUME NEW d \in Cache, d # c PROVE cacheState'[d] \notin {"S", "SM_AD", "IM_A", "SM_A", "M"}
    BY Zenon, <2>1, <1>1, <1>2 DEF Token, Reader, Counting
  <2> QED BY Zenon, <2>1 DEF FreshCopies
<1>5. FreshResponses'
  <2>1. SUFFICES ASSUME NEW s \in Machine, NEW d \in Machine, NEW m \in Contents(responseNet'[s][d]), m.Type # "ACK"
                 PROVE  FALSE
    BY Zenon DEF FreshResponses
  <2>2. responseNet'[s][d] \in Seq(ResponseMsg)
    <3>1. responseNet' \in [Machine -> [Machine -> Seq(ResponseMsg)]]
      BY ZenonT(40) DEF TypeOK
    <3> QED BY Zenon, <3>1
  <2>3. responseNet'[s][d] # <<>>
    BY Zenon, <2>1, <2>2, ContentsEmpty
  <2>4. Len(responseNet'[s][d]) = 1 /\ GoodResponse(s, d, Head(responseNet'[s][d]))
    BY Zenon, <2>3 DEF ResponseQueues
  <2>5. m = Head(responseNet'[s][d])
    BY <2>2, <2>4 DEF Contents
  <2>6. d \notin Cache
    BY Zenon, <2>1, <2>3, <2>5, <1>3 DEF Answered, Data
  <2>7. d = Dir /\ s \in Cache
    BY Zenon, <2>1, <2>4, <2>6, MachineFacts DEF GoodResponse, Machine
  <2>8. DataToDir'
    BY Zenon, <2>3, <2>7 DEF DataToDir
  <2> QED BY Zenon, <2>8, <1>1 DEF OwnerAnswers, DirToken
<1>6. FreshPuts'
  <2>1. \A d \in Cache : cacheState'[d] = "MI_A" => d # c
    BY Zenon
  <2> QED BY Zenon, <2>1, <1>1 DEF FreshPuts, Token
<1>7. FreshMemory'
  <2>1. dirState' \in {"M", "MS_OD"}
    BY Zenon, <1>1 DEF DirToken
  <2>2. memBuffer' = <<>>
    BY Zenon, <2>1 DEF Memory
  <2>3. Contents(<<>>) = {}
    BY DEF Contents
  <2> QED BY Zenon, <2>1, <2>2, <2>3 DEF FreshMemory
<1> QED BY Zenon, <1>4, <1>5, <1>6, <1>7 DEF Fresh

\* writeCallback leaves the new contents in the cache and in memory.
LEMMA WriteFresh ==
  ASSUME TypeOK, DataAssumption, NEW c \in Cache, NEW v, writeCallback(c, physMem, v)
  PROVE  DataBlk'[c] = physMem'
<1>1. requestTable[c] # "SC" /\ DataBlk \in [Cache -> Value]
  <2>1. requestTable[c] \in ReqType \cup {NoRequest}
    BY Zenon DEF TypeOK
  <2> QED BY Zenon, <2>1 DEF TypeOK, DataAssumption, NoRequest
<1>2. DataBlk'[c] = (IF requestTable[c] = "LL" THEN physMem ELSE v)
  BY Zenon, <1>1 DEF writeCallback
<1>3. physMem' = (IF requestTable[c] # "LL" THEN v ELSE physMem)
  BY Zenon, <1>1 DEF writeCallback, Success
<1> QED BY Zenon, <1>2, <1>3

\* The CPU, a load hit and a request on its way.
LEMMA IdleFresh ==
  ASSUME TypeOK, Coherent, Fresh, NEW c \in Cache,
         (\E t \in ReqType : makeRequest(c, t)) \/ Commit(c) \/ r_load_hit(c) \/ RequestArrives(c)
  PROVE  Fresh'
<1>1. UNCHANGED <<cacheState, DataBlk, tbeData, forwardToCache, responseNet, dirState, dirData, memBuffer, physMem>>
  BY Zenon DEF makeRequest, Commit, r_load_hit, RequestArrives, readCallback, cacheVars, netVars, dirVars
<1>2. \A d \in Cache : Requests(d)' = Requests(d)
  <2>1. CASE RequestArrives(c)
    BY Zenon, <2>1, RequestArrived DEF Coherent
  <2>2. CASE ~RequestArrives(c)
    <3>1. UNCHANGED <<requestNet, requestToDir>>
      BY Zenon, <2>2 DEF makeRequest, Commit, r_load_hit, netVars
    <3> QED BY Zenon, <3>1, RequestsKept DEF Coherent
  <2> QED BY Zenon, <2>1, <2>2
<1> QED BY Zenon, <1>1, <1>2, FreshKept

\* A cache asks: the data a writeback carries is the owner's.
LEMMA IssueFresh ==
  ASSUME TypeOK, Coherent, Fresh, NEW c \in Cache,
         as_issueGetS(c) \/ am_issueGetM(c) \/ Replacement(c)
  PROVE  Fresh'
<1>1. PICK type \in {"GETS", "GETM", "PUTS", "PUTM"}, data \in Value,
           next \in {"IS_D", "IM_AD", "SM_AD", "SI_A", "MI_A"} :
        /\ SendRequest(c, type, data) /\ SetState(c, next)
        /\ cacheState[c] \in {"I", "S", "M"}
        /\ next = "SM_AD" => cacheState[c] = "S"
        /\ next = "MI_A" => cacheState[c] = "M" /\ data = DataBlk[c] /\ x_copyDataFromCacheToTBE(c)
  <2>1. DataBlk \in [Cache -> Value] /\ InitValue \in Value
    BY Zenon, MSIAssumption DEF TypeOK
  <2>2. CASE as_issueGetS(c)
    BY SMTT(40), <2>1, <2>2 DEF as_issueGetS
  <2>3. CASE am_issueGetM(c)
    BY SMTT(40), <2>1, <2>3 DEF am_issueGetM
  <2>4. CASE Replacement(c)
    BY <2>1, <2>4 DEF Replacement
  <2> QED BY Zenon, <2>2, <2>3, <2>4
<1>2. UNCHANGED <<DataBlk, requestToDir, forwardToCache, responseNet, dirState, dirData, memBuffer, physMem>>
  BY Zenon DEF as_issueGetS, am_issueGetM, Replacement, dirVars
<1>3. \A d \in Cache : d # c => cacheState'[d] = cacheState[d] /\ tbeData'[d] = tbeData[d]
  <2>1. cacheState \in [Cache -> CacheStates] /\ tbeData \in [Cache -> Value]
    BY Zenon DEF TypeOK
  <2> QED BY Zenon, <1>1, <2>1 DEF SetState, x_copyDataFromCacheToTBE, as_issueGetS, am_issueGetM, Replacement
<1>4. cacheState'[c] = next /\ (next = "MI_A" => tbeData'[c] = DataBlk[c])
  BY Zenon, <1>1 DEF SetState, x_copyDataFromCacheToTBE, TypeOK
<1>5. ~Asking(c)
  <2>1. cacheState[c] \notin Outstanding
    BY Zenon, <1>1 DEF Outstanding, Gets, Puts
  <2> QED BY Zenon, <2>1 DEF Coherent, Carried, CarriedOnce
<1>6. \A d \in Cache : /\ Requests(d)' = IF d = c THEN {[Type |-> type, Requestor |-> c, DataBlk |-> data]} ELSE Requests(d)
                       /\ Asking(d)' <=> Asking(d) \/ d = c
  BY ZenonT(40), <1>1, <1>2, <1>5, RequestSent DEF Coherent
<1>7. \A d \in Cache : HasForward(d)' => HasForward(d)
  BY Zenon, <1>2 DEF HasForward, Forward, Fwd, Forwards
<1>8. FreshCopies'
  <2>1. ASSUME NEW d \in Cache, cacheState'[d] \in {"S", "SM_AD", "IM_A", "SM_A", "M"}
        PROVE  cacheState[d] \in {"S", "SM_AD", "IM_A", "SM_A", "M"}
    BY Zenon, <2>1, <1>1, <1>3, <1>4
  <2> QED BY Zenon, <2>1, <1>2 DEF Fresh, FreshCopies
<1>9. FreshPuts'
  <2>1. ASSUME NEW d \in Cache, d # c, cacheState'[d] = "MI_A" /\ (Asking(d)' \/ HasForward(d)')
        PROVE  tbeData'[d] = physMem' /\ \A m \in Requests(d)' : m.DataBlk = physMem'
    BY Zenon, <2>1, <1>2, <1>3, <1>6, <1>7 DEF Fresh, FreshPuts
  <2>2. ASSUME cacheState'[c] = "MI_A"
        PROVE  tbeData'[c] = physMem' /\ \A m \in Requests(c)' : m.DataBlk = physMem'
    <3>1. cacheState[c] = "M" /\ data = DataBlk[c] /\ tbeData'[c] = DataBlk[c]
      BY Zenon, <1>1, <1>4, <2>2
    <3>2. DataBlk[c] = physMem
      BY Zenon, <3>1 DEF Fresh, FreshCopies
    <3>3. [Type |-> type, Requestor |-> c, DataBlk |-> data].DataBlk = data
      BY Zenon
    <3> QED BY Zenon, <1>2, <1>6, <3>1, <3>2, <3>3
  <2> QED BY Zenon, <2>1, <2>2 DEF FreshPuts
<1> QED BY Zenon, <1>2, <1>8, <1>9 DEF Fresh, FreshResponses, FreshMemory

\* What a cache that handles a forward, or a response, does to the rest.
LEMMA CacheFresh ==
  ASSUME TypeOK, Fresh, NEW c \in Cache, FreshResponses',
         UNCHANGED <<requestNet, requestToDir, dirState, dirData, memBuffer, physMem>>,
         \A d \in Cache : d # c => cacheState'[d] = cacheState[d] /\ DataBlk'[d] = DataBlk[d] /\ tbeData'[d] = tbeData[d],
         cacheState'[c] # "MI_A",
         cacheState'[c] \in {"S", "SM_AD", "IM_A", "SM_A", "M"} => DataBlk'[c] = physMem,
         \A d \in Cache : HasForward(d)' => HasForward(d)
  PROVE  Fresh'
<1>1. \A d \in Cache : Requests(d)' = Requests(d) /\ (Asking(d)' => Asking(d))
  BY Zenon DEF Requests, Asking
<1>2. FreshCopies'
  BY Zenon DEF Fresh, FreshCopies
<1>3. FreshPuts'
  BY ZenonT(40), <1>1 DEF Fresh, FreshPuts
<1> QED BY Zenon, <1>2, <1>3 DEF Fresh, FreshMemory

\* A cache answers a forward: the data it sends, if any, is the owner's.
LEMMA ForwardFresh ==
  ASSUME TypeOK, Coherent, Fresh, NEW c \in Cache, ForwardPort(c)
  PROVE  Fresh'
<1> DEFINE m == Head(forwardToCache[c])
<1>1. UNCHANGED <<requestNet, requestToDir, dirState, dirData, memBuffer, physMem>> /\ o_popForwardedRequestQueue(c)
  BY Zenon DEF ForwardPort, AckInv, InvalidateS, FwdGetS, FwdGetM, WBAck, dirVars
<1>t. cacheState \in [Cache -> CacheStates] /\ tbeData \in [Cache -> Value] /\ DataBlk \in [Cache -> Value] /\ physMem \in Value /\ InitValue \in Value
  BY Zenon, MSIAssumption DEF TypeOK
<1>2. \A d \in Cache : d # c => cacheState'[d] = cacheState[d] /\ DataBlk'[d] = DataBlk[d] /\ tbeData'[d] = tbeData[d]
  BY Zenon, <1>t DEF ForwardPort, AckInv, I_Inv, SM_AD_Inv, SI_A_Inv, InvalidateS, FwdGetS, FwdGetM, WBAck, SetState, h_deallocateL1CacheBlock, w_deallocateTBE
<1>3. /\ AckInv(c) \/ InvalidateS(c) => cacheState'[c] \in {"I", "IM_AD", "II_A"}
      /\ WBAck(c) \/ FwdGetM(c) => cacheState'[c] \in {"I", "II_A"}
      /\ FwdGetS(c) => (cacheState'[c] = "S" /\ DataBlk'[c] = DataBlk[c] /\ cacheState[c] = "M") \/ cacheState'[c] = "SI_A"
  <2>1. AckInv(c) => cacheState'[c] \in {"I", "IM_AD", "II_A"}
    BY Zenon, <1>t DEF AckInv, SetState, I_Inv, SM_AD_Inv, SI_A_Inv
  <2> QED BY Zenon, <1>t, <2>1 DEF InvalidateS, FwdGetS, FwdGetM, WBAck, SetState
<1>4. forwardToCache[c] # <<>> /\ (FwdGetS(c) => m.Type = "GETS") /\ (FwdGetM(c) => m.Type = "GETM")
  BY Zenon, ForwardKind DEF ForwardPort, AckInv, InvalidateS, FwdGetS, FwdGetM, WBAck
<1>5. \A d \in Cache : HasForward(d)' => HasForward(d)
  BY Zenon, <1>1, <1>4, ForwardTaken
<1>6. m \in ForwardMsg /\ (m.Type # "WB_ACK" => m.Requestor \in Cache /\ Fwd(c, m.Type, m.Requestor))
  BY Zenon, <1>1, <1>4, ForwardPopped DEF Coherent
<1>7. m.Requestor \in Machine
  BY Zenon, <1>6 DEF ForwardMsg
<1>8. FwdGetS(c) \/ FwdGetM(c) =>
        /\ cacheState[c] = "M" => DataBlk[c] = physMem
        /\ cacheState[c] = "MI_A" => tbeData[c] = physMem
  <2>1. FwdGetS(c) \/ FwdGetM(c) => HasForward(c)
    BY Zenon, <1>4, <1>6 DEF HasForward, Forward
  <2> QED BY Zenon, <2>1 DEF Fresh, FreshCopies, FreshPuts
<1>9. FreshResponses'
  <2>1. CASE AckInv(c) \/ InvalidateS(c)
    <3>1. /\ Response("ACK", InitValue, 1) \in ResponseMsg
          /\ Response("ACK", InitValue, 1).Type = "ACK"
      BY <1>t DEF Response, ResponseMsg
    <3>2. SendResponse(c, m.Requestor, Response("ACK", InitValue, 1))
      BY Zenon, <2>1 DEF AckInv, InvalidateS, fi_sendInvAck
    <3> QED BY Zenon, <1>1, <1>7, <3>1, <3>2, FreshSent, MachineFacts DEF Fresh
  <2>2. CASE FwdGetS(c)
    <3>1. SendDataToBoth(c, physMem)
      BY Zenon, <2>2, <1>8 DEF FwdGetS
    <3> QED BY Zenon, <1>1, <3>1, FreshBoth DEF Fresh
  <2>3. CASE FwdGetM(c)
    <3>1. SendResponse(c, m.Requestor, Response("DATA_FROM_OWNER", physMem, 0))
      BY Zenon, <2>3, <1>8 DEF FwdGetM, SendDataFromOwner
    <3>2. /\ Response("DATA_FROM_OWNER", physMem, 0) \in ResponseMsg
          /\ Response("DATA_FROM_OWNER", physMem, 0).DataBlk = physMem
      BY <1>t DEF Response, ResponseMsg
    <3> QED BY ZenonT(40), <1>1, <1>7, <3>1, <3>2, FreshSent, MachineFacts DEF Fresh
  <2>4. CASE WBAck(c)
    BY Zenon, <1>1, <2>4 DEF WBAck, Fresh, FreshResponses
  <2> QED BY Zenon, <2>1, <2>2, <2>3, <2>4 DEF ForwardPort
<1>10. /\ cacheState'[c] # "MI_A"
       /\ cacheState'[c] \in {"S", "SM_AD", "IM_A", "SM_A", "M"} => DataBlk'[c] = physMem
  <2>1. \/ cacheState'[c] \in {"I", "IM_AD", "II_A", "SI_A"}
        \/ cacheState'[c] = "S" /\ DataBlk'[c] = DataBlk[c] /\ cacheState[c] = "M" /\ FwdGetS(c)
    BY Zenon, <1>3 DEF ForwardPort
  <2> QED BY Zenon, <2>1, <1>8
<1> QED BY Zenon, <1>1, <1>2, <1>5, <1>9, <1>10, CacheFresh

\* A cache takes data, or an acknowledgement.
LEMMA TakeFresh ==
  ASSUME TypeOK, Coherent, Fresh, NEW c \in Cache, NEW s \in Machine,
         rx_load_hit(c, s) \/ u_writeDataToCache(c, s) \/ InvAck(c, s)
  PROVE  Fresh'
<1> DEFINE m == Head(responseNet[s][c])
<1>1. /\ UNCHANGED <<requestNet, requestToDir, forwardToCache, dirState, dirData, memBuffer, physMem>>
      /\ PopResponse(s, c) /\ responseNet[s][c] # <<>>
  BY Zenon DEF rx_load_hit, u_writeDataToCache, InvAck, dirVars, readCallback, ResponseReady
<1>t. cacheState \in [Cache -> CacheStates] /\ tbeData \in [Cache -> Value] /\ DataBlk \in [Cache -> Value]
  BY Zenon DEF TypeOK
<1>2. \A d \in Cache : d # c => cacheState'[d] = cacheState[d] /\ DataBlk'[d] = DataBlk[d] /\ tbeData'[d] = tbeData[d]
  BY Zenon, <1>t DEF rx_load_hit, u_writeDataToCache, InvAck, SetState, w_deallocateTBE
<1>3. FreshResponses' /\ (m.Type # "ACK" => m.DataBlk = physMem)
  BY Zenon, <1>1, FreshPopped, MachineFacts DEF Fresh
<1>4. \A d \in Cache : HasForward(d)' => HasForward(d)
  BY Zenon, <1>1 DEF HasForward, Forward, Fwd, Forwards
<1>5. /\ cacheState'[c] # "MI_A"
      /\ cacheState'[c] \in {"S", "SM_AD", "IM_A", "SM_A", "M"} => DataBlk'[c] = physMem
  <2>1. CASE rx_load_hit(c, s)
    <3>1. ResponseEvent(c, m) \in {"Data_from_Dir_No_Acks", "Data_from_Owner"} /\ DataBlk'[c] = m.DataBlk /\ cacheState'[c] = "S"
      BY ZenonT(40), <2>1, <1>t DEF rx_load_hit, ResponseReady, SetState
    <3>2. m.Type # "ACK"
      BY Zenon, <1>1, <3>1, ResponseKind DEF Coherent
    <3> QED BY Zenon, <3>1, <3>2, <1>3
  <2>2. CASE u_writeDataToCache(c, s)
    <3>1. ResponseEvent(c, m) = "Data_from_Dir_Ack_Cnt" /\ DataBlk'[c] = m.DataBlk /\ cacheState'[c] \in {"IM_A", "SM_A"}
      BY ZenonT(40), <2>2, <1>t DEF u_writeDataToCache, ResponseReady, SetState
    <3>2. m.Type # "ACK"
      BY Zenon, <1>1, <3>1, ResponseKind DEF Coherent
    <3> QED BY Zenon, <3>1, <3>2, <1>3
  <2>3. CASE InvAck(c, s)
    <3>1. cacheState'[c] = cacheState[c] /\ DataBlk'[c] = DataBlk[c] /\ cacheState[c] \in {"IM_AD", "IM_A", "SM_AD", "SM_A"}
      BY Zenon, <2>3 DEF InvAck
    <3>2. cacheState[c] \in {"S", "SM_AD", "IM_A", "SM_A", "M"} => DataBlk[c] = physMem
      BY Zenon DEF Fresh, FreshCopies
    <3> QED BY Zenon, <3>1, <3>2
  <2> QED BY Zenon, <2>1, <2>2, <2>3
<1> QED BY Zenon, <1>1, <1>2, <1>3, <1>4, <1>5, CacheFresh

\* What a store starts from is what the last write left.
LEMMA StoreReadsLast ==
  ASSUME TypeOK, Coherent, Fresh, NEW c \in Cache, NEW s \in Machine, NEW v,
         s_store_hit(c, v) \/ sx_store_hit_data(c, s, v) \/ sx_store_hit_acks(c, s, v)
  PROVE  writeCallback(c, physMem, v) /\ cacheState'[c] = "M"
<1> DEFINE m == Head(responseNet[s][c])
<1>1. CASE s_store_hit(c, v)
  <2>1. DataBlk[c] = physMem
    BY Zenon, <1>1 DEF s_store_hit, Fresh, FreshCopies
  <2> QED BY Zenon, <1>1, <2>1 DEF s_store_hit
<1>2. CASE sx_store_hit_data(c, s, v)
  <2>1. /\ ResponseEvent(c, m) \in {"Data_from_Dir_No_Acks", "Data_from_Owner", "Data_from_Dir_Ack_Cnt_Last"}
        /\ responseNet[s][c] # <<>> /\ writeCallback(c, m.DataBlk, v) /\ PopResponse(s, c)
    BY ZenonT(40), <1>2 DEF sx_store_hit_data, ResponseReady
  <2>2. m.Type # "ACK"
    BY Zenon, <2>1, ResponseKind DEF Coherent
  <2>3. m \in Contents(responseNet[s][c])
    <3>1. responseNet[s][c] \in Seq(ResponseMsg)
      <4>1. responseNet \in [Machine -> [Machine -> Seq(ResponseMsg)]]
        BY ZenonT(40) DEF TypeOK
      <4> QED BY Zenon, <4>1, MachineFacts
    <3> QED BY Zenon, <2>1, <3>1, ContentsTail
  <2>4. m.DataBlk = physMem
    BY Zenon, <2>2, <2>3, MachineFacts DEF Fresh, FreshResponses
  <2>5. cacheState'[c] = "M"
    BY Zenon, <1>2 DEF sx_store_hit_data, SetState, TypeOK
  <2> QED BY Zenon, <2>1, <2>4, <2>5
<1>3. CASE sx_store_hit_acks(c, s, v)
  <2>1. DataBlk[c] = physMem
    BY Zenon, <1>3 DEF sx_store_hit_acks, Fresh, FreshCopies
  <2>2. cacheState'[c] = "M"
    BY Zenon, <1>3 DEF sx_store_hit_acks, SetState, TypeOK
  <2> QED BY Zenon, <1>3, <2>1, <2>2 DEF sx_store_hit_acks
<1> QED BY Zenon, <1>1, <1>2, <1>3

\* A store is seen by everything that may still be read.
LEMMA StoreFresh ==
  ASSUME TypeOK, Coherent, Fresh, TypeOK', Coherent', DataAssumption,
         NEW c \in Cache, NEW s \in Machine, NEW v,
         s_store_hit(c, v) \/ sx_store_hit_data(c, s, v) \/ sx_store_hit_acks(c, s, v)
  PROVE  Fresh'
<1>1. writeCallback(c, physMem, v) /\ cacheState'[c] = "M"
  BY Zenon, StoreReadsLast
<1>2. DataBlk'[c] = physMem'
  BY Zenon, <1>1, WriteFresh
<1> QED BY Zenon, <1>1, <1>2, WriterFresh

\* The caches after a step of the directory.
LEMMA DirFresh ==
  ASSUME Fresh, UNCHANGED <<cacheState, DataBlk, tbeData, physMem>>, FreshResponses', FreshMemory',
         \A d \in Cache : cacheState[d] = "MI_A" =>
           /\ Asking(d)' \/ HasForward(d)' => Asking(d) \/ HasForward(d)
           /\ Requests(d)' \subseteq Requests(d)
  PROVE  Fresh'
<1>1. FreshPuts'
  BY Zenon, FreshPutsKept DEF Fresh
<1> QED BY Zenon, <1>1 DEF Fresh, FreshCopies

\* The request the directory takes is its sender's.
LEMMA TakenRequests ==
  ASSUME TypeOK, Coherent, requestToDir # <<>>, i_popIncomingRequestQueue, UNCHANGED requestNet
  PROVE  /\ \A d \in Cache : (Asking(d)' => Asking(d)) /\ Requests(d)' \subseteq Requests(d)
         /\ req.Requestor \in Cache /\ req \in RequestMsg /\ req \in Requests(req.Requestor)
         /\ Asking(req.Requestor) /\ \A t : Asks(req.Requestor, t) <=> t = req.Type
<1>1. /\ req \in RequestMsg /\ req \in Requests(req.Requestor) /\ req.Requestor \in Cache
      /\ \A d \in Cache : /\ Requests(d)' = IF d = req.Requestor THEN {} ELSE Requests(d)
                          /\ Asking(d)' <=> Asking(d) /\ d # req.Requestor
      /\ Asking(req.Requestor) /\ \A t : Asks(req.Requestor, t) <=> t = req.Type
  BY Zenon, RequestHandled DEF Coherent
<1> QED BY Zenon, <1>1

\* The directory has the line: it reads it, or answers with it.
LEMMA DirReadsFresh ==
  ASSUME TypeOK, Coherent, Fresh, CardFacts, DirI_GETS \/ DirI_GETM \/ DirS_GETS \/ DirS_GETM
  PROVE  Fresh'
<1>1. /\ UNCHANGED <<cacheState, DataBlk, tbeData, physMem, dirData, requestNet>>
      /\ requestToDir # <<>> /\ i_popIncomingRequestQueue /\ dirState \in {"I", "S"}
  BY Zenon DEF DirI_GETS, DirI_GETM, DirS_GETS, DirS_GETM, cacheVars, RequestReady
<1>2. /\ \A d \in Cache : (Asking(d)' => Asking(d)) /\ Requests(d)' \subseteq Requests(d)
      /\ req.Requestor \in Cache
  BY Zenon, <1>1, TakenRequests
<1>3. dirData = physMem /\ physMem \in Value
  <2>1. dirState \notin {"M", "MS_OD"}
    BY Zenon, <1>1
  <2> QED BY Zenon, <2>1 DEF Fresh, FreshMemory, TypeOK
<1>4. \A d \in Cache : HasForward(d)' => HasForward(d)
  <2>1. CASE UNCHANGED forwardToCache
    BY Zenon, <2>1 DEF HasForward, Forward, Fwd, Forwards
  <2>2. CASE DirS_GETM
    BY Zenon, <2>2, <1>2, ForwardOther, MachineFacts DEF DirS_GETM, fwm_sendFwdInvToSharersMinusRequestor
  <2> QED BY Zenon, <2>1, <2>2 DEF DirI_GETS, DirI_GETM, DirS_GETS
<1>5. FreshResponses'
  <2>1. CASE DirI_GETS \/ DirI_GETM
    BY Zenon, <1>1, <2>1 DEF DirI_GETS, DirI_GETM, Fresh, FreshResponses
  <2>2. CASE DirS_GETS \/ DirS_GETM
    <3>1. PICK n \in Int : SendResponse(Dir, req.Requestor, Response("DATA_FROM_DIR", physMem, n))
      <4>1. (IF req.Requestor \in Sharers THEN 1 ELSE 0) - Cardinality(Sharers) \in Int
        <5>1. Sharers \in SUBSET Cache
          BY Zenon DEF TypeOK
        <5>2. Cardinality(Sharers) \in Nat
          BY Zenon, <5>1 DEF CardFacts
        <5> QED BY <5>2
      <4>2. 0 \in Int
        OBVIOUS
      <4> QED BY Zenon, <1>3, <2>2, <4>1, <4>2 DEF DirS_GETS, DirS_GETM, ds_sendSharedData, ds2_sendSharedData
    <3>2. /\ Response("DATA_FROM_DIR", physMem, n) \in ResponseMsg
          /\ Response("DATA_FROM_DIR", physMem, n).DataBlk = physMem
      BY Zenon, <1>3 DEF Response, ResponseMsg
    <3> QED BY Zenon, <1>1, <1>2, <3>1, <3>2, FreshSent, MachineFacts DEF Fresh
  <2> QED BY Zenon, <2>1, <2>2
<1>6. FreshMemory'
  <2>1. CASE DirI_GETS \/ DirI_GETM
    <3>1. QueueMemory("MEMORY_READ", req.Requestor, physMem)
      BY Zenon, <1>3, <2>1 DEF DirI_GETS, DirI_GETM
    <3>2. \A m \in Contents(memBuffer') : m.DataBlk = physMem'
      BY Zenon, <1>1, <1>2, <3>1, FreshQueued DEF Fresh
    <3> QED BY Zenon, <1>1, <1>3, <3>2 DEF FreshMemory
  <2>2. CASE DirS_GETS \/ DirS_GETM
    <3>1. UNCHANGED memBuffer
      BY Zenon, <2>2 DEF DirS_GETS, DirS_GETM
    <3> QED BY Zenon, <1>1, <1>3, <3>1 DEF Fresh, FreshMemory
  <2> QED BY Zenon, <2>1, <2>2
<1> QED BY Zenon, <1>1, <1>2, <1>4, <1>5, <1>6, DirFresh

-----------------------------------------------------------------------------
(***************************************************************************)
(* Fresh: the steps of the directory.                                      *)
(***************************************************************************)
\* The owner is asked to give the line away; if it is writing it back, its
\* request is still to come.
LEMMA DirForwardsFresh ==
  ASSUME TypeOK, Coherent, Fresh, DirAssertions, DirM_GETS \/ DirM_GETM
  PROVE  Fresh'
<1>1. /\ UNCHANGED <<cacheState, DataBlk, tbeData, physMem, dirData, requestNet, responseNet, memBuffer>>
      /\ requestToDir # <<>> /\ i_popIncomingRequestQueue /\ dirState = "M" /\ f_forwardRequest
      /\ dirState' \in {"M", "MS_OD"}
  BY Zenon DEF DirM_GETS, DirM_GETM, cacheVars, RequestReady
<1>2. PICK o \in Cache : Owner = {o} /\ (cacheState[o] = "MI_A" => Asking(o))
  BY Zenon, <1>1, OwnerFacts
<1>3. /\ \A d \in Cache : (Asking(d)' => Asking(d)) /\ Requests(d)' \subseteq Requests(d)
      /\ req.Requestor \in Cache
  BY Zenon, <1>1, TakenRequests
<1>4. \A d \in Cache : d # o => forwardToCache'[d] = forwardToCache[d]
  BY Zenon, <1>1, <1>2 DEF f_forwardRequest, SendForward
<1>5. \A d \in Cache : cacheState[d] = "MI_A" /\ HasForward(d)' => Asking(d) \/ HasForward(d)
  BY Zenon, <1>2, <1>4 DEF HasForward, Forward, Fwd, Forwards
<1>6. FreshResponses' /\ FreshMemory'
  BY Zenon, <1>1 DEF Fresh, FreshResponses, FreshMemory
<1> QED BY Zenon, <1>1, <1>3, <1>5, <1>6, DirFresh

\* The owner's writeback: the directory gets its data.
LEMMA DirWritebackFresh ==
  ASSUME TypeOK, Coherent, Fresh, DirAssertions, DirM_PUTM_Owner
  PROVE  Fresh'
<1>1. /\ UNCHANGED <<cacheState, DataBlk, tbeData, physMem, requestNet, responseNet, forwardToCache>>
      /\ requestToDir # <<>> /\ i_popIncomingRequestQueue /\ dirState = "M" /\ dirState' = "MI_MA"
      /\ RequestEvent(req) = "PUTM_Owner" /\ dirData' = req.DataBlk
      /\ QueueMemory("MEMORY_WB", req.Requestor, req.DataBlk)
  BY Zenon DEF DirM_PUTM_Owner, cacheVars, RequestReady, req
<1>2. PICK o \in Cache : Owner = {o} /\ Possessor(o)
  BY Zenon, <1>1, OwnerFacts
<1>3. /\ \A d \in Cache : (Asking(d)' => Asking(d)) /\ Requests(d)' \subseteq Requests(d)
      /\ req.Requestor \in Cache /\ req \in RequestMsg /\ req \in Requests(req.Requestor)
      /\ Asking(req.Requestor) /\ \A t : Asks(req.Requestor, t) <=> t = req.Type
  BY Zenon, <1>1, TakenRequests
<1>4. req.Type = "PUTM" /\ req.Requestor = o
  <2>1. req.Type = "PUTM" /\ req.Requestor \in Owner
    BY Zenon, <1>1, RequestKind
  <2> QED BY Zenon, <1>2, <2>1
<1>5. cacheState[o] = "MI_A"
  <2>1. Asks(o, "PUTM")
    BY Zenon, <1>3, <1>4
  <2>2. cacheState[o] \in Puts
    BY Zenon, <2>1 DEF Coherent, AskAgrees
  <2> QED BY Zenon, <1>2, <2>2 DEF Possessor, Token, Gets, Counting, Puts
<1>6. req.DataBlk = physMem
  BY Zenon, <1>3, <1>4, <1>5 DEF Fresh, FreshPuts
<1>7. FreshMemory'
  <2>1. \A m \in Contents(memBuffer') : m.DataBlk = physMem'
    BY Zenon, <1>1, <1>3, <1>6, FreshQueued DEF Fresh
  <2> QED BY Zenon, <1>1, <1>6, <2>1 DEF FreshMemory
<1>8. FreshResponses' /\ \A d \in Cache : HasForward(d)' => HasForward(d)
  BY Zenon, <1>1 DEF Fresh, FreshResponses, HasForward, Forward, Fwd, Forwards
<1> QED BY Zenon, <1>1, <1>3, <1>7, <1>8, DirFresh

\* A put that brings no data.
LEMMA DirPutsFresh ==
  ASSUME TypeOK, Coherent, Fresh, DataAssumption, DirS_PUTS_Last \/ DirPut \/ DirStalePut
  PROVE  Fresh'
<1>1. /\ UNCHANGED <<cacheState, DataBlk, tbeData, physMem, requestNet, responseNet, memBuffer>>
      /\ requestToDir # <<>> /\ i_popIncomingRequestQueue /\ a_sendWriteBackAck
  BY Zenon DEF DirS_PUTS_Last, DirPut, S_Put, MS_OD_Put, MS_MA_Put, MI_MA_Put, DirStalePut, cacheVars, dirVars, RequestReady
<1>2. /\ \A d \in Cache : (Asking(d)' => Asking(d)) /\ Requests(d)' \subseteq Requests(d)
  BY Zenon, <1>1, TakenRequests
<1>3. \A d \in Cache : HasForward(d)' => HasForward(d)
  BY Zenon, <1>1, ForwardOther, MachineFacts DEF a_sendWriteBackAck
<1>4. dirData' = dirData /\ (dirState' = dirState \/ dirState = "S")
  BY Zenon DEF DirS_PUTS_Last, DirPut, DirStalePut, dirVars, invalidateBlock, DataAssumption
<1>5. dirState' \notin {"M", "MS_OD"} => dirState \notin {"M", "MS_OD"}
  BY Zenon, <1>4
<1>6. FreshResponses' /\ FreshMemory'
  BY Zenon, <1>1, <1>4, <1>5 DEF Fresh, FreshResponses, FreshMemory
<1> QED BY Zenon, <1>1, <1>2, <1>3, <1>6, DirFresh

\* The data of an owner that gave the line to a reader.
LEMMA DirOwnerDataFresh ==
  ASSUME TypeOK, Coherent, Fresh, NEW s \in Cache, DirMS_OD_Data(s)
  PROVE  Fresh'
<1> DEFINE m == Head(responseNet[s][Dir])
<1>1. /\ UNCHANGED <<cacheState, DataBlk, tbeData, physMem, requestNet, requestToDir, forwardToCache>>
      /\ responseNet[s][Dir] # <<>> /\ PopResponse(s, Dir) /\ m.Type = "DATA"
      /\ dirData' = m.DataBlk /\ QueueMemory("MEMORY_WB", s, m.DataBlk)
  BY Zenon DEF DirMS_OD_Data, cacheVars
<1>2. FreshResponses' /\ m.DataBlk = physMem
  <2>1. m.Type # "ACK"
    BY Zenon, <1>1
  <2> QED BY Zenon, <1>1, <2>1, FreshPopped, MachineFacts DEF Fresh
<1>3. FreshMemory'
  <2>1. \A n \in Contents(memBuffer') : n.DataBlk = physMem'
    BY Zenon, <1>1, <1>2, FreshQueued DEF Fresh
  <2> QED BY Zenon, <1>1, <1>2, <2>1 DEF FreshMemory
<1>4. \A d \in Cache : /\ HasForward(d)' => HasForward(d)
                       /\ Asking(d)' => Asking(d)
                       /\ Requests(d)' \subseteq Requests(d)
  BY Zenon, <1>1 DEF HasForward, Forward, Fwd, Forwards, Asking, Requests
<1> QED BY Zenon, <1>1, <1>2, <1>3, <1>4, DirFresh

\* A reply of the memory.
LEMMA DirMemoryFresh ==
  ASSUME TypeOK, Coherent, Fresh, DataAssumption, DirMemPort
  PROVE  Fresh'
<1> DEFINE m == Head(memBuffer)
<1>1. /\ UNCHANGED <<cacheState, DataBlk, tbeData, physMem, requestNet, requestToDir>>
      /\ memBuffer # <<>> /\ qm_popMemQueue /\ dirState \in {"IS_MD", "IM_MD", "MS_MA", "MI_MA"}
  BY Zenon DEF DirMemPort, DirMemory_Data, DirMS_MA_Memory_Ack, DirMI_MA_Memory_Ack, cacheVars, netVars, MemoryReady
<1>2. dirData' = dirData
  BY Zenon DEF DirMemPort, DirMemory_Data, DirMS_MA_Memory_Ack, DirMI_MA_Memory_Ack, w_writeDataToDirectoryFromTBE, TBELen,
       invalidateBlock, DataAssumption
<1>3. (\A n \in Contents(memBuffer') : n.DataBlk = physMem') /\ m.DataBlk = physMem
  BY Zenon, <1>1, FreshDone DEF Fresh
<1>4. FreshMemory'
  <2>1. dirState \notin {"M", "MS_OD"}
    BY Zenon, <1>1
  <2> QED BY Zenon, <1>1, <1>2, <1>3, <2>1 DEF Fresh, FreshMemory
<1>5. m.OriginalRequestor \in Cache /\ physMem \in Value
  <2>1. m \in MemoryMsg
    BY <1>1 DEF TypeOK
  <2> QED BY Zenon, <2>1 DEF MemoryMsg, TypeOK
<1>6. FreshResponses'
  <2>1. CASE DirMemory_Data
    <3>1. SendResponse(Dir, m.OriginalRequestor, Response("DATA_FROM_DIR", physMem, 0))
      BY Zenon, <1>3, <2>1 DEF DirMemory_Data, d_sendData
    <3>2. /\ Response("DATA_FROM_DIR", physMem, 0) \in ResponseMsg
          /\ Response("DATA_FROM_DIR", physMem, 0).DataBlk = physMem
      BY <1>5 DEF Response, ResponseMsg
    <3> QED BY Zenon, <1>1, <1>5, <3>1, <3>2, FreshSent, MachineFacts DEF Fresh
  <2>2. CASE ~DirMemory_Data
    BY Zenon, <1>1, <2>2 DEF DirMemPort, DirMS_MA_Memory_Ack, DirMI_MA_Memory_Ack, netVars, Fresh, FreshResponses
  <2> QED BY Zenon, <2>1, <2>2
<1>7. \A d \in Cache : HasForward(d)' => HasForward(d)
  <2>1. CASE DirMI_MA_Memory_Ack
    BY Zenon, <2>1, <1>5, ForwardOther, MachineFacts DEF DirMI_MA_Memory_Ack, la_sendWriteBackAck
  <2>2. CASE ~DirMI_MA_Memory_Ack
    <3>1. UNCHANGED forwardToCache
      BY Zenon, <2>2 DEF DirMemPort, DirMemory_Data, DirMS_MA_Memory_Ack, netVars
    <3> QED BY Zenon, <3>1 DEF HasForward, Forward, Fwd, Forwards
  <2> QED BY Zenon, <2>1, <2>2
<1>8. \A d \in Cache : (Asking(d)' => Asking(d)) /\ Requests(d)' \subseteq Requests(d)
  BY Zenon, <1>1 DEF Asking, Requests
<1> QED BY Zenon, <1>1, <1>4, <1>6, <1>7, <1>8, DirFresh
=============================================================================
