--------------------------- MODULE MSICacheSteps ----------------------------
(***************************************************************************)
(* The steps of a cache's mandatory queue and forward port keep the        *)
(* invariant Coherent of MSICoherence, for any number of caches.           *)
(*                                                                         *)
(* First, what each operation on a queue does to the sets of messages that *)
(* the invariant speaks of; then one lemma per group of transitions.       *)
(***************************************************************************)
EXTENDS MSICoherence, TLAPS

(***************************************************************************)
(* Requests, forwards, responses and the memory.                           *)
(***************************************************************************)
\* The machines are the caches and the directory.
LEMMA MachineFacts == (\A x \in Cache : x \in Machine) /\ Dir \in Machine /\ Dir \notin Cache
BY Zenon, MSIAssumption DEF Machine

\* What appending and removing do to the contents of a queue.
LEMMA ContentsAppend ==
  ASSUME NEW S, NEW q \in Seq(S), NEW m \in S
  PROVE  Contents(Append(q, m)) = Contents(q) \cup {m}
<1>1. DOMAIN Append(q, m) = DOMAIN q \cup {Len(q) + 1}
  OBVIOUS
<1>2. \A i \in DOMAIN q : Append(q, m)[i] = q[i]
  OBVIOUS
<1>3. Append(q, m)[Len(q) + 1] = m
  OBVIOUS
<1> QED BY Zenon, <1>1, <1>2, <1>3 DEF Contents

\* Removing the head of a queue removes it from the contents only if it does
\* not occur again.
LEMMA ContentsTail ==
  ASSUME NEW S, NEW q \in Seq(S), q # <<>>
  PROVE  /\ Head(q) \in Contents(q)
         /\ Contents(q) = Contents(Tail(q)) \cup {Head(q)}
         /\ (\A i \in DOMAIN q : i # 1 => q[i] # Head(q)) => Head(q) \notin Contents(Tail(q))
<1>1. 1 \in DOMAIN q /\ Head(q) = q[1]
  OBVIOUS
<1>2. \A i \in DOMAIN Tail(q) : i + 1 \in DOMAIN q /\ Tail(q)[i] = q[i + 1] /\ i + 1 # 1
  OBVIOUS
<1>3. \A i \in DOMAIN q : i # 1 => i - 1 \in DOMAIN Tail(q) /\ Tail(q)[i - 1] = q[i]
  OBVIOUS
<1>4. Head(q) \in Contents(q)
  BY Zenon, <1>1 DEF Contents
<1>5. ASSUME NEW x \in Contents(q) PROVE x \in Contents(Tail(q)) \cup {Head(q)}
  BY <1>1, <1>3 DEF Contents
<1>6. ASSUME NEW x \in Contents(Tail(q)) PROVE x \in Contents(q)
  BY Zenon, <1>2 DEF Contents
<1>7. (\A i \in DOMAIN q : i # 1 => q[i] # Head(q)) => Head(q) \notin Contents(Tail(q))
  BY Zenon, <1>2 DEF Contents
<1> QED BY Zenon, <1>4, <1>5, <1>6, <1>7

\* An empty queue and a queue with contents.
LEMMA ContentsEmpty ==
  ASSUME NEW S, NEW q \in Seq(S)
  PROVE  Contents(q) = {} <=> q = <<>>
BY SMTT(40) DEF Contents

\* Nothing is left of a queue of one message.
LEMMA TailOfOne ==
  ASSUME NEW S, NEW q \in Seq(S), Len(q) <= 1, q # <<>>
  PROVE  Tail(q) = <<>> /\ Len(q) = 1 /\ Head(q) = q[1]
<1>1. Len(q) = 1
  <2>1. \E i \in DOMAIN q : TRUE
    BY Zenon, ContentsEmpty DEF Contents
  <2>2. DOMAIN q = 1 .. Len(q) /\ Len(q) \in Nat
    OBVIOUS
  <2> QED BY <2>1, <2>2
<1>2. Tail(q) = <<>>
  <2>1. Tail(q) \in Seq(S) /\ Len(Tail(q)) = 0
    BY <1>1
  <2>2. DOMAIN Tail(q) = 1 .. 0
    BY <2>1
  <2>3. Contents(Tail(q)) = {}
    BY <2>2 DEF Contents
  <2> QED BY Zenon, <2>1, <2>3, ContentsEmpty
<1>3. Head(q) = q[1]
  OBVIOUS
<1> QED BY Zenon, <1>1, <1>2, <1>3

\* Order of a forward queue.
LEMMA InOrderAppend ==
  ASSUME NEW q \in Seq(ForwardMsg), NEW m \in ForwardMsg, InOrder(q),
         m \notin Contents(q),
         \A x \in Contents(q) : x.Type # "WB_ACK" /\ m.Type # "INV"
  PROVE  InOrder(Append(q, m))
<1> SUFFICES ASSUME NEW i \in DOMAIN Append(q, m), NEW j \in DOMAIN Append(q, m), i < j
             PROVE  /\ Append(q, m)[i].Type # "WB_ACK"
                    /\ Append(q, m)[j].Type # "INV"
                    /\ Append(q, m)[i] # Append(q, m)[j]
  BY Zenon DEF InOrder
<1>1. i \in DOMAIN q /\ Append(q, m)[i] = q[i]
  OBVIOUS
<1>2. \/ j \in DOMAIN q /\ Append(q, m)[j] = q[j]
      \/ Append(q, m)[j] = m
  OBVIOUS
<1>3. q[i] \in Contents(q)
  BY Zenon, <1>1 DEF Contents
<1> QED BY Zenon, <1>1, <1>2, <1>3 DEF InOrder

\* The head of a forward queue occurs once; behind a WB_ACK there is nothing,
\* and behind another forward no INV.
LEMMA InOrderTail ==
  ASSUME NEW q \in Seq(ForwardMsg), InOrder(q), q # <<>>
  PROVE  /\ InOrder(Tail(q))
         /\ Contents(Tail(q)) = Contents(q) \ {Head(q)}
         /\ Head(q) \in Contents(q)
         /\ Head(q).Type = "WB_ACK" => Contents(q) = {Head(q)}
         /\ \A x \in Contents(q) : x # Head(q) => x.Type # "INV"
<1>1. 1 \in DOMAIN q /\ Head(q) = q[1] /\ \A i \in DOMAIN q : i # 1 => 1 < i
  OBVIOUS
<1>2. \A i \in DOMAIN Tail(q) : i + 1 \in DOMAIN q /\ Tail(q)[i] = q[i + 1]
  OBVIOUS
<1>3. InOrder(Tail(q))
  <2> SUFFICES ASSUME NEW i \in DOMAIN Tail(q), NEW j \in DOMAIN Tail(q), i < j
               PROVE  /\ Tail(q)[i].Type # "WB_ACK"
                      /\ Tail(q)[j].Type # "INV"
                      /\ Tail(q)[i] # Tail(q)[j]
    BY Zenon DEF InOrder
  <2>1. i + 1 < j + 1
    OBVIOUS
  <2> QED BY <1>2, <2>1 DEF InOrder
<1>4. \A i \in DOMAIN q : i # 1 => q[i] # Head(q) /\ q[i].Type # "INV" /\ Head(q).Type # "WB_ACK"
  BY Zenon, <1>1 DEF InOrder
<1>5. /\ Head(q) \in Contents(q)
      /\ Contents(q) = Contents(Tail(q)) \cup {Head(q)}
      /\ Head(q) \notin Contents(Tail(q))
  BY Zenon, <1>4, ContentsTail
<1>6. \A x \in Contents(q) : \E i \in DOMAIN q : x = q[i]
  BY Zenon DEF Contents
<1>7. \A x \in Contents(q) : x # Head(q) => x.Type # "INV" /\ Head(q).Type # "WB_ACK"
  BY <1>1, <1>4, <1>6
<1>8. Head(q).Type = "WB_ACK" => Contents(q) = {Head(q)}
  BY Zenon, <1>5, <1>7
<1> QED BY Zenon, <1>3, <1>5, <1>7, <1>8

-----------------------------------------------------------------------------
\* Nothing the invariant looks at happens to the requests, the forwards, the
\* responses, the memory.
RequestsSame ==
  /\ RequestQueues'
  /\ \A d \in Cache : (Asking(d)' <=> Asking(d)) /\ \A t : Asks(d, t)' <=> Asks(d, t)

ForwardsSame ==
  /\ ForwardQueues'
  /\ \A d, r \in Cache :
       /\ Fwd(d, "GETS", r)' <=> Fwd(d, "GETS", r)
       /\ Fwd(d, "GETM", r)' <=> Fwd(d, "GETM", r)
       /\ Fwd(d, "INV", r)' <=> Fwd(d, "INV", r)
       /\ Forward(d, r)' <=> Forward(d, r)
  /\ \A d \in Cache :
       /\ WbAcked(d)' <=> WbAcked(d)
       /\ Invalidated(d)' <=> Invalidated(d)
       /\ HasForward(d)' <=> HasForward(d)
       /\ Forwarded(d)' <=> Forwarded(d)

ResponsesSame ==
  /\ ResponseQueues'
  /\ \A x \in Machine, y \in Cache : Data(x, y)' <=> Data(x, y)
  /\ \A y \in Cache : (Answered(y)' <=> Answered(y)) /\ Count(y)' = Count(y)
  /\ \A x, y \in Cache : Ack(x, y)' <=> Ack(x, y)
  /\ \A x \in Cache : responseNet'[x][Dir] = responseNet[x][Dir]
  /\ DataToDir' <=> DataToDir

MemorySame ==
  Memory' /\ \A d \in Cache : InMemory(d)' <=> InMemory(d)

\* Handling the forward at the head of a queue removes just that forward.
LEMMA ForwardPopped ==
  ASSUME TypeOK, ForwardQueues, NEW c \in Cache, forwardToCache[c] # <<>>,
         o_popForwardedRequestQueue(c)
  PROVE  LET m == Head(forwardToCache[c]) IN
         /\ ForwardQueues'
         /\ m \in ForwardMsg /\ m \in Forwards(c)
         /\ \A d, r \in Cache :
              /\ Fwd(d, "GETS", r)' <=> Fwd(d, "GETS", r) /\ ~(d = c /\ m.Type = "GETS" /\ m.Requestor = r)
              /\ Fwd(d, "GETM", r)' <=> Fwd(d, "GETM", r) /\ ~(d = c /\ m.Type = "GETM" /\ m.Requestor = r)
              /\ Fwd(d, "INV", r)' <=> Fwd(d, "INV", r) /\ d # c
         /\ \A d \in Cache :
              /\ WbAcked(d)' <=> WbAcked(d) /\ ~(d = c /\ m.Type = "WB_ACK")
              /\ Invalidated(d)' <=> Invalidated(d) /\ d # c
         /\ m.Type = "WB_ACK" => ~HasForward(c) /\ \A r \in Cache : ~Fwd(c, "INV", r)
         /\ \A r \in Cache : Fwd(c, "INV", r) => m.Type = "INV" /\ m.Requestor = r
         /\ m.Type # "WB_ACK" => m.Requestor \in Cache /\ Fwd(c, m.Type, m.Requestor)
<1> DEFINE m == Head(forwardToCache[c])
<1>t. forwardToCache \in [Cache -> Seq(ForwardMsg)]
  BY Zenon DEF TypeOK
<1>1. forwardToCache[c] \in Seq(ForwardMsg) /\ InOrder(forwardToCache[c])
  BY Zenon, <1>t DEF ForwardQueues
<1>2. /\ InOrder(Tail(forwardToCache[c]))
      /\ Contents(Tail(forwardToCache[c])) = Contents(forwardToCache[c]) \ {m}
      /\ m \in Contents(forwardToCache[c])
      /\ m.Type = "WB_ACK" => Contents(forwardToCache[c]) = {m}
      /\ \A x \in Contents(forwardToCache[c]) : x # m => x.Type # "INV"
  BY Zenon, <1>1, InOrderTail
<1>3. m \in ForwardMsg
  BY <1>1
<1>4. \A d \in Cache : forwardToCache'[d] = IF d = c THEN Tail(forwardToCache[c])
                                            ELSE forwardToCache[d]
  BY Zenon, <1>t DEF o_popForwardedRequestQueue
<1>6. \A d \in Cache : Forwards(d)' = IF d = c THEN Forwards(c) \ {m} ELSE Forwards(d)
  BY Zenon, <1>2, <1>4 DEF Forwards
<1>5. ForwardQueues'
  BY Zenon, <1>2, <1>4, <1>6 DEF ForwardQueues
<1> HIDE DEF m
<1>7. /\ m \in Forwards(c)
      /\ m.Type = "WB_ACK" => Forwards(c) = {m}
      /\ \A x \in Forwards(c) : x # m => x.Type # "INV"
  BY Zenon, <1>2 DEF Forwards
<1>8. \A t, r : [Type |-> t, Requestor |-> r] = m <=> m.Type = t /\ m.Requestor = r
  BY <1>3 DEF ForwardMsg
<1>9. \A d, r \in Cache :
        /\ Fwd(d, "GETS", r)' <=> Fwd(d, "GETS", r) /\ ~(d = c /\ m.Type = "GETS" /\ m.Requestor = r)
        /\ Fwd(d, "GETM", r)' <=> Fwd(d, "GETM", r) /\ ~(d = c /\ m.Type = "GETM" /\ m.Requestor = r)
  BY <1>6, <1>8 DEF Fwd
<1>10. \A d \in Cache : WbAcked(d)' <=> WbAcked(d) /\ ~(d = c /\ m.Type = "WB_ACK")
  BY Zenon, <1>6, <1>7 DEF WbAcked
<1>11. m.Type = "WB_ACK" => \A t, r : t # "WB_ACK" => ~Fwd(c, t, r)
  BY <1>7, <1>8 DEF Fwd
<1>12. /\ \A r \in Cache : Fwd(c, "INV", r) => m.Type = "INV" /\ m.Requestor = r
       /\ \A d, r \in Cache : Fwd(d, "INV", r)' <=> Fwd(d, "INV", r) /\ d # c
  BY <1>6, <1>7, <1>8 DEF Fwd
<1>13. m.Type # "WB_ACK" => m.Requestor \in Cache /\ Fwd(c, m.Type, m.Requestor)
  BY Zenon, <1>3, <1>7 DEF ForwardQueues, Fwd, ForwardMsg
<1>14. \A d \in Cache : Invalidated(d)' <=> Invalidated(d) /\ d # c
  BY Zenon, <1>12 DEF Invalidated
<1> QED BY Zenon, <1>3, <1>5, <1>7, <1>9, <1>10, <1>11, <1>12, <1>13, <1>14 DEF m, HasForward, Forward

\* The caches in dests may be sent a forward of this type for r0, and have been.
MaySend(dests, type, r0) ==
  \A d \in dests : /\ ~WbAcked(d)
                   /\ ~Fwd(d, type, r0)
                   /\ type = "INV" => Forwards(d) = {}

ForwardAdded(dests, type, r0) ==
  /\ ForwardQueues'
  /\ \A d, r \in Cache :
       /\ Fwd(d, "GETS", r)' <=> Fwd(d, "GETS", r) \/ (d \in dests /\ type = "GETS" /\ r0 = r)
       /\ Fwd(d, "GETM", r)' <=> Fwd(d, "GETM", r) \/ (d \in dests /\ type = "GETM" /\ r0 = r)
       /\ Fwd(d, "INV", r)' <=> Fwd(d, "INV", r) \/ (d \in dests /\ type = "INV" /\ r0 = r)
  /\ \A d \in Cache :
       /\ WbAcked(d)' <=> WbAcked(d) \/ (d \in dests /\ type = "WB_ACK")
       /\ Invalidated(d)' <=> Invalidated(d) \/ (d \in dests /\ type = "INV")

\* A forward sent to some caches joins their queues.
LEMMA ForwardSent ==
  ASSUME TypeOK, ForwardQueues, NEW dests \in SUBSET Cache,
         NEW type \in {"GETS", "GETM", "INV", "WB_ACK"}, NEW r0 \in Machine,
         type # "WB_ACK" => r0 \in Cache, SendForward(dests, type, r0),
         MaySend(dests, type, r0)
  PROVE  ForwardAdded(dests, type, r0)
<1> USE DEF MaySend
<1> DEFINE m == [Type |-> type, Requestor |-> r0]
<1>t. forwardToCache \in [Cache -> Seq(ForwardMsg)]
  BY Zenon DEF TypeOK
<1>1. m \in ForwardMsg
  BY Zenon DEF ForwardMsg
<1>2. \A d \in Cache : forwardToCache'[d] = IF d \in dests THEN Append(forwardToCache[d], m)
                                            ELSE forwardToCache[d]
  BY Zenon DEF SendForward
<1>3. \A d \in dests : m \notin Contents(forwardToCache[d])
  <2>1. \A d \in dests : type # "WB_ACK" => m \notin Forwards(d)
    BY Zenon DEF Fwd
  <2>2. \A d \in dests : type = "WB_ACK" => m \notin Forwards(d)
    BY Zenon DEF WbAcked
  <2> QED BY Zenon, <2>1, <2>2 DEF Forwards
<1>4. \A d \in dests : \A x \in Contents(forwardToCache[d]) : x.Type # "WB_ACK" /\ type # "INV"
  BY Zenon DEF WbAcked, Forwards
<1>5. \A d \in dests : InOrder(Append(forwardToCache[d], m))
  <2> TAKE d \in dests
  <2>1. forwardToCache[d] \in Seq(ForwardMsg) /\ InOrder(forwardToCache[d])
    BY Zenon, <1>t DEF ForwardQueues
  <2>2. m.Type = type
    BY Zenon
  <2> QED BY Zenon, <1>1, <1>3, <1>4, <2>1, <2>2, InOrderAppend
<1>7. \A d \in Cache : Forwards(d)' = IF d \in dests THEN Forwards(d) \cup {m} ELSE Forwards(d)
  <2> TAKE d \in Cache
  <2>1. forwardToCache[d] \in Seq(ForwardMsg)
    BY Zenon, <1>t
  <2>2. Contents(Append(forwardToCache[d], m)) = Contents(forwardToCache[d]) \cup {m}
    BY <1>1, <2>1, ContentsAppend
  <2> QED BY Zenon, <1>2, <2>2 DEF Forwards
<1>6. ForwardQueues'
  BY <1>2, <1>5, <1>7 DEF ForwardQueues
<1>8. \A t, r : [Type |-> t, Requestor |-> r] = m <=> type = t /\ r0 = r
  BY Zenon
<1>9. m.Type = type
  BY Zenon
<1> HIDE DEF m
<1>10. \A d, r \in Cache :
         /\ Fwd(d, "GETS", r)' <=> Fwd(d, "GETS", r) \/ (d \in dests /\ type = "GETS" /\ r0 = r)
         /\ Fwd(d, "GETM", r)' <=> Fwd(d, "GETM", r) \/ (d \in dests /\ type = "GETM" /\ r0 = r)
         /\ Fwd(d, "INV", r)' <=> Fwd(d, "INV", r) \/ (d \in dests /\ type = "INV" /\ r0 = r)
  BY <1>7, <1>8 DEF Fwd
<1>11. \A d \in Cache :
         WbAcked(d)' <=> WbAcked(d) \/ (d \in dests /\ type = "WB_ACK")
  BY Zenon, <1>7, <1>9 DEF WbAcked
<1>12. \A d \in Cache : Invalidated(d)' <=> Invalidated(d) \/ (d \in dests /\ type = "INV")
  BY SMTT(40), <1>10 DEF Invalidated
<1> QED BY Zenon, <1>6, <1>10, <1>11, <1>12 DEF ForwardAdded

\* Nothing happens to the forwards.
LEMMA ForwardsKept ==
  ASSUME ForwardQueues, UNCHANGED forwardToCache
  PROVE  ForwardsSame
<1>1. \A d \in Cache : Forwards(d)' = Forwards(d)
  BY Zenon DEF Forwards
<1>2. \A d, r, t : Fwd(d, t, r)' <=> Fwd(d, t, r)
  BY Zenon DEF Fwd, Forwards
<1>3. \A d, r : Forward(d, r)' <=> Forward(d, r)
  BY Zenon, <1>2 DEF Forward
<1>4. \A d \in Cache : WbAcked(d)' <=> WbAcked(d)
  BY Zenon, <1>1 DEF WbAcked
<1> HIDE DEF Fwd
<1> QED BY Zenon, <1>1, <1>2, <1>3, <1>4 DEF ForwardsSame, ForwardQueues, Invalidated, HasForward, Forwarded

\* A response on an empty channel.
LEMMA ResponseSent ==
  ASSUME TypeOK, ResponseQueues, NEW s \in Machine, NEW d \in Machine, NEW m,
         responseNet[s][d] = <<>>, GoodResponse(s, d, m), SendResponse(s, d, m)
  PROVE  /\ ResponseQueues'
         /\ \A x, y \in Machine : responseNet'[x][y] =
              IF x = s /\ y = d THEN <<m>> ELSE responseNet[x][y]
         /\ \A x \in Machine, y \in Cache :
              Data(x, y)' <=> Data(x, y) \/ (x = s /\ y = d /\ m.Type # "ACK")
         /\ \A y \in Cache :
              /\ Answered(y)' <=> Answered(y) \/ (y = d /\ m.Type # "ACK")
              /\ Count(y)' = IF s = Dir /\ y = d THEN m.AckCount ELSE Count(y)
         /\ \A x, y \in Cache :
              Ack(x, y)' <=> Ack(x, y) \/ (x = s /\ y = d /\ m.Type = "ACK")
         /\ DataToDir' <=> DataToDir \/ d = Dir
<1>m. (\A x \in Cache : x \in Machine) /\ Dir \in Machine /\ Dir \notin Cache
  BY Zenon, MSIAssumption DEF Machine
<1>1. responseNet \in [Machine -> [Machine -> Seq(ResponseMsg)]]
  BY Zenon DEF TypeOK
<1>2. Append(<<>>, m) = <<m>> /\ Head(<<m>>) = m /\ Len(<<m>>) = 1 /\ <<m>> # <<>>
  OBVIOUS
<1>3. \A x, y \in Machine : responseNet'[x][y] =
        IF x = s /\ y = d THEN <<m>> ELSE responseNet[x][y]
  BY Zenon, <1>1, <1>2 DEF SendResponse
<1>4. ResponseQueues'
  BY <1>2, <1>3 DEF ResponseQueues, GoodResponse
<1>5. \A x \in Machine, y \in Cache :
        Data(x, y)' <=> Data(x, y) \/ (x = s /\ y = d /\ m.Type # "ACK")
  BY Zenon, <1>2, <1>3, <1>m DEF Data
<1>6. \A x, y \in Cache :
        Ack(x, y)' <=> Ack(x, y) \/ (x = s /\ y = d /\ m.Type = "ACK")
  BY Zenon, <1>2, <1>3, <1>m DEF Ack
<1>7. \A y \in Cache : Count(y)' = IF s = Dir /\ y = d THEN m.AckCount ELSE Count(y)
  BY Zenon, <1>2, <1>3, <1>m DEF Count
<1>8. DataToDir' <=> DataToDir \/ d = Dir
  BY <1>2, <1>3, <1>m DEF DataToDir, GoodResponse
<1>9. \A y \in Cache : Answered(y)' <=> Answered(y) \/ (y = d /\ m.Type # "ACK")
  BY Zenon, <1>5 DEF Answered
<1> QED BY Zenon, <1>3, <1>4, <1>5, <1>6, <1>7, <1>8, <1>9

\* An acknowledgement from cache s to cache d.
LEMMA AckSent ==
  ASSUME TypeOK, ResponseQueues, NEW s \in Cache, NEW d \in Cache,
         responseNet[s][d] = <<>>, SendResponse(s, d, Response("ACK", InitValue, 1))
  PROVE  /\ ResponseQueues'
         /\ \A x \in Machine, y \in Cache : Data(x, y)' <=> Data(x, y)
         /\ \A y \in Cache : (Answered(y)' <=> Answered(y)) /\ Count(y)' = Count(y)
         /\ \A x, y \in Cache : Ack(x, y)' <=> Ack(x, y) \/ (x = s /\ y = d)
         /\ \A x \in Cache : responseNet'[x][Dir] = responseNet[x][Dir]
         /\ DataToDir' <=> DataToDir
<1> DEFINE m == Response("ACK", InitValue, 1)
<1>1. m.Type = "ACK" /\ m.AckCount = 1
  BY Zenon DEF Response
<1> HIDE DEF m
<1>2. GoodResponse(s, d, m)
  BY Zenon, <1>1 DEF GoodResponse
<1>3. s \in Machine /\ d \in Machine /\ s # Dir /\ d # Dir
  BY Zenon, MachineFacts
<1>4. /\ ResponseQueues'
      /\ \A x, y \in Machine : responseNet'[x][y] =
           IF x = s /\ y = d THEN <<m>> ELSE responseNet[x][y]
      /\ \A x \in Machine, y \in Cache :
           Data(x, y)' <=> Data(x, y) \/ (x = s /\ y = d /\ m.Type # "ACK")
      /\ \A y \in Cache :
           /\ Answered(y)' <=> Answered(y) \/ (y = d /\ m.Type # "ACK")
           /\ Count(y)' = IF s = Dir /\ y = d THEN m.AckCount ELSE Count(y)
      /\ \A x, y \in Cache :
           Ack(x, y)' <=> Ack(x, y) \/ (x = s /\ y = d /\ m.Type = "ACK")
      /\ DataToDir' <=> DataToDir \/ d = Dir
  BY <1>2, <1>3, ResponseSent DEF m
<1> QED BY Zenon, <1>1, <1>3, <1>4, MachineFacts

\* Data from an owner to another cache.
LEMMA OwnerDataSent ==
  ASSUME TypeOK, ResponseQueues, NEW s \in Cache, NEW d \in Cache, NEW v,
         responseNet[s][d] = <<>>, SendResponse(s, d, Response("DATA_FROM_OWNER", v, 0))
  PROVE  /\ ResponseQueues'
         /\ \A x \in Machine, y \in Cache : Data(x, y)' <=> Data(x, y) \/ (x = s /\ y = d)
         /\ \A y \in Cache : Answered(y)' <=> Answered(y) \/ y = d
         /\ \A y \in Cache : Count(y)' = Count(y)
         /\ \A x, y \in Cache : Ack(x, y)' <=> Ack(x, y)
         /\ \A x \in Cache : responseNet'[x][Dir] = responseNet[x][Dir]
         /\ DataToDir' <=> DataToDir
<1> DEFINE m == Response("DATA_FROM_OWNER", v, 0)
<1>1. m.Type = "DATA_FROM_OWNER"
  BY Zenon DEF Response
<1> HIDE DEF m
<1>2. GoodResponse(s, d, m)
  BY Zenon, <1>1 DEF GoodResponse
<1>3. s \in Machine /\ s # Dir /\ d \in Machine /\ d # Dir
  BY Zenon, MachineFacts
<1>4. /\ ResponseQueues'
      /\ \A x, y \in Machine : responseNet'[x][y] =
           IF x = s /\ y = d THEN <<m>> ELSE responseNet[x][y]
      /\ \A x \in Machine, y \in Cache :
           Data(x, y)' <=> Data(x, y) \/ (x = s /\ y = d /\ m.Type # "ACK")
      /\ \A y \in Cache :
           /\ Answered(y)' <=> Answered(y) \/ (y = d /\ m.Type # "ACK")
           /\ Count(y)' = IF s = Dir /\ y = d THEN m.AckCount ELSE Count(y)
      /\ \A x, y \in Cache :
           Ack(x, y)' <=> Ack(x, y) \/ (x = s /\ y = d /\ m.Type = "ACK")
      /\ DataToDir' <=> DataToDir \/ d = Dir
  BY Zenon, <1>2, <1>3, ResponseSent DEF m
<1> QED BY Zenon, <1>1, <1>3, <1>4, MachineFacts

\* Data from the directory to a cache.
LEMMA DirDataSent ==
  ASSUME TypeOK, ResponseQueues, NEW d \in Cache, NEW v, NEW n,
         responseNet[Dir][d] = <<>>, SendResponse(Dir, d, Response("DATA_FROM_DIR", v, n))
  PROVE  /\ ResponseQueues'
         /\ \A x \in Machine, y \in Cache : Data(x, y)' <=> Data(x, y) \/ (x = Dir /\ y = d)
         /\ \A y \in Cache : Answered(y)' <=> Answered(y) \/ y = d
         /\ \A y \in Cache : Count(y)' = IF y = d THEN n ELSE Count(y)
         /\ \A x, y \in Cache : Ack(x, y)' <=> Ack(x, y)
         /\ \A x \in Cache : responseNet'[x][Dir] = responseNet[x][Dir]
         /\ DataToDir' <=> DataToDir
<1> DEFINE m == Response("DATA_FROM_DIR", v, n)
<1>1. m.Type = "DATA_FROM_DIR" /\ m.AckCount = n
  BY Zenon DEF Response
<1> HIDE DEF m
<1>2. GoodResponse(Dir, d, m)
  BY Zenon, <1>1 DEF GoodResponse
<1>3. Dir \in Machine /\ d \in Machine /\ d # Dir
  BY Zenon, MachineFacts
<1>4. /\ ResponseQueues'
      /\ \A x, y \in Machine : responseNet'[x][y] =
           IF x = Dir /\ y = d THEN <<m>> ELSE responseNet[x][y]
      /\ \A x \in Machine, y \in Cache :
           Data(x, y)' <=> Data(x, y) \/ (x = Dir /\ y = d /\ m.Type # "ACK")
      /\ \A y \in Cache :
           /\ Answered(y)' <=> Answered(y) \/ (y = d /\ m.Type # "ACK")
           /\ Count(y)' = IF Dir = Dir /\ y = d THEN m.AckCount ELSE Count(y)
      /\ \A x, y \in Cache :
           Ack(x, y)' <=> Ack(x, y) \/ (x = Dir /\ y = d /\ m.Type = "ACK")
      /\ DataToDir' <=> DataToDir \/ d = Dir
  BY SMTT(40), <1>2, <1>3, ResponseSent DEF m
<1> QED BY Zenon, <1>1, <1>3, <1>4, MachineFacts

\* Data from cache s to cache d and to the directory.
LEMMA BothSent ==
  ASSUME TypeOK, ResponseQueues, NEW s \in Cache, NEW v, ~DataToDir,
         LET d == Head(forwardToCache[s]).Requestor
         IN  d \in Cache /\ responseNet[s][d] = <<>>,
         SendDataToBoth(s, v)
  PROVE  LET d == Head(forwardToCache[s]).Requestor IN
         /\ ResponseQueues'
         /\ \A x \in Machine, y \in Cache : Data(x, y)' <=> Data(x, y) \/ (x = s /\ y = d)
         /\ \A y \in Cache : (Answered(y)' <=> Answered(y) \/ y = d) /\ Count(y)' = Count(y)
         /\ \A x, y \in Cache : Ack(x, y)' <=> Ack(x, y)
         /\ \A x \in Cache : responseNet'[x][Dir] # <<>> => x = s
         /\ DataToDir'
         /\ \A x, y \in Machine : responseNet'[x][y] =
              IF x = s /\ y = d THEN <<Response("DATA_FROM_OWNER", v, 0)>>
              ELSE IF x = s /\ y = Dir THEN <<Response("DATA", v, 0)>>
              ELSE responseNet[x][y]
<1> DEFINE d == Head(forwardToCache[s]).Requestor
<1> DEFINE m == Response("DATA_FROM_OWNER", v, 0)
<1> DEFINE n == Response("DATA", v, 0)
<1>1. responseNet \in [Machine -> [Machine -> Seq(ResponseMsg)]]
  BY Zenon DEF TypeOK
<1>2. /\ d \in Cache /\ responseNet[s][d] = <<>> /\ responseNet[s][Dir] = <<>> /\ d # Dir
      /\ d \in Machine /\ s \in Machine /\ Dir \in Machine /\ s # Dir
  BY Zenon, MachineFacts DEF DataToDir
<1>3. \A y \in Machine : responseNet'[s][y] =
        IF y = d THEN Append(responseNet[s][y], m)
        ELSE IF y = Dir THEN Append(responseNet[s][y], n)
        ELSE responseNet[s][y]
  BY Zenon, <1>1, <1>2 DEF SendDataToBoth
<1>4. \A x \in Machine : x # s => responseNet'[x] = responseNet[x]
  BY Zenon, <1>1 DEF SendDataToBoth
<1>5. m.Type = "DATA_FROM_OWNER" /\ n.Type = "DATA"
  BY Zenon DEF Response
<1> HIDE DEF d, m, n
<1>6. /\ Append(<<>>, m) = <<m>> /\ Head(<<m>>) = m /\ Len(<<m>>) = 1 /\ <<m>> # <<>>
      /\ Append(<<>>, n) = <<n>> /\ Head(<<n>>) = n /\ Len(<<n>>) = 1 /\ <<n>> # <<>>
  OBVIOUS
<1>7. \A x, y \in Machine : responseNet'[x][y] =
        IF x = s /\ y = d THEN <<m>>
        ELSE IF x = s /\ y = Dir THEN <<n>> ELSE responseNet[x][y]
  BY Zenon, <1>2, <1>3, <1>4, <1>6
<1>8. ResponseQueues'
  BY <1>2, <1>5, <1>6, <1>7 DEF ResponseQueues, GoodResponse
<1>9. \A x \in Machine, y \in Cache : Data(x, y)' <=> Data(x, y) \/ (x = s /\ y = d)
  BY Zenon, <1>5, <1>6, <1>7, MachineFacts DEF Data
<1>10. \A y \in Cache : Answered(y)' <=> Answered(y) \/ y = d
  BY Zenon, <1>2, <1>9 DEF Answered
<1>11. \A y \in Cache : Count(y)' = Count(y)
  BY Zenon, <1>2, <1>7, MachineFacts DEF Count
<1>12. \A x, y \in Cache : Ack(x, y)' <=> Ack(x, y)
  BY SMTT(40), <1>2, <1>5, <1>6, <1>7, MachineFacts DEF Ack
<1>13. DataToDir' /\ \A x \in Cache : responseNet'[x][Dir] # <<>> => x = s
  BY SMTT(40), <1>2, <1>6, <1>7, MachineFacts DEF DataToDir
<1> QED BY Zenon, <1>7, <1>8, <1>9, <1>10, <1>11, <1>12, <1>13 DEF d, m, n

\* The response taken from a channel was the only one.
LEMMA ResponsePopped ==
  ASSUME TypeOK, ResponseQueues, NEW s \in Machine, NEW d \in Machine,
         responseNet[s][d] # <<>>, PopResponse(s, d)
  PROVE  /\ ResponseQueues'
         /\ \A x, y \in Machine : responseNet'[x][y] =
              IF x = s /\ y = d THEN <<>> ELSE responseNet[x][y]
         /\ Head(responseNet[s][d]) \in ResponseMsg
         /\ GoodResponse(s, d, Head(responseNet[s][d]))
         /\ \A x \in Machine, y \in Cache :
              Data(x, y)' <=> Data(x, y) /\ ~(x = s /\ y = d)
         /\ \A y \in Cache : Count(y)' = IF s = Dir /\ y = d THEN 0 ELSE Count(y)
         /\ \A x, y \in Cache : Ack(x, y)' <=> Ack(x, y) /\ ~(x = s /\ y = d)
         /\ d \in Cache => /\ DataToDir' <=> DataToDir
                           /\ \A x \in Cache : responseNet'[x][Dir] = responseNet[x][Dir]
<1>m. (\A x \in Cache : x \in Machine) /\ Dir \in Machine /\ Dir \notin Cache
  BY Zenon, MSIAssumption DEF Machine
<1>1. responseNet \in [Machine -> [Machine -> Seq(ResponseMsg)]]
  BY Zenon DEF TypeOK
<1>2. Tail(responseNet[s][d]) = <<>> /\ Head(responseNet[s][d]) \in ResponseMsg
  <2>1. responseNet[s][d] \in Seq(ResponseMsg)
    BY Zenon, <1>1
  <2>2. Len(responseNet[s][d]) = 1
    BY Zenon DEF ResponseQueues
  <2>3. Len(responseNet[s][d]) <= 1
    BY <2>2
  <2> QED BY <2>1, <2>3, TailOfOne
<1>3. \A x, y \in Machine : responseNet'[x][y] =
        IF x = s /\ y = d THEN <<>> ELSE responseNet[x][y]
  BY Zenon, <1>1, <1>2 DEF PopResponse
<1>4. ResponseQueues'
  BY <1>3 DEF ResponseQueues, GoodResponse
<1>5. \A x \in Machine, y \in Cache :
        Data(x, y)' <=> Data(x, y) /\ ~(x = s /\ y = d)
  BY Zenon, <1>3, <1>m DEF Data
<1>6. \A x, y \in Cache : Ack(x, y)' <=> Ack(x, y) /\ ~(x = s /\ y = d)
  BY Zenon, <1>3, <1>m DEF Ack
<1>7. \A y \in Cache : Count(y)' = IF s = Dir /\ y = d THEN 0 ELSE Count(y)
  BY Zenon, <1>3, <1>m DEF Count
<1>8. d \in Cache => /\ DataToDir' <=> DataToDir
                     /\ \A x \in Cache : responseNet'[x][Dir] = responseNet[x][Dir]
  BY Zenon, <1>3, <1>m DEF DataToDir
<1>9. GoodResponse(s, d, Head(responseNet[s][d]))
  BY Zenon DEF ResponseQueues
<1> QED BY Zenon, <1>2, <1>3, <1>4, <1>5, <1>6, <1>7, <1>8, <1>9

\* Nothing happens to the responses.
LEMMA ResponsesKept ==
  ASSUME ResponseQueues, UNCHANGED responseNet
  PROVE  ResponsesSame
<1>1. \A x, y : Data(x, y)' <=> Data(x, y)
  BY Zenon DEF Data
<1>2. \A y \in Cache : Answered(y)' <=> Answered(y)
  BY Zenon, <1>1 DEF Answered
<1>3. ResponseQueues' /\ (DataToDir' <=> DataToDir) /\ (\A y \in Cache : Count(y)' = Count(y))
  BY DEF ResponseQueues, DataToDir, Count, GoodResponse
<1>4. \A x, y \in Cache : Ack(x, y)' <=> Ack(x, y)
  BY Zenon DEF Ack
<1> QED BY Zenon, <1>1, <1>2, <1>3, <1>4 DEF ResponsesSame

\* Requests of one cache.
LEMMA RequestFacts ==
  ASSUME TypeOK, RequestQueues, NEW c \in Cache
  PROVE  /\ \A m, n \in Requests(c) : m = n
         /\ Requests(c) \subseteq RequestMsg
         /\ \A m \in Requests(c) : m.Requestor = c
         /\ ~Asking(c) => requestNet[c] = <<>> /\ \A i \in DOMAIN requestToDir : requestToDir[i].Requestor # c
<1>1. requestNet[c] \in Seq(RequestMsg) /\ requestToDir \in Seq(RequestMsg)
  BY Zenon DEF TypeOK
<1>2. \A m, n \in Contents(requestNet[c]) : m = n /\ m.Requestor = c /\ m \in RequestMsg
  BY <1>1 DEF Contents, RequestQueues
<1>3. \A m, n \in Contents(requestToDir) : m \in RequestMsg /\ (m.Requestor = n.Requestor => m = n)
  BY <1>1 DEF Contents, RequestQueues
<1>4. requestNet[c] # <<>> => \A m \in Contents(requestToDir) : m.Requestor # c
  BY <1>1 DEF Contents, RequestQueues
<1>5. \A i \in DOMAIN requestToDir : requestToDir[i] \in Contents(requestToDir)
  BY Zenon DEF Contents
<1>6. Contents(requestNet[c]) = {} <=> requestNet[c] = <<>>
  BY Zenon, <1>1, ContentsEmpty
<1> QED BY Zenon, <1>2, <1>3, <1>4, <1>5, <1>6 DEF Requests, Asking

\* A cache without a request on its way sends one: it is now the only one.
LEMMA RequestSent ==
  ASSUME TypeOK, RequestQueues, NEW c \in Cache, ~Asking(c),
         NEW type \in {"GETS", "GETM", "PUTS", "PUTM"}, NEW data \in Value,
         SendRequest(c, type, data), UNCHANGED requestToDir
  PROVE  /\ RequestQueues'
         /\ \A d \in Cache : Requests(d)' =
              IF d = c THEN {[Type |-> type, Requestor |-> c, DataBlk |-> data]}
              ELSE Requests(d)
         /\ \A d \in Cache :
              /\ Asking(d)' <=> Asking(d) \/ d = c
              /\ \A t : Asks(d, t)' <=> IF d = c THEN t = type ELSE Asks(d, t)
<1> DEFINE m == [Type |-> type, Requestor |-> c, DataBlk |-> data]
<1>1. requestNet \in [Cache -> Seq(RequestMsg)]
  BY Zenon DEF TypeOK
<1>2. requestNet[c] = <<>> /\ \A i \in DOMAIN requestToDir : requestToDir[i].Requestor # c
  BY Zenon, RequestFacts
<1>3. Append(<<>>, m) = <<m>> /\ Contents(<<m>>) = {m} /\ <<m>>[1] = m /\ Len(<<m>>) = 1
  BY DEF Contents
<1>4. \A d \in Cache : requestNet'[d] = IF d = c THEN <<m>> ELSE requestNet[d]
  BY Zenon, <1>1, <1>2, <1>3 DEF SendRequest
<1>5. m.Requestor = c /\ m.Type = type
  BY Zenon
<1> HIDE DEF m
<1>6. RequestQueues'
  BY <1>2, <1>3, <1>4, <1>5 DEF RequestQueues
<1>7. \A d \in Cache : Requests(d)' = IF d = c THEN {m} ELSE Requests(d)
  <2>1. \A x \in Contents(requestToDir) : x.Requestor # c
    BY Zenon, <1>2 DEF Contents
  <2>2. Contents(requestToDir)' = Contents(requestToDir)
    BY Zenon
  <2> QED BY Zenon, <1>3, <1>4, <2>1, <2>2 DEF Requests
<1>8. \A d \in Cache :
        /\ Asking(d)' <=> Asking(d) \/ d = c
        /\ \A t : Asks(d, t)' <=> IF d = c THEN t = type ELSE Asks(d, t)
  BY Zenon, <1>5, <1>7 DEF Asking, Asks
<1> QED BY Zenon, <1>6, <1>7, <1>8 DEF m

\* Nothing happens to the requests.
LEMMA RequestsKept ==
  ASSUME RequestQueues, UNCHANGED <<requestNet, requestToDir>>
  PROVE  RequestsSame /\ \A d \in Cache : Requests(d)' = Requests(d)
<1>1. \A d \in Cache : Requests(d)' = Requests(d)
  BY Zenon DEF Requests
<1>2. RequestQueues'
  BY DEF RequestQueues
<1> QED BY Zenon, <1>1, <1>2 DEF RequestsSame, Asking, Asks

\* A request that moves from the network to the directory's queue is still on
\* its way.
LEMMA RequestArrived ==
  ASSUME TypeOK, RequestQueues, NEW c \in Cache, RequestArrives(c)
  PROVE  RequestsSame /\ \A d \in Cache : Requests(d)' = Requests(d)
<1> DEFINE m == requestNet[c][1]
<1>1. requestNet \in [Cache -> Seq(RequestMsg)] /\ requestToDir \in Seq(RequestMsg)
  BY Zenon DEF TypeOK
<1>2. /\ Len(requestNet[c]) = 1 /\ m.Requestor = c
      /\ \A i \in DOMAIN requestToDir : requestToDir[i].Requestor # c
  BY Zenon DEF RequestArrives, RequestQueues
<1>3. requestNet[c] \in Seq(RequestMsg)
  BY Zenon, <1>1
<1>4. /\ m \in RequestMsg /\ Head(requestNet[c]) = m /\ Tail(requestNet[c]) = <<>>
  <2>1. requestNet[c] # <<>> /\ Len(requestNet[c]) <= 1
    BY <1>2 DEF RequestArrives
  <2>2. Tail(requestNet[c]) = <<>> /\ Head(requestNet[c]) = m
    BY Zenon, <1>3, <2>1, TailOfOne
  <2> QED BY <1>2, <1>3, <2>2
<1>5. Contents(requestNet[c]) = {m} /\ Contents(<<>>) = {}
  BY <1>2, <1>3 DEF Contents
<1>6. \A d \in Cache : requestNet'[d] = IF d = c THEN <<>> ELSE requestNet[d]
  BY Zenon, <1>1, <1>4 DEF RequestArrives
<1>7. requestToDir' = Append(requestToDir, m)
  BY Zenon, <1>4 DEF RequestArrives
<1> HIDE DEF m
<1>8. RequestQueues'
  <2>1. /\ DOMAIN requestToDir' = DOMAIN requestToDir \cup {Len(requestToDir) + 1}
        /\ requestToDir'[Len(requestToDir) + 1] = m
        /\ \A i \in DOMAIN requestToDir : requestToDir'[i] = requestToDir[i] /\ i # Len(requestToDir) + 1
    BY <1>1, <1>4, <1>7
  <2>2. \A i, j \in DOMAIN requestToDir' :
          i # j => requestToDir'[i].Requestor # requestToDir'[j].Requestor
    BY <1>2, <2>1 DEF RequestQueues
  <2>3. ASSUME NEW d \in Cache, requestNet'[d] # <<>>
        PROVE  /\ Len(requestNet'[d]) = 1
               /\ requestNet'[d][1].Requestor = d
               /\ \A i \in DOMAIN requestToDir' : requestToDir'[i].Requestor # d
    BY <1>2, <1>6, <2>1, <2>3 DEF RequestQueues
  <2> QED BY Zenon, <2>2, <2>3 DEF RequestQueues
<1>9. Contents(requestToDir)' = Contents(requestToDir) \cup {m}
  BY <1>1, <1>4, <1>7, ContentsAppend
<1>10. ASSUME NEW d \in Cache PROVE Requests(d)' = Requests(d)
  <2>1. Contents(requestNet[d])' = IF d = c THEN {} ELSE Contents(requestNet[d])
    BY Zenon, <1>5, <1>6
  <2> QED BY Zenon, <1>2, <1>5, <1>9, <2>1 DEF Requests
<1> QED BY Zenon, <1>8, <1>10 DEF RequestsSame, Asking, Asks

\* The directory's pop takes the only request of its sender.
LEMMA RequestHandled ==
  ASSUME TypeOK, RequestQueues, requestToDir # <<>>, i_popIncomingRequestQueue,
         UNCHANGED requestNet
  PROVE  /\ RequestQueues'
         /\ req \in RequestMsg /\ req \in Requests(req.Requestor) /\ req.Requestor \in Cache
         /\ \A d \in Cache :
              /\ Requests(d)' = IF d = req.Requestor THEN {} ELSE Requests(d)
              /\ Asking(d)' <=> Asking(d) /\ d # req.Requestor
              /\ \A t : Asks(d, t)' <=> Asks(d, t) /\ d # req.Requestor
         /\ Asking(req.Requestor) /\ \A t : Asks(req.Requestor, t) <=> t = req.Type
<1>1. requestNet \in [Cache -> Seq(RequestMsg)] /\ requestToDir \in Seq(RequestMsg)
  BY Zenon DEF TypeOK
<1>2. req \in RequestMsg /\ req = requestToDir[1] /\ 1 \in DOMAIN requestToDir
  BY <1>1 DEF req
<1>3. req.Requestor \in Cache
  BY Zenon, <1>2 DEF RequestMsg
<1>4. \A i \in DOMAIN requestToDir' : i + 1 \in DOMAIN requestToDir /\ requestToDir'[i] = requestToDir[i + 1]
                                      /\ i + 1 # 1 /\ i \in Int
  BY <1>1 DEF i_popIncomingRequestQueue
<1>5. RequestQueues'
  <2>1. ASSUME NEW i \in DOMAIN requestToDir', NEW j \in DOMAIN requestToDir', i # j
        PROVE  requestToDir'[i].Requestor # requestToDir'[j].Requestor
    <3>1. i + 1 # j + 1
      BY <1>4, <2>1
    <3> QED BY <1>4, <3>1 DEF RequestQueues
  <2>2. ASSUME NEW d \in Cache, requestNet'[d] # <<>>
        PROVE  /\ Len(requestNet'[d]) = 1
               /\ requestNet'[d][1].Requestor = d
               /\ \A i \in DOMAIN requestToDir' : requestToDir'[i].Requestor # d
    BY <1>4, <2>2 DEF RequestQueues
  <2> QED BY Zenon, <2>1, <2>2 DEF RequestQueues
<1>6. /\ req \in Contents(requestToDir)
      /\ Contents(requestToDir) = Contents(requestToDir') \cup {req}
  BY Zenon, <1>1, ContentsTail DEF req, i_popIncomingRequestQueue
<1>7. \A x \in Contents(requestToDir') : x.Requestor # req.Requestor
  BY <1>2, <1>4 DEF RequestQueues, Contents
<1>8. requestNet[req.Requestor] = <<>> /\ Contents(<<>>) = {}
  BY <1>2, <1>3 DEF RequestQueues, Contents
<1>9. ASSUME NEW d \in Cache
      PROVE  Requests(d)' = IF d = req.Requestor THEN {} ELSE Requests(d)
  BY Zenon, <1>6, <1>7, <1>8 DEF Requests
<1>10. req \in Requests(req.Requestor)
  BY Zenon, <1>6 DEF Requests
<1>11. \A m \in Requests(req.Requestor) : m = req
  BY Zenon, <1>3, <1>10, RequestFacts
<1>12. \A d \in Cache :
        /\ Asking(d)' <=> Asking(d) /\ d # req.Requestor
        /\ \A t : Asks(d, t)' <=> Asks(d, t) /\ d # req.Requestor
  BY Zenon, <1>9 DEF Asking, Asks
<1>13. Asking(req.Requestor) /\ \A t : Asks(req.Requestor, t) <=> t = req.Type
  BY Zenon, <1>10, <1>11 DEF Asking, Asks
<1> QED BY Zenon, <1>2, <1>3, <1>5, <1>9, <1>10, <1>12, <1>13
\* Nothing happens at the memory.
LEMMA MemoryKept ==
  ASSUME Memory, UNCHANGED <<memBuffer, dirState>>
  PROVE  MemorySame
BY Zenon DEF MemorySame, Memory, InMemory

\* The directory gives the memory something to do.
LEMMA MemoryAsked ==
  ASSUME TypeOK, Memory, memBuffer = <<>>,
         NEW type \in {"MEMORY_READ", "MEMORY_WB"}, NEW c \in Cache, NEW data,
         QueueMemory(type, c, data),
         dirState' \in IF type = "MEMORY_READ" THEN {"IS_MD", "IM_MD"} ELSE {"MS_MA", "MI_MA"}
  PROVE  /\ Memory'
         /\ \A d \in Cache : ~InMemory(d)
         /\ \A d \in Cache : InMemory(d)' <=> d = c /\ dirState' # "MS_MA"
         /\ memBuffer' # <<>> /\ Head(memBuffer').DataBlk = data
<1> DEFINE m == [Type |-> type, OriginalRequestor |-> c, DataBlk |-> data]
<1>1. Append(<<>>, m) = <<m>> /\ Head(<<m>>) = m /\ Len(<<m>>) = 1 /\ <<m>> # <<>>
  OBVIOUS
<1>2. memBuffer' = <<m>>
  BY Zenon, <1>1 DEF QueueMemory
<1>3. m.Type = type /\ m.OriginalRequestor = c /\ m.DataBlk = data
  BY Zenon
<1> HIDE DEF m
<1>4. Memory'
  BY <1>1, <1>2, <1>3 DEF Memory
<1> QED BY Zenon, <1>1, <1>2, <1>3, <1>4 DEF InMemory

\* The memory is done.
LEMMA MemoryDone ==
  ASSUME TypeOK, Memory, memBuffer # <<>>, qm_popMemQueue,
         dirState' \notin {"IS_MD", "IM_MD", "MS_MA", "MI_MA"}
  PROVE  /\ Memory'
         /\ \A d \in Cache : ~InMemory(d)'
         /\ memBuffer' = <<>>
         /\ Head(memBuffer) \in MemoryMsg
<1>1. memBuffer \in Seq(MemoryMsg) /\ Len(memBuffer) <= 1
  BY Zenon DEF TypeOK, Memory
<1>2. Tail(memBuffer) = <<>> /\ Head(memBuffer) \in MemoryMsg
  BY <1>1, TailOfOne
<1>3. Len(<<>>) = 0
  BY Zenon
<1> QED BY <1>2, <1>3 DEF qm_popMemQueue, InMemory, Memory
-----------------------------------------------------------------------------
\* What a message at the head of a queue can be.
LEMMA ForwardKind ==
  ASSUME TypeOK, NEW c \in Cache
  PROVE  /\ ForwardReady(c, "Inv") => forwardToCache[c] # <<>> /\ Head(forwardToCache[c]).Type = "INV"
         /\ ForwardReady(c, "Fwd_GetS") => forwardToCache[c] # <<>> /\ Head(forwardToCache[c]).Type = "GETS"
         /\ ForwardReady(c, "Fwd_GetM") => forwardToCache[c] # <<>> /\ Head(forwardToCache[c]).Type = "GETM"
         /\ ForwardReady(c, "WB_Ack") => forwardToCache[c] # <<>> /\ Head(forwardToCache[c]).Type = "WB_ACK"
<1>1. forwardToCache[c] # <<>> => Head(forwardToCache[c]) \in ForwardMsg
  BY DEF TypeOK
<1>2. forwardToCache[c] # <<>> => Head(forwardToCache[c]).Type \in {"GETS", "GETM", "INV", "WB_ACK"}
  BY Zenon, <1>1 DEF ForwardMsg
<1> QED BY <1>2 DEF ForwardReady, ForwardEvent

\* The response at the head of a channel to a cache, by the event the cache's
\* response port derives from it.
LEMMA ResponseKind ==
  ASSUME TypeOK, ResponseQueues, NEW c \in Cache, NEW s \in Machine, responseNet[s][c] # <<>>
  PROVE  LET m == Head(responseNet[s][c])
             e == ResponseEvent(c, m)
         IN  /\ m \in ResponseMsg
             /\ \/ /\ s = Dir /\ m.Type = "DATA_FROM_DIR" /\ m.AckCount = 0
                   /\ e = "Data_from_Dir_No_Acks"
                \/ /\ s = Dir /\ m.Type = "DATA_FROM_DIR" /\ m.AckCount # 0
                   /\ m.AckCount = pendingAcks[c]
                   /\ e = "Data_from_Dir_Ack_Cnt_Last"
                \/ /\ s = Dir /\ m.Type = "DATA_FROM_DIR" /\ m.AckCount # 0
                   /\ m.AckCount # pendingAcks[c]
                   /\ e = "Data_from_Dir_Ack_Cnt"
                \/ /\ s \in Cache /\ m.Type = "DATA_FROM_OWNER"
                   /\ e = "Data_from_Owner"
                \/ /\ s \in Cache /\ m.Type = "ACK" /\ m.AckCount = 1
                   /\ pendingAcks[c] = 1 /\ e = "Inv_Ack_all"
                \/ /\ s \in Cache /\ m.Type = "ACK" /\ m.AckCount = 1
                   /\ pendingAcks[c] # 1 /\ e = "Inv_Ack"
<1> DEFINE m == Head(responseNet[s][c])
<1>1. c \in Machine /\ c # Dir
  BY Zenon, MachineFacts
<1>2. m \in ResponseMsg
  <2>1. responseNet[s][c] \in Seq(ResponseMsg)
    BY <1>1 DEF TypeOK
  <2> QED BY <2>1
<1>3. \/ s = Dir /\ m.Type = "DATA_FROM_DIR"
      \/ s \in Cache /\ m.Type = "DATA_FROM_OWNER"
      \/ s \in Cache /\ m.Type = "ACK" /\ m.AckCount = 1
  BY Zenon, <1>1 DEF ResponseQueues, GoodResponse
<1>4. m.AckCount \in Int /\ pendingAcks[c] \in Int
  BY Zenon, <1>2 DEF ResponseMsg, TypeOK
<1>5. pendingAcks[c] - m.AckCount = 0 <=> m.AckCount = pendingAcks[c]
  BY <1>4
<1> HIDE DEF m
<1>6. CASE m.Type = "DATA_FROM_DIR"
  BY Zenon, <1>2, <1>3, <1>5, <1>6 DEF ResponseEvent, m
<1>7. CASE m.Type = "DATA_FROM_OWNER"
  BY Zenon, <1>2, <1>3, <1>7 DEF ResponseEvent, m
<1>8. CASE m.Type = "ACK"
  BY Zenon, <1>2, <1>3, <1>5, <1>8 DEF ResponseEvent, m
<1> QED BY Zenon, <1>3, <1>6, <1>7, <1>8

\* The channel from the directory carries data only.
LEMMA DirChannel ==
  ASSUME ResponseQueues, NEW c \in Cache
  PROVE  /\ responseNet[Dir][c] # <<>> <=> Data(Dir, c)
         /\ Count(c) = IF Data(Dir, c) THEN Head(responseNet[Dir][c]).AckCount ELSE 0
<1>1. responseNet[Dir][c] # <<>> <=> Data(Dir, c)
  BY Zenon, MachineFacts DEF ResponseQueues, GoodResponse, Data
<1> QED BY Zenon, <1>1 DEF Count

\* The request at the head of the directory's queue, by its event.
LEMMA RequestKind ==
  ASSUME TypeOK, requestToDir # <<>>
  PROVE  LET e == RequestEvent(req) IN
         \/ req.Type = "GETS" /\ e = "GETS"
         \/ req.Type = "GETM" /\ e = "GETM"
         \/ req.Type = "PUTM" /\ req.Requestor \in Owner /\ e = "PUTM_Owner"
         \/ req.Type = "PUTM" /\ req.Requestor \notin Owner /\ e = "PUTM_NotOwner"
         \/ req.Type = "PUTS" /\ e \in {"PUTS_Last", "PUTS_NotLast"}
<1>1. req \in RequestMsg
  BY DEF TypeOK, req
<1>2. req.Type \in {"GETS", "GETM", "PUTS", "PUTM"}
  BY Zenon, <1>1 DEF RequestMsg
<1> QED BY Zenon, <1>2 DEF RequestEvent

\* The last of several facts about sets of caches.
CardFacts ==
  \A S \in SUBSET Cache :
    /\ Cardinality(S) \in Nat
    /\ Cardinality(S) = 0 <=> S = {}
    /\ \A x \in S : Cardinality(S \ {x}) = Cardinality(S) - 1

\* The count of a cache to which nobody owes an acknowledgement.
LEMMA NoAcks ==
  ASSUME AckTargets, AckCounts, CardFacts, NEW c \in Cache, ~Gathering(c)
  PROVE  Owing(c) = {} /\ pendingAcks[c] = 0 /\ Count(c) = 0
<1>1. Owing(c) = {}
  BY Zenon DEF AckTargets, Owing
<1> QED BY Zenon, <1>1 DEF AckCounts

-----------------------------------------------------------------------------
(***************************************************************************)
(* The mandatory queue, and forwards that find the line shared or absent.  *)
(***************************************************************************)
\* Nothing the invariant looks at changes, or a request moves on.
LEMMA KeptOK ==
  ASSUME TypeOK, Coherent, RequestsSame, UNCHANGED <<cacheState, pendingAcks,
         forwardToCache, responseNet, dirState, Sharers, Owner, memBuffer>>
  PROVE  Coherent'
<1>t. Sharers \subseteq Cache /\ Dir \in Machine
  BY Zenon DEF TypeOK, Machine
<1> USE DEF Coherent
<1>f. ForwardsSame
  BY Zenon, ForwardsKept
<1>d. ResponsesSame
  BY Zenon, ResponsesKept
<1>n. MemorySame
  BY Zenon, MemoryKept
<1> USE <1>f, <1>d, <1>n DEF RequestsSame, ForwardsSame, ResponsesSame, MemorySame
<1>1. Carried'
  BY ZenonT(40) DEF Carried, CarriedOnce
<1>2. AskAgrees' /\ AnswerAgrees' /\ MemoryAgrees'
  BY Zenon DEF AskAgrees, AnswerAgrees, MemoryAgrees
<1>3. (\A c \in Cache : Token(c)' <=> Token(c)) /\ (DirToken' <=> DirToken)
  BY Zenon DEF Token, DirToken
<1>4. \A c, d \in Cache : (Owes(d, c)' <=> Owes(d, c)) /\ (Gathering(c)' <=> Gathering(c))
  BY Zenon, <1>t DEF Owes, Gathering
<1>5. \A c \in Cache : Owing(c)' = Owing(c)
  BY Zenon, <1>4 DEF Owing
<1>6. OneToken' /\ AckTargets'
  BY Zenon, <1>3, <1>4 DEF OneToken, AckTargets
<1>7. AckCounts'
  BY Zenon, <1>4, <1>5 DEF AckCounts
<1>8. Readers' /\ InvTargets'
  BY Zenon, <1>3 DEF Readers, Reader, InvTargets
<1>9. FwdTargets' /\ OwnerAnswers'
  BY Zenon DEF FwdTargets, OwnerAnswers, Possessor
<1>10. KnownSharers'
  BY Zenon, <1>t, <1>3 DEF KnownSharers, KnownSharer
<1> QED BY Zenon, <1>1, <1>2, <1>6, <1>7, <1>8, <1>9, <1>10

\* A cache sends a request for the line, or gives it up.
LEMMA IssueOK ==
  ASSUME TypeOK, Coherent, NEW c \in Cache,
         as_issueGetS(c) \/ am_issueGetM(c) \/ Replacement(c)
  PROVE  Coherent'
<1>t. /\ cacheState \in [Cache -> CacheStates] /\ DataBlk[c] \in Value /\ InitValue \in Value
      /\ Sharers \subseteq Cache /\ Dir \in Machine
  BY Zenon, MSIAssumption DEF TypeOK, Machine
<1>u. UNCHANGED <<pendingAcks, requestToDir, forwardToCache, responseNet, dirState,
                  Sharers, Owner, memBuffer>>
  BY Zenon DEF as_issueGetS, am_issueGetM, Replacement, dirVars
<1>1. PICK type \in {"GETS", "GETM", "PUTS", "PUTM"}, data \in Value :
        /\ SendRequest(c, type, data)
        /\ \/ cacheState[c] = "I" /\ cacheState'[c] = "IS_D" /\ type = "GETS"
           \/ cacheState[c] = "I" /\ cacheState'[c] = "IM_AD" /\ type = "GETM"
           \/ cacheState[c] = "S" /\ cacheState'[c] = "SM_AD" /\ type = "GETM"
           \/ cacheState[c] = "S" /\ cacheState'[c] = "SI_A" /\ type = "PUTS"
           \/ cacheState[c] = "M" /\ cacheState'[c] = "MI_A" /\ type = "PUTM"
  <2>1. CASE as_issueGetS(c)
    BY Zenon, <2>1, <1>t DEF as_issueGetS, SetState
  <2>2. CASE am_issueGetM(c)
    BY Zenon, <2>2, <1>t DEF am_issueGetM, SetState
  <2>3. CASE Replacement(c)
    BY Zenon, <2>3, <1>t DEF Replacement, SetState
  <2> QED BY Zenon, <2>1, <2>2, <2>3
<1>2. \A d \in Cache : d # c => cacheState'[d] = cacheState[d]
  BY Zenon, <1>t DEF as_issueGetS, am_issueGetM, Replacement, SetState
<1>3. /\ cacheState[c] \in {"I", "S", "M"}
      /\ cacheState'[c] \in {"IS_D", "IM_AD", "SM_AD", "SI_A", "MI_A"}
      /\ cacheState[c] = "M" <=> cacheState'[c] = "MI_A"
      /\ cacheState[c] = "S" <=> cacheState'[c] \in {"SM_AD", "SI_A"}
  BY Zenon, <1>1
<1> USE DEF Coherent
<1>4. ~Asking(c) /\ ~InMemory(c) /\ ~Forwarded(c) /\ ~WbAcked(c) /\ ~Answered(c)
  BY SMTT(40), <1>3 DEF Carried, CarriedOnce, Outstanding, Gets, Puts
<1>a. /\ RequestQueues'
      /\ \A d \in Cache :
           /\ Asking(d)' <=> Asking(d) \/ d = c
           /\ \A t : Asks(d, t)' <=> IF d = c THEN t = type ELSE Asks(d, t)
  BY Zenon, <1>u, <1>1, <1>4, RequestSent
<1>f. ForwardsSame
  BY Zenon, <1>u, ForwardsKept
<1>d. ResponsesSame
  BY Zenon, <1>u, ResponsesKept
<1>n. MemorySame
  BY Zenon, <1>u, MemoryKept
<1> USE <1>u, <1>a, <1>f, <1>d, <1>n DEF ForwardsSame, ResponsesSame, MemorySame
<1>5. \A x \in Cache : Token(x)' <=> Token(x)
  <2>1. Token(c)' <=> Token(c)
    BY Zenon, <1>3, <1>4 DEF Token, Gets, Counting
  <2>2. \A x \in Cache : x # c => (Token(x)' <=> Token(x))
    BY Zenon, <1>2 DEF Token
  <2> QED BY Zenon, <2>1, <2>2
<1>6. DirToken' <=> DirToken
  BY Zenon DEF DirToken
<1>7. \A x \in Cache : Gathering(x)' <=> Gathering(x)
  <2>1. ~Data(Dir, c)
    BY Zenon, <1>4, <1>t DEF Answered
  <2> QED BY Zenon, <2>1, <1>2, <1>3, <1>t DEF Gathering, Gets, Counting
<1>8. \A x, d \in Cache : Owes(d, x)' <=> Owes(d, x)
  BY Zenon DEF Owes
<1>9. Carried'
  <2>1. cacheState'[c] \in Outstanding
    BY Zenon, <1>3 DEF Outstanding, Gets, Puts
  <2> QED BY ZenonT(40), <2>1, <1>2, <1>4 DEF Carried, CarriedOnce
<1>10. AskAgrees'
  <2>1. /\ type = "GETS" => cacheState'[c] = "IS_D"
        /\ type = "GETM" => cacheState'[c] \in Gets
        /\ type = "PUTS" => cacheState'[c] \in {"SI_A", "II_A"}
        /\ type = "PUTM" => cacheState'[c] \in Puts
    BY Zenon, <1>1 DEF Gets, Puts
  <2> QED BY Zenon, <1>2, <2>1 DEF AskAgrees
<1>11. AnswerAgrees'
  <2>1. \A d \in Cache : ~Fwd(d, "GETS", c) /\ ~Fwd(d, "GETM", c)
    BY Zenon, <1>4 DEF Forwarded, Forward
  <2> QED BY ZenonT(40), <2>1, <1>2, <1>4 DEF AnswerAgrees
<1>20. MemoryAgrees'
  BY Zenon, <1>2, <1>4 DEF MemoryAgrees
<1>12. OneToken'
  BY Zenon, <1>5, <1>6 DEF OneToken
<1>13. AckTargets'
  BY Zenon, <1>7, <1>8 DEF AckTargets
<1>14. AckCounts'
  <2>1. \A x \in Cache : Owing(x)' = Owing(x)
    BY Zenon, <1>8 DEF Owing
  <2>2. \A x \in Cache : cacheState'[x] \in Counting <=> cacheState[x] \in Counting
    BY Zenon, <1>2, <1>3 DEF Counting
  <2> QED BY Zenon, <2>1, <2>2, <1>7 DEF AckCounts
<1>15. Readers'
  BY Zenon, <1>2, <1>3, <1>4, <1>5, <1>6 DEF Readers, Reader
<1>16. InvTargets'
  BY Zenon, <1>2, <1>3 DEF InvTargets
<1>17. FwdTargets'
  BY Zenon, <1>2, <1>3, <1>4 DEF FwdTargets, Possessor, Gets, Counting
<1>18. OwnerAnswers'
  BY Zenon DEF OwnerAnswers
<1>19. KnownSharers'
  BY ZenonT(40), <1>2, <1>3, <1>6, <1>t DEF KnownSharers, KnownSharer
<1> QED BY Zenon, <1>9, <1>10, <1>11, <1>12, <1>13, <1>14, <1>15, <1>16, <1>17, <1>18, <1>19, <1>20

\* An invalidation is acknowledged.
LEMMA AcknowledgeOK ==
  ASSUME TypeOK, Coherent, NEW c \in Cache, AckInv(c) \/ InvalidateS(c)
  PROVE  Coherent'
<1> DEFINE r0 == Head(forwardToCache[c]).Requestor
<1>t. cacheState \in [Cache -> CacheStates] /\ Sharers \subseteq Cache
  BY Zenon DEF TypeOK
<1>u. /\ UNCHANGED <<pendingAcks, requestNet, requestToDir, dirState, Sharers, Owner, memBuffer>>
      /\ ForwardReady(c, "Inv")
      /\ o_popForwardedRequestQueue(c)
      /\ SendResponse(c, r0, Response("ACK", InitValue, 1))
  BY Zenon DEF AckInv, InvalidateS, fi_sendInvAck, dirVars
<1>s. /\ \A d \in Cache : d # c => cacheState'[d] = cacheState[d]
      /\ \/ cacheState[c] \in {"I", "S"} /\ cacheState'[c] = "I"
         \/ cacheState[c] = "SM_AD" /\ cacheState'[c] = "IM_AD"
         \/ cacheState[c] = "SI_A" /\ cacheState'[c] = "II_A"
  BY Zenon, <1>t DEF AckInv, InvalidateS, SetState, I_Inv, SM_AD_Inv, SI_A_Inv
<1>1. forwardToCache[c] # <<>> /\ Head(forwardToCache[c]).Type = "INV"
  BY Zenon, <1>u, ForwardKind
<1> USE DEF Coherent
<1>f. /\ ForwardQueues'
      /\ \A d, r \in Cache :
              /\ Fwd(d, "GETS", r)' <=> Fwd(d, "GETS", r)
              /\ Fwd(d, "GETM", r)' <=> Fwd(d, "GETM", r)
              /\ Fwd(d, "INV", r)' <=> Fwd(d, "INV", r) /\ d # c
      /\ \A d \in Cache : (WbAcked(d)' <=> WbAcked(d)) /\ (Invalidated(d)' <=> Invalidated(d) /\ d # c)
      /\ r0 \in Cache /\ \A r \in Cache : Fwd(c, "INV", r) <=> r = r0
  BY ZenonT(40), <1>1, <1>u, ForwardPopped
<1> HIDE DEF r0
<1>h. /\ \A d, r \in Cache : Forward(d, r)' <=> Forward(d, r)
      /\ \A d \in Cache : (HasForward(d)' <=> HasForward(d)) /\ (Forwarded(d)' <=> Forwarded(d))
  BY Zenon, <1>f DEF Forward, HasForward, Forwarded
<1>v. Invalidated(c)
  BY Zenon, <1>f DEF Invalidated
<1>a. RequestsSame
  BY Zenon, <1>u, RequestsKept
<1>n. MemorySame
  BY Zenon, <1>u, MemoryKept
<1>g. Gathering(r0) /\ c # r0 /\ ~Ack(c, r0)
  BY Zenon, <1>f DEF AckTargets, Owes
<1>e. responseNet[c][r0] = <<>>
  <2>1. ~Data(c, r0)
    BY Zenon, <1>g, <1>f, MachineFacts DEF Gathering, AnswerAgrees, Answered, Gets, Counting, Carried, CarriedOnce
  <2> QED BY Zenon, <1>g, <2>1 DEF Data, Ack
<1>d. /\ ResponseQueues'
      /\ \A x \in Machine, y \in Cache : Data(x, y)' <=> Data(x, y)
      /\ \A y \in Cache : (Answered(y)' <=> Answered(y)) /\ Count(y)' = Count(y)
      /\ \A x, y \in Cache : Ack(x, y)' <=> Ack(x, y) \/ (x = c /\ y = r0)
      /\ \A x \in Cache : responseNet'[x][Dir] = responseNet[x][Dir]
      /\ DataToDir' <=> DataToDir
  BY Zenon, <1>e, <1>f, <1>u, AckSent
<1> USE <1>u, <1>a, <1>f, <1>h, <1>d, <1>n DEF RequestsSame, MemorySame
<1>2. \A x \in Cache : Token(x)' <=> Token(x)
  BY Zenon, <1>s DEF Token, Gets, Counting
<1>3. DirToken' <=> DirToken
  BY Zenon DEF DirToken
<1>4. \A x \in Cache : Gathering(x)' <=> Gathering(x)
  BY Zenon, <1>s, MachineFacts DEF Gathering, Gets, Counting
<1>5. \A x, d \in Cache : Owes(d, x)' <=> Owes(d, x)
  BY Zenon DEF Owes
<1>6. Carried'
  <2>1. \A x \in Cache : cacheState'[x] \in Outstanding <=> cacheState[x] \in Outstanding
    BY Zenon, <1>s DEF Outstanding, Gets, Puts
  <2> QED BY ZenonT(40), <2>1 DEF Carried, CarriedOnce
<1>7. AskAgrees'
  BY Zenon, <1>s, <1>v DEF AskAgrees, Gets, Puts, InvTargets
<1>8. AnswerAgrees'
  <2>1. \A x \in Cache : (WbAcked(x) => cacheState'[x] \in Puts) /\ (Answered(x) => cacheState'[x] \in Gets \cup {"IS_D"})
    BY Zenon, <1>s DEF AnswerAgrees, Gets, Puts
  <2>2. \A x, d \in Cache : (Fwd(d, "GETS", x) => cacheState'[x] = "IS_D") /\ (Fwd(d, "GETM", x) => cacheState'[x] \in Gets)
    BY Zenon, <1>s DEF AnswerAgrees, Gets, Puts
  <2> QED BY Zenon, <2>1, <2>2 DEF AnswerAgrees
<1>17. MemoryAgrees'
  BY ZenonT(40), <1>s, <1>v DEF MemoryAgrees, InvTargets
<1>9. OneToken'
  BY Zenon, <1>2, <1>3 DEF OneToken
<1>10. AckTargets'
  BY Zenon, <1>4, <1>5, <1>g DEF AckTargets
<1>11. AckCounts'
  <2>1. \A x \in Cache : Owing(x)' = Owing(x)
    BY Zenon, <1>5 DEF Owing
  <2>2. \A x \in Cache : cacheState'[x] \in Counting <=> cacheState[x] \in Counting
    BY Zenon, <1>s DEF Counting
  <2> QED BY Zenon, <2>1, <2>2, <1>4 DEF AckCounts
<1>12. Readers'
  BY Zenon, <1>s, <1>2, <1>3 DEF Readers, Reader
<1>13. InvTargets'
  BY Zenon, <1>s DEF InvTargets
<1>14. FwdTargets'
  BY Zenon, <1>s DEF FwdTargets, Possessor, Gets, Counting
<1>15. OwnerAnswers'
  BY Zenon DEF OwnerAnswers
<1>16. KnownSharers'
  BY ZenonT(40), <1>s, <1>3, <1>v, <1>t DEF KnownSharers, KnownSharer
<1> QED BY Zenon, <1>6, <1>7, <1>8, <1>9, <1>10, <1>11, <1>12, <1>13, <1>14, <1>15, <1>16, <1>17

-----------------------------------------------------------------------------
(***************************************************************************)
(* Forwards to an owner, and the acknowledgement of a write-back.          *)
(***************************************************************************)
\* An owner answers a GETS.
LEMMA FwdGetSOK ==
  ASSUME TypeOK, Coherent, NEW c \in Cache, FwdGetS(c)
  PROVE  Coherent'
<1>t. cacheState \in [Cache -> CacheStates] /\ Sharers \subseteq Cache
  BY Zenon DEF TypeOK
<1>u. /\ UNCHANGED <<pendingAcks, requestNet, requestToDir, dirState, Sharers, Owner, memBuffer>>
      /\ ForwardReady(c, "Fwd_GetS")
      /\ o_popForwardedRequestQueue(c)
      /\ \E v : SendDataToBoth(c, v)
  BY Zenon DEF FwdGetS, dirVars
<1>s. /\ \A d \in Cache : d # c => cacheState'[d] = cacheState[d]
      /\ \/ cacheState[c] = "M" /\ cacheState'[c] = "S"
         \/ cacheState[c] = "MI_A" /\ cacheState'[c] = "SI_A"
  BY Zenon, <1>t DEF FwdGetS, SetState
<1>1. forwardToCache[c] # <<>> /\ Head(forwardToCache[c]).Type = "GETS"
  BY Zenon, <1>u, ForwardKind
<1> USE DEF Coherent
<1>r. PICK r0 \in Cache : r0 = Head(forwardToCache[c]).Requestor
  BY Zenon, <1>1, <1>u, ForwardPopped
<1>f. /\ ForwardQueues'
      /\ \A d, r \in Cache :
              /\ Fwd(d, "GETS", r)' <=> Fwd(d, "GETS", r) /\ ~(d = c /\ r = r0)
              /\ Fwd(d, "GETM", r)' <=> Fwd(d, "GETM", r)
              /\ Fwd(d, "INV", r)' <=> Fwd(d, "INV", r)
      /\ \A d \in Cache : (WbAcked(d)' <=> WbAcked(d)) /\ (Invalidated(d)' <=> Invalidated(d))
      /\ r0 \in Cache /\ Fwd(c, "GETS", r0)
  <2>1. /\ ForwardQueues'
        /\ \A d, r \in Cache :
              /\ Fwd(d, "GETS", r)' <=> Fwd(d, "GETS", r) /\ ~(d = c /\ r = r0)
              /\ Fwd(d, "GETM", r)' <=> Fwd(d, "GETM", r)
              /\ Fwd(d, "INV", r)' <=> Fwd(d, "INV", r) /\ d # c
        /\ \A d \in Cache : (WbAcked(d)' <=> WbAcked(d)) /\ (Invalidated(d)' <=> Invalidated(d) /\ d # c)
        /\ \A r \in Cache : ~Fwd(c, "INV", r)
        /\ r0 \in Cache /\ Fwd(c, "GETS", r0)
    <3> DEFINE m == Head(forwardToCache[c])
    <3>1. m.Type = "GETS" /\ m.Type # "GETM" /\ m.Type # "INV" /\ m.Type # "WB_ACK"
      BY <1>1
    <3>2. /\ ForwardQueues'
          /\ \A d, r \in Cache :
               /\ Fwd(d, "GETS", r)' <=> Fwd(d, "GETS", r) /\ ~(d = c /\ m.Type = "GETS" /\ m.Requestor = r)
               /\ Fwd(d, "GETM", r)' <=> Fwd(d, "GETM", r) /\ ~(d = c /\ m.Type = "GETM" /\ m.Requestor = r)
               /\ Fwd(d, "INV", r)' <=> Fwd(d, "INV", r) /\ d # c
          /\ \A d \in Cache :
               /\ WbAcked(d)' <=> WbAcked(d) /\ ~(d = c /\ m.Type = "WB_ACK")
               /\ Invalidated(d)' <=> Invalidated(d) /\ d # c
          /\ \A r \in Cache : Fwd(c, "INV", r) => m.Type = "INV" /\ m.Requestor = r
          /\ m.Type # "WB_ACK" => m.Requestor \in Cache /\ Fwd(c, m.Type, m.Requestor)
      BY Zenon, <1>1, <1>u, ForwardPopped
    <3>3. Fwd(c, "GETS", r0)
      BY Zenon, <1>r, <3>1, <3>2
    <3> HIDE DEF m
    <3>4. m.Requestor = r0
      BY Zenon, <1>r DEF m
    <3> QED
      BY Zenon, <3>1, <3>2, <3>3, <3>4
  <2>2. ~Invalidated(c)
    BY Zenon, <2>1 DEF Invalidated
  <2> QED BY Zenon, <2>1, <2>2
<1>2. /\ cacheState[r0] = "IS_D" /\ r0 # c /\ Forwarded(r0) /\ HasForward(c) /\ Forward(c, r0)
      /\ dirState = "MS_OD" /\ ~DataToDir /\ r0 \in Sharers
      /\ ~Answered(r0) /\ ~Asking(r0) /\ ~InMemory(r0) /\ ~WbAcked(r0)
      /\ \A d \in Cache : ~Fwd(d, "GETM", r0)
  <2>1. cacheState[r0] = "IS_D"
    BY Zenon, <1>f DEF AnswerAgrees
  <2>2. r0 # c
    BY Zenon, <2>1, <1>s
  <2>3. Forward(c, r0) /\ Forwarded(r0) /\ HasForward(c)
    BY Zenon, <1>f DEF Forward, Forwarded, HasForward
  <2>4. \A d \in Cache : ~Fwd(d, "GETM", r0)
    BY Zenon, <2>1, <1>f DEF AnswerAgrees, Gets
  <2> QED BY ZenonT(40), <2>1, <2>2, <2>3, <2>4, <1>f DEF Carried, CarriedOnce, OwnerAnswers
<1>h. /\ \A d, r \in Cache : Forward(d, r)' <=> Forward(d, r) /\ ~(d = c /\ r = r0)
      /\ \A d \in Cache : HasForward(d)' <=> HasForward(d) /\ d # c
      /\ \A d \in Cache : Forwarded(d)' <=> Forwarded(d) /\ d # r0
  <2>1. \A d, r \in Cache : Forward(d, r)' <=> Forward(d, r) /\ ~(d = c /\ r = r0)
    BY Zenon, <1>f, <1>2 DEF Forward
  <2>2. \A r \in Cache : Forward(c, r) => r = r0
    BY Zenon, <1>f, <1>2 DEF FwdTargets
  <2>3. \A d \in Cache : Forward(d, r0) => d = c
    BY ZenonT(40), <1>f, <1>2 DEF Carried, CarriedOnce
  <2>4. \A d \in Cache : HasForward(d)' <=> HasForward(d) /\ d # c
    BY Zenon, <2>1, <2>2 DEF HasForward
  <2>5. \A d \in Cache : Forwarded(d)' <=> Forwarded(d) /\ d # r0
    BY Zenon, <2>1, <2>3 DEF Forwarded
  <2> QED BY Zenon, <2>1, <2>4, <2>5
<1>a. RequestsSame
  BY Zenon, <1>u, RequestsKept
<1>n. MemorySame
  BY Zenon, <1>u, MemoryKept
<1>e. responseNet[c][r0] = <<>> /\ responseNet[c][Dir] = <<>>
  <2>1. ~Data(c, r0) /\ responseNet[c][Dir] = <<>>
    BY Zenon, <1>2, MachineFacts DEF Answered, DataToDir
  <2>2. ~Ack(c, r0)
    BY Zenon, <1>2, <1>f DEF AckTargets, Owes, Gathering, Counting, Gets
  <2> QED BY Zenon, <2>1, <2>2 DEF Data, Ack
<1>d. /\ ResponseQueues'
      /\ \A x \in Machine, y \in Cache : Data(x, y)' <=> Data(x, y) \/ (x = c /\ y = r0)
      /\ \A y \in Cache : (Answered(y)' <=> Answered(y) \/ y = r0) /\ Count(y)' = Count(y)
      /\ \A x, y \in Cache : Ack(x, y)' <=> Ack(x, y)
      /\ \A x \in Cache : responseNet'[x][Dir] # <<>> => x = c
      /\ DataToDir'
  BY ZenonT(40), <1>e, <1>f, <1>u, <1>2, <1>r, BothSent
<1> USE DEF RequestsSame, MemorySame
<1>3. Token(c) /\ ~DirToken /\ \A x \in Cache : Token(x) => x = c
  BY Zenon, <1>s, <1>2 DEF Token, Counting, OneToken
<1>4. (\A x \in Cache : ~Token(x)') /\ DirToken'
  <2>1. ~Token(c)'
    BY Zenon, <1>s DEF Token, Gets, Counting
  <2>2. \A x \in Cache : x # c => (Token(x)' => Token(x))
    BY Zenon, <1>s, <1>a, <1>h, <1>d, <1>2 DEF Token, Gets, Counting
  <2>3. DirToken'
    BY Zenon, <1>2, <1>u, <1>d DEF DirToken
  <2> QED BY Zenon, <2>1, <2>2, <2>3, <1>3
<1>5. \A x \in Cache : Gathering(x)' <=> Gathering(x)
  BY Zenon, <1>s, <1>d, MachineFacts DEF Gathering, Gets, Counting
<1>6. \A x, d \in Cache : Owes(d, x)' <=> Owes(d, x)
  BY Zenon, <1>f, <1>d DEF Owes
<1>7. Carried'
  <2>1. \A x \in Cache : cacheState'[x] \in Outstanding <=> cacheState[x] \in Outstanding
    BY Zenon, <1>s DEF Outstanding, Gets, Puts
  <2>2. CarriedOnce(r0)'
    <3>1. \A s \in Machine : ~Data(s, r0)
      BY Zenon, <1>2 DEF Answered
    <3>2. \A s, t \in Machine : Data(s, r0)' /\ Data(t, r0)' => s = t
      BY Zenon, <3>1, <1>d
    <3>3. ~Forwarded(r0)' /\ Answered(r0)' /\ ~Asking(r0)' /\ ~InMemory(r0)' /\ ~WbAcked(r0)'
      BY Zenon, <1>2, <1>a, <1>d, <1>f, <1>h, <1>n
    <3>4. \A d \in Cache : ~Forward(d, r0)'
      BY Zenon, <3>3, <1>f DEF Forwarded
    <3>5. cacheState'[r0] \in Outstanding
      BY Zenon, <1>2, <1>s, <1>f DEF Outstanding
    <3> QED BY Zenon, <3>2, <3>3, <3>4, <3>5 DEF CarriedOnce
  <2>3. ASSUME NEW x \in Cache, x # r0 PROVE CarriedOnce(x)'
    <3>1. CarriedOnce(x)
      BY Zenon DEF Carried
    <3> QED BY Zenon, <2>1, <2>3, <3>1, <1>a, <1>d, <1>f, <1>h, <1>n DEF CarriedOnce
  <2> QED BY Zenon, <2>2, <2>3 DEF Carried
<1>8. AskAgrees'
  <2>1. ~Asks(c, "GETS") /\ ~Asks(c, "GETM") /\ (cacheState[c] = "M" => ~Asks(c, "PUTS") /\ ~Asks(c, "PUTM"))
    BY Zenon, <1>s DEF AskAgrees, Gets, Puts
  <2> QED BY Zenon, <2>1, <1>s, <1>a DEF AskAgrees, Puts
<1>9. AnswerAgrees'
  <2>1. ~Answered(c) /\ (WbAcked(c) => cacheState[c] = "MI_A")
    BY Zenon, <1>s DEF AnswerAgrees, Gets, Puts
  <2>2. \A d \in Cache : ~Fwd(d, "GETS", c) /\ ~Fwd(d, "GETM", c)
    BY Zenon, <1>s DEF AnswerAgrees, Gets
  <2>3. \A x \in Cache : WbAcked(x)' => cacheState'[x] \in Puts
    BY Zenon, <2>1, <1>s, <1>f DEF AnswerAgrees, Puts
  <2>4. \A x \in Cache : Answered(x)' => cacheState'[x] \in Gets \cup {"IS_D"}
    BY Zenon, <2>1, <1>s, <1>d, <1>2 DEF AnswerAgrees
  <2>5. \A x, d \in Cache : (Fwd(d, "GETS", x)' => cacheState'[x] = "IS_D") /\ (Fwd(d, "GETM", x)' => cacheState'[x] \in Gets)
    BY ZenonT(40), <2>2, <1>s, <1>f DEF AnswerAgrees
  <2> QED BY Zenon, <2>3, <2>4, <2>5 DEF AnswerAgrees
<1>10. MemoryAgrees'
  BY Zenon, <1>s, <1>2, <1>n, <1>u DEF MemoryAgrees
<1>11. OneToken'
  BY Zenon, <1>4 DEF OneToken
<1>12. AckTargets'
  BY Zenon, <1>5, <1>6, <1>f, <1>d DEF AckTargets
<1>13. AckCounts'
  <2>1. \A x \in Cache : Owing(x)' = Owing(x)
    BY Zenon, <1>6 DEF Owing
  <2>2. \A x \in Cache : cacheState'[x] \in Counting <=> cacheState[x] \in Counting
    BY Zenon, <1>s DEF Counting
  <2> QED BY Zenon, <2>1, <2>2, <1>5, <1>u, <1>d DEF AckCounts
<1>14. Readers'
  <2>1. cacheState[c] = "M" => c \in Sharers
    BY Zenon, <1>f DEF OwnerAnswers, AnswerAgrees, Puts
  <2>2. \A x \in Cache : Reader(x)' => Reader(x) \/ x = r0 \/ (x = c /\ cacheState[c] = "M")
    BY Zenon, <1>s, <1>d DEF Reader
  <2> QED BY Zenon, <2>1, <2>2, <1>2, <1>3, <1>4, <1>s, <1>u, <1>f DEF Readers, Reader
<1>15. InvTargets'
  BY Zenon, <1>s, <1>f, <1>a DEF InvTargets
<1>16. FwdTargets'
  <2>1. c \notin Owner
    BY Zenon, <1>2 DEF FwdTargets
  <2>2. \A x \in Cache : x # c => (Possessor(x)' <=> Possessor(x))
    BY Zenon, <1>s, <1>a DEF Possessor
  <2> QED BY Zenon, <2>1, <2>2, <1>h, <1>f, <1>u DEF FwdTargets
<1>17. OwnerAnswers'
  <2>1. \A x, y \in Cache : Fwd(x, "GETS", y) => x = c
    BY Zenon, <1>f DEF OwnerAnswers
  <2>2. \A y \in Cache : Fwd(c, "GETS", y) => y = r0
    BY Zenon, <1>f DEF FwdTargets, Forward
  <2>3. \A x, y \in Cache : ~Fwd(x, "GETS", y)'
    BY Zenon, <2>1, <2>2, <1>f
  <2> QED BY Zenon, <2>3, <1>2, <1>d, <1>u DEF OwnerAnswers
<1>18. KnownSharers'
  <2>1. \A x, y \in Cache : x # c => ~Fwd(x, "GETS", y)
    BY Zenon, <1>f DEF OwnerAnswers
  <2>2. c \in Sharers => ~Invalidated(c) /\ (cacheState[c] = "MI_A" => Asking(c))
    BY Zenon, <1>s, <1>3 DEF KnownSharers, KnownSharer, InvTargets
  <2>3. c \in Sharers => KnownSharer(c)'
    BY Zenon, <2>2, <1>s, <1>4, <1>a, <1>f DEF KnownSharer
  <2>4. ASSUME NEW x \in Sharers, x # c PROVE KnownSharer(x)'
    BY Zenon, <2>1, <2>4, <1>s, <1>3, <1>4, <1>t, <1>a, <1>f DEF KnownSharers, KnownSharer
  <2> QED BY Zenon, <2>3, <2>4, <1>u DEF KnownSharers
<1> QED BY ZenonT(40), <1>7, <1>8, <1>9, <1>10, <1>11, <1>12, <1>13, <1>14, <1>15, <1>16, <1>17, <1>18, <1>a, <1>f, <1>d, <1>n

\* An owner answers a GETM: the token moves to the requestor.
LEMMA FwdGetMOK ==
  ASSUME TypeOK, Coherent, NEW c \in Cache, FwdGetM(c)
  PROVE  Coherent'
<1>t. cacheState \in [Cache -> CacheStates] /\ Sharers \subseteq Cache
  BY Zenon DEF TypeOK
<1>u. /\ UNCHANGED <<pendingAcks, requestNet, requestToDir, dirState, Sharers, Owner, memBuffer>>
      /\ ForwardReady(c, "Fwd_GetM")
      /\ o_popForwardedRequestQueue(c)
      /\ \E v : SendDataFromOwner(c, v)
  BY Zenon DEF FwdGetM, dirVars
<1>s. /\ \A d \in Cache : d # c => cacheState'[d] = cacheState[d]
      /\ \/ cacheState[c] = "M" /\ cacheState'[c] = "I"
         \/ cacheState[c] = "MI_A" /\ cacheState'[c] = "II_A"
  BY Zenon, <1>t DEF FwdGetM, SetState
<1>1. forwardToCache[c] # <<>> /\ Head(forwardToCache[c]).Type = "GETM"
  BY Zenon, <1>u, ForwardKind
<1> USE DEF Coherent
<1>r. PICK r0 \in Cache : r0 = Head(forwardToCache[c]).Requestor
  BY Zenon, <1>1, <1>u, ForwardPopped
<1>f. /\ ForwardQueues'
      /\ \A d, r \in Cache :
              /\ Fwd(d, "GETS", r)' <=> Fwd(d, "GETS", r)
              /\ Fwd(d, "GETM", r)' <=> Fwd(d, "GETM", r) /\ ~(d = c /\ r = r0)
              /\ Fwd(d, "INV", r)' <=> Fwd(d, "INV", r)
      /\ \A d \in Cache : (WbAcked(d)' <=> WbAcked(d)) /\ (Invalidated(d)' <=> Invalidated(d))
      /\ Fwd(c, "GETM", r0)
  <2>1. /\ ForwardQueues'
        /\ \A d, r \in Cache :
              /\ Fwd(d, "GETS", r)' <=> Fwd(d, "GETS", r)
              /\ Fwd(d, "GETM", r)' <=> Fwd(d, "GETM", r) /\ ~(d = c /\ r = r0)
              /\ Fwd(d, "INV", r)' <=> Fwd(d, "INV", r) /\ d # c
        /\ \A d \in Cache : (WbAcked(d)' <=> WbAcked(d)) /\ (Invalidated(d)' <=> Invalidated(d) /\ d # c)
        /\ \A r \in Cache : ~Fwd(c, "INV", r)
        /\ Fwd(c, "GETM", r0)
    <3> DEFINE m == Head(forwardToCache[c])
    <3>1. m.Type = "GETM" /\ m.Type # "GETS" /\ m.Type # "INV" /\ m.Type # "WB_ACK"
      BY <1>1
    <3>2. /\ ForwardQueues'
          /\ \A d, r \in Cache :
               /\ Fwd(d, "GETS", r)' <=> Fwd(d, "GETS", r) /\ ~(d = c /\ m.Type = "GETS" /\ m.Requestor = r)
               /\ Fwd(d, "GETM", r)' <=> Fwd(d, "GETM", r) /\ ~(d = c /\ m.Type = "GETM" /\ m.Requestor = r)
               /\ Fwd(d, "INV", r)' <=> Fwd(d, "INV", r) /\ d # c
          /\ \A d \in Cache :
               /\ WbAcked(d)' <=> WbAcked(d) /\ ~(d = c /\ m.Type = "WB_ACK")
               /\ Invalidated(d)' <=> Invalidated(d) /\ d # c
          /\ \A r \in Cache : Fwd(c, "INV", r) => m.Type = "INV" /\ m.Requestor = r
          /\ m.Type # "WB_ACK" => m.Requestor \in Cache /\ Fwd(c, m.Type, m.Requestor)
      BY Zenon, <1>1, <1>u, ForwardPopped
    <3>3. Fwd(c, "GETM", r0)
      BY Zenon, <1>r, <3>1, <3>2
    <3> HIDE DEF m
    <3>4. m.Requestor = r0
      BY Zenon, <1>r DEF m
    <3> QED
      BY Zenon, <3>1, <3>2, <3>3, <3>4
  <2>2. ~Invalidated(c)
    BY Zenon, <2>1 DEF Invalidated
  <2> QED BY Zenon, <2>1, <2>2
<1>2. /\ cacheState[r0] \in Gets /\ r0 # c /\ Forwarded(r0) /\ HasForward(c) /\ Forward(c, r0)
      /\ ~Answered(r0) /\ ~Asking(r0) /\ ~InMemory(r0) /\ ~WbAcked(r0)
      /\ \A d \in Cache : ~Fwd(d, "GETS", r0)
  <2>1. cacheState[r0] \in Gets
    BY Zenon, <1>f DEF AnswerAgrees
  <2>2. r0 # c
    BY Zenon, <2>1, <1>s DEF Gets
  <2>3. Forward(c, r0) /\ Forwarded(r0) /\ HasForward(c)
    BY Zenon, <1>f DEF Forward, Forwarded, HasForward
  <2>4. \A d \in Cache : ~Fwd(d, "GETS", r0)
    BY Zenon, <2>1, <1>f DEF AnswerAgrees, Gets
  <2>5. CarriedOnce(r0)
    BY Zenon DEF Carried
  <2> QED BY Zenon, <2>1, <2>2, <2>3, <2>4, <2>5 DEF CarriedOnce
<1>h. /\ \A d, r \in Cache : Forward(d, r)' <=> Forward(d, r) /\ ~(d = c /\ r = r0)
      /\ \A d \in Cache : HasForward(d)' <=> HasForward(d) /\ d # c
      /\ \A d \in Cache : Forwarded(d)' <=> Forwarded(d) /\ d # r0
      /\ \A r \in Cache : Forward(c, r) => r = r0
  <2>1. \A d, r \in Cache : Forward(d, r)' <=> Forward(d, r) /\ ~(d = c /\ r = r0)
    BY Zenon, <1>f, <1>2 DEF Forward
  <2>2. \A r \in Cache : Forward(c, r) => r = r0
    BY Zenon, <1>2 DEF FwdTargets
  <2>3. \A d \in Cache : Forward(d, r0) => d = c
    <3>1. CarriedOnce(r0)
      BY Zenon DEF Carried
    <3> QED BY Zenon, <3>1, <1>2 DEF CarriedOnce
  <2>4. \A d \in Cache : HasForward(d)' <=> HasForward(d) /\ d # c
    BY Zenon, <2>1, <2>2 DEF HasForward
  <2>5. \A d \in Cache : Forwarded(d)' <=> Forwarded(d) /\ d # r0
    BY Zenon, <2>1, <2>3 DEF Forwarded
  <2> QED BY Zenon, <2>1, <2>2, <2>4, <2>5
<1>a. RequestsSame
  BY Zenon, <1>u, RequestsKept
<1>n. MemorySame
  BY Zenon, <1>u, MemoryKept
<1>e. responseNet[c][r0] = <<>>
  <2>1. \A s \in Machine : ~Data(s, r0)
    BY Zenon, <1>2 DEF Answered
  <2>2. ~Gathering(r0)
    BY Zenon, <2>1, <1>2, MachineFacts DEF Gathering, Counting, Gets
  <2>3. ~Ack(c, r0)
    BY Zenon, <2>2 DEF AckTargets, Owes
  <2> QED BY Zenon, <2>1, <2>3, MachineFacts DEF Data, Ack
<1>d. /\ ResponseQueues'
      /\ \A x \in Machine, y \in Cache : Data(x, y)' <=> Data(x, y) \/ (x = c /\ y = r0)
      /\ \A y \in Cache : (Answered(y)' <=> Answered(y) \/ y = r0) /\ Count(y)' = Count(y)
      /\ \A x, y \in Cache : Ack(x, y)' <=> Ack(x, y)
      /\ \A x \in Cache : responseNet'[x][Dir] = responseNet[x][Dir]
      /\ DataToDir' <=> DataToDir
  <2>1. PICK v : SendResponse(c, r0, Response("DATA_FROM_OWNER", v, 0))
    BY Zenon, <1>u, <1>r DEF SendDataFromOwner
  <2>3. /\ ResponseQueues'
        /\ \A x \in Machine, y \in Cache : Data(x, y)' <=> Data(x, y) \/ (x = c /\ y = r0)
        /\ \A y \in Cache : Answered(y)' <=> Answered(y) \/ y = r0
        /\ \A y \in Cache : Count(y)' = Count(y)
        /\ \A x, y \in Cache : Ack(x, y)' <=> Ack(x, y)
        /\ \A x \in Cache : responseNet'[x][Dir] = responseNet[x][Dir]
        /\ DataToDir' <=> DataToDir
    BY ZenonT(40), <1>e, <2>1, OwnerDataSent
  <2> QED BY Zenon, <2>3
<1> USE DEF RequestsSame, MemorySame
<1>3. Token(c) /\ ~DirToken /\ \A x \in Cache : Token(x) => x = c
  BY Zenon, <1>s, <1>2 DEF Token, Counting, OneToken
<1>4. (\A x \in Cache : Token(x)' <=> x = r0) /\ ~DirToken'
  <2>1. ~Token(c)'
    BY Zenon, <1>s DEF Token, Gets, Counting
  <2>2. \A x \in Cache : x # c /\ x # r0 => (Token(x)' => Token(x))
    BY Zenon, <1>s, <1>a, <1>h, <1>d DEF Token, Gets, Counting
  <2>3. Token(r0)'
    BY Zenon, <1>2, <1>s, <1>d DEF Token
  <2>4. ~DirToken'
    BY Zenon, <1>3, <1>u, <1>d DEF DirToken
  <2> QED BY Zenon, <2>1, <2>2, <2>3, <2>4, <1>3
<1>5. \A x \in Cache : Gathering(x)' <=> Gathering(x)
  BY Zenon, <1>s, <1>d, MachineFacts DEF Gathering, Gets, Counting
<1>6. \A x, d \in Cache : Owes(d, x)' <=> Owes(d, x)
  BY Zenon, <1>f, <1>d DEF Owes
<1>7. Carried'
  <2>1. \A x \in Cache : cacheState'[x] \in Outstanding <=> cacheState[x] \in Outstanding
    BY Zenon, <1>s DEF Outstanding, Gets, Puts
  <2>2. CarriedOnce(r0)'
    <3>1. \A s \in Machine : ~Data(s, r0)
      BY Zenon, <1>2 DEF Answered
    <3>2. \A s, t \in Machine : Data(s, r0)' /\ Data(t, r0)' => s = t
      BY Zenon, <3>1, <1>d
    <3>3. ~Forwarded(r0)' /\ Answered(r0)' /\ ~Asking(r0)' /\ ~InMemory(r0)' /\ ~WbAcked(r0)'
      BY Zenon, <1>2, <1>a, <1>d, <1>f, <1>h, <1>n
    <3>4. \A d \in Cache : ~Forward(d, r0)'
      BY Zenon, <3>3, <1>f DEF Forwarded
    <3>5. cacheState'[r0] \in Outstanding
      BY Zenon, <1>2, <1>s DEF Outstanding
    <3> QED BY Zenon, <3>2, <3>3, <3>4, <3>5 DEF CarriedOnce
  <2>3. ASSUME NEW x \in Cache, x # r0 PROVE CarriedOnce(x)'
    <3>1. CarriedOnce(x)
      BY Zenon DEF Carried
    <3> QED BY Zenon, <2>1, <2>3, <3>1, <1>a, <1>d, <1>f, <1>h, <1>n DEF CarriedOnce
  <2> QED BY Zenon, <2>2, <2>3 DEF Carried
<1>8. AskAgrees'
  <2>1. ~Asks(c, "GETS") /\ ~Asks(c, "GETM") /\ (cacheState[c] = "M" => ~Asks(c, "PUTS") /\ ~Asks(c, "PUTM"))
    BY Zenon, <1>s DEF AskAgrees, Gets, Puts
  <2> QED BY Zenon, <2>1, <1>s, <1>a DEF AskAgrees, Puts
<1>9. AnswerAgrees'
  <2>1. ~Answered(c) /\ (WbAcked(c) => cacheState[c] = "MI_A")
    BY Zenon, <1>s DEF AnswerAgrees, Gets, Puts
  <2>2. \A d \in Cache : ~Fwd(d, "GETS", c) /\ ~Fwd(d, "GETM", c)
    BY Zenon, <1>s DEF AnswerAgrees, Gets
  <2>3. \A x \in Cache : WbAcked(x)' => cacheState'[x] \in Puts
    BY Zenon, <2>1, <1>s, <1>f DEF AnswerAgrees, Puts
  <2>4. \A x \in Cache : Answered(x)' => cacheState'[x] \in Gets \cup {"IS_D"}
    BY Zenon, <2>1, <1>s, <1>d, <1>2 DEF AnswerAgrees
  <2>5. \A x, d \in Cache : (Fwd(d, "GETS", x)' => cacheState'[x] = "IS_D") /\ (Fwd(d, "GETM", x)' => cacheState'[x] \in Gets)
    BY ZenonT(40), <2>2, <1>s, <1>f DEF AnswerAgrees
  <2> QED BY Zenon, <2>3, <2>4, <2>5 DEF AnswerAgrees
<1>10. MemoryAgrees'
  <2>1. ~InMemory(c)
    <3>1. InMemory(c) => c \in Owner
      BY Zenon, <1>s DEF MemoryAgrees
    <3> QED BY Zenon, <3>1, <1>2 DEF FwdTargets
  <2> QED BY Zenon, <2>1, <1>s, <1>n, <1>u DEF MemoryAgrees
<1>11. OneToken'
  BY Zenon, <1>4 DEF OneToken
<1>12. AckTargets'
  BY Zenon, <1>5, <1>6, <1>f, <1>d DEF AckTargets
<1>13. AckCounts'
  <2>1. \A x \in Cache : Owing(x)' = Owing(x)
    BY Zenon, <1>6 DEF Owing
  <2>2. \A x \in Cache : cacheState'[x] \in Counting <=> cacheState[x] \in Counting
    BY Zenon, <1>s DEF Counting
  <2> QED BY Zenon, <2>1, <2>2, <1>5, <1>u, <1>d DEF AckCounts
<1>14. Readers'
  <2>1. \A x \in Cache : Reader(x)' => (Reader(x) /\ x # c) \/ x = r0
    BY Zenon, <1>s, <1>d DEF Reader
  <2> QED BY Zenon, <2>1, <1>3, <1>4, <1>u, <1>f DEF Readers
<1>15. InvTargets'
  <2>1. ~Invalidated(c)
    BY Zenon, <1>s DEF InvTargets
  <2> QED BY Zenon, <2>1, <1>s, <1>f, <1>a DEF InvTargets
<1>16. FwdTargets'
  <2>1. c \notin Owner
    BY Zenon, <1>2 DEF FwdTargets
  <2>2. \A x \in Cache : x # c => (Possessor(x)' <=> Possessor(x))
    BY Zenon, <1>s, <1>a DEF Possessor
  <2> QED BY Zenon, <2>1, <2>2, <1>h, <1>f, <1>u DEF FwdTargets
<1>17. OwnerAnswers'
  BY Zenon, <1>f, <1>d, <1>u DEF OwnerAnswers
<1>18. KnownSharers'
  <2>1. \A y \in Cache : ~Fwd(c, "GETS", y)
    BY Zenon, <1>h, <1>2 DEF Forward
  <2>2. c \notin Sharers
    BY Zenon, <2>1, <1>s, <1>3 DEF KnownSharers, KnownSharer
  <2> QED BY Zenon, <2>2, <1>s, <1>3, <1>4, <1>t, <1>a, <1>f, <1>u DEF KnownSharers, KnownSharer
<1> QED BY Zenon, <1>7, <1>8, <1>9, <1>10, <1>11, <1>12, <1>13, <1>14, <1>15, <1>16, <1>17, <1>18, <1>a, <1>f, <1>d, <1>n

\* The owner in a state where the directory waits for the memory on its behalf.
LEMMA OwnerInMemory ==
  ASSUME TypeOK, Memory, MemoryAgrees, DirAssertions, NEW c \in Owner, dirState # "M"
  PROVE  InMemory(c)
<1>1. dirState \in {"IM_MD", "MI_MA"}
  BY Zenon DEF DirAssertions, TypeOK, DirStates
<1>2. memBuffer # <<>> /\ memBuffer \in Seq(MemoryMsg)
  BY Zenon, <1>1 DEF Memory, TypeOK
<1>3. PICK h \in Cache : h = Head(memBuffer).OriginalRequestor
  <2>1. Head(memBuffer) \in MemoryMsg
    BY <1>2
  <2> QED BY Zenon, <2>1 DEF MemoryMsg
<1>4. InMemory(h)
  BY Zenon, <1>1, <1>2, <1>3 DEF InMemory
<1>5. h \in Owner
  BY Zenon, <1>1, <1>4 DEF MemoryAgrees
<1>6. \E o \in Cache : Owner = {o}
  BY Zenon, <1>1 DEF DirAssertions
<1> QED BY <1>4, <1>5, <1>6

\* A write-back is acknowledged.
LEMMA WBAckOK ==
  ASSUME TypeOK, Coherent, DirAssertions, NEW c \in Cache, WBAck(c)
  PROVE  Coherent'
<1>t. /\ cacheState \in [Cache -> CacheStates] /\ Sharers \subseteq Cache /\ Owner \subseteq Cache
      /\ pendingAcks \in [Cache -> Int]
  BY Zenon DEF TypeOK
<1>u. /\ UNCHANGED <<requestNet, requestToDir, responseNet, dirState, Sharers, Owner, memBuffer>>
      /\ ForwardReady(c, "WB_Ack")
      /\ o_popForwardedRequestQueue(c)
  BY Zenon DEF WBAck, dirVars
<1>s. /\ \A d \in Cache : d # c => cacheState'[d] = cacheState[d]
      /\ cacheState[c] \in {"MI_A", "SI_A", "II_A"} /\ cacheState'[c] = "I"
      /\ \A d \in Cache : pendingAcks'[d] = IF d = c THEN 0 ELSE pendingAcks[d]
  BY Zenon, <1>t DEF WBAck, SetState, w_deallocateTBE
<1>1. forwardToCache[c] # <<>> /\ Head(forwardToCache[c]).Type = "WB_ACK"
  BY Zenon, <1>u, ForwardKind
<1> USE DEF Coherent
<1>f. /\ ForwardQueues'
      /\ \A d, r \in Cache :
              /\ Fwd(d, "GETS", r)' <=> Fwd(d, "GETS", r)
              /\ Fwd(d, "GETM", r)' <=> Fwd(d, "GETM", r)
              /\ Fwd(d, "INV", r)' <=> Fwd(d, "INV", r)
      /\ \A d \in Cache : (WbAcked(d)' <=> WbAcked(d) /\ d # c) /\ (Invalidated(d)' <=> Invalidated(d))
      /\ ~HasForward(c) /\ ~Invalidated(c) /\ WbAcked(c)
  <2>1. /\ ForwardQueues'
        /\ \A d, r \in Cache :
              /\ Fwd(d, "GETS", r)' <=> Fwd(d, "GETS", r)
              /\ Fwd(d, "GETM", r)' <=> Fwd(d, "GETM", r)
              /\ Fwd(d, "INV", r)' <=> Fwd(d, "INV", r) /\ d # c
        /\ \A d \in Cache : (WbAcked(d)' <=> WbAcked(d) /\ d # c) /\ (Invalidated(d)' <=> Invalidated(d) /\ d # c)
        /\ ~HasForward(c)
        /\ \A r \in Cache : ~Fwd(c, "INV", r)
        /\ Head(forwardToCache[c]) \in Forwards(c)
    BY Zenon, <1>1, <1>u, ForwardPopped
  <2>2. ~Invalidated(c) /\ WbAcked(c)
    BY Zenon, <1>1, <2>1 DEF Invalidated, WbAcked
  <2> QED BY Zenon, <2>1, <2>2
<1>h. /\ \A d, r \in Cache : Forward(d, r)' <=> Forward(d, r)
      /\ \A d \in Cache : (HasForward(d)' <=> HasForward(d)) /\ (Forwarded(d)' <=> Forwarded(d))
  BY Zenon, <1>f DEF Forward, HasForward, Forwarded
<1>a. RequestsSame
  BY Zenon, <1>u, RequestsKept
<1>d. ResponsesSame
  BY Zenon, <1>u, ResponsesKept
<1>n. MemorySame
  BY Zenon, <1>u, MemoryKept
<1> USE DEF RequestsSame, ResponsesSame, MemorySame
<1>2. ~Asking(c) /\ ~InMemory(c) /\ ~Forwarded(c) /\ ~Answered(c)
  <2>1. CarriedOnce(c)
    BY Zenon DEF Carried
  <2> QED BY Zenon, <2>1, <1>f DEF CarriedOnce
<1>3. c \notin Owner
  <2>1. CASE dirState = "M"
    BY Zenon, <2>1, <1>f DEF FwdTargets
  <2>2. CASE dirState # "M"
    BY Zenon, <2>2, <1>2, OwnerInMemory
  <2> QED BY Zenon, <2>1, <2>2
<1>4. \A x \in Cache : Token(x)' <=> Token(x)
  <2>1. ~Token(c)' /\ ~Token(c)
    BY Zenon, <1>s, <1>2, <1>f DEF Token, Gets, Counting
  <2>2. \A x \in Cache : x # c => (Token(x)' <=> Token(x))
    BY Zenon, <1>s, <1>a, <1>h, <1>d DEF Token
  <2> QED BY Zenon, <2>1, <2>2
<1>5. DirToken' <=> DirToken
  BY Zenon, <1>u, <1>d DEF DirToken
<1>6. ~Gathering(c) /\ \A x \in Cache : Gathering(x)' <=> Gathering(x)
  BY Zenon, <1>s, <1>d, MachineFacts DEF Gathering, Gets, Counting
<1>7. \A x, d \in Cache : Owes(d, x)' <=> Owes(d, x)
  BY Zenon, <1>f, <1>d DEF Owes
<1>8. Carried'
  <2>1. CarriedOnce(c)'
    <3>1. CarriedOnce(c) /\ cacheState'[c] \notin Outstanding
      BY Zenon, <1>s DEF Carried, Outstanding, Gets, Puts
    <3> QED BY Zenon, <3>1, <1>2, <1>a, <1>d, <1>f, <1>h, <1>n DEF CarriedOnce
  <2>2. ASSUME NEW x \in Cache, x # c PROVE CarriedOnce(x)'
    <3>1. CarriedOnce(x)
      BY Zenon DEF Carried
    <3> QED BY Zenon, <2>2, <3>1, <1>s, <1>a, <1>d, <1>f, <1>h, <1>n DEF CarriedOnce
  <2> QED BY Zenon, <2>1, <2>2 DEF Carried
<1>9. AskAgrees'
  <2>1. \A t : ~Asks(c, t)
    BY Zenon, <1>2 DEF Asks, Asking
  <2> QED BY Zenon, <2>1, <1>s, <1>a DEF AskAgrees
<1>10. AnswerAgrees'
  <2>1. \A d \in Cache : ~Fwd(d, "GETS", c) /\ ~Fwd(d, "GETM", c)
    BY Zenon, <1>2 DEF Forwarded, Forward
  <2> QED BY ZenonT(40), <2>1, <1>s, <1>2, <1>f, <1>d DEF AnswerAgrees
<1>11. MemoryAgrees'
  BY Zenon, <1>2, <1>s, <1>n, <1>u DEF MemoryAgrees
<1>12. OneToken'
  BY Zenon, <1>4, <1>5 DEF OneToken
<1>13. AckTargets'
  BY Zenon, <1>6, <1>7, <1>f, <1>d DEF AckTargets
<1>14. AckCounts'
  <2>1. \A x \in Cache : Owing(x)' = Owing(x)
    BY Zenon, <1>7 DEF Owing
  <2>2. \A x \in Cache : cacheState'[x] \in Counting <=> cacheState[x] \in Counting
    BY Zenon, <1>s DEF Counting
  <2>3. \A x \in Cache : pendingAcks'[x] = pendingAcks[x]
    BY Zenon, <1>s, <1>6 DEF AckCounts
  <2> QED BY Zenon, <2>1, <2>2, <2>3, <1>6, <1>d DEF AckCounts
<1>15. Readers'
  <2>1. \A x \in Cache : Reader(x)' => Reader(x)
    BY Zenon, <1>s, <1>d DEF Reader
  <2> QED BY Zenon, <2>1, <1>4, <1>5, <1>u, <1>f DEF Readers
<1>16. InvTargets'
  BY Zenon, <1>s, <1>f, <1>a DEF InvTargets
<1>17. FwdTargets'
  <2>1. \A x \in Cache : x # c => (Possessor(x)' <=> Possessor(x))
    BY Zenon, <1>s, <1>a DEF Possessor
  <2> QED BY Zenon, <2>1, <1>3, <1>h, <1>f, <1>u DEF FwdTargets
<1>18. OwnerAnswers'
  <2>1. \A y \in Cache : ~Fwd(c, "GETS", y)
    BY Zenon, <1>f DEF HasForward, Forward
  <2> QED BY Zenon, <2>1, <1>f, <1>d, <1>u DEF OwnerAnswers
<1>19. KnownSharers'
  <2>1. \A y \in Cache : ~Fwd(c, "GETS", y)
    BY Zenon, <1>f DEF HasForward, Forward
  <2>2. c \notin Sharers
    BY Zenon, <2>1, <1>s, <1>2 DEF KnownSharers, KnownSharer
  <2> QED BY ZenonT(40), <2>2, <1>s, <1>5, <1>t, <1>a, <1>f, <1>u DEF KnownSharers, KnownSharer
<1> QED BY ZenonT(40), <1>8, <1>9, <1>10, <1>11, <1>12, <1>13, <1>14, <1>15, <1>16, <1>17, <1>18, <1>19, <1>a, <1>f, <1>d, <1>n
=============================================================================
