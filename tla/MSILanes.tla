------------------------------ MODULE MSILanes ------------------------------
(***************************************************************************)
(* Two cache lines under the MSI protocol.  Each line runs the protocol of *)
(* module MSI by itself; what the lines share are the message buffers of a *)
(* controller, which are FIFOs over all lines.  A stalled message at the   *)
(* head of a buffer (z_stall) holds up everything behind it, the messages  *)
(* of the other line included, so lines that never meet in the protocol    *)
(* can wait for each other here.                                           *)
(*                                                                         *)
(* The lines live in one directory controller or in one each (num_dirs).   *)
(* A lane is the order of a shared buffer: the sequence of the lines its   *)
(* messages belong to; the messages themselves are in the two instances.   *)
(* Data is left out: a line has one possible value.                        *)
(***************************************************************************)
EXTENDS Integers, Sequences, FiniteSets

CONSTANTS
  Cache, Dir, Value, InitValue, ReqType, SendEvictions, UseMap, AccessPhysMem,
  OneDirectory,   \* both lines have the same home
  MaxEvents       \* bound: requests and replacements

ASSUME LanesAssumption ==
  /\ Value = {InitValue} /\ ReqType \subseteq {"LD", "ST"}
  /\ ~SendEvictions /\ ~AccessPhysMem
  /\ OneDirectory \in BOOLEAN /\ MaxEvents \in Nat

VARIABLES
  requestTableA, mandatoryQueueA, cacheStateA, pendingAcksA, requestNetA,
  requestToDirA, forwardToCacheA, responseNetA, dirStateA, SharersA, OwnerA,
  memBufferA,
  requestTableB, mandatoryQueueB, cacheStateB, pendingAcksB, requestNetB,
  requestToDirB, forwardToCacheB, responseNetB, dirStateB, SharersB, OwnerB,
  memBufferB,
  blocks, flags, memory,  \* data, locks and load queues: they never change
  mandatoryLane,  \* sequencer -> controller, per cache
  requestLane,    \* requests at a directory
  flight,         \* forwards between a directory and a cache
  forwardLane,    \* forwards at a cache
  events          \* history: number of requests and replacements

lineA == <<requestTableA, mandatoryQueueA, cacheStateA, pendingAcksA, requestNetA,
           requestToDirA, forwardToCacheA, responseNetA, dirStateA, SharersA,
           OwnerA, memBufferA>>
lineB == <<requestTableB, mandatoryQueueB, cacheStateB, pendingAcksB, requestNetB,
           requestToDirB, forwardToCacheB, responseNetB, dirStateB, SharersB,
           OwnerB, memBufferB>>
lanes == <<mandatoryLane, requestLane, flight, forwardLane>>
data == <<blocks, flags, memory>>
vars == <<lineA, lineB, data, lanes, events>>

A == INSTANCE MSI WITH
  requestTable <- requestTableA, mandatoryQueue <- mandatoryQueueA,
  cacheState <- cacheStateA, pendingAcks <- pendingAcksA,
  requestNet <- requestNetA, requestToDir <- requestToDirA,
  forwardToCache <- forwardToCacheA, responseNet <- responseNetA,
  dirState <- dirStateA, Sharers <- SharersA, Owner <- OwnerA,
  memBuffer <- memBufferA,
  result <- blocks, DataBlk <- blocks, tbeData <- blocks, lsq <- flags,
  locked <- flags, reserved <- flags, dirData <- memory, physMem <- memory

B == INSTANCE MSI WITH
  requestTable <- requestTableB, mandatoryQueue <- mandatoryQueueB,
  cacheState <- cacheStateB, pendingAcks <- pendingAcksB,
  requestNet <- requestNetB, requestToDir <- requestToDirB,
  forwardToCache <- forwardToCacheB, responseNet <- responseNetB,
  dirState <- dirStateB, Sharers <- SharersB, Owner <- OwnerB,
  memBuffer <- memBufferB,
  result <- blocks, DataBlk <- blocks, tbeData <- blocks, lsq <- flags,
  locked <- flags, reserved <- flags, dirData <- memory, physMem <- memory

Line == {"A", "B"}

\* map_Address_to_Directory: the directory of a line, named after a line.
Home(l) == IF OneDirectory THEN "A" ELSE l

Init ==
  /\ A!Init /\ B!Init
  /\ mandatoryLane = [c \in Cache |-> <<>>]
  /\ requestLane = [d \in Line |-> <<>>]
  /\ flight = [d \in Line |-> [c \in Cache |-> <<>>]]
  /\ forwardLane = [c \in Cache |-> <<>>]
  /\ events = 0

-----------------------------------------------------------------------------
\* A step of one line leaves the other alone.
On(l, stepA, stepB) ==
  \/ l = "A" /\ stepA /\ UNCHANGED lineB
  \/ l = "B" /\ stepB /\ UNCHANGED lineA

AtHead(lane, l) == lane # <<>> /\ Head(lane) = l

makeRequest(c, l) ==
  /\ events < MaxEvents /\ events' = events + 1
  /\ On(l, \E type \in ReqType : A!makeRequest(c, type),
           \E type \in ReqType : B!makeRequest(c, type))
  /\ mandatoryLane' = [mandatoryLane EXCEPT ![c] = Append(@, l)]
  /\ UNCHANGED <<requestLane, flight, forwardLane>>

Replacement(c, l) ==
  /\ events < MaxEvents /\ events' = events + 1
  /\ On(l, A!Replacement(c), B!Replacement(c))
  /\ UNCHANGED lanes

MandatoryPort(c, l) ==
  /\ AtHead(mandatoryLane[c], l)
  /\ On(l, A!MandatoryPort(c), B!MandatoryPort(c))
  /\ mandatoryLane' = [mandatoryLane EXCEPT ![c] = Tail(@)]
  /\ UNCHANGED <<requestLane, flight, forwardLane, events>>

ForwardPort(c, l) ==
  /\ AtHead(forwardLane[c], l)
  /\ On(l, A!ForwardPort(c), B!ForwardPort(c))
  /\ forwardLane' = [forwardLane EXCEPT ![c] = Tail(@)]
  /\ UNCHANGED <<mandatoryLane, requestLane, flight, events>>

ResponsePort(c, s, l) ==
  /\ On(l, A!ResponsePort(c, s), B!ResponsePort(c, s))
  /\ UNCHANGED <<lanes, events>>

\* Requests of one cache for different directories may overtake each other.
RequestArrives(c, l) ==
  /\ On(l, A!RequestArrives(c), B!RequestArrives(c))
  /\ requestLane' = [requestLane EXCEPT ![Home(l)] = Append(@, l)]
  /\ UNCHANGED <<mandatoryLane, flight, forwardLane, events>>

\* The directory's step sends forwards to the caches whose queue grew.
SendForwards(l) ==
  LET grew(c) == \/ Len(forwardToCacheA'[c]) > Len(forwardToCacheA[c])
                 \/ Len(forwardToCacheB'[c]) > Len(forwardToCacheB[c])
  IN flight' = [flight EXCEPT ![Home(l)] =
                  [c \in Cache |-> IF grew(c) THEN Append(@[c], l) ELSE @[c]]]

DirRequestPort(l) ==
  /\ AtHead(requestLane[Home(l)], l)
  /\ On(l, A!DirRequestPort, B!DirRequestPort)
  /\ requestLane' = [requestLane EXCEPT ![Home(l)] = Tail(@)]
  /\ SendForwards(l)
  /\ UNCHANGED <<mandatoryLane, forwardLane, events>>

\* Mutant: replies wait in line with the requests.
DirReply_queued(l) ==
  /\ requestLane[Home(l)] = <<>>
  /\ On(l, A!DirMemPort \/ \E c \in Cache : A!DirMS_OD_Data(c),
           B!DirMemPort \/ \E c \in Cache : B!DirMS_OD_Data(c))
  /\ SendForwards(l)
  /\ UNCHANGED <<mandatoryLane, requestLane, forwardLane, events>>

\* Data from an owner, or a reply of the memory controller.
DirReply(l) ==
  /\ On(l, A!DirMemPort \/ \E c \in Cache : A!DirMS_OD_Data(c),
           B!DirMemPort \/ \E c \in Cache : B!DirMS_OD_Data(c))
  /\ SendForwards(l)
  /\ UNCHANGED <<mandatoryLane, requestLane, forwardLane, events>>

\* The network keeps the order of one directory's forwards to one cache.
ForwardArrives(d, c) ==
  /\ flight[d][c] # <<>>
  /\ forwardLane' = [forwardLane EXCEPT ![c] = Append(@, Head(flight[d][c]))]
  /\ flight' = [flight EXCEPT ![d][c] = Tail(@)]
  /\ UNCHANGED <<lineA, lineB, data, mandatoryLane, requestLane, events>>

\* Everything but the CPUs' new requests and replacements.
System ==
  \E l \in Line :
    \/ \E c \in Cache : \/ MandatoryPort(c, l) \/ ForwardPort(c, l)
                        \/ RequestArrives(c, l) \/ ForwardArrives(l, c)
    \/ \E c \in Cache, s \in Cache \cup {Dir} : ResponsePort(c, s, l)
    \/ DirRequestPort(l)
    \/ DirReply(l)

Environment == \E c \in Cache, l \in Line : makeRequest(c, l) \/ Replacement(c, l)

Next == System \/ Environment

Spec == Init /\ [][Next]_vars

-----------------------------------------------------------------------------
\* A CPU waits for an answer, or a controller for the end of a transaction.
Outstanding ==
  \E c \in Cache :
    \/ requestTableA[c] # A!NoRequest \/ requestTableB[c] # B!NoRequest
    \/ {cacheStateA[c], cacheStateB[c]} \ {"I", "S", "M"} # {}

\* The sequencers' deadlock check ("Possible Deadlock detected. Aborting!"),
\* for write-backs too: as long as something is outstanding, some controller
\* can make a step.
NoDeadlock == Outstanding => ENABLED System
=============================================================================
