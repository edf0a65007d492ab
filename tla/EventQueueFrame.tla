--------------------------- MODULE EventQueueFrame ---------------------------
(***************************************************************************)
(* The three linked lists of EventQueueFrame at the level of pointers.     *)
(* The receiver thread allocates a packet, links it into the producer      *)
(* queue without a lock and splices that queue into the intermediate one   *)
(* under m_mutexQueueHolder; the processing thread splices the             *)
(* intermediate queue into the consumer queue under the same mutex, takes  *)
(* packets from the consumer queue without a lock and deletes them.  Every *)
(* assignment to a list that another thread could see is a step, and       *)
(* deleted packets are allocated again.                                    *)
(***************************************************************************)
EXTENDS Integers, Sequences, FiniteSets

CONSTANTS
  Packets,       \* addresses EventDataPackets can have
  NULL,
  MaxMessages    \* bound: messages handed over

ASSUME FrameAssumption ==
  NULL \notin Packets /\ IsFiniteSet(Packets) /\ MaxMessages \in Nat

VARIABLES
  m_ptrHead, m_ptrTail,   \* per queue
  m_ptrNext, m_ptrData,   \* per packet
  allocated,              \* packets newed and not deleted
  m_mutexQueueHolder,     \* the thread that holds it, or "free"
  rpc, pPacket, count,    \* receiver thread; messages it has handed over
  ppc, pCont, taken       \* processing thread; messages it has got

heapVars == <<m_ptrNext, m_ptrData, allocated>>
listVars == <<m_ptrHead, m_ptrTail>>
rVars == <<rpc, pPacket, count>>
pVars == <<ppc, pCont, taken>>
vars == <<heapVars, listVars, m_mutexQueueHolder, rVars, pVars>>

Queues == {"producer", "intermediate", "consumer"}

Init ==
  /\ m_ptrHead = [q \in Queues |-> NULL]
  /\ m_ptrTail = [q \in Queues |-> NULL]
  /\ m_ptrNext = [a \in Packets |-> NULL]
  /\ m_ptrData = [a \in Packets |-> 0]
  /\ allocated = {}
  /\ m_mutexQueueHolder = "free"
  /\ rpc = "new" /\ pPacket = NULL /\ count = 0
  /\ ppc = "lock" /\ pCont = NULL /\ taken = <<>>

-----------------------------------------------------------------------------
(* The parts PushToQueue, PushToIntermediateQueue and                      *)
(* PollFromIntermediateQueue are made of.                                  *)

\* if (head) tail->m_ptrNext = a; else head = a;
Link(q, a) ==
  IF m_ptrHead[q] # NULL
    THEN /\ m_ptrNext' = [m_ptrNext EXCEPT ![m_ptrTail[q]] = a]
         /\ UNCHANGED m_ptrHead
    ELSE /\ m_ptrHead' = [m_ptrHead EXCEPT ![q] = a]
         /\ UNCHANGED m_ptrNext

\* Mutant: the tail is taken to be the head.
MutTailIsHead(q, a) == m_ptrTail' = [m_ptrTail EXCEPT ![q] = m_ptrHead[q]]

SetTail(q, a) == m_ptrTail' = [m_ptrTail EXCEPT ![q] = a]

\* Mutant: forgets the head.
MutClearTail(q) ==
  /\ m_ptrTail' = [m_ptrTail EXCEPT ![q] = NULL]
  /\ UNCHANGED m_ptrHead

Clear(q) ==
  /\ m_ptrHead' = [m_ptrHead EXCEPT ![q] = NULL]
  /\ m_ptrTail' = [m_ptrTail EXCEPT ![q] = NULL]

\* Mutant: no mutual exclusion.
MutLockNothing(t) == m_mutexQueueHolder' = t

Lock(t) == m_mutexQueueHolder = "free" /\ m_mutexQueueHolder' = t

Unlock == m_mutexQueueHolder' = "free"

-----------------------------------------------------------------------------
(* The receiver thread.                                                    *)

\* Mutant: the message after the one that came in.
MutNewPacketAhead ==
  /\ rpc = "new"
  /\ count < MaxMessages
  /\ \E a \in Packets \ allocated :
       /\ pPacket' = a
       /\ allocated' = allocated \cup {a}
       /\ m_ptrNext' = [m_ptrNext EXCEPT ![a] = NULL]
       /\ m_ptrData' = [m_ptrData EXCEPT ![a] = count + 2]
  /\ count' = count + 1
  /\ rpc' = "add"
  /\ UNCHANGED <<listVars, m_mutexQueueHolder, pVars>>

\* new EventDataPacket(pEventData)
NewPacket ==
  /\ rpc = "new"
  /\ count < MaxMessages
  /\ \E a \in Packets \ allocated :
       /\ pPacket' = a
       /\ allocated' = allocated \cup {a}
       /\ m_ptrNext' = [m_ptrNext EXCEPT ![a] = NULL]
       /\ m_ptrData' = [m_ptrData EXCEPT ![a] = count + 1]
  /\ count' = count + 1
  /\ rpc' = "add"
  /\ UNCHANGED <<listVars, m_mutexQueueHolder, pVars>>

\* AddToProducerQueue, that is PushToQueue: no lock.
AddToProducerQueue ==
  /\ \/ rpc = "add" /\ Link("producer", pPacket) /\ UNCHANGED m_ptrTail
        /\ rpc' = "addTail"
     \/ rpc = "addTail" /\ SetTail("producer", pPacket)
        /\ UNCHANGED <<m_ptrHead, m_ptrNext>> /\ rpc' = "lock"
  /\ UNCHANGED <<m_ptrData, allocated, m_mutexQueueHolder, pPacket, count,
                 pVars>>

LockPush ==
  /\ rpc = "lock"
  /\ Lock("receiver")
  /\ rpc' = IF m_ptrHead["producer"] # NULL THEN "link" ELSE "unlock"
  /\ UNCHANGED <<heapVars, listVars, pPacket, count, pVars>>

PushToIntermediateQueue ==
  /\ \/ /\ rpc = "link" /\ rpc' = "tail"
        /\ Link("intermediate", m_ptrHead["producer"])
        /\ UNCHANGED <<m_ptrTail, m_mutexQueueHolder>>
     \/ /\ rpc = "tail" /\ rpc' = "clear"
        /\ SetTail("intermediate", m_ptrTail["producer"])
        /\ UNCHANGED <<m_ptrHead, m_ptrNext, m_mutexQueueHolder>>
     \/ /\ rpc = "clear" /\ rpc' = "unlock"
        /\ Clear("producer")
        /\ UNCHANGED <<m_ptrNext, m_mutexQueueHolder>>
     \/ /\ rpc = "unlock" /\ rpc' = "new"
        /\ Unlock
        /\ UNCHANGED <<listVars, m_ptrNext>>
  /\ UNCHANGED <<m_ptrData, allocated, pPacket, count, pVars>>

Receiver ==
  NewPacket \/ AddToProducerQueue \/ LockPush \/ PushToIntermediateQueue

-----------------------------------------------------------------------------
(* The processing thread.                                                  *)

LockPoll ==
  /\ ppc = "lock"
  /\ Lock("processor")
  /\ ppc' = IF m_ptrHead["intermediate"] # NULL THEN "link" ELSE "unlock"
  /\ UNCHANGED <<heapVars, listVars, pCont, taken, rVars>>

PollFromIntermediateQueue ==
  /\ \/ /\ ppc = "link" /\ ppc' = "tail"
        /\ Link("consumer", m_ptrHead["intermediate"])
        /\ UNCHANGED <<m_ptrTail, m_mutexQueueHolder>>
     \/ /\ ppc = "tail" /\ ppc' = "clear"
        /\ SetTail("consumer", m_ptrTail["intermediate"])
        /\ UNCHANGED <<m_ptrHead, m_ptrNext, m_mutexQueueHolder>>
     \/ /\ ppc = "clear" /\ ppc' = "unlock"
        /\ Clear("intermediate")
        /\ UNCHANGED <<m_ptrNext, m_mutexQueueHolder>>
     \/ /\ ppc = "unlock" /\ ppc' = "poll"
        /\ Unlock
        /\ UNCHANGED <<listVars, m_ptrNext>>
  /\ UNCHANGED <<m_ptrData, allocated, pCont, taken, rVars>>

\* Leaves the tail alone: an empty consumer queue has a stale tail.
PollFromConsumerQueue ==
  /\ ppc = "poll"
  /\ m_ptrHead["consumer"] # NULL
  /\ pCont' = m_ptrHead["consumer"]
  /\ m_ptrHead' = [m_ptrHead EXCEPT !["consumer"] = m_ptrNext[pCont']]
  /\ m_ptrNext' = [m_ptrNext EXCEPT ![pCont'] = NULL]
  /\ taken' = Append(taken, m_ptrData[pCont'])
  /\ ppc' = "delete"
  /\ UNCHANGED <<m_ptrTail, m_ptrData, allocated, m_mutexQueueHolder, rVars>>

\* delete pCont, once processQ is done with it.
DeletePacket ==
  /\ ppc = "delete"
  /\ allocated' = allocated \ {pCont}
  /\ pCont' = NULL
  /\ ppc' = "poll"
  /\ UNCHANGED <<m_ptrNext, m_ptrData, listVars, m_mutexQueueHolder, taken,
                 rVars>>

\* PollFromConsumerQueue returns NULL; processQ returns and is called again.
ConsumerQueueEmpty ==
  /\ ppc = "poll"
  /\ m_ptrHead["consumer"] = NULL
  /\ ppc' = "lock"
  /\ UNCHANGED <<heapVars, listVars, m_mutexQueueHolder, pCont, taken, rVars>>

Processor ==
  \/ LockPoll
  \/ PollFromIntermediateQueue
  \/ PollFromConsumerQueue
  \/ DeletePacket
  \/ ConsumerQueueEmpty

Next == Receiver \/ Processor

Spec == Init /\ [][Next]_vars

(***************************************************************************)
(* Both threads keep running, and a thread that asks for the mutex again   *)
(* and again while it is sometimes free gets it.                           *)
(***************************************************************************)
Fairness ==
  /\ WF_vars(AddToProducerQueue \/ PushToIntermediateQueue)
  /\ SF_vars(LockPush)
  /\ WF_vars(Processor)
  /\ SF_vars(LockPoll)

FairSpec == Spec /\ Fairness

-----------------------------------------------------------------------------
(* Properties.                                                             *)

\* Every variable keeps its type.
TypeOK ==
  /\ m_ptrHead \in [Queues -> Packets \cup {NULL}]
  /\ m_ptrTail \in [Queues -> Packets \cup {NULL}]
  /\ m_ptrNext \in [Packets -> Packets \cup {NULL}]
  /\ m_ptrData \in [Packets -> 0..MaxMessages]
  /\ allocated \subseteq Packets
  /\ m_mutexQueueHolder \in {"free", "receiver", "processor"}
  /\ rpc \in {"new", "add", "addTail", "lock", "link", "tail", "clear",
              "unlock"}
  /\ pPacket \in Packets \cup {NULL}
  /\ count \in 0..MaxMessages
  /\ ppc \in {"lock", "link", "tail", "clear", "unlock", "poll", "delete"}
  /\ pCont \in Packets \cup {NULL}
  /\ taken \in Seq(0..MaxMessages)

\* The packets that following next from s leads to: those in every set that
\* has s in it and that next does not lead out of.
Reach(s, next) ==
  {a \in Packets : \A S \in SUBSET Packets :
     s \in S \cup {NULL} /\ (\A b \in S : next[b] \in S \cup {NULL}) => a \in S}

\* The packets on the list of q.
InQueue(q) == Reach(m_ptrHead[q], m_ptrNext)

(***************************************************************************)
(* No queue ever leads into deleted memory: every packet on a list is      *)
(* allocated and every list ends.  The tail that PushToQueue or a splice   *)
(* is about to write through is the last packet of its list, although      *)
(* PollFromConsumerQueue leaves a stale tail behind.                       *)
(***************************************************************************)
NoDanglingPointer ==
  /\ \A q \in Queues :
       /\ InQueue(q) \subseteq allocated
       /\ m_ptrHead[q] # NULL => \E a \in InQueue(q) : m_ptrNext[a] = NULL
  /\ \A q \in Queues :
       ( \/ q = "producer" /\ rpc = "add"
         \/ q = "intermediate" /\ rpc = "link"
         \/ q = "consumer" /\ ppc = "link" ) /\ m_ptrHead[q] # NULL =>
         m_ptrTail[q] \in InQueue(q) /\ m_ptrNext[m_ptrTail[q]] = NULL

(***************************************************************************)
(* No packet leaks and none is on two lists, except while a thread inside  *)
(* the mutex moves a list: an allocated packet is on exactly one list, or  *)
(* about to be added, or just taken.                                       *)
(***************************************************************************)
EachPacketInOnePlace ==
  LET inHand == (IF rpc = "add" THEN {pPacket} ELSE {})
                \cup (IF ppc = "delete" THEN {pCont} ELSE {})
      moving == \/ rpc \in {"tail", "clear"}
                \/ ppc \in {"tail", "clear"}
  IN  /\ allocated = inHand \cup UNION {InQueue(q) : q \in Queues}
      /\ inHand \cap UNION {InQueue(q) : q \in Queues} = {}
      /\ ~moving => \A q, r \in Queues : q # r => InQueue(q) \cap InQueue(r) = {}

\* The lists implement the bounded FIFO channel, in which what is given is
\* taken: Put is new EventDataPacket, Take is PollFromConsumerQueue.
Chan == INSTANCE Channel WITH
          Message <- 1..MaxMessages,
          Room <- Cardinality(Packets),
          given <- [i \in 1..count |-> i]

ImplementsChannel == Chan!FairSpec

\* Its safety part alone.
ImplementsFifo == Chan!Spec

-----------------------------------------------------------------------------
(* What the safety properties rest on; with TypeOK FrameInv is inductive   *)
(* (module EventQueueFrameProofs).  A packet is known by the number of its *)
(* message.                                                                *)

\* Packets with messages on their way.
Waiting == allocated \ (IF ppc = "delete" THEN {pCont} ELSE {})

\* How many messages have been linked into the intermediate queue, and how
\* many of them into the consumer queue.
Pushed ==
  IF rpc \in {"add", "addTail", "lock", "link"} THEN count - 1 ELSE count

Spliced ==
  IF m_ptrHead["intermediate"] = NULL \/ ppc \in {"tail", "clear"}
    THEN Pushed
    ELSE m_ptrData[m_ptrHead["intermediate"]] - 1

\* Each message on its way is in one packet.
Numbered ==
  /\ {m_ptrData[a] : a \in Waiting} = (Len(taken) + 1)..count
  /\ \A a, b \in Waiting : m_ptrData[a] = m_ptrData[b] => a = b
  /\ Cardinality(Waiting) = count - Len(taken)

MutexHeld ==
  /\ m_mutexQueueHolder = "receiver"
       <=> rpc \in {"link", "tail", "clear", "unlock"}
  /\ m_mutexQueueHolder = "processor"
       <=> ppc \in {"link", "tail", "clear", "unlock"}

\* The packets the threads have in hand.
InHand ==
  /\ rpc \in {"add", "addTail", "lock", "link", "tail", "clear"} =>
       pPacket \in Waiting /\ m_ptrData[pPacket] = count
         /\ m_ptrNext[pPacket] = NULL
  /\ ppc = "delete" => pCont \in allocated

\* The list that starts at s is the packets of W with the messages after lo
\* up to hi, linked in their order.
List(s, lo, hi, W, data, next) ==
  LET on == {a \in W : lo < data[a] /\ data[a] <= hi} IN
  /\ lo <= hi
  /\ IF lo = hi THEN s = NULL ELSE s \in on /\ data[s] = lo + 1
  /\ Reach(s, next) = on
  /\ \A a \in on : IF data[a] = hi
                    THEN next[a] = NULL
                    ELSE next[a] \in on /\ data[next[a]] = data[a] + 1

Linked(s, lo, hi) == List(s, lo, hi, Waiting, m_ptrData, m_ptrNext)

\* The producer queue holds at most the packet in hand, the consumer queue is
\* empty when it is spliced to.
ProducerList ==
  /\ m_ptrHead["producer"] =
       IF rpc \in {"addTail", "lock", "link", "tail", "clear"} THEN pPacket
                                                              ELSE NULL
  /\ rpc \in {"lock", "link", "tail", "clear"} =>
       m_ptrTail["producer"] = pPacket

ConsumerList ==
  /\ Linked(m_ptrHead["consumer"], Len(taken), Spliced)
  /\ ppc \in {"lock", "link"} => m_ptrHead["consumer"] = NULL

IntermediateList ==
  /\ IF ppc \in {"tail", "clear"}
       THEN m_ptrHead["intermediate"] = m_ptrHead["consumer"]
       ELSE Linked(m_ptrHead["intermediate"], Spliced, Pushed)
  /\ rpc \in {"tail", "clear"} \/ ppc \in {"link", "tail", "clear"} =>
       m_ptrHead["intermediate"] # NULL
  /\ m_ptrHead["intermediate"] # NULL /\ rpc # "tail" =>
       /\ m_ptrTail["intermediate"] \in Waiting
       /\ m_ptrData[m_ptrTail["intermediate"]] = Pushed

FrameInv ==
  /\ Numbered /\ MutexHeld /\ InHand
  /\ ProducerList /\ ConsumerList /\ IntermediateList
=============================================================================
