------------------------ MODULE EventQueueFrameProofs ------------------------
(***************************************************************************)
(* Proofs about EventQueueFrame.                                           *)
(*                                                                         *)
(* First what following next pointers gives on a heap and how it changes   *)
(* when a packet is linked, unlinked or added; then the type invariant and *)
(* the inductive invariant FrameInv, one lemma per step that moves a list; *)
(* from them the safety properties, and the refinement of Channel, where   *)
(* only NewPacket and PollFromConsumerQueue are steps of the channel and    *)
(* every other pointer assignment is a stutter.                            *)
(***************************************************************************)
EXTENDS EventQueueFrame, FiniteSetTheorems, TLAPS

Nexts == [Packets -> Packets \cup {NULL}]

-----------------------------------------------------------------------------
(* Following links.  Reach is a least set, so all of this is shown by      *)
(* choosing sets and needs no induction along the list.                    *)

\* A set that has s in it and that next stays in holds all that s leads to.
LEMMA ReachInside ==
  ASSUME NEW s, NEW next, NEW S \in SUBSET Packets, s \in S \cup {NULL},
         \A b \in S : next[b] \in S \cup {NULL}
  PROVE  Reach(s, next) \subseteq S
  BY DEF Reach

\* What s leads to is such a set itself.
LEMMA ReachClosed ==
  ASSUME NEW next \in Nexts, NEW s \in Packets \cup {NULL}
  PROVE  /\ Reach(s, next) \subseteq Packets
         /\ s \in Reach(s, next) \cup {NULL}
         /\ \A a \in Reach(s, next) : next[a] \in Reach(s, next) \cup {NULL}
<1>1. Reach(s, next) \subseteq Packets
  BY DEF Reach
<1>2. s \in Reach(s, next) \cup {NULL}
  BY DEF Reach
<1>3. ASSUME NEW a \in Reach(s, next), next[a] # NULL
      PROVE  next[a] \in Reach(s, next)
  <2>1. a \in Packets /\ next[a] \in Packets
    BY <1>1, <1>3 DEF Nexts
  <2>2. ASSUME NEW S \in SUBSET Packets, s \in S \cup {NULL},
               \A b \in S : next[b] \in S \cup {NULL}
        PROVE  next[a] \in S
    <3>1. a \in S
      BY <2>2 DEF Reach
    <3> QED BY <1>3, <2>2, <3>1
  <2> QED BY <2>1, <2>2 DEF Reach
<1> QED BY <1>1, <1>2, <1>3

\* Links changed elsewhere do not matter.
LEMMA ReachFrame ==
  ASSUME NEW n \in Nexts, NEW m \in Nexts, NEW s \in Packets \cup {NULL},
         \A a \in Reach(s, n) : m[a] = n[a]
  PROVE  Reach(s, m) = Reach(s, n)
<1> DEFINE R == Reach(s, n)
           Q == Reach(s, m)
<1>1. /\ R \subseteq Packets /\ s \in R \cup {NULL}
      /\ \A a \in R : n[a] \in R \cup {NULL}
  BY ReachClosed
<1>2. /\ Q \subseteq Packets /\ s \in Q \cup {NULL}
      /\ \A a \in Q : m[a] \in Q \cup {NULL}
  BY ReachClosed
<1> HIDE DEF R, Q
<1>3. Q \subseteq R
  <2>1. \A a \in R : m[a] \in R \cup {NULL}
    BY <1>1 DEF R
  <2> QED BY <1>1, <2>1, ReachInside DEF Q
<1>4. R \subseteq Q
  <2>1. \A a \in Q \cap R : n[a] \in (Q \cap R) \cup {NULL}
    BY <1>1, <1>2 DEF R
  <2>2. Q \cap R \in SUBSET Packets /\ s \in (Q \cap R) \cup {NULL}
    BY <1>1, <1>2
  <2>3. Reach(s, n) \subseteq Q \cap R
    BY <2>1, <2>2, ReachInside
  <2> QED BY <2>3 DEF R
<1> QED BY <1>3, <1>4 DEF R, Q

LEMMA ReachNull == ASSUME NEW next PROVE Reach(NULL, next) = {}
<1> DEFINE S == {}
<1>1. /\ S \in SUBSET Packets /\ NULL \in S \cup {NULL}
      /\ \A b \in S : next[b] \in S \cup {NULL}
  OBVIOUS
<1>2. \A a : a \notin S
  OBVIOUS
<1> HIDE DEF S
<1>3. Reach(NULL, next) \subseteq S
  BY <1>1, ReachInside
<1> QED BY <1>2, <1>3

\* One step.
LEMMA ReachFrom ==
  ASSUME NEW n \in Nexts, NEW s \in Packets
  PROVE  Reach(s, n) = {s} \cup Reach(n[s], n)
<1> DEFINE R == Reach(s, n)
           Q == Reach(n[s], n)
<1>0. n[s] \in Packets \cup {NULL} /\ s # NULL
  BY FrameAssumption DEF Nexts
<1>1. /\ R \subseteq Packets /\ s \in R
      /\ \A a \in R : n[a] \in R \cup {NULL}
  BY <1>0, ReachClosed
<1>2. /\ Q \subseteq Packets /\ n[s] \in Q \cup {NULL}
      /\ \A a \in Q : n[a] \in Q \cup {NULL}
  BY <1>0, ReachClosed
<1> HIDE DEF R, Q
<1>3. R \subseteq {s} \cup Q
  <2>1. \A a \in {s} \cup Q : n[a] \in ({s} \cup Q) \cup {NULL}
    BY <1>2
  <2>2. {s} \cup Q \in SUBSET Packets
    BY <1>2
  <2>3. Reach(s, n) \subseteq {s} \cup Q
    BY <2>1, <2>2, ReachInside
  <2> QED BY <2>3 DEF R
<1>4. Q \subseteq R
  <2>1. n[s] \in R \cup {NULL}
    BY <1>1
  <2>2. Reach(n[s], n) \subseteq R
    BY <1>1, <2>1, ReachInside
  <2> QED BY <2>2 DEF Q
<1> QED BY <1>1, <1>3, <1>4 DEF R, Q

\* A packet linked after the last one.
LEMMA ReachAppend ==
  ASSUME NEW n \in Nexts, NEW s \in Packets, NEW t \in Reach(s, n),
         n[t] = NULL, NEW a \in Packets, a \notin Reach(s, n), n[a] = NULL
  PROVE  Reach(s, [n EXCEPT ![t] = a]) = Reach(s, n) \cup {a}
<1> DEFINE m == [n EXCEPT ![t] = a]
           R == Reach(s, n)
           Q == Reach(s, m)
<1>0. /\ m \in Nexts /\ t \in Packets /\ m[t] = a
      /\ \A b \in Packets : b # t => m[b] = n[b]
  BY ReachClosed DEF Nexts
<1> HIDE DEF m
<1>1. /\ R \subseteq Packets /\ s \in R \cup {NULL}
      /\ \A b \in R : n[b] \in R \cup {NULL}
  BY ReachClosed
<1>2. /\ Q \subseteq Packets /\ s \in Q \cup {NULL}
      /\ \A b \in Q : m[b] \in Q \cup {NULL}
  BY <1>0, ReachClosed
<1>3. t \in R /\ a \notin R
  OBVIOUS
<1> HIDE DEF R, Q
<1>4. Q \subseteq R \cup {a}
  <2>1. \A b \in R \cup {a} : m[b] \in (R \cup {a}) \cup {NULL}
    BY <1>0, <1>1, <1>3
  <2>2. R \cup {a} \in SUBSET Packets /\ s \in (R \cup {a}) \cup {NULL}
    BY <1>1
  <2>3. Reach(s, m) \subseteq R \cup {a}
    BY <2>1, <2>2, ReachInside
  <2> QED BY <2>3 DEF Q
<1>5. R \subseteq Q
  <2>1. \A b \in Q : n[b] \in Q \cup {NULL}
    BY <1>0, <1>2
  <2>2. Reach(s, n) \subseteq Q
    BY <1>2, <2>1, ReachInside
  <2> QED BY <2>2 DEF R
<1>6. a \in Q
  <2>1. t \in Q
    BY <1>3, <1>5
  <2>2. a # NULL
    BY FrameAssumption
  <2> QED BY <1>0, <1>2, <2>1, <2>2
<1> QED BY <1>4, <1>5, <1>6 DEF m, R, Q

-----------------------------------------------------------------------------
(* Lists of numbered packets.                                              *)

\* What is not on the list does not matter.
LEMMA ListFrame ==
  ASSUME NEW s \in Packets \cup {NULL}, NEW lo \in Int, NEW hi \in Int,
         NEW W \in SUBSET Packets, NEW d, NEW n \in Nexts,
         NEW X \in SUBSET Packets, NEW e, NEW m \in Nexts,
         List(s, lo, hi, W, d, n),
         \A a \in W : lo < d[a] /\ d[a] <= hi =>
           a \in X /\ e[a] = d[a] /\ m[a] = n[a],
         \A a \in X : lo < e[a] /\ e[a] <= hi => a \in W /\ e[a] = d[a]
  PROVE  List(s, lo, hi, X, e, m)
<1> DEFINE on == {a \in W : lo < d[a] /\ d[a] <= hi}
<1>1. on = {a \in X : lo < e[a] /\ e[a] <= hi}
  OBVIOUS
<1>2. /\ lo <= hi
      /\ IF lo = hi THEN s = NULL ELSE s \in on /\ d[s] = lo + 1
      /\ Reach(s, n) = on
      /\ \A a \in on : IF d[a] = hi
                        THEN n[a] = NULL
                        ELSE n[a] \in on /\ d[n[a]] = d[a] + 1
  BY DEF List
<1>3. \A a \in on : e[a] = d[a] /\ m[a] = n[a]
  OBVIOUS
<1> HIDE DEF on
<1>4. Reach(s, m) = on
  BY <1>2, <1>3, ReachFrame
<1> QED BY <1>1, <1>2, <1>3, <1>4 DEF List

\* The packet with the next message, on a list of its own or after the last.
LEMMA ListStart ==
  ASSUME NEW k \in Int, NEW W \in SUBSET Packets, NEW d \in [Packets -> Int],
         NEW n \in Nexts, NEW a \in W, d[a] = k + 1, n[a] = NULL,
         \A b \in W : d[b] = d[a] => b = a
  PROVE  List(a, k, k + 1, W, d, n)
<1> DEFINE on == {b \in W : k < d[b] /\ d[b] <= k + 1}
<1>1. on = {a}
  <2>1. \A b \in W : d[b] \in Int
    OBVIOUS
  <2>2. \A b \in on : d[b] = k + 1
    BY <2>1
  <2>3. a \in on
    BY <2>1
  <2> QED BY <2>2, <2>3
<1>2. Reach(a, n) = {a}
  BY ReachFrom, ReachNull
<1> HIDE DEF on
<1>3. on = {b \in W : k < d[b] /\ d[b] <= k + 1}
  BY DEF on
<1> QED BY <1>1, <1>2, <1>3 DEF List

LEMMA ListAppend ==
  ASSUME NEW s \in Packets, NEW lo \in Int, NEW hi \in Int,
         NEW W \in SUBSET Packets, NEW d \in [Packets -> Int], NEW n \in Nexts,
         List(s, lo, hi, W, d, n),
         NEW t \in W, d[t] = hi, NEW a \in W, d[a] = hi + 1, n[a] = NULL,
         \A b, c \in W : d[b] = d[c] => b = c
  PROVE  List(s, lo, hi + 1, W, d, [n EXCEPT ![t] = a])
<1> DEFINE on == {b \in W : lo < d[b] /\ d[b] <= hi}
           m == [n EXCEPT ![t] = a]
<1>1. /\ lo <= hi
      /\ IF lo = hi THEN s = NULL ELSE s \in on /\ d[s] = lo + 1
      /\ Reach(s, n) = on
      /\ \A b \in on : IF d[b] = hi
                        THEN n[b] = NULL
                        ELSE n[b] \in on /\ d[n[b]] = d[b] + 1
  BY DEF List
<1>2. lo < hi
  BY <1>1, FrameAssumption
<1>3. t \in on /\ a \notin on
  BY <1>2
<1>4. Reach(s, m) = on \cup {a}
  BY <1>1, <1>3, ReachAppend
<1>5. on \cup {a} = {b \in W : lo < d[b] /\ d[b] <= hi + 1}
  <2>1. \A b \in W : d[b] \in Int
    OBVIOUS
  <2>2. ASSUME NEW b \in W, lo < d[b], d[b] <= hi + 1, b \notin on
        PROVE  b = a
    BY <2>1, <2>2
  <2>3. a \in {b \in W : lo < d[b] /\ d[b] <= hi + 1}
    BY <1>2
  <2>4. on \subseteq {b \in W : lo < d[b] /\ d[b] <= hi + 1}
    BY <2>1
  <2> QED BY <2>2, <2>3, <2>4
<1>6. /\ m[t] = a /\ \A b \in Packets : b # t => m[b] = n[b]
      /\ \A b \in on : d[b] \in Int /\ d[b] # hi + 1 /\ b \in W
      /\ \A b \in on : d[b] = hi => b = t
  BY DEF Nexts
<1> HIDE DEF on, m
<1>7. \A b \in on \cup {a} :
        IF d[b] = hi + 1
          THEN m[b] = NULL
          ELSE m[b] \in on \cup {a} /\ d[m[b]] = d[b] + 1
  BY <1>1, <1>3, <1>6
<1>8. lo <= hi + 1 /\ lo # hi + 1 /\ s \in on \cup {a} /\ d[s] = lo + 1
  BY <1>1, <1>2
<1> QED BY <1>4, <1>5, <1>7, <1>8 DEF List, m

\* The first packet taken off.
LEMMA ListTake ==
  ASSUME NEW s \in Packets, NEW lo \in Int, NEW hi \in Int,
         NEW W \in SUBSET Packets, NEW d \in [Packets -> Int], NEW n \in Nexts,
         List(s, lo, hi, W, d, n), \A b, c \in W : d[b] = d[c] => b = c
  PROVE  /\ d[s] = lo + 1 /\ s \in W /\ lo < hi
         /\ List(n[s], lo + 1, hi, W \ {s}, d, [n EXCEPT ![s] = NULL])
<1> DEFINE on == {b \in W : lo < d[b] /\ d[b] <= hi}
           rest == {b \in W \ {s} : lo + 1 < d[b] /\ d[b] <= hi}
           m == [n EXCEPT ![s] = NULL]
<1>1. /\ lo <= hi
      /\ IF lo = hi THEN s = NULL ELSE s \in on /\ d[s] = lo + 1
      /\ Reach(s, n) = on
      /\ \A b \in on : IF d[b] = hi
                        THEN n[b] = NULL
                        ELSE n[b] \in on /\ d[n[b]] = d[b] + 1
  BY DEF List
<1>2. lo < hi /\ s \in on /\ s \in W /\ d[s] = lo + 1
  BY <1>1, FrameAssumption
<1>3. on = {s} \cup rest /\ s \notin rest
  <2>1. \A b \in W : d[b] \in Int /\ (d[b] = lo + 1 => b = s)
    BY <1>2
  <2> QED BY <1>2, <2>1
<1>4. \A b \in rest : /\ b \in on /\ d[b] \in Int /\ lo + 1 < d[b] /\ m[b] = n[b]
                     /\ b # s
  BY <1>3 DEF Nexts
<1>5. n[s] \in rest \cup {NULL} /\ \A b \in rest : n[b] \in rest \cup {NULL}
  <2>1. \A b \in on : d[b] \in Int
    OBVIOUS
  <2> HIDE DEF on, rest, m
  <2>2. ASSUME NEW b \in on, n[b] # NULL PROVE n[b] \in rest
    <3>1. n[b] \in on /\ d[n[b]] = d[b] + 1
      BY <1>1, <2>2
    <3>2. lo < d[b]
      BY DEF on
    <3>3. n[b] # s
      BY <1>2, <2>1, <3>1, <3>2
    <3> QED BY <1>3, <3>1, <3>3
  <2> QED BY <1>2, <1>4, <2>2
<1>6. rest \in SUBSET Packets
  OBVIOUS
<1> HIDE DEF on, rest
<1>7. Reach(n[s], n) = rest
  <2>1. Reach(n[s], n) \subseteq rest
    BY <1>5, <1>6, ReachInside
  <2>2. Reach(s, n) = {s} \cup Reach(n[s], n)
    BY ReachFrom
  <2> QED BY <1>1, <1>3, <2>1, <2>2
<1>8. m \in Nexts /\ n[s] \in Packets \cup {NULL}
  BY DEF Nexts
<1>9. Reach(n[s], m) = rest
  <2> HIDE DEF m
  <2> QED BY <1>4, <1>7, <1>8, ReachFrame
<1>10. IF lo + 1 = hi THEN n[s] = NULL ELSE n[s] \in rest /\ d[n[s]] = lo + 2
  <2>1. IF d[s] = hi THEN n[s] = NULL ELSE n[s] \in on /\ d[n[s]] = d[s] + 1
    BY <1>1, <1>2
  <2>2. n[s] # NULL => n[s] \in rest
    BY <1>5
  <2>3. NULL \notin on
    BY FrameAssumption DEF on
  <2> QED BY <1>2, <2>1, <2>2, <2>3
<1>11. \A b \in rest : IF d[b] = hi
                        THEN m[b] = NULL
                        ELSE m[b] \in rest /\ d[m[b]] = d[b] + 1
  <2>1. NULL \notin on
    BY FrameAssumption DEF on
  <2> HIDE DEF m
  <2> QED BY <1>1, <1>4, <1>5, <2>1
<1>12. lo + 1 <= hi /\ (lo + 1) + 1 = lo + 2
  BY <1>2
<1> QED BY <1>2, <1>9, <1>10, <1>11, <1>12 DEF List, rest, m

-----------------------------------------------------------------------------
(* The invariant and what it says at once.                                 *)

FrameSafe == TypeOK /\ FrameInv

LEMMA Sizes ==
  FrameSafe =>
    /\ Waiting \in SUBSET Packets /\ Waiting \subseteq allocated
    /\ m_ptrData \in [Packets -> Int] /\ m_ptrNext \in Nexts
    /\ \A q \in Queues : m_ptrHead[q] \in Packets \cup {NULL}
    /\ count \in Nat /\ Len(taken) \in Nat
    /\ Pushed \in Int /\ Spliced \in Int
    /\ Len(taken) <= Spliced /\ Spliced <= Pushed /\ Pushed <= count
<1> SUFFICES ASSUME TypeOK, FrameInv
             PROVE  Sizes!2
  BY DEF FrameSafe
<1>1. /\ Waiting \in SUBSET Packets /\ Waiting \subseteq allocated
      /\ m_ptrData \in [Packets -> Int] /\ m_ptrNext \in Nexts
      /\ \A q \in Queues : m_ptrHead[q] \in Packets \cup {NULL}
      /\ count \in Nat /\ Len(taken) \in Nat
  BY FrameAssumption DEF TypeOK, Waiting, Nexts
<1>2. Pushed \in Int /\ Pushed <= count
  BY <1>1 DEF Pushed
<1>3. Spliced \in Int
  BY <1>1, <1>2, FrameAssumption DEF Spliced, Queues
<1>4. Len(taken) <= Spliced
  BY DEF FrameInv, ConsumerList, Linked, List
<1>5. Spliced <= Pushed
  <2>1. CASE ppc \in {"tail", "clear"}
    BY <1>2, <2>1 DEF Spliced
  <2>2. CASE ppc \notin {"tail", "clear"}
    BY <2>2 DEF FrameInv, IntermediateList, Linked, List
  <2> QED BY <2>1, <2>2
<1> QED BY <1>1, <1>2, <1>3, <1>4, <1>5

LEMMA InitFrameSafe == Init => FrameSafe
<1> SUFFICES ASSUME Init PROVE FrameSafe
  OBVIOUS
<1> USE FrameAssumption DEF Init
<1>1. TypeOK
  BY DEF TypeOK
<1>2. Waiting = {} /\ Pushed = 0 /\ Spliced = 0 /\ Len(taken) = 0
  BY DEF Waiting, Pushed, Spliced, Queues
<1>3. Numbered
  <2>1. Cardinality(Waiting) = 0
    BY <1>2, FS_EmptySet
  <2>2. {m_ptrData[a] : a \in Waiting} = {} /\ 1..0 = {}
    BY <1>2
  <2> QED BY <1>2, <2>1, <2>2 DEF Numbered
<1>4. MutexHeld /\ InHand /\ ProducerList
  BY DEF MutexHeld, InHand, ProducerList, Queues
<1>5. Linked(NULL, 0, 0)
  BY <1>2, ReachNull DEF Linked, List
<1>6. ConsumerList /\ IntermediateList
  BY <1>2, <1>5 DEF ConsumerList, IntermediateList, Queues
<1> QED BY <1>1, <1>3, <1>4, <1>6 DEF FrameSafe, FrameInv

-----------------------------------------------------------------------------
(* Types and the mutex.                                                    *)

\* Every step keeps the types.
LEMMA FrameTypeNext == FrameSafe /\ [Next]_vars => TypeOK'
<1> SUFFICES ASSUME FrameSafe, [Next]_vars PROVE TypeOK'
  OBVIOUS
<1>0. TypeOK
  BY DEF FrameSafe
<1> USE <1>0, FrameAssumption DEF TypeOK, heapVars, listVars, rVars, pVars, Queues
<1>1. CASE NewPacket
  BY <1>1 DEF NewPacket
<1>2. CASE AddToProducerQueue
  BY <1>2 DEF AddToProducerQueue, Link, SetTail
<1>3. CASE LockPush
  BY <1>3 DEF LockPush, Lock
<1>4. CASE PushToIntermediateQueue
  BY <1>4 DEF PushToIntermediateQueue, Link, SetTail, Clear, Unlock
<1>5. CASE LockPoll
  BY <1>5 DEF LockPoll, Lock
<1>6. CASE PollFromIntermediateQueue
  BY <1>6 DEF PollFromIntermediateQueue, Link, SetTail, Clear, Unlock
<1>7. CASE PollFromConsumerQueue
  BY <1>7 DEF PollFromConsumerQueue
<1>8. CASE DeletePacket
  BY <1>8 DEF DeletePacket
<1>9. CASE ConsumerQueueEmpty
  BY <1>9 DEF ConsumerQueueEmpty
<1>10. CASE UNCHANGED vars
  BY <1>10 DEF vars
<1> QED BY <1>1, <1>2, <1>3, <1>4, <1>5, <1>6, <1>7, <1>8, <1>9, <1>10
        DEF Next, Receiver, Processor

\* Only one thread is inside the mutex.
LEMMA MutexNext == FrameSafe /\ [Next]_vars => MutexHeld'
<1> SUFFICES ASSUME FrameSafe, [Next]_vars PROVE MutexHeld'
  OBVIOUS
<1>0. TypeOK /\ MutexHeld
  BY DEF FrameSafe, FrameInv
<1> USE <1>0 DEF TypeOK, MutexHeld, heapVars, listVars, rVars, pVars
<1>1. CASE NewPacket \/ AddToProducerQueue \/ LockPush
  BY <1>1 DEF NewPacket, AddToProducerQueue, LockPush, Lock
<1>2. CASE PushToIntermediateQueue
  BY <1>2 DEF PushToIntermediateQueue, Unlock
<1>3. CASE LockPoll \/ PollFromIntermediateQueue
  BY <1>3 DEF LockPoll, Lock, PollFromIntermediateQueue, Unlock
<1>4. CASE PollFromConsumerQueue \/ DeletePacket \/ ConsumerQueueEmpty
  BY <1>4 DEF PollFromConsumerQueue, DeletePacket, ConsumerQueueEmpty
<1>5. CASE UNCHANGED vars
  BY <1>5 DEF vars
<1> QED BY <1>1, <1>2, <1>3, <1>4, <1>5 DEF Next, Receiver, Processor

-----------------------------------------------------------------------------
(* The lists, action by action.                                            *)

\* The parts of FrameInv about packets.
Lists == Numbered /\ InHand /\ ProducerList /\ ConsumerList /\ IntermediateList

\* A new packet is on no list yet.
LEMMA NewPacketKeepsLists == FrameSafe /\ NewPacket => Lists'
<1> SUFFICES ASSUME FrameSafe, NewPacket PROVE Lists'
  OBVIOUS
<1>0. TypeOK /\ Numbered /\ InHand /\ ProducerList /\ ConsumerList
        /\ IntermediateList /\ TypeOK'
  BY FrameTypeNext DEF FrameSafe, FrameInv, Next, Receiver
<1>1. /\ Waiting \in SUBSET Packets /\ Waiting \subseteq allocated
      /\ m_ptrData \in [Packets -> Int] /\ m_ptrNext \in Nexts
      /\ \A q \in Queues : m_ptrHead[q] \in Packets \cup {NULL}
      /\ count \in Nat /\ Len(taken) \in Nat
      /\ Pushed \in Int /\ Spliced \in Int
      /\ Len(taken) <= Spliced /\ Spliced <= Pushed /\ Pushed <= count
  BY Sizes
<1>2. PICK a \in Packets \ allocated :
        /\ pPacket' = a /\ allocated' = allocated \cup {a}
        /\ m_ptrNext' = [m_ptrNext EXCEPT ![a] = NULL]
        /\ m_ptrData' = [m_ptrData EXCEPT ![a] = count + 1]
  BY DEF NewPacket
<1>3. /\ rpc = "new" /\ rpc' = "add" /\ count' = count + 1
      /\ UNCHANGED <<m_ptrHead, m_ptrTail, ppc, pCont, taken>>
  BY DEF NewPacket, listVars, pVars
<1>4. Waiting' = Waiting \cup {a} /\ a \notin Waiting
  BY <1>0, <1>1, <1>2, <1>3 DEF Waiting, InHand
<1>5. /\ m_ptrData'[a] = count + 1 /\ m_ptrNext'[a] = NULL
      /\ \A b \in Waiting : m_ptrData'[b] = m_ptrData[b] /\ m_ptrNext'[b] = m_ptrNext[b]
      /\ m_ptrNext' \in Nexts /\ Waiting' \in SUBSET Packets
  BY <1>1, <1>2, <1>4 DEF Nexts
<1>6. Pushed' = Pushed /\ Pushed = count
  BY <1>1, <1>3 DEF Pushed
<1>7. \A q \in Queues, lo \in Int, hi \in Int :
        Linked(m_ptrHead[q], lo, hi) /\ hi <= count
          => List(m_ptrHead[q], lo, hi, Waiting', m_ptrData', m_ptrNext')
  BY <1>1, <1>4, <1>5, ListFrame DEF Linked
<1>8. Spliced' = Spliced
  <2>1. m_ptrHead["intermediate"] = NULL \/ ppc \in {"tail", "clear"}
          \/ m_ptrHead["intermediate"] \in Waiting
    BY <1>0 DEF IntermediateList, Linked, List
  <2> QED BY <1>3, <1>5, <1>6, <2>1 DEF Spliced
<1>9. Numbered'
  <2>1. {m_ptrData'[b] : b \in Waiting'} = (Len(taken) + 1)..(count + 1)
    <3>1. {m_ptrData'[b] : b \in Waiting'} = {m_ptrData[b] : b \in Waiting} \cup {count + 1}
      BY <1>4, <1>5
    <3>2. {m_ptrData[b] : b \in Waiting} = (Len(taken) + 1)..count
      BY <1>0 DEF Numbered
    <3>3. (Len(taken) + 1)..(count + 1) = ((Len(taken) + 1)..count) \cup {count + 1}
      BY <1>1
    <3> QED BY <3>1, <3>2, <3>3
  <2>2. ASSUME NEW b \in Waiting', NEW c \in Waiting', m_ptrData'[b] = m_ptrData'[c]
        PROVE  b = c
    <3>1. \A e \in Waiting : m_ptrData[e] \in (Len(taken) + 1)..count
      BY <1>0 DEF Numbered
    <3>2. \A e \in Waiting : m_ptrData'[e] # count + 1
      BY <1>1, <1>5, <3>1
    <3> QED BY <1>0, <1>4, <1>5, <2>2, <3>2 DEF Numbered
  <2>3. Cardinality(Waiting') = count + 1 - Len(taken)
    <3>1. IsFiniteSet(Waiting)
      BY <1>1, FrameAssumption, FS_Subset
    <3>2. Cardinality(Waiting \cup {a}) = Cardinality(Waiting) + 1
      BY <1>4, <3>1, FS_AddElement
    <3>3. Cardinality(Waiting) = count - Len(taken)
      BY <1>0 DEF Numbered
    <3> QED BY <1>1, <1>4, <3>2, <3>3
  <2>4. count' = count + 1 /\ taken' = taken
    BY <1>3
  <2>5. {m_ptrData[b] : b \in Waiting}' = ((Len(taken) + 1)..count)'
    BY <2>1, <2>4
  <2>6. Cardinality(Waiting)' = (count - Len(taken))'
    BY <1>1, <2>3, <2>4
  <2> QED BY <2>2, <2>5, <2>6 DEF Numbered
<1>10. InHand'
  BY <1>0, <1>2, <1>3, <1>4, <1>5 DEF InHand
<1>11. ProducerList'
  BY <1>0, <1>3 DEF ProducerList
<1>12. ConsumerList'
  BY <1>0, <1>1, <1>3, <1>6, <1>7, <1>8 DEF ConsumerList, Linked, Queues
<1>13. IntermediateList'
  BY <1>0, <1>1, <1>3, <1>4, <1>5, <1>6, <1>7, <1>8
     DEF IntermediateList, Linked, Queues
<1> QED BY <1>9, <1>10, <1>11, <1>12, <1>13 DEF Lists

\* Where no packet, number or link changes, the lists that stay where they are
\* stay as they are.
LEMMA Quiet ==
  ASSUME FrameSafe, UNCHANGED <<m_ptrData, count, taken>>, Waiting' = Waiting,
         Pushed' = Pushed
  PROVE  /\ Numbered'
         /\ \A s, lo, hi : m_ptrNext' = m_ptrNext =>
              (List(s, lo, hi, Waiting', m_ptrData', m_ptrNext') <=> Linked(s, lo, hi))
         /\ /\ UNCHANGED m_ptrHead["intermediate"]
            /\ ppc \in {"tail", "clear"} <=> ppc' \in {"tail", "clear"}
            => Spliced' = Spliced
<1>1. Numbered
  BY DEF FrameSafe, FrameInv
<1>2. Numbered'
  BY <1>1 DEF Numbered
<1>3. \A s, lo, hi : m_ptrNext' = m_ptrNext =>
        (List(s, lo, hi, Waiting', m_ptrData', m_ptrNext') <=> Linked(s, lo, hi))
  BY DEF Linked
<1>4. /\ UNCHANGED m_ptrHead["intermediate"]
      /\ ppc \in {"tail", "clear"} <=> ppc' \in {"tail", "clear"}
      => Spliced' = Spliced
  BY DEF Spliced
<1> QED BY <1>2, <1>3, <1>4

\* The packet in hand becomes the producer queue.
LEMMA AddKeepsLists == FrameSafe /\ AddToProducerQueue => Lists'
<1> SUFFICES ASSUME FrameSafe, AddToProducerQueue PROVE Lists'
  OBVIOUS
<1>0. TypeOK /\ InHand /\ ProducerList /\ ConsumerList /\ IntermediateList
  BY DEF FrameSafe, FrameInv
<1>1. /\ UNCHANGED <<m_ptrNext, m_ptrData, allocated, ppc, pCont, taken, count>>
      /\ UNCHANGED <<pPacket, m_ptrHead["intermediate"], m_ptrHead["consumer"]>>
      /\ UNCHANGED m_ptrTail["intermediate"]
      /\ \/ /\ rpc = "add" /\ rpc' = "addTail"
            /\ m_ptrHead'["producer"] = pPacket
         \/ /\ rpc = "addTail" /\ rpc' = "lock"
            /\ m_ptrHead'["producer"] = m_ptrHead["producer"]
            /\ m_ptrTail'["producer"] = pPacket
  BY <1>0 DEF AddToProducerQueue, Link, SetTail, pVars, ProducerList, TypeOK,
              Queues
<1>2. Waiting' = Waiting /\ Pushed' = Pushed
  BY <1>1 DEF Waiting, Pushed
<1>3. Numbered' /\ Spliced' = Spliced
  BY <1>1, <1>2, Quiet
<1>4. InHand'
  BY <1>0, <1>1, <1>2 DEF InHand
<1>5. ProducerList'
  BY <1>0, <1>1 DEF ProducerList
<1>6. ConsumerList'
  BY <1>0, <1>1, <1>2, <1>3, Quiet DEF ConsumerList, Linked
<1>7. IntermediateList'
  BY <1>0, <1>1, <1>2, <1>3, Quiet DEF IntermediateList, Linked
<1> QED BY <1>3, <1>4, <1>5, <1>6, <1>7 DEF Lists

LEMMA LockPushKeepsLists == FrameSafe /\ LockPush => Lists'
<1> SUFFICES ASSUME FrameSafe, LockPush PROVE Lists'
  OBVIOUS
<1>0. TypeOK /\ InHand /\ ProducerList /\ ConsumerList /\ IntermediateList
  BY DEF FrameSafe, FrameInv
<1>1. /\ UNCHANGED <<heapVars, listVars, pPacket, count, pVars>>
      /\ rpc = "lock" /\ rpc' = "link"
  <2>1. pPacket # NULL
    BY <1>0, FrameAssumption DEF LockPush, InHand, Waiting, TypeOK
  <2> QED BY <1>0, <2>1 DEF LockPush, ProducerList
<1>2. /\ Waiting' = Waiting /\ Pushed' = Pushed
      /\ UNCHANGED <<m_ptrData, count, taken, m_ptrNext, m_ptrHead, m_ptrTail>>
      /\ UNCHANGED <<ppc, pCont, allocated, pPacket>>
  BY <1>1 DEF Waiting, Pushed, heapVars, listVars, pVars
<1>3. Numbered' /\ Spliced' = Spliced
  BY <1>2, Quiet
<1>4. InHand'
  BY <1>0, <1>1, <1>2 DEF InHand
<1>5. ProducerList'
  BY <1>0, <1>1, <1>2 DEF ProducerList
<1>6. ConsumerList'
  BY <1>0, <1>2, <1>3, Quiet DEF ConsumerList, Linked
<1>7. IntermediateList'
  BY <1>0, <1>1, <1>2, <1>3, Quiet DEF IntermediateList, Linked
<1> QED BY <1>3, <1>4, <1>5, <1>6, <1>7 DEF Lists

\* The splice into the intermediate queue: the packet is linked after the last
\* one, then it is made the tail, then the producer queue forgets it.
LEMMA PushKeepsLists == FrameSafe /\ PushToIntermediateQueue => Lists'
<1> SUFFICES ASSUME FrameSafe, PushToIntermediateQueue PROVE Lists'
  OBVIOUS
<1>0. /\ TypeOK /\ InHand /\ ProducerList /\ ConsumerList /\ IntermediateList
      /\ Numbered /\ ppc \notin {"link", "tail", "clear", "unlock"}
  BY DEF FrameSafe, FrameInv, MutexHeld, PushToIntermediateQueue
<1>1. /\ UNCHANGED <<m_ptrData, allocated, pPacket, count, ppc, pCont, taken>>
      /\ Waiting' = Waiting
  BY DEF PushToIntermediateQueue, pVars, Waiting
<1>2. /\ Waiting \in SUBSET Packets /\ Waiting \subseteq allocated
      /\ m_ptrData \in [Packets -> Int] /\ m_ptrNext \in Nexts
      /\ \A q \in Queues : m_ptrHead[q] \in Packets \cup {NULL}
      /\ count \in Nat /\ Len(taken) \in Nat
      /\ Pushed \in Int /\ Spliced \in Int
      /\ Len(taken) <= Spliced /\ Spliced <= Pushed /\ Pushed <= count
  BY Sizes
<1>3. CASE rpc = "link"
  <2>1. /\ rpc' = "tail" /\ UNCHANGED m_ptrTail
        /\ Link("intermediate", pPacket)
        /\ pPacket \in Waiting /\ m_ptrData[pPacket] = count
        /\ m_ptrNext[pPacket] = NULL
    BY <1>0, <1>3 DEF PushToIntermediateQueue, ProducerList, InHand
  <2>2. Pushed = count - 1 /\ Pushed' = count
    BY <1>1, <1>3, <2>1 DEF Pushed
  <2>3. /\ \A b, c \in Waiting : m_ptrData[b] = m_ptrData[c] => b = c
        /\ pPacket \in Packets /\ pPacket # NULL
    BY <1>0, <1>2, <2>1, FrameAssumption DEF Numbered
  <2>4. Numbered'
    BY <1>0, <1>1 DEF Numbered
  <2>5. CASE m_ptrHead["intermediate"] = NULL
    <3>1. /\ m_ptrHead' = [m_ptrHead EXCEPT !["intermediate"] = pPacket]
          /\ UNCHANGED m_ptrNext
      BY <2>1, <2>5 DEF Link
    <3>2. /\ m_ptrHead'["intermediate"] = pPacket
          /\ UNCHANGED <<m_ptrHead["consumer"], m_ptrHead["producer"]>>
      BY <1>0, <3>1 DEF TypeOK, Queues
    <3>3. Spliced = count - 1 /\ Spliced' = Spliced
      BY <1>0, <1>1, <2>1, <2>2, <2>3, <2>5, <3>2 DEF Spliced
    <3>4. List(pPacket, count - 1, count, Waiting, m_ptrData, m_ptrNext)
      <4>1. m_ptrData[pPacket] = (count - 1) + 1 /\ count - 1 \in Int
        BY <1>2, <2>1
      <4>2. List(pPacket, count - 1, (count - 1) + 1, Waiting, m_ptrData, m_ptrNext)
        BY <1>2, <2>1, <2>3, <4>1, ListStart
      <4> QED BY <1>2, <4>2
    <3>5. InHand'
      BY <1>0, <1>1, <2>1, <3>1 DEF InHand
    <3>6. ProducerList'
      BY <1>0, <1>1, <1>3, <2>1, <3>2 DEF ProducerList
    <3>7. ConsumerList'
      BY <1>0, <1>1, <3>1, <3>2, <3>3 DEF ConsumerList, Linked
    <3>8. IntermediateList'
      BY <1>0, <1>1, <2>1, <2>2, <2>3, <3>1, <3>2, <3>3, <3>4
         DEF IntermediateList, Linked
    <3> QED BY <2>4, <3>5, <3>6, <3>7, <3>8 DEF Lists
  <2>6. CASE m_ptrHead["intermediate"] # NULL
    <3> DEFINE t == m_ptrTail["intermediate"]
               h == m_ptrHead["intermediate"]
    <3>1. /\ m_ptrNext' = [m_ptrNext EXCEPT ![t] = pPacket]
          /\ UNCHANGED m_ptrHead
      BY <2>1, <2>6 DEF Link
    <3>2. t \in Waiting /\ m_ptrData[t] = Pushed /\ h \in Packets
      BY <1>0, <1>2, <1>3, <2>6 DEF IntermediateList, Queues
    <3>3. /\ Spliced' = Spliced
          /\ Linked(h, Spliced, Pushed)
      BY <1>0, <1>1, <2>6, <3>1 DEF Spliced, IntermediateList
    <3>4. List(h, Spliced, count, Waiting, m_ptrData, m_ptrNext')
      <4>1. m_ptrData[pPacket] = Pushed + 1 /\ Pushed + 1 = count
        BY <1>2, <2>1, <2>2
      <4>2. List(h, Spliced, Pushed, Waiting, m_ptrData, m_ptrNext)
        BY <3>3 DEF Linked
      <4> HIDE DEF t, h
      <4>3. List(h, Spliced, Pushed + 1, Waiting, m_ptrData,
                 [m_ptrNext EXCEPT ![t] = pPacket])
        BY <1>2, <2>1, <2>3, <3>2, <4>1, <4>2, ListAppend
      <4> QED BY <3>1, <4>1, <4>3
    <3>5. m_ptrNext' \in Nexts /\ \A b \in Packets : b # t => m_ptrNext'[b] = m_ptrNext[b]
      BY <1>2, <2>3, <3>1 DEF Nexts
    <3>6. List(m_ptrHead["consumer"], Len(taken), Spliced, Waiting, m_ptrData,
               m_ptrNext')
      <4>1. List(m_ptrHead["consumer"], Len(taken), Spliced, Waiting, m_ptrData,
                 m_ptrNext)
        BY <1>0 DEF ConsumerList, Linked
      <4>2. Spliced < Pushed
        BY <1>2, <2>6, <3>3 DEF Linked, List
      <4>3. \A b \in Waiting : m_ptrData[b] <= Spliced => b # t
        BY <1>2, <3>2, <4>2
      <4>4. m_ptrHead["consumer"] \in Packets \cup {NULL}
        BY <1>2 DEF Queues
      <4> HIDE DEF t
      <4> QED BY <1>2, <3>5, <4>1, <4>3, <4>4, ListFrame
    <3>7. InHand'
      <4>1. pPacket # t
        BY <1>2, <2>1, <2>2, <3>2
      <4> QED BY <1>0, <1>1, <2>1, <2>3, <3>5, <4>1 DEF InHand
    <3>8. ProducerList'
      BY <1>0, <1>1, <1>3, <2>1, <3>1 DEF ProducerList
    <3>9. ConsumerList'
      BY <1>0, <1>1, <3>1, <3>3, <3>6 DEF ConsumerList, Linked
    <3>10. IntermediateList'
      BY <1>0, <1>1, <2>1, <2>2, <2>6, <3>1, <3>3, <3>4
         DEF IntermediateList, Linked
    <3> QED BY <2>4, <3>7, <3>8, <3>9, <3>10 DEF Lists
  <2> QED BY <2>5, <2>6
<1>4. CASE rpc # "link"
  <2>1. /\ UNCHANGED <<m_ptrNext, m_ptrHead["intermediate"], m_ptrHead["consumer"]>>
        /\ \/ /\ rpc = "tail" /\ rpc' = "clear"
              /\ m_ptrTail'["intermediate"] = m_ptrTail["producer"]
              /\ UNCHANGED <<m_ptrHead["producer"], m_ptrTail["producer"]>>
           \/ /\ rpc = "clear" /\ rpc' = "unlock"
              /\ m_ptrHead'["producer"] = NULL
              /\ UNCHANGED m_ptrTail["intermediate"]
           \/ /\ rpc = "unlock" /\ rpc' = "new"
              /\ UNCHANGED <<m_ptrHead["producer"], m_ptrTail["intermediate"]>>
    BY <1>0, <1>4 DEF PushToIntermediateQueue, SetTail, Clear, listVars, TypeOK,
                      Queues
  <2>2. Pushed' = Pushed /\ (rpc = "tail" => Pushed = count)
    BY <1>1, <2>1 DEF Pushed
  <2>3. Numbered' /\ Spliced' = Spliced
    BY <1>1, <2>1, <2>2, Quiet
  <2>4. InHand'
    BY <1>0, <1>1, <2>1 DEF InHand
  <2>5. ProducerList'
    BY <1>0, <1>1, <2>1 DEF ProducerList
  <2>6. ConsumerList'
    BY <1>0, <1>1, <2>1, <2>2, <2>3, Quiet DEF ConsumerList, Linked
  <2>7. IntermediateList'
    BY <1>0, <1>1, <2>1, <2>2, <2>3, Quiet
       DEF IntermediateList, Linked, ProducerList, InHand
  <2> QED BY <2>3, <2>4, <2>5, <2>6, <2>7 DEF Lists
<1> QED BY <1>3, <1>4

LEMMA LockPollKeepsLists == FrameSafe /\ LockPoll => Lists'
<1> SUFFICES ASSUME FrameSafe, LockPoll PROVE Lists'
  OBVIOUS
<1>0. TypeOK /\ InHand /\ ProducerList /\ ConsumerList /\ IntermediateList
  BY DEF FrameSafe, FrameInv
<1>1. /\ UNCHANGED <<m_ptrData, allocated, m_ptrNext, m_ptrHead, m_ptrTail>>
      /\ UNCHANGED <<rpc, pPacket, count, pCont, taken>>
      /\ ppc = "lock"
      /\ \/ ppc' = "link" /\ m_ptrHead["intermediate"] # NULL
         \/ ppc' = "unlock"
  BY DEF LockPoll, heapVars, listVars, rVars
<1>2. Waiting' = Waiting /\ Pushed' = Pushed
  BY <1>1 DEF Waiting, Pushed
<1>3. Numbered' /\ Spliced' = Spliced
  BY <1>1, <1>2, Quiet
<1>4. InHand'
  BY <1>0, <1>1, <1>2 DEF InHand
<1>5. ProducerList'
  BY <1>0, <1>1 DEF ProducerList
<1>6. ConsumerList'
  BY <1>0, <1>1, <1>2, <1>3, Quiet DEF ConsumerList, Linked
<1>7. IntermediateList'
  BY <1>0, <1>1, <1>2, <1>3, Quiet DEF IntermediateList, Linked
<1> QED BY <1>3, <1>4, <1>5, <1>6, <1>7 DEF Lists

\* The splice into the consumer queue, which is empty: for a while both heads
\* lead to the same packets, until the intermediate queue forgets them.
LEMMA PollKeepsLists == FrameSafe /\ PollFromIntermediateQueue => Lists'
<1> SUFFICES ASSUME FrameSafe, PollFromIntermediateQueue PROVE Lists'
  OBVIOUS
<1>0. /\ TypeOK /\ InHand /\ ProducerList /\ ConsumerList /\ IntermediateList
      /\ rpc \notin {"link", "tail", "clear", "unlock"}
  BY DEF FrameSafe, FrameInv, MutexHeld, PollFromIntermediateQueue
<1>1. /\ UNCHANGED <<m_ptrData, allocated, pPacket, count, rpc, pCont, taken>>
      /\ Waiting' = Waiting /\ Pushed' = Pushed
  BY DEF PollFromIntermediateQueue, rVars, Waiting, Pushed
<1>2. Numbered'
  BY <1>1, Quiet
<1>3. CASE ppc = "link"
  <2>1. /\ ppc' = "tail" /\ UNCHANGED m_ptrTail
        /\ m_ptrHead["consumer"] = NULL /\ m_ptrHead["intermediate"] # NULL
        /\ m_ptrHead' = [m_ptrHead EXCEPT !["consumer"] = m_ptrHead["intermediate"]]
        /\ UNCHANGED m_ptrNext
    BY <1>0, <1>3 DEF PollFromIntermediateQueue, Link, ConsumerList,
                      IntermediateList
  <2>2. /\ m_ptrHead'["consumer"] = m_ptrHead["intermediate"]
        /\ UNCHANGED <<m_ptrHead["intermediate"], m_ptrHead["producer"]>>
    BY <1>0, <2>1 DEF TypeOK, Queues
  <2>3. Linked(m_ptrHead["intermediate"], Spliced, Pushed)
    BY <1>0, <1>3 DEF IntermediateList
  <2>4. Spliced = Len(taken)
    BY <1>0, <2>1, FrameAssumption DEF ConsumerList, Linked, List, Waiting, TypeOK
  <2>5. Spliced' = Pushed
    BY <1>1, <2>1 DEF Spliced
  <2>6. InHand'
    BY <1>0, <1>1, <1>3, <2>1 DEF InHand
  <2>7. ProducerList'
    BY <1>0, <1>1, <2>1, <2>2 DEF ProducerList
  <2>8. ConsumerList'
    BY <1>1, <2>1, <2>2, <2>3, <2>4, <2>5 DEF ConsumerList, Linked
  <2>9. IntermediateList'
    BY <1>0, <1>1, <2>1, <2>2 DEF IntermediateList
  <2> QED BY <1>2, <2>6, <2>7, <2>8, <2>9 DEF Lists
<1>4. CASE ppc = "tail"
  <2>1. /\ ppc' = "clear" /\ UNCHANGED <<m_ptrHead, m_ptrNext>>
        /\ UNCHANGED m_ptrTail["intermediate"]
        /\ UNCHANGED m_ptrTail["producer"]
    BY <1>0, <1>4 DEF PollFromIntermediateQueue, SetTail, TypeOK, Queues
  <2>2. Spliced' = Spliced
    BY <1>1, <1>4, <2>1, Quiet
  <2>3. InHand'
    BY <1>0, <1>1, <1>4, <2>1 DEF InHand
  <2>4. ProducerList'
    BY <1>0, <1>1, <2>1 DEF ProducerList
  <2>5. ConsumerList'
    BY <1>0, <1>1, <2>1, <2>2, Quiet DEF ConsumerList, Linked
  <2>6. IntermediateList'
    BY <1>0, <1>1, <1>4, <2>1 DEF IntermediateList
  <2> QED BY <1>2, <2>3, <2>4, <2>5, <2>6 DEF Lists
<1>5. CASE ppc = "clear"
  <2>1. /\ ppc' = "unlock" /\ UNCHANGED m_ptrNext
        /\ m_ptrHead'["intermediate"] = NULL
        /\ UNCHANGED <<m_ptrHead["consumer"], m_ptrHead["producer"]>>
        /\ UNCHANGED m_ptrTail["producer"]
    BY <1>0, <1>5 DEF PollFromIntermediateQueue, Clear, TypeOK, Queues
  <2>2. Spliced = Pushed /\ Spliced' = Pushed
    BY <1>1, <1>5, <2>1 DEF Spliced
  <2>3. Linked(NULL, Pushed, Pushed)'
    <3>1. Pushed \in Int /\ Waiting \in SUBSET Packets /\ m_ptrData \in [Packets -> Int]
      BY Sizes
    <3>2. {a \in Waiting : Pushed < m_ptrData[a] /\ m_ptrData[a] <= Pushed} = {}
      BY <3>1
    <3> QED BY <1>1, <3>1, <3>2, ReachNull DEF Linked, List
  <2>4. InHand'
    BY <1>0, <1>1, <1>5, <2>1 DEF InHand
  <2>5. ProducerList'
    BY <1>0, <1>1, <2>1 DEF ProducerList
  <2>6. ConsumerList'
    BY <1>0, <1>1, <2>1, <2>2, Quiet DEF ConsumerList, Linked
  <2>7. IntermediateList'
    BY <1>0, <1>1, <2>1, <2>2, <2>3 DEF IntermediateList
  <2> QED BY <1>2, <2>4, <2>5, <2>6, <2>7 DEF Lists
<1>6. CASE ppc = "unlock"
  <2>1. ppc' = "poll" /\ UNCHANGED <<m_ptrHead, m_ptrTail, m_ptrNext>>
    BY <1>6 DEF PollFromIntermediateQueue, listVars
  <2>2. Spliced' = Spliced
    BY <1>1, <1>6, <2>1, Quiet
  <2>3. InHand'
    BY <1>0, <1>1, <1>6, <2>1 DEF InHand
  <2>4. ProducerList'
    BY <1>0, <1>1, <2>1 DEF ProducerList
  <2>5. ConsumerList'
    BY <1>0, <1>1, <2>1, <2>2, Quiet DEF ConsumerList, Linked
  <2>6. IntermediateList'
    BY <1>0, <1>1, <1>6, <2>1, <2>2, Quiet DEF IntermediateList, Linked
  <2> QED BY <1>2, <2>3, <2>4, <2>5, <2>6 DEF Lists
<1> QED BY <1>3, <1>4, <1>5, <1>6 DEF PollFromIntermediateQueue

\* The first packet is taken off the consumer queue; the tail stays as it is.
LEMMA TakeKeepsLists == FrameSafe /\ PollFromConsumerQueue => Lists'
<1> SUFFICES ASSUME FrameSafe, PollFromConsumerQueue PROVE Lists'
  OBVIOUS
<1>0. /\ TypeOK /\ InHand /\ ProducerList /\ ConsumerList /\ IntermediateList
      /\ Numbered
  BY DEF FrameSafe, FrameInv
<1>1. /\ Waiting \in SUBSET Packets /\ Waiting \subseteq allocated
      /\ m_ptrData \in [Packets -> Int] /\ m_ptrNext \in Nexts
      /\ \A q \in Queues : m_ptrHead[q] \in Packets \cup {NULL}
      /\ count \in Nat /\ Len(taken) \in Nat
      /\ Pushed \in Int /\ Spliced \in Int
      /\ Len(taken) <= Spliced /\ Spliced <= Pushed /\ Pushed <= count
  BY Sizes
<1> DEFINE h == m_ptrHead["consumer"]
<1>2. /\ ppc = "poll" /\ ppc' = "delete" /\ h # NULL /\ pCont' = h
      /\ m_ptrHead' = [m_ptrHead EXCEPT !["consumer"] = m_ptrNext[h]]
      /\ m_ptrNext' = [m_ptrNext EXCEPT ![h] = NULL]
      /\ taken' = Append(taken, m_ptrData[h])
      /\ UNCHANGED <<m_ptrTail, m_ptrData, allocated, rpc, pPacket, count>>
  BY DEF PollFromConsumerQueue, rVars
<1>3. /\ m_ptrHead'["consumer"] = m_ptrNext[h]
      /\ UNCHANGED <<m_ptrHead["intermediate"], m_ptrHead["producer"]>>
  BY <1>0, <1>2 DEF TypeOK, Queues
<1>4. h \in Packets
  BY <1>1, <1>2 DEF Queues
<1>5. Len(taken') = Len(taken) + 1
  BY <1>0, <1>2 DEF TypeOK
<1>6. Waiting' = Waiting \ {h}
  BY <1>2 DEF Waiting
<1>7. \A b, c \in Waiting : m_ptrData[b] = m_ptrData[c] => b = c
  BY <1>0 DEF Numbered
<1>8. List(h, Len(taken), Spliced, Waiting, m_ptrData, m_ptrNext)
  BY <1>0 DEF ConsumerList, Linked
<1> HIDE DEF h
<1>9. /\ m_ptrData[h] = Len(taken) + 1 /\ h \in Waiting /\ Len(taken) < Spliced
      /\ List(m_ptrNext[h], Len(taken) + 1, Spliced, Waiting \ {h}, m_ptrData,
              [m_ptrNext EXCEPT ![h] = NULL])
  <2>1. Len(taken) \in Int /\ Spliced \in Int
    BY <1>1
  <2> QED BY <1>1, <1>4, <1>7, <1>8, <2>1, ListTake
<1>10. Pushed' = Pushed
  BY <1>2 DEF Pushed
<1>11. Spliced' = Spliced
  BY <1>2, <1>3, <1>10 DEF Spliced
<1>12. m_ptrNext' \in Nexts /\ \A b \in Packets : b # h => m_ptrNext'[b] = m_ptrNext[b]
  BY <1>1, <1>2, <1>4 DEF Nexts
<1>13. List(m_ptrHead["intermediate"], Spliced, Pushed, Waiting', m_ptrData,
            m_ptrNext')
  <2>1. List(m_ptrHead["intermediate"], Spliced, Pushed, Waiting, m_ptrData,
             m_ptrNext)
    BY <1>0, <1>2 DEF IntermediateList, Linked
  <2>2. \A b \in Waiting : Spliced < m_ptrData[b] => b # h
    BY <1>1, <1>9
  <2>3. m_ptrHead["intermediate"] \in Packets \cup {NULL}
    BY <1>1 DEF Queues
  <2>4. Waiting' \in SUBSET Packets
    BY <1>1, <1>6
  <2> QED BY <1>1, <1>6, <1>12, <2>1, <2>2, <2>3, <2>4, ListFrame
<1>14. Numbered'
  <2>1. {m_ptrData[b] : b \in Waiting \ {h}} = (Len(taken) + 2)..count
    <3>1. {m_ptrData[b] : b \in Waiting} = (Len(taken) + 1)..count
      BY <1>0 DEF Numbered
    <3>2. ASSUME NEW b \in Waiting \ {h}
          PROVE  m_ptrData[b] \in (Len(taken) + 2)..count
      <4>1. m_ptrData[b] \in (Len(taken) + 1)..count
        BY <3>1
      <4>2. m_ptrData[b] # Len(taken) + 1
        BY <1>7, <1>9
      <4> QED BY <1>1, <4>1, <4>2
    <3>3. ASSUME NEW k \in (Len(taken) + 2)..count
          PROVE  \E b \in Waiting \ {h} : m_ptrData[b] = k
      <4>1. k \in (Len(taken) + 1)..count /\ k # Len(taken) + 1
        BY <1>1
      <4>2. PICK b \in Waiting : m_ptrData[b] = k
        BY <3>1, <4>1
      <4> QED BY <1>9, <4>1, <4>2
    <3> QED BY <3>2, <3>3
  <2>2. Cardinality(Waiting \ {h}) = count - (Len(taken) + 1)
    <3>1. IsFiniteSet(Waiting)
      BY <1>1, FrameAssumption, FS_Subset
    <3>2. Cardinality(Waiting \ {h}) = Cardinality(Waiting) - 1
      BY <1>9, <3>1, FS_RemoveElement
    <3>3. Cardinality(Waiting) = count - Len(taken)
      BY <1>0 DEF Numbered
    <3> QED BY <1>1, <3>2, <3>3
  <2>3. {m_ptrData[b] : b \in Waiting}' = ((Len(taken) + 1)..count)'
    BY <1>1, <1>2, <1>5, <1>6, <2>1
  <2>4. Cardinality(Waiting)' = (count - Len(taken))'
    BY <1>1, <1>2, <1>5, <1>6, <2>2
  <2>5. \A b, c \in Waiting' : m_ptrData'[b] = m_ptrData'[c] => b = c
    BY <1>2, <1>6, <1>7
  <2> QED BY <2>3, <2>4, <2>5 DEF Numbered
<1>15. rpc \in {"add", "addTail", "lock", "link", "tail", "clear"} => pPacket # h
  <2>1. CASE rpc \in {"add", "addTail", "lock", "link"}
    BY <1>0, <1>1, <1>9, <2>1 DEF InHand, Pushed
  <2>2. CASE rpc \in {"tail", "clear"}
    <3>1. Spliced < Pushed
      BY <1>0, <1>1, <1>2, <2>2 DEF IntermediateList, Linked, List
    <3> QED BY <1>0, <1>1, <1>9, <2>2, <3>1 DEF InHand, Pushed
  <2> QED BY <2>1, <2>2
<1>16. InHand'
  BY <1>0, <1>2, <1>6, <1>9, <1>12, <1>15, Sizes DEF InHand
<1>17. ProducerList'
  BY <1>0, <1>2, <1>3 DEF ProducerList
<1>18. ConsumerList'
  BY <1>2, <1>3, <1>5, <1>6, <1>9, <1>11 DEF ConsumerList, Linked
<1>19. IntermediateList'
  <2>1. /\ m_ptrHead["intermediate"] # NULL => Spliced < Pushed
    BY <1>0, <1>1, <1>2 DEF IntermediateList, Linked, List
  <2> QED BY <1>0, <1>1, <1>2, <1>3, <1>6, <1>9, <1>10, <1>11, <1>13, <2>1
          DEF IntermediateList, Linked
<1> QED BY <1>14, <1>16, <1>17, <1>18, <1>19 DEF Lists

LEMMA DeleteKeepsLists == FrameSafe /\ DeletePacket => Lists'
<1> SUFFICES ASSUME FrameSafe, DeletePacket PROVE Lists'
  OBVIOUS
<1>0. TypeOK /\ InHand /\ ProducerList /\ ConsumerList /\ IntermediateList
  BY DEF FrameSafe, FrameInv
<1>1. /\ UNCHANGED <<m_ptrData, m_ptrNext, m_ptrHead, m_ptrTail>>
      /\ UNCHANGED <<rpc, pPacket, count, taken>>
      /\ ppc = "delete" /\ ppc' = "poll" /\ allocated' = allocated \ {pCont}
  BY DEF DeletePacket, listVars, rVars
<1>2. Waiting' = Waiting /\ Pushed' = Pushed
  BY <1>1 DEF Waiting, Pushed
<1>3. Numbered' /\ Spliced' = Spliced
  BY <1>1, <1>2, Quiet
<1>4. InHand'
  BY <1>0, <1>1, <1>2 DEF InHand
<1>5. ProducerList'
  BY <1>0, <1>1 DEF ProducerList
<1>6. ConsumerList'
  BY <1>0, <1>1, <1>2, <1>3, Quiet DEF ConsumerList, Linked
<1>7. IntermediateList'
  BY <1>0, <1>1, <1>2, <1>3, Quiet DEF IntermediateList, Linked
<1> QED BY <1>3, <1>4, <1>5, <1>6, <1>7 DEF Lists

LEMMA EmptyKeepsLists == FrameSafe /\ ConsumerQueueEmpty => Lists'
<1> SUFFICES ASSUME FrameSafe, ConsumerQueueEmpty PROVE Lists'
  OBVIOUS
<1>0. TypeOK /\ InHand /\ ProducerList /\ ConsumerList /\ IntermediateList
  BY DEF FrameSafe, FrameInv
<1>1. /\ UNCHANGED <<m_ptrData, allocated, m_ptrNext, m_ptrHead, m_ptrTail>>
      /\ UNCHANGED <<rpc, pPacket, count, pCont, taken>>
      /\ ppc = "poll" /\ ppc' = "lock" /\ m_ptrHead["consumer"] = NULL
  BY DEF ConsumerQueueEmpty, heapVars, listVars, rVars
<1>2. Waiting' = Waiting /\ Pushed' = Pushed
  BY <1>1 DEF Waiting, Pushed
<1>3. Numbered' /\ Spliced' = Spliced
  BY <1>1, <1>2, Quiet
<1>4. InHand'
  BY <1>0, <1>1, <1>2 DEF InHand
<1>5. ProducerList'
  BY <1>0, <1>1 DEF ProducerList
<1>6. ConsumerList'
  BY <1>0, <1>1, <1>2, <1>3, Quiet DEF ConsumerList, Linked
<1>7. IntermediateList'
  BY <1>0, <1>1, <1>2, <1>3, Quiet DEF IntermediateList, Linked
<1> QED BY <1>3, <1>4, <1>5, <1>6, <1>7 DEF Lists

LEMMA FrameSafeNext == FrameSafe /\ [Next]_vars => FrameSafe'
<1> SUFFICES ASSUME FrameSafe, [Next]_vars PROVE FrameSafe'
  OBVIOUS
<1>1. Lists'
  <2>1. CASE UNCHANGED vars
    <3>1. /\ UNCHANGED <<m_ptrData, allocated, m_ptrNext, m_ptrHead, m_ptrTail>>
          /\ UNCHANGED <<rpc, pPacket, count, ppc, pCont, taken>>
      BY <2>1 DEF vars, heapVars, listVars, rVars, pVars
    <3>2. Waiting' = Waiting /\ Pushed' = Pushed /\ Spliced' = Spliced
      BY <3>1 DEF Waiting, Pushed, Spliced
    <3> QED BY <3>1, <3>2 DEF FrameSafe, FrameInv, Lists, Numbered, InHand,
                              ProducerList, ConsumerList, IntermediateList, Linked
  <2> QED BY <2>1, NewPacketKeepsLists, AddKeepsLists, LockPushKeepsLists,
             PushKeepsLists, LockPollKeepsLists, PollKeepsLists, TakeKeepsLists,
             DeleteKeepsLists, EmptyKeepsLists DEF Next, Receiver, Processor
<1> QED BY <1>1, FrameTypeNext, MutexNext DEF FrameSafe, FrameInv, Lists

-----------------------------------------------------------------------------
(* The theorems.                                                           *)

THEOREM FrameInvariant == Spec => []FrameSafe
  BY InitFrameSafe, FrameSafeNext, PTL DEF Spec

\* Every variable keeps its type: the links lead to packets or nowhere.
THEOREM FrameTypeCorrect == Spec => []TypeOK
<1>1. FrameSafe => TypeOK
  BY DEF FrameSafe
<1> QED BY <1>1, FrameInvariant, PTL

\* What is on the three lists, by number.
LEMMA QueueContents ==
  FrameSafe =>
    /\ InQueue("consumer") =
         {a \in Waiting : Len(taken) < m_ptrData[a] /\ m_ptrData[a] <= Spliced}
    /\ InQueue("intermediate") =
         IF ppc \in {"tail", "clear"}
           THEN InQueue("consumer")
           ELSE {a \in Waiting : Spliced < m_ptrData[a] /\ m_ptrData[a] <= Pushed}
    /\ InQueue("producer") =
         IF rpc \in {"addTail", "lock", "link", "tail", "clear"} THEN {pPacket}
                                                                ELSE {}
<1> SUFFICES ASSUME FrameSafe PROVE QueueContents!2
  OBVIOUS
<1>0. TypeOK /\ InHand /\ ProducerList /\ ConsumerList /\ IntermediateList
  BY DEF FrameSafe, FrameInv
<1>1. InQueue("consumer") =
        {a \in Waiting : Len(taken) < m_ptrData[a] /\ m_ptrData[a] <= Spliced}
  BY <1>0 DEF ConsumerList, Linked, List, InQueue
<1>2. InQueue("intermediate") =
        IF ppc \in {"tail", "clear"}
          THEN InQueue("consumer")
          ELSE {a \in Waiting : Spliced < m_ptrData[a] /\ m_ptrData[a] <= Pushed}
  BY <1>0 DEF IntermediateList, Linked, List, InQueue
<1>3. CASE rpc \in {"addTail", "lock", "link", "tail", "clear"}
  <2>1. m_ptrHead["producer"] = pPacket /\ m_ptrNext[pPacket] = NULL
          /\ pPacket \in Packets /\ m_ptrNext \in Nexts
    BY <1>0, <1>3, Sizes DEF ProducerList, InHand
  <2>2. Reach(pPacket, m_ptrNext) = {pPacket}
    BY <2>1, ReachFrom, ReachNull
  <2> QED BY <1>1, <1>2, <1>3, <2>1, <2>2 DEF InQueue
<1>4. CASE rpc \notin {"addTail", "lock", "link", "tail", "clear"}
  BY <1>0, <1>1, <1>2, <1>4, ReachNull DEF ProducerList, InQueue
<1> QED BY <1>3, <1>4

LEMMA FrameSafeNoDanglingPointer == FrameSafe => NoDanglingPointer
<1> SUFFICES ASSUME FrameSafe PROVE NoDanglingPointer
  OBVIOUS
<1>0. /\ TypeOK /\ Numbered /\ InHand /\ ProducerList /\ ConsumerList
      /\ IntermediateList /\ MutexHeld
  BY DEF FrameSafe, FrameInv
<1>1. /\ Waiting \in SUBSET Packets /\ Waiting \subseteq allocated
      /\ m_ptrData \in [Packets -> Int] /\ m_ptrNext \in Nexts
      /\ \A q \in Queues : m_ptrHead[q] \in Packets \cup {NULL}
      /\ count \in Nat /\ Len(taken) \in Nat
      /\ Pushed \in Int /\ Spliced \in Int
      /\ Len(taken) <= Spliced /\ Spliced <= Pushed /\ Pushed <= count
  BY Sizes
<1>2. \A q \in Queues : InQueue(q) \subseteq allocated
  BY <1>0, <1>1, QueueContents DEF Queues, InHand
\* The packet with the last message ends the list.
<1>3. ASSUME NEW lo \in Int, NEW hi \in Int, NEW s, s # NULL, Linked(s, lo, hi),
             Len(taken) <= lo, hi <= count
      PROVE  \E a \in Reach(s, m_ptrNext) : m_ptrNext[a] = NULL
  <2>1. lo < hi
    BY <1>3 DEF Linked, List
  <2>2. hi \in (Len(taken) + 1)..count
    BY <1>1, <1>3, <2>1
  <2>3. PICK a \in Waiting : m_ptrData[a] = hi
    BY <1>0, <2>2 DEF Numbered
  <2> QED BY <1>3, <2>1, <2>3 DEF Linked, List
<1>4. ASSUME m_ptrHead["consumer"] # NULL
      PROVE  \E a \in InQueue("consumer") : m_ptrNext[a] = NULL
  <2>1. Spliced <= count /\ Len(taken) <= Len(taken) /\ Len(taken) \in Int
    BY <1>1
  <2> QED BY <1>0, <1>1, <1>3, <1>4, <2>1 DEF ConsumerList, InQueue
<1>5. ASSUME m_ptrHead["intermediate"] # NULL
      PROVE  \E a \in InQueue("intermediate") : m_ptrNext[a] = NULL
  <2>1. CASE ppc \in {"tail", "clear"}
    BY <1>0, <1>4, <1>5, <2>1 DEF IntermediateList, InQueue
  <2>2. CASE ppc \notin {"tail", "clear"}
    BY <1>0, <1>1, <1>3, <1>5, <2>2 DEF IntermediateList, InQueue
  <2> QED BY <2>1, <2>2
<1>6. ASSUME m_ptrHead["producer"] # NULL
      PROVE  \E a \in InQueue("producer") : m_ptrNext[a] = NULL
  BY <1>0, <1>6, QueueContents DEF ProducerList, InHand
<1>7. ~(rpc = "add" /\ m_ptrHead["producer"] # NULL)
  BY <1>0 DEF ProducerList
<1>8. ~(ppc = "link" /\ m_ptrHead["consumer"] # NULL)
  BY <1>0 DEF ConsumerList
<1>9. ASSUME rpc = "link", m_ptrHead["intermediate"] # NULL
      PROVE  LET t == m_ptrTail["intermediate"] IN
               t \in InQueue("intermediate") /\ m_ptrNext[t] = NULL
  <2>1. m_ptrTail["intermediate"] \in Waiting /\ m_ptrData[m_ptrTail["intermediate"]] = Pushed
    BY <1>0, <1>9 DEF IntermediateList
  <2>2. Linked(m_ptrHead["intermediate"], Spliced, Pushed)
    BY <1>0, <1>9 DEF IntermediateList, MutexHeld
  <2>3. Spliced < Pushed /\ Pushed <= Pushed
    BY <1>1, <1>9, <2>2 DEF Linked, List
  <2>4. m_ptrTail["intermediate"] \in InQueue("intermediate")
    BY <1>9, <2>1, <2>2, <2>3 DEF Linked, List, InQueue
  <2>5. m_ptrNext[m_ptrTail["intermediate"]] = NULL
    BY <1>9, <2>1, <2>2, <2>3 DEF Linked, List
  <2> QED BY <2>4, <2>5
<1> QED BY <1>2, <1>4, <1>5, <1>6, <1>7, <1>8, <1>9 DEF NoDanglingPointer, Queues

\* No list leads into deleted memory or fails to end, and no packet is linked
\* after anything but the last one, whichever thread is where in its splice.
THEOREM PointersSafe == Spec => []NoDanglingPointer
  BY FrameInvariant, FrameSafeNoDanglingPointer, PTL

LEMMA FrameSafeOnePlace == FrameSafe => EachPacketInOnePlace
<1> SUFFICES ASSUME FrameSafe PROVE EachPacketInOnePlace
  OBVIOUS
<1>0. TypeOK /\ Numbered /\ InHand /\ ProducerList /\ IntermediateList
  BY DEF FrameSafe, FrameInv
<1>1. /\ Waiting \in SUBSET Packets /\ Waiting \subseteq allocated
      /\ m_ptrData \in [Packets -> Int]
      /\ count \in Nat /\ Len(taken) \in Nat
      /\ Pushed \in Int /\ Spliced \in Int
      /\ Len(taken) <= Spliced /\ Spliced <= Pushed /\ Pushed <= count
  BY Sizes
<1> DEFINE inHand == (IF rpc = "add" THEN {pPacket} ELSE {})
                     \cup (IF ppc = "delete" THEN {pCont} ELSE {})
           C == InQueue("consumer")
           I == InQueue("intermediate")
           P == InQueue("producer")
           to(hi) == {a \in Waiting : m_ptrData[a] <= hi}
<1>2. /\ C = to(Spliced)
      /\ I = IF ppc \in {"tail", "clear"} THEN C
             ELSE {a \in Waiting : Spliced < m_ptrData[a] /\ m_ptrData[a] <= Pushed}
      /\ P = IF rpc \in {"addTail", "lock", "link", "tail", "clear"} THEN {pPacket}
                                                                     ELSE {}
  <2>1. \A a \in Waiting : Len(taken) < m_ptrData[a]
    <3>1. \A a \in Waiting : m_ptrData[a] \in (Len(taken) + 1)..count
      BY <1>0 DEF Numbered
    <3> QED BY <1>1, <3>1
  <2> QED BY <2>1, QueueContents
<1>3. ppc \in {"tail", "clear"} => Spliced = Pushed
  BY DEF Spliced
<1>4. C \cup I = to(Pushed)
  <2> HIDE DEF C, I
  <2>1. \A a \in Waiting : m_ptrData[a] \in Int
    BY <1>1
  <2> QED BY <1>1, <1>2, <1>3, <2>1
<1>5. Waiting = to(Pushed)
        \cup (IF rpc \in {"add", "addTail", "lock", "link"} THEN {pPacket} ELSE {})
  <2>1. \A a \in Waiting : m_ptrData[a] \in Int /\ m_ptrData[a] <= count
    <3>1. \A a \in Waiting : m_ptrData[a] \in (Len(taken) + 1)..count
      BY <1>0 DEF Numbered
    <3> QED BY <1>1, <3>1
  <2>2. CASE rpc \in {"add", "addTail", "lock", "link"}
    <3>1. Pushed = count - 1 /\ pPacket \in Waiting /\ m_ptrData[pPacket] = count
      BY <1>0, <2>2 DEF Pushed, InHand
    <3>2. ASSUME NEW a \in Waiting, a \notin to(Pushed) PROVE a = pPacket
      <4>1. m_ptrData[a] = count
        BY <1>1, <2>1, <3>1, <3>2
      <4> QED BY <1>0, <3>1, <4>1 DEF Numbered
    <3> QED BY <2>2, <3>1, <3>2
  <2>3. CASE rpc \notin {"add", "addTail", "lock", "link"}
    BY <2>1, <2>3 DEF Pushed
  <2> QED BY <2>2, <2>3
<1>6. \A hi : to(hi) \subseteq Waiting
  OBVIOUS
<1>7. rpc \in {"add", "addTail", "lock", "link", "tail", "clear"} => pPacket \in Waiting
  BY <1>0 DEF InHand
<1>8. rpc \in {"add", "addTail", "lock", "link"} => pPacket \notin to(Pushed)
  BY <1>0, <1>1 DEF InHand, Pushed
<1>9. /\ allocated = Waiting \cup (IF ppc = "delete" THEN {pCont} ELSE {})
      /\ ppc = "delete" => pCont \notin Waiting
  BY <1>0 DEF Waiting, InHand
<1>10. C \cap to(Pushed) = C /\ (ppc \notin {"tail", "clear"} => C \cap I = {})
  <2> HIDE DEF C, I
  <2>1. \A a \in Waiting : m_ptrData[a] \in Int
    BY <1>1
  <2> QED BY <1>1, <1>2, <2>1
<1>11. UNION {InQueue(q) : q \in Queues} = C \cup I \cup P
  BY DEF Queues
<1> HIDE DEF C, I, P, to
<1>12. allocated = inHand \cup (C \cup I \cup P)
  BY <1>2, <1>4, <1>5, <1>6, <1>7, <1>9
<1>13. inHand \cap (C \cup I \cup P) = {}
  BY <1>2, <1>4, <1>6, <1>7, <1>8, <1>9
<1>14. rpc \notin {"tail", "clear"} /\ ppc \notin {"tail", "clear"} =>
         C \cap I = {} /\ C \cap P = {} /\ I \cap P = {}
  BY <1>2, <1>4, <1>8, <1>10
<1> QED
  <2>1. rpc \notin {"tail", "clear"} /\ ppc \notin {"tail", "clear"} =>
          \A q, r \in Queues : q # r => InQueue(q) \cap InQueue(r) = {}
    BY <1>14 DEF Queues, C, I, P
  <2> QED BY <1>11, <1>12, <1>13, <2>1 DEF EachPacketInOnePlace

\* No packet leaks, and none is on two lists while nobody moves one.
THEOREM NoPacketLost == Spec => []EachPacketInOnePlace
  BY FrameInvariant, FrameSafeOnePlace, PTL

-----------------------------------------------------------------------------
(* The lists are a first-in first-out channel.                             *)

LEMMA PutStep == FrameSafe /\ NewPacket => Chan!Put
<1> SUFFICES ASSUME FrameSafe, NewPacket PROVE Chan!Put
  OBVIOUS
<1>0. TypeOK /\ Numbered
  BY DEF FrameSafe, FrameInv
<1>1. /\ Waiting \in SUBSET Packets /\ Waiting \subseteq allocated
      /\ count \in Nat /\ Len(taken) \in Nat
  BY Sizes
<1> DEFINE given == [i \in 1..count |-> i]
<1>2. count' = count + 1 /\ taken' = taken /\ count + 1 \in 1..MaxMessages
  BY <1>1, FrameAssumption DEF NewPacket, pVars
<1>3. count - Len(taken) < Cardinality(Packets)
  <2>1. PICK a \in Packets : a \notin Waiting
    BY <1>1 DEF NewPacket
  <2>2. Waiting \subseteq Packets /\ Waiting # Packets
    BY <1>1, <2>1
  <2>3. Cardinality(Waiting) < Cardinality(Packets)
    <3>1. IsFiniteSet(Waiting) /\ IsFiniteSet(Packets)
      BY <1>1, FrameAssumption, FS_Subset
    <3>2. IsFiniteSet(Packets \ {a}) /\ Waiting \subseteq Packets \ {a}
      BY <1>1, <2>1, <3>1, FS_RemoveElement
    <3>3. Cardinality(Waiting) <= Cardinality(Packets \ {a})
      BY <3>2, FS_Subset
    <3>4. Cardinality(Packets \ {a}) = Cardinality(Packets) - 1
      BY <3>1, FS_RemoveElement
    <3>5. Cardinality(Waiting) \in Nat /\ Cardinality(Packets) \in Nat
      BY <3>1, FS_CardinalityType
    <3> QED BY <3>3, <3>4, <3>5
  <2> QED BY <1>0, <2>3 DEF Numbered
<1>4. Len(given) = count
  BY <1>1
<1>5. [i \in 1..(count + 1) |-> i] = Append(given, count + 1)
  BY <1>1
<1> HIDE DEF given
<1>6. given' = Append(given, count + 1)
  BY <1>2, <1>5 DEF given
<1> QED BY <1>2, <1>3, <1>4, <1>6 DEF Chan!Put, given

LEMMA TakeStep == FrameSafe /\ PollFromConsumerQueue => Chan!Take
<1> SUFFICES ASSUME FrameSafe, PollFromConsumerQueue PROVE Chan!Take
  OBVIOUS
<1>1. /\ count \in Nat /\ Len(taken) \in Nat /\ Spliced \in Int
      /\ Spliced <= count
  BY Sizes
<1> DEFINE h == m_ptrHead["consumer"]
<1>2. m_ptrData[h] = Len(taken) + 1 /\ Len(taken) < Spliced
  BY <1>1 DEF PollFromConsumerQueue, FrameSafe, FrameInv, ConsumerList, Linked,
              List
<1>3. taken' = Append(taken, Len(taken) + 1) /\ count' = count
  BY <1>2 DEF PollFromConsumerQueue, rVars
<1>4. Len([i \in 1..count |-> i]) = count
  BY <1>1
<1>5. [i \in 1..count |-> i][Len(taken) + 1] = Len(taken) + 1
  BY <1>1, <1>2
<1>6. [i \in 1..count |-> i]' = [i \in 1..count |-> i]
  BY <1>3
<1> QED BY <1>1, <1>2, <1>3, <1>4, <1>5, <1>6 DEF Chan!Take

LEMMA ChannelStep == FrameSafe /\ [Next]_vars => [Chan!Next]_(Chan!chanVars)
<1> SUFFICES ASSUME FrameSafe, [Next]_vars PROVE [Chan!Next]_(Chan!chanVars)
  OBVIOUS
<1>1. UNCHANGED <<count, taken>> => UNCHANGED Chan!chanVars
  BY DEF Chan!chanVars
<1>2. CASE NewPacket
  BY <1>2, PutStep DEF Chan!Next
<1>3. CASE PollFromConsumerQueue
  BY <1>3, TakeStep DEF Chan!Next
<1>4. CASE AddToProducerQueue \/ LockPush \/ PushToIntermediateQueue
  BY <1>1, <1>4 DEF AddToProducerQueue, LockPush, PushToIntermediateQueue, pVars
<1>5. CASE LockPoll \/ PollFromIntermediateQueue
  BY <1>1, <1>5 DEF LockPoll, PollFromIntermediateQueue, rVars
<1>6. CASE DeletePacket \/ ConsumerQueueEmpty
  BY <1>1, <1>6 DEF DeletePacket, ConsumerQueueEmpty, rVars
<1>7. CASE UNCHANGED vars
  BY <1>1, <1>7 DEF vars, rVars, pVars
<1> QED BY <1>2, <1>3, <1>4, <1>5, <1>6, <1>7 DEF Next, Receiver, Processor

\* What PollFromConsumerQueue hands out is what was given to new
\* EventDataPacket, each message once and in that order.
THEOREM QueuesImplementFifo == Spec => ImplementsFifo
<1>1. Init => Chan!Init
  BY DEF Init, Chan!Init
<1> QED BY <1>1, ChannelStep, FrameInvariant, PTL DEF Spec, ImplementsFifo, Chan!Spec
=============================================================================
