--------------------------- MODULE StabilizerProofs ---------------------------
(***************************************************************************)
(* What is proved about the two threads together: for processQ, three      *)
(* queues and a condition variable are the FIFO of module                  *)
(* ProcessingThread.  With module ProcessingThreadProofs that carries the  *)
(* processing thread's theorems over to the whole service.                 *)
(***************************************************************************)
EXTENDS Stabilizer, SequenceTheorems, TLAPS

-----------------------------------------------------------------------------
(* The messages on their way.                                              *)

\* The message the receiver thread holds and has not queued yet.
InItsHand ==
  IF rpc \in {"increase", "waitIncrease", "add"} THEN <<m_iCurrentMsgCount>>
                                                 ELSE <<>>

\* Messages are on their way in the order of their arrival, none twice; the
\* number of the one that comes next is new.
ArrivalOrder ==
  /\ m_ptrConsumerQueue \in Seq(Nat)
  /\ m_ptrIntermediateQueue \in Seq(Nat)
  /\ m_ptrProducerQueue \in Seq(Nat)
  /\ m_iCurrentMsgCount \in 0..MaxMessages
  /\ \A i \in 1..Len(OnTheirWay) : OnTheirWay[i] \in 1..m_iCurrentMsgCount
  /\ \A i, j \in 1..Len(OnTheirWay) : i < j => OnTheirWay[i] < OnTheirWay[j]
  /\ DOMAIN content = 1..MaxMessages

\* Handing a message from one queue to the next leaves the whole as it is.
LEMMA Regroup ==
  ASSUME NEW a \in Seq(Nat), NEW b \in Seq(Nat), NEW c \in Seq(Nat),
         NEW d \in Seq(Nat)
  PROVE  /\ a \o b \o c \o d \in Seq(Nat)
         /\ a \o b \o (c \o d) \o <<>> = a \o b \o c \o d
         /\ a \o (b \o c) \o <<>> \o d = a \o b \o c \o d
         /\ (a \o b) \o <<>> \o c \o d = a \o b \o c \o d
<1>1. /\ a \o b \in Seq(Nat) /\ a \o b \o c \in Seq(Nat)
      /\ a \o b \o c \o d \in Seq(Nat)
      /\ <<>> \in Seq(Nat)
  BY ConcatProperties
<1>2. a \o b \o (c \o d) = a \o b \o c \o d
  BY <1>1, ConcatAssociative, SMTT(30)
<1>3. a \o b \o c \o d \o <<>> = a \o b \o c \o d
  BY <1>1, ConcatEmptySeq
<1>4. (a \o b) \o c = a \o (b \o c)
  BY ConcatAssociative, SMTT(30)
<1>5. a \o b \o c \o <<>> = a \o b \o c /\ (a \o b) \o <<>> = a \o b
  BY <1>1, ConcatEmptySeq
<1> QED BY <1>1, <1>2, <1>3, <1>4, <1>5

\* The first queue and all that is behind it.
LEMMA Others ==
  ASSUME NEW a \in Seq(Nat), NEW b \in Seq(Nat), NEW c \in Seq(Nat),
         NEW d \in Seq(Nat)
  PROVE  a \o b \o c \o d = a \o (b \o c \o d)
<1>1. a \o b \in Seq(Nat) /\ b \o c \in Seq(Nat)
  BY ConcatProperties
<1>2. (a \o b) \o c = a \o (b \o c)
  BY ConcatAssociative, SMTT(30)
<1>3. (a \o (b \o c)) \o d = a \o ((b \o c) \o d)
  <2> DEFINE bc == b \o c
  <2>1. bc \in Seq(Nat)
    BY <1>1
  <2> HIDE DEF bc
  <2>2. (a \o bc) \o d = a \o (bc \o d)
    BY <2>1, ConcatAssociative, SMTT(30)
  <2> QED BY <2>2 DEF bc
<1> QED BY <1>2, <1>3

\* The first of several queues that is not empty holds the first message.
LEMMA HeadOfConcat ==
  ASSUME NEW s \in Seq(Nat), s # <<>>, NEW t \in Seq(Nat)
  PROVE  /\ s \o t # <<>>
         /\ Head(s \o t) = Head(s)
         /\ Tail(s \o t) = Tail(s) \o t
<1>1. /\ s \o t \in Seq(Nat)
      /\ Len(s \o t) = Len(s) + Len(t)
      /\ \A i \in 1..Len(s) + Len(t) :
           (s \o t)[i] = IF i <= Len(s) THEN s[i] ELSE t[i - Len(s)]
  BY ConcatProperties
<1>2. Len(s) \in Nat \ {0} /\ Len(t) \in Nat
  BY EmptySeq
<1>3. s \o t # <<>>
  BY <1>1, <1>2, EmptySeq
<1>4. Head(s \o t) = Head(s)
  BY <1>1, <1>2
<1>5. /\ Tail(s) \in Seq(Nat) /\ Len(Tail(s)) = Len(s) - 1
      /\ \A i \in 1..Len(Tail(s)) : Tail(s)[i] = s[i + 1]
  BY HeadTailProperties
<1>6. /\ Tail(s \o t) \in Seq(Nat)
      /\ Len(Tail(s \o t)) = Len(s \o t) - 1
      /\ \A i \in 1..Len(Tail(s \o t)) : Tail(s \o t)[i] = (s \o t)[i + 1]
  BY <1>1, <1>3, HeadTailProperties
<1>7. /\ Tail(s) \o t \in Seq(Nat)
      /\ Len(Tail(s) \o t) = Len(Tail(s)) + Len(t)
      /\ \A i \in 1..Len(Tail(s)) + Len(t) :
           (Tail(s) \o t)[i] = IF i <= Len(Tail(s)) THEN Tail(s)[i]
                                                   ELSE t[i - Len(Tail(s))]
  BY <1>5, ConcatProperties
<1>8. Len(Tail(s) \o t) = Len(Tail(s \o t))
  BY <1>1, <1>2, <1>5, <1>6, <1>7
<1>9. ASSUME NEW i \in 1..Len(Tail(s \o t))
      PROVE  Tail(s \o t)[i] = (Tail(s) \o t)[i]
  <2>1. i \in Nat /\ i >= 1 /\ i <= Len(s) - 1 + Len(t)
    BY <1>1, <1>2, <1>6
  <2>2. Tail(s \o t)[i] = IF i + 1 <= Len(s) THEN s[i + 1]
                                             ELSE t[i + 1 - Len(s)]
    BY <2>1, <1>1, <1>2, <1>6
  <2>3. CASE i + 1 <= Len(s)
    <3>1. i <= Len(Tail(s)) /\ i \in 1..Len(Tail(s)) + Len(t)
      BY <2>1, <2>3, <1>2, <1>5
    <3> QED BY <2>1, <2>2, <2>3, <3>1, <1>5, <1>7
  <2>4. CASE ~(i + 1 <= Len(s))
    <3>1. ~(i <= Len(Tail(s))) /\ i \in 1..Len(Tail(s)) + Len(t)
          /\ i - Len(Tail(s)) = i + 1 - Len(s)
      BY <2>1, <2>4, <1>2, <1>5
    <3> QED BY <2>2, <2>4, <3>1, <1>7
  <2> QED BY <2>3, <2>4
<1>10. Tail(s \o t) = Tail(s) \o t
  BY <1>6, <1>7, <1>8, <1>9, SeqEqual
<1> QED BY <1>3, <1>4, <1>10

\* The queues and the receiver thread's hand are sequences of numbers.
LEMMA OnTheirWayParts ==
  ASSUME ArrivalOrder
  PROVE  /\ OnTheirWay = m_ptrConsumerQueue \o m_ptrIntermediateQueue
                           \o m_ptrProducerQueue \o InItsHand
         /\ InItsHand \in Seq(Nat)
         /\ OnTheirWay \in Seq(Nat)
<1>1. OnTheirWay = m_ptrConsumerQueue \o m_ptrIntermediateQueue
                     \o m_ptrProducerQueue \o InItsHand
  BY DEF OnTheirWay, InItsHand
<1>2. InItsHand \in Seq(Nat)
  BY DEF InItsHand, ArrivalOrder
<1> QED BY <1>1, <1>2, Regroup DEF ArrivalOrder

-----------------------------------------------------------------------------
(* What each step does to them.                                            *)

\* Steps of the hand-off that neither bring a message nor take one.
Passing ==
  \/ H!Decode /\ rpc' = "decode"
  \/ H!PassOn \/ H!Process
  \/ H!PollFromIntermediateQueue \/ H!ConsumerQueueEmpty
  \/ H!WaitToDecrease \/ H!DecreaseQueueSize \/ H!SpuriousWakeup
  \/ \E v \in IgnoreValues : H!SetIgnoreMessageCount(v)
  \/ UNCHANGED handOffVars

\* Wherever a message is passed on to, the messages on their way stay the same.
LEMMA PassingKeeps ==
  ASSUME ArrivalOrder, Passing
  PROVE  OnTheirWay' = OnTheirWay
<1> DEFINE C == m_ptrConsumerQueue
           I == m_ptrIntermediateQueue
           Q == m_ptrProducerQueue
<1>0. /\ C \in Seq(Nat) /\ I \in Seq(Nat) /\ Q \in Seq(Nat)
      /\ InItsHand \in Seq(Nat) /\ m_iCurrentMsgCount \in Nat
      /\ OnTheirWay = C \o I \o Q \o InItsHand
  BY OnTheirWayParts, SMTT(30) DEF ArrivalOrder
<1>a. OnTheirWay' = C' \o I' \o Q' \o InItsHand'
  BY DEF OnTheirWay, InItsHand
<1>1. CASE \/ H!Decode /\ rpc' = "decode"
           \/ H!WaitToIncrease \/ H!IncreaseQueueSize \/ H!Process
           \/ H!ConsumerQueueEmpty \/ H!WaitToDecrease
           \/ H!DecreaseQueueSize \/ H!SpuriousWakeup
           \/ \E v \in IgnoreValues : H!SetIgnoreMessageCount(v)
           \/ UNCHANGED handOffVars
  <2>1. UNCHANGED <<C, I, Q>> /\ InItsHand' = InItsHand
    BY <1>1 DEF H!Decode, H!WaitToIncrease, H!IncreaseQueueSize, H!Process,
         H!ConsumerQueueEmpty, H!WaitToDecrease, H!DecreaseQueueSize,
         H!SpuriousWakeup, H!SetIgnoreMessageCount, handOffVars, H!queueVars,
         H!SignalProcessor, H!SignalReceiver, InItsHand
  <2> QED BY <2>1, <1>0, <1>a
<1>2. CASE H!AddToProducerQueue
  <2>1. /\ C' = C /\ I' = I /\ Q' = Append(Q, m_iCurrentMsgCount)
        /\ InItsHand = <<m_iCurrentMsgCount>> /\ InItsHand' = <<>>
    BY <1>2 DEF H!AddToProducerQueue, InItsHand
  <2>2. Q' = Q \o InItsHand
    BY <2>1, <1>0, AppendIsConcat
  <2> HIDE DEF C, I, Q
  <2>3. C \o I \o (Q \o InItsHand) \o <<>> = C \o I \o Q \o InItsHand
    BY <1>0, Regroup, SMTT(30)
  <2> QED BY <2>1, <2>2, <2>3, <1>0, <1>a
<1>3. CASE H!PushToIntermediateQueue
  <2>1. /\ C' = C /\ I' = I \o Q /\ Q' = <<>>
        /\ InItsHand' = InItsHand
    BY <1>3 DEF H!PushToIntermediateQueue, InItsHand
  <2> HIDE DEF C, I, Q
  <2>2. C \o (I \o Q) \o <<>> \o InItsHand = C \o I \o Q \o InItsHand
    BY <1>0, Regroup, SMTT(30)
  <2> QED BY <2>1, <2>2, <1>0, <1>a
<1>4. CASE H!PollFromIntermediateQueue
  <2>1. /\ C' = C \o I /\ I' = <<>> /\ Q' = Q
        /\ InItsHand' = InItsHand
    BY <1>4 DEF H!PollFromIntermediateQueue, InItsHand
  <2> HIDE DEF C, I, Q
  <2>2. (C \o I) \o <<>> \o Q \o InItsHand = C \o I \o Q \o InItsHand
    BY <1>0, Regroup
  <2> QED BY <2>1, <2>2, <1>0, <1>a
<1> QED BY <1>1, <1>2, <1>3, <1>4 DEF Passing, H!PassOn

\* A message that is not ignored joins the others at the end.
LEMMA ArrivalAppends ==
  ASSUME ArrivalOrder, H!Decode, rpc' = "increase"
  PROVE  /\ OnTheirWay' = Append(OnTheirWay, m_iCurrentMsgCount')
         /\ m_iCurrentMsgCount' = m_iCurrentMsgCount + 1
         /\ m_iCurrentMsgCount' \in 1..MaxMessages
<1>1. /\ UNCHANGED <<m_ptrConsumerQueue, m_ptrIntermediateQueue,
                     m_ptrProducerQueue>>
      /\ InItsHand = <<>> /\ InItsHand' = <<m_iCurrentMsgCount'>>
      /\ m_iCurrentMsgCount' = m_iCurrentMsgCount + 1
      /\ m_iCurrentMsgCount < MaxMessages
  BY DEF H!Decode, H!queueVars, InItsHand
<1>2. m_iCurrentMsgCount' \in 1..MaxMessages /\ m_iCurrentMsgCount' \in Nat
  BY <1>1, BoundAssumption DEF ArrivalOrder
<1> DEFINE queues == m_ptrConsumerQueue \o m_ptrIntermediateQueue
                       \o m_ptrProducerQueue
<1>3. /\ queues \in Seq(Nat)
      /\ OnTheirWay = queues \o <<>>
      /\ OnTheirWay' = queues \o <<m_iCurrentMsgCount'>>
  <2>1. queues \in Seq(Nat)
    BY ConcatProperties DEF ArrivalOrder
  <2>2. OnTheirWay' = (m_ptrConsumerQueue \o m_ptrIntermediateQueue
                         \o m_ptrProducerQueue)' \o InItsHand'
    BY DEF OnTheirWay, InItsHand
  <2> QED BY <2>1, <2>2, <1>1, OnTheirWayParts
<1> HIDE DEF queues
<1>4. OnTheirWay' = Append(OnTheirWay, m_iCurrentMsgCount')
  BY <1>2, <1>3, ConcatEmptySeq, AppendIsConcat
<1> QED BY <1>1, <1>2, <1>4

\* processQ takes the first one.
LEMMA TakingIsTail ==
  ASSUME ArrivalOrder, H!PollFromConsumerQueue
  PROVE  /\ OnTheirWay # <<>>
         /\ pCont' = Head(OnTheirWay)
         /\ OnTheirWay' = Tail(OnTheirWay)
<1> DEFINE C == m_ptrConsumerQueue
           others == m_ptrIntermediateQueue \o m_ptrProducerQueue \o InItsHand
<1>1. /\ C \in Seq(Nat) /\ C # <<>> /\ C' = Tail(C) /\ pCont' = Head(C)
      /\ UNCHANGED <<m_ptrIntermediateQueue, m_ptrProducerQueue>>
      /\ InItsHand' = InItsHand
  BY DEF H!PollFromConsumerQueue, InItsHand, ArrivalOrder
<1>2. Tail(C) \in Seq(Nat)
  BY <1>1, HeadTailProperties
<1>3. ASSUME NEW c \in Seq(Nat)
      PROVE  c \o m_ptrIntermediateQueue \o m_ptrProducerQueue \o InItsHand
               = c \o others
  <2>1. /\ m_ptrIntermediateQueue \in Seq(Nat)
        /\ m_ptrProducerQueue \in Seq(Nat) /\ InItsHand \in Seq(Nat)
    BY OnTheirWayParts DEF ArrivalOrder
  <2>2. \A i, q, h \in Seq(Nat) : c \o i \o q \o h = c \o (i \o q \o h)
    BY Others, Zenon
  <2>3. c \o m_ptrIntermediateQueue \o m_ptrProducerQueue \o InItsHand
          = c \o (m_ptrIntermediateQueue \o m_ptrProducerQueue \o InItsHand)
    BY <2>1, <2>2, Zenon
  <2> QED BY <2>3
<1>4. others \in Seq(Nat)
  BY OnTheirWayParts, ConcatProperties DEF ArrivalOrder
<1>5. OnTheirWay = C \o others /\ OnTheirWay' = Tail(C) \o others
  <2>1. OnTheirWay' = (m_ptrConsumerQueue \o m_ptrIntermediateQueue
                         \o m_ptrProducerQueue)' \o InItsHand'
    BY DEF OnTheirWay, InItsHand
  <2>2. C \o m_ptrIntermediateQueue \o m_ptrProducerQueue \o InItsHand
          = C \o others
    BY <1>1, <1>3
  <2>3. Tail(C) \o m_ptrIntermediateQueue \o m_ptrProducerQueue \o InItsHand
          = Tail(C) \o others
    BY <1>2, <1>3
  <2> QED BY <1>1, <2>1, <2>2, <2>3, OnTheirWayParts
<1> HIDE DEF C, others
<1>6. /\ C \o others # <<>>
      /\ Head(C \o others) = Head(C)
      /\ Tail(C \o others) = Tail(C) \o others
  BY <1>1, <1>4, HeadOfConcat
<1> QED BY <1>1, <1>5, <1>6

-----------------------------------------------------------------------------
(* The numbers of the messages on their way.                               *)

\* Every step of the service is one of these for the hand-off.
HandOffStep ==
  \/ Passing /\ UNCHANGED content
  \/ /\ H!Decode /\ rpc' = "increase"
     /\ \E m : content' = [content EXCEPT ![m_iCurrentMsgCount'] = m]
  \/ /\ H!PollFromConsumerQueue
     /\ content' = [content EXCEPT ![pCont'] = P!NoMessage]

LEMMA StepsOfHandOff == [Next]_vars => HandOffStep
<1> SUFFICES ASSUME [Next]_vars PROVE HandOffStep
  OBVIOUS
<1>1. CASE Decode
  BY <1>1 DEF Decode, HandOffStep, Passing
<1>2. CASE TakeMessage
  BY <1>2 DEF TakeMessage, HandOffStep
<1>3. CASE ProcessMessage \/ LabelReceiver \/ UNCHANGED vars
  BY <1>3 DEF ProcessMessage, LabelReceiver, vars, HandOffStep, Passing
<1>4. CASE EndMessage \/ PassOn \/ Collect \/ Elsewhere
  BY <1>4 DEF EndMessage, PassOn, Collect, Elsewhere, HandOffStep, Passing
<1> QED BY <1>1, <1>2, <1>3, <1>4 DEF Next, ProcessingThread

\* The service starts with nothing on its way.
LEMMA ArrivalInit == Init => ArrivalOrder /\ OnTheirWay = <<>>
<1> SUFFICES ASSUME Init PROVE ArrivalOrder /\ OnTheirWay = <<>>
  OBVIOUS
<1>1. /\ rpc = "decode" /\ m_iCurrentMsgCount = 0
      /\ m_ptrProducerQueue = <<>> /\ m_ptrIntermediateQueue = <<>>
      /\ m_ptrConsumerQueue = <<>>
      /\ DOMAIN content = 1..MaxMessages
  BY DEF Init, H!Init
<1>2. OnTheirWay = <<>>
  BY <1>1, ConcatEmptySeq DEF OnTheirWay
<1>3. Len(OnTheirWay) = 0
  BY <1>2
<1> QED BY <1>1, <1>2, <1>3, BoundAssumption DEF ArrivalOrder

\* Every step keeps the order of arrival.
LEMMA ArrivalNext == ArrivalOrder /\ [Next]_vars => ArrivalOrder'
<1> SUFFICES ASSUME ArrivalOrder, HandOffStep PROVE ArrivalOrder'
  BY StepsOfHandOff
<1> DEFINE C == m_ptrConsumerQueue
           I == m_ptrIntermediateQueue
           Q == m_ptrProducerQueue
<1>0. /\ C \in Seq(Nat) /\ I \in Seq(Nat) /\ Q \in Seq(Nat)
      /\ OnTheirWay \in Seq(Nat)
      /\ m_iCurrentMsgCount \in 0..MaxMessages
      /\ \A i \in 1..Len(OnTheirWay) : OnTheirWay[i] \in 1..m_iCurrentMsgCount
      /\ \A i, j \in 1..Len(OnTheirWay) : i < j => OnTheirWay[i] < OnTheirWay[j]
      /\ DOMAIN content = 1..MaxMessages
  BY OnTheirWayParts DEF ArrivalOrder
<1>1. CASE Passing /\ UNCHANGED content
  <2>1. OnTheirWay' = OnTheirWay
    BY <1>1, PassingKeeps
  <2>2. /\ m_iCurrentMsgCount' \in 0..MaxMessages
        /\ m_iCurrentMsgCount' >= m_iCurrentMsgCount
    <3>1. \/ m_iCurrentMsgCount' = m_iCurrentMsgCount
          \/ /\ m_iCurrentMsgCount < MaxMessages
             /\ m_iCurrentMsgCount' = m_iCurrentMsgCount + 1
      BY <1>1 DEF Passing, H!Decode, H!PassOn, H!WaitToIncrease,
           H!IncreaseQueueSize, H!AddToProducerQueue,
           H!PushToIntermediateQueue, H!Process, H!PollFromIntermediateQueue,
           H!ConsumerQueueEmpty, H!WaitToDecrease, H!DecreaseQueueSize,
           H!SpuriousWakeup, H!SetIgnoreMessageCount, handOffVars
    <3> QED BY <3>1, <1>0, BoundAssumption
  <2>3. C' \in Seq(Nat) /\ I' \in Seq(Nat) /\ Q' \in Seq(Nat)
    <3>1. CASE H!AddToProducerQueue
      BY <3>1, <1>0, AppendProperties DEF H!AddToProducerQueue
    <3>2. CASE H!PushToIntermediateQueue
      BY <3>2, <1>0, ConcatProperties DEF H!PushToIntermediateQueue
    <3>3. CASE H!PollFromIntermediateQueue
      BY <3>3, <1>0, ConcatProperties DEF H!PollFromIntermediateQueue
    <3>4. CASE ~ \/ H!AddToProducerQueue
                 \/ H!PushToIntermediateQueue
                 \/ H!PollFromIntermediateQueue
      <4>1. UNCHANGED <<C, I, Q>>
        BY <1>1, <3>4 DEF Passing, H!Decode, H!PassOn, H!WaitToIncrease,
             H!IncreaseQueueSize, H!Process, H!ConsumerQueueEmpty,
             H!WaitToDecrease, H!DecreaseQueueSize, H!SpuriousWakeup,
             H!SetIgnoreMessageCount, handOffVars, H!queueVars
      <4> QED BY <4>1, <1>0
    <3> QED BY <3>1, <3>2, <3>3, <3>4
  <2>4. \A i \in 1..Len(OnTheirWay) : OnTheirWay[i] \in 1..m_iCurrentMsgCount'
    BY <1>0, <2>2
  <2> QED BY <1>0, <1>1, <2>1, <2>2, <2>3, <2>4 DEF ArrivalOrder
<1>2. CASE /\ H!Decode /\ rpc' = "increase"
           /\ \E m : content' = [content EXCEPT ![m_iCurrentMsgCount'] = m]
  <2>1. /\ OnTheirWay' = Append(OnTheirWay, m_iCurrentMsgCount')
        /\ m_iCurrentMsgCount' = m_iCurrentMsgCount + 1
        /\ m_iCurrentMsgCount' \in 1..MaxMessages
    BY <1>2, ArrivalAppends
  <2>2. UNCHANGED <<C, I, Q>> /\ DOMAIN content' = DOMAIN content
    BY <1>2 DEF H!Decode, H!queueVars
  <2>3. m_iCurrentMsgCount' \in Nat /\ m_iCurrentMsgCount \in Nat
        /\ m_iCurrentMsgCount' \in 0..MaxMessages
    BY <1>0, <2>1, BoundAssumption
  <2>4. /\ Len(OnTheirWay') = Len(OnTheirWay) + 1
        /\ \A i \in 1..Len(OnTheirWay) : OnTheirWay'[i] = OnTheirWay[i]
        /\ OnTheirWay'[Len(OnTheirWay) + 1] = m_iCurrentMsgCount'
        /\ Len(OnTheirWay) \in Nat
    BY <1>0, <2>1, <2>3, AppendProperties, LenProperties
  <2>5. \A i \in 1..Len(OnTheirWay') :
          \/ i \in 1..Len(OnTheirWay) /\ OnTheirWay'[i] = OnTheirWay[i]
          \/ i = Len(OnTheirWay) + 1 /\ OnTheirWay'[i] = m_iCurrentMsgCount'
    BY <2>4
  <2>6. \A i \in 1..Len(OnTheirWay') :
          OnTheirWay'[i] \in 1..m_iCurrentMsgCount'
    BY <1>0, <2>1, <2>3, <2>5
  <2>7. \A i, j \in 1..Len(OnTheirWay') :
          i < j => OnTheirWay'[i] < OnTheirWay'[j]
    <3> SUFFICES ASSUME NEW i \in 1..Len(OnTheirWay'),
                        NEW j \in 1..Len(OnTheirWay'), i < j
                 PROVE  OnTheirWay'[i] < OnTheirWay'[j]
      OBVIOUS
    <3>1. i \in 1..Len(OnTheirWay) /\ OnTheirWay'[i] = OnTheirWay[i]
      BY <2>4, <2>5
    <3>2. OnTheirWay[i] \in 1..m_iCurrentMsgCount
      BY <1>0, <3>1
    <3>3. CASE j \in 1..Len(OnTheirWay) /\ OnTheirWay'[j] = OnTheirWay[j]
      BY <1>0, <3>1, <3>3
    <3>4. CASE OnTheirWay'[j] = m_iCurrentMsgCount'
      BY <2>1, <2>3, <3>1, <3>2, <3>4
    <3> QED BY <2>5, <3>3, <3>4
  <2> QED BY <1>0, <2>2, <2>3, <2>6, <2>7 DEF ArrivalOrder
<1>3. CASE /\ H!PollFromConsumerQueue
           /\ content' = [content EXCEPT ![pCont'] = P!NoMessage]
  <2>1. OnTheirWay # <<>> /\ OnTheirWay' = Tail(OnTheirWay)
    BY <1>3, TakingIsTail
  <2>2. /\ C' \in Seq(Nat) /\ I' = I /\ Q' = Q
        /\ m_iCurrentMsgCount' = m_iCurrentMsgCount
        /\ DOMAIN content' = DOMAIN content
    BY <1>0, <1>3, HeadTailProperties DEF H!PollFromConsumerQueue
  <2>3. /\ Len(OnTheirWay') = Len(OnTheirWay) - 1
        /\ \A i \in 1..Len(OnTheirWay') : OnTheirWay'[i] = OnTheirWay[i + 1]
        /\ Len(OnTheirWay) \in Nat
    BY <1>0, <2>1, HeadTailProperties, LenProperties
  <2>4. \A i \in 1..Len(OnTheirWay') : i + 1 \in 1..Len(OnTheirWay)
    BY <2>3
  <2>5. \A i \in 1..Len(OnTheirWay') :
          OnTheirWay'[i] \in 1..m_iCurrentMsgCount
    BY <1>0, <2>3, <2>4
  <2>6. \A i, j \in 1..Len(OnTheirWay') :
          i < j => OnTheirWay'[i] < OnTheirWay'[j]
    <3> SUFFICES ASSUME NEW i \in 1..Len(OnTheirWay'),
                        NEW j \in 1..Len(OnTheirWay'), i < j
                 PROVE  OnTheirWay'[i] < OnTheirWay'[j]
      OBVIOUS
    <3>1. /\ i + 1 \in 1..Len(OnTheirWay) /\ j + 1 \in 1..Len(OnTheirWay)
          /\ i + 1 < j + 1
      BY <2>3, <2>4
    <3>2. OnTheirWay[i + 1] < OnTheirWay[j + 1]
      BY <1>0, <3>1
    <3> QED BY <2>3, <3>2
  <2> QED BY <1>0, <2>2, <2>5, <2>6 DEF ArrivalOrder
<1> QED BY <1>1, <1>2, <1>3 DEF HandOffStep

\* Messages are on their way in the order of their arrival, always.
LEMMA Arrival == Spec => []ArrivalOrder
<1>1. Init => ArrivalOrder
  BY ArrivalInit
<1> QED BY <1>1, ArrivalNext, PTL DEF Spec

-----------------------------------------------------------------------------
(* What processQ sees of the hand-off.                                     *)

\* A queue of messages, each its content.
LEMMA WaitingElements ==
  /\ DOMAIN Waiting = 1..Len(OnTheirWay)
  /\ \A i \in 1..Len(OnTheirWay) : Waiting[i] = content[OnTheirWay[i]]
  BY DEF Waiting

\* ... when nothing arrives and nothing is taken, the same as before,
LEMMA PassingUnseen ==
  ASSUME ArrivalOrder, Passing, UNCHANGED content
  PROVE  Waiting' = Waiting
<1>1. OnTheirWay' = OnTheirWay
  BY PassingKeeps
<1> QED BY <1>1 DEF Waiting

\* ... a message longer when one arrives,
LEMMA ArrivalSeen ==
  ASSUME ArrivalOrder, H!Decode, rpc' = "increase",
         NEW m, content' = [content EXCEPT ![m_iCurrentMsgCount'] = m]
  PROVE  Waiting' = Append(Waiting, m)
<1> DEFINE k == Len(OnTheirWay)
<1>1. /\ OnTheirWay' = Append(OnTheirWay, m_iCurrentMsgCount')
      /\ m_iCurrentMsgCount' = m_iCurrentMsgCount + 1
      /\ m_iCurrentMsgCount' \in 1..MaxMessages
  BY ArrivalAppends
<1>2. OnTheirWay \in Seq(Nat) /\ k \in Nat /\ m_iCurrentMsgCount' \in Nat
  BY <1>1, OnTheirWayParts, LenProperties, BoundAssumption
<1>3. /\ Len(OnTheirWay') = k + 1
      /\ \A i \in 1..k : OnTheirWay'[i] = OnTheirWay[i]
      /\ OnTheirWay'[k + 1] = m_iCurrentMsgCount'
  BY <1>1, <1>2, AppendProperties
<1>4. /\ \A i \in 1..k : OnTheirWay[i] \in 1..m_iCurrentMsgCount
      /\ DOMAIN content = 1..MaxMessages /\ m_iCurrentMsgCount \in Nat
  BY DEF ArrivalOrder
<1>5. content'[m_iCurrentMsgCount'] = m
  BY <1>1, <1>4
<1>6. \A i \in 1..k : content'[OnTheirWay[i]] = content[OnTheirWay[i]]
  <2> SUFFICES ASSUME NEW i \in 1..k
               PROVE  content'[OnTheirWay[i]] = content[OnTheirWay[i]]
    OBVIOUS
  <2>1. OnTheirWay[i] \in 1..m_iCurrentMsgCount
    BY <1>4
  <2>2. OnTheirWay[i] # m_iCurrentMsgCount'
    BY <2>1, <1>1, <1>4
  <2> QED BY <2>1, <2>2, <1>1, <1>4
<1>7. Waiting' = [i \in 1..(k + 1) |-> IF i <= k THEN Waiting[i] ELSE m]
  <2>1. Waiting' = [i \in 1..(k + 1) |-> content'[OnTheirWay'[i]]]
    BY <1>3 DEF Waiting
  <2>2. \A i \in 1..(k + 1) :
          content'[OnTheirWay'[i]] = IF i <= k THEN Waiting[i] ELSE m
    BY <1>2, <1>3, <1>5, <1>6, WaitingElements
  <2> QED BY <2>1, <2>2
<1>8. Len(Waiting) = k /\ Waiting = [i \in 1..k |-> Waiting[i]]
  BY <1>2 DEF Waiting
<1>9. Append(Waiting, m) = [i \in 1..(k + 1) |->
                              IF i <= k THEN Waiting[i] ELSE m]
  BY <1>2, <1>8
<1> QED BY <1>7, <1>9

\* ... and without its first one when processQ takes a message.
LEMMA TakingSeen ==
  ASSUME ArrivalOrder, H!PollFromConsumerQueue,
         content' = [content EXCEPT ![pCont'] = P!NoMessage]
  PROVE  /\ Waiting # <<>>
         /\ Head(Waiting) = content[pCont']
         /\ Waiting' = Tail(Waiting)
<1> DEFINE k == Len(OnTheirWay)
<1>1. /\ OnTheirWay # <<>>
      /\ pCont' = Head(OnTheirWay)
      /\ OnTheirWay' = Tail(OnTheirWay)
  BY TakingIsTail
<1>2. OnTheirWay \in Seq(Nat)
  BY OnTheirWayParts
<1>3. /\ k \in Nat \ {0}
      /\ Len(OnTheirWay') = k - 1
      /\ \A i \in 1..(k - 1) : OnTheirWay'[i] = OnTheirWay[i + 1]
      /\ pCont' = OnTheirWay[1]
  BY <1>1, <1>2, EmptySeq, HeadTailProperties
<1>4. Len(Waiting) = k /\ DOMAIN Waiting = 1..k
  BY <1>3 DEF Waiting
<1>5. Waiting # <<>> /\ Head(Waiting) = content[pCont']
  BY <1>3, <1>4, WaitingElements
<1>6. \A i \in 1..(k - 1) : content'[OnTheirWay'[i]] = Waiting[i + 1]
  <2> SUFFICES ASSUME NEW i \in 1..(k - 1)
               PROVE  content'[OnTheirWay'[i]] = Waiting[i + 1]
    OBVIOUS
  <2>1. /\ i + 1 \in 1..k /\ 1 \in 1..k /\ 1 < i + 1
    BY <1>3
  <2>2. OnTheirWay[1] < OnTheirWay[i + 1]
    BY <2>1 DEF ArrivalOrder
  <2>3. OnTheirWay[1] \in Nat /\ OnTheirWay[i + 1] \in Nat
    BY <1>2, <2>1, ElementOfSeq
  <2>4. OnTheirWay[i + 1] # pCont'
    BY <1>3, <2>2, <2>3
  <2>5. OnTheirWay[i + 1] \in DOMAIN content
    BY <2>1, BoundAssumption DEF ArrivalOrder
  <2>6. content'[OnTheirWay[i + 1]] = content[OnTheirWay[i + 1]]
    BY <2>4, <2>5
  <2> QED BY <1>3, <2>1, <2>6, WaitingElements
<1>7. Waiting' = [i \in 1..(k - 1) |-> Waiting[i + 1]]
  BY <1>3, <1>6 DEF Waiting
<1>8. Tail(Waiting) = [i \in 1..(k - 1) |-> Waiting[i + 1]]
  <2> DEFINE S == {Waiting[i] : i \in 1..k}
  <2>1. Waiting \in Seq(S)
    BY <1>3, <1>4, SMTT(30) DEF Waiting
  <2> HIDE DEF S
  <2>2. /\ Tail(Waiting) \in Seq(S) /\ Len(Tail(Waiting)) = k - 1
        /\ \A i \in 1..(k - 1) : Tail(Waiting)[i] = Waiting[i + 1]
    BY <2>1, <1>4, <1>5, HeadTailProperties
  <2>3. Tail(Waiting) = [i \in 1..(k - 1) |-> Tail(Waiting)[i]]
    <3> DEFINE t == Tail(Waiting)
    <3>1. t \in Seq(S) /\ Len(t) = k - 1
      BY <2>2
    <3> HIDE DEF t
    <3>2. t = [i \in 1..(k - 1) |-> t[i]]
      BY <3>1, <1>3
    <3> QED BY <3>2 DEF t
  <2> QED BY <2>2, <2>3
<1> QED BY <1>5, <1>7, <1>8

-----------------------------------------------------------------------------
(* The three queues are the FIFO of module ProcessingThread.               *)

LEMMA StepIsThreadStep == ArrivalOrder /\ [Next]_vars => [P!Next]_(P!vars)
<1> SUFFICES ASSUME ArrivalOrder, [Next]_vars PROVE [P!Next]_(P!vars)
  OBVIOUS
<1>1. ASSUME UNCHANGED threadVars, Waiting' = Waiting
      PROVE  UNCHANGED P!vars
  BY <1>1 DEF threadVars, P!vars, P!vnodeVars, P!connVars
<1>2. CASE Decode
  <2>1. CASE rpc' = "decode" /\ UNCHANGED <<threadVars, content>>
    <3>1. Passing
      BY <1>2, <2>1 DEF Decode, Passing
    <3>2. Waiting' = Waiting
      BY <2>1, <3>1, PassingUnseen
    <3> QED BY <1>1, <2>1, <3>2
  <2>2. CASE \E p \in Senders, hb \in 0..MaxTimestamp, len \in MinBatch..MaxBatch :
               \E stamps \in [1..len -> 0..MaxTimestamp] : P!Send(p, hb, stamps)
    BY <2>2 DEF P!Next, P!Vnodes
  <2> QED BY <1>2, <2>1, <2>2, Zenon DEF Decode
<1>3. CASE TakeMessage \/ ProcessMessage \/ EndMessage
  BY <1>3 DEF TakeMessage, ProcessMessage, EndMessage, P!Next, P!Processor
<1>4. CASE PassOn \/ Collect \/ Elsewhere
  <2>1. Passing /\ UNCHANGED <<threadVars, content>>
    BY <1>4 DEF PassOn, Collect, Elsewhere, Passing
  <2>2. Waiting' = Waiting
    BY <2>1, PassingUnseen
  <2> QED BY <1>1, <2>1, <2>2
<1>5. CASE LabelReceiver
  BY <1>5 DEF LabelReceiver, P!Next
<1>6. CASE UNCHANGED vars
  <2>1. Passing /\ UNCHANGED <<threadVars, content>>
    BY <1>6 DEF vars, Passing
  <2>2. Waiting' = Waiting
    BY <2>1, PassingUnseen
  <2> QED BY <1>1, <2>1, <2>2
<1> QED BY <1>2, <1>3, <1>4, <1>5, <1>6 DEF Next, ProcessingThread

\* The three queues with their condition variable are, for processQ, one FIFO:
\* the processing thread of the whole service is that of ProcessingThread.
THEOREM QueuesAreFifo == Spec => ImplementsProcessingThread
<1>1. Init => P!Init
  BY DEF Init
<1> QED
  BY <1>1, StepIsThreadStep, Arrival, PTL
     DEF Spec, P!Spec, ImplementsProcessingThread

\* And they are no obstacle: what the actions of this module ask of Waiting,
\* the hand-off's steps bring about anyway, so no step of either thread is
\* kept from happening.
THEOREM FifoIsNoObstacle ==
  ASSUME ArrivalOrder
  PROVE  /\ Passing /\ UNCHANGED content => Waiting' = Waiting
         /\ \A m : /\ H!Decode /\ rpc' = "increase"
                  /\ content' = [content EXCEPT ![m_iCurrentMsgCount'] = m]
                  => Waiting' = Append(Waiting, m)
         /\ /\ H!PollFromConsumerQueue
            /\ content' = [content EXCEPT ![pCont'] = P!NoMessage]
            => /\ Waiting # <<>>
               /\ Head(Waiting) = content[pCont']
               /\ Waiting' = Tail(Waiting)
  BY PassingUnseen, ArrivalSeen, TakingSeen

-----------------------------------------------------------------------------
(***************************************************************************)
(* What is proved of each thread holds of the two together.  Thread and    *)
(* Queues have the definitions of P and H and, besides, the theorems.      *)
(***************************************************************************)
Thread == INSTANCE ProcessingThreadProofs WITH m_ptrComQ <- Waiting
Queues == INSTANCE HandOffProofs

LEMMA SameThreadInit == P!Init => Thread!Init
  BY DEF P!Init, Thread!Init, P!NoMessage, Thread!NoMessage

LEMMA SameThreadStep == [P!Next]_(P!vars) => [Thread!Next]_(Thread!vars)
<1> USE DEF P!connVars, Thread!connVars, P!vnodeVars, Thread!vnodeVars
<1>1. P!Vnodes => Thread!Vnodes
  BY DEF P!Vnodes, Thread!Vnodes, P!Send, Thread!Send,
         P!NewMessage, Thread!NewMessage
<1>2. P!TakeMessage => Thread!TakeMessage
  BY DEF P!TakeMessage, Thread!TakeMessage
<1>3. P!InsertBatchLabels => Thread!InsertBatchLabels
  BY DEF P!InsertBatchLabels, Thread!InsertBatchLabels,
         P!MultimapInsert, Thread!MultimapInsert,
         P!FirstAbove, Thread!FirstAbove, P!Min, Thread!Min
<1>4. P!Stabilise => Thread!Stabilise
  BY DEF P!Stabilise, Thread!Stabilise,
         P!UpdateHeartbeatTable, Thread!UpdateHeartbeatTable,
         P!GetStableTimestamp, Thread!GetStableTimestamp,
         P!DeletePossibleLabels, Thread!DeletePossibleLabels,
         P!FirstAbove, Thread!FirstAbove, P!Min, Thread!Min
<1>5. P!SkipDelivery => Thread!SkipDelivery
  BY DEF P!SkipDelivery, Thread!SkipDelivery,
         P!EnoughToDeliver, Thread!EnoughToDeliver
<1>6. P!WriteBatch => Thread!WriteBatch
  BY DEF P!WriteBatch, Thread!WriteBatch,
         P!EnoughToDeliver, Thread!EnoughToDeliver
<1>7. P!ReadReply => Thread!ReadReply
  BY DEF P!ReadReply, Thread!ReadReply
<1>8. P!Report => Thread!Report
  BY DEF P!Report, Thread!Report, P!NoMessage, Thread!NoMessage
<1>9. P!ReceiverReplies => Thread!ReceiverReplies
  BY DEF P!ReceiverReplies, Thread!ReceiverReplies
<1>10. P!ReceiverCloses => Thread!ReceiverCloses
  BY DEF P!ReceiverCloses, Thread!ReceiverCloses
<1>11. UNCHANGED P!vars => UNCHANGED Thread!vars
  BY DEF P!vars, Thread!vars
<1> QED
  BY <1>1, <1>2, <1>3, <1>4, <1>5, <1>6, <1>7, <1>8, <1>9, <1>10, <1>11
     DEF P!Next, Thread!Next, P!Processor, Thread!Processor

\* The service is an instance of what the theorems on processQ speak about.
LEMMA ServiceIsThread == Spec => Thread!Spec
  BY QueuesAreFifo, SameThreadInit, SameThreadStep, PTL
     DEF ImplementsProcessingThread, P!Spec, Thread!Spec

\* No label is lost or doubled on its way through both threads: what
\* processQ keeps in its own hands, it keeps behind the three queues too.
THEOREM LabelsKeptEndToEnd == Spec => []NoLabelLost
<1>1. Thread!NoLabelLost => NoLabelLost
  BY DEF NoLabelLost, P!NoLabelLost, Thread!NoLabelLost, P!Unstable,
         Thread!Unstable, P!ToInsert, Thread!ToInsert, P!ToSet, Thread!ToSet
<1>2. Thread!Spec => []Thread!NoLabelLost
  BY BoundAssumption, ThreadAssumption, Thread!LabelsKept
<1> QED BY <1>1, <1>2, ServiceIsThread, PTL

\* End to end, from the receiver thread's parser to the stable labels, the
\* service is stable ordered delivery.
THEOREM ServiceOrdersLabels == Spec => Thread!ImplementsOrderedDelivery
<1>1. Thread!Spec => Thread!ImplementsOrderedDelivery
  BY BoundAssumption, ThreadAssumption, Thread!ProcessQImplementsService
<1> QED BY <1>1, ServiceIsThread

\* The label receiver gets a prefix of the stable order, which is in timestamp
\* order, nothing stable stays behind, and labels do not kill the process,
\* also while the receiver thread is held up by a full queue.
THEOREM ServiceKeepsThreadInvariants ==
  Spec => [] /\ Thread!StabilisedInOrder
             /\ Thread!NothingStableWithheld
             /\ Thread!ReceivedIsPrefix
             /\ Thread!DiesOnlyOnBrokenPipe
<1> USE BoundAssumption, ThreadAssumption
<1>1. Thread!Spec => []Thread!StabilisedInOrder
  BY Thread!LabelsStabilisedInOrder
<1>2. Thread!Spec => []Thread!NothingStableWithheld
  BY Thread!NothingWithheld
<1>3. Thread!Spec => []Thread!ReceivedIsPrefix
  BY Thread!ReceiverGetsPrefix
<1>4. Thread!Spec => []Thread!DiesOnlyOnBrokenPipe
  BY Thread!SurvivesLabels
<1> QED BY <1>1, <1>2, <1>3, <1>4, ServiceIsThread, PTL

\* Every step is one of the hand-off, or leaves it alone.
LEMMA StepIsQueuesStep == [Next]_vars => [Queues!Next]_(Queues!vars)
<1> SUFFICES ASSUME [Next]_vars PROVE [Queues!Next]_(Queues!vars)
  OBVIOUS
<1> USE DEF H!queueVars, Queues!queueVars
<1>1. H!Decode => Queues!Decode
  BY DEF H!Decode, Queues!Decode
<1>2. H!PassOn => Queues!PassOn
  BY DEF H!PassOn, Queues!PassOn, H!WaitToIncrease, Queues!WaitToIncrease,
         H!IncreaseQueueSize, Queues!IncreaseQueueSize,
         H!AddToProducerQueue, Queues!AddToProducerQueue,
         H!PushToIntermediateQueue, Queues!PushToIntermediateQueue,
         H!UAdd, Queues!UAdd, H!SignalProcessor, Queues!SignalProcessor,
         H!SIZE_OF_EVENTPACKET, Queues!SIZE_OF_EVENTPACKET
<1>3. /\ H!PollFromIntermediateQueue => Queues!PollFromIntermediateQueue
      /\ H!PollFromConsumerQueue => Queues!PollFromConsumerQueue
      /\ H!Process => Queues!Process
      /\ H!ConsumerQueueEmpty => Queues!ConsumerQueueEmpty
      /\ H!WaitToDecrease => Queues!WaitToDecrease
  BY DEF H!PollFromIntermediateQueue, Queues!PollFromIntermediateQueue,
         H!PollFromConsumerQueue, Queues!PollFromConsumerQueue,
         H!Process, Queues!Process,
         H!ConsumerQueueEmpty, Queues!ConsumerQueueEmpty,
         H!WaitToDecrease, Queues!WaitToDecrease
<1>4. H!DecreaseQueueSize => Queues!DecreaseQueueSize
  BY DEF H!DecreaseQueueSize, Queues!DecreaseQueueSize, H!USub, Queues!USub,
         H!SignalReceiver, Queues!SignalReceiver
<1>5. /\ H!SpuriousWakeup => Queues!SpuriousWakeup
      /\ \A v : H!SetIgnoreMessageCount(v) => Queues!SetIgnoreMessageCount(v)
  BY DEF H!SpuriousWakeup, Queues!SpuriousWakeup,
         H!SetIgnoreMessageCount, Queues!SetIgnoreMessageCount
<1>6. UNCHANGED handOffVars => UNCHANGED Queues!vars
  BY DEF handOffVars, Queues!vars
<1>7. HandOffStep
  BY StepsOfHandOff
<1>8. \/ H!Decode \/ H!PassOn \/ H!Process
      \/ H!PollFromIntermediateQueue \/ H!PollFromConsumerQueue
      \/ H!ConsumerQueueEmpty \/ H!WaitToDecrease \/ H!DecreaseQueueSize
      \/ H!SpuriousWakeup
      \/ \E v \in IgnoreValues : H!SetIgnoreMessageCount(v)
      \/ UNCHANGED handOffVars
  BY <1>7 DEF HandOffStep, Passing
<1> QED
  BY <1>1, <1>2, <1>3, <1>4, <1>5, <1>6, <1>8, Zenon
     DEF Queues!Next, Queues!Receiver, Queues!Processor

LEMMA ServiceIsQueues == Spec => Queues!Spec
<1>1. Init => Queues!Init
  BY DEF Init, H!Init, Queues!Init
<1> QED BY <1>1, StepIsQueuesStep, PTL DEF Spec, Queues!Spec

\* With the real body of processQ, which may wait for the label receiver and
\* in which the process may die, the counter is exact, no wakeup is lost and
\* every message is on its way once and in order; the queues are a channel.
THEOREM ServiceKeepsHandOffInvariants ==
  Spec => /\ [] /\ Queues!SizeIsExact
                /\ Queues!WaitsForAReason
                /\ Queues!FifoExactlyOnce
          /\ Queues!ImplementsChannel
<1> USE BoundAssumption, HandOffAssumption DEF Queues!SIZE_OF_EVENTPACKET
<1>1. Queues!Spec => []Queues!SizeIsExact
  BY Queues!CounterIsExact
<1>2. Queues!Spec => []Queues!WaitsForAReason
  BY Queues!NoLostWakeup
<1>3. Queues!Spec => []Queues!FifoExactlyOnce
  BY Queues!OrderIsKept
<1>4. Queues!Spec => Queues!ImplementsChannel
  BY Queues!HandOffIsChannel
<1> QED BY <1>1, <1>2, <1>3, <1>4, ServiceIsQueues, PTL
=============================================================================
