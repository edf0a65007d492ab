--------------------------- MODULE HandOffProofs ---------------------------
(***************************************************************************)
(* What is proved about module HandOff for every capacity, every number of *)
(* messages and every interleaving of the two threads.                     *)
(***************************************************************************)
EXTENDS HandOff, SequenceTheorems, TLAPS

-----------------------------------------------------------------------------
(* Type correctness.                                                       *)

\* The arithmetic of the counter stays within its width.
LEMMA UnsignedArithmetic ==
  ASSUME NEW a \in 0..(SizeModulus - 1), NEW b \in Nat, b < SizeModulus
  PROVE  /\ UAdd(a, b) \in 0..(SizeModulus - 1)
         /\ USub(a, b) \in 0..(SizeModulus - 1)
  BY HandOffAssumption DEF UAdd, USub, SIZE_OF_EVENTPACKET

\* With an exact counter, DecreaseQueueSize subtracts no more than there is.
LEMMA OwedIsThere ==
  ASSUME TypeOK, SizeIsExact, ppc = "decrease"
  PROVE  /\ l_iProcessedMsg * 24 \in Nat
         /\ l_iProcessedMsg * 24 <= m_iObectSize
<1>1. /\ Len(m_ptrProducerQueue) \in Nat /\ Len(m_ptrIntermediateQueue) \in Nat
      /\ Len(m_ptrConsumerQueue) \in Nat /\ l_iProcessedMsg \in Nat
  BY LenProperties DEF TypeOK
<1>2. Owed = l_iProcessedMsg /\ Announced \in Nat
  BY DEF Owed, Announced
<1> QED BY <1>1, <1>2 DEF SizeIsExact, Outstanding, SIZE_OF_EVENTPACKET

\* The specification starts in a well-typed state.
LEMMA TypeInit == Init => TypeOK
  BY HandOffAssumption DEF Init, TypeOK, SIZE_OF_EVENTPACKET

\* Every step keeps the types, as long as the counter is exact.
LEMMA TypeNext == TypeOK /\ SizeIsExact /\ [Next]_vars => TypeOK'
<1> SUFFICES ASSUME TypeOK, SizeIsExact, [Next]_vars PROVE TypeOK'
  OBVIOUS
<1> USE DEF queueVars
<1>1. CASE \E v \in IgnoreValues : SetIgnoreMessageCount(v)
  BY <1>1 DEF SetIgnoreMessageCount, TypeOK
<1>2. CASE Decode
  BY <1>2 DEF Decode, TypeOK
<1>3. CASE WaitToIncrease
  BY <1>3 DEF WaitToIncrease, TypeOK
<1>4. CASE IncreaseQueueSize
  <2>1. m_iObectSize' \in 0..(SizeModulus - 1)
    <3>1. SIZE_OF_EVENTPACKET \in Nat /\ SIZE_OF_EVENTPACKET < SizeModulus
      BY HandOffAssumption DEF SIZE_OF_EVENTPACKET
    <3>2. m_iObectSize \in 0..(SizeModulus - 1)
      BY DEF TypeOK
    <3>3. UAdd(m_iObectSize, SIZE_OF_EVENTPACKET) \in 0..(SizeModulus - 1)
      BY <3>1, <3>2, UnsignedArithmetic
    <3> QED BY <3>3, <1>4 DEF IncreaseQueueSize
  <2>2. admitted' \in Seq(Nat)
    BY <1>4, AppendProperties DEF IncreaseQueueSize, TypeOK
  <2> QED BY <1>4, <2>1, <2>2 DEF IncreaseQueueSize, SignalProcessor, TypeOK
<1>5. CASE AddToProducerQueue
  <2>1. m_ptrProducerQueue' \in Seq(Nat)
    BY <1>5, AppendProperties DEF AddToProducerQueue, TypeOK
  <2> QED BY <1>5, <2>1 DEF AddToProducerQueue, TypeOK
<1>6. CASE PushToIntermediateQueue
  <2>1. m_ptrIntermediateQueue' \in Seq(Nat) /\ m_ptrProducerQueue' \in Seq(Nat)
    BY <1>6, ConcatProperties DEF PushToIntermediateQueue, TypeOK
  <2> QED BY <1>6, <2>1 DEF PushToIntermediateQueue, TypeOK
<1>7. CASE PollFromIntermediateQueue
  <2>1. m_ptrConsumerQueue' \in Seq(Nat) /\ m_ptrIntermediateQueue' \in Seq(Nat)
    BY <1>7, ConcatProperties DEF PollFromIntermediateQueue, TypeOK
  <2> QED BY <1>7, <2>1 DEF PollFromIntermediateQueue, TypeOK
<1>8. CASE PollFromConsumerQueue
  <2>1. pCont' \in Nat /\ m_ptrConsumerQueue' \in Seq(Nat)
    BY <1>8, HeadTailProperties DEF PollFromConsumerQueue, TypeOK
  <2> QED BY <1>8, <2>1 DEF PollFromConsumerQueue, TypeOK
<1>9. CASE Process
  <2>1. processed' \in Seq(Nat)
    BY <1>9, AppendProperties DEF Process, TypeOK
  <2> QED BY <1>9, <2>1 DEF Process, TypeOK
<1>10. CASE ConsumerQueueEmpty
  BY <1>10 DEF ConsumerQueueEmpty, TypeOK
<1>11. CASE WaitToDecrease
  BY <1>11 DEF WaitToDecrease, TypeOK
<1>12. CASE DecreaseQueueSize
  <2>1. /\ l_iProcessedMsg * 24 \in Nat
        /\ l_iProcessedMsg * 24 <= m_iObectSize
    BY <1>12, OwedIsThere DEF DecreaseQueueSize
  <2>2. m_iObectSize \in 0..(SizeModulus - 1)
    BY DEF TypeOK
  <2>3. m_iObectSize' \in 0..(SizeModulus - 1)
    BY <2>1, <2>2, <1>12, HandOffAssumption DEF DecreaseQueueSize, USub
  <2> QED BY <1>12, <2>3 DEF DecreaseQueueSize, SignalReceiver, TypeOK
<1>13. CASE SpuriousWakeup
  BY <1>13 DEF SpuriousWakeup, TypeOK
<1>14. CASE UNCHANGED vars
  BY <1>14 DEF vars, TypeOK
<1> QED
  BY <1>1, <1>2, <1>3, <1>4, <1>5, <1>6, <1>7, <1>8, <1>9, <1>10, <1>11, <1>12,
     <1>13, <1>14 DEF Next, Receiver, PassOn, Processor

-----------------------------------------------------------------------------
(* The counter.                                                            *)

\* The lengths of the queues are numbers.
LEMMA QueueLengths ==
  ASSUME TypeOK
  PROVE  /\ Len(m_ptrProducerQueue) \in Nat
         /\ Len(m_ptrIntermediateQueue) \in Nat
         /\ Len(m_ptrConsumerQueue) \in Nat
         /\ Len(<<>>) = 0
         /\ Announced \in Nat
         /\ Owed \in Nat
         /\ Outstanding \in Nat
<1>1. /\ Len(m_ptrProducerQueue) \in Nat
      /\ Len(m_ptrIntermediateQueue) \in Nat
      /\ Len(m_ptrConsumerQueue) \in Nat
      /\ Len(<<>>) = 0
  BY LenProperties, EmptySeq DEF TypeOK
<1>2. Announced \in Nat /\ Owed \in Nat
  BY DEF Announced, Owed, TypeOK
<1> QED BY <1>1, <1>2 DEF Outstanding

\* IncreaseQueueSize and DecreaseQueueSize account for exactly the packets
\* that come and go.
LEMMA SizeNext == TypeOK /\ SizeIsExact /\ [Next]_vars => SizeIsExact'
<1> SUFFICES ASSUME TypeOK, SizeIsExact, [Next]_vars PROVE SizeIsExact'
  OBVIOUS
<1> USE DEF queueVars, SIZE_OF_EVENTPACKET
<1>0. /\ Len(m_ptrProducerQueue) \in Nat
      /\ Len(m_ptrIntermediateQueue) \in Nat
      /\ Len(m_ptrConsumerQueue) \in Nat
      /\ Len(<<>>) = 0
      /\ Announced \in Nat /\ Owed \in Nat /\ Outstanding \in Nat
      /\ l_iProcessedMsg \in Nat /\ m_iObectSize \in Nat
  BY QueueLengths DEF TypeOK
<1>1. CASE \/ \E v \in IgnoreValues : SetIgnoreMessageCount(v)
           \/ Decode \/ WaitToIncrease \/ Process \/ ConsumerQueueEmpty
           \/ WaitToDecrease \/ SpuriousWakeup \/ UNCHANGED vars
  <2>1. /\ UNCHANGED <<queueVars, m_iObectSize, l_iProcessedMsg>>
        /\ rpc' = "add" <=> rpc = "add"
        /\ ppc' = "pollIntermediate" <=> ppc = "pollIntermediate"
    BY <1>1 DEF SetIgnoreMessageCount, Decode, WaitToIncrease, Process,
                ConsumerQueueEmpty, WaitToDecrease, SpuriousWakeup, vars
  <2>2. Announced' = Announced /\ Owed' = Owed
    BY <2>1 DEF Announced, Owed
  <2> QED BY <2>1, <2>2 DEF SizeIsExact, Outstanding
<1>2. CASE IncreaseQueueSize
  <2>1. m_iObectSize' = m_iObectSize + 24 /\ m_iObectSize < Capacity
    BY <1>2, <1>0, HandOffAssumption DEF IncreaseQueueSize, UAdd
  <2>2. /\ ppc' = "pollIntermediate" <=> ppc = "pollIntermediate"
        /\ rpc = "increase" /\ rpc' = "add"
        /\ UNCHANGED <<queueVars, l_iProcessedMsg>>
    BY <1>2 DEF IncreaseQueueSize, SignalProcessor
  <2>3. Announced' = 1 /\ Announced = 0 /\ Owed' = Owed
    BY <2>2 DEF Announced, Owed
  <2>4. Outstanding' = Outstanding + 1
    BY <2>2, <2>3, <1>0 DEF Outstanding
  <2> QED BY <2>1, <2>4, <1>0, HandOffAssumption DEF SizeIsExact
<1>3. CASE AddToProducerQueue
  <2>1. Len(m_ptrProducerQueue') = Len(m_ptrProducerQueue) + 1
    BY <1>3, AppendProperties DEF AddToProducerQueue, TypeOK
  <2>2. rpc = "add" /\ rpc' = "push"
        /\ UNCHANGED <<m_ptrIntermediateQueue, m_ptrConsumerQueue, m_iObectSize,
                       ppc, l_iProcessedMsg>>
    BY <1>3 DEF AddToProducerQueue
  <2>3. Announced = 1 /\ Announced' = 0 /\ Owed' = Owed
    BY <2>2 DEF Announced, Owed
  <2>4. Outstanding' = Outstanding
    BY <2>1, <2>2, <2>3, <1>0 DEF Outstanding
  <2> QED BY <2>2, <2>4 DEF SizeIsExact
<1>4. CASE PushToIntermediateQueue
  <2>1. /\ Len(m_ptrIntermediateQueue')
             = Len(m_ptrIntermediateQueue) + Len(m_ptrProducerQueue)
        /\ Len(m_ptrProducerQueue') = 0
    BY <1>4, <1>0, ConcatProperties DEF PushToIntermediateQueue, TypeOK
  <2>2. rpc = "push" /\ rpc' = "decode"
        /\ UNCHANGED <<ppc, l_iProcessedMsg, m_ptrConsumerQueue, m_iObectSize>>
    BY <1>4 DEF PushToIntermediateQueue
  <2>3. Announced' = Announced /\ Owed' = Owed
    BY <2>2 DEF Announced, Owed
  <2>4. Outstanding' = Outstanding
    BY <2>1, <2>2, <2>3, <1>0 DEF Outstanding
  <2> QED BY <2>2, <2>4 DEF SizeIsExact
<1>5. CASE PollFromIntermediateQueue
  <2>1. /\ Len(m_ptrConsumerQueue')
             = Len(m_ptrConsumerQueue) + Len(m_ptrIntermediateQueue)
        /\ Len(m_ptrIntermediateQueue') = 0
    BY <1>5, <1>0, ConcatProperties DEF PollFromIntermediateQueue, TypeOK
  <2>2. ppc = "pollIntermediate" /\ ppc' = "pollConsumer" /\ l_iProcessedMsg' = 0
        /\ UNCHANGED <<rpc, m_ptrProducerQueue, m_iObectSize>>
    BY <1>5 DEF PollFromIntermediateQueue
  <2>3. Announced' = Announced /\ Owed' = 0 /\ Owed = 0
    BY <2>2 DEF Announced, Owed
  <2>4. Outstanding' = Outstanding
    BY <2>1, <2>2, <2>3, <1>0 DEF Outstanding
  <2> QED BY <2>2, <2>4 DEF SizeIsExact
<1>6. CASE PollFromConsumerQueue
  <2>1. Len(m_ptrConsumerQueue') = Len(m_ptrConsumerQueue) - 1
    BY <1>6, HeadTailProperties DEF PollFromConsumerQueue, TypeOK
  <2>2. /\ ppc = "pollConsumer" /\ ppc' = "process"
        /\ l_iProcessedMsg' = l_iProcessedMsg + 1
        /\ UNCHANGED <<rpc, m_ptrProducerQueue, m_ptrIntermediateQueue,
                       m_iObectSize>>
    BY <1>6 DEF PollFromConsumerQueue
  <2>3. Announced' = Announced /\ Owed' = Owed + 1
    BY <2>2 DEF Announced, Owed
  <2>4. Outstanding' = Outstanding
    BY <2>1, <2>2, <2>3, <1>0 DEF Outstanding
  <2> QED BY <2>2, <2>4 DEF SizeIsExact
<1>7. CASE DecreaseQueueSize
  <2>1. /\ l_iProcessedMsg * 24 \in Nat
        /\ l_iProcessedMsg * 24 <= m_iObectSize
    BY <1>7, OwedIsThere DEF DecreaseQueueSize
  <2>2. m_iObectSize' = m_iObectSize - l_iProcessedMsg * 24
    BY <2>1, <1>7 DEF DecreaseQueueSize, USub
  <2>3. /\ rpc' = "add" <=> rpc = "add"
        /\ ppc = "decrease" /\ ppc' = "pollIntermediate"
        /\ UNCHANGED <<queueVars, l_iProcessedMsg>>
    BY <1>7 DEF DecreaseQueueSize, SignalReceiver
  <2>4. Announced' = Announced /\ Owed = l_iProcessedMsg /\ Owed' = 0
    BY <2>3 DEF Announced, Owed
  <2>5. Outstanding' = Outstanding - l_iProcessedMsg
    BY <2>3, <2>4, <1>0 DEF Outstanding
  <2> QED BY <2>2, <2>5, <1>0, HandOffAssumption DEF SizeIsExact
<1> QED
  BY <1>1, <1>2, <1>3, <1>4, <1>5, <1>6, <1>7
     DEF Next, Receiver, PassOn, Processor

\* The counter is exact at the start.
LEMMA SizeInit == Init => SizeIsExact
  BY HandOffAssumption, EmptySeq
     DEF Init, SizeIsExact, Outstanding, Announced, Owed, SIZE_OF_EVENTPACKET

-----------------------------------------------------------------------------
(* Waiting, counting and order.                                            *)

\* A thread waits for a reason at the start: none waits.
LEMMA WaitsInit == Init => WaitsForAReason
  BY DEF Init, WaitsForAReason

\* When the counter is zero there is nothing on its way.
LEMMA NothingOutstanding ==
  ASSUME TypeOK, SizeIsExact, m_iObectSize = 0
  PROVE  /\ m_ptrProducerQueue = <<>> /\ m_ptrIntermediateQueue = <<>>
         /\ Owed = 0 /\ rpc # "add"
<1>1. /\ Len(m_ptrProducerQueue) \in Nat
      /\ Len(m_ptrIntermediateQueue) \in Nat
      /\ Len(m_ptrConsumerQueue) \in Nat
      /\ Announced \in Nat /\ Owed \in Nat /\ Outstanding \in Nat
  BY QueueLengths
<1>2. Outstanding = 0
  BY <1>1 DEF SizeIsExact, SIZE_OF_EVENTPACKET
<1>3. /\ Len(m_ptrProducerQueue) = 0 /\ Len(m_ptrIntermediateQueue) = 0
      /\ Announced = 0 /\ Owed = 0
  BY <1>1, <1>2 DEF Outstanding
<1>4. m_ptrProducerQueue = <<>> /\ m_ptrIntermediateQueue = <<>>
  BY <1>3, EmptySeq DEF TypeOK
<1> QED BY <1>3, <1>4 DEF Announced

\* No step makes a waiting thread's reason untrue and leaves it waiting.
LEMMA WaitsNext ==
  TypeOK /\ SizeIsExact /\ WaitsForAReason /\ [Next]_vars => WaitsForAReason'
<1> SUFFICES ASSUME TypeOK, SizeIsExact, WaitsForAReason, [Next]_vars
             PROVE  WaitsForAReason'
  OBVIOUS
<1> USE DEF queueVars, WaitsForAReason
<1>1. CASE \/ \E v \in IgnoreValues : SetIgnoreMessageCount(v)
           \/ Decode \/ SpuriousWakeup \/ UNCHANGED vars
  BY <1>1 DEF SetIgnoreMessageCount, Decode, SpuriousWakeup, vars
<1>2. CASE WaitToIncrease
  BY <1>2 DEF WaitToIncrease
<1>3. CASE IncreaseQueueSize
  BY <1>3 DEF IncreaseQueueSize, SignalProcessor
<1>4. CASE AddToProducerQueue
  \* The counter covers the announced packet, so the processor is not asleep.
  <2>1. ppc # "waitDecrease"
    BY <1>4, NothingOutstanding DEF AddToProducerQueue
  <2> QED BY <1>4, <2>1 DEF AddToProducerQueue
<1>5. CASE PushToIntermediateQueue
  <2>1. ppc = "waitDecrease" =>
          m_ptrIntermediateQueue \o m_ptrProducerQueue = <<>>
    BY ConcatEmptySeq, EmptySeq
  <2> QED BY <1>5, <2>1 DEF PushToIntermediateQueue
<1>6. CASE \/ PollFromIntermediateQueue \/ PollFromConsumerQueue \/ Process
           \/ ConsumerQueueEmpty
  BY <1>6 DEF PollFromIntermediateQueue, PollFromConsumerQueue, Process,
              ConsumerQueueEmpty
<1>7. CASE WaitToDecrease
  <2>1. /\ m_ptrProducerQueue = <<>> /\ m_ptrIntermediateQueue = <<>>
        /\ Owed = 0
    BY <1>7, NothingOutstanding DEF WaitToDecrease
  <2>2. l_iProcessedMsg = 0
    BY <1>7, <2>1 DEF WaitToDecrease, Owed
  <2> QED BY <1>7, <2>1, <2>2 DEF WaitToDecrease
<1>8. CASE DecreaseQueueSize
  BY <1>8 DEF DecreaseQueueSize, SignalReceiver
<1> QED
  BY <1>1, <1>2, <1>3, <1>4, <1>5, <1>6, <1>7, <1>8
     DEF Next, Receiver, PassOn, Processor

\* Every step keeps the bounds of the two counts.
LEMMA CountedNext == TypeOK /\ Counted /\ [Next]_vars => Counted'
<1> SUFFICES ASSUME TypeOK, Counted, [Next]_vars PROVE Counted'
  OBVIOUS
<1> USE HandOffAssumption DEF queueVars, Counted, TypeOK
<1>1. CASE \/ \E v \in IgnoreValues : SetIgnoreMessageCount(v)
           \/ WaitToIncrease \/ SpuriousWakeup \/ UNCHANGED vars
  BY <1>1 DEF SetIgnoreMessageCount, WaitToIncrease, SpuriousWakeup, vars
<1>2. CASE Decode
  BY <1>2 DEF Decode
<1>3. CASE IncreaseQueueSize \/ AddToProducerQueue \/ PushToIntermediateQueue
  BY <1>3 DEF IncreaseQueueSize, SignalProcessor, AddToProducerQueue,
              PushToIntermediateQueue
<1>4. CASE \/ PollFromIntermediateQueue \/ PollFromConsumerQueue \/ Process
           \/ ConsumerQueueEmpty \/ WaitToDecrease
  BY <1>4 DEF PollFromIntermediateQueue, PollFromConsumerQueue, Process,
              ConsumerQueueEmpty, WaitToDecrease
<1>5. CASE DecreaseQueueSize
  BY <1>5 DEF DecreaseQueueSize, SignalReceiver
<1> QED
  BY <1>1, <1>2, <1>3, <1>4, <1>5 DEF Next, Receiver, PassOn, Processor

\* The parts of FifoExactlyOnce are sequences of numbers.
LEMMA Stages ==
  ASSUME TypeOK
  PROVE  /\ InHand \in Seq(Nat) /\ ToAdd \in Seq(Nat)
         /\ processed \o InHand \in Seq(Nat)
         /\ processed \o InHand \o m_ptrConsumerQueue \in Seq(Nat)
         /\ processed \o InHand \o m_ptrConsumerQueue
              \o m_ptrIntermediateQueue \in Seq(Nat)
         /\ processed \o InHand \o m_ptrConsumerQueue
              \o m_ptrIntermediateQueue \o m_ptrProducerQueue \in Seq(Nat)
<1>1. InHand \in Seq(Nat) /\ ToAdd \in Seq(Nat)
  BY DEF InHand, ToAdd, TypeOK
<1>2. /\ m_ptrConsumerQueue \in Seq(Nat) /\ m_ptrIntermediateQueue \in Seq(Nat)
      /\ m_ptrProducerQueue \in Seq(Nat) /\ processed \in Seq(Nat)
  BY DEF TypeOK
<1>3. processed \o InHand \in Seq(Nat)
  BY <1>1, <1>2, ConcatProperties
<1>4. processed \o InHand \o m_ptrConsumerQueue \in Seq(Nat)
  BY <1>2, <1>3, ConcatProperties
<1>5. processed \o InHand \o m_ptrConsumerQueue
        \o m_ptrIntermediateQueue \in Seq(Nat)
  BY <1>2, <1>4, ConcatProperties
<1>6. processed \o InHand \o m_ptrConsumerQueue
        \o m_ptrIntermediateQueue \o m_ptrProducerQueue \in Seq(Nat)
  BY <1>2, <1>5, ConcatProperties
<1> QED BY <1>1, <1>3, <1>4, <1>5, <1>6

\* A sequence is its head and its tail.
LEMMA HeadThenTail ==
  ASSUME NEW q \in Seq(Nat), q # <<>>
  PROVE  q = <<Head(q)>> \o Tail(q)
<1>1. Head(q) \in Nat /\ Tail(q) \in Seq(Nat) /\ Len(Tail(q)) = Len(q) - 1
      /\ \A i \in 1..Len(Tail(q)) : Tail(q)[i] = q[i + 1]
  BY HeadTailProperties
<1>2. Len(q) \in Nat \ {0}
  BY EmptySeq
<1>3. <<Head(q)>> \in Seq(Nat) /\ Len(<<Head(q)>>) = 1
      /\ <<Head(q)>>[1] = Head(q)
  BY <1>1
<1>4. /\ <<Head(q)>> \o Tail(q) \in Seq(Nat)
      /\ Len(<<Head(q)>> \o Tail(q)) = Len(q)
      /\ \A i \in 1..Len(q) : (<<Head(q)>> \o Tail(q))[i]
           = IF i <= 1 THEN <<Head(q)>>[i] ELSE Tail(q)[i - 1]
  BY <1>1, <1>2, <1>3, ConcatProperties
<1>5. Head(q) = q[1]
  OBVIOUS
<1>6. \A i \in 1..Len(q) : (<<Head(q)>> \o Tail(q))[i] = q[i]
  <2> SUFFICES ASSUME NEW i \in 1..Len(q)
               PROVE  (<<Head(q)>> \o Tail(q))[i] = q[i]
    OBVIOUS
  <2>1. CASE i = 1
    BY <2>1, <1>3, <1>4, <1>5
  <2>2. CASE i # 1
    <3>1. i - 1 \in 1..Len(Tail(q))
      BY <2>2, <1>1, <1>2
    <3>2. Tail(q)[i - 1] = q[(i - 1) + 1] /\ (i - 1) + 1 = i
      BY <3>1, <1>1
    <3> QED BY <2>2, <3>2, <1>4, <1>2
  <2> QED BY <2>1, <2>2
<1> QED BY <1>4, <1>6, SeqEqual

\* Concatenation of queues is associative.
LEMMA Regroup ==
  ASSUME NEW s \in Seq(Nat), NEW t \in Seq(Nat), NEW u \in Seq(Nat)
  PROVE  (s \o t) \o u = s \o (t \o u)
  BY ConcatAssociative

\* Moving messages from one stage to the next changes neither their order
\* nor their number.
LEMMA FifoNext == TypeOK /\ FifoExactlyOnce /\ [Next]_vars => FifoExactlyOnce'
<1> SUFFICES ASSUME TypeOK, FifoExactlyOnce, [Next]_vars PROVE FifoExactlyOnce'
  OBVIOUS
<1> DEFINE P == processed
           C == m_ptrConsumerQueue
           I == m_ptrIntermediateQueue
           Q == m_ptrProducerQueue
<1>0. /\ P \in Seq(Nat) /\ C \in Seq(Nat) /\ I \in Seq(Nat) /\ Q \in Seq(Nat)
      /\ m_iCurrentMsgCount \in Nat /\ pCont \in Nat /\ admitted \in Seq(Nat)
      /\ <<m_iCurrentMsgCount>> \in Seq(Nat) /\ <<pCont>> \in Seq(Nat)
      /\ <<>> \in Seq(Nat)
  BY DEF TypeOK
<1>a. /\ InHand \in Seq(Nat) /\ ToAdd \in Seq(Nat) /\ P \o InHand \in Seq(Nat)
      /\ P \o InHand \o C \in Seq(Nat) /\ P \o InHand \o C \o I \in Seq(Nat)
      /\ P \o InHand \o C \o I \o Q \in Seq(Nat)
  BY Stages
<1>b. admitted = P \o InHand \o C \o I \o Q \o ToAdd
  BY DEF FifoExactlyOnce
<1>c. FifoExactlyOnce' <=> admitted' = P' \o InHand' \o C' \o I' \o Q' \o ToAdd'
  BY DEF FifoExactlyOnce
<1> USE DEF queueVars
<1>1. CASE \/ \E v \in IgnoreValues : SetIgnoreMessageCount(v)
           \/ Decode \/ WaitToIncrease \/ ConsumerQueueEmpty
           \/ WaitToDecrease \/ DecreaseQueueSize \/ SpuriousWakeup
           \/ UNCHANGED vars
  <2>1. /\ UNCHANGED <<queueVars, admitted, processed, pCont>>
        /\ rpc' = "add" <=> rpc = "add"
        /\ rpc = "add" => m_iCurrentMsgCount' = m_iCurrentMsgCount
        /\ ppc' = "process" <=> ppc = "process"
    BY <1>1 DEF SetIgnoreMessageCount, Decode, WaitToIncrease,
                ConsumerQueueEmpty, WaitToDecrease, DecreaseQueueSize,
                SignalReceiver, SpuriousWakeup, vars
  <2>2. InHand' = InHand /\ ToAdd' = ToAdd
    BY <2>1 DEF InHand, ToAdd
  <2> QED BY <2>1, <2>2 DEF FifoExactlyOnce
<1>2. CASE IncreaseQueueSize
  <2>1. /\ UNCHANGED <<queueVars, processed, pCont, m_iCurrentMsgCount>>
        /\ rpc = "increase" /\ rpc' = "add"
        /\ ppc' = "process" <=> ppc = "process"
        /\ admitted' = Append(admitted, m_iCurrentMsgCount)
    BY <1>2 DEF IncreaseQueueSize, SignalProcessor
  <2>2. InHand' = InHand /\ ToAdd = <<>> /\ ToAdd' = <<m_iCurrentMsgCount>>
    BY <2>1 DEF InHand, ToAdd
  <2>3. admitted = P \o InHand \o C \o I \o Q
    BY <2>2, <1>a, <1>b, ConcatEmptySeq
  <2>4. admitted' = admitted \o <<m_iCurrentMsgCount>>
    BY <2>1, <1>0, AppendIsConcat
  <2> QED BY <2>1, <2>2, <2>3, <2>4, <1>c
<1>3. CASE AddToProducerQueue
  <2>1. /\ UNCHANGED <<C, I, processed, pCont, ppc, admitted>>
        /\ rpc = "add" /\ rpc' = "push"
        /\ Q' = Append(Q, m_iCurrentMsgCount)
    BY <1>3 DEF AddToProducerQueue
  <2>2. InHand' = InHand /\ ToAdd = <<m_iCurrentMsgCount>> /\ ToAdd' = <<>>
    BY <2>1 DEF InHand, ToAdd
  <2>3. Q' = Q \o <<m_iCurrentMsgCount>> /\ Q' \in Seq(Nat)
    BY <2>1, <1>0, AppendIsConcat, AppendProperties
  <2>4. admitted = P \o InHand \o C \o I \o Q'
    <3>1. (P \o InHand \o C \o I \o Q) \o <<m_iCurrentMsgCount>>
            = P \o InHand \o C \o I \o (Q \o <<m_iCurrentMsgCount>>)
      <4>1. /\ P \o InHand \o C \o I \in Seq(Nat) /\ Q \in Seq(Nat)
            /\ <<m_iCurrentMsgCount>> \in Seq(Nat)
        BY <1>0, <1>a
      <4> HIDE DEF P, C, I, Q
      <4> QED BY <4>1, Regroup, Zenon
    <3> QED BY <3>1, <2>2, <2>3, <1>b
  <2>5. P \o InHand \o C \o I \o Q' \in Seq(Nat)
    BY <2>3, <1>a, ConcatProperties
  <2>6. P \o InHand \o C \o I \o Q' \o <<>> = P \o InHand \o C \o I \o Q'
    BY <2>5, ConcatEmptySeq
  <2> QED BY <2>1, <2>2, <2>4, <2>6, <1>c
<1>4. CASE PushToIntermediateQueue
  <2>1. /\ UNCHANGED <<C, processed, pCont, ppc, admitted>>
        /\ rpc = "push" /\ rpc' = "decode"
        /\ I' = I \o Q /\ Q' = <<>>
    BY <1>4 DEF PushToIntermediateQueue
  <2>2. InHand' = InHand /\ ToAdd = <<>> /\ ToAdd' = <<>>
    BY <2>1 DEF InHand, ToAdd
  <2>3. admitted = P \o InHand \o C \o I \o Q
    BY <2>2, <1>a, <1>b, ConcatEmptySeq
  <2>4. admitted = P \o InHand \o C \o I'
    <3>1. (P \o InHand \o C \o I) \o Q = P \o InHand \o C \o (I \o Q)
      <4>1. /\ P \o InHand \o C \in Seq(Nat)
            /\ I \in Seq(Nat) /\ Q \in Seq(Nat)
        BY <1>0, <1>a
      <4> HIDE DEF P, C, I, Q
      <4> QED BY <4>1, Regroup, Zenon
    <3> QED BY <3>1, <2>1, <2>3
  <2>5. admitted \o <<>> = admitted
    BY <1>0, ConcatEmptySeq
  <2> QED BY <2>1, <2>2, <2>4, <2>5, <1>c
<1>5. CASE PollFromIntermediateQueue
  <2>1. /\ UNCHANGED <<Q, processed, pCont, rpc, m_iCurrentMsgCount, admitted>>
        /\ ppc = "pollIntermediate" /\ ppc' = "pollConsumer"
        /\ C' = C \o I /\ I' = <<>>
    BY <1>5 DEF PollFromIntermediateQueue
  <2>2. InHand' = InHand /\ ToAdd' = ToAdd
    BY <2>1 DEF InHand, ToAdd
  <2>3. P \o InHand \o C \o I = P \o InHand \o C'
    <3>1. (P \o InHand \o C) \o I = P \o InHand \o (C \o I)
      <4>1. /\ P \o InHand \in Seq(Nat)
            /\ C \in Seq(Nat) /\ I \in Seq(Nat)
        BY <1>0, <1>a
      <4> HIDE DEF P, C, I, Q
      <4> QED BY <4>1, Regroup, Zenon
    <3> QED BY <3>1, <2>1
  <2>4. P \o InHand \o C' = P \o InHand \o C' \o I'
    BY <2>1, <2>3, <1>a, ConcatEmptySeq
  <2> QED BY <2>1, <2>2, <2>3, <2>4, <1>b, <1>c
<1>6. CASE PollFromConsumerQueue
  <2>1. /\ UNCHANGED <<I, Q, processed, rpc, m_iCurrentMsgCount, admitted>>
        /\ ppc = "pollConsumer" /\ ppc' = "process" /\ C # <<>>
        /\ C' = Tail(C) /\ pCont' = Head(C)
    BY <1>6 DEF PollFromConsumerQueue
  <2>2. InHand' = <<Head(C)>> /\ InHand = <<>> /\ ToAdd' = ToAdd
    BY <2>1 DEF InHand, ToAdd
  <2>3. C = InHand' \o C' /\ InHand' \in Seq(Nat) /\ C' \in Seq(Nat)
    BY <2>1, <2>2, <1>0, HeadThenTail, HeadTailProperties
  <2>4. P \o InHand = P
    BY <2>2, <1>0, ConcatEmptySeq
  <2>5. P \o C = P \o InHand' \o C'
    <3>1. (P \o InHand') \o C' = P \o (InHand' \o C')
      <4>1. /\ P \in Seq(Nat)
            /\ InHand' \in Seq(Nat) /\ C' \in Seq(Nat)
        BY <2>3, <1>0
      <4> HIDE DEF P, C, I, Q
      <4> QED BY <4>1, Regroup, Zenon
    <3> QED BY <3>1, <2>3
  <2> QED BY <2>1, <2>2, <2>4, <2>5, <1>b, <1>c
<1>7. CASE Process
  <2>1. /\ UNCHANGED <<queueVars, rpc, m_iCurrentMsgCount, admitted>>
        /\ ppc = "process" /\ ppc' = "pollConsumer"
        /\ P' = Append(P, pCont)
    BY <1>7 DEF Process
  <2>2. InHand = <<pCont>> /\ InHand' = <<>> /\ ToAdd' = ToAdd
    BY <2>1 DEF InHand, ToAdd
  <2>3. P' = P \o InHand
    BY <2>1, <2>2, <1>0, AppendIsConcat
  <2>4. P' \o InHand' = P \o InHand
    BY <2>2, <2>3, <1>a, ConcatEmptySeq
  <2> QED BY <2>1, <2>2, <2>4, <1>b, <1>c
<1> QED
  BY <1>1, <1>2, <1>3, <1>4, <1>5, <1>6, <1>7
     DEF Next, Receiver, PassOn, Processor

-----------------------------------------------------------------------------
(* The theorems.                                                           *)

\* Init and every step establish the types and HandOffInv, together.
LEMMA InductiveInit == Init => TypeOK /\ HandOffInv
<1>1. Init => Counted
  BY HandOffAssumption DEF Init, Counted
<1>2. Init => FifoExactlyOnce
  <2>1. <<>> \o <<>> = <<>>
    BY ConcatEmptySeq, EmptySeq
  <2> QED BY <2>1 DEF Init, FifoExactlyOnce, InHand, ToAdd
<1> QED BY <1>1, <1>2, TypeInit, SizeInit, WaitsInit DEF HandOffInv

\* The invariant is inductive.
LEMMA InductiveNext ==
  TypeOK /\ HandOffInv /\ [Next]_vars => TypeOK' /\ HandOffInv'
<1> SUFFICES ASSUME TypeOK, HandOffInv, [Next]_vars PROVE TypeOK' /\ HandOffInv'
  OBVIOUS
<1>1. SizeIsExact /\ WaitsForAReason /\ FifoExactlyOnce /\ Counted
  BY DEF HandOffInv
<1>2. TypeOK' /\ SizeIsExact'
  BY <1>1, TypeNext, SizeNext
<1>3. WaitsForAReason' /\ FifoExactlyOnce' /\ Counted'
  BY <1>1, WaitsNext, FifoNext, CountedNext
<1> QED BY <1>2, <1>3 DEF HandOffInv

\* TypeOK and HandOffInv hold in every reachable state.
LEMMA Invariance == Spec => [](TypeOK /\ HandOffInv)
  BY InductiveInit, InductiveNext, PTL DEF Spec

\* The variables of the hand-off keep their types, whatever the threads do;
\* DecreaseQueueSize never takes the counter below zero.
THEOREM TypeCorrect == Spec => []TypeOK
  BY Invariance, PTL

\* QueueSizeCondition never drifts and never wraps, for any capacity.
THEOREM CounterIsExact == Spec => []SizeIsExact
<1>1. HandOffInv => SizeIsExact
  BY DEF HandOffInv
<1> QED BY <1>1, Invariance, PTL

\* No wakeup is lost: IncreaseQueueSize and DecreaseQueueSize leave no thread
\* waiting for what has already happened, so the two never wait for each other.
THEOREM NoLostWakeup == Spec => []WaitsForAReason
<1>1. HandOffInv => WaitsForAReason
  BY DEF HandOffInv
<1> QED BY <1>1, Invariance, PTL

\* Nothing let through by IncreaseQueueSize is lost, duplicated or overtaken
\* on its way through the three queues.
THEOREM OrderIsKept == Spec => []FifoExactlyOnce
<1>1. HandOffInv => FifoExactlyOnce
  BY DEF HandOffInv
<1> QED BY <1>1, Invariance, PTL

-----------------------------------------------------------------------------
(* The hand-off implements Channel.                                        *)

\* What lies between admitted and processed is covered by the counter.
LEMMA OnTheirWay ==
  ASSUME TypeOK, HandOffInv
  PROVE  /\ Len(admitted) \in Nat /\ Len(processed) \in Nat
         /\ Len(admitted) - Len(processed) <= Outstanding
         /\ Len(processed) + Len(InHand) <= Len(admitted)
<1>1. /\ processed \in Seq(Nat) /\ m_ptrConsumerQueue \in Seq(Nat)
      /\ m_ptrIntermediateQueue \in Seq(Nat) /\ m_ptrProducerQueue \in Seq(Nat)
      /\ l_iProcessedMsg \in Nat /\ admitted \in Seq(Nat)
  BY DEF TypeOK
<1>2. /\ InHand \in Seq(Nat) /\ ToAdd \in Seq(Nat)
      /\ processed \o InHand \in Seq(Nat)
      /\ processed \o InHand \o m_ptrConsumerQueue \in Seq(Nat)
      /\ processed \o InHand \o m_ptrConsumerQueue
           \o m_ptrIntermediateQueue \in Seq(Nat)
      /\ processed \o InHand \o m_ptrConsumerQueue
           \o m_ptrIntermediateQueue \o m_ptrProducerQueue \in Seq(Nat)
  BY Stages
<1>3. Len(admitted) = Len(processed) + Len(InHand) + Len(m_ptrConsumerQueue)
                      + Len(m_ptrIntermediateQueue) + Len(m_ptrProducerQueue)
                      + Len(ToAdd)
  <2>1. admitted = processed \o InHand \o m_ptrConsumerQueue
             \o m_ptrIntermediateQueue \o m_ptrProducerQueue \o ToAdd
    BY DEF HandOffInv, FifoExactlyOnce
  <2> QED BY <1>1, <1>2, <2>1, ConcatProperties, LenProperties
<1>4. /\ Len(processed) \in Nat /\ Len(InHand) \in Nat /\ Len(ToAdd) \in Nat
      /\ Len(m_ptrConsumerQueue) \in Nat /\ Len(m_ptrIntermediateQueue) \in Nat
      /\ Len(m_ptrProducerQueue) \in Nat /\ Len(admitted) \in Nat
  BY <1>1, <1>2, LenProperties
<1>5. Len(InHand) <= Owed
  BY <1>1, EmptySeq DEF HandOffInv, Counted, InHand, Owed
<1>6. Len(ToAdd) = Announced
  BY EmptySeq DEF ToAdd, Announced
<1>7. Owed \in Nat /\ Announced \in Nat
  BY QueueLengths
<1> QED BY <1>3, <1>4, <1>5, <1>6, <1>7 DEF Outstanding

\* Appending to a sequence leaves its elements where they are.
LEMMA SameElement ==
  ASSUME NEW s \in Seq(Nat), NEW t \in Seq(Nat), NEW i \in 1..Len(s)
  PROVE  i \in 1..Len(s \o t) /\ (s \o t)[i] = s[i]
  BY ConcatProperties, LenProperties

\* The packet in hand is the first one admitted and not processed yet.
LEMMA InHandIsNext ==
  ASSUME TypeOK, HandOffInv, ppc = "process"
  PROVE  /\ Len(processed) < Len(admitted)
         /\ admitted[Len(processed) + 1] = pCont
<1> DEFINE P == processed
           C == m_ptrConsumerQueue
           I == m_ptrIntermediateQueue
           Q == m_ptrProducerQueue
           n == Len(processed) + 1
<1>1. InHand = <<pCont>> /\ Len(InHand) = 1 /\ InHand[1] = pCont
  BY DEF InHand
<1>2. P \in Seq(Nat) /\ C \in Seq(Nat) /\ I \in Seq(Nat) /\ Q \in Seq(Nat)
  BY DEF TypeOK
<1>3. /\ InHand \in Seq(Nat) /\ ToAdd \in Seq(Nat) /\ P \o InHand \in Seq(Nat)
      /\ P \o InHand \o C \in Seq(Nat) /\ P \o InHand \o C \o I \in Seq(Nat)
      /\ P \o InHand \o C \o I \o Q \in Seq(Nat)
  BY Stages
<1>4. n \in 1..Len(P \o InHand) /\ (P \o InHand)[n] = pCont
  BY <1>1, <1>2, <1>3, ConcatProperties, LenProperties
<1>5. admitted = P \o InHand \o C \o I \o Q \o ToAdd
  BY DEF HandOffInv, FifoExactlyOnce
<1> HIDE DEF P, C, I, Q, n
<1>6. n \in 1..Len(P \o InHand \o C) /\ (P \o InHand \o C)[n] = pCont
  BY <1>2, <1>3, <1>4, SameElement, Zenon
<1>7. n \in 1..Len(P \o InHand \o C \o I) /\ (P \o InHand \o C \o I)[n] = pCont
  BY <1>2, <1>3, <1>6, SameElement, Zenon
<1>8. /\ n \in 1..Len(P \o InHand \o C \o I \o Q)
      /\ (P \o InHand \o C \o I \o Q)[n] = pCont
  BY <1>2, <1>3, <1>7, SameElement, Zenon
<1>9. n \in 1..Len(admitted) /\ admitted[n] = pCont
  BY <1>3, <1>5, <1>8, SameElement, Zenon
<1>10. Len(P) \in Nat /\ Len(admitted) \in Nat
  BY <1>2, LenProperties DEF TypeOK
<1> QED BY <1>9, <1>10 DEF n, P

\* The hand-off starts as an empty channel.
LEMMA ChannelInit == Init => Chan!Init
  BY DEF Init, Chan!Init

\* Every step of the hand-off is a step of the channel or none.
LEMMA ChannelNext ==
  TypeOK /\ HandOffInv /\ [Next]_vars => [Chan!Next]_(Chan!chanVars)
<1> SUFFICES ASSUME TypeOK, HandOffInv, [Next]_vars
             PROVE  [Chan!Next]_(Chan!chanVars)
  OBVIOUS
<1>1. CASE IncreaseQueueSize
  <2>1. /\ m_iObectSize < Capacity /\ rpc # "decode"
        /\ admitted' = Append(admitted, m_iCurrentMsgCount)
        /\ UNCHANGED processed
    BY <1>1 DEF IncreaseQueueSize
  <2>2. m_iCurrentMsgCount \in 1..MaxMessages
    BY <2>1, HandOffAssumption DEF HandOffInv, Counted, TypeOK
  <2>3. Outstanding \in Nat /\ 24 * Outstanding < Capacity
    BY <2>1, QueueLengths DEF HandOffInv, SizeIsExact, SIZE_OF_EVENTPACKET
  <2>4. Outstanding < (Capacity + SIZE_OF_EVENTPACKET - 1) \div SIZE_OF_EVENTPACKET
    BY <2>3, HandOffAssumption DEF SIZE_OF_EVENTPACKET
  <2>5. Len(admitted) - Len(processed)
          < (Capacity + SIZE_OF_EVENTPACKET - 1) \div SIZE_OF_EVENTPACKET
    <3>1. /\ Len(admitted) \in Nat /\ Len(processed) \in Nat
          /\ Len(admitted) - Len(processed) <= Outstanding
      BY OnTheirWay
    <3>2. (Capacity + SIZE_OF_EVENTPACKET - 1) \div SIZE_OF_EVENTPACKET \in Int
      BY HandOffAssumption DEF SIZE_OF_EVENTPACKET
    <3> QED BY <3>1, <3>2, <2>3, <2>4
  <2> QED BY <2>1, <2>2, <2>5 DEF Chan!Next, Chan!Put
<1>2. CASE Process
  <2>1. /\ Len(processed) < Len(admitted)
        /\ admitted[Len(processed) + 1] = pCont
    BY <1>2, InHandIsNext DEF Process
  <2> QED BY <1>2, <2>1 DEF Process, Chan!Next, Chan!Take
<1>3. CASE \/ \E v \in IgnoreValues : SetIgnoreMessageCount(v)
           \/ Decode \/ WaitToIncrease \/ AddToProducerQueue
           \/ PushToIntermediateQueue \/ PollFromIntermediateQueue
           \/ PollFromConsumerQueue \/ ConsumerQueueEmpty \/ WaitToDecrease
           \/ DecreaseQueueSize \/ SpuriousWakeup \/ UNCHANGED vars
  BY <1>3 DEF SetIgnoreMessageCount, Decode, WaitToIncrease,
              AddToProducerQueue, PushToIntermediateQueue,
              PollFromIntermediateQueue, PollFromConsumerQueue,
              ConsumerQueueEmpty, WaitToDecrease, DecreaseQueueSize,
              SpuriousWakeup, vars, Chan!chanVars
<1> QED
  BY <1>1, <1>2, <1>3 DEF Next, Receiver, PassOn, Processor

\* Decode, QueueSizeCondition, the three queues and processQ together are a
\* bounded first-in first-out channel, for every capacity.
THEOREM HandOffIsChannel == Spec => ImplementsChannel
  BY ChannelInit, ChannelNext, Invariance, PTL
     DEF Spec, ImplementsChannel, Chan!Spec
=============================================================================
