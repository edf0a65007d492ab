------------------------------- MODULE HandOff -------------------------------
(***************************************************************************)
(* The receiver thread passes messages to the processing thread:           *)
(* ServerAPI::Decode on one side, StartProcesser and processQ on the       *)
(* other, three queues (EventQueueFrame) and a byte counter with a mutex   *)
(* and one condition variable (QueueSizeCondition) between them.           *)
(*                                                                         *)
(* A critical section is one step.  The producer queue is touched by the   *)
(* receiver thread only and the consumer queue by the processing thread    *)
(* only; module EventQueueFrame looks at the pointers.  A message is named *)
(* by its arrival number, m_iCurrentMsgCount when it was decoded.          *)
(***************************************************************************)
EXTENDS Integers, Sequences, SequencesExt

CONSTANTS
  Capacity,        \* m_iMaxQueueCapacity; main() sets 50000
  SizeModulus,     \* m_iObectSize is an unsigned integer below this (2^64)
  IgnoreValues,    \* what m_ignoreMsgCount may hold
  MaxMessages      \* bound: messages that arrive

SIZE_OF_EVENTPACKET == 24

ASSUME HandOffAssumption ==
  /\ Capacity \in Nat \ {0}
  /\ SizeModulus \in Nat
  /\ SizeModulus > Capacity + SIZE_OF_EVENTPACKET
  /\ IgnoreValues \subseteq Int
  /\ MaxMessages \in Nat

VARIABLES
  rpc,                 \* receiver thread: where it is in Decode
  m_iCurrentMsgCount,  \* messages decoded so far
  m_ignoreMsgCount,    \* written by the main thread, read without a lock
  m_ptrProducerQueue,
  m_ptrIntermediateQueue,
  m_ptrConsumerQueue,
  m_iObectSize,        \* the counter of QueueSizeCondition
  ppc,                 \* processing thread: where it is in StartProcesser
  pCont,               \* packet being processed
  l_iProcessedMsg,     \* packets taken by this call of processQ
  admitted,            \* history: messages IncreaseQueueSize let through
  processed            \* history: messages the processing thread is done with

queueVars == <<m_ptrProducerQueue, m_ptrIntermediateQueue, m_ptrConsumerQueue>>
vars == <<rpc, m_iCurrentMsgCount, m_ignoreMsgCount, queueVars, m_iObectSize,
          ppc, pCont, l_iProcessedMsg, admitted, processed>>

Init ==
  /\ rpc = "decode"
  /\ m_iCurrentMsgCount = 0
  /\ m_ignoreMsgCount \in IgnoreValues
  /\ m_ptrProducerQueue = <<>>
  /\ m_ptrIntermediateQueue = <<>>
  /\ m_ptrConsumerQueue = <<>>
  /\ m_iObectSize = 0
  /\ ppc = "pollIntermediate"
  /\ pCont = 0
  /\ l_iProcessedMsg = 0
  /\ admitted = <<>>
  /\ processed = <<>>

\* Arithmetic of unsigned long long, for operands below SizeModulus.
UAdd(a, b) == IF a + b < SizeModulus THEN a + b ELSE a + b - SizeModulus
USub(a, b) == IF b <= a THEN a - b ELSE a + SizeModulus - b

\* pthread_cond_signal wakes a thread that waits; the thread takes the mutex
\* again and tests its condition again.
SignalProcessor == ppc' = IF ppc = "waitDecrease" THEN "decrease" ELSE ppc
SignalReceiver  == rpc' = IF rpc = "waitIncrease" THEN "increase" ELSE rpc

-----------------------------------------------------------------------------
(* The main thread.                                                        *)

SetIgnoreMessageCount(v) ==
  /\ m_ignoreMsgCount' = v
  /\ UNCHANGED <<rpc, m_iCurrentMsgCount, queueVars, m_iObectSize, ppc, pCont,
                 l_iProcessedMsg, admitted, processed>>

-----------------------------------------------------------------------------
(* The receiver thread.                                                    *)

\* A message has been parsed; it is counted, and dropped or passed on.
Decode ==
  /\ rpc = "decode"
  /\ m_iCurrentMsgCount < MaxMessages
  /\ m_iCurrentMsgCount' = m_iCurrentMsgCount + 1
  /\ rpc' = IF m_iCurrentMsgCount' > m_ignoreMsgCount THEN "increase"
                                                      ELSE "decode"
  /\ UNCHANGED <<m_ignoreMsgCount, queueVars, m_iObectSize, ppc, pCont,
                 l_iProcessedMsg, admitted, processed>>

WaitToIncrease ==
  /\ rpc = "increase"
  /\ m_iObectSize >= Capacity
  /\ rpc' = "waitIncrease"
  /\ UNCHANGED <<m_iCurrentMsgCount, m_ignoreMsgCount, queueVars,
                 m_iObectSize, ppc, pCont, l_iProcessedMsg, admitted,
                 processed>>

\* Mutant: the processing thread is not signalled.
MutIncreaseUnsignalled ==
  /\ rpc = "increase"
  /\ m_iObectSize < Capacity
  /\ m_iObectSize' = UAdd(m_iObectSize, SIZE_OF_EVENTPACKET)
  /\ rpc' = "add"
  /\ admitted' = Append(admitted, m_iCurrentMsgCount)
  /\ UNCHANGED <<m_iCurrentMsgCount, m_ignoreMsgCount, queueVars, ppc, pCont,
                 l_iProcessedMsg, processed>>

IncreaseQueueSize ==
  /\ rpc = "increase"
  /\ m_iObectSize < Capacity
  /\ m_iObectSize' = UAdd(m_iObectSize, SIZE_OF_EVENTPACKET)
  /\ SignalProcessor
  /\ rpc' = "add"
  /\ admitted' = Append(admitted, m_iCurrentMsgCount)
  /\ UNCHANGED <<m_iCurrentMsgCount, m_ignoreMsgCount, queueVars, pCont,
                 l_iProcessedMsg, processed>>

AddToProducerQueue ==
  /\ rpc = "add"
  /\ m_ptrProducerQueue' = Append(m_ptrProducerQueue, m_iCurrentMsgCount)
  /\ rpc' = "push"
  /\ UNCHANGED <<m_iCurrentMsgCount, m_ignoreMsgCount, m_ptrIntermediateQueue,
                 m_ptrConsumerQueue, m_iObectSize, ppc, pCont,
                 l_iProcessedMsg, admitted, processed>>

\* Mutant: the producer queue goes to the front.
MutPushToFront ==
  /\ rpc = "push"
  /\ m_ptrIntermediateQueue' = m_ptrProducerQueue \o m_ptrIntermediateQueue
  /\ m_ptrProducerQueue' = <<>>
  /\ rpc' = "decode"
  /\ UNCHANGED <<m_iCurrentMsgCount, m_ignoreMsgCount, m_ptrConsumerQueue,
                 m_iObectSize, ppc, pCont, l_iProcessedMsg, admitted,
                 processed>>

PushToIntermediateQueue ==
  /\ rpc = "push"
  /\ m_ptrIntermediateQueue' = m_ptrIntermediateQueue \o m_ptrProducerQueue
  /\ m_ptrProducerQueue' = <<>>
  /\ rpc' = "decode"
  /\ UNCHANGED <<m_iCurrentMsgCount, m_ignoreMsgCount, m_ptrConsumerQueue,
                 m_iObectSize, ppc, pCont, l_iProcessedMsg, admitted,
                 processed>>

\* Decode after a message has been counted: it must get rid of it.
PassOn ==
  \/ WaitToIncrease
  \/ IncreaseQueueSize
  \/ AddToProducerQueue
  \/ PushToIntermediateQueue

Receiver == Decode \/ PassOn

-----------------------------------------------------------------------------
(* The processing thread.                                                  *)

\* Mutant: the count of the last call of processQ is kept.
MutCountKept ==
  /\ ppc = "pollIntermediate"
  /\ m_ptrConsumerQueue' = m_ptrConsumerQueue \o m_ptrIntermediateQueue
  /\ m_ptrIntermediateQueue' = <<>>
  /\ ppc' = "pollConsumer"
  /\ UNCHANGED <<rpc, m_iCurrentMsgCount, m_ignoreMsgCount,
                 m_ptrProducerQueue, m_iObectSize, pCont, l_iProcessedMsg,
                 admitted, processed>>

PollFromIntermediateQueue ==
  /\ ppc = "pollIntermediate"
  /\ m_ptrConsumerQueue' = m_ptrConsumerQueue \o m_ptrIntermediateQueue
  /\ m_ptrIntermediateQueue' = <<>>
  /\ l_iProcessedMsg' = 0
  /\ ppc' = "pollConsumer"
  /\ UNCHANGED <<rpc, m_iCurrentMsgCount, m_ignoreMsgCount,
                 m_ptrProducerQueue, m_iObectSize, pCont, admitted, processed>>

PollFromConsumerQueue ==
  /\ ppc = "pollConsumer"
  /\ m_ptrConsumerQueue # <<>>
  /\ pCont' = Head(m_ptrConsumerQueue)
  /\ m_ptrConsumerQueue' = Tail(m_ptrConsumerQueue)
  /\ l_iProcessedMsg' = l_iProcessedMsg + 1
  /\ ppc' = "process"
  /\ UNCHANGED <<rpc, m_iCurrentMsgCount, m_ignoreMsgCount,
                 m_ptrProducerQueue, m_ptrIntermediateQueue, m_iObectSize,
                 admitted, processed>>

\* The body of the loop of processQ, module ProcessingThread.
Process ==
  /\ ppc = "process"
  /\ processed' = Append(processed, pCont)
  /\ pCont' = 0
  /\ ppc' = "pollConsumer"
  /\ UNCHANGED <<rpc, m_iCurrentMsgCount, m_ignoreMsgCount, queueVars,
                 m_iObectSize, l_iProcessedMsg, admitted>>

\* PollFromConsumerQueue returns NULL: processQ is done.
ConsumerQueueEmpty ==
  /\ ppc = "pollConsumer"
  /\ m_ptrConsumerQueue = <<>>
  /\ ppc' = "decrease"
  /\ UNCHANGED <<rpc, m_iCurrentMsgCount, m_ignoreMsgCount, queueVars,
                 m_iObectSize, pCont, l_iProcessedMsg, admitted, processed>>

WaitToDecrease ==
  /\ ppc = "decrease"
  /\ m_iObectSize = 0
  /\ ppc' = "waitDecrease"
  /\ UNCHANGED <<rpc, m_iCurrentMsgCount, m_ignoreMsgCount, queueVars,
                 m_iObectSize, pCont, l_iProcessedMsg, admitted, processed>>

\* Mutant: the receiver thread is not signalled.
MutDecreaseUnsignalled ==
  /\ ppc = "decrease"
  /\ m_iObectSize # 0
  /\ m_iObectSize' = USub(m_iObectSize, l_iProcessedMsg * 24)
  /\ ppc' = "pollIntermediate"
  /\ UNCHANGED <<rpc, m_iCurrentMsgCount, m_ignoreMsgCount, queueVars, pCont,
                 l_iProcessedMsg, admitted, processed>>

\* Mutant: a signed counter, and the NULL at the end counted as a packet.
MutDecreaseOneTooMany ==
  /\ ppc = "decrease"
  /\ m_iObectSize # 0
  /\ m_iObectSize' = m_iObectSize - (l_iProcessedMsg + 1) * 24
  /\ SignalReceiver
  /\ ppc' = "pollIntermediate"
  /\ UNCHANGED <<m_iCurrentMsgCount, m_ignoreMsgCount, queueVars, pCont,
                 l_iProcessedMsg, admitted, processed>>

\* The number of bytes is the "l_iProcessedMsg * 24" processQ returns.
DecreaseQueueSize ==
  /\ ppc = "decrease"
  /\ m_iObectSize # 0
  /\ m_iObectSize' = USub(m_iObectSize, l_iProcessedMsg * 24)
  /\ SignalReceiver
  /\ ppc' = "pollIntermediate"
  /\ UNCHANGED <<m_iCurrentMsgCount, m_ignoreMsgCount, queueVars, pCont,
                 l_iProcessedMsg, admitted, processed>>

Processor ==
  \/ PollFromIntermediateQueue
  \/ PollFromConsumerQueue
  \/ Process
  \/ ConsumerQueueEmpty
  \/ WaitToDecrease
  \/ DecreaseQueueSize

\* POSIX lets pthread_cond_wait return without a signal.
SpuriousWakeup ==
  /\ \/ rpc = "waitIncrease" /\ rpc' = "increase" /\ ppc' = ppc
     \/ ppc = "waitDecrease" /\ ppc' = "decrease" /\ rpc' = rpc
  /\ UNCHANGED <<m_iCurrentMsgCount, m_ignoreMsgCount, queueVars,
                 m_iObectSize, pCont, l_iProcessedMsg, admitted, processed>>

Next ==
  \/ \E v \in IgnoreValues : SetIgnoreMessageCount(v)
  \/ Receiver
  \/ Processor
  \/ SpuriousWakeup

Spec == Init /\ [][Next]_vars

\* Both threads keep running; messages need not keep coming, and nobody
\* counts on spurious wakeups.
Fairness == WF_vars(PassOn) /\ WF_vars(Processor)

FairSpec == Spec /\ Fairness

-----------------------------------------------------------------------------
(* Properties.                                                             *)

\* Every variable keeps its type; the counter stays within its width.
TypeOK ==
  /\ rpc \in {"decode", "increase", "waitIncrease", "add", "push"}
  /\ m_iCurrentMsgCount \in Nat
  /\ m_ignoreMsgCount \in IgnoreValues
  /\ m_ptrProducerQueue \in Seq(Nat)
  /\ m_ptrIntermediateQueue \in Seq(Nat)
  /\ m_ptrConsumerQueue \in Seq(Nat)
  /\ m_iObectSize \in 0..(SizeModulus - 1)
  /\ ppc \in {"pollIntermediate", "pollConsumer", "process", "decrease",
              "waitDecrease"}
  /\ pCont \in Nat
  /\ l_iProcessedMsg \in Nat
  /\ admitted \in Seq(Nat)
  /\ processed \in Seq(Nat)

\* Packets announced and not queued yet; taken and still to be subtracted.
Announced == IF rpc = "add" THEN 1 ELSE 0
Owed == IF ppc = "pollIntermediate" THEN 0 ELSE l_iProcessedMsg

\* Packets paid for by IncreaseQueueSize and not yet by DecreaseQueueSize.
Outstanding ==
  Announced + Len(m_ptrProducerQueue) + Len(m_ptrIntermediateQueue)
  + Len(m_ptrConsumerQueue) + Owed

(***************************************************************************)
(* QueueSizeCondition counts right although Increase runs before the       *)
(* packet is queued and Decrease runs once per batch: the counter is the   *)
(* size of the outstanding packets, it never wraps below 0, and it exceeds *)
(* the capacity by less than one packet.                                   *)
(***************************************************************************)
SizeIsExact ==
  /\ m_iObectSize = SIZE_OF_EVENTPACKET * Outstanding
  /\ m_iObectSize < Capacity + SIZE_OF_EVENTPACKET

(***************************************************************************)
(* No wakeup is lost on the one condition variable both threads share: a   *)
(* thread that waits has reason to, so they never wait for each other.     *)
(* The processing thread sleeps only when no packet is anywhere on its way *)
(* to it and it owes no Decrease.                                          *)
(***************************************************************************)
WaitsForAReason ==
  /\ rpc = "waitIncrease" => m_iObectSize >= Capacity
  /\ ppc = "waitDecrease" =>
       /\ m_iObectSize = 0
       /\ l_iProcessedMsg = 0
       /\ m_ptrIntermediateQueue = <<>>
       /\ m_ptrProducerQueue = <<>>

\* The packet being processed; the message let through and not queued yet.
InHand == IF ppc = "process" THEN <<pCont>> ELSE <<>>
ToAdd == IF rpc = "add" THEN <<m_iCurrentMsgCount>> ELSE <<>>

(***************************************************************************)
(* Three queues, one order: whatever the interleaving of Push and Poll,    *)
(* the messages let through are, in order and once each, the processed     *)
(* ones and those still queued.                                            *)
(***************************************************************************)
FifoExactlyOnce ==
  admitted = processed \o InHand \o m_ptrConsumerQueue
             \o m_ptrIntermediateQueue \o m_ptrProducerQueue \o ToAdd

(***************************************************************************)
(* The hand-off implements a bounded FIFO channel: Put is the step that    *)
(* lets a message through, Take the end of its processing.  Room is        *)
(* Capacity in packets, rounded up.                                        *)
(***************************************************************************)
Chan == INSTANCE Channel WITH
          Message <- 1..MaxMessages,
          Room <- (Capacity + SIZE_OF_EVENTPACKET - 1) \div SIZE_OF_EVENTPACKET,
          given <- admitted,
          taken <- processed

ImplementsChannel == Chan!Spec

\* The same with the channel's liveness: what is let through is processed.
ImplementsFairChannel == Chan!FairSpec

\* The receiver thread always comes back from a message: back-pressure is
\* lifted by the processing thread, never for good.
ReceiverComesBack == (rpc # "decode") ~> (rpc = "decode")

-----------------------------------------------------------------------------
(* What the properties above rest on; with TypeOK this is inductive        *)
(* (module HandOffProofs).                                                 *)

\* A message on its way has been counted, and a packet in hand as well.
Counted ==
  /\ m_iCurrentMsgCount <= MaxMessages
  /\ rpc # "decode" => m_iCurrentMsgCount >= 1
  /\ ppc = "process" => l_iProcessedMsg >= 1

HandOffInv == SizeIsExact /\ WaitsForAReason /\ FifoExactlyOnce /\ Counted
=============================================================================
