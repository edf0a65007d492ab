------------------------------ MODULE Stabilizer ------------------------------
(***************************************************************************)
(* The whole service: the receiver thread decodes messages of the vnodes,  *)
(* the hand-off (module HandOff) carries them to the processing thread,    *)
(* and processQ (module ProcessingThread) orders their labels and delivers *)
(* them to the label receiver.  ProcessingThread has a plain FIFO where    *)
(* the program has three queues and a thread that may be held up; HandOff  *)
(* has one step where the program has the body of processQ.  Here both are *)
(* at work on the same messages, and neither simplification is made.       *)
(*                                                                         *)
(* HandOff names messages by their arrival number; content says what is in *)
(* those that processQ has not taken yet.                                  *)
(***************************************************************************)
EXTENDS Integers, Sequences

CONSTANTS
  \* of HandOff
  Capacity, SizeModulus, IgnoreValues,
  \* of ProcessingThread
  ClientCount, Senders, DeliverySize, DeleteThreshold, MinBatch, ReplyPieces,
  MaxBatch, MaxTimestamp, MaxLabels,
  \* of both
  MaxMessages

\* Those of the two modules.
ASSUME BoundAssumption == MaxMessages \in Nat

ASSUME HandOffAssumption ==
  /\ Capacity \in Nat \ {0}
  /\ SizeModulus \in Nat
  /\ SizeModulus > Capacity + 24
  /\ IgnoreValues \subseteq Int

ASSUME ThreadAssumption ==
  /\ ClientCount \in Nat \ {0}
  /\ Senders \subseteq 1..ClientCount
  /\ DeliverySize \in Nat
  /\ DeleteThreshold \in Nat
  /\ MinBatch \in Nat
  /\ ReplyPieces \in Nat \ {0}
  /\ MaxBatch \in Nat
  /\ MaxTimestamp \in Nat
  /\ MaxLabels \in Nat

VARIABLES
  \* of HandOff
  rpc, m_iCurrentMsgCount, m_ignoreMsgCount, m_ptrProducerQueue,
  m_ptrIntermediateQueue, m_ptrConsumerQueue, m_iObectSize, ppc, pCont,
  l_iProcessedMsg, admitted, processed,
  \* of ProcessingThread, all but m_ptrComQ
  lastHeartbeat, labelCount, messageCount, pc, pMsg, n, m_heartbeat,
  m_storage, deletedList, m_processed, conn, wire, reply, received,
  stabilised,
  \* the ReceivedMessages of the packets on their way
  content

\* Arrival numbers of the messages decoded and not yet taken by processQ.
OnTheirWay ==
  m_ptrConsumerQueue \o m_ptrIntermediateQueue \o m_ptrProducerQueue
    \o (IF rpc \in {"increase", "waitIncrease", "add"}
          THEN <<m_iCurrentMsgCount>> ELSE <<>>)

\* ... and what is in them: processQ's m_ptrComQ.
Waiting == [i \in 1..Len(OnTheirWay) |-> content[OnTheirWay[i]]]

H == INSTANCE HandOff
P == INSTANCE ProcessingThread WITH m_ptrComQ <- Waiting

handOffVars == <<rpc, m_iCurrentMsgCount, m_ignoreMsgCount,
                 m_ptrProducerQueue, m_ptrIntermediateQueue,
                 m_ptrConsumerQueue, m_iObectSize, ppc, pCont,
                 l_iProcessedMsg, admitted, processed>>
threadVars == <<lastHeartbeat, labelCount, messageCount, pc, pMsg, n,
                m_heartbeat, m_storage, deletedList, m_processed, conn, wire,
                reply, received, stabilised>>
vars == <<handOffVars, threadVars, content>>

Init ==
  /\ H!Init
  /\ content = [i \in 1..MaxMessages |-> P!NoMessage]
  /\ P!Init

-----------------------------------------------------------------------------

\* A message that is not ignored is handed on with what is in it; of one that
\* is, only the number counts.
Decode ==
  /\ H!Decode
  /\ \/ /\ rpc' = "decode"
        /\ UNCHANGED <<threadVars, content>>
     \/ /\ rpc' = "increase"
        /\ \E p \in Senders, hb \in 0..MaxTimestamp, len \in MinBatch..MaxBatch :
             \E stamps \in [1..len -> 0..MaxTimestamp] :
               /\ content' = [content EXCEPT ![m_iCurrentMsgCount'] =
                                               P!NewMessage(p, hb, stamps)]
               /\ P!Send(p, hb, stamps)

\* The first packet of the consumer queue is the message processQ works on.
TakeMessage ==
  /\ H!PollFromConsumerQueue
  /\ content' = [content EXCEPT ![pCont'] = P!NoMessage]
  /\ P!TakeMessage

\* What processQ does with it leaves the queues alone.
ProcessMessage ==
  /\ ppc = "process"
  /\ UNCHANGED <<handOffVars, content>>
  /\ \/ P!InsertBatchLabels
     \/ P!Stabilise
     \/ P!SkipDelivery
     \/ P!WriteBatch
     \/ P!ReadReply

\* The end of the loop's body.
EndMessage ==
  /\ H!Process
  /\ UNCHANGED content
  /\ P!Report

\* The hand-off on its own.
PassOn ==
  /\ H!PassOn
  /\ UNCHANGED <<threadVars, content>>

Collect ==
  /\ \/ H!PollFromIntermediateQueue
     \/ H!ConsumerQueueEmpty
     \/ H!WaitToDecrease
     \/ H!DecreaseQueueSize
  /\ UNCHANGED <<threadVars, content>>

Elsewhere ==
  /\ H!SpuriousWakeup \/ \E v \in IgnoreValues : H!SetIgnoreMessageCount(v)
  /\ UNCHANGED <<threadVars, content>>

LabelReceiver ==
  /\ UNCHANGED <<handOffVars, content>>
  /\ P!ReceiverReplies \/ P!ReceiverCloses

ProcessingThread ==
  TakeMessage \/ ProcessMessage \/ EndMessage \/ Collect

\* SIGPIPE and the null dereference end both threads.
Next ==
  \/ /\ pc # "dead"
     /\ Decode \/ PassOn \/ ProcessingThread \/ Elsewhere
  \/ LabelReceiver

Spec == Init /\ [][Next]_vars

\* Both threads run, and a connected label receiver answers.
FairSpec ==
  /\ Spec
  /\ WF_vars(pc # "dead" /\ PassOn)
  /\ WF_vars(pc # "dead" /\ ProcessingThread)
  /\ WF_vars(UNCHANGED <<handOffVars, content>> /\ P!ReceiverReplies)

-----------------------------------------------------------------------------
(* Properties.                                                             *)

\* No label is lost or doubled between the receiver thread's hand and the stable
\* ones, while it moves through three queues and m_storage.
NoLabelLost == P!NoLabelLost

(***************************************************************************)
(* The three queues with their condition variable are, for processQ, the   *)
(* FIFO that module ProcessingThread has in their place, also while the    *)
(* receiver thread is held up with a message in its hand.                  *)
(***************************************************************************)
ImplementsProcessingThread == P!Spec

(***************************************************************************)
(* End to end: a label that every partition's heartbeat has reached leaves *)
(* the queues and m_storage, and all but the last DeliverySize stable ones *)
(* reach the label receiver unless it goes away, although the processing   *)
(* thread waits for the label receiver and the receiver thread for the     *)
(* processing thread.                                                      *)
(***************************************************************************)
StableLabelsLeave == P!StableLabelsLeave

StableLabelsReachReceiver == P!StableLabelsReachReceiver
=============================================================================
