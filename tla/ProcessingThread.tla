--------------------------- MODULE ProcessingThread ---------------------------
(***************************************************************************)
(* The stabilizer proper: the loop body of ProcessingThread::processQ().   *)
(*                                                                         *)
(* Vnodes (partitions) send batches of labels and, with every batch, a     *)
(* heartbeat: a promise that they will send no label older than it.  The   *)
(* processing thread keeps the labels ordered by timestamp, takes the      *)
(* smallest heartbeat of all partitions as the stable timestamp, moves     *)
(* every label up to it to deletedList, and ships deletedList to the label *)
(* receiver over a TCP connection once it is long enough.                  *)
(*                                                                         *)
(* m_ptrComQ is the hand-off from the receiver thread, here a plain FIFO;  *)
(* module HandOff shows that the real queue is one.                        *)
(***************************************************************************)
EXTENDS Naturals, Sequences, SequencesExt

CONSTANTS
  ClientCount,     \* argv[1]: partitions are registered as 1..ClientCount
  Senders,         \* the partition ids the vnodes really use
  DeliverySize,    \* argv[4]: a longer deletedList than this is delivered
  DeleteThreshold, \* argv[2]: statistics are printed every so many labels
  MinBatch,        \* fewest labels in a message
  ReplyPieces,     \* the label receiver's reply takes up to so many read()s
  MaxBatch,        \* bound: most labels in a message
  MaxTimestamp,    \* bound: largest timestamp
  MaxMessages,     \* bound: messages sent by all vnodes together
  MaxLabels        \* bound: labels sent by one vnode

ASSUME ConstantsAssumption ==
  /\ ClientCount \in Nat \ {0}
  /\ Senders \subseteq 1..ClientCount
  /\ DeliverySize \in Nat
  /\ DeleteThreshold \in Nat
  /\ MinBatch \in Nat
  /\ ReplyPieces \in Nat \ {0}
  /\ MaxBatch \in Nat
  /\ MaxTimestamp \in Nat
  /\ MaxMessages \in Nat
  /\ MaxLabels \in Nat

VARIABLES
  \* the vnodes
  lastHeartbeat,   \* heartbeat of the last message each vnode has sent
  labelCount,      \* labels each vnode has sent
  messageCount,    \* messages sent by all vnodes
  \* the processing thread
  m_ptrComQ,       \* messages handed over and not yet taken
  pc,              \* where the thread is in processQ
  pMsg,            \* the message being processed
  n,               \* next label of pMsg to insert
  m_heartbeat,     \* partition id -> last heartbeat processed
  m_storage,       \* multimap timestamp -> value, as a sequence in map order
  deletedList,     \* stable labels waiting for delivery
  m_processed,     \* labels removed from m_storage since the last report
  \* the connection to the label receiver
  conn,            \* state of m_socketfd
  wire,            \* batches written and not yet read by the label receiver
  reply,           \* pieces of its replies waiting to be read
  received,        \* labels the label receiver has got
  \* history
  stabilised       \* every label ever moved out of m_storage, in order

vnodeVars == <<lastHeartbeat, labelCount, messageCount>>
connVars  == <<conn, wire, reply, received>>
vars == <<vnodeVars, m_ptrComQ, pc, pMsg, n, m_heartbeat, m_storage,
          deletedList, m_processed, connVars, stabilised>>

(***************************************************************************)
(* A Label's value is opaque to the program.  The model lets it name the   *)
(* label: the k-th label of partition p.  deletedList keeps the timestamp  *)
(* beside the value so that properties can speak about it; the code        *)
(* pushes the value only.                                                  *)
(***************************************************************************)
Label == [ts : Nat, val : Senders \X Nat]

ReceivedMessage == [pid : Senders, hb : Nat, labels : Seq(Label)]

NoMessage == [pid |-> 0, hb |-> 0, labels |-> <<>>]

ConnStates == {"up", "closed", "unconnected", "nofd"}

\* Mutant: stops at an equal timestamp already.
MutFirstAtLeast(s, t) ==
  Min({i \in 1..Len(s) : s[i].ts >= t} \cup {Len(s) + 1})

(***************************************************************************)
(* Position of the first element of s above timestamp t, Len(s)+1 if there *)
(* is none: where multimap::insert puts a new element with key t, and      *)
(* where the walk of DeletePossibleLabels(t) stops.                        *)
(***************************************************************************)
FirstAbove(s, t) ==
  Min({i \in 1..Len(s) : s[i].ts > t} \cup {Len(s) + 1})

\* Mutant: a map instead of a multimap drops a label with a known timestamp.
MutMapInsert(s, l) ==
  IF \E i \in 1..Len(s) : s[i].ts = l.ts
    THEN s
    ELSE InsertAt(s, FirstAbove(s, l.ts), l)

\* Mutant: a label goes in front of those with the same timestamp.
MutInsertBefore(s, l) ==
  InsertAt(s, Min({i \in 1..Len(s) : s[i].ts >= l.ts} \cup {Len(s) + 1}), l)

\* multimap::insert keeps equal keys in insertion order.
MultimapInsert(s, l) ==
  LET k == FirstAbove(s, l.ts) IN
  [i \in 1..(Len(s) + 1) |->
     IF i < k THEN s[i] ELSE IF i = k THEN l ELSE s[i - 1]]

\* Mutant: partitions counted from 0.
MutHeartbeatFromZero(h, p, hb) ==
  [q \in DOMAIN h \cup {p - 1} |-> IF q = p - 1 THEN hb ELSE h[q]]

\* std::map::operator[] adds the key when it is new.
UpdateHeartbeatTable(h, p, hb) ==
  [q \in DOMAIN h \cup {p} |-> IF q = p THEN hb ELSE h[q]]

\* Mutant: the comparison the wrong way round.
MutLargestHeartbeat(h) == Max({h[q] : q \in DOMAIN h})

GetStableTimestamp(h) == Min({h[q] : q \in DOMAIN h})

-----------------------------------------------------------------------------
(* SetClientCount registers every partition with heartbeat 0;              *)
(* openConnectionToLabelReceiver may fail at socket() ("nofd") or at       *)
(* gethostbyname() or connect() ("unconnected"), and main() goes on.       *)

Init ==
  /\ lastHeartbeat = [p \in Senders |-> 0]
  /\ labelCount = [p \in Senders |-> 0]
  /\ messageCount = 0
  /\ m_ptrComQ = <<>>
  /\ pc = "poll"
  /\ pMsg = NoMessage
  /\ n = 1
  /\ m_heartbeat = [p \in 1..ClientCount |-> 0]
  /\ m_storage = <<>>
  /\ deletedList = <<>>
  /\ m_processed = 0
  /\ conn \in {"up", "unconnected", "nofd"}
  /\ wire = <<>>
  /\ reply = 0
  /\ received = <<>>
  /\ stabilised = <<>>

-----------------------------------------------------------------------------
(* Vnodes (external).  Vnode p sends hb and labels of the given timestamps *)
(* and keeps its promise: nothing is older than its previous heartbeat.    *)

NewMessage(p, hb, stamps) ==
  [pid |-> p, hb |-> hb,
   labels |-> [i \in 1..Len(stamps) |->
                 [ts |-> stamps[i], val |-> <<p, labelCount[p] + i>>]]]

Send(p, hb, stamps) ==
  /\ pc # "dead"
  /\ messageCount < MaxMessages
  /\ labelCount[p] + Len(stamps) <= MaxLabels
  /\ hb >= lastHeartbeat[p]
  /\ \A i \in 1..Len(stamps) : stamps[i] >= lastHeartbeat[p]
  /\ m_ptrComQ' = Append(m_ptrComQ, NewMessage(p, hb, stamps))
  /\ lastHeartbeat' = [lastHeartbeat EXCEPT ![p] = hb]
  /\ labelCount' = [labelCount EXCEPT ![p] = @ + Len(stamps)]
  /\ messageCount' = messageCount + 1
  /\ UNCHANGED <<pc, pMsg, n, m_heartbeat, m_storage, deletedList,
                 m_processed, connVars, stabilised>>

Vnodes ==
  \E p \in Senders, hb \in 0..MaxTimestamp, len \in MinBatch..MaxBatch :
    \E stamps \in [1..len -> 0..MaxTimestamp] : Send(p, hb, stamps)

-----------------------------------------------------------------------------
(* The processing thread: one iteration of the loop in processQ().         *)

\* Mutant: the newest message first.
MutTakeNewest ==
  /\ pc = "poll"
  /\ m_ptrComQ # <<>>
  /\ pMsg' = Last(m_ptrComQ)
  /\ m_ptrComQ' = Front(m_ptrComQ)
  /\ n' = 1
  /\ pc' = "insert"
  /\ UNCHANGED <<vnodeVars, m_heartbeat, m_storage, deletedList, m_processed,
                 connVars, stabilised>>

\* Mutant: the loop over the labels starts at the second.
MutSkipFirstLabel ==
  /\ pc = "poll"
  /\ m_ptrComQ # <<>>
  /\ pMsg' = Head(m_ptrComQ)
  /\ m_ptrComQ' = Tail(m_ptrComQ)
  /\ n' = 2
  /\ pc' = "insert"
  /\ UNCHANGED <<vnodeVars, m_heartbeat, m_storage, deletedList, m_processed,
                 connVars, stabilised>>

\* while ((pCont = m_ptrComQ->PollFromConsumerQueue()))
TakeMessage ==
  /\ pc = "poll"
  /\ m_ptrComQ # <<>>
  /\ pMsg' = Head(m_ptrComQ)
  /\ m_ptrComQ' = Tail(m_ptrComQ)
  /\ n' = 1
  /\ pc' = "insert"
  /\ UNCHANGED <<vnodeVars, m_heartbeat, m_storage, deletedList, m_processed,
                 connVars, stabilised>>

\* One round of the loop of InsertBatchLabels.
InsertBatchLabels ==
  /\ pc = "insert"
  /\ n <= Len(pMsg.labels)
  /\ m_storage' = MultimapInsert(m_storage, pMsg.labels[n])
  /\ n' = n + 1
  /\ UNCHANGED <<vnodeVars, m_ptrComQ, pc, pMsg, m_heartbeat, deletedList,
                 m_processed, connVars, stabilised>>

(***************************************************************************)
(* UpdateHeartbeatTable, GetStableTimestamp and DeletePossibleLabels.  The *)
(* last one ends in "itup = it--", which decrements begin() when nothing   *)
(* is stable: undefined, harmless in this build while the tree has a node, *)
(* a null dereference when m_storage is empty.                             *)
(***************************************************************************)
DeletePossibleLabels(stable) ==
  LET it == FirstAbove(m_storage, stable)
      removed == SubSeq(m_storage, 1, it - 1)
  IN  /\ deletedList' = deletedList \o removed
      /\ stabilised' = stabilised \o removed
      /\ m_processed' = m_processed + (it - 1)
      /\ m_storage' = SubSeq(m_storage, it, Len(m_storage))

\* Mutant: the iterator is decremented after the labels have been erased.
MutDecrementAfterErase ==
  /\ pc = "insert"
  /\ n > Len(pMsg.labels)
  /\ m_heartbeat' = UpdateHeartbeatTable(m_heartbeat, pMsg.pid, pMsg.hb)
  /\ DeletePossibleLabels(GetStableTimestamp(m_heartbeat'))
  /\ pc' = IF m_storage' = <<>> THEN "dead" ELSE "deliver"
  /\ UNCHANGED <<vnodeVars, m_ptrComQ, pMsg, n, connVars>>

Stabilise ==
  /\ pc = "insert"
  /\ n > Len(pMsg.labels)
  /\ m_heartbeat' = UpdateHeartbeatTable(m_heartbeat, pMsg.pid, pMsg.hb)
  /\ DeletePossibleLabels(GetStableTimestamp(m_heartbeat'))
  /\ pc' = IF m_storage = <<>> THEN "dead" ELSE "deliver"
  /\ UNCHANGED <<vnodeVars, m_ptrComQ, pMsg, n, connVars>>

(***************************************************************************)
(* DoPossibleBatchDelivery writes the count and the values, then blocks in *)
(* read() for the reply.  The results of write() are not looked at; the    *)
(* process has no SIGPIPE handler.                                         *)
(***************************************************************************)
\* Mutant: waits for one label more.
MutOneMore == Len(deletedList) > DeliverySize + 1

EnoughToDeliver == Len(deletedList) > DeliverySize

SkipDelivery ==
  /\ pc = "deliver"
  /\ ~EnoughToDeliver
  /\ pc' = "report"
  /\ UNCHANGED <<vnodeVars, m_ptrComQ, pMsg, n, m_heartbeat, m_storage,
                 deletedList, m_processed, connVars, stabilised>>

WriteBatch ==
  /\ pc = "deliver"
  /\ EnoughToDeliver
  /\ \/ conn = "up" /\ wire' = Append(wire, deletedList) /\ pc' = "await"
     \/ conn = "nofd" /\ wire' = wire /\ pc' = "await"
     \/ conn = "closed" /\ wire' = wire /\ pc' \in {"await", "dead"}
     \/ conn = "unconnected" /\ wire' = wire /\ pc' = "dead"
  /\ UNCHANGED <<vnodeVars, m_ptrComQ, pMsg, n, m_heartbeat, m_storage,
                 deletedList, m_processed, conn, reply, received, stabilised>>

\* Mutant: the list is not cleared.
MutKeepDeletedList ==
  /\ pc = "await"
  /\ reply > 0 \/ conn # "up"
  /\ reply' = IF reply > 0 THEN reply - 1 ELSE 0
  /\ pc' = "report"
  /\ UNCHANGED <<vnodeVars, m_ptrComQ, pMsg, n, m_heartbeat, m_storage,
                 deletedList, m_processed, conn, wire, received, stabilised>>

\* read() returns a piece of the reply to this batch, or one left over from
\* an earlier reply, end of file or an error; in every case the list is
\* cleared.
ReadReply ==
  /\ pc = "await"
  /\ reply > 0 \/ conn # "up"
  /\ reply' = IF reply > 0 THEN reply - 1 ELSE 0
  /\ deletedList' = <<>>
  /\ pc' = "report"
  /\ UNCHANGED <<vnodeVars, m_ptrComQ, pMsg, n, m_heartbeat, m_storage,
                 m_processed, conn, wire, received, stabilised>>

\* The statistics, and delete _pMsg.
Report ==
  /\ pc = "report"
  /\ m_processed' = IF m_processed >= DeleteThreshold THEN 0 ELSE m_processed
  /\ pMsg' = NoMessage
  /\ n' = 1
  /\ pc' = "poll"
  /\ UNCHANGED <<vnodeVars, m_ptrComQ, m_heartbeat, m_storage, deletedList,
                 connVars, stabilised>>

Processor ==
  \/ TakeMessage
  \/ InsertBatchLabels
  \/ Stabilise
  \/ SkipDelivery
  \/ WriteBatch
  \/ ReadReply
  \/ Report

-----------------------------------------------------------------------------
(* The label receiver (external): reads a batch and answers, or goes away. *)
(* How long its reply is, is its own affair, and TCP may cut it.           *)

ReceiverReplies ==
  /\ conn = "up"
  /\ wire # <<>>
  /\ received' = received \o Head(wire)
  /\ wire' = Tail(wire)
  /\ \E pieces \in 1..ReplyPieces : reply' = reply + pieces
  /\ UNCHANGED <<vnodeVars, m_ptrComQ, pc, pMsg, n, m_heartbeat, m_storage,
                 deletedList, m_processed, conn, stabilised>>

ReceiverCloses ==
  /\ conn = "up"
  /\ conn' = "closed"
  /\ wire' = <<>>
  /\ UNCHANGED <<vnodeVars, m_ptrComQ, pc, pMsg, n, m_heartbeat, m_storage,
                 deletedList, m_processed, reply, received, stabilised>>

Next ==
  \/ Vnodes
  \/ Processor
  \/ ReceiverReplies
  \/ ReceiverCloses

Spec == Init /\ [][Next]_vars

(***************************************************************************)
(* The processing thread is never descheduled for good, and a connected    *)
(* label receiver answers.  Vnodes may stop sending.                       *)
(***************************************************************************)
Fairness == WF_vars(Processor) /\ WF_vars(ReceiverReplies)

FairSpec == Spec /\ Fairness

-----------------------------------------------------------------------------
(* Properties.                                                             *)

\* Every variable keeps its type; pMsg is a real message while one is being
\* processed, and n stays within its labels.
TypeOK ==
  /\ lastHeartbeat \in [Senders -> Nat]
  /\ labelCount \in [Senders -> Nat]
  /\ messageCount \in Nat
  /\ m_ptrComQ \in Seq(ReceivedMessage)
  /\ pc \in {"poll", "insert", "deliver", "await", "report", "dead"}
  /\ pMsg \in ReceivedMessage \cup {NoMessage}
  /\ pc = "insert" => pMsg \in ReceivedMessage
  /\ n \in Nat \ {0}
  /\ m_heartbeat \in [1..ClientCount -> Nat]
  /\ m_storage \in Seq(Label)
  /\ deletedList \in Seq(Label)
  /\ m_processed \in Nat
  /\ conn \in ConnStates
  /\ wire \in Seq(Seq(Label))
  /\ reply \in Nat
  /\ received \in Seq(Label)
  /\ stabilised \in Seq(Label)

\* Timestamps never go down along s.
InTimestampOrder(s) == \A i, j \in 1..Len(s) : i < j => s[i].ts <= s[j].ts

(***************************************************************************)
(* What Eunomia is for: labels leave m_storage in timestamp order over the *)
(* whole run, so no label is ever followed by an older one of any          *)
(* partition, however the partitions' messages interleave.                 *)
(***************************************************************************)
StabilisedInOrder == InTimestampOrder(stabilised)

\* Stable labels that are neither on the wire nor read by the receiver yet;
\* while the thread waits for the reply deletedList repeats what was written.
Undelivered == IF pc = "await" THEN <<>> ELSE deletedList

(***************************************************************************)
(* DoPossibleBatchDelivery: what the label receiver has got, and what is   *)
(* on its way, is a prefix of the stable order - no gap, no repetition, no *)
(* reordering, whatever happens to the connection and however the replies  *)
(* are cut.  While the connection is up nothing is missing either: the     *)
(* rest is still in deletedList.                                           *)
(***************************************************************************)
ReceivedIsPrefix ==
  LET delivered == received \o FlattenSeq(wire) IN
  /\ IsPrefix(delivered, stabilised)
  /\ conn = "up" => stabilised = delivered \o Undelivered

\* The labels of m that processQ has not inserted yet.
ToInsert == IF pc = "insert" THEN SubSeq(pMsg.labels, n, Len(pMsg.labels))
                             ELSE <<>>

\* Labels the thread has been given and has not moved to deletedList.
Unstable ==
  ToSet(m_storage) \cup ToSet(ToInsert)
    \cup UNION {ToSet(m_ptrComQ[i].labels) : i \in 1..Len(m_ptrComQ)}

(***************************************************************************)
(* InsertBatchLabels and DeletePossibleLabels lose no label and duplicate  *)
(* none: every label sent is in the queue, in the message being inserted,  *)
(* in m_storage or among the stable ones, and m_storage and the stable     *)
(* labels hold each at most once.                                          *)
(***************************************************************************)
NoLabelLost ==
  LET kept == m_storage \o stabilised IN
  /\ \A i, j \in 1..Len(kept) : kept[i].val = kept[j].val => i = j
  /\ \A p \in Senders : \A k \in 1..labelCount[p] :
       \E l \in Unstable \cup ToSet(stabilised) : l.val = <<p, k>>

(***************************************************************************)
(* Between two messages no stable label is withheld: whatever is still in  *)
(* m_storage is newer than some partition's heartbeat, and in map order.   *)
(***************************************************************************)
NothingStableWithheld ==
  /\ InTimestampOrder(m_storage)
  /\ pc \in {"deliver", "await", "report", "poll"} =>
       \A i \in 1..Len(m_storage) :
         m_storage[i].ts > GetStableTimestamp(m_heartbeat)

(***************************************************************************)
(* The stable timestamp never goes back, although UpdateHeartbeatTable     *)
(* overwrites a partition's heartbeat without comparing it.                *)
(***************************************************************************)
StableNeverRegresses ==
  [][GetStableTimestamp(m_heartbeat') >= GetStableTimestamp(m_heartbeat)]_vars

(***************************************************************************)
(* Of "it--" the process dies only in a message without labels: m_storage  *)
(* is drained again and again, but a message that carries a label never    *)
(* meets it empty in DeletePossibleLabels.  Otherwise it dies only of a    *)
(* write to a label receiver that is gone.                                 *)
(***************************************************************************)
DiesOnlyOnBrokenPipe ==
  pc = "dead" => conn \in {"closed", "unconnected"} \/ pMsg.labels = <<>>

(***************************************************************************)
(* processQ always gets there: a label that every partition's heartbeat    *)
(* has reached leaves the queue and m_storage, unless the process has      *)
(* died.  (Needs every registered partition to send.)                      *)
(***************************************************************************)
StableLabelsLeave ==
  \A p \in Senders, k \in 1..MaxLabels :
    (\E l \in Unstable :
       /\ l.val = <<p, k>>
       /\ \A q \in 1..ClientCount : q \in Senders /\ lastHeartbeat[q] >= l.ts)
      ~> (pc = "dead" \/ \A l \in Unstable : l.val # <<p, k>>)

(***************************************************************************)
(* At most DeliverySize stable labels are held back: k more than that, and *)
(* the first k reach the label receiver, unless it goes away.              *)
(***************************************************************************)
StableLabelsReachReceiver ==
  \A k \in 1..(ClientCount * MaxLabels) :
    Len(stabilised) >= k + DeliverySize ~> (Len(received) >= k \/ conn # "up")

-----------------------------------------------------------------------------
(* What StabilisedInOrder and DiesOnlyOnBrokenPipe rest on: with TypeOK,   *)
(* OrderInv is inductive, and so is StorageFilled (the Proofs modules).    *)

\* Message m breaks no promise made by a heartbeat of hb.
NotOlderThan(m, hb) ==
  /\ m.hb >= hb
  /\ \A j \in 1..Len(m.labels) : m.labels[j].ts >= hb

\* Vnodes keep their promises, in every place a message can be.
PromisesKept ==
  /\ \A p \in Senders : m_heartbeat[p] <= lastHeartbeat[p]
  /\ \A i \in 1..Len(m_ptrComQ) :
       /\ m_ptrComQ[i].hb <= lastHeartbeat[m_ptrComQ[i].pid]
       /\ NotOlderThan(m_ptrComQ[i], m_heartbeat[m_ptrComQ[i].pid])
  /\ \A i, j \in 1..Len(m_ptrComQ) :
       i < j /\ m_ptrComQ[i].pid = m_ptrComQ[j].pid =>
         NotOlderThan(m_ptrComQ[j], m_ptrComQ[i].hb)
  /\ pc = "insert" =>
       /\ pMsg.hb <= lastHeartbeat[pMsg.pid]
       /\ NotOlderThan(pMsg, m_heartbeat[pMsg.pid])
       /\ \A i \in 1..Len(m_ptrComQ) :
            m_ptrComQ[i].pid = pMsg.pid => NotOlderThan(m_ptrComQ[i], pMsg.hb)

\* Stable labels are below every heartbeat and below all that may follow.
StableBelowTheRest ==
  /\ \A i \in 1..Len(stabilised) :
       /\ \A q \in 1..ClientCount : stabilised[i].ts <= m_heartbeat[q]
       /\ \A j \in 1..Len(m_storage) : stabilised[i].ts <= m_storage[j].ts
  /\ InTimestampOrder(m_storage)

OrderInv == PromisesKept /\ StableBelowTheRest /\ StabilisedInOrder

\* While a message's labels are inserted, the first of them is in m_storage.
StorageFilled == pc = "insert" /\ n > 1 => m_storage # <<>>

-----------------------------------------------------------------------------
(* What NoLabelLost and the refinement below rest on: with TypeOK and      *)
(* OrderInv, LabelInv is inductive.  Numbers order a partition's labels as *)
(* they were sent, and they keep that order in every place a label passes. *)

\* Where a partition has labels in both, those of S were sent before T's.
SentBefore(S, T) ==
  \A k \in S, l \in T : k.val[1] = l.val[1] => k.val[2] < l.val[2]

NumbersAscend(ls) ==
  \A i, j \in 1..Len(ls) : i < j => SentBefore({ls[i]}, {ls[j]})

\* Labels sent; those in the i-th message of the queue; those inserted.
SentLabels == Unstable \cup ToSet(stabilised)

Queued(i) == ToSet(m_ptrComQ[i].labels)

Inserted == ToSet(m_storage) \cup ToSet(stabilised)

\* Every label has a number its partition has given, within the bounds.
LabelsNumbered ==
  /\ \A p \in Senders : labelCount[p] <= MaxLabels
  /\ \A l \in SentLabels :
       l.ts <= MaxTimestamp /\ l.val[2] \in 1..labelCount[l.val[1]]

\* Labels pass the queue, pMsg and m_storage in the order of their numbers.
NumbersInOrder ==
  /\ \A i \in 1..Len(m_ptrComQ) :
       /\ NumbersAscend(m_ptrComQ[i].labels)
       /\ SentBefore(Inserted \cup ToSet(ToInsert), Queued(i))
  /\ \A i, j \in 1..Len(m_ptrComQ) : i < j => SentBefore(Queued(i), Queued(j))
  /\ pc = "insert" => NumbersAscend(pMsg.labels)
  /\ SentBefore(Inserted, ToSet(ToInsert))

\* m_storage and the stable labels hold no label twice, and equal timestamps
\* of one partition stand in m_storage as they were sent.
InsertedOnce ==
  /\ \A i, j \in 1..Len(m_storage) :
       i < j =>
         /\ m_storage[i].val # m_storage[j].val
         /\ m_storage[i].ts = m_storage[j].ts =>
              SentBefore({m_storage[i]}, {m_storage[j]})
  /\ \A i, j \in 1..Len(stabilised) :
       i < j => stabilised[i].val # stabilised[j].val
  /\ \A i \in 1..Len(m_storage), j \in 1..Len(stabilised) :
       m_storage[i].val # stabilised[j].val

\* A partition nobody sends for keeps the heartbeat SetClientCount gave it.
SilentPartitions == \A q \in (1..ClientCount) \ Senders : m_heartbeat[q] = 0

\* Every number given is the number of a label that is still there.
NumbersKept ==
  \A p \in Senders : \A k \in 1..labelCount[p] :
    \E l \in SentLabels : l.val = <<p, k>>

LabelInv ==
  LabelsNumbered /\ NumbersInOrder /\ InsertedOnce /\ SilentPartitions
    /\ NumbersKept

-----------------------------------------------------------------------------
(***************************************************************************)
(* processQ implements stable ordered delivery: sent is what the thread    *)
(* has been given, wherever it is by now, and a label is released when it  *)
(* leaves m_storage.  A partition nobody sends for has promised nothing.   *)
(***************************************************************************)
Service == INSTANCE OrderedDelivery WITH
             Partitions <- 1..ClientCount,
             Promises <- 0..MaxTimestamp,
             Labels <- [ts : 0..MaxTimestamp,
                        val : Senders \X (1..MaxLabels)],
             sent <- SentLabels,
             promise <- [p \in 1..ClientCount |->
                           IF p \in Senders THEN lastHeartbeat[p] ELSE 0],
             released <- stabilised

ImplementsOrderedDelivery == Service!Spec
=============================================================================
