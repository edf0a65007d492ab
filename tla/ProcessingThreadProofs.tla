----------------------- MODULE ProcessingThreadProofs -----------------------
(***************************************************************************)
(* What is proved about module ProcessingThread for every number of        *)
(* partitions, every timestamp and every interleaving.  OrderInv is the    *)
(* inductive invariant: a vnode's promises hold for every message it has   *)
(* on its way, so nothing that will still be inserted is older than the    *)
(* labels that are stable already.                                         *)
(*                                                                         *)
(* Then: that processQ withholds no stable label, when it dies, and that   *)
(* the label receiver gets a prefix of the stable order.  The last one     *)
(* needs what FlattenSeq does to a sequence of batches of any length.  It  *)
(* is defined by recursion; in place of an induction, the proofs take the  *)
(* least index at which a claim fails.                                     *)
(***************************************************************************)
EXTENDS ProcessingThread, SequenceTheorems, WellFoundedInduction, TLAPS

\* The community module's Min of a set of naturals is its least element.
LEMMA MinIsLeast ==
  ASSUME NEW S \in SUBSET Nat, S # {}
  PROVE  Min(S) \in S /\ \A y \in S : Min(S) <= y
<1> DEFINE R == OpToRel(<, Nat)
<1>1. \A x, y \in Nat : <<y, x>> \notin R => x <= y
  <2>1. \A x, y \in Nat : y < x => <<y, x>> \in R
    BY DEF OpToRel
  <2> HIDE DEF R
  <2> QED BY <2>1
<1>2. IsWellFoundedOn(R, Nat)
  BY NatLessThanWellFounded, Zenon
<1> HIDE DEF R
<1>3. \E x \in S : \A y \in S : ~(<<y, x>> \in R)
  BY <1>2, WFMin
<1>4. \E x \in S : \A y \in S : x <= y
  BY <1>1, <1>3
<1> QED BY <1>4 DEF Min

\* FirstAbove is where a walk along s stops: nothing before it is above t,
\* and the element it stops at is.
LEMMA FirstAboveStops ==
  ASSUME NEW s \in Seq(Label), NEW t \in Nat
  PROVE  /\ FirstAbove(s, t) \in 1..(Len(s) + 1)
         /\ \A i \in 1..(FirstAbove(s, t) - 1) : s[i].ts <= t
         /\ FirstAbove(s, t) <= Len(s) => s[FirstAbove(s, t)].ts > t
<1> DEFINE S == {i \in 1..Len(s) : s[i].ts > t} \cup {Len(s) + 1}
<1>0. Len(s) \in Nat /\ \A i \in 1..Len(s) : s[i].ts \in Nat
  <2>1. \A i \in 1..Len(s) : s[i] \in Label
    BY ElementOfSeq
  <2>2. Len(s) \in Nat
    BY LenProperties
  <2> QED BY <2>1, <2>2 DEF Label
<1>1. S \in SUBSET Nat /\ S # {}
  BY <1>0
<1> HIDE DEF S
<1>2. Min(S) \in S /\ \A y \in S : Min(S) <= y
  BY <1>1, MinIsLeast
<1> USE DEF S
<1>3. FirstAbove(s, t) = Min(S)
  BY DEF FirstAbove
<1>4. \A i \in 1..(Min(S) - 1) : s[i].ts <= t
  BY <1>0, <1>2
<1> QED BY <1>0, <1>2, <1>3, <1>4

\* multimap::insert: one label more, each where the definition puts it.
LEMMA MultimapInsertIsSeq ==
  ASSUME NEW s \in Seq(Label), NEW l \in Label
  PROVE  /\ MultimapInsert(s, l) \in Seq(Label)
         /\ Len(MultimapInsert(s, l)) = Len(s) + 1
         /\ \A i \in 1..(Len(s) + 1) :
              MultimapInsert(s, l)[i] =
                IF i < FirstAbove(s, l.ts) THEN s[i]
                ELSE IF i = FirstAbove(s, l.ts) THEN l ELSE s[i - 1]
<1>0. /\ Len(s) \in Nat /\ s \in [1..Len(s) -> Label]
      /\ FirstAbove(s, l.ts) \in 1..(Len(s) + 1)
  BY LenProperties, FirstAboveStops DEF Label
<1>1. MultimapInsert(s, l) \in [1..(Len(s) + 1) -> Label]
  BY <1>0 DEF MultimapInsert
<1>2. MultimapInsert(s, l) \in Seq(Label)
  BY <1>0, <1>1, SeqDef
<1> QED BY <1>0, <1>1, <1>2, LenProperties DEF MultimapInsert

\* GetStableTimestamp is a lower bound of all heartbeats, and one of them.
LEMMA StableIsLeast ==
  ASSUME NEW h \in [1..ClientCount -> Nat]
  PROVE  /\ GetStableTimestamp(h) \in Nat
         /\ \A q \in 1..ClientCount : GetStableTimestamp(h) <= h[q]
         /\ \E q \in 1..ClientCount : GetStableTimestamp(h) = h[q]
<1> DEFINE S == {h[q] : q \in DOMAIN h}
<1>1. S \in SUBSET Nat /\ S # {}
  BY ConstantsAssumption
<1> HIDE DEF S
<1>2. Min(S) \in S /\ \A y \in S : Min(S) <= y
  BY <1>1, MinIsLeast
<1> USE DEF S
<1> QED BY <1>1, <1>2 DEF GetStableTimestamp
-----------------------------------------------------------------------------
(* Type correctness.                                                       *)

\* The message a vnode puts into the queue is a message.
LEMMA SentMessage ==
  ASSUME TypeOK, NEW p \in Senders, NEW hb \in 0..MaxTimestamp,
         NEW len \in MinBatch..MaxBatch,
         NEW stamps \in [1..len -> 0..MaxTimestamp]
  PROVE  /\ stamps \in Seq(0..MaxTimestamp)
         /\ Len(stamps) = len
         /\ len \in Nat
         /\ [i \in 1..Len(stamps) |->
               [ts |-> stamps[i], val |-> <<p, labelCount[p] + i>>]]
              \in Seq(Label)
         /\ Len([i \in 1..Len(stamps) |->
               [ts |-> stamps[i], val |-> <<p, labelCount[p] + i>>]]) = len
<1> DEFINE ls == [i \in 1..Len(stamps) |->
                    [ts |-> stamps[i], val |-> <<p, labelCount[p] + i>>]]
<1>1. len \in Nat /\ MaxTimestamp \in Nat
  BY ConstantsAssumption
<1>2. stamps \in Seq(0..MaxTimestamp) /\ Len(stamps) = len
  BY <1>1, SeqDef, LenProperties
<1>3. labelCount[p] \in Nat
  BY DEF TypeOK
<1>4. ls \in [1..len -> Label]
  BY <1>1, <1>2, <1>3 DEF Label
<1>5. ls \in Seq(Label) /\ Len(ls) = len
  BY <1>1, <1>4, SeqDef, LenProperties
<1> QED BY <1>1, <1>2, <1>5

\* The labels DeletePossibleLabels removes and keeps, and their number.
LEMMA CutStorage ==
  ASSUME NEW s \in Seq(Label), NEW t \in Nat
  PROVE  LET it == FirstAbove(s, t) IN
         /\ it \in 1..(Len(s) + 1)
         /\ SubSeq(s, 1, it - 1) \in Seq(Label)
         /\ Len(SubSeq(s, 1, it - 1)) = it - 1
         /\ \A i \in 1..(it - 1) : SubSeq(s, 1, it - 1)[i] = s[i]
         /\ SubSeq(s, it, Len(s)) \in Seq(Label)
         /\ Len(SubSeq(s, it, Len(s))) = Len(s) - it + 1
         /\ \A i \in 1..(Len(s) - it + 1) :
              SubSeq(s, it, Len(s))[i] = s[it + i - 1]
<1> DEFINE it == FirstAbove(s, t)
<1>1. it \in 1..(Len(s) + 1)
  BY FirstAboveStops
<1>2. Len(s) \in Nat /\ \A i \in 1..Len(s) : s[i] \in Label
  BY LenProperties, ElementOfSeq
<1> HIDE DEF it
<1>3. \A i \in 1..(it - 1) : s[i] \in Label
  BY <1>1, <1>2
<1>4. \A i \in it..Len(s) : s[i] \in Label
  BY <1>1, <1>2
<1>5. /\ SubSeq(s, 1, it - 1) \in Seq(Label)
      /\ Len(SubSeq(s, 1, it - 1)) = it - 1
      /\ \A i \in 1..(it - 1) : SubSeq(s, 1, it - 1)[i] = s[i]
  <2>1. it - 1 \in Int /\ 1 \in Int
    BY <1>1, <1>2
  <2>2. /\ SubSeq(s, 1, it - 1) \in Seq(Label)
        /\ Len(SubSeq(s, 1, it - 1))
             = IF 1 <= it - 1 THEN it - 1 - 1 + 1 ELSE 0
        /\ \A i \in 1..(it - 1 - 1 + 1) :
             SubSeq(s, 1, it - 1)[i] = s[1 + i - 1]
    BY ONLY <2>1, <1>3, SubSeqProperties
  <2> QED BY <2>2, <1>1, <1>2
<1>6. /\ SubSeq(s, it, Len(s)) \in Seq(Label)
      /\ Len(SubSeq(s, it, Len(s))) = Len(s) - it + 1
      /\ \A i \in 1..(Len(s) - it + 1) :
           SubSeq(s, it, Len(s))[i] = s[it + i - 1]
  <2>1. it \in Int /\ Len(s) \in Int
    BY <1>1, <1>2
  <2>2. /\ SubSeq(s, it, Len(s)) \in Seq(Label)
        /\ Len(SubSeq(s, it, Len(s)))
             = IF it <= Len(s) THEN Len(s) - it + 1 ELSE 0
        /\ \A i \in 1..(Len(s) - it + 1) :
             SubSeq(s, it, Len(s))[i] = s[it + i - 1]
    BY ONLY <2>1, <1>4, SubSeqProperties
  <2> QED BY <2>2, <1>1, <1>2
<1> QED BY <1>1, <1>5, <1>6 DEF it

\* The heartbeat table keeps its keys: a message's partition is registered.
LEMMA TableUpdate ==
  ASSUME TypeOK, pMsg \in ReceivedMessage
  PROVE  LET h == UpdateHeartbeatTable(m_heartbeat, pMsg.pid, pMsg.hb) IN
         /\ h \in [1..ClientCount -> Nat]
         /\ h[pMsg.pid] = pMsg.hb
         /\ \A q \in 1..ClientCount : q # pMsg.pid => h[q] = m_heartbeat[q]
         /\ GetStableTimestamp(h) \in Nat
<1>1. pMsg.pid \in 1..ClientCount /\ pMsg.hb \in Nat
  BY ConstantsAssumption DEF ReceivedMessage
<1>2. m_heartbeat \in [1..ClientCount -> Nat]
  BY DEF TypeOK
<1>3. UpdateHeartbeatTable(m_heartbeat, pMsg.pid, pMsg.hb)
        \in [1..ClientCount -> Nat]
  BY <1>1, <1>2 DEF UpdateHeartbeatTable
<1> QED BY <1>1, <1>2, <1>3, StableIsLeast DEF UpdateHeartbeatTable

\* TypeOK holds at the start.
LEMMA TypeInit == Init => TypeOK
<1> SUFFICES ASSUME Init PROVE TypeOK
  OBVIOUS
<1>1. /\ m_ptrComQ \in Seq(ReceivedMessage)
      /\ m_storage \in Seq(Label) /\ deletedList \in Seq(Label)
      /\ wire \in Seq(Seq(Label)) /\ received \in Seq(Label)
      /\ stabilised \in Seq(Label)
  BY EmptySeq DEF Init
<1>2. conn \in ConnStates
  BY DEF Init, ConnStates
<1>3. m_heartbeat \in [1..ClientCount -> Nat]
      /\ lastHeartbeat \in [Senders -> Nat] /\ labelCount \in [Senders -> Nat]
  BY DEF Init
<1>4. messageCount \in Nat /\ m_processed \in Nat /\ n \in Nat \ {0}
  BY DEF Init
<1>5. reply \in Nat /\ pMsg \in ReceivedMessage \cup {NoMessage}
      /\ pc = "poll"
  BY Zenon DEF Init
<1> QED BY <1>1, <1>2, <1>3, <1>4, <1>5 DEF TypeOK

\* Every step of a vnode, of processQ or of the label receiver keeps TypeOK.
LEMMA TypeNext == TypeOK /\ [Next]_vars => TypeOK'
<1> SUFFICES ASSUME TypeOK, [Next]_vars PROVE TypeOK'
  OBVIOUS
<1> USE DEF vnodeVars, connVars
<1>1. CASE Vnodes
  <2>1. PICK p \in Senders, hb \in 0..MaxTimestamp, len \in MinBatch..MaxBatch :
          \E stamps \in [1..len -> 0..MaxTimestamp] : Send(p, hb, stamps)
    BY <1>1 DEF Vnodes
  <2>2. PICK stamps \in [1..len -> 0..MaxTimestamp] : Send(p, hb, stamps)
    BY <2>1
  <2> DEFINE ls == [i \in 1..Len(stamps) |->
                      [ts |-> stamps[i], val |-> <<p, labelCount[p] + i>>]]
             m == [pid |-> p, hb |-> hb, labels |-> ls]
  <2>3. Len(stamps) \in Nat /\ ls \in Seq(Label) /\ hb \in Nat
    <3>1. Len(stamps) = len /\ len \in Nat /\ ls \in Seq(Label)
      BY SentMessage
    <3>2. hb \in Nat
      BY ConstantsAssumption
    <3> QED BY <3>1, <3>2
  <2>4. m_ptrComQ' = Append(m_ptrComQ, m)
    BY <2>2 DEF Send, NewMessage
  <2> HIDE DEF ls
  <2>5. m \in ReceivedMessage
    BY <2>3 DEF ReceivedMessage
  <2> HIDE DEF m
  <2>6. m_ptrComQ' \in Seq(ReceivedMessage)
    BY <2>4, <2>5, AppendProperties DEF TypeOK
  <2>7. lastHeartbeat' \in [Senders -> Nat] /\ labelCount' \in [Senders -> Nat]
    BY <2>2, <2>3 DEF Send, NewMessage, TypeOK
  <2> QED BY <2>2, <2>6, <2>7 DEF Send, NewMessage, TypeOK
<1>2. CASE TakeMessage
  <2>1. Head(m_ptrComQ) \in ReceivedMessage
        /\ Tail(m_ptrComQ) \in Seq(ReceivedMessage)
    BY <1>2, HeadTailProperties DEF TakeMessage, TypeOK
  <2> QED BY <1>2, <2>1 DEF TakeMessage, TypeOK
<1>3. CASE InsertBatchLabels
  <2>1. pMsg.labels \in Seq(Label)
    BY <1>3 DEF InsertBatchLabels, TypeOK, ReceivedMessage
  <2>2. n \in 1..Len(pMsg.labels)
    BY <1>3, <2>1, LenProperties DEF InsertBatchLabels, TypeOK
  <2>3. pMsg.labels[n] \in Label
    BY <2>1, <2>2, ElementOfSeq
  <2>4. m_storage' \in Seq(Label)
    BY <1>3, <2>3, MultimapInsertIsSeq DEF InsertBatchLabels, TypeOK
  <2> QED BY <1>3, <2>4 DEF InsertBatchLabels, TypeOK
<1>4. CASE Stabilise
  <2>1. pMsg \in ReceivedMessage
    BY <1>4 DEF Stabilise, TypeOK
  <2>2. m_heartbeat' \in [1..ClientCount -> Nat]
        /\ GetStableTimestamp(m_heartbeat') \in Nat
    BY <1>4, <2>1, TableUpdate DEF Stabilise
  <2> DEFINE it == FirstAbove(m_storage, GetStableTimestamp(m_heartbeat'))
             removed == SubSeq(m_storage, 1, it - 1)
  <2>3. /\ it \in 1..(Len(m_storage) + 1)
        /\ removed \in Seq(Label)
        /\ SubSeq(m_storage, it, Len(m_storage)) \in Seq(Label)
    BY <2>2, CutStorage DEF TypeOK
  <2>4. /\ deletedList' = deletedList \o removed
        /\ stabilised' = stabilised \o removed
        /\ m_processed' = m_processed + (it - 1)
        /\ m_storage' = SubSeq(m_storage, it, Len(m_storage))
    BY <1>4 DEF Stabilise, DeletePossibleLabels
  <2> HIDE DEF removed, it
  <2>5. deletedList' \in Seq(Label) /\ stabilised' \in Seq(Label)
    BY <2>3, <2>4, ConcatProperties DEF TypeOK
  <2>6. m_processed' \in Nat
    BY <2>3, <2>4, LenProperties DEF TypeOK
  <2> QED BY <1>4, <2>2, <2>3, <2>4, <2>5, <2>6 DEF Stabilise, TypeOK
<1>5. CASE SkipDelivery
  BY <1>5 DEF SkipDelivery, TypeOK
<1>6. CASE WriteBatch
  <2>1. Append(wire, deletedList) \in Seq(Seq(Label))
    BY AppendProperties DEF TypeOK
  <2> QED BY <1>6, <2>1 DEF WriteBatch, TypeOK
<1>7. CASE ReadReply
  BY <1>7, EmptySeq DEF ReadReply, TypeOK
<1>8. CASE Report
  BY <1>8 DEF Report, TypeOK
<1>9. CASE ReceiverReplies
  <2>1. Head(wire) \in Seq(Label) /\ Tail(wire) \in Seq(Seq(Label))
    BY <1>9, HeadTailProperties DEF ReceiverReplies, TypeOK
  <2>2. received \o Head(wire) \in Seq(Label)
    BY <2>1, ConcatProperties DEF TypeOK
  <2>3. reply' \in Nat
    BY <1>9, ConstantsAssumption DEF ReceiverReplies, TypeOK
  <2> QED BY <1>9, <2>1, <2>2, <2>3 DEF ReceiverReplies, TypeOK
<1>10. CASE ReceiverCloses
  BY <1>10, EmptySeq DEF ReceiverCloses, TypeOK, ConnStates
<1>11. CASE UNCHANGED vars
  BY <1>11 DEF vars, TypeOK
<1> QED
  BY <1>1, <1>2, <1>3, <1>4, <1>5, <1>6, <1>7, <1>8, <1>9, <1>10, <1>11
     DEF Next, Processor

\* processQ keeps the types of its variables: the heartbeat table never gets a
\* partition SetClientCount has not registered, m_storage holds labels only.
THEOREM TypeCorrect == Spec => []TypeOK
<1>1. Init => TypeOK
  BY TypeInit
<1>2. TypeOK /\ [Next]_vars => TypeOK'
  BY TypeNext
<1> QED BY <1>1, <1>2, PTL DEF Spec
-----------------------------------------------------------------------------
(* Labels are stabilised in timestamp order.                               *)

\* multimap::insert keeps the map sorted and adds nothing but the label.
LEMMA InsertKeepsOrder ==
  ASSUME NEW s \in Seq(Label), NEW l \in Label, InTimestampOrder(s)
  PROVE  /\ InTimestampOrder(MultimapInsert(s, l))
         /\ \A i \in 1..Len(MultimapInsert(s, l)) :
              \/ MultimapInsert(s, l)[i] = l
              \/ \E j \in 1..Len(s) : MultimapInsert(s, l)[i] = s[j]
<1> DEFINE r == MultimapInsert(s, l)
           k == FirstAbove(s, l.ts)
<1>1. /\ Len(s) \in Nat /\ l.ts \in Nat
      /\ \A i \in 1..Len(s) : s[i].ts \in Nat
  <2>1. \A i \in 1..Len(s) : s[i] \in Label
    BY ElementOfSeq
  <2> QED BY <2>1, LenProperties DEF Label
<1>2. /\ k \in 1..(Len(s) + 1)
      /\ \A i \in 1..(k - 1) : s[i].ts <= l.ts
      /\ k <= Len(s) => s[k].ts > l.ts
  BY <1>1, FirstAboveStops
<1>3. /\ Len(r) = Len(s) + 1
      /\ \A i \in 1..(Len(s) + 1) :
           r[i] = IF i < k THEN s[i] ELSE IF i = k THEN l ELSE s[i - 1]
  BY MultimapInsertIsSeq
<1> HIDE DEF r, k
<1>4. \A i, j \in 1..Len(s) : i < j => s[i].ts <= s[j].ts
  BY DEF InTimestampOrder
<1>5. ASSUME NEW i \in 1..Len(r), NEW j \in 1..Len(r), i < j
      PROVE  r[i].ts <= r[j].ts
  <2>1. CASE j < k
    <3>1. r[i] = s[i] /\ r[j] = s[j]
      BY <1>1, <1>2, <1>3, <1>5, <2>1
    <3> QED BY <3>1, <1>1, <1>2, <1>3, <1>4, <1>5, <2>1
  <2>2. CASE j = k
    <3>1. r[i] = s[i] /\ r[j] = l
      BY <1>1, <1>2, <1>3, <1>5, <2>2
    <3> QED BY <3>1, <1>1, <1>2, <1>3, <1>5, <2>2
  <2>3. CASE j > k
    <3>1. r[j] = s[j - 1] /\ j - 1 \in 1..Len(s) /\ k <= j - 1
      BY <1>1, <1>2, <1>3, <1>5, <2>3
    <3>2. s[k].ts <= s[j - 1].ts /\ k \in 1..Len(s) /\ s[k].ts > l.ts
      BY <3>1, <1>1, <1>2, <1>4
    <3>3. CASE i < k
      BY <3>1, <3>3, <1>1, <1>2, <1>3, <1>4, <1>5
    <3>4. CASE i = k
      BY <3>1, <3>2, <3>4, <1>1, <1>2, <1>3
    <3>5. CASE i > k
      <4>1. r[i] = s[i - 1] /\ i - 1 \in 1..Len(s) /\ i - 1 < j - 1
        BY <3>5, <1>1, <1>2, <1>3, <1>5
      <4> QED BY <4>1, <3>1, <1>1, <1>4
    <3> QED BY <3>3, <3>4, <3>5, <1>2
  <2> QED BY <2>1, <2>2, <2>3, <1>1, <1>2, <1>3
<1>6. ASSUME NEW i \in 1..Len(r)
      PROVE  r[i] = l \/ \E j \in 1..Len(s) : r[i] = s[j]
  <2>1. CASE i < k
    BY <2>1, <1>1, <1>2, <1>3
  <2>2. CASE i = k
    BY <2>2, <1>1, <1>2, <1>3
  <2>3. CASE i > k
    <3>1. r[i] = s[i - 1] /\ i - 1 \in 1..Len(s)
      BY <2>3, <1>1, <1>2, <1>3
    <3> QED BY <3>1
  <2> QED BY <2>1, <2>2, <2>3, <1>1, <1>2, <1>3
<1>7. InTimestampOrder(r)
  BY <1>5 DEF InTimestampOrder
<1> QED BY <1>6, <1>7 DEF r

\* The inductive invariant holds at the start.
LEMMA OrderInit == Init => OrderInv
<1> SUFFICES ASSUME Init PROVE OrderInv
  OBVIOUS
<1>1. Len(m_ptrComQ) = 0 /\ Len(m_storage) = 0 /\ Len(stabilised) = 0
  BY EmptySeq DEF Init
<1>2. \A p \in Senders : m_heartbeat[p] <= lastHeartbeat[p]
  BY ConstantsAssumption DEF Init
<1>3. pc # "insert"
  BY DEF Init
<1> QED
  BY <1>1, <1>2, <1>3
     DEF OrderInv, PromisesKept, StableBelowTheRest, StabilisedInOrder,
         InTimestampOrder

\* Types of what the ordering argument compares.
LEMMA TimestampTypes ==
  ASSUME TypeOK
  PROVE  /\ \A p \in Senders : p \in 1..ClientCount /\ lastHeartbeat[p] \in Nat
         /\ \A q \in 1..ClientCount : m_heartbeat[q] \in Nat
         /\ Len(m_ptrComQ) \in Nat
         /\ \A i \in 1..Len(m_ptrComQ) :
              /\ m_ptrComQ[i] \in ReceivedMessage
              /\ m_ptrComQ[i].pid \in Senders
              /\ m_ptrComQ[i].hb \in Nat
              /\ Len(m_ptrComQ[i].labels) \in Nat
              /\ \A j \in 1..Len(m_ptrComQ[i].labels) :
                   m_ptrComQ[i].labels[j].ts \in Nat
         /\ Len(m_storage) \in Nat
         /\ \A i \in 1..Len(m_storage) : m_storage[i].ts \in Nat
         /\ Len(stabilised) \in Nat
         /\ \A i \in 1..Len(stabilised) : stabilised[i].ts \in Nat
<1>1. \A ls \in Seq(Label) : Len(ls) \in Nat /\ \A i \in 1..Len(ls) : ls[i].ts \in Nat
  <2> SUFFICES ASSUME NEW ls \in Seq(Label)
               PROVE  Len(ls) \in Nat /\ \A i \in 1..Len(ls) : ls[i].ts \in Nat
    OBVIOUS
  <2>1. \A i \in 1..Len(ls) : ls[i] \in Label
    BY ElementOfSeq
  <2> QED BY <2>1, LenProperties DEF Label
<1>2. \A i \in 1..Len(m_ptrComQ) : m_ptrComQ[i] \in ReceivedMessage
  BY ElementOfSeq DEF TypeOK
<1>3. Len(m_ptrComQ) \in Nat
  BY LenProperties DEF TypeOK
<1>4. \A i \in 1..Len(m_ptrComQ) :
        /\ m_ptrComQ[i].pid \in Senders
        /\ m_ptrComQ[i].hb \in Nat
        /\ m_ptrComQ[i].labels \in Seq(Label)
  BY <1>2 DEF ReceivedMessage
<1>5. \A p \in Senders : p \in 1..ClientCount /\ lastHeartbeat[p] \in Nat
  BY ConstantsAssumption DEF TypeOK
<1>6. \A q \in 1..ClientCount : m_heartbeat[q] \in Nat
  BY DEF TypeOK
<1>7. m_storage \in Seq(Label) /\ stabilised \in Seq(Label)
  BY DEF TypeOK
<1> QED BY <1>1, <1>2, <1>3, <1>4, <1>5, <1>6, <1>7

\* The same for the message being processed.
LEMMA MessageTypes ==
  ASSUME TypeOK, pc = "insert"
  PROVE  /\ pMsg \in ReceivedMessage
         /\ pMsg.pid \in Senders /\ pMsg.pid \in 1..ClientCount
         /\ pMsg.hb \in Nat
         /\ pMsg.labels \in Seq(Label)
         /\ Len(pMsg.labels) \in Nat
         /\ \A j \in 1..Len(pMsg.labels) :
              pMsg.labels[j] \in Label /\ pMsg.labels[j].ts \in Nat
<1>1. pMsg \in ReceivedMessage
  BY DEF TypeOK
<1>2. pMsg.pid \in Senders /\ pMsg.hb \in Nat /\ pMsg.labels \in Seq(Label)
  BY <1>1 DEF ReceivedMessage
<1>3. \A j \in 1..Len(pMsg.labels) : pMsg.labels[j] \in Label
  BY <1>2, ElementOfSeq
<1>4. Len(pMsg.labels) \in Nat
  BY <1>2, LenProperties
<1> QED BY <1>1, <1>2, <1>3, <1>4, ConstantsAssumption DEF Label
\* A new message keeps its sender's promises, and the older ones stand.
LEMMA SendKeepsOrder ==
  ASSUME TypeOK, OrderInv, Vnodes
  PROVE  OrderInv'
<1>1. PICK p \in Senders, hb \in 0..MaxTimestamp, len \in MinBatch..MaxBatch :
        \E stamps \in [1..len -> 0..MaxTimestamp] : Send(p, hb, stamps)
  BY DEF Vnodes
<1>2. PICK stamps \in [1..len -> 0..MaxTimestamp] : Send(p, hb, stamps)
  BY <1>1
<1> DEFINE ls == [i \in 1..Len(stamps) |->
                    [ts |-> stamps[i], val |-> <<p, labelCount[p] + i>>]]
           m == [pid |-> p, hb |-> hb, labels |-> ls]
           last == lastHeartbeat
           q == m_ptrComQ
<1>3. /\ Len(stamps) = len /\ len \in Nat
      /\ ls \in Seq(Label) /\ Len(ls) = len
  BY SentMessage
<1>4. hb \in Nat /\ \A j \in 1..len : stamps[j] \in Nat
  BY ConstantsAssumption
<1>5. hb >= last[p] /\ \A j \in 1..len : stamps[j] >= last[p]
  BY <1>2, <1>3 DEF Send, NewMessage
<1>6. q' = Append(q, m)
  BY <1>2 DEF Send, NewMessage
<1>7. last' = [last EXCEPT ![p] = hb] /\ last \in [Senders -> Nat]
  BY <1>2 DEF Send, NewMessage, TypeOK
<1>8. UNCHANGED <<pc, pMsg, m_heartbeat, m_storage, stabilised>>
  BY <1>2 DEF Send, NewMessage
<1>9. \A j \in 1..len : ls[j].ts = stamps[j]
  BY <1>3
<1> HIDE DEF ls
<1>10. /\ m \in ReceivedMessage
       /\ m.pid = p /\ m.hb = hb /\ Len(m.labels) = len
       /\ \A j \in 1..len : m.labels[j].ts = stamps[j]
  BY <1>3, <1>4, <1>9 DEF ReceivedMessage
<1> HIDE DEF m
<1>11. /\ Len(q') = Len(q) + 1
       /\ \A i \in 1..Len(q) : q'[i] = q[i]
       /\ q'[Len(q) + 1] = m
  BY <1>6, <1>10, AppendProperties DEF TypeOK
<1>12. /\ \A r \in Senders : last[r] \in Nat /\ last'[r] \in Nat /\ last[r] <= last'[r]
       /\ last'[p] = hb
  BY <1>4, <1>5, <1>7
<1>13. \A b \in Nat : b <= last[p] => NotOlderThan(m, b)
  BY <1>4, <1>5, <1>10, <1>12 DEF NotOlderThan
<1>14. StableBelowTheRest' /\ StabilisedInOrder'
  BY <1>8 DEF OrderInv, StableBelowTheRest, StabilisedInOrder, InTimestampOrder
<1>15. \A r \in Senders : m_heartbeat'[r] <= last'[r]
  BY <1>8, <1>12, TimestampTypes DEF OrderInv, PromisesKept
<1>16. ASSUME NEW i \in 1..Len(q')
       PROVE  /\ q'[i].hb <= last'[q'[i].pid]
              /\ NotOlderThan(q'[i], m_heartbeat'[q'[i].pid])
  <2>1. CASE i = Len(q) + 1
    <3>1. m_heartbeat[p] \in Nat /\ m_heartbeat[p] <= last[p]
      BY TimestampTypes DEF OrderInv, PromisesKept
    <3>2. NotOlderThan(m, m_heartbeat[p])
      BY <3>1, <1>13
    <3> QED BY <2>1, <3>2, <1>4, <1>8, <1>10, <1>11, <1>12
  <2>2. CASE i \in 1..Len(q)
    <3>1. /\ q[i].hb <= last[q[i].pid]
          /\ NotOlderThan(q[i], m_heartbeat[q[i].pid])
      BY <2>2 DEF OrderInv, PromisesKept
    <3> QED BY <2>2, <3>1, <1>8, <1>11, <1>12, TimestampTypes, SMTT(30)
  <2> QED BY <2>1, <2>2, <1>11, TimestampTypes
<1>17. ASSUME NEW i \in 1..Len(q'), NEW j \in 1..Len(q'),
              i < j, q'[i].pid = q'[j].pid
       PROVE  NotOlderThan(q'[j], q'[i].hb)
  <2>0. i \in 1..Len(q) /\ q'[i] = q[i]
    BY <1>11, <1>17, TimestampTypes
  <2>1. CASE j = Len(q) + 1
    <3>1. q[i].pid = p /\ q[i].hb \in Nat /\ q[i].hb <= last[p]
      BY <2>0, <2>1, <1>10, <1>11, <1>17, TimestampTypes
         DEF OrderInv, PromisesKept
    <3> QED BY <2>0, <2>1, <3>1, <1>11, <1>13
  <2>2. CASE j \in 1..Len(q)
    BY <2>0, <2>2, <1>11, <1>17 DEF OrderInv, PromisesKept
  <2> QED BY <2>1, <2>2, <1>11, TimestampTypes
<1>18. ASSUME pc' = "insert"
       PROVE  /\ pMsg'.hb <= last'[pMsg'.pid]
              /\ NotOlderThan(pMsg', m_heartbeat'[pMsg'.pid])
              /\ \A i \in 1..Len(q') :
                   q'[i].pid = pMsg'.pid => NotOlderThan(q'[i], pMsg'.hb)
  <2>1. pc = "insert"
    BY <1>8, <1>18
  <2>2. pMsg.hb \in Nat /\ pMsg.pid \in Senders
    BY <2>1, MessageTypes
  <2>3. /\ pMsg.hb <= last[pMsg.pid]
        /\ NotOlderThan(pMsg, m_heartbeat[pMsg.pid])
        /\ \A i \in 1..Len(q) :
             q[i].pid = pMsg.pid => NotOlderThan(q[i], pMsg.hb)
    BY <2>1 DEF OrderInv, PromisesKept
  <2>4. pMsg.hb <= last'[pMsg.pid]
    BY <2>2, <2>3, <1>12
  <2>5. ASSUME NEW i \in 1..Len(q'), q'[i].pid = pMsg.pid
        PROVE  NotOlderThan(q'[i], pMsg.hb)
    <3>1. CASE i = Len(q) + 1
      BY <3>1, <2>2, <2>3, <2>5, <1>10, <1>11, <1>13
    <3>2. CASE i \in 1..Len(q)
      BY <3>2, <2>3, <2>5, <1>11
    <3> QED BY <3>1, <3>2, <1>11, TimestampTypes
  <2> QED BY <2>3, <2>4, <2>5, <1>8
<1>19. PromisesKept'
  BY <1>15, <1>16, <1>17, <1>18 DEF PromisesKept, NotOlderThan
<1> QED BY <1>14, <1>19 DEF OrderInv

\* PollFromConsumerQueue takes the oldest message, so promises carry over
\* from the queue to pMsg.
LEMMA TakeKeepsOrder ==
  ASSUME TypeOK, OrderInv, TakeMessage
  PROVE  OrderInv'
<1> DEFINE q == m_ptrComQ
<1>1. /\ q # <<>> /\ pMsg' = Head(q) /\ q' = Tail(q)
      /\ UNCHANGED <<lastHeartbeat, m_heartbeat, m_storage, stabilised>>
  BY DEF TakeMessage, vnodeVars
<1>2. q \in Seq(ReceivedMessage) /\ Len(q) \in Nat \ {0}
  BY <1>1, EmptySeq DEF TypeOK
<1>3. /\ pMsg' = q[1]
      /\ Len(q') = Len(q) - 1
      /\ \A i \in 1..Len(q') : q'[i] = q[i + 1]
  BY <1>1, <1>2, HeadTailProperties
<1>4. StableBelowTheRest' /\ StabilisedInOrder'
  BY <1>1 DEF OrderInv, StableBelowTheRest, StabilisedInOrder, InTimestampOrder
<1>5. \A i \in 1..Len(q') : i + 1 \in 1..Len(q) /\ 1 \in 1..Len(q) /\ 1 < i + 1
  BY <1>2, <1>3
<1>6. /\ \A p \in Senders : m_heartbeat'[p] <= lastHeartbeat'[p]
      /\ \A i \in 1..Len(q') :
           /\ q'[i].hb <= lastHeartbeat'[q'[i].pid]
           /\ NotOlderThan(q'[i], m_heartbeat'[q'[i].pid])
  BY <1>1, <1>3, <1>5 DEF OrderInv, PromisesKept
<1>7. ASSUME NEW i \in 1..Len(q'), NEW j \in 1..Len(q'),
             i < j, q'[i].pid = q'[j].pid
      PROVE  NotOlderThan(q'[j], q'[i].hb)
  <2>1. /\ i + 1 \in 1..Len(q) /\ j + 1 \in 1..Len(q) /\ i + 1 < j + 1
        /\ q'[i] = q[i + 1] /\ q'[j] = q[j + 1]
    BY <1>2, <1>3, <1>5, <1>7
  <2> QED BY <2>1, <1>7 DEF OrderInv, PromisesKept
<1>8. /\ pMsg'.hb <= lastHeartbeat'[pMsg'.pid]
      /\ NotOlderThan(pMsg', m_heartbeat'[pMsg'.pid])
  <2>1. 1 \in 1..Len(q)
    BY <1>2
  <2> QED BY <2>1, <1>1, <1>3 DEF OrderInv, PromisesKept
<1>9. \A i \in 1..Len(q') :
        q'[i].pid = pMsg'.pid => NotOlderThan(q'[i], pMsg'.hb)
  BY <1>3, <1>5 DEF OrderInv, PromisesKept
<1>10. PromisesKept'
  BY <1>6, <1>7, <1>8, <1>9 DEF PromisesKept, NotOlderThan
<1> QED BY <1>4, <1>10 DEF OrderInv
\* InsertBatchLabels: a label of pMsg is not older than its partition's
\* heartbeat, hence not older than any stable label.
LEMMA InsertKeepsOrderInv ==
  ASSUME TypeOK, OrderInv, InsertBatchLabels
  PROVE  OrderInv'
<1> DEFINE l == pMsg.labels[n]
<1>1. /\ pc = "insert" /\ pMsg.labels \in Seq(Label)
      /\ pMsg.pid \in 1..ClientCount
      /\ n \in 1..Len(pMsg.labels)
  BY MessageTypes DEF InsertBatchLabels, TypeOK
<1>2. l \in Label /\ l.ts \in Nat
  BY <1>1, MessageTypes
<1>3. /\ m_storage' = MultimapInsert(m_storage, l)
      /\ UNCHANGED <<lastHeartbeat, m_ptrComQ, pc, pMsg, m_heartbeat, stabilised>>
  BY DEF InsertBatchLabels, vnodeVars
<1>4. l.ts >= m_heartbeat[pMsg.pid]
  BY <1>1 DEF OrderInv, PromisesKept, NotOlderThan
<1> HIDE DEF l
<1>5. PromisesKept' /\ StabilisedInOrder'
  BY <1>3 DEF OrderInv, PromisesKept, NotOlderThan, StabilisedInOrder,
              InTimestampOrder
<1>6. m_storage \in Seq(Label) /\ InTimestampOrder(m_storage)
  BY DEF TypeOK, OrderInv, StableBelowTheRest
<1>7. /\ InTimestampOrder(m_storage')
      /\ \A i \in 1..Len(m_storage') :
           \/ m_storage'[i] = l
           \/ \E j \in 1..Len(m_storage) : m_storage'[i] = m_storage[j]
  BY <1>2, <1>3, <1>6, InsertKeepsOrder
<1>8. ASSUME NEW i \in 1..Len(stabilised)
      PROVE  /\ \A r \in 1..ClientCount : stabilised[i].ts <= m_heartbeat[r]
             /\ \A j \in 1..Len(m_storage') : stabilised[i].ts <= m_storage'[j].ts
  <2>1. /\ \A r \in 1..ClientCount : stabilised[i].ts <= m_heartbeat[r]
        /\ \A j \in 1..Len(m_storage) : stabilised[i].ts <= m_storage[j].ts
    BY DEF OrderInv, StableBelowTheRest
  <2>2. stabilised[i].ts <= l.ts
    <3>1. /\ stabilised[i].ts \in Nat /\ m_heartbeat[pMsg.pid] \in Nat
          /\ stabilised[i].ts <= m_heartbeat[pMsg.pid]
      BY <1>1, <2>1, TimestampTypes
    <3> QED BY <3>1, <1>2, <1>4
  <2> QED BY <2>1, <2>2, <1>7
<1>9. StableBelowTheRest'
  BY <1>3, <1>7, <1>8 DEF StableBelowTheRest
<1> QED BY <1>5, <1>9 DEF OrderInv

\* What Stabilise does to the table, the storage and the stable labels.
LEMMA StabiliseEffect ==
  ASSUME TypeOK, OrderInv, Stabilise
  PROVE  LET stable == GetStableTimestamp(m_heartbeat')
             it == FirstAbove(m_storage, stable)
         IN
         /\ stable \in Nat
         /\ it \in 1..(Len(m_storage) + 1)
         /\ \A r \in 1..ClientCount :
              /\ m_heartbeat'[r] \in Nat
              /\ m_heartbeat[r] <= m_heartbeat'[r]
              /\ stable <= m_heartbeat'[r]
              /\ r # pMsg.pid => m_heartbeat'[r] = m_heartbeat[r]
         /\ m_heartbeat'[pMsg.pid] = pMsg.hb
         /\ \A i \in 1..(it - 1) : m_storage[i].ts <= stable
         /\ \A i \in it..Len(m_storage) : m_storage[i].ts > stable
         /\ Len(m_storage') = Len(m_storage) - it + 1
         /\ \A i \in 1..Len(m_storage') : m_storage'[i] = m_storage[it + i - 1]
         /\ Len(stabilised') = Len(stabilised) + it - 1
         /\ \A i \in 1..Len(stabilised') :
              stabilised'[i] = IF i <= Len(stabilised) THEN stabilised[i]
                               ELSE m_storage[i - Len(stabilised)]
<1> DEFINE stable == GetStableTimestamp(m_heartbeat')
           it == FirstAbove(m_storage, stable)
           removed == SubSeq(m_storage, 1, it - 1)
<1>1. pc = "insert" /\ pMsg \in ReceivedMessage /\ pMsg.pid \in 1..ClientCount
      /\ pMsg.hb \in Nat
  BY MessageTypes DEF Stabilise
<1>2. m_heartbeat' = UpdateHeartbeatTable(m_heartbeat, pMsg.pid, pMsg.hb)
  BY DEF Stabilise
<1>3. /\ m_heartbeat' \in [1..ClientCount -> Nat]
      /\ m_heartbeat'[pMsg.pid] = pMsg.hb
      /\ \A r \in 1..ClientCount : r # pMsg.pid => m_heartbeat'[r] = m_heartbeat[r]
  BY <1>1, <1>2, TableUpdate
<1>4. pMsg.hb >= m_heartbeat[pMsg.pid]
  BY <1>1 DEF OrderInv, PromisesKept, NotOlderThan
<1>5. \A r \in 1..ClientCount :
        /\ m_heartbeat'[r] \in Nat
        /\ m_heartbeat[r] <= m_heartbeat'[r]
        /\ r # pMsg.pid => m_heartbeat'[r] = m_heartbeat[r]
  BY <1>1, <1>3, <1>4, TimestampTypes
<1>6. stable \in Nat /\ \A r \in 1..ClientCount : stable <= m_heartbeat'[r]
  BY <1>3, StableIsLeast
<1>7. /\ stabilised' = stabilised \o removed
      /\ m_storage' = SubSeq(m_storage, it, Len(m_storage))
  BY DEF Stabilise, DeletePossibleLabels
<1>8. m_storage \in Seq(Label) /\ stabilised \in Seq(Label)
  BY DEF TypeOK
<1> HIDE DEF stable
<1>9. /\ it \in 1..(Len(m_storage) + 1)
      /\ \A i \in 1..(it - 1) : m_storage[i].ts <= stable
      /\ it <= Len(m_storage) => m_storage[it].ts > stable
  BY <1>6, <1>8, FirstAboveStops
<1>10. /\ removed \in Seq(Label)
       /\ Len(removed) = it - 1
       /\ \A i \in 1..(it - 1) : removed[i] = m_storage[i]
       /\ Len(m_storage') = Len(m_storage) - it + 1
       /\ \A i \in 1..(Len(m_storage) - it + 1) :
            m_storage'[i] = m_storage[it + i - 1]
  BY <1>6, <1>7, <1>8, CutStorage
<1> HIDE DEF it, removed
<1>11. Len(m_storage) \in Nat /\ Len(stabilised) \in Nat
  BY TimestampTypes
<1>12. \A i \in it..Len(m_storage) : m_storage[i].ts > stable
  <2>1. SUFFICES ASSUME NEW i \in it..Len(m_storage) PROVE m_storage[i].ts > stable
    OBVIOUS
  <2>2. it \in 1..Len(m_storage) /\ i \in 1..Len(m_storage)
    BY <1>9, <1>11
  <2>3. m_storage[it].ts <= m_storage[i].ts \/ i = it
    BY <2>2, <1>9 DEF OrderInv, StableBelowTheRest, InTimestampOrder
  <2> QED BY <2>2, <2>3, <1>6, <1>9, TimestampTypes
<1>13. /\ Len(stabilised') = Len(stabilised) + it - 1
       /\ \A i \in 1..Len(stabilised') :
            stabilised'[i] = IF i <= Len(stabilised) THEN stabilised[i]
                             ELSE m_storage[i - Len(stabilised)]
  <2>1. /\ Len(stabilised') = Len(stabilised) + Len(removed)
        /\ \A i \in 1..(Len(stabilised) + Len(removed)) :
             stabilised'[i] = IF i <= Len(stabilised) THEN stabilised[i]
                              ELSE removed[i - Len(stabilised)]
    BY <1>7, <1>8, <1>10, ConcatProperties
  <2>2. \A i \in 1..(Len(stabilised) + Len(removed)) :
          ~(i <= Len(stabilised)) => i - Len(stabilised) \in 1..(it - 1)
    BY <1>9, <1>10, <1>11
  <2>3. Len(stabilised') = Len(stabilised) + it - 1
    BY <2>1, <1>9, <1>10, <1>11
  <2> QED BY <2>1, <2>2, <2>3, <1>10
<1> QED
  BY <1>3, <1>5, <1>6, <1>9, <1>10, <1>12, <1>13 DEF stable, it

\* UpdateHeartbeatTable and DeletePossibleLabels: what becomes stable is not
\* older than what was, and not newer than what stays or any heartbeat.
LEMMA StabiliseKeepsOrder ==
  ASSUME TypeOK, OrderInv, Stabilise
  PROVE  OrderInv'
<1> DEFINE stable == GetStableTimestamp(m_heartbeat')
           it == FirstAbove(m_storage, stable)
           st == stabilised
           sto == m_storage
           q == m_ptrComQ
<1>1. /\ stable \in Nat
      /\ it \in 1..(Len(sto) + 1)
      /\ \A r \in 1..ClientCount :
           /\ m_heartbeat'[r] \in Nat
           /\ m_heartbeat[r] <= m_heartbeat'[r]
           /\ stable <= m_heartbeat'[r]
           /\ r # pMsg.pid => m_heartbeat'[r] = m_heartbeat[r]
      /\ m_heartbeat'[pMsg.pid] = pMsg.hb
      /\ \A i \in 1..(it - 1) : sto[i].ts <= stable
      /\ \A i \in it..Len(sto) : sto[i].ts > stable
      /\ Len(sto') = Len(sto) - it + 1
      /\ \A i \in 1..Len(sto') : sto'[i] = sto[it + i - 1]
      /\ Len(st') = Len(st) + it - 1
      /\ \A i \in 1..Len(st') :
           st'[i] = IF i <= Len(st) THEN st[i] ELSE sto[i - Len(st)]
  BY StabiliseEffect
<1> HIDE DEF stable, it
<1>2. /\ pc = "insert" /\ pc' # "insert"
      /\ UNCHANGED <<lastHeartbeat, m_ptrComQ, pMsg>>
  BY DEF Stabilise, vnodeVars
<1>3. /\ Len(sto) \in Nat /\ Len(st) \in Nat
      /\ \A i \in 1..Len(sto) : sto[i].ts \in Nat
      /\ \A i \in 1..Len(st) : st[i].ts \in Nat
  BY TimestampTypes
<1>4. PromisesKept'
  <2>1. \A p \in Senders : m_heartbeat'[p] <= lastHeartbeat'[p]
    <3>1. SUFFICES ASSUME NEW p \in Senders
                   PROVE  m_heartbeat'[p] <= lastHeartbeat[p]
      BY <1>2
    <3>2. CASE p = pMsg.pid
      BY <3>2, <1>1, <1>2 DEF OrderInv, PromisesKept
    <3>3. CASE p # pMsg.pid
      BY <3>3, <1>1, TimestampTypes DEF OrderInv, PromisesKept
    <3> QED BY <3>2, <3>3
  <2>2. ASSUME NEW i \in 1..Len(q)
        PROVE  /\ q[i].hb <= lastHeartbeat[q[i].pid]
               /\ NotOlderThan(q[i], m_heartbeat'[q[i].pid])
    <3>1. CASE q[i].pid = pMsg.pid
      BY <3>1, <1>1, <1>2 DEF OrderInv, PromisesKept
    <3>2. CASE q[i].pid # pMsg.pid
      BY <3>2, <1>1, TimestampTypes DEF OrderInv, PromisesKept
    <3> QED BY <3>1, <3>2
  <2>3. \A i, j \in 1..Len(q) :
          i < j /\ q[i].pid = q[j].pid => NotOlderThan(q[j], q[i].hb)
    BY DEF OrderInv, PromisesKept
  <2> QED BY <2>1, <2>2, <2>3, <1>2 DEF PromisesKept, NotOlderThan
<1>5. \A i, j \in 1..Len(sto) : i < j => sto[i].ts <= sto[j].ts
  BY DEF OrderInv, StableBelowTheRest, InTimestampOrder
<1>6. \A i, j \in 1..Len(st) : i < j => st[i].ts <= st[j].ts
  BY DEF OrderInv, StabilisedInOrder, InTimestampOrder
<1>7. \A i \in 1..Len(st) :
        /\ \A r \in 1..ClientCount : st[i].ts <= m_heartbeat[r]
        /\ \A j \in 1..Len(sto) : st[i].ts <= sto[j].ts
  BY DEF OrderInv, StableBelowTheRest
<1>8. StabilisedInOrder'
  <2>1. ASSUME NEW i \in 1..Len(st'), NEW j \in 1..Len(st'), i < j
        PROVE  st'[i].ts <= st'[j].ts
    <3>1. CASE j <= Len(st)
      BY <3>1, <2>1, <1>1, <1>3, <1>6
    <3>2. CASE i <= Len(st) /\ j > Len(st)
      <4>1. /\ st'[i] = st[i] /\ i \in 1..Len(st)
            /\ st'[j] = sto[j - Len(st)] /\ j - Len(st) \in 1..Len(sto)
        BY <3>2, <2>1, <1>1, <1>3
      <4> QED BY <4>1, <1>7
    <3>3. CASE i > Len(st)
      <4>1. /\ st'[i] = sto[i - Len(st)] /\ i - Len(st) \in 1..Len(sto)
            /\ st'[j] = sto[j - Len(st)] /\ j - Len(st) \in 1..Len(sto)
            /\ i - Len(st) < j - Len(st)
        BY <3>3, <2>1, <1>1, <1>3
      <4> QED BY <4>1, <1>5
    <3> QED BY <3>1, <3>2, <3>3, <2>1, <1>1, <1>3
  <2> QED BY <2>1 DEF StabilisedInOrder, InTimestampOrder
<1>9. InTimestampOrder(sto')
  <2>1. ASSUME NEW i \in 1..Len(sto'), NEW j \in 1..Len(sto'), i < j
        PROVE  sto'[i].ts <= sto'[j].ts
    <3>1. /\ sto'[i] = sto[it + i - 1] /\ it + i - 1 \in 1..Len(sto)
          /\ sto'[j] = sto[it + j - 1] /\ it + j - 1 \in 1..Len(sto)
          /\ it + i - 1 < it + j - 1
      BY <2>1, <1>1, <1>3
    <3> QED BY <3>1, <1>5
  <2> QED BY <2>1 DEF InTimestampOrder
<1>10. ASSUME NEW i \in 1..Len(st')
       PROVE  /\ \A r \in 1..ClientCount : st'[i].ts <= m_heartbeat'[r]
              /\ \A j \in 1..Len(sto') : st'[i].ts <= sto'[j].ts
  <2>1. ASSUME NEW j \in 1..Len(sto')
        PROVE  /\ sto'[j] = sto[it + j - 1] /\ it + j - 1 \in 1..Len(sto)
               /\ sto'[j].ts > stable /\ sto'[j].ts \in Nat
    <3>1. sto'[j] = sto[it + j - 1] /\ it + j - 1 \in it..Len(sto)
      BY <1>1, <1>3
    <3>2. it + j - 1 \in 1..Len(sto)
      BY <3>1, <1>1, <1>3
    <3>3. sto[it + j - 1].ts > stable /\ sto[it + j - 1].ts \in Nat
      <4>1. \A k \in it..Len(sto) : sto[k].ts > stable
        BY <1>1
      <4>2. \A k \in 1..Len(sto) : sto[k].ts \in Nat
        BY <1>3
      <4> QED BY ONLY <3>1, <3>2, <4>1, <4>2
    <3> QED BY <3>1, <3>2, <3>3
  <2>2. CASE i <= Len(st)
    <3>0. i \in 1..Len(st)
      BY <2>2, <1>3
    <3>1. st'[i] = st[i] /\ i \in 1..Len(st)
      <4>1. st'[i] = IF i <= Len(st) THEN st[i] ELSE sto[i - Len(st)]
        BY <1>1
      <4> QED BY <4>1, <3>0, <2>2
    <3>2. ASSUME NEW r \in 1..ClientCount
          PROVE  st'[i].ts <= m_heartbeat'[r]
      <4>1. /\ st[i].ts <= m_heartbeat[r] /\ m_heartbeat[r] <= m_heartbeat'[r]
            /\ st[i].ts \in Nat /\ m_heartbeat'[r] \in Nat
        BY <3>1, <1>1, <1>3, <1>7
      <4>2. m_heartbeat[r] \in Nat
        BY DEF TypeOK
      <4> QED BY <3>1, <4>1, <4>2
    <3>3. ASSUME NEW j \in 1..Len(sto')
          PROVE  st'[i].ts <= sto'[j].ts
      BY <3>1, <2>1, <1>7
    <3> QED BY <3>2, <3>3
  <2>3. CASE i > Len(st)
    <3>1. st'[i] = sto[i - Len(st)] /\ i - Len(st) \in 1..(it - 1)
          /\ i - Len(st) \in 1..Len(sto)
      BY <2>3, <1>1, <1>3
    <3>2. st'[i].ts <= stable /\ st'[i].ts \in Nat
      BY <3>1, <1>1, <1>3
    <3>3. ASSUME NEW r \in 1..ClientCount
          PROVE  st'[i].ts <= m_heartbeat'[r]
      BY <3>2, <1>1
    <3>4. ASSUME NEW j \in 1..Len(sto')
          PROVE  st'[i].ts <= sto'[j].ts
      BY <3>2, <2>1, <1>1
    <3> QED BY <3>3, <3>4
  <2>4. Len(st') \in Nat
    BY <1>1, <1>3
  <2> QED BY <2>2, <2>3, <2>4, <1>3
<1>11. StableBelowTheRest'
  BY <1>9, <1>10 DEF StableBelowTheRest
<1> QED BY <1>4, <1>8, <1>11 DEF OrderInv

\* Every step keeps the inductive invariant.
LEMMA OrderNext == TypeOK /\ OrderInv /\ [Next]_vars => OrderInv'
<1> SUFFICES ASSUME TypeOK, OrderInv, [Next]_vars PROVE OrderInv'
  OBVIOUS
<1>1. CASE Vnodes
  BY <1>1, SendKeepsOrder
<1>2. CASE TakeMessage
  BY <1>2, TakeKeepsOrder
<1>3. CASE InsertBatchLabels
  BY <1>3, InsertKeepsOrderInv
<1>4. CASE Stabilise
  BY <1>4, StabiliseKeepsOrder
<1>5. CASE \/ SkipDelivery \/ WriteBatch \/ ReadReply \/ Report
           \/ ReceiverReplies \/ ReceiverCloses \/ UNCHANGED vars
  <2>1. /\ UNCHANGED <<lastHeartbeat, m_ptrComQ, m_heartbeat, m_storage, stabilised>>
        /\ pc' # "insert" \/ UNCHANGED <<pc, pMsg>>
    BY <1>5 DEF SkipDelivery, WriteBatch, ReadReply, Report, ReceiverReplies,
                ReceiverCloses, vars, vnodeVars
  <2> QED
    BY <2>1 DEF OrderInv, PromisesKept, NotOlderThan, StableBelowTheRest,
                StabilisedInOrder, InTimestampOrder
<1> QED
  BY <1>1, <1>2, <1>3, <1>4, <1>5 DEF Next, Processor

(***************************************************************************)
(* For any number of partitions, any timestamps and batches, and any       *)
(* interleaving of the messages: processQ moves labels to deletedList in   *)
(* timestamp order, over the whole run.                                    *)
(***************************************************************************)
THEOREM LabelsStabilisedInOrder == Spec => []StabilisedInOrder
<1>1. Init => TypeOK /\ OrderInv
  BY TypeInit, OrderInit
<1>2. TypeOK /\ OrderInv /\ [Next]_vars => TypeOK' /\ OrderInv'
  BY TypeNext, OrderNext
<1>3. OrderInv => StabilisedInOrder
  BY DEF OrderInv
<1> QED BY <1>1, <1>2, <1>3, PTL DEF Spec

(***************************************************************************)
(* UpdateHeartbeatTable overwrites without comparing, and still the stable *)
(* timestamp never goes back, in any step of any run.                      *)
(***************************************************************************)
THEOREM StableTimestampMonotonic == Spec => StableNeverRegresses
<1>1. Init => TypeOK /\ OrderInv
  BY TypeInit, OrderInit
<1>2. TypeOK /\ OrderInv /\ [Next]_vars => TypeOK' /\ OrderInv'
  BY TypeNext, OrderNext
<1>3. TypeOK /\ OrderInv /\ [Next]_vars =>
        [GetStableTimestamp(m_heartbeat') >= GetStableTimestamp(m_heartbeat)]_vars
  <2> SUFFICES ASSUME TypeOK, OrderInv, Next
               PROVE  GetStableTimestamp(m_heartbeat') >= GetStableTimestamp(m_heartbeat)
    OBVIOUS
  <2>1. m_heartbeat \in [1..ClientCount -> Nat]
    BY DEF TypeOK
  <2>2. CASE Stabilise
    <3>1. \A r \in 1..ClientCount : m_heartbeat[r] <= m_heartbeat'[r]
      BY <2>2, StabiliseEffect
    <3>2. m_heartbeat' \in [1..ClientCount -> Nat]
      BY TypeNext DEF TypeOK
    <3>3. PICK r \in 1..ClientCount :
            GetStableTimestamp(m_heartbeat') = m_heartbeat'[r]
      BY <3>2, StableIsLeast
    <3>4. GetStableTimestamp(m_heartbeat) <= m_heartbeat[r]
          /\ GetStableTimestamp(m_heartbeat) \in Nat
      BY <2>1, StableIsLeast
    <3>5. m_heartbeat[r] \in Nat /\ m_heartbeat'[r] \in Nat
      BY <2>1, <3>2
    <3> QED BY <3>1, <3>3, <3>4, <3>5
  <2>3. CASE ~Stabilise
    <3>1. m_heartbeat' = m_heartbeat
      BY <2>3 DEF Next, Processor, Vnodes, Send, TakeMessage, InsertBatchLabels,
              SkipDelivery, WriteBatch, ReadReply, Report, ReceiverReplies,
              ReceiverCloses
    <3>2. GetStableTimestamp(m_heartbeat) \in Nat
      BY <2>1, StableIsLeast
    <3> QED BY <3>1, <3>2
  <2> QED BY <2>2, <2>3
<1> QED BY <1>1, <1>2, <1>3, PTL DEF Spec, StableNeverRegresses

-----------------------------------------------------------------------------
(* Nothing stable is withheld.                                             *)

\* DeletePossibleLabels stops at the first label above the stable timestamp,
\* and neither m_storage nor the heartbeats change until the next message.
LEMMA NothingWithheldNext ==
  ASSUME TypeOK, OrderInv, NothingStableWithheld, [Next]_vars
  PROVE  NothingStableWithheld'
<1>1. InTimestampOrder(m_storage')
  BY OrderNext DEF OrderInv, StableBelowTheRest
<1>2. CASE Stabilise
  <2>1. \A i \in 1..Len(m_storage') :
          m_storage'[i].ts > GetStableTimestamp(m_heartbeat')
    <3> DEFINE stable == GetStableTimestamp(m_heartbeat')
               it == FirstAbove(m_storage, stable)
    <3>1. /\ it \in 1..(Len(m_storage) + 1)
          /\ \A i \in it..Len(m_storage) : m_storage[i].ts > stable
          /\ Len(m_storage') = Len(m_storage) - it + 1
          /\ \A i \in 1..Len(m_storage') : m_storage'[i] = m_storage[it + i - 1]
      BY <1>2, StabiliseEffect
    <3> HIDE DEF stable, it
    <3>2. Len(m_storage) \in Nat
      BY TimestampTypes
    <3>3. \A i \in 1..Len(m_storage') : it + i - 1 \in it..Len(m_storage)
      BY <3>1, <3>2
    <3>4. \A i \in 1..Len(m_storage') : m_storage'[i].ts > stable
      BY <3>1, <3>3
    <3> QED BY <3>4 DEF stable
  <2> QED BY <1>1, <2>1 DEF NothingStableWithheld
<1>3. CASE TakeMessage \/ InsertBatchLabels
  <2>1. pc' = "insert"
    BY <1>3 DEF TakeMessage, InsertBatchLabels
  <2> QED BY <1>1, <2>1 DEF NothingStableWithheld
<1>4. CASE \/ Vnodes \/ SkipDelivery \/ WriteBatch \/ ReadReply \/ Report
           \/ ReceiverReplies \/ ReceiverCloses \/ UNCHANGED vars
  <2>1. /\ UNCHANGED <<m_storage, m_heartbeat>>
        /\ pc' = pc \/ pc \in {"deliver", "await", "report"}
    BY <1>4 DEF Vnodes, Send, SkipDelivery, WriteBatch, ReadReply, Report,
                ReceiverReplies, ReceiverCloses, vars
  <2> QED BY <1>1, <2>1 DEF NothingStableWithheld
<1> QED
  BY <1>2, <1>3, <1>4 DEF Next, Processor

(***************************************************************************)
(* Between two messages everything left in m_storage is newer than some    *)
(* partition's heartbeat: the deletion loop is never one label short.      *)
(***************************************************************************)
THEOREM NothingWithheld == Spec => []NothingStableWithheld
<1>1. Init => TypeOK /\ OrderInv
  BY TypeInit, OrderInit
<1>2. Init => NothingStableWithheld
  BY EmptySeq DEF Init, NothingStableWithheld, InTimestampOrder
<1>3. TypeOK /\ OrderInv /\ [Next]_vars => TypeOK' /\ OrderInv'
  BY TypeNext, OrderNext
<1>4. TypeOK /\ OrderInv /\ NothingStableWithheld /\ [Next]_vars
        => NothingStableWithheld'
  BY NothingWithheldNext
<1> QED BY <1>1, <1>2, <1>3, <1>4, PTL DEF Spec
-----------------------------------------------------------------------------
(* What the process dies of.                                               *)

\* A label that has been inserted stays in m_storage while the others are.
LEMMA StorageFilledNext ==
  ASSUME TypeOK, StorageFilled, [Next]_vars
  PROVE  StorageFilled'
<1>1. CASE InsertBatchLabels
  <2>1. pMsg.labels \in Seq(Label) /\ n \in 1..Len(pMsg.labels)
    BY <1>1, LenProperties DEF InsertBatchLabels, TypeOK, ReceivedMessage
  <2>2. pMsg.labels[n] \in Label /\ m_storage \in Seq(Label)
    BY <2>1, ElementOfSeq DEF TypeOK
  <2>3. Len(m_storage') = Len(m_storage) + 1 /\ Len(m_storage) \in Nat
        /\ m_storage' \in Seq(Label)
    BY <1>1, <2>2, MultimapInsertIsSeq, LenProperties DEF InsertBatchLabels
  <2>4. m_storage' # <<>>
    BY <2>3, EmptySeq
  <2> QED BY <2>4 DEF StorageFilled
<1>2. CASE ~InsertBatchLabels
  <2>1. \/ pc' # "insert"
        \/ n' = 1
        \/ UNCHANGED <<pc, n, m_storage>>
    BY <1>2 DEF Next, Processor, Vnodes, Send, TakeMessage, Stabilise,
                SkipDelivery, WriteBatch, ReadReply, Report, ReceiverReplies,
                ReceiverCloses, vars
  <2> QED BY <2>1 DEF StorageFilled
<1> QED BY <1>1, <1>2

\* Stabilise kills only with an empty m_storage, WriteBatch only without a
\* label receiver, and a dead process does nothing more.
LEMMA DiesNext ==
  ASSUME TypeOK, StorageFilled, DiesOnlyOnBrokenPipe, [Next]_vars
  PROVE  DiesOnlyOnBrokenPipe'
<1>1. CASE Stabilise
  <2>1. /\ pc = "insert" /\ pMsg' = pMsg
        /\ n > Len(pMsg.labels) /\ n \in Nat \ {0}
        /\ pc' = "dead" => m_storage = <<>>
    BY <1>1 DEF Stabilise, TypeOK
  <2>2. pMsg.labels \in Seq(Label)
    BY <2>1 DEF TypeOK, ReceivedMessage
  <2>3. ASSUME m_storage = <<>> PROVE pMsg.labels = <<>>
    <3>1. ~(n > 1)
      BY <2>1, <2>3 DEF StorageFilled
    <3>2. Len(pMsg.labels) = 0
      BY <2>1, <2>2, <3>1, LenProperties
    <3> QED BY <2>2, <3>2, EmptySeq
  <2> QED BY <2>1, <2>3 DEF DiesOnlyOnBrokenPipe
<1>2. CASE WriteBatch
  BY <1>2 DEF WriteBatch, DiesOnlyOnBrokenPipe
<1>3. CASE ~Stabilise /\ ~WriteBatch
  <2>1. \/ pc' # "dead"
        \/ /\ UNCHANGED <<pc, pMsg>>
           /\ conn' = conn \/ conn' = "closed"
    BY <1>3 DEF Next, Processor, Vnodes, Send, TakeMessage, InsertBatchLabels,
                SkipDelivery, ReadReply, Report, ReceiverReplies,
                ReceiverCloses, vars, connVars
  <2> QED BY <2>1 DEF DiesOnlyOnBrokenPipe
<1> QED BY <1>1, <1>2, <1>3

(***************************************************************************)
(* As long as messages carry labels, "it--" on an empty m_storage never    *)
(* ends the process, for any batches and any interleaving.                 *)
(***************************************************************************)
THEOREM SurvivesLabels == Spec => []DiesOnlyOnBrokenPipe
<1>1. Init => TypeOK
  BY TypeInit
<1>2. Init => StorageFilled /\ DiesOnlyOnBrokenPipe
  BY DEF Init, StorageFilled, DiesOnlyOnBrokenPipe
<1>3. TypeOK /\ [Next]_vars => TypeOK'
  BY TypeNext
<1>4. TypeOK /\ StorageFilled /\ DiesOnlyOnBrokenPipe /\ [Next]_vars
        => StorageFilled' /\ DiesOnlyOnBrokenPipe'
  BY StorageFilledNext, DiesNext
<1> QED BY <1>1, <1>2, <1>3, <1>4, PTL DEF Spec
-----------------------------------------------------------------------------
(* What FlattenSeq does to a sequence of batches.                          *)

\* f[i] is the concatenation of the first i batches of w, for i up to k.
Concatenated(f, w, k) ==
  \A i \in 1..k : f[i] = IF i = 1 THEN w[i] ELSE f[i - 1] \o w[i]

SameUpTo(f, g, k) == \A i \in 1..k : f[i] = g[i]

\* There is such a function: the shortest sequence without one would have one
\* for all but its last batch.
LEMMA ConcatenationExists ==
  ASSUME NEW S, NEW w \in Seq(Seq(S))
  PROVE  \E f \in [1..Len(w) -> Seq(S)] : Concatenated(f, w, Len(w))
<1> DEFINE Bad == {k \in 0..Len(w) :
                     ~\E f \in [1..k -> Seq(S)] : Concatenated(f, w, k)}
<1>1. Len(w) \in Nat /\ \A i \in 1..Len(w) : w[i] \in Seq(S)
  BY LenProperties, ElementOfSeq
<1>2. SUFFICES ASSUME Bad # {} PROVE FALSE
  <2>1. Len(w) \in 0..Len(w)
    BY <1>1
  <2> QED BY <1>2, <2>1
<1>3. PICK k \in Bad : \A j \in Bad : k <= j
  <2>1. Bad \in SUBSET Nat
    BY <1>1
  <2> HIDE DEF Bad
  <2> QED BY <2>1, <1>2, MinIsLeast
<1>4. k \in 0..Len(w) /\ ~\E f \in [1..k -> Seq(S)] : Concatenated(f, w, k)
  OBVIOUS
<1>5. k # 0
  <2>1. [i \in 1..0 |-> <<>>] \in [1..0 -> Seq(S)]
    OBVIOUS
  <2>2. Concatenated([i \in 1..0 |-> <<>>], w, 0)
    BY DEF Concatenated
  <2> QED BY <1>4, <2>1, <2>2
<1>6. k - 1 \in 0..Len(w) /\ k - 1 \notin Bad
  <2>1. k - 1 \in 0..Len(w) /\ ~(k <= k - 1)
    BY <1>1, <1>4, <1>5
  <2> HIDE DEF Bad
  <2> QED BY <2>1, <1>3
<1>7. PICK f \in [1..(k - 1) -> Seq(S)] : Concatenated(f, w, k - 1)
  BY <1>6
<1> DEFINE last == IF k = 1 THEN w[k] ELSE f[k - 1] \o w[k]
           g == [i \in 1..k |-> IF i = k THEN last ELSE f[i]]
<1>8. last \in Seq(S)
  <2>1. k \in 1..Len(w) /\ w[k] \in Seq(S)
    BY <1>1, <1>4, <1>5
  <2>2. CASE k # 1
    <3>1. f[k - 1] \in Seq(S)
      BY <2>1, <2>2, <1>7
    <3> QED BY <2>1, <2>2, <3>1, ConcatProperties
  <2> QED BY <2>1, <2>2
<1> HIDE DEF last
<1>9. g \in [1..k -> Seq(S)]
  BY <1>1, <1>4, <1>5, <1>7, <1>8
<1>10. ASSUME NEW i \in 1..k
       PROVE  g[i] = IF i = 1 THEN w[i] ELSE g[i - 1] \o w[i]
  <2>1. i \in Nat /\ k \in Nat
    BY <1>1, <1>4
  <2>2. i # 1 => i - 1 \in 1..(k - 1) /\ g[i - 1] = f[i - 1]
    BY <2>1
  <2>3. CASE i = k
    <3>1. g[i] = last
      BY <2>3
    <3> QED BY <2>2, <2>3, <3>1 DEF last
  <2>4. CASE i # k
    <3>1. i \in 1..(k - 1) /\ g[i] = f[i]
      BY <2>1, <2>4
    <3>2. f[i] = IF i = 1 THEN w[i] ELSE f[i - 1] \o w[i]
      BY <3>1, <1>7 DEF Concatenated
    <3> QED BY <2>2, <3>1, <3>2
  <2> QED BY <2>3, <2>4
<1>11. Concatenated(g, w, k)
  BY <1>10 DEF Concatenated
<1> QED BY <1>4, <1>9, <1>11

\* It is determined by the batches.
LEMMA ConcatenationUnique ==
  ASSUME NEW w, NEW v, NEW k \in Nat, NEW f, NEW g,
         SameUpTo(w, v, k), Concatenated(f, w, k), Concatenated(g, v, k)
  PROVE  SameUpTo(f, g, k)
<1> DEFINE Bad == {i \in 1..k : f[i] # g[i]}
<1>1. SUFFICES ASSUME Bad # {} PROVE FALSE
  BY DEF SameUpTo
<1>2. PICK i \in Bad : \A j \in Bad : i <= j
  <2>1. Bad \in SUBSET Nat
    OBVIOUS
  <2> HIDE DEF Bad
  <2> QED BY <2>1, <1>1, MinIsLeast
<1>3. /\ i \in 1..k /\ f[i] # g[i]
      /\ f[i] = IF i = 1 THEN w[i] ELSE f[i - 1] \o w[i]
      /\ g[i] = IF i = 1 THEN v[i] ELSE g[i - 1] \o v[i]
      /\ w[i] = v[i]
  BY DEF Concatenated, SameUpTo
<1>4. i # 1
  BY <1>3
<1>5. i - 1 \in 1..k /\ ~(i <= i - 1)
  BY <1>3, <1>4
<1>6. f[i - 1] = g[i - 1]
  BY <1>2, <1>5
<1> QED BY <1>3, <1>4, <1>6

\* FlattenSeq is the last of the concatenations.
LEMMA FlattenIsLast ==
  ASSUME NEW S, NEW w \in Seq(Seq(S)), w # <<>>
  PROVE  \E f \in [1..Len(w) -> Seq(S)] :
           /\ Concatenated(f, w, Len(w))
           /\ FlattenSeq(w) = f[Len(w)]
<1> DEFINE Is(f) == f = [i \in 1..Len(w) |->
                           IF i = 1 THEN w[i] ELSE f[i - 1] \o w[i]]
           h == CHOOSE f : Is(f)
<1>1. Len(w) \in Nat \ {0}
  BY EmptySeq, LenProperties
<1>2. PICK f \in [1..Len(w) -> Seq(S)] : Concatenated(f, w, Len(w))
  BY ConcatenationExists
<1>3. Is(f)
  BY <1>2 DEF Concatenated
<1>4. Is(h)
  BY <1>3
<1>5. FlattenSeq(w) = h[Len(w)]
  BY <1>1 DEF FlattenSeq
<1>6. Concatenated(h, w, Len(w))
  BY <1>4 DEF Concatenated
<1> HIDE DEF h, Is
<1>7. f[Len(w)] = h[Len(w)]
  <2>1. Len(w) \in Nat /\ SameUpTo(w, w, Len(w))
    BY <1>1 DEF SameUpTo
  <2>2. SameUpTo(f, h, Len(w))
    BY ONLY <2>1, <1>2, <1>6, ConcatenationUnique
  <2> QED BY <1>1, <2>2 DEF SameUpTo
<1> QED BY <1>2, <1>5, <1>7

LEMMA FlattenIsSeq ==
  ASSUME NEW S, NEW w \in Seq(Seq(S))
  PROVE  FlattenSeq(w) \in Seq(S) /\ FlattenSeq(<<>>) = <<>>
<1>1. Len(<<>>) = 0 /\ <<>> \in Seq(S)
  BY EmptySeq
<1>2. FlattenSeq(<<>>) = <<>>
  BY <1>1 DEF FlattenSeq
<1>3. CASE w # <<>>
  <2>1. Len(w) \in Nat \ {0}
    BY <1>3, EmptySeq
  <2>2. PICK f \in [1..Len(w) -> Seq(S)] : FlattenSeq(w) = f[Len(w)]
    BY <1>3, FlattenIsLast
  <2>3. Len(w) \in 1..Len(w)
    BY <2>1
  <2>4. f[Len(w)] \in Seq(S)
    BY ONLY <2>2, <2>3
  <2> QED BY ONLY <1>2, <2>2, <2>4
<1> QED BY <1>1, <1>2, <1>3

\* A batch written goes to the end.
LEMMA FlattenAppend ==
  ASSUME NEW S, NEW w \in Seq(Seq(S)), NEW d \in Seq(S)
  PROVE  FlattenSeq(Append(w, d)) = FlattenSeq(w) \o d
<1> DEFINE v == Append(w, d)
<1>1. /\ v \in Seq(Seq(S)) /\ v # <<>> /\ Len(v) = Len(w) + 1
      /\ \A i \in 1..Len(w) : v[i] = w[i]
      /\ v[Len(w) + 1] = d
  BY AppendProperties
<1>2. Len(w) \in Nat
  BY LenProperties
<1> HIDE DEF v
<1>3. PICK f \in [1..Len(v) -> Seq(S)] :
        Concatenated(f, v, Len(v)) /\ FlattenSeq(v) = f[Len(v)]
  BY <1>1, FlattenIsLast
<1>4. FlattenSeq(v) = IF Len(v) = 1 THEN d ELSE f[Len(w)] \o d
  <2>1. Len(v) \in 1..Len(v) /\ Len(v) - 1 = Len(w)
    BY <1>1, <1>2
  <2>2. f[Len(v)] = IF Len(v) = 1 THEN v[Len(v)] ELSE f[Len(v) - 1] \o v[Len(v)]
    BY ONLY <1>3, <2>1 DEF Concatenated
  <2> QED BY ONLY <1>1, <1>3, <2>1, <2>2
<1>5. CASE w = <<>>
  <2>1. Len(v) = 1
    BY <1>1, <1>5, EmptySeq
  <2>2. FlattenSeq(w) \o d = d
    BY <1>5, FlattenIsSeq, ConcatEmptySeq
  <2> QED BY <1>4, <2>1, <2>2 DEF v
<1>6. CASE w # <<>>
  <2>1. Len(w) # 0
    BY <1>6, EmptySeq
  <2>2. PICK g \in [1..Len(w) -> Seq(S)] :
          Concatenated(g, w, Len(w)) /\ FlattenSeq(w) = g[Len(w)]
    BY <1>6, FlattenIsLast
  <2>3. Concatenated(f, v, Len(w))
    <3>1. \A i \in 1..Len(w) : i \in 1..Len(v)
      BY <1>1, <1>2
    <3> QED BY ONLY <1>3, <3>1 DEF Concatenated
  <2>4. SameUpTo(f, g, Len(w))
    <3>1. SameUpTo(v, w, Len(w))
      BY <1>1 DEF SameUpTo
    <3> QED BY ONLY <1>2, <2>2, <2>3, <3>1, ConcatenationUnique
  <2>5. Len(w) \in 1..Len(w) /\ Len(v) # 1
    BY <1>1, <1>2, <2>1
  <2>6. FlattenSeq(v) = FlattenSeq(w) \o d
    BY ONLY <1>4, <2>2, <2>4, <2>5 DEF SameUpTo
  <2> QED BY <2>6 DEF v
<1> QED BY <1>5, <1>6

\* ConcatAssociative, quantified over the sequences.
LEMMA Associative ==
  \A S : \A s, t, u \in Seq(S) : (s \o t) \o u = s \o (t \o u)
<1> TAKE S
<1> QED BY ConcatAssociative

\* A batch read is taken from the front.
LEMMA FlattenHeadTail ==
  ASSUME NEW S, NEW w \in Seq(Seq(S)), w # <<>>
  PROVE  FlattenSeq(w) = Head(w) \o FlattenSeq(Tail(w))
<1> DEFINE t == Tail(w)
<1>1. /\ Len(w) \in Nat \ {0} /\ \A i \in 1..Len(w) : w[i] \in Seq(S)
      /\ Head(w) = w[1]
  BY EmptySeq, ElementOfSeq
<1>2. /\ t \in Seq(Seq(S)) /\ Len(t) = Len(w) - 1
      /\ \A i \in 1..Len(t) : t[i] = w[i + 1]
  BY HeadTailProperties
<1> HIDE DEF t
<1>0. \A a, b, c \in Seq(S) : (a \o b) \o c = a \o (b \o c)
  BY ONLY Associative
<1>3. PICK f \in [1..Len(w) -> Seq(S)] :
        Concatenated(f, w, Len(w)) /\ FlattenSeq(w) = f[Len(w)]
  BY FlattenIsLast
<1>4. CASE t = <<>>
  <2>1. Len(w) = 1
    BY <1>1, <1>2, <1>4, EmptySeq
  <2>2. FlattenSeq(w) = w[1]
    BY <1>3, <2>1 DEF Concatenated
  <2>3. w[1] \o FlattenSeq(t) = w[1]
    BY <1>1, <1>4, FlattenIsSeq, ConcatEmptySeq
  <2> QED BY <1>1, <2>2, <2>3 DEF t
<1>5. CASE t # <<>>
  <2>1. PICK g \in [1..Len(t) -> Seq(S)] :
          Concatenated(g, t, Len(t)) /\ FlattenSeq(t) = g[Len(t)]
    BY <1>2, <1>5, FlattenIsLast
  <2> DEFINE h == [i \in 1..Len(w) |->
                     IF i = 1 THEN w[1] ELSE w[1] \o g[i - 1]]
  <2>2. Len(t) \in Nat \ {0} /\ Len(w) - 1 \in 1..Len(t) /\ Len(w) # 1
    <3>1. Len(t) \in Nat \ {0}
      BY <1>2, <1>5, EmptySeq
    <3> QED BY ONLY <1>1, <1>2, <3>1
  <2>3. ASSUME NEW i \in 1..Len(w), i # 1
        PROVE  h[i] = h[i - 1] \o w[i]
    <3>1. /\ i \in Nat /\ i > 1
          /\ i - 1 \in 1..Len(t) /\ i - 1 \in 1..Len(w) /\ (i - 1) + 1 = i
      BY <1>1, <1>2, <2>3
    <3>4. h[i] = w[1] \o g[i - 1]
      BY ONLY <2>3
    <3>5. t[i - 1] = w[i]
      BY <1>2, <3>1
    <3>2. CASE i = 2
      <4>1. i - 1 = 1 /\ 1 \in 1..Len(t) /\ 1 \in 1..Len(w)
        BY <3>1, <3>2
      <4>2. h[1] = w[1]
        BY ONLY <4>1
      <4>3. g[1] = t[1]
        BY ONLY <2>1, <4>1 DEF Concatenated
      <4> HIDE DEF h
      <4> QED BY ONLY <3>4, <3>5, <4>1, <4>2, <4>3
    <3>3. CASE i # 2
      <4>1. /\ i - 2 \in 1..Len(t) /\ (i - 1) - 1 = i - 2 /\ i - 1 # 1
            /\ 1 \in 1..Len(w)
        BY <1>1, <1>2, <3>1, <3>3
      <4>2. h[i - 1] = w[1] \o g[i - 2]
        BY ONLY <3>1, <4>1
      <4>3. g[i - 1] = g[i - 2] \o t[i - 1]
        BY ONLY <2>1, <3>1, <4>1 DEF Concatenated
      <4>4. w[1] \in Seq(S) /\ g[i - 2] \in Seq(S) /\ t[i - 1] \in Seq(S)
        BY ONLY <1>1, <2>1, <3>1, <3>5, <4>1
      <4>5. (w[1] \o g[i - 2]) \o t[i - 1] = w[1] \o (g[i - 2] \o t[i - 1])
        BY ONLY <1>0, <4>4
      <4> HIDE DEF h
      <4> QED BY ONLY <3>4, <3>5, <4>2, <4>3, <4>5
    <3> QED BY <3>2, <3>3
  <2>4. h[1] = w[1] /\ h[Len(w)] = w[1] \o g[Len(w) - 1]
    <3>1. 1 \in 1..Len(w) /\ Len(w) \in 1..Len(w)
      BY <1>1
    <3> QED BY ONLY <2>2, <3>1
  <2> HIDE DEF h
  <2>5. Concatenated(h, w, Len(w))
    BY <2>3, <2>4 DEF Concatenated
  <2>6. Len(w) \in Nat /\ SameUpTo(w, w, Len(w))
    BY <1>1 DEF SameUpTo
  <2>7. SameUpTo(f, h, Len(w))
    BY ONLY <1>3, <2>5, <2>6, ConcatenationUnique
  <2>8. f[Len(w)] = h[Len(w)]
    BY <1>1, <2>7 DEF SameUpTo
  <2>9. Len(w) - 1 = Len(t)
    BY <1>2
  <2> QED BY <1>1, <1>3, <2>1, <2>4, <2>8, <2>9 DEF t
<1> QED BY <1>4, <1>5
-----------------------------------------------------------------------------
(* Prefixes.                                                               *)

LEMMA PrefixByElements ==
  ASSUME NEW S, NEW s \in Seq(S), NEW t \in Seq(S)
  PROVE  IsPrefix(s, t) <=> /\ Len(s) <= Len(t)
                            /\ \A i \in 1..Len(s) : s[i] = t[i]
<1>1. /\ Len(s) \in Nat /\ Len(t) \in Nat
      /\ \A i \in 1..Len(s) : s[i] \in S
      /\ \A i \in 1..Len(t) : t[i] \in S
  BY LenProperties, ElementOfSeq
<1>2. SUFFICES ASSUME Len(s) <= Len(t)
      PROVE  SubSeq(s, 1, Len(s)) = SubSeq(t, 1, Len(s))
               <=> \A i \in 1..Len(s) : s[i] = t[i]
  BY DEF IsPrefix
<1> DEFINE c == SubSeq(t, 1, Len(s))
<1>3. \A i \in 1..Len(s) : t[i] \in S
  BY <1>1, <1>2
<1>4. /\ c \in Seq(S) /\ Len(c) = IF 1 <= Len(s) THEN Len(s) - 1 + 1 ELSE 0
      /\ \A i \in 1..(Len(s) - 1 + 1) : c[i] = t[1 + i - 1]
  BY <1>1, <1>3, SubSeqProperties
<1>5. SubSeq(s, 1, Len(s)) = s
  BY SubSeqFull
<1> HIDE DEF c
<1>6. Len(c) = Len(s) /\ \A i \in 1..Len(s) : c[i] = t[i]
  BY <1>1, <1>4
<1>7. ASSUME \A i \in 1..Len(s) : s[i] = t[i] PROVE s = c
  BY <1>4, <1>6, <1>7, SeqEqual
<1>8. s = c => \A i \in 1..Len(s) : s[i] = t[i]
  BY <1>6
<1> QED BY <1>5, <1>7, <1>8 DEF c

\* A prefix stays one when the sequence grows, and its own prefixes are some.
LEMMA PrefixOfConcat ==
  ASSUME NEW S, NEW s \in Seq(S), NEW t \in Seq(S), NEW u \in Seq(S)
  PROVE  /\ IsPrefix(s, s \o u)
         /\ IsPrefix(s, t) => IsPrefix(s, t \o u)
         /\ IsPrefix(s \o u, t) => IsPrefix(s, t)
<1>1. Len(s) \in Nat /\ Len(t) \in Nat /\ Len(u) \in Nat
  BY LenProperties
<1>2. /\ s \o u \in Seq(S) /\ Len(s \o u) = Len(s) + Len(u)
      /\ \A i \in 1..Len(s) : (s \o u)[i] = s[i]
  BY <1>1, ConcatProperties
<1>3. /\ t \o u \in Seq(S) /\ Len(t \o u) = Len(t) + Len(u)
      /\ \A i \in 1..Len(t) : (t \o u)[i] = t[i]
  BY <1>1, ConcatProperties
<1>4. IsPrefix(s, s \o u)
  <2>1. Len(s) <= Len(s \o u) /\ \A i \in 1..Len(s) : s[i] = (s \o u)[i]
    BY <1>1, <1>2
  <2> QED BY <1>2, <2>1, PrefixByElements
<1>5. ASSUME IsPrefix(s, t) PROVE IsPrefix(s, t \o u)
  <2>1. Len(s) <= Len(t) /\ \A i \in 1..Len(s) : s[i] = t[i]
    BY <1>5, PrefixByElements
  <2>2. Len(s) <= Len(t \o u) /\ \A i \in 1..Len(s) : s[i] = (t \o u)[i]
    BY <1>1, <1>3, <2>1
  <2> QED BY <1>3, <2>2, PrefixByElements
<1>6. ASSUME IsPrefix(s \o u, t) PROVE IsPrefix(s, t)
  <2>1. /\ Len(s \o u) <= Len(t)
        /\ \A i \in 1..Len(s \o u) : (s \o u)[i] = t[i]
    BY <1>2, <1>6, PrefixByElements
  <2>2. Len(s) <= Len(t) /\ \A i \in 1..Len(s) : s[i] = t[i]
    BY <1>1, <1>2, <2>1
  <2> QED BY <2>2, PrefixByElements
<1> QED BY <1>4, <1>5, <1>6
-----------------------------------------------------------------------------
(* What the label receiver gets.                                           *)

Delivered == received \o FlattenSeq(wire)

LEMMA DeliveredTypes ==
  ASSUME TypeOK
  PROVE  /\ received \in Seq(Label) /\ FlattenSeq(wire) \in Seq(Label)
         /\ wire \in Seq(Seq(Label)) /\ FlattenSeq(<<>>) = <<>>
         /\ Delivered \in Seq(Label) /\ stabilised \in Seq(Label)
         /\ deletedList \in Seq(Label) /\ Undelivered \in Seq(Label)
<1>1. /\ received \in Seq(Label) /\ wire \in Seq(Seq(Label))
      /\ stabilised \in Seq(Label) /\ deletedList \in Seq(Label)
  BY DEF TypeOK
<1>2. FlattenSeq(wire) \in Seq(Label) /\ FlattenSeq(<<>>) = <<>>
  BY <1>1, FlattenIsSeq
<1> QED BY <1>1, <1>2, ConcatProperties, EmptySeq DEF Delivered, Undelivered

\* Stable labels join deletedList; a batch written goes behind the others; a
\* batch read comes from the front; a closed connection loses the rear only.
LEMMA PrefixNext ==
  ASSUME TypeOK, ReceivedIsPrefix, [Next]_vars
  PROVE  ReceivedIsPrefix'
<1> USE DEF vnodeVars, connVars
<1>0. /\ received \in Seq(Label) /\ FlattenSeq(wire) \in Seq(Label)
      /\ deletedList \in Seq(Label)
  BY DeliveredTypes
<1>1. /\ IsPrefix(Delivered, stabilised)
      /\ conn = "up" => stabilised = Delivered \o Undelivered
  BY DEF ReceivedIsPrefix, Delivered
<1>2. SUFFICES /\ IsPrefix(Delivered', stabilised')
               /\ conn' = "up" => stabilised' = Delivered' \o Undelivered'
  BY DEF ReceivedIsPrefix, Delivered
<1>3. CASE Stabilise
  <2>1. PICK r \in Seq(Label) : /\ deletedList' = deletedList \o r
                                /\ stabilised' = stabilised \o r
    <3> DEFINE stable == GetStableTimestamp(m_heartbeat')
               r == SubSeq(m_storage, 1, FirstAbove(m_storage, stable) - 1)
    <3>1. pMsg \in ReceivedMessage
      BY <1>3 DEF Stabilise, TypeOK
    <3>2. stable \in Nat
      BY <1>3, <3>1, TableUpdate DEF Stabilise
    <3>3. r \in Seq(Label)
      BY <3>2, CutStorage DEF TypeOK
    <3>4. deletedList' = deletedList \o r /\ stabilised' = stabilised \o r
      BY <1>3 DEF Stabilise, DeletePossibleLabels
    <3> HIDE DEF r
    <3> QED BY <3>3, <3>4
  <2>2. /\ Delivered' = Delivered /\ conn' = conn
        /\ Undelivered = deletedList /\ Undelivered' = deletedList'
    BY <1>3 DEF Stabilise, Delivered, Undelivered
  <2>3. (Delivered \o Undelivered) \o r = Delivered \o (Undelivered \o r)
    <3>1. Delivered \in Seq(Label) /\ Undelivered \in Seq(Label)
      BY DeliveredTypes
    <3> QED BY ONLY <2>1, <3>1, Associative
  <2>4. IsPrefix(Delivered, stabilised \o r)
    BY <1>1, DeliveredTypes, PrefixOfConcat
  <2> QED BY <1>1, <2>1, <2>2, <2>3, <2>4
<1>4. CASE WriteBatch
  <2>1. /\ Undelivered = deletedList
        /\ UNCHANGED <<conn, received, stabilised>>
    BY <1>4 DEF WriteBatch, Undelivered
  <2>2. CASE conn = "up"
    <3>1. wire' = Append(wire, deletedList) /\ Undelivered' = <<>>
      BY <1>4, <2>2 DEF WriteBatch, Undelivered
    <3>2. FlattenSeq(wire') = FlattenSeq(wire) \o deletedList
      BY <3>1, DeliveredTypes, FlattenAppend
    <3>3. Delivered' = Delivered \o deletedList
      <4>1. (received \o FlattenSeq(wire)) \o deletedList
              = received \o (FlattenSeq(wire) \o deletedList)
        BY ONLY <1>0, Associative
      <4> QED BY <2>1, <3>2, <4>1 DEF Delivered
    <3>4. stabilised' = Delivered' /\ Delivered' \in Seq(Label)
      BY <1>1, <2>1, <2>2, <3>3, DeliveredTypes
    <3>5. Delivered' \o <<>> = Delivered'
      BY <3>4, ConcatEmptySeq
    <3>6. IsPrefix(Delivered', Delivered' \o <<>>)
      BY <3>4, EmptySeq, PrefixOfConcat
    <3> QED BY <3>1, <3>4, <3>5, <3>6
  <2>3. CASE conn # "up"
    <3>1. wire' = wire
      BY <1>4, <2>3 DEF WriteBatch
    <3> QED BY <1>1, <2>1, <2>3, <3>1 DEF Delivered
  <2> QED BY <2>2, <2>3
<1>5. CASE ReceiverReplies
  <2>1. /\ wire # <<>> /\ wire' = Tail(wire)
        /\ received' = received \o Head(wire)
        /\ UNCHANGED <<conn, stabilised, pc, deletedList>>
    BY <1>5 DEF ReceiverReplies
  <2>2. Head(wire) \in Seq(Label) /\ Tail(wire) \in Seq(Seq(Label))
    BY <2>1, DeliveredTypes, HeadTailProperties
  <2>3. FlattenSeq(Tail(wire)) \in Seq(Label)
    BY <2>2, FlattenIsSeq
  <2>4. FlattenSeq(wire) = Head(wire) \o FlattenSeq(Tail(wire))
    BY <2>1, DeliveredTypes, FlattenHeadTail
  <2>5. (received \o Head(wire)) \o FlattenSeq(Tail(wire))
          = received \o (Head(wire) \o FlattenSeq(Tail(wire)))
    <3> DEFINE b == Head(wire)
               c == FlattenSeq(Tail(wire))
    <3>1. b \in Seq(Label) /\ c \in Seq(Label)
      BY <2>2, <2>3
    <3> HIDE DEF b, c
    <3>2. (received \o b) \o c = received \o (b \o c)
      BY ONLY <1>0, <3>1, Associative, SMTT(30)
    <3> QED BY ONLY <3>2 DEF b, c
  <2>6. Delivered' = Delivered /\ Undelivered' = Undelivered
    BY <2>1, <2>4, <2>5 DEF Delivered, Undelivered
  <2> QED BY <1>1, <2>1, <2>6
<1>6. CASE ReceiverCloses
  <2>1. /\ conn' = "closed" /\ wire' = <<>>
        /\ UNCHANGED <<received, stabilised>>
    BY <1>6 DEF ReceiverCloses
  <2>2. Delivered' = received
    BY <2>1, DeliveredTypes, ConcatEmptySeq DEF Delivered
  <2>3. IsPrefix(received, stabilised)
    BY <1>1, DeliveredTypes, PrefixOfConcat DEF Delivered
  <2> QED BY <2>1, <2>2, <2>3
<1>7. CASE \/ Vnodes \/ TakeMessage \/ InsertBatchLabels \/ SkipDelivery
           \/ ReadReply \/ Report \/ UNCHANGED vars
  <2>1. /\ UNCHANGED <<conn, wire, received, stabilised>>
        /\ Undelivered' = Undelivered
    BY <1>7 DEF Vnodes, Send, TakeMessage, InsertBatchLabels, SkipDelivery,
                ReadReply, Report, vars, Undelivered
  <2> QED BY <1>1, <2>1 DEF Delivered
<1> QED
  BY <1>3, <1>4, <1>5, <1>6, <1>7 DEF Next, Processor

(***************************************************************************)
(* The label receiver gets the stable order from its beginning, without a  *)
(* gap or a repetition, for batches of any length, any timing and any      *)
(* fate of the connection.                                                 *)
(***************************************************************************)
THEOREM ReceiverGetsPrefix == Spec => []ReceivedIsPrefix
<1>1. Init => TypeOK
  BY TypeInit
<1>2. Init => ReceivedIsPrefix
  <2> SUFFICES ASSUME Init PROVE ReceivedIsPrefix
    OBVIOUS
  <2>1. /\ received = <<>> /\ wire = <<>> /\ stabilised = <<>>
        /\ Undelivered = <<>>
    BY DEF Init, Undelivered
  <2>2. <<>> \o <<>> = <<>> /\ <<>> \in Seq(Label)
    BY EmptySeq, ConcatEmptySeq
  <2>3. received \o FlattenSeq(wire) = <<>>
    BY <1>1, <2>1, <2>2, DeliveredTypes
  <2>4. IsPrefix(<<>>, <<>>)
    BY <2>2, PrefixOfConcat
  <2> QED BY <2>1, <2>2, <2>3, <2>4 DEF ReceivedIsPrefix
<1>3. TypeOK /\ [Next]_vars => TypeOK'
  BY TypeNext
<1>4. TypeOK /\ ReceivedIsPrefix /\ [Next]_vars => ReceivedIsPrefix'
  BY PrefixNext
<1> QED BY <1>1, <1>2, <1>3, <1>4, PTL DEF Spec

-----------------------------------------------------------------------------
(***************************************************************************)
(* No label is lost, and processQ implements OrderedDelivery.  LabelInv is *)
(* the inductive invariant.  It speaks of sets of labels, so first come    *)
(* the sets each step of the program turns into which.                     *)
(***************************************************************************)

-----------------------------------------------------------------------------
(* Sequences and their sets of elements.                                   *)

LEMMA ToSetElements ==
  ASSUME NEW S, NEW s \in Seq(S)
  PROVE  /\ ToSet(s) = {s[i] : i \in 1..Len(s)}
         /\ ToSet(s) \subseteq S
<1>1. DOMAIN s = 1..Len(s) /\ \A i \in 1..Len(s) : s[i] \in S
  BY LenProperties, ElementOfSeq
<1> QED BY <1>1 DEF ToSet

LEMMA ToSetEmpty == ToSet(<<>>) = {}
BY EmptySeq, LenProperties DEF ToSet

\* An inserted label joins the others.
LEMMA ToSetInsert ==
  ASSUME NEW s \in Seq(Label), NEW l \in Label
  PROVE  ToSet(MultimapInsert(s, l)) = ToSet(s) \cup {l}
<1> DEFINE r == MultimapInsert(s, l)
           k == FirstAbove(s, l.ts)
<1>1. /\ r \in Seq(Label) /\ Len(r) = Len(s) + 1 /\ Len(s) \in Nat
      /\ \A i \in 1..(Len(s) + 1) :
           r[i] = IF i < k THEN s[i] ELSE IF i = k THEN l ELSE s[i - 1]
  BY MultimapInsertIsSeq, LenProperties
<1>2. k \in 1..(Len(s) + 1)
  BY FirstAboveStops DEF Label
<1>3. ToSet(r) = {r[i] : i \in 1..Len(r)} /\ ToSet(s) = {s[i] : i \in 1..Len(s)}
  BY <1>1, ToSetElements
<1> HIDE DEF r, k
<1>4. ASSUME NEW i \in 1..Len(r) PROVE r[i] \in ToSet(s) \cup {l}
  <2>1. CASE i < k
    <3>1. r[i] = s[i] /\ i \in 1..Len(s)
      BY <1>1, <1>2, <2>1
    <3> QED BY <3>1, <1>3
  <2>2. CASE i = k
    BY <1>1, <2>2
  <2>3. CASE i > k
    <3>1. r[i] = s[i - 1] /\ i - 1 \in 1..Len(s)
      BY <1>1, <1>2, <2>3
    <3> QED BY <3>1, <1>3
  <2> QED BY <2>1, <2>2, <2>3, <1>1, <1>2
<1>5. ASSUME NEW i \in 1..Len(s) PROVE s[i] \in ToSet(r)
  <2>1. CASE i < k
    <3>1. r[i] = s[i] /\ i \in 1..Len(r)
      BY <1>1, <1>2, <2>1
    <3> QED BY <3>1, <1>3
  <2>2. CASE i >= k
    <3>1. r[i + 1] = s[i] /\ i + 1 \in 1..Len(r)
      BY <1>1, <1>2, <2>2
    <3> QED BY <3>1, <1>3
  <2> QED BY <2>1, <2>2, <1>1, <1>2
<1>6. l \in ToSet(r)
  <2>1. r[k] = l /\ k \in 1..Len(r)
    BY <1>1, <1>2
  <2> QED BY <2>1, <1>3
<1>7. ToSet(r) = ToSet(s) \cup {l}
  BY <1>3, <1>4, <1>5, <1>6
<1> QED BY <1>7 DEF r

-----------------------------------------------------------------------------
(* Where the labels are.                                                   *)

LEMMA LabelTypes ==
  ASSUME TypeOK
  PROVE  /\ Inserted \subseteq Label
         /\ ToSet(ToInsert) \subseteq Label
         /\ \A i \in 1..Len(m_ptrComQ) : Queued(i) \subseteq Label
         /\ SentLabels = Inserted \cup ToSet(ToInsert)
                           \cup UNION {Queued(i) : i \in 1..Len(m_ptrComQ)}
         /\ SentLabels \subseteq Label
<1>1. ToSet(m_storage) \subseteq Label /\ ToSet(stabilised) \subseteq Label
  BY ToSetElements DEF TypeOK
<1>2. \A i \in 1..Len(m_ptrComQ) : Queued(i) \subseteq Label
  <2>1. \A i \in 1..Len(m_ptrComQ) : m_ptrComQ[i].labels \in Seq(Label)
    BY TimestampTypes DEF ReceivedMessage
  <2> QED BY <2>1, ToSetElements DEF Queued
<1>3. ToSet(ToInsert) \subseteq Label
  <2>1. CASE pc = "insert"
    <3>1. /\ pMsg.labels \in Seq(Label) /\ Len(pMsg.labels) \in Nat
          /\ n \in Nat \ {0}
      BY <2>1, MessageTypes DEF TypeOK
    <3>2. \A i \in n..Len(pMsg.labels) : pMsg.labels[i] \in Label
      BY <2>1, <3>1, MessageTypes
    <3>3. SubSeq(pMsg.labels, n, Len(pMsg.labels)) \in Seq(Label)
      BY <3>1, <3>2, SubSeqProperties
    <3> QED BY <2>1, <3>3, ToSetElements DEF ToInsert
  <2>2. CASE pc # "insert"
    BY <2>2, ToSetEmpty DEF ToInsert
  <2> QED BY <2>1, <2>2
<1>4. SentLabels = Inserted \cup ToSet(ToInsert)
                     \cup UNION {Queued(i) : i \in 1..Len(m_ptrComQ)}
  BY DEF SentLabels, Unstable, Inserted, Queued
<1> QED BY <1>1, <1>2, <1>3, <1>4 DEF Inserted

\* The labels of pMsg that are left: from the n-th on.
LEMMA ToInsertSet ==
  ASSUME TypeOK
  PROVE  /\ pc = "insert" => ToSet(ToInsert)
                               = {pMsg.labels[i] : i \in n..Len(pMsg.labels)}
         /\ pc # "insert" => ToSet(ToInsert) = {}
<1>1. CASE pc = "insert"
  <2> DEFINE ls == pMsg.labels
             r == SubSeq(ls, n, Len(ls))
  <2>1. /\ ls \in Seq(Label) /\ Len(ls) \in Nat /\ n \in Nat \ {0}
        /\ \A i \in n..Len(ls) : ls[i] \in Label
    BY <1>1, MessageTypes DEF TypeOK
  <2>0. ToInsert = SubSeq(ls, n, Len(ls)) /\ n \in Int /\ Len(ls) \in Int
    BY <1>1, <2>1 DEF ToInsert
  <2> HIDE DEF ls
  <2>2. /\ r \in Seq(Label)
        /\ Len(r) = IF n <= Len(ls) THEN Len(ls) - n + 1 ELSE 0
        /\ \A i \in 1..(Len(ls) - n + 1) : r[i] = ls[n + i - 1]
    BY ONLY <2>0, <2>1, SubSeqProperties
  <2>3. ToSet(r) = {r[i] : i \in 1..Len(r)}
    BY <2>2, ToSetElements
  <2>4. ToInsert = r
    BY <2>0
  <2> HIDE DEF r
  <2>5. ASSUME NEW i \in 1..Len(r)
        PROVE  r[i] = ls[n + i - 1] /\ n + i - 1 \in n..Len(ls)
    BY <2>1, <2>2
  <2>6. ASSUME NEW i \in n..Len(ls)
        PROVE  ls[i] = r[i - n + 1] /\ i - n + 1 \in 1..Len(r)
    <3>1. i - n + 1 \in 1..Len(r) /\ i - n + 1 \in 1..(Len(ls) - n + 1)
          /\ n + (i - n + 1) - 1 = i
      BY <2>1, <2>2
    <3> QED BY <2>2, <3>1
  <2>7. ToSet(ToInsert) = {ls[i] : i \in n..Len(ls)}
    <3>1. \A x : x \in {r[i] : i \in 1..Len(r)} <=> x \in {ls[i] : i \in n..Len(ls)}
      BY ONLY <2>5, <2>6
    <3> QED BY ONLY <3>1, <2>3, <2>4
  <2> QED BY <1>1, <2>7 DEF ls
<1>2. CASE pc # "insert"
  BY <1>2, ToSetEmpty DEF ToInsert
<1> QED BY <1>1, <1>2
\* The same of the next state.
LEMMA NextToInsertSet ==
  TypeOK' =>
    /\ pc' = "insert" => ToSet(ToInsert)'
                           = {pMsg'.labels[i] : i \in n'..Len(pMsg'.labels)}
    /\ pc' # "insert" => ToSet(ToInsert)' = {}
<1> DEFINE F == /\ pc = "insert" => ToSet(ToInsert)
                                  = {pMsg.labels[i] : i \in n..Len(pMsg.labels)}
                /\ pc # "insert" => ToSet(ToInsert) = {}
<1>1. TypeOK => F
  BY ToInsertSet
<1> HIDE DEF F
<1>2. TypeOK' => F'
  BY <1>1, PTL
<1> QED BY <1>2 DEF F

-----------------------------------------------------------------------------
(* What the steps do to the places.                                        *)

\* Vnode p puts a message with the labels ls at the end of the queue.
Sends(p, hb, ls) ==
  /\ hb >= lastHeartbeat[p]
  /\ lastHeartbeat' = [lastHeartbeat EXCEPT ![p] = hb]
  /\ labelCount[p] + Len(ls) <= MaxLabels
  /\ labelCount' = [labelCount EXCEPT ![p] = @ + Len(ls)]
  /\ \A i \in 1..Len(ls) :
       /\ ls[i].ts \in 0..MaxTimestamp
       /\ ls[i].ts >= lastHeartbeat[p]
       /\ ls[i].val = <<p, labelCount[p] + i>>
  /\ Len(m_ptrComQ') = Len(m_ptrComQ) + 1
  /\ \A i \in 1..Len(m_ptrComQ) : m_ptrComQ'[i] = m_ptrComQ[i]
  /\ m_ptrComQ'[Len(m_ptrComQ) + 1].labels = ls
  /\ UNCHANGED <<pc, pMsg, n, m_heartbeat, m_storage, stabilised>>
  /\ UNCHANGED <<Inserted, ToInsert>>
  /\ SentLabels' = SentLabels \cup ToSet(ls)

LEMMA SendEffect ==
  ASSUME TypeOK, Vnodes
  PROVE  \E p \in Senders, hb \in 0..MaxTimestamp, ls \in Seq(Label) :
           Sends(p, hb, ls)
<1>1. PICK p \in Senders, hb \in 0..MaxTimestamp, len \in MinBatch..MaxBatch :
        \E stamps \in [1..len -> 0..MaxTimestamp] : Send(p, hb, stamps)
  BY DEF Vnodes
<1>2. PICK stamps \in [1..len -> 0..MaxTimestamp] : Send(p, hb, stamps)
  BY <1>1
<1> DEFINE ls == [i \in 1..Len(stamps) |->
                    [ts |-> stamps[i], val |-> <<p, labelCount[p] + i>>]]
           m == [pid |-> p, hb |-> hb, labels |-> ls]
           q == m_ptrComQ
<1>3. Len(stamps) = len /\ len \in Nat /\ ls \in Seq(Label) /\ Len(ls) = len
  BY SentMessage
<1>4. \A i \in 1..len : /\ ls[i].ts = stamps[i]
                        /\ ls[i].val = <<p, labelCount[p] + i>>
  BY <1>3
<1>5. q' = Append(q, m)
  BY <1>2 DEF Send, NewMessage
<1>6. /\ hb >= lastHeartbeat[p]
      /\ \A i \in 1..len : stamps[i] >= lastHeartbeat[p]
      /\ lastHeartbeat' = [lastHeartbeat EXCEPT ![p] = hb]
      /\ labelCount' = [labelCount EXCEPT ![p] = @ + len]
      /\ labelCount[p] + len <= MaxLabels
      /\ UNCHANGED <<pc, pMsg, n, m_heartbeat, m_storage, stabilised>>
  BY <1>2, <1>3 DEF Send
<1> HIDE DEF ls
<1>7. m \in ReceivedMessage /\ m.labels = ls
  BY <1>3, ConstantsAssumption DEF ReceivedMessage
<1> HIDE DEF m
<1>8. /\ Len(q') = Len(q) + 1
      /\ \A i \in 1..Len(q) : q'[i] = q[i]
      /\ q'[Len(q) + 1] = m
  BY <1>5, <1>7, AppendProperties DEF TypeOK
<1>9. UNCHANGED <<Inserted, ToInsert>>
  BY <1>6 DEF Inserted, ToInsert
<1>10. SentLabels' = SentLabels \cup ToSet(ls)
  <2>1. Len(q) \in Nat
    BY TimestampTypes
  <2>2. UNION {ToSet(q'[i].labels) : i \in 1..Len(q')}
          = ToSet(ls) \cup UNION {ToSet(q[i].labels) : i \in 1..Len(q)}
    <3>1. \A i \in 1..Len(q') : \/ i \in 1..Len(q) /\ q'[i].labels = q[i].labels
                                \/ q'[i].labels = ls
      BY <2>1, <1>7, <1>8
    <3>2. /\ \A i \in 1..Len(q) : i \in 1..Len(q') /\ q'[i].labels = q[i].labels
          /\ Len(q) + 1 \in 1..Len(q') /\ q'[Len(q) + 1].labels = ls
      BY <2>1, <1>7, <1>8
    <3> HIDE DEF q
    <3> QED BY ONLY <3>1, <3>2, Zenon
  <2> QED BY <1>6, <1>9, <2>2 DEF SentLabels, Unstable, Inserted
<1>11. /\ q'[Len(q) + 1].labels = ls /\ len \in Nat
  BY <1>3, <1>7, <1>8
<1>12. Sends(p, hb, ls)
  BY <1>3, <1>4, <1>6, <1>8, <1>9, <1>10, <1>11 DEF Sends
<1> QED BY <1>3, <1>12

\* The first message of the queue is pMsg now, with nothing of it inserted.
LEMMA TakeEffect ==
  ASSUME TypeOK, TakeMessage
  PROVE  /\ Len(m_ptrComQ) \in Nat \ {0}
         /\ Len(m_ptrComQ') = Len(m_ptrComQ) - 1
         /\ \A i \in 1..Len(m_ptrComQ') : m_ptrComQ'[i] = m_ptrComQ[i + 1]
         /\ pMsg' = m_ptrComQ[1]
         /\ ToSet(ToInsert) = {}
         /\ ToSet(ToInsert)' = Queued(1)
         /\ UNCHANGED <<labelCount, lastHeartbeat, m_heartbeat, m_storage,
                        stabilised, Inserted, SentLabels>>
<1> DEFINE q == m_ptrComQ
<1>1. /\ pc = "poll" /\ q # <<>> /\ pMsg' = Head(q) /\ q' = Tail(q)
      /\ n' = 1 /\ pc' = "insert"
      /\ UNCHANGED <<labelCount, lastHeartbeat, m_heartbeat, m_storage, stabilised>>
  BY DEF TakeMessage, vnodeVars
<1>2. q \in Seq(ReceivedMessage) /\ Len(q) \in Nat \ {0}
  BY <1>1, EmptySeq DEF TypeOK
<1>3. /\ pMsg' = q[1]
      /\ Len(q') = Len(q) - 1
      /\ \A i \in 1..Len(q') : q'[i] = q[i + 1]
  BY <1>1, <1>2, HeadTailProperties
<1>4. ToSet(ToInsert) = {}
  BY <1>1, ToInsertSet
<1>5. ToSet(ToInsert)' = Queued(1)
  <2>1. 1 \in 1..Len(q)
    BY <1>2
  <2>2. q[1].labels \in Seq(Label)
    BY <2>1, TimestampTypes DEF ReceivedMessage
  <2>3. ToInsert' = SubSeq(q[1].labels, 1, Len(q[1].labels))
    BY <1>1, <1>3 DEF ToInsert
  <2> QED BY <2>2, <2>3, SubSeqFull DEF Queued
<1>6. UNCHANGED Inserted
  BY <1>1 DEF Inserted
<1>7. UNCHANGED SentLabels
  <2>1. UNION {ToSet(q[i].labels) : i \in 1..Len(q)}
          = ToSet(q[1].labels) \cup UNION {ToSet(q'[i].labels) : i \in 1..Len(q')}
    <3>1. \A i \in 1..Len(q) :
            \/ i = 1
            \/ i - 1 \in 1..Len(q') /\ q'[i - 1].labels = q[i].labels
      BY <1>2, <1>3
    <3>2. /\ \A i \in 1..Len(q') : i + 1 \in 1..Len(q) /\ q'[i].labels = q[i + 1].labels
          /\ 1 \in 1..Len(q)
      BY <1>2, <1>3
    <3> HIDE DEF q
    <3> QED BY ONLY <3>1, <3>2, Zenon
  <2> QED BY <2>1, <1>1, <1>4, <1>5, <1>6 DEF SentLabels, Unstable, Inserted, Queued
<1> QED BY <1>1, <1>2, <1>3, <1>4, <1>5, <1>6, <1>7
\* The next label of pMsg goes to m_storage.
LEMMA InsertEffect ==
  ASSUME TypeOK, InsertBatchLabels
  PROVE  LET l == pMsg.labels[n] IN
         /\ n \in 1..Len(pMsg.labels) /\ l \in Label
         /\ m_storage' = MultimapInsert(m_storage, l)
         /\ l \in ToSet(ToInsert)
         /\ ToSet(ToInsert)' \subseteq ToSet(ToInsert)
         /\ ToSet(ToInsert)' = {pMsg.labels[i] : i \in (n + 1)..Len(pMsg.labels)}
         /\ Inserted' = Inserted \cup {l}
         /\ UNCHANGED <<labelCount, lastHeartbeat, m_ptrComQ, pc, pMsg,
                        m_heartbeat, stabilised, SentLabels>>
<1> DEFINE l == pMsg.labels[n]
<1>1. /\ pc = "insert" /\ pMsg.labels \in Seq(Label) /\ Len(pMsg.labels) \in Nat
      /\ n \in 1..Len(pMsg.labels) /\ l \in Label
  BY MessageTypes DEF InsertBatchLabels, TypeOK
<1>2. /\ m_storage' = MultimapInsert(m_storage, l) /\ n' = n + 1
      /\ UNCHANGED <<labelCount, lastHeartbeat, m_ptrComQ, pc, pMsg,
                     m_heartbeat, stabilised>>
  BY DEF InsertBatchLabels, vnodeVars
<1> HIDE DEF l
<1>3. ToSet(ToInsert) = {pMsg.labels[i] : i \in n..Len(pMsg.labels)}
  BY <1>1, ToInsertSet
<1>4. ToSet(ToInsert)' = {pMsg.labels[i] : i \in (n + 1)..Len(pMsg.labels)}
  <2>1. TypeOK'
    BY TypeNext DEF Next, Processor
  <2>2. pc' = "insert" => ToSet(ToInsert)'
                            = {pMsg'.labels[i] : i \in n'..Len(pMsg'.labels)}
    BY <2>1, NextToInsertSet
  <2> QED BY <1>1, <1>2, <2>2
<1>5. ToSet(ToInsert) = ToSet(ToInsert)' \cup {l}
  <2>1. \A i \in n..Len(pMsg.labels) : i = n \/ i \in (n + 1)..Len(pMsg.labels)
    BY <1>1
  <2>2. /\ n \in n..Len(pMsg.labels)
        /\ \A i \in (n + 1)..Len(pMsg.labels) : i \in n..Len(pMsg.labels)
    BY <1>1
  <2> QED BY ONLY <1>3, <1>4, <2>1, <2>2 DEF l
<1>6. Inserted' = Inserted \cup {l}
  <2>1. ToSet(MultimapInsert(m_storage, l)) = ToSet(m_storage) \cup {l}
    BY <1>1, ToSetInsert DEF TypeOK
  <2> QED BY <1>2, <2>1 DEF Inserted
<1>7. UNCHANGED SentLabels
  <2>1. SentLabels = Inserted \cup ToSet(ToInsert)
                       \cup UNION {ToSet(m_ptrComQ[i].labels) : i \in 1..Len(m_ptrComQ)}
    BY DEF SentLabels, Unstable, Inserted
  <2>2. SentLabels' = Inserted' \cup ToSet(ToInsert)'
                       \cup UNION {ToSet(m_ptrComQ'[i].labels) : i \in 1..Len(m_ptrComQ')}
    BY DEF SentLabels, Unstable, Inserted
  <2> QED BY <1>2, <1>5, <1>6, <2>1, <2>2
<1> QED BY <1>1, <1>2, <1>4, <1>5, <1>6, <1>7 DEF l

\* Stable labels change places, and no other does.
LEMMA StabiliseMovesLabels ==
  ASSUME TypeOK, OrderInv, Stabilise
  PROVE  /\ ToSet(ToInsert) = {} /\ ToSet(ToInsert)' = {}
         /\ UNCHANGED <<labelCount, lastHeartbeat, m_ptrComQ, pMsg, Inserted,
                        SentLabels>>
<1> DEFINE it == FirstAbove(m_storage, GetStableTimestamp(m_heartbeat'))
           sto == m_storage
           st == stabilised
<1>1. /\ it \in 1..(Len(sto) + 1)
      /\ Len(sto') = Len(sto) - it + 1
      /\ \A i \in 1..Len(sto') : sto'[i] = sto[it + i - 1]
      /\ Len(st') = Len(st) + it - 1
      /\ \A i \in 1..Len(st') :
           st'[i] = IF i <= Len(st) THEN st[i] ELSE sto[i - Len(st)]
  BY StabiliseEffect
<1> HIDE DEF it
<1>2. /\ pc = "insert" /\ n > Len(pMsg.labels) /\ pc' # "insert"
      /\ UNCHANGED <<labelCount, lastHeartbeat, m_ptrComQ, pMsg>>
  BY DEF Stabilise, vnodeVars
<1>3. Len(sto) \in Nat /\ Len(st) \in Nat /\ n \in Nat /\ Len(pMsg.labels) \in Nat
  BY <1>2, TimestampTypes, MessageTypes DEF TypeOK
<1>4. ToSet(ToInsert) = {} /\ ToSet(ToInsert)' = {}
  <2>1. n..Len(pMsg.labels) = {}
    BY <1>2, <1>3
  <2>2. ToInsert' = <<>>
    BY <1>2 DEF ToInsert
  <2> QED BY <1>2, <2>1, <2>2, ToInsertSet, ToSetEmpty
<1>5. TypeOK'
  BY TypeNext DEF Next, Processor
<1>6. /\ ToSet(sto) = {sto[i] : i \in 1..Len(sto)}
      /\ ToSet(st) = {st[i] : i \in 1..Len(st)}
      /\ ToSet(sto') = {sto'[i] : i \in 1..Len(sto')}
      /\ ToSet(st') = {st'[i] : i \in 1..Len(st')}
  BY <1>5, ToSetElements DEF TypeOK
<1>7. ASSUME NEW i \in 1..Len(sto) PROVE sto[i] \in ToSet(sto') \cup ToSet(st')
  <2>1. CASE i < it
    <3>1. Len(st) + i \in 1..Len(st') /\ st'[Len(st) + i] = sto[i]
      BY <1>1, <1>3, <2>1
    <3> QED BY <3>1, <1>6
  <2>2. CASE i >= it
    <3>1. i - it + 1 \in 1..Len(sto') /\ it + (i - it + 1) - 1 = i
      BY <1>1, <1>3, <2>2
    <3>2. sto'[i - it + 1] = sto[i]
      BY <1>1, <3>1
    <3> QED BY <3>1, <3>2, <1>6
  <2> QED BY <2>1, <2>2, <1>1, <1>3
<1>8. ASSUME NEW i \in 1..Len(st) PROVE st[i] \in ToSet(st')
  <2>1. i \in 1..Len(st') /\ st'[i] = st[i]
    BY <1>1, <1>3
  <2> QED BY <2>1, <1>6
<1>9. ASSUME NEW i \in 1..Len(sto') PROVE sto'[i] \in ToSet(sto)
  <2>1. it + i - 1 \in 1..Len(sto) /\ sto'[i] = sto[it + i - 1]
    BY <1>1, <1>3
  <2> QED BY <2>1, <1>6
<1>10. ASSUME NEW i \in 1..Len(st') PROVE st'[i] \in ToSet(sto) \cup ToSet(st)
  <2>1. CASE i <= Len(st)
    <3>1. i \in 1..Len(st) /\ st'[i] = st[i]
      BY <1>1, <1>3, <2>1
    <3> QED BY <3>1, <1>6
  <2>2. CASE i > Len(st)
    <3>1. i - Len(st) \in 1..Len(sto) /\ st'[i] = sto[i - Len(st)]
      BY <1>1, <1>3, <2>2
    <3> QED BY <3>1, <1>6
  <2> QED BY <2>1, <2>2, <1>1, <1>3
<1>11. UNCHANGED Inserted
  <2>1. ToSet(sto') \cup ToSet(st') = ToSet(sto) \cup ToSet(st)
    <3>1. \A x : x \in ToSet(sto') \cup ToSet(st')
                   => x \in ToSet(sto) \cup ToSet(st)
      BY ONLY <1>6, <1>9, <1>10
    <3>2. \A x : x \in ToSet(sto) \cup ToSet(st)
                   => x \in ToSet(sto') \cup ToSet(st')
      BY ONLY <1>6, <1>7, <1>8
    <3> QED BY ONLY <3>1, <3>2
  <2> QED BY <2>1 DEF Inserted
<1>12. UNCHANGED SentLabels
  <2>1. SentLabels = Inserted \cup ToSet(ToInsert)
                       \cup UNION {ToSet(m_ptrComQ[i].labels) : i \in 1..Len(m_ptrComQ)}
    BY DEF SentLabels, Unstable, Inserted
  <2>2. SentLabels' = Inserted' \cup ToSet(ToInsert)'
                       \cup UNION {ToSet(m_ptrComQ'[i].labels) : i \in 1..Len(m_ptrComQ')}
    BY DEF SentLabels, Unstable, Inserted
  <2> QED BY <1>2, <1>4, <1>11, <2>1, <2>2
<1> QED BY <1>2, <1>4, <1>11, <1>12

\* Delivery, the label receiver and the statistics move no label that is not
\* stable yet.
LEMMA OtherStepsMoveNone ==
  ASSUME TypeOK, \/ SkipDelivery \/ WriteBatch \/ ReadReply \/ Report
                 \/ ReceiverReplies \/ ReceiverCloses \/ UNCHANGED vars
  PROVE  /\ UNCHANGED <<labelCount, lastHeartbeat, m_ptrComQ, m_heartbeat,
                        m_storage, stabilised, Inserted, ToInsert, SentLabels>>
         /\ pc' # "insert" \/ UNCHANGED <<pc, pMsg>>
<1>1. /\ UNCHANGED <<labelCount, lastHeartbeat, m_ptrComQ, m_heartbeat,
                     m_storage, stabilised>>
      /\ \/ pc # "insert" /\ pc' # "insert"
         \/ UNCHANGED <<pc, pMsg, n>>
  BY DEF SkipDelivery, WriteBatch, ReadReply, Report, ReceiverReplies,
         ReceiverCloses, vars, vnodeVars
<1>2. UNCHANGED ToInsert
  BY <1>1 DEF ToInsert
<1> QED BY <1>1, <1>2 DEF Inserted, SentLabels, Unstable
-----------------------------------------------------------------------------
(* LabelInv is inductive.                                                  *)

LEMMA LabelInit == Init => LabelInv
<1> SUFFICES ASSUME Init PROVE LabelInv
  OBVIOUS
<1>1. /\ m_ptrComQ = <<>> /\ m_storage = <<>> /\ stabilised = <<>>
      /\ ToInsert = <<>> /\ pc # "insert"
      /\ \A p \in Senders : labelCount[p] = 0
      /\ \A q \in 1..ClientCount : m_heartbeat[q] = 0
  BY DEF Init, ToInsert
<1>2. Len(<<>>) = 0 /\ 1..0 = {} /\ MaxLabels \in Nat
  BY EmptySeq, ConstantsAssumption
<1>3. Inserted = {} /\ ToSet(ToInsert) = {} /\ SentLabels = {}
  BY <1>1, <1>2, ToSetEmpty DEF Inserted, SentLabels, Unstable
<1> QED
  BY <1>1, <1>2, <1>3 DEF LabelInv, LabelsNumbered, NumbersInOrder, SentBefore,
                          InsertedOnce, SilentPartitions, NumbersKept

\* A label is a timestamp and a number of one of the senders.
LEMMA LabelParts ==
  \A l \in Label : /\ l.ts \in Nat
                   /\ l.val[1] \in Senders /\ l.val[2] \in Nat
                   /\ l.val = <<l.val[1], l.val[2]>>
BY DEF Label

\* A vnode numbers on: its new labels come after all it has sent.
LEMMA SendKeepsLabels ==
  ASSUME TypeOK, LabelInv, Vnodes
  PROVE  LabelInv'
<1> DEFINE q == m_ptrComQ
<1>1. PICK p \in Senders, hb \in 0..MaxTimestamp, ls \in Seq(Label) :
        Sends(p, hb, ls)
  BY SendEffect
<1>2. /\ labelCount[p] + Len(ls) <= MaxLabels
      /\ Len(q') = Len(q) + 1
      /\ \A i \in 1..Len(q) : q'[i] = q[i]
      /\ q'[Len(q) + 1].labels = ls
      /\ UNCHANGED <<pc, pMsg, m_heartbeat, m_storage, stabilised>>
      /\ UNCHANGED <<Inserted, ToInsert>>
      /\ SentLabels' = SentLabels \cup ToSet(ls)
  BY <1>1 DEF Sends
<1>3. /\ labelCount \in [Senders -> Nat] /\ Len(q) \in Nat
      /\ MaxTimestamp \in Nat /\ Len(ls) \in Nat
  BY TimestampTypes, LenProperties, ConstantsAssumption DEF TypeOK
<1>4. \A r \in Senders : /\ labelCount[r] \in Nat /\ labelCount'[r] \in Nat
                         /\ labelCount[r] <= labelCount'[r]
                         /\ r # p => labelCount'[r] = labelCount[r]
  BY <1>1, <1>3 DEF Sends
<1>5. labelCount'[p] = labelCount[p] + Len(ls)
  BY <1>1, <1>3 DEF Sends
<1>6. ToSet(ls) = {ls[i] : i \in 1..Len(ls)}
  BY ToSetElements
<1>7. \A i \in 1..Len(ls) : /\ ls[i].ts \in 0..MaxTimestamp
                            /\ ls[i].val = <<p, labelCount[p] + i>>
                            /\ ls[i].val[1] = p /\ ls[i].val[2] = labelCount[p] + i
  BY <1>1 DEF Sends
<1>8. \A k \in SentLabels : /\ k.ts \in Nat /\ k.ts <= MaxTimestamp
                            /\ k.val[1] \in Senders
                            /\ k.val[2] \in 1..labelCount[k.val[1]]
  BY LabelTypes, LabelParts DEF LabelInv, LabelsNumbered
<1>9. LabelsNumbered'
  <2>1. \A r \in Senders : labelCount'[r] <= MaxLabels
    BY <1>2, <1>4, <1>5 DEF LabelInv, LabelsNumbered
  <2>2. \A k \in SentLabels :
          k.ts <= MaxTimestamp /\ k.val[2] \in 1..labelCount'[k.val[1]]
    BY <1>4, <1>8
  <2>3. \A k \in ToSet(ls) :
          k.ts <= MaxTimestamp /\ k.val[2] \in 1..labelCount'[k.val[1]]
    BY <1>3, <1>4, <1>5, <1>6, <1>7
  <2> QED BY <1>2, <2>1, <2>2, <2>3 DEF LabelsNumbered
<1>10. SentBefore(SentLabels, ToSet(ls))
  <2> SUFFICES ASSUME NEW k \in SentLabels, NEW i \in 1..Len(ls),
                      k.val[1] = ls[i].val[1]
               PROVE  k.val[2] < ls[i].val[2]
    BY <1>6 DEF SentBefore
  <2>1. k.val[1] = p /\ ls[i].val[2] = labelCount[p] + i
    BY <1>7
  <2>2. k.val[2] \in 1..labelCount[p] /\ labelCount[p] \in Nat
    BY <2>1, <1>4, <1>8
  <2> QED BY <2>1, <2>2
<1>11. NumbersAscend(ls)
  BY <1>2, <1>4, <1>7 DEF NumbersAscend, SentBefore
<1>12. NumbersInOrder'
  <2>1. \A i \in 1..Len(q') :
          \/ i \in 1..Len(q) /\ q'[i] = q[i] /\ Queued(i)' = Queued(i)
          \/ i = Len(q) + 1 /\ q'[i].labels = ls /\ Queued(i)' = ToSet(ls)
    <3>1. \A i \in 1..Len(q') : i \in 1..Len(q) \/ i = Len(q) + 1
      BY <1>2, <1>3
    <3> QED BY <1>2, <3>1 DEF Queued
  <2>2. /\ Inserted \cup ToSet(ToInsert) \subseteq SentLabels
        /\ \A i \in 1..Len(q) : Queued(i) \subseteq SentLabels
    BY LabelTypes
  <2>3. /\ \A i \in 1..Len(q) :
             /\ NumbersAscend(q[i].labels)
             /\ SentBefore(Inserted \cup ToSet(ToInsert), Queued(i))
        /\ \A i, j \in 1..Len(q) : i < j => SentBefore(Queued(i), Queued(j))
    BY DEF LabelInv, NumbersInOrder
  <2>4. ASSUME NEW i \in 1..Len(q')
        PROVE  /\ NumbersAscend(q'[i].labels)
               /\ SentBefore(Inserted \cup ToSet(ToInsert), Queued(i)')
    <3>1. SentBefore(Inserted \cup ToSet(ToInsert), ToSet(ls))
      BY <2>2, <1>10 DEF SentBefore
    <3> QED BY <2>1, <2>3, <3>1, <1>11
  <2>5. ASSUME NEW i \in 1..Len(q'), NEW j \in 1..Len(q'), i < j
        PROVE  SentBefore(Queued(i)', Queued(j)')
    <3>1. i \in 1..Len(q) /\ Queued(i)' = Queued(i)
      BY <2>1, <2>5, <1>2, <1>3
    <3>2. SentBefore(Queued(i), ToSet(ls))
      BY <2>2, <3>1, <1>10 DEF SentBefore
    <3> QED BY <2>1, <2>3, <2>5, <3>1, <3>2
  <2>6. /\ pc' = "insert" => NumbersAscend(pMsg'.labels)
        /\ SentBefore(Inserted', ToSet(ToInsert)')
    BY <1>2 DEF LabelInv, NumbersInOrder
  <2>7. UNCHANGED <<Inserted, ToInsert>>
    BY <1>2
  <2> QED BY <2>4, <2>5, <2>6, <2>7 DEF NumbersInOrder, NumbersAscend
<1>13. InsertedOnce' /\ SilentPartitions'
  BY <1>2 DEF LabelInv, InsertedOnce, SilentPartitions
<1>14. NumbersKept'
  <2> SUFFICES ASSUME NEW r \in Senders, NEW k \in 1..labelCount'[r]
               PROVE  \E l \in SentLabels' : l.val = <<r, k>>
    BY DEF NumbersKept
  <2>1. CASE k \in 1..labelCount[r]
    BY <2>1, <1>2 DEF LabelInv, NumbersKept
  <2>2. CASE k \notin 1..labelCount[r]
    <3>1. r = p /\ k - labelCount[p] \in 1..Len(ls)
          /\ labelCount[p] + (k - labelCount[p]) = k
      BY <2>2, <1>4, <1>5
    <3>2. /\ ls[k - labelCount[p]] \in ToSet(ls)
          /\ ls[k - labelCount[p]].val = <<p, k>>
      BY <3>1, <1>6, <1>7
    <3> QED BY <3>1, <3>2, <1>2
  <2> QED BY <2>1, <2>2
<1> QED BY <1>9, <1>12, <1>13, <1>14 DEF LabelInv

\* The oldest message goes first.
LEMMA TakeKeepsLabels ==
  ASSUME TypeOK, LabelInv, TakeMessage
  PROVE  LabelInv'
<1> DEFINE q == m_ptrComQ
<1>1. /\ Len(q) \in Nat \ {0} /\ Len(q') = Len(q) - 1
      /\ \A i \in 1..Len(q') : q'[i] = q[i + 1]
      /\ pMsg' = q[1]
      /\ ToSet(ToInsert) = {} /\ ToSet(ToInsert)' = Queued(1)
      /\ UNCHANGED <<labelCount, m_heartbeat, m_storage, stabilised, Inserted,
                     SentLabels>>
  BY TakeEffect
<1>2. /\ 1 \in 1..Len(q)
      /\ \A i \in 1..Len(q') : i + 1 \in 1..Len(q) /\ 1 < i + 1
      /\ \A i, j \in 1..Len(q') : i < j => i + 1 < j + 1
  BY <1>1
<1>3. \A i \in 1..Len(q') : Queued(i)' = Queued(i + 1)
  BY <1>1 DEF Queued
<1>4. /\ \A i \in 1..Len(q) :
           /\ NumbersAscend(q[i].labels)
           /\ SentBefore(Inserted, Queued(i))
      /\ \A i, j \in 1..Len(q) : i < j => SentBefore(Queued(i), Queued(j))
  BY DEF LabelInv, NumbersInOrder, SentBefore
<1>5. ASSUME NEW i \in 1..Len(q')
      PROVE  /\ NumbersAscend(q'[i].labels)
             /\ SentBefore(Inserted' \cup ToSet(ToInsert)', Queued(i)')
  <2>1. SentBefore(Inserted, Queued(i + 1)) /\ SentBefore(Queued(1), Queued(i + 1))
    BY <1>2, <1>4
  <2>2. SentBefore(Inserted \cup Queued(1), Queued(i + 1))
    BY <2>1 DEF SentBefore
  <2> QED BY <2>2, <1>1, <1>2, <1>3, <1>4
<1>6. ASSUME NEW i \in 1..Len(q'), NEW j \in 1..Len(q'), i < j
      PROVE  SentBefore(Queued(i)', Queued(j)')
  BY <1>2, <1>3, <1>4, <1>6
<1>7. NumbersAscend(pMsg'.labels) /\ SentBefore(Inserted', ToSet(ToInsert)')
  BY <1>1, <1>2, <1>4
<1>8. NumbersInOrder'
  BY <1>5, <1>6, <1>7 DEF NumbersInOrder, NumbersAscend
<1> QED
  BY <1>1, <1>8 DEF LabelInv, LabelsNumbered, InsertedOnce, SilentPartitions,
                    NumbersKept
\* What InsertedOnce says of two labels in m_storage, the first in front.
InFront(k, l) == k.val # l.val /\ (k.ts = l.ts => SentBefore({k}, {l}))

\* The label inserted was sent after every label of its partition in
\* m_storage, and multimap::insert puts it behind those with its timestamp.
LEMMA InsertKeepsLabels ==
  ASSUME TypeOK, OrderInv, LabelInv, InsertBatchLabels
  PROVE  LabelInv'
<1> DEFINE l == pMsg.labels[n]
           s == m_storage
           r == MultimapInsert(s, l)
           k == FirstAbove(s, l.ts)
<1>1. /\ n \in 1..Len(pMsg.labels) /\ l \in Label
      /\ m_storage' = MultimapInsert(m_storage, l)
      /\ l \in ToSet(ToInsert)
      /\ ToSet(ToInsert)' \subseteq ToSet(ToInsert)
      /\ ToSet(ToInsert)' = {pMsg.labels[i] : i \in (n + 1)..Len(pMsg.labels)}
      /\ Inserted' = Inserted \cup {l}
      /\ UNCHANGED <<labelCount, m_ptrComQ, pc, pMsg, m_heartbeat, stabilised,
                     SentLabels>>
  BY InsertEffect
<1>2. /\ s \in Seq(Label) /\ Len(s) \in Nat
      /\ \A i \in 1..Len(s) : s[i] \in Label /\ s[i].ts \in Nat
      /\ l.ts \in Nat
  BY <1>1, TimestampTypes, LenProperties, ElementOfSeq DEF TypeOK, Label
<1>3. /\ pc = "insert" /\ Len(pMsg.labels) \in Nat
  BY MessageTypes DEF InsertBatchLabels
<1>4. /\ r \in Seq(Label) /\ Len(r) = Len(s) + 1
      /\ \A i \in 1..(Len(s) + 1) :
           r[i] = IF i < k THEN s[i] ELSE IF i = k THEN l ELSE s[i - 1]
      /\ k \in 1..(Len(s) + 1)
      /\ k <= Len(s) => s[k].ts > l.ts
  BY <1>1, <1>2, MultimapInsertIsSeq, FirstAboveStops
<1>5. SentBefore(Inserted, {l})
  BY <1>1 DEF LabelInv, NumbersInOrder, SentBefore
<1> HIDE DEF l, r, k
<1>6. /\ \A i \in 1..Len(s) : SentBefore({s[i]}, {l}) /\ s[i].val # l.val
      /\ \A i \in 1..Len(stabilised) : stabilised[i].val # l.val
  <2>1. /\ \A i \in 1..Len(s) : s[i] \in Inserted
        /\ \A i \in 1..Len(stabilised) : stabilised[i] \in Inserted
    BY ToSetElements DEF TypeOK, Inserted
  <2>2. \A x \in Inserted : SentBefore({x}, {l})
    BY <1>5 DEF SentBefore
  <2>3. \A x \in Inserted : x.val # l.val
    <3>1. \A x \in Inserted : x.val[2] \in Nat
      BY LabelTypes, LabelParts
    <3> QED BY <3>1, <1>5 DEF SentBefore
  <2> QED BY <2>1, <2>2, <2>3
<1>7. NumbersInOrder'
  <2>1. SentBefore(Inserted', ToSet(ToInsert)')
    <3>1. SentBefore(Inserted, ToSet(ToInsert)')
      BY <1>1 DEF LabelInv, NumbersInOrder, SentBefore
    <3>2. NumbersAscend(pMsg.labels)
      BY <1>3 DEF LabelInv, NumbersInOrder
    <3>3. \A i \in (n + 1)..Len(pMsg.labels) : i \in 1..Len(pMsg.labels) /\ n < i
      BY <1>1, <1>3
    <3>4. \A i \in (n + 1)..Len(pMsg.labels) : SentBefore({l}, {pMsg.labels[i]})
      BY <3>2, <3>3, <1>1 DEF NumbersAscend, l
    <3>5. SentBefore({l}, ToSet(ToInsert)')
      BY <3>4, <1>1 DEF SentBefore
    <3> QED BY <3>1, <3>5, <1>1 DEF SentBefore
  <2>2. ASSUME NEW i \in 1..Len(m_ptrComQ)
        PROVE  SentBefore(Inserted' \cup ToSet(ToInsert)', Queued(i))
    BY <1>1 DEF LabelInv, NumbersInOrder, SentBefore
  <2>3. \A i \in 1..Len(m_ptrComQ) : Queued(i)' = Queued(i)
    BY <1>1 DEF Queued
  <2>4. /\ \A i \in 1..Len(m_ptrComQ) : NumbersAscend(m_ptrComQ[i].labels)
        /\ \A i, j \in 1..Len(m_ptrComQ) :
             i < j => SentBefore(Queued(i), Queued(j))
        /\ NumbersAscend(pMsg.labels)
    BY <1>3 DEF LabelInv, NumbersInOrder
  <2> QED BY <2>1, <2>2, <2>3, <2>4, <1>1 DEF NumbersInOrder, NumbersAscend
<1>8. ASSUME NEW i \in 1..Len(r), NEW j \in 1..Len(r), i < j
      PROVE  InFront(r[i], r[j])
  <2>0. \A a, b \in 1..Len(s) : a < b => InFront(s[a], s[b])
    BY DEF LabelInv, InsertedOnce, InFront
  <2>1. CASE j < k
    <3>1. r[i] = s[i] /\ r[j] = s[j] /\ i \in 1..Len(s) /\ j \in 1..Len(s)
      BY <2>1, <1>2, <1>4, <1>8
    <3> QED BY <3>1, <2>0, <1>8
  <2>2. CASE j = k
    <3>1. r[i] = s[i] /\ r[j] = l /\ i \in 1..Len(s)
      BY <2>2, <1>2, <1>4, <1>8
    <3> QED BY <3>1, <1>6 DEF InFront
  <2>3. CASE i < k /\ j > k
    <3>1. /\ r[i] = s[i] /\ r[j] = s[j - 1] /\ i < j - 1
          /\ i \in 1..Len(s) /\ j - 1 \in 1..Len(s)
      BY <2>3, <1>2, <1>4, <1>8
    <3> QED BY <3>1, <2>0
  <2>4. CASE i = k
    <3>1. /\ r[i] = l /\ r[j] = s[j - 1] /\ j - 1 \in 1..Len(s)
          /\ k \in 1..Len(s) /\ k <= j - 1
      BY <2>4, <1>2, <1>4, <1>8
    <3>2. s[k].ts <= s[j - 1].ts \/ k = j - 1
      BY <3>1, <1>2 DEF OrderInv, StableBelowTheRest, InTimestampOrder
    <3>3. l.ts # s[j - 1].ts
      BY <3>1, <3>2, <1>2, <1>4
    <3> QED BY <3>1, <3>3, <1>6 DEF InFront
  <2>5. CASE i > k
    <3>1. /\ r[i] = s[i - 1] /\ r[j] = s[j - 1] /\ i - 1 < j - 1
          /\ i - 1 \in 1..Len(s) /\ j - 1 \in 1..Len(s)
      BY <2>5, <1>2, <1>4, <1>8
    <3> QED BY <3>1, <2>0
  <2> QED BY <2>1, <2>2, <2>3, <2>4, <2>5, <1>2, <1>4
<1>9. ASSUME NEW i \in 1..Len(r), NEW j \in 1..Len(stabilised)
      PROVE  r[i].val # stabilised[j].val
  <2>1. r[i] = l \/ \E a \in 1..Len(s) : r[i] = s[a]
    <3>1. ToSet(r) = ToSet(s) \cup {l}
      BY <1>1, <1>2, ToSetInsert DEF r
    <3>2. r[i] \in ToSet(r) /\ ToSet(s) = {s[a] : a \in 1..Len(s)}
      BY <1>2, <1>4, ToSetElements
    <3> QED BY <3>1, <3>2
  <2> QED BY <2>1, <1>6 DEF LabelInv, InsertedOnce
<1>10. InsertedOnce'
  <2>1. m_storage' = r /\ stabilised' = stabilised
    BY <1>1 DEF r
  <2>2. \A i, j \in 1..Len(stabilised) :
          i < j => stabilised[i].val # stabilised[j].val
    BY DEF LabelInv, InsertedOnce
  <2> QED BY <2>1, <2>2, <1>8, <1>9 DEF InsertedOnce, InFront
<1>11. LabelsNumbered' /\ SilentPartitions' /\ NumbersKept'
  BY <1>1 DEF LabelInv, LabelsNumbered, SilentPartitions, NumbersKept
<1> QED BY <1>7, <1>10, <1>11 DEF LabelInv

\* Labels that become stable are the first of m_storage.
LEMMA StabiliseKeepsLabels ==
  ASSUME TypeOK, OrderInv, LabelInv, Stabilise
  PROVE  LabelInv'
<1> DEFINE it == FirstAbove(m_storage, GetStableTimestamp(m_heartbeat'))
           s == m_storage
           st == stabilised
<1>1. /\ it \in 1..(Len(s) + 1)
      /\ Len(s') = Len(s) - it + 1
      /\ \A i \in 1..Len(s') : s'[i] = s[it + i - 1]
      /\ Len(st') = Len(st) + it - 1
      /\ \A i \in 1..Len(st') :
           st'[i] = IF i <= Len(st) THEN st[i] ELSE s[i - Len(st)]
      /\ \A q \in 1..ClientCount : q # pMsg.pid => m_heartbeat'[q] = m_heartbeat[q]
  BY StabiliseEffect
<1> HIDE DEF it
<1>2. /\ ToSet(ToInsert) = {} /\ ToSet(ToInsert)' = {}
      /\ UNCHANGED <<labelCount, m_ptrComQ, pMsg, Inserted, SentLabels>>
  BY StabiliseMovesLabels
<1>3. pc = "insert" /\ pc' # "insert" /\ pMsg.pid \in Senders
  BY MessageTypes DEF Stabilise
<1>4. Len(s) \in Nat /\ Len(st) \in Nat
  BY TimestampTypes
<1>5. NumbersInOrder'
  <2>1. \A i \in 1..Len(m_ptrComQ) : Queued(i)' = Queued(i)
    BY <1>2 DEF Queued
  <2> QED
    BY <2>1, <1>2, <1>3
       DEF LabelInv, NumbersInOrder, NumbersAscend, SentBefore
<1>6. /\ \A i, j \in 1..Len(s) : i < j => InFront(s[i], s[j])
      /\ \A i, j \in 1..Len(st) : i < j => st[i].val # st[j].val
      /\ \A i \in 1..Len(s), j \in 1..Len(st) : s[i].val # st[j].val
  BY DEF LabelInv, InsertedOnce, InFront
<1>7. ASSUME NEW i \in 1..Len(s')
      PROVE  s'[i] = s[it + i - 1] /\ it + i - 1 \in it..Len(s)
  BY <1>1, <1>4
<1>8. ASSUME NEW i \in 1..Len(st')
      PROVE  \/ i \in 1..Len(st) /\ st'[i] = st[i]
             \/ /\ i > Len(st) /\ i - Len(st) \in 1..(it - 1)
                /\ st'[i] = s[i - Len(st)]
  BY <1>1, <1>4
<1>9. /\ \A i \in it..Len(s) : i \in 1..Len(s)
      /\ \A i \in 1..(it - 1) : i \in 1..Len(s)
      /\ \A i \in 1..(it - 1), j \in it..Len(s) : i < j
  BY <1>1, <1>4
<1>10. ASSUME NEW i \in 1..Len(s'), NEW j \in 1..Len(s'), i < j
       PROVE  InFront(s'[i], s'[j])
  <2>1. it + i - 1 < it + j - 1
    BY <1>1, <1>10
  <2> QED BY <2>1, <1>6, <1>7, <1>9
<1>11. ASSUME NEW i \in 1..Len(st'), NEW j \in 1..Len(st'), i < j
       PROVE  st'[i].val # st'[j].val
  <2>1. CASE j \in 1..Len(st)
    <3>1. i \in 1..Len(st) /\ st'[i] = st[i] /\ st'[j] = st[j]
      BY <2>1, <1>4, <1>8, <1>11
    <3> QED BY <2>1, <3>1, <1>6, <1>11
  <2>2. CASE i \in 1..Len(st) /\ j \notin 1..Len(st)
    <3>1. /\ st'[i] = st[i] /\ st'[j] = s[j - Len(st)]
          /\ j - Len(st) \in 1..Len(s)
      BY <2>2, <1>4, <1>8, <1>9
    <3> QED BY <2>2, <3>1, <1>6
  <2>3. CASE i \notin 1..Len(st)
    <3>1. /\ st'[i] = s[i - Len(st)] /\ st'[j] = s[j - Len(st)]
          /\ i - Len(st) \in 1..Len(s) /\ j - Len(st) \in 1..Len(s)
          /\ i - Len(st) < j - Len(st)
      BY <2>3, <1>1, <1>4, <1>8, <1>9, <1>11
    <3> QED BY <3>1, <1>6 DEF InFront
  <2> QED BY <2>1, <2>2, <2>3
<1>12. ASSUME NEW i \in 1..Len(s'), NEW j \in 1..Len(st')
       PROVE  s'[i].val # st'[j].val
  <2>1. it + i - 1 \in 1..Len(s) /\ s'[i] = s[it + i - 1]
    BY <1>7, <1>9
  <2>2. CASE j \in 1..Len(st) /\ st'[j] = st[j]
    BY <2>1, <2>2, <1>6
  <2>3. CASE j - Len(st) \in 1..(it - 1) /\ st'[j] = s[j - Len(st)]
    <3>1. j - Len(st) \in 1..Len(s) /\ j - Len(st) < it + i - 1
      BY <2>3, <1>7, <1>9
    <3> QED BY <2>1, <2>3, <3>1, <1>6 DEF InFront
  <2> QED BY <2>2, <2>3, <1>8
<1>13. InsertedOnce'
  BY <1>10, <1>11, <1>12 DEF InsertedOnce, InFront
<1>14. SilentPartitions'
  BY <1>1, <1>3 DEF LabelInv, SilentPartitions
<1>15. LabelsNumbered' /\ NumbersKept'
  BY <1>2 DEF LabelInv, LabelsNumbered, NumbersKept
<1> QED BY <1>5, <1>13, <1>14, <1>15 DEF LabelInv

LEMMA LabelNext == TypeOK /\ OrderInv /\ LabelInv /\ [Next]_vars => LabelInv'
<1> SUFFICES ASSUME TypeOK, OrderInv, LabelInv, [Next]_vars PROVE LabelInv'
  OBVIOUS
<1>1. CASE Vnodes
  BY <1>1, SendKeepsLabels
<1>2. CASE TakeMessage
  BY <1>2, TakeKeepsLabels
<1>3. CASE InsertBatchLabels
  BY <1>3, InsertKeepsLabels
<1>4. CASE Stabilise
  BY <1>4, StabiliseKeepsLabels
<1>5. CASE \/ SkipDelivery \/ WriteBatch \/ ReadReply \/ Report
           \/ ReceiverReplies \/ ReceiverCloses \/ UNCHANGED vars
  <2>1. /\ UNCHANGED <<labelCount, m_ptrComQ, m_heartbeat, m_storage,
                       stabilised, Inserted, ToInsert, SentLabels>>
        /\ pc' # "insert" \/ UNCHANGED <<pc, pMsg>>
    BY <1>5, OtherStepsMoveNone
  <2>2. NumbersInOrder'
    BY <2>1 DEF LabelInv, NumbersInOrder, NumbersAscend, SentBefore, Queued
  <2> QED
    BY <2>1, <2>2 DEF LabelInv, LabelsNumbered, InsertedOnce, SilentPartitions,
                      NumbersKept
<1> QED
  BY <1>1, <1>2, <1>3, <1>4, <1>5 DEF Next, Processor

LEMMA LabelInvariant == Spec => [](TypeOK /\ OrderInv /\ LabelInv)
<1>1. Init => TypeOK /\ OrderInv /\ LabelInv
  BY TypeInit, OrderInit, LabelInit
<1>2. TypeOK /\ OrderInv /\ LabelInv /\ [Next]_vars
        => (TypeOK /\ OrderInv /\ LabelInv)'
  BY TypeNext, OrderNext, LabelNext
<1> QED BY <1>1, <1>2, PTL DEF Spec

(***************************************************************************)
(* InsertBatchLabels and DeletePossibleLabels lose no label and keep none  *)
(* twice, for any batches, timestamps and interleaving.                    *)
(***************************************************************************)
THEOREM LabelsKept == Spec => []NoLabelLost
<1>1. TypeOK /\ LabelInv => NoLabelLost
  <2> SUFFICES ASSUME TypeOK, LabelInv PROVE NoLabelLost
    OBVIOUS
  <2> DEFINE kept == m_storage \o stabilised
  <2>1. /\ Len(m_storage) \in Nat /\ Len(stabilised) \in Nat
        /\ Len(kept) = Len(m_storage) + Len(stabilised)
        /\ \A i \in 1..Len(kept) :
             kept[i] = IF i <= Len(m_storage) THEN m_storage[i]
                       ELSE stabilised[i - Len(m_storage)]
    BY TimestampTypes, ConcatProperties DEF TypeOK
  <2> HIDE DEF kept
  <2>2. /\ \A i, j \in 1..Len(m_storage) :
             i < j => m_storage[i].val # m_storage[j].val
        /\ \A i, j \in 1..Len(stabilised) :
             i < j => stabilised[i].val # stabilised[j].val
        /\ \A i \in 1..Len(m_storage), j \in 1..Len(stabilised) :
             m_storage[i].val # stabilised[j].val
    BY DEF LabelInv, InsertedOnce
  <2>3. \A i \in 1..Len(kept) :
          \/ i \in 1..Len(m_storage) /\ kept[i] = m_storage[i]
          \/ /\ i > Len(m_storage) /\ i - Len(m_storage) \in 1..Len(stabilised)
             /\ kept[i] = stabilised[i - Len(m_storage)]
    BY <2>1
  <2>4. ASSUME NEW i \in 1..Len(kept), NEW j \in 1..Len(kept), i < j
        PROVE  kept[i].val # kept[j].val
    <3>1. CASE j \in 1..Len(m_storage) /\ kept[j] = m_storage[j]
      <4>1. i \in 1..Len(m_storage) /\ kept[i] = m_storage[i]
        BY <3>1, <2>1, <2>3, <2>4
      <4> QED BY <3>1, <4>1, <2>2, <2>4
    <3>2. CASE /\ i \in 1..Len(m_storage) /\ kept[i] = m_storage[i]
               /\ j - Len(m_storage) \in 1..Len(stabilised)
               /\ kept[j] = stabilised[j - Len(m_storage)]
      BY <3>2, <2>2
    <3>3. CASE /\ i > Len(m_storage) /\ i - Len(m_storage) \in 1..Len(stabilised)
               /\ kept[i] = stabilised[i - Len(m_storage)]
               /\ j - Len(m_storage) \in 1..Len(stabilised)
               /\ kept[j] = stabilised[j - Len(m_storage)]
      <4>1. i - Len(m_storage) < j - Len(m_storage)
        BY <2>1, <2>4
      <4> QED BY <3>3, <4>1, <2>2
    <3> QED BY <3>1, <3>2, <3>3, <2>3
  <2>5. \A i, j \in 1..Len(kept) : kept[i].val = kept[j].val => i = j
    <3>1. \A i, j \in 1..Len(kept) : i < j \/ j < i \/ i = j
      BY <2>1
    <3> QED BY <3>1, <2>4
  <2> QED
    BY <2>5 DEF NoLabelLost, LabelInv, NumbersKept, SentLabels, kept
<1> QED BY <1>1, LabelInvariant, PTL
-----------------------------------------------------------------------------
(* The refinement of OrderedDelivery.                                      *)

ServiceLabels == [ts : 0..MaxTimestamp, val : Senders \X (1..MaxLabels)]

Promise == [p \in 1..ClientCount |-> IF p \in Senders THEN lastHeartbeat[p] ELSE 0]

\* The labels sent are labels of the abstract service.
LEMMA SentAreServiceLabels ==
  TypeOK /\ LabelInv => SentLabels \subseteq ServiceLabels
<1> SUFFICES ASSUME TypeOK, LabelInv, NEW l \in SentLabels
             PROVE  l \in ServiceLabels
  OBVIOUS
<1>1. l \in Label /\ l.val[1] \in Senders /\ l.val = <<l.val[1], l.val[2]>>
      /\ l.ts \in Nat
  BY LabelTypes, LabelParts
<1>2. /\ l.ts <= MaxTimestamp /\ l.val[2] \in 1..labelCount[l.val[1]]
      /\ labelCount[l.val[1]] <= MaxLabels /\ labelCount[l.val[1]] \in Nat
  BY <1>1 DEF LabelInv, LabelsNumbered, TypeOK
<1>3. l.ts \in 0..MaxTimestamp /\ l.val[2] \in 1..MaxLabels
  BY <1>1, <1>2, ConstantsAssumption
<1>4. l.val \in Senders \X (1..MaxLabels)
  BY <1>1, <1>3
<1>5. l = [ts |-> l.ts, val |-> l.val]
  BY <1>1 DEF Label
<1> QED BY <1>3, <1>4, <1>5 DEF ServiceLabels

LEMMA ServiceInit == Init => Service!Init
<1> SUFFICES ASSUME Init PROVE Service!Init
  OBVIOUS
<1>1. /\ m_ptrComQ = <<>> /\ m_storage = <<>> /\ stabilised = <<>>
      /\ ToInsert = <<>>
      /\ lastHeartbeat = [p \in Senders |-> 0]
  BY DEF Init, ToInsert
<1>2. SentLabels = {}
  <2>1. Len(<<>>) = 0 /\ 1..0 = {}
    BY EmptySeq
  <2> QED BY <1>1, <2>1, ToSetEmpty DEF SentLabels, Unstable
<1> QED BY <1>1, <1>2 DEF Service!Init

\* A message is a Send of the abstract service.
LEMMA VnodesImplementSend ==
  ASSUME TypeOK, LabelInv, TypeOK', LabelInv', Vnodes
  PROVE  \E p \in 1..ClientCount : Service!Send(p)
<1>1. PICK p \in Senders, hb \in 0..MaxTimestamp, ls \in Seq(Label) :
        Sends(p, hb, ls)
  BY SendEffect
<1>2. /\ SentLabels' = SentLabels \cup ToSet(ls)
      /\ hb >= lastHeartbeat[p]
      /\ lastHeartbeat' = [lastHeartbeat EXCEPT ![p] = hb]
      /\ stabilised' = stabilised
      /\ \A i \in 1..Len(ls) :
           /\ ls[i].ts >= lastHeartbeat[p]
           /\ ls[i].val = <<p, labelCount[p] + i>>
  BY <1>1 DEF Sends
<1>3. p \in 1..ClientCount /\ Promise[p] = lastHeartbeat[p]
  BY ConstantsAssumption DEF Promise
<1>4. Promise' = [Promise EXCEPT ![p] = hb]
  BY <1>2, <1>3 DEF TypeOK, Promise
<1>5. SentLabels' \in SUBSET ServiceLabels
  <2>1. (SentLabels \subseteq ServiceLabels)'
    BY SentAreServiceLabels, PTL
  <2> QED BY <2>1 DEF ServiceLabels
<1>6. ToSet(ls) = {ls[i] : i \in 1..Len(ls)}
  BY ToSetElements
<1>7. /\ labelCount[p] \in Nat
      /\ \A k \in SentLabels : k.val[1] = p => k.val[2] \in 1..labelCount[p]
  BY DEF LabelInv, LabelsNumbered, TypeOK
<1>8. ASSUME NEW l \in SentLabels' \ SentLabels
      PROVE  /\ l.val[1] = p
             /\ l.ts >= Promise[p]
             /\ \A k \in SentLabels' :
                  k # l /\ k.val[1] = p => k.val[2] # l.val[2]
             /\ \A k \in SentLabels : k.val[1] = p => k.val[2] < l.val[2]
  <2>1. PICK i \in 1..Len(ls) : l = ls[i]
    BY <1>2, <1>6
  <2>2. l.val[1] = p /\ l.val[2] = labelCount[p] + i /\ l.ts >= Promise[p]
    BY <2>1, <1>2, <1>3
  <2>3. \A k \in SentLabels : k.val[1] = p => k.val[2] < l.val[2]
    BY <2>2, <1>7
  <2>4. ASSUME NEW k \in SentLabels', k # l, k.val[1] = p
        PROVE  k.val[2] # l.val[2]
    <3>1. CASE k \in SentLabels
      BY <3>1, <2>3, <2>4, <1>7
    <3>2. CASE k \in ToSet(ls)
      <4>1. PICK j \in 1..Len(ls) : k = ls[j]
        BY <3>2, <1>6
      <4>2. k.val[2] = labelCount[p] + j /\ i # j
        BY <4>1, <2>1, <2>4, <1>2
      <4> QED BY <4>2, <2>2, <1>7
    <3> QED BY <3>1, <3>2, <1>2
  <2> QED BY <2>2, <2>3, <2>4
<1>9. \E b \in 0..MaxTimestamp :
        b >= Promise[p] /\ Promise' = [Promise EXCEPT ![p] = b]
  BY <1>2, <1>3, <1>4
<1>10. SentLabels \subseteq SentLabels'
  BY <1>2
<1> QED
  BY <1>2, <1>3, <1>5, <1>8, <1>9, <1>10 DEF Service!Send, ServiceLabels, Promise
\* DeletePossibleLabels is a Release, if it finds a label to delete.
LEMMA StabiliseImplementsRelease ==
  ASSUME TypeOK, OrderInv, LabelInv, TypeOK', OrderInv', LabelInv',
         Stabilise, stabilised' # stabilised
  PROVE  Service!Release
<1> DEFINE stable == GetStableTimestamp(m_heartbeat')
           it == FirstAbove(m_storage, stable)
           s == m_storage
           st == stabilised
           first == Len(st) + 1
           new == {st'[i] : i \in first..Len(st')}
           waiting == SentLabels \ ToSet(st)
<1>1. /\ stable \in Nat
      /\ it \in 1..(Len(s) + 1)
      /\ \A q \in 1..ClientCount :
           m_heartbeat'[q] \in Nat /\ stable <= m_heartbeat'[q]
      /\ \A i \in 1..(it - 1) : s[i].ts <= stable
      /\ \A i \in it..Len(s) : s[i].ts > stable
      /\ Len(st') = Len(st) + it - 1
      /\ \A i \in 1..Len(st') :
           st'[i] = IF i <= Len(st) THEN st[i] ELSE s[i - Len(st)]
  BY StabiliseEffect
<1> HIDE DEF it, stable
<1>2. /\ ToSet(ToInsert) = {}
      /\ UNCHANGED <<lastHeartbeat, m_ptrComQ, Inserted, SentLabels>>
  BY StabiliseMovesLabels
<1>3. /\ s \in Seq(Label) /\ st \in Seq(Label) /\ st' \in Seq(Label)
      /\ Len(s) \in Nat /\ Len(st) \in Nat /\ Len(st') \in Nat
      /\ ToSet(s) = {s[i] : i \in 1..Len(s)}
      /\ ToSet(st) = {st[i] : i \in 1..Len(st)}
      /\ ToSet(st') = {st'[i] : i \in 1..Len(st')}
  BY LenProperties, ToSetElements DEF TypeOK
<1>4. ASSUME NEW i \in first..Len(st')
      PROVE  /\ i - Len(st) \in 1..(it - 1) /\ i - Len(st) \in 1..Len(s)
             /\ st'[i] = s[i - Len(st)]
  <2>1. /\ i - Len(st) \in 1..(it - 1) /\ i - Len(st) \in 1..Len(s)
        /\ i \in 1..Len(st') /\ ~(i <= Len(st))
    BY <1>1, <1>3
  <2> QED BY <2>1, <1>1
<1>5. ASSUME NEW a \in 1..(it - 1)
      PROVE  s[a] \in new
  <2>1. /\ Len(st) + a \in first..Len(st') /\ Len(st) + a - Len(st) = a
    BY <1>1, <1>3
  <2>2. st'[Len(st) + a] = s[a]
    BY <2>1, <1>4
  <2> QED BY <2>1, <2>2
<1>6. /\ \A i, j \in 1..Len(s) : i < j => InFront(s[i], s[j])
      /\ \A i \in 1..Len(s), j \in 1..Len(st) : s[i].val # st[j].val
      /\ \A i, j \in 1..Len(st') : i < j => st'[i].val # st'[j].val
  BY DEF LabelInv, InsertedOnce, InFront
<1>7. /\ ToSet(s) \subseteq SentLabels /\ ToSet(s) \subseteq Inserted
      /\ ToSet(st') \subseteq SentLabels
  BY <1>2, LabelTypes DEF Inserted
<1>8. st' \in Seq(ServiceLabels)
  <2>1. SentLabels \subseteq ServiceLabels
    BY SentAreServiceLabels
  <2>2. st' \in [1..Len(st') -> ServiceLabels]
    <3>1. st' \in [1..Len(st') -> Label]
      BY <1>3, LenProperties
    <3>2. \A i \in 1..Len(st') : st'[i] \in ServiceLabels
      BY <2>1, <1>3, <1>7
    <3> QED BY <3>1, <3>2
  <2> QED BY <2>2, <1>3, SeqDef
<1>9. IsPrefix(st, st')
  <2>1. Len(st) <= Len(st') /\ \A i \in 1..Len(st) : st[i] = st'[i]
    BY <1>1, <1>3
  <2> QED BY <2>1, <1>3, PrefixByElements
<1>10. IsInjective(st')
  <2>1. DOMAIN st' = 1..Len(st')
    BY <1>3, LenProperties
  <2>2. \A i, j \in 1..Len(st') : i < j \/ j < i \/ i = j
    BY <1>3
  <2> QED BY <2>1, <2>2, <1>6 DEF IsInjective
<1>11. ASSUME NEW i \in first..Len(st')
       PROVE  /\ st'[i] \in waiting
              /\ \A p \in 1..ClientCount : st'[i].ts <= Promise[p]
  <2>1. /\ st'[i] \in ToSet(s) /\ st'[i] \notin ToSet(st)
        /\ st'[i].ts <= stable /\ st'[i].ts \in Nat
    <3>1. PICK a \in 1..(it - 1) : a \in 1..Len(s) /\ st'[i] = s[a]
      BY <1>4
    <3>2. s[a].ts <= stable /\ s[a].ts \in Nat
      BY <3>1, <1>1, TimestampTypes
    <3>3. s[a] \in ToSet(s) /\ s[a] \notin ToSet(st)
      BY <3>1, <1>3, <1>6
    <3> QED BY <3>1, <3>2, <3>3
  <2>2. ASSUME NEW p \in 1..ClientCount
        PROVE  st'[i].ts <= Promise[p]
    <3>1. st'[i].ts <= m_heartbeat'[p] /\ m_heartbeat'[p] \in Nat
      BY <2>1, <1>1
    <3>2. CASE p \in Senders
      <4>1. m_heartbeat'[p] <= lastHeartbeat[p] /\ lastHeartbeat[p] \in Nat
        BY <3>2, <1>2, TimestampTypes DEF OrderInv, PromisesKept
      <4> QED BY <3>1, <3>2, <4>1, <2>1 DEF Promise
    <3>3. CASE p \notin Senders
      <4>1. m_heartbeat'[p] = 0 /\ Promise[p] = 0
        BY <3>3 DEF LabelInv, SilentPartitions, Promise
      <4> QED BY <3>1, <4>1
    <3> QED BY <3>2, <3>3
  <2> QED BY <2>1, <2>2, <1>7
<1>12. ASSUME NEW i \in first..Len(st'), NEW k \in waiting,
              Service!Before(k, st'[i])
       PROVE  k \in new
  <2> DEFINE l == st'[i]
  <2>1. /\ l \in ToSet(s) /\ l \in Inserted /\ l \in Label
        /\ l.ts <= stable /\ l.ts \in Nat /\ l.val[2] \in Nat
    <3>1. PICK a \in 1..(it - 1) : a \in 1..Len(s) /\ l = s[a]
      BY <1>4
    <3>2. s[a].ts <= stable /\ s[a] \in ToSet(s)
      BY <3>1, <1>1, <1>3
    <3> HIDE DEF l
    <3>3. l \in ToSet(s) /\ l.ts <= stable
      BY <3>1, <3>2
    <3>4. l \in Inserted /\ l \in Label
      BY <3>3, <1>7, LabelTypes
    <3> QED BY <3>3, <3>4, LabelParts
  <2>2. k \in Label /\ k.ts \in Nat /\ k.val[2] \in Nat
    BY LabelTypes, LabelParts
  <2>3. \/ k.ts < l.ts
        \/ k.ts = l.ts /\ k.val[1] = l.val[1] /\ k.val[2] < l.val[2]
    BY <1>12 DEF Service!Before
  <2> HIDE DEF l
  <2>4. k \in ToSet(s) \/ \E j \in 1..Len(m_ptrComQ) : k \in Queued(j)
    BY <1>2, LabelTypes DEF Inserted
  <2>5. CASE k \in ToSet(s)
    <3>1. PICK a \in 1..Len(s) : k = s[a]
      BY <2>5, <1>3
    <3>2. ~(k.ts > stable)
      BY <2>1, <2>2, <2>3, <1>1
    <3>3. a \in 1..(it - 1)
      BY <3>1, <3>2, <1>1, <1>3
    <3> QED BY <3>1, <3>3, <1>5
  <2>6. ASSUME NEW j \in 1..Len(m_ptrComQ), k \in Queued(j)
        PROVE  FALSE
    <3>1. /\ m_ptrComQ[j] \in ReceivedMessage
          /\ m_ptrComQ[j].labels \in Seq(Label)
          /\ m_ptrComQ[j].pid \in 1..ClientCount
      BY TimestampTypes DEF ReceivedMessage
    <3>2. PICK a \in 1..Len(m_ptrComQ[j].labels) : k = m_ptrComQ[j].labels[a]
      BY <2>6, <3>1, ToSetElements DEF Queued
    <3>3. NotOlderThan(m_ptrComQ[j], m_heartbeat'[m_ptrComQ[j].pid])
      BY <1>2 DEF OrderInv, PromisesKept, NotOlderThan
    <3>4. k.ts >= stable
      <4> DEFINE h == m_heartbeat'[m_ptrComQ[j].pid]
      <4>1. k.ts >= h
        BY <3>2, <3>3 DEF NotOlderThan
      <4>2. h \in Nat /\ stable <= h
        BY <3>1, <1>1
      <4> HIDE DEF h
      <4> QED BY <4>1, <4>2, <2>2, <1>1
    <3>5. k.val[1] = l.val[1] => l.val[2] < k.val[2]
      BY <2>1, <2>6 DEF LabelInv, NumbersInOrder, SentBefore
    <3> QED BY <2>1, <2>2, <2>3, <3>4, <3>5, <1>1, SMTT(30)
  <2> QED BY <2>4, <2>5, <2>6
<1>13. ASSUME NEW i \in first..Len(st'), NEW j \in first..Len(st'),
              Service!Before(st'[i], st'[j])
       PROVE  i < j
  <2> DEFINE k == st'[i]
             l == st'[j]
  <2>1. /\ k = s[i - Len(st)] /\ i - Len(st) \in 1..Len(s)
        /\ l = s[j - Len(st)] /\ j - Len(st) \in 1..Len(s)
    BY <1>4
  <2>2. /\ k \in Label /\ l \in Label /\ i \in 1..Len(st') /\ j \in 1..Len(st')
    BY <2>1, <1>3, ElementOfSeq
  <2>3. /\ k.ts \in Nat /\ k.val[2] \in Nat /\ l.ts \in Nat /\ l.val[2] \in Nat
    BY <2>2, LabelParts
  <2>4. \/ k.ts < l.ts
        \/ k.ts = l.ts /\ k.val[1] = l.val[1] /\ k.val[2] < l.val[2]
    BY <1>13 DEF Service!Before
  <2> SUFFICES ASSUME ~(i < j) PROVE FALSE
    OBVIOUS
  <2>5. CASE i = j
    BY <2>3, <2>4, <2>5
  <2>6. CASE j < i
    <3>1. j - Len(st) < i - Len(st)
      BY <2>6, <1>3
    <3>2. InFront(l, k)
      BY <2>1, <3>1, <1>6
    <3>3. l.ts <= k.ts
      BY <2>2, <2>6 DEF OrderInv, StabilisedInOrder, InTimestampOrder
    <3> HIDE DEF k, l
    <3> QED BY <2>3, <2>4, <3>2, <3>3 DEF InFront, SentBefore
  <2> QED BY <2>5, <2>6, <1>3
<1>14. /\ new \subseteq {l \in waiting : Service!Final(l.ts)}
       /\ \A l \in new, k \in waiting : Service!Before(k, l) => k \in new
  BY <1>11, <1>12 DEF Service!Final, Promise
<1>15. UNCHANGED <<SentLabels, Promise>>
  BY <1>2 DEF Promise
<1>16. \A i, j \in first..Len(st') : Service!Before(st'[i], st'[j]) => i < j
  BY <1>13
<1>17. st' # st
  OBVIOUS
<1>18. /\ Service!ToSet(st) = ToSet(st)
       /\ Service!IsPrefix(st, st') <=> IsPrefix(st, st')
       /\ Service!IsInjective(st') <=> IsInjective(st')
  BY DEF Service!ToSet, ToSet, Service!IsPrefix, IsPrefix,
         Service!IsInjective, IsInjective
<1> QED
  BY ONLY <1>8, <1>9, <1>10, <1>14, <1>15, <1>16, <1>17, <1>18, Zenon
     DEF Service!Release, ServiceLabels, Promise

\* No other step is seen by the users of the service.
LEMMA OthersStutter ==
  ASSUME TypeOK, ~Vnodes, ~Stabilise, [Next]_vars
  PROVE  UNCHANGED Service!orderVars
<1>1. CASE TakeMessage
  BY <1>1, TakeEffect DEF Service!orderVars
<1>2. CASE InsertBatchLabels
  BY <1>2, InsertEffect DEF Service!orderVars
<1>3. CASE \/ SkipDelivery \/ WriteBatch \/ ReadReply \/ Report
           \/ ReceiverReplies \/ ReceiverCloses \/ UNCHANGED vars
  BY <1>3, OtherStepsMoveNone DEF Service!orderVars
<1> QED
  BY <1>1, <1>2, <1>3 DEF Next, Processor

(***************************************************************************)
(* processQ implements OrderedDelivery, for every number of partitions,    *)
(* all timestamps and batches and every interleaving: labels are released  *)
(* in timestamp order, each once, none before all that have to precede it  *)
(* and none before it is final.                                            *)
(***************************************************************************)
THEOREM ProcessQImplementsService == Spec => ImplementsOrderedDelivery
<1>1. Init => Service!Init
  BY ServiceInit
<1>2. /\ TypeOK /\ OrderInv /\ LabelInv
      /\ (TypeOK /\ OrderInv /\ LabelInv)'
      /\ [Next]_vars
      => [Service!Next]_(Service!orderVars)
  <2> SUFFICES ASSUME TypeOK, OrderInv, LabelInv, TypeOK', OrderInv', LabelInv',
                      [Next]_vars
               PROVE  Service!Next \/ UNCHANGED Service!orderVars
    OBVIOUS
  <2>1. CASE Vnodes
    BY <2>1, VnodesImplementSend DEF Service!Next
  <2>2. CASE Stabilise /\ stabilised' # stabilised
    BY <2>2, StabiliseImplementsRelease DEF Service!Next
  <2>3. CASE Stabilise /\ stabilised' = stabilised
    BY <2>3, StabiliseMovesLabels DEF Service!orderVars
  <2>4. CASE ~Vnodes /\ ~Stabilise
    BY <2>4, OthersStutter
  <2> QED BY <2>1, <2>2, <2>3, <2>4
<1> QED
  BY <1>1, <1>2, LabelInvariant, PTL
     DEF Spec, ImplementsOrderedDelivery, Service!Spec
=============================================================================
