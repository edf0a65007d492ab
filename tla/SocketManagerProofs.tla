------------------------- MODULE SocketManagerProofs -------------------------
(***************************************************************************)
(* Proofs about SocketManager: type correctness, the order of the          *)
(* callbacks, and that edge triggering strands nothing, for any number of  *)
(* connections and any sizes of the kernel's buffers, of read() and of     *)
(* epoll_wait's array, as long as i_ReadTurns reads empty a full socket    *)
(* buffer (the last part of SocketAssumption; TurnsSuffice).               *)
(***************************************************************************)
EXTENDS SocketManager, FiniteSetTheorems, TLAPS

\* The inductive invariant.
SocketInv == TypeOK /\ CallbacksInOrder /\ LoopInv

\* SocketAssumption without the product in it, which only ReadData and the end
\* of the read loop need.
LEMMA ConstantTypes ==
  /\ Listener \notin Conns
  /\ RcvBuf \in Nat /\ ReadSize \in Nat \ {0} /\ ReadTurns \in Nat
  /\ MaxSent \in Nat /\ SndBuf \in Nat \ {0} /\ MaxAppend \in Nat
  BY SocketAssumption

\* What epoll_wait does with the ready list: a socket on it stays there, has
\* nothing to report, or is handed out with all that there is to report.
LEMMA HandedOut ==
  EpollWait =>
    /\ \A e \in pstEpollRetEvents' :
         e.fd \in ready /\ e = [fd |-> e.fd, events |-> Mask(e.fd)]
    /\ \A s \in ready :
         s \in ready' \/ \A flag \in Mask(s) : HasEvent(s, flag)'
<1> SUFFICES ASSUME EpollWait
             PROVE  /\ \A e \in pstEpollRetEvents' :
                         /\ e.fd \in ready
                         /\ e = [fd |-> e.fd, events |-> Mask(e.fd)]
                    /\ \A s \in ready :
                         \/ s \in ready'
                         \/ \A flag \in Mask(s) : HasEvent(s, flag)'
  OBVIOUS
<1>1. PICK S \in SUBSET ready :
        /\ ready' = ready \ S
        /\ pstEpollRetEvents' =
             {[fd |-> s, events |-> Mask(s)] : s \in {r \in S : Mask(r) # {}}}
  BY DEF EpollWait
<1>2. ASSUME NEW e \in pstEpollRetEvents'
      PROVE  e.fd \in ready /\ e = [fd |-> e.fd, events |-> Mask(e.fd)]
  <2>1. PICK s \in S : e = [fd |-> s, events |-> Mask(s)]
    BY <1>1
  <2>2. e.fd = s
    BY <2>1
  <2> QED BY <2>1, <2>2
<1>3. ASSUME NEW s \in ready, s \notin ready', NEW flag \in Mask(s)
      PROVE  HasEvent(s, flag)'
  <2> DEFINE e == [fd |-> s, events |-> Mask(s)]
  <2>1. e \in pstEpollRetEvents'
    BY <1>1, <1>3
  <2>2. e.fd = s /\ flag \in e.events
    OBVIOUS
  <2> QED BY <2>1, <2>2 DEF HasEvent
<1> QED BY <1>2, <1>3

\* The read loop gives up only on a client that has nothing left or has come
\* onto the ready list meanwhile.
LEMMA ReadEnds ==
  SocketInv /\ ReadDone =>
    cur \in ready \/ (unread[cur] = 0 /\ peer[cur] = "alive")
<1> SUFFICES ASSUME SocketInv, ReadDone, ~(unread[cur] = 0 /\ peer[cur] = "alive")
             PROVE  cur \in ready
  OBVIOUS
<1>1. t = ReadTurns /\ Reading /\ cur \in m_ptrServerTypes /\ unread[cur] \in Nat
  BY ConstantTypes DEF SocketInv, LoopInv, TypeOK, AtWork, ReadDone, Reading
<1>2. CASE unread[cur] > 0
  <2>1. (ReadTurns - t) * ReadSize = 0
    BY <1>1, ConstantTypes
  <2> QED BY <1>1, <1>2, <2>1 DEF SocketInv, LoopInv, TurnsSuffice
<1>3. CASE peer[cur] # "alive"
  <2>1. ~HasEvent(cur, "EPOLLRDHUP")
    BY <1>1 DEF SocketInv, LoopInv, Events, HasEvent
  <2> QED BY <1>1, <1>3, <2>1 DEF SocketInv, LoopInv, SeenTo
<1> QED BY <1>1, <1>2, <1>3

DescriptorsKept ==
  \A d \in Conns : link[d] \notin {"none", "pending"}
                     => link'[d] \notin {"none", "pending"}

\* A descriptor that has been given out stays in use.
LEMMA DescriptorsStay == SocketInv /\ [Next]_vars => DescriptorsKept
<1> SUFFICES ASSUME SocketInv, [Next]_vars PROVE DescriptorsKept
  OBVIOUS
<1>0. TypeOK
  BY DEF SocketInv
<1> USE <1>0, ConstantTypes DEF TypeOK, kernelVars, inVars, outVars,
                                sendVars, appVars
<1>1. ASSUME NEW c \in Conns,
             Connect(c) \/ PeerSends(c) \/ PeerLeaves(c) \/ PeerTakes(c)
      PROVE  DescriptorsKept
  <2>1. CASE PeerSends(c) \/ PeerLeaves(c) \/ PeerTakes(c)
    BY <2>1 DEF PeerSends, Arm, PeerLeaves, PeerTakes, DescriptorsKept
  <2>2. CASE Connect(c)
    BY <2>2 DEF Connect, DescriptorsKept
  <2> QED BY <1>1, <2>1, <2>2
<1>2. CASE EpollWait
  BY <1>2 DEF EpollWait, DescriptorsKept
<1>3. ASSUME NEW e \in pstEpollRetEvents,
             \/ AcceptEvent(e) \/ StaleEvent(e) \/ HangUpEvent(e)
             \/ ClientEvent(e)
      PROVE  DescriptorsKept
  BY <1>3 DEF AcceptEvent, NextEvent, StaleEvent, HangUpEvent, ClientEvent,
              DescriptorsKept
<1>4. ASSUME NEW c \in Conns,
             Accept(c) \/ AcceptUnregistered(c)
      PROVE  DescriptorsKept
  <2>1. CASE Accept(c)
    BY <2>1 DEF Accept, DescriptorsKept
  <2>2. CASE AcceptUnregistered(c)
    BY <2>2 DEF AcceptUnregistered, DescriptorsKept
  <2> QED BY <1>4, <2>1, <2>2
<1>5. CASE AcceptFails \/ ReadData \/ ReadHangUp \/ ReadDone \/ OutEvent
  BY <1>5 DEF AcceptFails, ReadData, ReadHangUp, AfterRead, ReadDone,
              OutEvent, DescriptorsKept
<1>6. CASE WriteSome \/ WriteBlocked \/ AskForEPOLLOUT
  BY <1>6 DEF WriteSome, ToSend, Room, WriteBlocked, DeleteSent,
              AskForEPOLLOUT, Return, DescriptorsKept
<1>7. CASE WriteFails \/ WriteKills \/ WriteDone
  BY <1>7 DEF WriteFails, ToSend, DeleteSent, Return, WriteKills, WriteDone,
              DescriptorsKept
<1>8. ASSUME NEW c \in Conns,
             ReadyToSend(c) \/ Disconnect(c) \/ Unregister(c)
      PROVE  DescriptorsKept
  <2>1. CASE ReadyToSend(c) \/ Disconnect(c)
    BY <2>1 DEF ReadyToSend, Disconnect, DescriptorsKept
  <2>2. CASE Unregister(c)
    BY <2>2 DEF Unregister, DescriptorsKept
  <2> QED BY <1>8, <2>1, <2>2
<1>9. CASE EventsDone \/ CallbackReturns \/ SetsDone
  BY <1>9 DEF EventsDone, CallbackReturns, SetsDone, DescriptorsKept
<1>10. ASSUME NEW c \in Conns, NEW k \in 1..MaxAppend,
             Send(c, k)
      PROVE  DescriptorsKept
  BY <1>10 DEF Send, DescriptorsKept
<1>11. CASE UNCHANGED vars
  BY <1>11 DEF vars, DescriptorsKept
<1> QED
  BY <1>1, <1>2, <1>3, <1>4, <1>5, <1>6, <1>7, <1>8, <1>9, <1>10,
     <1>11 DEF Next, ReadSockets, SendToClient

LEMMA FdsInUseType == FdsInUse \in Nat
<1>1. IsFiniteSet({c \in Conns : link[c] \notin {"none", "pending"}})
  BY SocketAssumption, FS_Subset
<1> QED BY <1>1, FS_CardinalityType DEF FdsInUse

\* So where there is room for one more client after a step, there was before.
LEMMA RoomBefore ==
  SocketInv /\ [Next]_vars /\ FdsInUse' < FdLimit => FdsInUse < FdLimit
<1> SUFFICES ASSUME SocketInv, [Next]_vars, FdsInUse' < FdLimit
             PROVE  FdsInUse < FdLimit
  OBVIOUS
<1> DEFINE Used == {c \in Conns : link[c] \notin {"none", "pending"}}
           UsedNext == {c \in Conns : link'[c] \notin {"none", "pending"}}
<1>1. Used \subseteq UsedNext
  BY DescriptorsStay DEF DescriptorsKept
<1>2. IsFiniteSet(UsedNext)
  BY SocketAssumption, FS_Subset
<1>3. /\ Cardinality(Used) \in Nat /\ Cardinality(UsedNext) \in Nat
      /\ Cardinality(Used) <= Cardinality(UsedNext)
  BY <1>1, <1>2, FS_Subset, FS_CardinalityType
<1>4. Cardinality(UsedNext) < FdLimit
  BY DEF FdsInUse
<1> QED BY <1>3, <1>4, SocketAssumption DEF FdsInUse

-----------------------------------------------------------------------------
(* One lemma per conjunct: no step breaks it.                              *)

\* Every step keeps the types.
LEMMA TypeNext == SocketInv /\ [Next]_vars => TypeOK'
<1> SUFFICES ASSUME SocketInv, [Next]_vars PROVE TypeOK'
  OBVIOUS
<1>0. TypeOK /\ CallbacksInOrder /\ AtWork /\ Clients
  BY DEF SocketInv, LoopInv
<1> USE <1>0, ConstantTypes DEF TypeOK, CallbacksInOrder, AtWork, Clients,
                                kernelVars, inVars, outVars, sendVars,
                                appVars
<1>1. ASSUME NEW c \in Conns,
             Connect(c) \/ PeerSends(c) \/ PeerLeaves(c) \/ PeerTakes(c)
      PROVE  TypeOK'
  <2>1. CASE PeerTakes(c)
    BY <2>1 DEF PeerTakes, Arm, Reading
  <2>2. CASE Connect(c)
    BY <2>2 DEF Connect, Reading
  <2>3. CASE PeerSends(c)
    BY <2>3 DEF PeerSends, Arm, Reading
  <2>4. CASE PeerLeaves(c)
    <3>1. peer' \in [Conns -> {"alive", "fin", "rst"}]
      BY <2>4 DEF PeerLeaves
    <3> QED BY <2>4, <3>1 DEF PeerLeaves, Arm
  <2> QED BY <1>1, <2>1, <2>2, <2>3, <2>4
<1>2. CASE EpollWait
  <2>1. \A s \in Conns \cup {Listener} :
          Mask(s) \in SUBSET {"EPOLLIN", "EPOLLOUT", "EPOLLRDHUP"}
    BY DEF Mask
  <2>2. pstEpollRetEvents' \subseteq
          [fd : Conns \cup {Listener},
           events : SUBSET {"EPOLLIN", "EPOLLOUT", "EPOLLRDHUP"}]
    BY <1>2, <2>1 DEF EpollWait
  <2> QED BY <1>2, <2>2 DEF EpollWait
<1>3. ASSUME NEW e \in pstEpollRetEvents,
             \/ AcceptEvent(e) \/ StaleEvent(e) \/ HangUpEvent(e)
             \/ ClientEvent(e)
      PROVE  TypeOK'
  <2>1. CASE AcceptEvent(e)
    BY <2>1 DEF AcceptEvent, NextEvent, Reading
  <2>2. CASE StaleEvent(e)
    BY <2>2 DEF StaleEvent, NextEvent, Reading
  <2>3. CASE HangUpEvent(e)
    BY <2>3 DEF HangUpEvent, NextEvent, Reading
  <2>4. CASE ClientEvent(e)
    BY <2>4 DEF ClientEvent, NextEvent, Reading
  <2> QED BY <1>3, <2>1, <2>2, <2>3, <2>4
<1>4. ASSUME NEW c \in Conns,
             Accept(c) \/ AcceptUnregistered(c)
      PROVE  TypeOK'
  <2>1. CASE AcceptUnregistered(c)
    BY <2>1 DEF AcceptUnregistered, Reading
  <2>2. CASE Accept(c)
    <3>1. onConnect' \in [Conns -> Nat]
      BY <2>2 DEF Accept
    <3>2. ready' \subseteq Conns \cup {Listener}
      BY <2>2 DEF Accept
    <3>3. link' \in [Conns -> {"none", "pending", "accepted", "leaked", "removed"}]
      BY <2>2 DEF Accept
    <3> QED BY <2>2, <3>1, <3>2, <3>3 DEF Accept
  <2> QED BY <1>4, <2>1, <2>2
<1>5. CASE AcceptFails \/ ReadData \/ ReadHangUp \/ ReadDone \/ OutEvent
  <2>1. CASE ReadDone
    BY <2>1 DEF ReadDone, AfterRead, Reading
  <2>2. CASE AcceptFails
    BY <2>2 DEF AcceptFails, Reading
  <2>3. CASE ReadData
    BY <2>3 DEF ReadData, Reading
  <2>4. CASE ReadHangUp
    BY <2>4 DEF ReadHangUp, AfterRead, Reading
  <2>5. CASE OutEvent
    BY <2>5 DEF OutEvent, Reading
  <2> QED BY <1>5, <2>1, <2>2, <2>3, <2>4, <2>5
<1>6. CASE WriteSome \/ WriteBlocked \/ AskForEPOLLOUT
  <2>1. CASE WriteSome
    BY <2>1 DEF WriteSome, ToSend, Room, Reading
  <2>2. CASE WriteBlocked
    BY <2>2 DEF WriteBlocked, ToSend, Room, DeleteSent, Reading
  <2>3. CASE AskForEPOLLOUT
    BY <2>3 DEF AskForEPOLLOUT, Room, Return, Reading
  <2> QED BY <1>6, <2>1, <2>2, <2>3
<1>7. CASE WriteFails \/ WriteKills \/ WriteDone
  <2>1. CASE WriteKills
    BY <2>1 DEF WriteKills, ToSend, Reading
  <2>2. CASE WriteFails
    BY <2>2 DEF WriteFails, ToSend, DeleteSent, Return, Reading
  <2>3. CASE WriteDone
    <3>1. m_SendBuffer' \in [Conns -> Nat] /\ iSendLen' \in Nat
      BY <2>3 DEF WriteDone, ToSend, DeleteSent
    <3>2. ready' \subseteq Conns \cup {Listener} /\ epollout' \subseteq Conns
      BY <2>3 DEF WriteDone
    <3>3. /\ pc' \in {"wait", "event", "read", "onReady", "onDiscon"}
          /\ to' \in Conns \cup {Listener} /\ back' = "wait"
      BY <2>3 DEF WriteDone, Return
    <3> QED BY <2>3, <3>1, <3>2, <3>3 DEF WriteDone
  <2> QED BY <1>7, <2>1, <2>2, <2>3
<1>8. ASSUME NEW c \in Conns,
             ReadyToSend(c) \/ Disconnect(c) \/ Unregister(c)
      PROVE  TypeOK'
  <2>1. CASE ReadyToSend(c)
    BY <2>1 DEF ReadyToSend, Reading
  <2>2. CASE Disconnect(c)
    BY <2>2 DEF Disconnect, Reading
  <2>3. CASE Unregister(c)
    BY <2>3 DEF Unregister, Reading
  <2> QED BY <1>8, <2>1, <2>2, <2>3
<1>9. CASE EventsDone \/ CallbackReturns \/ SetsDone
  BY <1>9 DEF EventsDone, CallbackReturns, SetsDone, Reading
<1>10. ASSUME NEW c \in Conns, NEW k \in 1..MaxAppend,
             Send(c, k)
      PROVE  TypeOK'
  BY <1>10 DEF Send, Reading
<1>11. CASE UNCHANGED vars
  BY <1>11 DEF vars, Reading
<1> QED
  BY <1>1, <1>2, <1>3, <1>4, <1>5, <1>6, <1>7, <1>8, <1>9, <1>10,
     <1>11 DEF Next, ReadSockets, SendToClient

\* Every step keeps the callbacks in order and the units accounted for; it is
\* the calls on clients in the table and Reading, which bounds them, that count.
LEMMA CallbacksNext == SocketInv /\ [Next]_vars => CallbacksInOrder'
<1> SUFFICES ASSUME SocketInv, [Next]_vars PROVE CallbacksInOrder'
  OBVIOUS
<1>0. TypeOK /\ CallbacksInOrder /\ AtWork /\ Clients /\ Events
  BY DEF SocketInv, LoopInv
<1> USE <1>0, ConstantTypes DEF TypeOK, CallbacksInOrder, AtWork, Clients,
                                Events, kernelVars, inVars, outVars,
                                sendVars, appVars
<1>1. ASSUME NEW c \in Conns,
             Connect(c) \/ PeerSends(c) \/ PeerLeaves(c) \/ PeerTakes(c)
      PROVE  CallbacksInOrder'
  <2>1. CASE Connect(c)
    BY <2>1 DEF Connect, Reading
  <2>2. CASE PeerSends(c)
    BY <2>2 DEF PeerSends, Arm, Reading
  <2>3. CASE PeerLeaves(c)
    BY <2>3 DEF PeerLeaves, Arm, Reading
  <2>4. CASE PeerTakes(c)
    BY <2>4 DEF PeerTakes, Arm, Reading
  <2> QED BY <1>1, <2>1, <2>2, <2>3, <2>4
<1>2. CASE EpollWait
  BY <1>2 DEF EpollWait, Reading
<1>3. ASSUME NEW e \in pstEpollRetEvents,
             \/ AcceptEvent(e) \/ StaleEvent(e) \/ HangUpEvent(e)
             \/ ClientEvent(e)
      PROVE  CallbacksInOrder'
  BY <1>3 DEF AcceptEvent, NextEvent, StaleEvent, HangUpEvent, ClientEvent,
              Reading
<1>4. ASSUME NEW c \in Conns,
             Accept(c) \/ AcceptUnregistered(c)
      PROVE  CallbacksInOrder'
  BY <1>4 DEF Accept, AcceptUnregistered, Reading
<1>5. CASE AcceptFails \/ ReadData \/ ReadHangUp \/ ReadDone \/ OutEvent
  <2>1. CASE AcceptFails
    BY <2>1 DEF AcceptFails, Reading
  <2>2. CASE ReadData
    BY <2>2 DEF ReadData, Reading
  <2>3. CASE ReadHangUp
    BY <2>3 DEF ReadHangUp, AfterRead, Reading
  <2>4. CASE ReadDone
    BY <2>4 DEF ReadDone, AfterRead, Reading
  <2>5. CASE OutEvent
    BY <2>5 DEF OutEvent, Reading
  <2> QED BY <1>5, <2>1, <2>2, <2>3, <2>4, <2>5
<1>6. CASE WriteSome \/ WriteBlocked \/ AskForEPOLLOUT
  <2>1. CASE WriteSome
    <3> DEFINE k == IF ToSend < Room THEN ToSend ELSE Room
    <3>1. to \in Conns /\ k \in Nat
      BY <2>1 DEF WriteSome, ToSend, Room
    <3>2. /\ outgoing' = [outgoing EXCEPT ![to] = @ + k]
          /\ iSendLen' = iSendLen + k
      BY <2>1 DEF WriteSome
    <3>3. /\ UNCHANGED <<link, peer, sent, unread, taken, to, m_SendBuffer>>
          /\ UNCHANGED <<appended, appVars>>
      BY <2>1 DEF WriteSome
    <3> HIDE DEF k
    <3>4. ASSUME NEW c \in Conns
          PROVE  appended[c] + (IF to = c THEN iSendLen' ELSE 0)
                   = m_SendBuffer[c] + outgoing'[c] + taken[c]
      <4>1. /\ outgoing[c] \in Nat /\ taken[c] \in Nat /\ iSendLen \in Nat
            /\ m_SendBuffer[c] \in Nat /\ appended[c] \in Nat
            /\ appended[c] + (IF to = c THEN iSendLen ELSE 0)
                 = m_SendBuffer[c] + outgoing[c] + taken[c]
        OBVIOUS
      <4>2. outgoing'[c] = outgoing[c] + (IF to = c THEN k ELSE 0)
        BY <3>1, <3>2, <4>1
      <4>3. k \in Nat /\ iSendLen' = iSendLen + k
        BY <3>1, <3>2
      <4> HIDE <1>0, ConstantTypes
      <4> QED BY <4>1, <4>2, <4>3
    <3> QED BY <3>3, <3>4
  <2>2. CASE WriteBlocked
    <3>1. to \in Conns
      BY <2>2 DEF WriteBlocked
    <3>2. /\ m_SendBuffer' = [m_SendBuffer EXCEPT ![to] = @ - iSendLen]
          /\ iSendLen' = 0
      BY <2>2 DEF WriteBlocked, DeleteSent
    <3> QED BY <2>2, <3>1, <3>2 DEF WriteBlocked
  <2>3. CASE AskForEPOLLOUT
    <3>1. to' = Listener /\ iSendLen' = 0
      BY <2>3 DEF AskForEPOLLOUT, Return
    <3> QED BY <2>3, <3>1 DEF AskForEPOLLOUT
  <2> QED BY <1>6, <2>1, <2>2, <2>3
<1>7. CASE WriteFails \/ WriteKills \/ WriteDone
  <2>1. CASE WriteFails
    <3>1. to \in Conns
      BY <2>1 DEF WriteFails
    <3>2. /\ m_SendBuffer' = [m_SendBuffer EXCEPT ![to] = @ - iSendLen]
          /\ iSendLen' = 0 /\ to' = Listener
      BY <2>1 DEF WriteFails, DeleteSent, Return
    <3>3. ASSUME NEW c \in Conns
          PROVE  appended[c] + 0 = m_SendBuffer'[c] + outgoing[c] + taken[c]
      <4>1. /\ outgoing[c] \in Nat /\ taken[c] \in Nat /\ iSendLen \in Nat
            /\ m_SendBuffer[c] \in Nat /\ appended[c] \in Nat
            /\ appended[c] + (IF to = c THEN iSendLen ELSE 0)
                 = m_SendBuffer[c] + outgoing[c] + taken[c]
        OBVIOUS
      <4>2. m_SendBuffer'[c] = m_SendBuffer[c] - (IF to = c THEN iSendLen ELSE 0)
        BY <3>1, <3>2, <4>1
      <4> HIDE <1>0, ConstantTypes
      <4> QED BY <4>1, <4>2
    <3> QED BY <2>1, <3>2, <3>3 DEF WriteFails
  <2>2. CASE WriteKills
    BY <2>2 DEF WriteKills, ToSend, Reading
  <2>3. CASE WriteDone
    <3>1. to \in Conns
      BY <2>3 DEF WriteDone
    <3>2. /\ m_SendBuffer' = [m_SendBuffer EXCEPT ![to] = @ - iSendLen]
          /\ iSendLen' = 0 /\ to' = Listener
      BY <2>3 DEF WriteDone, DeleteSent, Return
    <3> QED BY <2>3, <3>1, <3>2 DEF WriteDone
  <2> QED BY <1>7, <2>1, <2>2, <2>3
<1>8. ASSUME NEW c \in Conns,
             ReadyToSend(c) \/ Disconnect(c) \/ Unregister(c)
      PROVE  CallbacksInOrder'
  BY <1>8 DEF ReadyToSend, Disconnect, Unregister, Reading
<1>9. CASE EventsDone \/ CallbackReturns \/ SetsDone
  BY <1>9 DEF EventsDone, CallbackReturns, SetsDone, Reading
<1>10. ASSUME NEW c \in Conns, NEW k \in 1..MaxAppend,
             Send(c, k)
      PROVE  CallbacksInOrder'
  BY <1>10 DEF Send, Reading
<1>11. CASE UNCHANGED vars
  BY <1>11 DEF vars, Reading
<1> QED
  BY <1>1, <1>2, <1>3, <1>4, <1>5, <1>6, <1>7, <1>8, <1>9, <1>10,
     <1>11 DEF Next, ReadSockets, SendToClient

\* Every step leaves the thread with a client to work on where it needs one.
LEMMA AtWorkNext == SocketInv /\ [Next]_vars => AtWork'
<1> SUFFICES ASSUME SocketInv, [Next]_vars PROVE AtWork'
  OBVIOUS
<1>0. TypeOK /\ AtWork /\ CallbacksInOrder
  BY DEF SocketInv, LoopInv
<1> USE <1>0, ConstantTypes DEF TypeOK, AtWork, CallbacksInOrder,
                                kernelVars, inVars, outVars, sendVars,
                                appVars
<1>1. ASSUME NEW c \in Conns,
             Connect(c) \/ PeerSends(c) \/ PeerLeaves(c) \/ PeerTakes(c)
      PROVE  AtWork'
  BY <1>1 DEF Connect, PeerSends, Arm, PeerLeaves, PeerTakes, Reading
<1>2. CASE EpollWait
  BY <1>2 DEF EpollWait, Reading
<1>3. ASSUME NEW e \in pstEpollRetEvents,
             \/ AcceptEvent(e) \/ StaleEvent(e) \/ HangUpEvent(e)
             \/ ClientEvent(e)
      PROVE  AtWork'
  BY <1>3 DEF AcceptEvent, NextEvent, StaleEvent, HangUpEvent, ClientEvent,
              Reading
<1>4. ASSUME NEW c \in Conns,
             Accept(c) \/ AcceptUnregistered(c)
      PROVE  AtWork'
  BY <1>4 DEF Accept, AcceptUnregistered, Reading
<1>5. CASE AcceptFails \/ ReadData \/ ReadHangUp \/ ReadDone \/ OutEvent
  BY <1>5 DEF AcceptFails, ReadData, ReadHangUp, AfterRead, ReadDone,
              OutEvent, Reading
<1>6. CASE WriteSome \/ WriteBlocked \/ AskForEPOLLOUT
  BY <1>6 DEF WriteSome, ToSend, Room, WriteBlocked, DeleteSent,
              AskForEPOLLOUT, Return, Reading
<1>7. CASE WriteFails \/ WriteKills \/ WriteDone
  BY <1>7 DEF WriteFails, ToSend, DeleteSent, Return, WriteKills, WriteDone,
              Reading
<1>8. ASSUME NEW c \in Conns,
             ReadyToSend(c) \/ Disconnect(c) \/ Unregister(c)
      PROVE  AtWork'
  BY <1>8 DEF ReadyToSend, Disconnect, Unregister, Reading
<1>9. CASE EventsDone \/ CallbackReturns \/ SetsDone
  BY <1>9 DEF EventsDone, CallbackReturns, SetsDone, Reading
<1>10. ASSUME NEW c \in Conns, NEW k \in 1..MaxAppend,
             Send(c, k)
      PROVE  AtWork'
  BY <1>10 DEF Send, Reading
<1>11. CASE UNCHANGED vars
  BY <1>11 DEF vars, Reading
<1> QED
  BY <1>1, <1>2, <1>3, <1>4, <1>5, <1>6, <1>7, <1>8, <1>9, <1>10,
     <1>11 DEF Next, ReadSockets, SendToClient

\* Every step leaves only accepted clients in the program's lists.
LEMMA ClientsNext == SocketInv /\ [Next]_vars => Clients'
<1> SUFFICES ASSUME SocketInv, [Next]_vars PROVE Clients'
  OBVIOUS
<1>0. TypeOK /\ AtWork /\ Clients /\ CallbacksInOrder
  BY DEF SocketInv, LoopInv
<1> USE <1>0, ConstantTypes DEF TypeOK, AtWork, Clients, CallbacksInOrder,
                                kernelVars, inVars, outVars, sendVars,
                                appVars
<1>1. ASSUME NEW c \in Conns,
             Connect(c) \/ PeerSends(c) \/ PeerLeaves(c) \/ PeerTakes(c)
      PROVE  Clients'
  BY <1>1 DEF Connect, PeerSends, Arm, PeerLeaves, PeerTakes
<1>2. CASE EpollWait
  BY <1>2 DEF EpollWait
<1>3. ASSUME NEW e \in pstEpollRetEvents,
             \/ AcceptEvent(e) \/ StaleEvent(e) \/ HangUpEvent(e)
             \/ ClientEvent(e)
      PROVE  Clients'
  BY <1>3 DEF AcceptEvent, NextEvent, StaleEvent, HangUpEvent, ClientEvent
<1>4. ASSUME NEW c \in Conns,
             Accept(c) \/ AcceptUnregistered(c)
      PROVE  Clients'
  <2>1. CASE Accept(c)
    BY <2>1 DEF Accept
  <2>2. CASE AcceptUnregistered(c)
    BY <2>2 DEF AcceptUnregistered
  <2> QED BY <1>4, <2>1, <2>2
<1>5. CASE AcceptFails \/ ReadData \/ ReadHangUp \/ ReadDone \/ OutEvent
  BY <1>5 DEF AcceptFails, ReadData, ReadHangUp, AfterRead, ReadDone,
              OutEvent
<1>6. CASE WriteSome \/ WriteBlocked \/ AskForEPOLLOUT
  BY <1>6 DEF WriteSome, ToSend, Room, WriteBlocked, DeleteSent,
              AskForEPOLLOUT, Return
<1>7. CASE WriteFails \/ WriteKills \/ WriteDone
  BY <1>7, ZenonT(60) DEF WriteFails, ToSend, DeleteSent, Return, WriteKills, WriteDone
<1>8. ASSUME NEW c \in Conns,
             ReadyToSend(c) \/ Disconnect(c) \/ Unregister(c)
      PROVE  Clients'
  BY <1>8 DEF ReadyToSend, Disconnect, Unregister
<1>9. CASE EventsDone \/ CallbackReturns \/ SetsDone
  BY <1>9 DEF EventsDone, CallbackReturns, SetsDone
<1>10. ASSUME NEW c \in Conns, NEW k \in 1..MaxAppend,
             Send(c, k)
      PROVE  Clients'
  BY <1>10 DEF Send
<1>11. CASE UNCHANGED vars
  BY <1>11 DEF vars
<1> QED
  BY <1>1, <1>2, <1>3, <1>4, <1>5, <1>6, <1>7, <1>8, <1>9, <1>10,
     <1>11 DEF Next, ReadSockets, SendToClient

\* Every step leaves at most one event of a socket in hand, none of them early.
LEMMA EventsNext == SocketInv /\ [Next]_vars => Events'
<1> SUFFICES ASSUME SocketInv, [Next]_vars PROVE Events'
  OBVIOUS
<1>0. TypeOK /\ AtWork /\ Clients /\ Events
  BY DEF SocketInv, LoopInv
<1> USE <1>0, ConstantTypes DEF TypeOK, AtWork, Clients, Events, kernelVars,
                                inVars, outVars, sendVars, appVars
<1>1. ASSUME NEW c \in Conns,
             Connect(c) \/ PeerSends(c) \/ PeerLeaves(c) \/ PeerTakes(c)
      PROVE  Events'
  BY <1>1 DEF Connect, PeerSends, Arm, PeerLeaves, PeerTakes, Reading, Mask
<1>2. CASE EpollWait
  <2>1. pc' = "event" /\ UNCHANGED <<peer, cur, back>> /\ ~Reading'
    BY <1>2 DEF EpollWait, Reading
  <2>2. \A e \in pstEpollRetEvents' :
          "EPOLLRDHUP" \in e.events =>
            e.fd # Listener /\ peer[e.fd] # "alive" /\ "EPOLLIN" \in e.events
    BY <1>2, HandedOut DEF Mask
  <2>3. \A e, f \in pstEpollRetEvents' : e.fd = f.fd => e = f
    BY <1>2, HandedOut
  <2> QED BY <2>1, <2>2, <2>3
<1>3. ASSUME NEW e \in pstEpollRetEvents,
             \/ AcceptEvent(e) \/ StaleEvent(e) \/ HangUpEvent(e)
             \/ ClientEvent(e)
      PROVE  Events'
  BY <1>3 DEF AcceptEvent, NextEvent, StaleEvent, HangUpEvent, ClientEvent,
              Reading, Mask
<1>4. ASSUME NEW c \in Conns,
             Accept(c) \/ AcceptUnregistered(c)
      PROVE  Events'
  BY <1>4 DEF Accept, AcceptUnregistered, Reading, Mask
<1>5. CASE AcceptFails \/ ReadData \/ ReadHangUp \/ ReadDone \/ OutEvent
  BY <1>5 DEF AcceptFails, ReadData, ReadHangUp, AfterRead, ReadDone,
              OutEvent, Reading, Mask
<1>6. CASE WriteSome \/ WriteBlocked \/ AskForEPOLLOUT
  BY <1>6 DEF WriteSome, ToSend, Room, WriteBlocked, DeleteSent,
              AskForEPOLLOUT, Return, Reading, Mask
<1>7. CASE WriteFails \/ WriteKills \/ WriteDone
  BY <1>7 DEF WriteFails, ToSend, DeleteSent, Return, WriteKills, WriteDone,
              Reading, Mask
<1>8. ASSUME NEW c \in Conns,
             ReadyToSend(c) \/ Disconnect(c) \/ Unregister(c)
      PROVE  Events'
  BY <1>8 DEF ReadyToSend, Disconnect, Unregister, Reading, Mask
<1>9. CASE EventsDone \/ CallbackReturns \/ SetsDone
  BY <1>9 DEF EventsDone, CallbackReturns, SetsDone, Reading, Mask
<1>10. ASSUME NEW c \in Conns, NEW k \in 1..MaxAppend,
             Send(c, k)
      PROVE  Events'
  BY <1>10 DEF Send, Reading, Mask
<1>11. CASE UNCHANGED vars
  BY <1>11 DEF vars, Reading, Mask
<1> QED
  BY <1>1, <1>2, <1>3, <1>4, <1>5, <1>6, <1>7, <1>8, <1>9, <1>10,
     <1>11 DEF Next, ReadSockets, SendToClient

\* Every step leaves each client with something to do a reason to be seen to:
\* an event that is used up has its work done, or turned into the next reason.
LEMMA SeenToNext == SocketInv /\ [Next]_vars => SeenTo'
<1> SUFFICES ASSUME SocketInv, [Next]_vars PROVE SeenTo'
  OBVIOUS
<1>0. TypeOK /\ AtWork /\ Clients /\ Events /\ SeenTo
  BY DEF SocketInv, LoopInv
<1> USE <1>0, ConstantTypes DEF TypeOK, AtWork, Clients, Events, SeenTo,
                                kernelVars, inVars, outVars, sendVars,
                                appVars
<1>1. ASSUME NEW c \in Conns,
             Connect(c) \/ PeerSends(c) \/ PeerLeaves(c) \/ PeerTakes(c)
      PROVE  SeenTo'
  BY <1>1 DEF Connect, PeerSends, Arm, PeerLeaves, PeerTakes, Reading,
              HasEvent
<1>2. CASE EpollWait
  <2>1. pc = "wait" /\ ~Reading /\ back = "wait" /\ ~out
    BY <1>2 DEF EpollWait, Reading
  <2>2. UNCHANGED <<peer, unread, outgoing, epollout, m_ptrServerTypes>>
    BY <1>2 DEF EpollWait
  <2>3. ASSUME NEW c \in m_ptrServerTypes, NEW flag \in Mask(c), c \in ready
        PROVE  c \in ready' \/ HasEvent(c, flag)'
    BY <1>2, <2>3, HandedOut
  <2>4. \A c, flag : ~HasEvent(c, flag)
    BY <2>1 DEF HasEvent
  <2>5. ASSUME NEW c \in m_ptrServerTypes, peer[c] # "alive"
        PROVE  \/ c \in ready'
               \/ /\ HasEvent(c, "EPOLLRDHUP")'
                  /\ peer[c] = "rst" /\ c \in epollout => HasEvent(c, "EPOLLOUT")'
    BY <2>3, <2>4, <2>5 DEF Mask
  <2>6. ASSUME NEW c \in m_ptrServerTypes, unread[c] > 0
        PROVE  c \in ready' \/ HasEvent(c, "EPOLLIN")'
    BY <2>1, <2>3, <2>4, <2>6 DEF Mask
  <2>7. ASSUME NEW c \in m_ptrServerTypes \cap epollout,
               outgoing[c] < SndBuf, peer[c] # "rst"
        PROVE  c \in ready' \/ HasEvent(c, "EPOLLOUT")'
    BY <2>1, <2>3, <2>4, <2>7 DEF Mask
  <2> QED BY <2>2, <2>5, <2>6, <2>7
<1>3. ASSUME NEW e \in pstEpollRetEvents,
             \/ AcceptEvent(e) \/ StaleEvent(e) \/ HangUpEvent(e)
             \/ ClientEvent(e)
      PROVE  SeenTo'
  <2>1. CASE AcceptEvent(e) \/ StaleEvent(e) \/ HangUpEvent(e)
    BY <2>1 DEF AcceptEvent, NextEvent, StaleEvent, HangUpEvent, Reading,
                HasEvent
  <2>2. CASE ClientEvent(e)
    <3>1. /\ pc = "event" /\ ~Reading /\ ~out /\ back = "wait"
          /\ "EPOLLRDHUP" \notin e.events
      BY <2>2 DEF ClientEvent, Reading
    <3>2. /\ cur' = e.fd /\ out' = ("EPOLLOUT" \in e.events)
          /\ "EPOLLIN" \in e.events => Reading'
          /\ UNCHANGED <<peer, unread, ready, epollout, outgoing, to, back>>
          /\ UNCHANGED m_ptrServerTypes
      BY <2>2 DEF ClientEvent, Reading
    <3>3. ASSUME NEW c, NEW flag, HasEvent(c, flag)
          PROVE  IF c = e.fd THEN flag \in e.events ELSE HasEvent(c, flag)'
      BY <2>2, <3>3 DEF ClientEvent, NextEvent, HasEvent
    <3> QED BY <3>1, <3>2, <3>3
  <2> QED BY <1>3, <2>1, <2>2
<1>4. ASSUME NEW c \in Conns,
             Accept(c) \/ AcceptUnregistered(c)
      PROVE  SeenTo'
  <2>1. CASE AcceptUnregistered(c)
    BY <2>1 DEF AcceptUnregistered, Reading, HasEvent
  <2>2. CASE Accept(c)
    <3>1. ready \subseteq ready' /\ m_ptrServerTypes' = m_ptrServerTypes \cup {c}
      BY <2>2 DEF Accept
    <3>2. \/ unread[c] > 0 \/ peer[c] # "alive"
          \/ c \in epollout /\ outgoing[c] < SndBuf
          => c \in ready'
      BY <2>2 DEF Accept, Mask
    <3> QED BY <2>2, <3>1, <3>2 DEF Accept, Reading, HasEvent
  <2> QED BY <1>4, <2>1, <2>2
<1>5. CASE AcceptFails \/ ReadData \/ ReadHangUp \/ ReadDone \/ OutEvent
  <2>1. CASE AcceptFails \/ ReadData \/ ReadHangUp \/ OutEvent
    BY <2>1 DEF AcceptFails, ReadData, ReadHangUp, AfterRead, OutEvent,
                Reading, HasEvent
  <2>2. CASE ReadDone
    <3>1. cur \in ready \/ (unread[cur] = 0 /\ peer[cur] = "alive")
      BY <2>2, ReadEnds
    <3>2. /\ UNCHANGED <<peer, unread, ready, epollout, outgoing, to, back>>
          /\ UNCHANGED <<cur, out, pstEpollRetEvents, m_ptrServerTypes>>
      BY <2>2 DEF ReadDone
    <3>3. pc = "read"
      BY <2>2 DEF ReadDone
    <3> QED BY <3>1, <3>2, <3>3 DEF Reading, HasEvent
  <2> QED BY <1>5, <2>1, <2>2
<1>6. CASE WriteSome \/ WriteBlocked \/ AskForEPOLLOUT
  <2>1. CASE WriteSome \/ WriteBlocked
    BY <2>1 DEF WriteSome, ToSend, Room, WriteBlocked, DeleteSent, Reading,
                HasEvent
  <2>2. CASE AskForEPOLLOUT
    <3>1. /\ ready \subseteq ready' /\ epollout' = epollout \cup {to}
          /\ Reading' = Reading
          /\ UNCHANGED <<peer, unread, outgoing, cur, out, pstEpollRetEvents,
                         m_ptrServerTypes>>
      BY <2>2 DEF AskForEPOLLOUT, Return, Reading
    <3>2. /\ pc = "modify"
          /\ outgoing[to] < SndBuf \/ peer[to] # "alive" => to \in ready'
      BY <2>2 DEF AskForEPOLLOUT, Room, Mask
    <3> QED BY <3>1, <3>2 DEF HasEvent
  <2> QED BY <1>6, <2>1, <2>2
<1>7. CASE WriteFails \/ WriteKills \/ WriteDone
  <2>1. CASE WriteFails \/ WriteKills
    BY <2>1 DEF WriteFails, ToSend, DeleteSent, Return, WriteKills, Reading,
                HasEvent
  <2>2. CASE WriteDone
    <3>1. /\ ready \subseteq ready' /\ epollout' \subseteq epollout
          /\ back = "out" => epollout' = epollout \ {to}
          /\ Reading' = Reading
          /\ UNCHANGED <<peer, unread, outgoing, cur, out, pstEpollRetEvents,
                         m_ptrServerTypes>>
      BY <2>2 DEF WriteDone, Return, Reading
    <3>2. pc = "send"
      BY <2>2 DEF WriteDone
    <3> QED BY <3>1, <3>2 DEF HasEvent
  <2> QED BY <1>7, <2>1, <2>2
<1>8. ASSUME NEW c \in Conns,
             ReadyToSend(c) \/ Disconnect(c) \/ Unregister(c)
      PROVE  SeenTo'
  BY <1>8 DEF ReadyToSend, Disconnect, Unregister, Reading, HasEvent
<1>9. CASE EventsDone \/ CallbackReturns \/ SetsDone
  BY <1>9 DEF EventsDone, CallbackReturns, SetsDone, Reading, HasEvent
<1>10. ASSUME NEW c \in Conns, NEW k \in 1..MaxAppend,
             Send(c, k)
      PROVE  SeenTo'
  BY <1>10 DEF Send, Reading, HasEvent
<1>11. CASE UNCHANGED vars
  BY <1>11 DEF vars, Reading, HasEvent
<1> QED
  BY <1>1, <1>2, <1>3, <1>4, <1>5, <1>6, <1>7, <1>8, <1>9, <1>10,
     <1>11 DEF Next, ReadSockets, SendToClient

\* The turns left suffice for what the socket still holds of its first turn.
LEMMA TurnsNext == SocketInv /\ [Next]_vars => TurnsSuffice'
<1> SUFFICES ASSUME SocketInv, [Next]_vars PROVE TurnsSuffice'
  OBVIOUS
<1>0. TypeOK /\ AtWork /\ Clients /\ TurnsSuffice
  BY DEF SocketInv, LoopInv
<1> USE <1>0, SocketAssumption DEF TypeOK, AtWork, Clients, TurnsSuffice,
                                   kernelVars, inVars, outVars, sendVars,
                                   appVars
<1>1. ASSUME NEW c \in Conns,
             Connect(c) \/ PeerSends(c) \/ PeerLeaves(c) \/ PeerTakes(c)
      PROVE  TurnsSuffice'
  BY <1>1 DEF Connect, PeerSends, Arm, PeerLeaves, PeerTakes, Reading
<1>2. CASE EpollWait
  BY <1>2 DEF EpollWait, Reading
<1>3. ASSUME NEW e \in pstEpollRetEvents,
             \/ AcceptEvent(e) \/ StaleEvent(e) \/ HangUpEvent(e)
             \/ ClientEvent(e)
      PROVE  TurnsSuffice'
  BY <1>3 DEF AcceptEvent, NextEvent, StaleEvent, HangUpEvent, ClientEvent,
              Reading
<1>4. ASSUME NEW c \in Conns,
             Accept(c) \/ AcceptUnregistered(c)
      PROVE  TurnsSuffice'
  BY <1>4 DEF Accept, AcceptUnregistered, Reading
<1>5. CASE AcceptFails \/ ReadData \/ ReadHangUp \/ ReadDone \/ OutEvent
  BY <1>5 DEF AcceptFails, ReadData, ReadHangUp, AfterRead, ReadDone,
              OutEvent, Reading
<1>6. CASE WriteSome \/ WriteBlocked \/ AskForEPOLLOUT
  BY <1>6 DEF WriteSome, ToSend, Room, WriteBlocked, DeleteSent,
              AskForEPOLLOUT, Return, Reading
<1>7. CASE WriteFails \/ WriteKills \/ WriteDone
  BY <1>7 DEF WriteFails, ToSend, DeleteSent, Return, WriteKills, WriteDone,
              Reading
<1>8. ASSUME NEW c \in Conns,
             ReadyToSend(c) \/ Disconnect(c) \/ Unregister(c)
      PROVE  TurnsSuffice'
  BY <1>8 DEF ReadyToSend, Disconnect, Unregister, Reading
<1>9. CASE EventsDone \/ CallbackReturns \/ SetsDone
  BY <1>9 DEF EventsDone, CallbackReturns, SetsDone, Reading
<1>10. ASSUME NEW c \in Conns, NEW k \in 1..MaxAppend,
             Send(c, k)
      PROVE  TurnsSuffice'
  BY <1>10 DEF Send, Reading
<1>11. CASE UNCHANGED vars
  BY <1>11 DEF vars, Reading
<1> QED
  BY <1>1, <1>2, <1>3, <1>4, <1>5, <1>6, <1>7, <1>8, <1>9, <1>10,
     <1>11 DEF Next, ReadSockets, SendToClient

\* Every step leaves a client with unsent data waiting for EPOLLOUT.
LEMMA UnsentNext == SocketInv /\ [Next]_vars => UnsentWaits'
<1> SUFFICES ASSUME SocketInv, [Next]_vars PROVE UnsentWaits'
  OBVIOUS
<1>0. TypeOK /\ AtWork /\ Clients /\ UnsentWaits
  BY DEF SocketInv, LoopInv
<1> USE <1>0, ConstantTypes DEF TypeOK, AtWork, Clients, UnsentWaits,
                                kernelVars, inVars, outVars, sendVars,
                                appVars
<1>1. ASSUME NEW c \in Conns,
             Connect(c) \/ PeerSends(c) \/ PeerLeaves(c) \/ PeerTakes(c)
      PROVE  UnsentWaits'
  BY <1>1 DEF Connect, PeerSends, Arm, PeerLeaves, PeerTakes
<1>2. CASE EpollWait
  BY <1>2 DEF EpollWait
<1>3. ASSUME NEW e \in pstEpollRetEvents,
             \/ AcceptEvent(e) \/ StaleEvent(e) \/ HangUpEvent(e)
             \/ ClientEvent(e)
      PROVE  UnsentWaits'
  BY <1>3 DEF AcceptEvent, NextEvent, StaleEvent, HangUpEvent, ClientEvent
<1>4. ASSUME NEW c \in Conns,
             Accept(c) \/ AcceptUnregistered(c)
      PROVE  UnsentWaits'
  BY <1>4 DEF Accept, AcceptUnregistered
<1>5. CASE AcceptFails \/ ReadData \/ ReadHangUp \/ ReadDone \/ OutEvent
  BY <1>5 DEF AcceptFails, ReadData, ReadHangUp, AfterRead, ReadDone,
              OutEvent
<1>6. CASE WriteSome \/ WriteBlocked \/ AskForEPOLLOUT
  BY <1>6 DEF WriteSome, ToSend, Room, WriteBlocked, DeleteSent,
              AskForEPOLLOUT, Return
<1>7. CASE WriteFails \/ WriteKills \/ WriteDone
  BY <1>7 DEF WriteFails, ToSend, DeleteSent, Return, WriteKills, WriteDone
<1>8. ASSUME NEW c \in Conns,
             ReadyToSend(c) \/ Disconnect(c) \/ Unregister(c)
      PROVE  UnsentWaits'
  BY <1>8 DEF ReadyToSend, Disconnect, Unregister
<1>9. CASE EventsDone \/ CallbackReturns \/ SetsDone
  BY <1>9 DEF EventsDone, CallbackReturns, SetsDone
<1>10. ASSUME NEW c \in Conns, NEW k \in 1..MaxAppend,
             Send(c, k)
      PROVE  UnsentWaits'
  BY <1>10 DEF Send
<1>11. CASE UNCHANGED vars
  BY <1>11 DEF vars
<1> QED
  BY <1>1, <1>2, <1>3, <1>4, <1>5, <1>6, <1>7, <1>8, <1>9, <1>10,
     <1>11 DEF Next, ReadSockets, SendToClient

\* Every step leaves a reason to look at the listening socket while a peer
\* waits there.
LEMMA ListenerNext == SocketInv /\ [Next]_vars => ListenerSeenTo'
<1> SUFFICES ASSUME SocketInv, [Next]_vars PROVE ListenerSeenTo'
  OBVIOUS
<1>0. TypeOK /\ AtWork /\ Events /\ ListenerSeenTo
  BY DEF SocketInv, LoopInv
<1> USE <1>0, ConstantTypes DEF TypeOK, AtWork, Events, ListenerSeenTo,
                                kernelVars, inVars, outVars, sendVars,
                                appVars
<1>a. /\ FdsInUse \in Nat /\ FdLimit \in Nat
      /\ FdsInUse' < FdLimit => FdsInUse < FdLimit
  BY RoomBefore, FdsInUseType, SocketAssumption
<1> USE <1>a
<1>1. ASSUME NEW c \in Conns,
             Connect(c) \/ PeerSends(c) \/ PeerLeaves(c) \/ PeerTakes(c)
      PROVE  ListenerSeenTo'
  BY <1>1 DEF Connect, PeerSends, Arm, PeerLeaves, PeerTakes, HasEvent
<1>2. CASE EpollWait
  <2> SUFFICES ASSUME \E c \in Conns : link'[c] = "pending", FdsInUse' < FdLimit
               PROVE  Listener \in ready' \/ HasEvent(Listener, "EPOLLIN")'
    BY DEF ListenerSeenTo
  <2>1. /\ UNCHANGED link
        /\ pc # "accept" /\ ~HasEvent(Listener, "EPOLLIN")
    BY <1>2 DEF EpollWait, Reading, HasEvent
  <2>2. Mask(Listener) = {"EPOLLIN"} /\ Listener \in ready
    BY <2>1 DEF Mask
  <2> QED BY <1>2, <2>2, HandedOut
<1>3. ASSUME NEW e \in pstEpollRetEvents,
             \/ AcceptEvent(e) \/ StaleEvent(e) \/ HangUpEvent(e)
             \/ ClientEvent(e)
      PROVE  ListenerSeenTo'
  BY <1>3 DEF AcceptEvent, NextEvent, StaleEvent, HangUpEvent, ClientEvent,
              HasEvent
<1>4. ASSUME NEW c \in Conns,
             Accept(c) \/ AcceptUnregistered(c)
      PROVE  ListenerSeenTo'
  BY <1>4 DEF Accept, AcceptUnregistered, HasEvent
<1>5. CASE AcceptFails \/ ReadData \/ ReadHangUp \/ ReadDone \/ OutEvent
  <2>1. CASE ReadData \/ ReadHangUp \/ ReadDone \/ OutEvent
    BY <2>1 DEF ReadData, ReadHangUp, AfterRead, ReadDone, OutEvent,
                HasEvent
  <2>2. CASE AcceptFails
    BY <2>2 DEF AcceptFails, HasEvent
  <2> QED BY <1>5, <2>1, <2>2
<1>6. CASE WriteSome \/ WriteBlocked \/ AskForEPOLLOUT
  BY <1>6 DEF WriteSome, ToSend, Room, WriteBlocked, DeleteSent,
              AskForEPOLLOUT, Return, HasEvent
<1>7. CASE WriteFails \/ WriteKills \/ WriteDone
  BY <1>7 DEF WriteFails, ToSend, DeleteSent, Return, WriteKills, WriteDone,
              HasEvent
<1>8. ASSUME NEW c \in Conns,
             ReadyToSend(c) \/ Disconnect(c) \/ Unregister(c)
      PROVE  ListenerSeenTo'
  BY <1>8 DEF ReadyToSend, Disconnect, Unregister, HasEvent
<1>9. CASE EventsDone \/ CallbackReturns \/ SetsDone
  BY <1>9 DEF EventsDone, CallbackReturns, SetsDone, HasEvent
<1>10. ASSUME NEW c \in Conns, NEW k \in 1..MaxAppend,
             Send(c, k)
      PROVE  ListenerSeenTo'
  BY <1>10 DEF Send, HasEvent
<1>11. CASE UNCHANGED vars
  BY <1>11 DEF vars, HasEvent
<1> QED
  BY <1>1, <1>2, <1>3, <1>4, <1>5, <1>6, <1>7, <1>8, <1>9, <1>10,
     <1>11 DEF Next, ReadSockets, SendToClient

-----------------------------------------------------------------------------
(* The theorems.                                                           *)

LEMMA InitSocketInv == Init => SocketInv
<1> SUFFICES ASSUME Init PROVE SocketInv
  OBVIOUS
<1> USE ConstantTypes DEF Init, Zero
<1>1. TypeOK
  <2>1. /\ link \in [Conns -> {"none", "pending", "accepted", "leaked", "removed"}]
        /\ peer \in [Conns -> {"alive", "fin", "rst"}]
    OBVIOUS
  <2>2. /\ sent \in [Conns -> 0..MaxSent] /\ unread \in [Conns -> 0..RcvBuf]
        /\ outgoing \in [Conns -> 0..SndBuf] /\ onData \in [Conns -> 0..MaxSent]
    OBVIOUS
  <2>3. /\ m_SendBuffer \in [Conns -> Nat] /\ taken \in [Conns -> Nat]
        /\ appended \in [Conns -> Nat]
        /\ onConnect \in [Conns -> Nat] /\ onDisconnect \in [Conns -> Nat]
    OBVIOUS
  <2>4. t \in 0..ReadTurns /\ iSendLen \in Nat
    OBVIOUS
  <2> QED BY <2>1, <2>2, <2>3, <2>4 DEF TypeOK
<1>2. CallbacksInOrder
  BY DEF CallbacksInOrder
<1>3. AtWork /\ Clients /\ Events
  BY DEF AtWork, Clients, Events, Reading
<1>4. SeenTo /\ UnsentWaits
  BY DEF SeenTo, UnsentWaits
<1>5. TurnsSuffice /\ ListenerSeenTo
  BY DEF TurnsSuffice, ListenerSeenTo, Reading
<1> QED BY <1>1, <1>2, <1>3, <1>4, <1>5 DEF SocketInv, LoopInv

LEMMA SocketInvNext == SocketInv /\ [Next]_vars => SocketInv'
  BY TypeNext, CallbacksNext, AtWorkNext, ClientsNext, EventsNext, SeenToNext,
     TurnsNext, UnsentNext, ListenerNext DEF SocketInv, LoopInv

THEOREM SocketInvariant == Spec => []SocketInv
  BY InitSocketInv, SocketInvNext, PTL DEF Spec

\* Every variable keeps its type: no buffer overflows its size, and the read
\* loop and SendToClient count below zero nowhere.
THEOREM SocketTypeCorrect == Spec => []TypeOK
<1>1. SocketInv => TypeOK
  BY DEF SocketInv
<1> QED BY <1>1, SocketInvariant, PTL

\* OnConnect once, OnDisconnect once after it and only when the peer has left,
\* on whichever of the three paths a client is dropped; no unit is invented,
\* repeated or lost between the sockets and the callbacks.
THEOREM CallbackOrder == Spec => []CallbacksInOrder
<1>1. SocketInv => CallbacksInOrder
  BY DEF SocketInv
<1> QED BY <1>1, SocketInvariant, PTL

LEMMA SocketInvStrandsNothing == SocketInv => NothingStranded
<1> SUFFICES ASSUME SocketInv PROVE NothingStranded
  OBVIOUS
<1>0. TypeOK /\ AtWork /\ Events /\ SeenTo /\ UnsentWaits /\ ListenerSeenTo
  BY DEF SocketInv, LoopInv
<1>1. ASSUME NEW c \in m_ptrServerTypes,
             NEW flag \in {"EPOLLIN", "EPOLLOUT", "EPOLLRDHUP"},
             flag \in Mask(c), c \notin ready
      PROVE  WillSeeTo(c, flag)
  <2>1. c \in Conns /\ c # Listener
    BY <1>0, ConstantTypes DEF TypeOK
  <2>2. HasEvent(c, flag) => WillSeeTo(c, flag)
    BY DEF HasEvent, WillSeeTo
  <2>3. CASE peer[c] # "alive"
    <3>1. HasEvent(c, "EPOLLRDHUP")
      BY <1>0, <1>1, <2>3 DEF SeenTo
    <3>2. HasEvent(c, "EPOLLIN")
      BY <1>0, <3>1 DEF Events, HasEvent
    <3>3. CASE flag = "EPOLLOUT"
      <4>1. c \in epollout /\ (peer[c] # "rst" => outgoing[c] < SndBuf)
        BY <1>1, <2>1, <3>3 DEF Mask
      <4>2. CASE peer[c] = "rst"
        BY <1>0, <1>1, <2>2, <2>3, <3>3, <4>1, <4>2 DEF SeenTo
      <4>3. CASE peer[c] # "rst"
        BY <1>0, <1>1, <2>2, <3>3, <4>1, <4>3 DEF SeenTo, WillSeeTo
      <4> QED BY <4>2, <4>3
    <3> QED BY <1>1, <2>2, <3>1, <3>2, <3>3
  <2>4. CASE peer[c] = "alive"
    <3>1. \/ flag = "EPOLLIN" /\ unread[c] > 0
          \/ flag = "EPOLLOUT" /\ c \in epollout /\ outgoing[c] < SndBuf
      BY <1>1, <2>1, <2>4 DEF Mask
    <3> QED BY <1>0, <1>1, <2>2, <2>4, <3>1 DEF SeenTo, WillSeeTo, Reading
  <2> QED BY <2>3, <2>4
<1>2. ASSUME NEW c \in m_ptrServerTypes,
             m_SendBuffer[c] > 0, to # c, peer[c] # "rst"
      PROVE  c \in epollout /\ c \in b_IsBuffered
  BY <1>0, <1>2 DEF UnsentWaits
<1>3. ASSUME Mask(Listener) # {}, FdsInUse < FdLimit
      PROVE  WillSeeTo(Listener, "EPOLLIN")
  BY <1>0, <1>3 DEF Mask, ListenerSeenTo, WillSeeTo, HasEvent
<1>4. \A c \in m_ptrServerTypes :
        c \in ready => \A flag : WillSeeTo(c, flag)
  BY DEF WillSeeTo
<1> QED BY <1>1, <1>2, <1>3, <1>4 DEF NothingStranded

\* Edge triggering loses nothing, though epoll reports a socket once and the
\* read loop gives up after i_ReadTurns turns.
THEOREM NoClientStranded == Spec => []NothingStranded
  BY SocketInvariant, SocketInvStrandsNothing, PTL

\* The step that NoCallAfterDisconnect is about.
NoCall ==
  \A c \in Conns :
    onDisconnect[c] > 0 =>
      onData'[c] = onData[c] /\ onDisconnect'[c] = onDisconnect[c]

\* A step calls back only clients in the table.
LEMMA NoCallNext == SocketInv /\ [Next]_vars => NoCall
<1> SUFFICES ASSUME SocketInv, [Next]_vars PROVE NoCall
  OBVIOUS
<1>0. TypeOK /\ CallbacksInOrder /\ AtWork
  BY DEF SocketInv, LoopInv
<1> USE <1>0, ConstantTypes DEF TypeOK, CallbacksInOrder, AtWork,
                                kernelVars, inVars, outVars, sendVars,
                                appVars
<1>1. ASSUME NEW c \in Conns,
             Connect(c) \/ PeerSends(c) \/ PeerLeaves(c) \/ PeerTakes(c)
      PROVE  NoCall
  BY <1>1 DEF Connect, PeerSends, Arm, PeerLeaves, PeerTakes, NoCall,
              Reading
<1>2. CASE EpollWait
  BY <1>2 DEF EpollWait, NoCall, Reading
<1>3. ASSUME NEW e \in pstEpollRetEvents,
             \/ AcceptEvent(e) \/ StaleEvent(e) \/ HangUpEvent(e)
             \/ ClientEvent(e)
      PROVE  NoCall
  BY <1>3 DEF AcceptEvent, NextEvent, StaleEvent, HangUpEvent, ClientEvent,
              NoCall, Reading
<1>4. ASSUME NEW c \in Conns,
             Accept(c) \/ AcceptUnregistered(c)
      PROVE  NoCall
  BY <1>4 DEF Accept, AcceptUnregistered, NoCall, Reading
<1>5. CASE AcceptFails \/ ReadData \/ ReadHangUp \/ ReadDone \/ OutEvent
  BY <1>5 DEF AcceptFails, ReadData, ReadHangUp, AfterRead, ReadDone,
              OutEvent, NoCall, Reading
<1>6. CASE WriteSome \/ WriteBlocked \/ AskForEPOLLOUT
  BY <1>6 DEF WriteSome, ToSend, Room, WriteBlocked, DeleteSent,
              AskForEPOLLOUT, Return, NoCall, Reading
<1>7. CASE WriteFails \/ WriteKills \/ WriteDone
  BY <1>7 DEF WriteFails, ToSend, DeleteSent, Return, WriteKills, WriteDone,
              NoCall, Reading
<1>8. ASSUME NEW c \in Conns,
             ReadyToSend(c) \/ Disconnect(c) \/ Unregister(c)
      PROVE  NoCall
  BY <1>8 DEF ReadyToSend, Disconnect, Unregister, NoCall, Reading
<1>9. CASE EventsDone \/ CallbackReturns \/ SetsDone
  BY <1>9 DEF EventsDone, CallbackReturns, SetsDone, NoCall, Reading
<1>10. ASSUME NEW c \in Conns, NEW k \in 1..MaxAppend,
             Send(c, k)
      PROVE  NoCall
  BY <1>10 DEF Send, NoCall, Reading
<1>11. CASE UNCHANGED vars
  BY <1>11 DEF vars, NoCall, Reading
<1> QED
  BY <1>1, <1>2, <1>3, <1>4, <1>5, <1>6, <1>7, <1>8, <1>9, <1>10,
     <1>11 DEF Next, ReadSockets, SendToClient

\* A client that has been disconnected is never called back again.
THEOREM DisconnectIsLast == Spec => NoCallAfterDisconnect
<1>1. SocketInv /\ [Next]_vars => [NoCall]_vars
  BY NoCallNext
<1> QED BY <1>1, SocketInvariant, PTL DEF Spec, NoCallAfterDisconnect, NoCall
=============================================================================
