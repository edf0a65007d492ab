---------------------------- MODULE SocketManager ----------------------------
(***************************************************************************)
(* The receiver thread's event loop: SocketManager::ReadSockets on the     *)
(* listening socket and the clients' sockets, all registered edge          *)
(* triggered, with the kernel's part of epoll and TCP (external) around    *)
(* it.  Peers connect, send, close or reset at any time, also between two  *)
(* system calls of the loop.                                               *)
(*                                                                         *)
(* The program never closes a client's socket and never deletes a Client,  *)
(* so a connection keeps its descriptor for good and stands for it here.   *)
(* ServerAPI sends nothing to its clients; the output path is modelled for *)
(* an application (external) that does, to any client on the server's list *)
(* and in every callback that can: OnData, OnReadyToSend, OnDisconnect     *)
(* after a failed write, and OnTimer (module TimerWheel), which comes      *)
(* between two calls of ReadSockets.  Data is counted in units.            *)
(***************************************************************************)
EXTENDS Integers, FiniteSets, Functions

CONSTANTS
  Conns,        \* connections peers may make
  Listener,     \* the server's own socket
  FdLimit,      \* client descriptors the process may have
  RcvBuf,       \* units the kernel holds for a socket; SO_RCVBUF
  ReadSize,     \* most units one read() returns; CLI_READ_SIZE
  ReadTurns,    \* i_ReadTurns
  MaxEvents,    \* MAX_EPOL_EVENTS
  MaxSent,      \* bound: units a peer sends
  SndBuf,       \* units the kernel takes from write(); SO_SNDBUF
  MaxAppend     \* bound: units the application sends in all

ASSUME SocketAssumption ==
  /\ Listener \notin Conns /\ IsFiniteSet(Conns)
  /\ FdLimit \in Nat /\ RcvBuf \in Nat \ {0} /\ ReadSize \in Nat \ {0}
  /\ ReadTurns \in Nat /\ MaxEvents \in Nat \ {0} /\ MaxSent \in Nat
  /\ SndBuf \in Nat \ {0} /\ MaxAppend \in Nat
  /\ RcvBuf <= ReadTurns * ReadSize   \* 2 * 250000 <= 1024 * 15000

VARIABLES
  \* the peers and the kernel
  link,                  \* "none", "pending" (to be accepted), "accepted",
                         \* "leaked" (accepted, unknown to epoll) or
                         \* "removed" (taken out of epoll again)
  peer,                  \* "alive", "fin" or "rst"
  sent, unread,          \* units sent; units waiting in the socket
  ready,                 \* epoll's ready list
  epollout,              \* sockets registered with EPOLLOUT
  outgoing, taken,       \* units in the send buffer; units the peer has taken
  \* SocketManager and Server
  pc,                    \* where the thread is in ReadSockets
  pstEpollRetEvents,     \* events of this epoll_wait still to be handled
  cur, t,                \* client being read, and the turn
  out,                   \* its event has EPOLLOUT too
  to, iSendLen, back,    \* SendToClient: client, units written, return to
  set_OnReadyToSendClients, set_DiconClients,   \* still to be gone through
  m_ptrServerTypes,      \* connections that have a Client in the table
  lst_ConnectedClients,
  m_SendBuffer,          \* units in the client's buffer
  b_IsBuffered,          \* clients with this flag
  \* what the application has been told
  onConnect, onData, onDisconnect,  \* per connection: calls, units, calls
  appended                          \* and what it has sent: units

inVars == <<link, peer, sent, unread>>
outVars == <<epollout, outgoing, taken>>
kernelVars == <<inVars, ready, outVars>>
sendVars == <<out, to, iSendLen, back, set_OnReadyToSendClients,
              set_DiconClients, m_SendBuffer, b_IsBuffered, appended>>
appVars == <<m_ptrServerTypes, lst_ConnectedClients, onConnect, onData,
             onDisconnect>>
vars == <<kernelVars, pc, pstEpollRetEvents, cur, t, sendVars, appVars>>

Zero == [c \in Conns |-> 0]

\* After CreateServer: listening, registered with epoll.
Init ==
  /\ link = [c \in Conns |-> "none"]
  /\ peer = [c \in Conns |-> "alive"]
  /\ sent = Zero /\ unread = Zero
  /\ ready = {}
  /\ pc = "wait"
  /\ pstEpollRetEvents = {}
  /\ cur = Listener /\ t = 0
  /\ epollout = {} /\ outgoing = Zero /\ taken = Zero
  /\ out = FALSE /\ to = Listener /\ iSendLen = 0 /\ back = "wait"
  /\ set_OnReadyToSendClients = {} /\ set_DiconClients = {}
  /\ m_SendBuffer = Zero /\ b_IsBuffered = {} /\ appended = Zero
  /\ m_ptrServerTypes = {}
  /\ lst_ConnectedClients = {}
  /\ onConnect = Zero /\ onData = Zero /\ onDisconnect = Zero

-----------------------------------------------------------------------------
(* Peers and kernel (external).                                            *)

\* A change on a registered socket puts it on the ready list.
Arm(c) == ready' = IF link[c] = "accepted" THEN ready \cup {c} ELSE ready

Connect(c) ==
  /\ link[c] = "none"
  /\ link' = [link EXCEPT ![c] = "pending"]
  /\ ready' = ready \cup {Listener}
  /\ UNCHANGED <<peer, sent, unread, outVars, pc, pstEpollRetEvents, cur, t,
                 sendVars, appVars>>

PeerSends(c) ==
  /\ link[c] # "none" /\ peer[c] = "alive"
  /\ sent[c] < MaxSent /\ unread[c] < RcvBuf
  /\ sent' = [sent EXCEPT ![c] = @ + 1]
  /\ unread' = [unread EXCEPT ![c] = @ + 1]
  /\ Arm(c)
  /\ UNCHANGED <<link, peer, outVars, pc, pstEpollRetEvents, cur, t, sendVars,
                 appVars>>

\* A peer that has closed answers data with a reset.
PeerLeaves(c) ==
  /\ link[c] # "none"
  /\ \/ /\ peer[c] = "alive"
        /\ \E how \in {"fin", "rst"} : peer' = [peer EXCEPT ![c] = how]
     \/ /\ peer[c] = "fin" /\ outgoing[c] > 0
        /\ peer' = [peer EXCEPT ![c] = "rst"]
  /\ Arm(c)
  /\ UNCHANGED <<link, sent, unread, outVars, pc, pstEpollRetEvents, cur, t,
                 sendVars, appVars>>

\* A full send buffer gets room: an event for who has asked for EPOLLOUT.
PeerTakes(c) ==
  /\ peer[c] = "alive" /\ outgoing[c] > 0
  /\ outgoing' = [outgoing EXCEPT ![c] = @ - 1]
  /\ taken' = [taken EXCEPT ![c] = @ + 1]
  /\ IF c \in epollout /\ outgoing[c] = SndBuf
       THEN Arm(c) ELSE UNCHANGED ready
  /\ UNCHANGED <<inVars, epollout, pc, pstEpollRetEvents, cur, t, sendVars,
                 appVars>>

\* What epoll reports of a socket.
Mask(s) ==
  IF s = Listener
    THEN IF \E c \in Conns : link[c] = "pending" THEN {"EPOLLIN"} ELSE {}
    ELSE (IF unread[s] > 0 \/ peer[s] # "alive" THEN {"EPOLLIN"} ELSE {})
         \cup (IF peer[s] # "alive" THEN {"EPOLLRDHUP"} ELSE {})
         \cup (IF s \in epollout /\ (outgoing[s] < SndBuf \/ peer[s] = "rst")
                 THEN {"EPOLLOUT"} ELSE {})

\* epoll_wait hands out sockets of the ready list, at most MaxEvents, and
\* forgets them: they are edge triggered. A timeout changes nothing: a client
\* that a timer's write has put into set_DiconClients is ready, as its peer is
\* gone (NothingStranded).
EpollWait ==
  /\ pc = "wait"
  /\ \E S \in SUBSET ready :
       /\ S # {} /\ Cardinality(S) <= MaxEvents
       /\ (S = ready \/ Cardinality(S) = MaxEvents)
       /\ ready' = ready \ S
       /\ pstEpollRetEvents' =
            {[fd |-> s, events |-> Mask(s)] : s \in {r \in S : Mask(r) # {}}}
  /\ pc' = "event"
  /\ UNCHANGED <<inVars, outVars, cur, t, sendVars, appVars>>

-----------------------------------------------------------------------------
(* ReadSockets.                                                            *)

NextEvent(e) == pstEpollRetEvents' = pstEpollRetEvents \ {e}

\* The listening socket is readable: accept until accept fails.
AcceptEvent(e) ==
  /\ pc = "event" /\ e.fd = Listener
  /\ NextEvent(e)
  /\ pc' = "accept"
  /\ UNCHANGED <<kernelVars, cur, t, sendVars, appVars>>

FdsInUse == Cardinality({c \in Conns : link[c] \notin {"none", "pending"}})

\* Mutant: one connection per event.
MutAcceptOne(c) ==
  /\ pc = "accept"
  /\ link[c] = "pending"
  /\ FdsInUse < FdLimit
  /\ link' = [link EXCEPT ![c] = "accepted"]
  /\ ready' = IF Mask(c) # {} THEN ready \cup {c} ELSE ready
  /\ m_ptrServerTypes' = m_ptrServerTypes \cup {c}
  /\ onConnect' = [onConnect EXCEPT ![c] = @ + 1]
  /\ lst_ConnectedClients' = lst_ConnectedClients \cup {c}
  /\ pc' = "event"
  /\ UNCHANGED <<peer, sent, unread, outVars, pstEpollRetEvents, cur, t,
                 sendVars, onData, onDisconnect>>

\* Registration with epoll reports what has happened before it.
Accept(c) ==
  /\ pc = "accept"
  /\ link[c] = "pending"
  /\ FdsInUse < FdLimit
  /\ link' = [link EXCEPT ![c] = "accepted"]
  /\ ready' = IF Mask(c) # {} THEN ready \cup {c} ELSE ready
  /\ m_ptrServerTypes' = m_ptrServerTypes \cup {c}
  /\ onConnect' = [onConnect EXCEPT ![c] = @ + 1]
  /\ lst_ConnectedClients' = lst_ConnectedClients \cup {c}
  /\ UNCHANGED <<peer, sent, unread, outVars, pc, pstEpollRetEvents, cur, t,
                 sendVars, onData, onDisconnect>>

\* epoll_ctl fails: the loop goes on, the descriptor stays open for nobody.
AcceptUnregistered(c) ==
  /\ pc = "accept"
  /\ link[c] = "pending"
  /\ FdsInUse < FdLimit
  /\ link' = [link EXCEPT ![c] = "leaked"]
  /\ UNCHANGED <<peer, sent, unread, ready, outVars, pc, pstEpollRetEvents,
                 cur, t, sendVars, appVars>>

\* EAGAIN or EMFILE: either ends the loop.
AcceptFails ==
  /\ pc = "accept"
  /\ (\A c \in Conns : link[c] # "pending") \/ FdsInUse >= FdLimit
  /\ pc' = "event"
  /\ UNCHANGED <<kernelVars, pstEpollRetEvents, cur, t, sendVars, appVars>>

\* The slot is NULL: the client has been disconnected before.
StaleEvent(e) ==
  /\ pc = "event" /\ e.fd # Listener
  /\ e.fd \notin m_ptrServerTypes
  /\ NextEvent(e)
  /\ UNCHANGED <<kernelVars, pc, cur, t, sendVars, appVars>>

\* Mutant: the application is not told.
MutHangUpSilent(e) ==
  /\ pc = "event" /\ e.fd \in m_ptrServerTypes
  /\ "EPOLLRDHUP" \in e.events
  /\ NextEvent(e)
  /\ m_ptrServerTypes' = m_ptrServerTypes \ {e.fd}
  /\ lst_ConnectedClients' = lst_ConnectedClients \ {e.fd}
  /\ UNCHANGED <<kernelVars, pc, cur, t, sendVars, onConnect, onData,
                 onDisconnect>>

\* EPOLLRDHUP is looked at before EPOLLIN: unread data is left behind.
HangUpEvent(e) ==
  /\ pc = "event" /\ e.fd \in m_ptrServerTypes
  /\ "EPOLLRDHUP" \in e.events
  /\ NextEvent(e)
  /\ m_ptrServerTypes' = m_ptrServerTypes \ {e.fd}
  /\ onDisconnect' = [onDisconnect EXCEPT ![e.fd] = @ + 1]
  /\ lst_ConnectedClients' = lst_ConnectedClients \ {e.fd}
  /\ UNCHANGED <<kernelVars, pc, cur, t, sendVars, onConnect, onData>>

\* EPOLLIN is seen to before EPOLLOUT.
ClientEvent(e) ==
  /\ pc = "event" /\ e.fd \in m_ptrServerTypes
  /\ "EPOLLRDHUP" \notin e.events
  /\ NextEvent(e)
  /\ cur' = e.fd /\ t' = 0
  /\ out' = ("EPOLLOUT" \in e.events)
  /\ pc' = IF "EPOLLIN" \in e.events THEN "read" ELSE "out"
  /\ UNCHANGED <<kernelVars, to, iSendLen, back, set_OnReadyToSendClients,
                 set_DiconClients, m_SendBuffer, b_IsBuffered, appended,
                 appVars>>

AfterRead == pc' = IF out THEN "out" ELSE "event"

\* Mutant: the data stays in the socket.
MutPeek ==
  /\ pc = "read" /\ t < ReadTurns
  /\ unread[cur] > 0
  /\ LET k == IF unread[cur] < ReadSize THEN unread[cur] ELSE ReadSize IN
       onData' = [onData EXCEPT ![cur] = @ + k]
  /\ t' = t + 1
  /\ UNCHANGED <<kernelVars, pc, pstEpollRetEvents, cur, sendVars,
                 m_ptrServerTypes, lst_ConnectedClients, onConnect,
                 onDisconnect>>

\* read() > 0: OnData.
ReadData ==
  /\ pc = "read" /\ t < ReadTurns
  /\ unread[cur] > 0
  /\ LET k == IF unread[cur] < ReadSize THEN unread[cur] ELSE ReadSize IN
       /\ unread' = [unread EXCEPT ![cur] = @ - k]
       /\ onData' = [onData EXCEPT ![cur] = @ + k]
  /\ t' = t + 1
  /\ UNCHANGED <<link, peer, sent, ready, outVars, pc, pstEpollRetEvents, cur,
                 sendVars, m_ptrServerTypes, lst_ConnectedClients, onConnect,
                 onDisconnect>>

\* Mutant: the slot is not set to NULL.
MutReadHangUpKeepsSlot ==
  /\ pc = "read" /\ t < ReadTurns
  /\ unread[cur] = 0 /\ peer[cur] # "alive"
  /\ onDisconnect' = [onDisconnect EXCEPT ![cur] = @ + 1]
  /\ AfterRead
  /\ UNCHANGED <<kernelVars, pstEpollRetEvents, cur, t, sendVars,
                 m_ptrServerTypes, lst_ConnectedClients, onConnect, onData>>

\* read() = 0, or < 0 and not EAGAIN.  The client stays on the list.
ReadHangUp ==
  /\ pc = "read" /\ t < ReadTurns
  /\ unread[cur] = 0 /\ peer[cur] # "alive"
  /\ m_ptrServerTypes' = m_ptrServerTypes \ {cur}
  /\ onDisconnect' = [onDisconnect EXCEPT ![cur] = @ + 1]
  /\ AfterRead
  /\ UNCHANGED <<kernelVars, pstEpollRetEvents, cur, t, sendVars,
                 lst_ConnectedClients, onConnect, onData>>

\* EAGAIN, or all turns used.
ReadDone ==
  /\ pc = "read"
  /\ t >= ReadTurns \/ (unread[cur] = 0 /\ peer[cur] = "alive")
  /\ AfterRead
  /\ UNCHANGED <<kernelVars, pstEpollRetEvents, cur, t, sendVars, appVars>>

-----------------------------------------------------------------------------
(* Sending.                                                                *)

\* EPOLLOUT: what is in the client's buffer is sent, if it is still there.
OutEvent ==
  /\ pc = "out"
  /\ out' = FALSE
  /\ set_OnReadyToSendClients' = set_OnReadyToSendClients \cup {cur}
  /\ b_IsBuffered' = b_IsBuffered \ {cur}
  /\ IF cur \in m_ptrServerTypes
       THEN pc' = "send" /\ to' = cur /\ back' = "out"
       ELSE pc' = "event" /\ UNCHANGED <<to, back>>
  /\ UNCHANGED <<kernelVars, pstEpollRetEvents, cur, t, iSendLen,
                 set_DiconClients, m_SendBuffer, appended, appVars>>

WithinBound(k) == FoldFunction(+, k, appended) <= MaxAppend

\* Client::Send, called by the application (external) in a callback; once for
\* each client on the list in SendToAllClients.  A client that has been
\* dropped while reading is still on it: its buffer only grows.
Send(c, k) ==
  /\ pc \in {"wait", "onReady", "onDiscon"} \/ (pc = "read" /\ t > 0)
  /\ c \in lst_ConnectedClients
  /\ WithinBound(k)
  /\ appended' = [appended EXCEPT ![c] = @ + k]
  /\ m_SendBuffer' = [m_SendBuffer EXCEPT ![c] = @ + k]
  /\ IF c \in m_ptrServerTypes
       THEN pc' = "send" /\ to' = c /\ back' = pc
       ELSE UNCHANGED <<pc, to, back>>
  /\ UNCHANGED <<kernelVars, pstEpollRetEvents, cur, t, out, iSendLen,
                 set_OnReadyToSendClients, set_DiconClients, b_IsBuffered,
                 appVars>>

(* SendToClient.                                                           *)

ToSend == m_SendBuffer[to] - iSendLen
Room == SndBuf - outgoing[to]

WriteSome ==
  /\ pc = "send" /\ peer[to] # "rst"
  /\ ToSend > 0 /\ Room > 0
  /\ LET k == IF ToSend < Room THEN ToSend ELSE Room IN
       /\ outgoing' = [outgoing EXCEPT ![to] = @ + k]
       /\ iSendLen' = iSendLen + k
  /\ UNCHANGED <<inVars, ready, epollout, taken, pc, pstEpollRetEvents, cur, t,
                 out, to, back, set_OnReadyToSendClients, set_DiconClients,
                 m_SendBuffer, b_IsBuffered, appended, appVars>>

\* DeleteFromStart(iSendLen).
DeleteSent == m_SendBuffer' = [m_SendBuffer EXCEPT ![to] = @ - iSendLen]

Return ==
  /\ pc' = IF back = "out" THEN "event" ELSE back
  /\ to' = Listener /\ back' = "wait"

\* Mutant: what has been sent stays in the buffer.
MutWriteBlocked ==
  /\ pc = "send" /\ peer[to] # "rst"
  /\ ToSend > 0 /\ Room = 0
  /\ b_IsBuffered' = b_IsBuffered \cup {to}
  /\ iSendLen' = 0
  /\ pc' = "modify"
  /\ UNCHANGED <<kernelVars, pstEpollRetEvents, cur, t, out, to, back,
                 set_OnReadyToSendClients, set_DiconClients, m_SendBuffer,
                 appended, appVars>>

\* EAGAIN.
WriteBlocked ==
  /\ pc = "send" /\ peer[to] # "rst"
  /\ ToSend > 0 /\ Room = 0
  /\ b_IsBuffered' = b_IsBuffered \cup {to}
  /\ DeleteSent
  /\ iSendLen' = 0
  /\ pc' = "modify"
  /\ UNCHANGED <<kernelVars, pstEpollRetEvents, cur, t, out, to, back,
                 set_OnReadyToSendClients, set_DiconClients, appended, appVars>>

\* Mutant: the flags are those of CreateClient.
MutAskForEPOLLOUT ==
  /\ pc = "modify"
  /\ ready' = IF Mask(to) # {} THEN ready \cup {to} ELSE ready
  /\ Return
  /\ UNCHANGED <<inVars, outVars, pstEpollRetEvents, cur, t, out, iSendLen,
                 set_OnReadyToSendClients, set_DiconClients, m_SendBuffer,
                 b_IsBuffered, appended, appVars>>

\* EPOLL_CTL_MOD looks at the socket again: room made since the failed write
\* is reported.
AskForEPOLLOUT ==
  /\ pc = "modify"
  /\ epollout' = epollout \cup {to}
  /\ ready' = IF Mask(to) # {} \/ Room > 0 THEN ready \cup {to} ELSE ready
  /\ Return
  /\ UNCHANGED <<inVars, outgoing, taken, pstEpollRetEvents, cur, t, out,
                 iSendLen, set_OnReadyToSendClients, set_DiconClients,
                 m_SendBuffer, b_IsBuffered, appended, appVars>>

\* Any other error.  An id inserted in OnDisconnect, while the set is gone
\* through, is met later on or lost with clear(), depending on its place.
WriteFails ==
  /\ pc = "send" /\ peer[to] = "rst"
  /\ ToSend > 0
  /\ DeleteSent
  /\ iSendLen' = 0
  /\ \/ set_DiconClients' = set_DiconClients \cup {to}
     \/ back = "onDiscon" /\ UNCHANGED set_DiconClients
  /\ Return
  /\ UNCHANGED <<kernelVars, pstEpollRetEvents, cur, t, out,
                 set_OnReadyToSendClients, b_IsBuffered, appended, appVars>>

\* The error is EPIPE: nobody ignores SIGPIPE.
WriteKills ==
  /\ pc = "send" /\ peer[to] = "rst"
  /\ ToSend > 0
  /\ pc' = "dead"
  /\ UNCHANGED <<kernelVars, pstEpollRetEvents, cur, t, sendVars, appVars>>

\* All is written: ResetData; after EPOLLOUT the socket goes back to the flags
\* without it.  b_IsBuffered is left as it is.
WriteDone ==
  /\ pc = "send" /\ ToSend = 0
  /\ DeleteSent
  /\ iSendLen' = 0
  /\ IF back = "out"
       THEN /\ epollout' = epollout \ {to}
            /\ ready' = IF Mask(to) \ {"EPOLLOUT"} # {} THEN ready \cup {to}
                                                         ELSE ready
       ELSE UNCHANGED <<epollout, ready>>
  /\ Return
  /\ UNCHANGED <<inVars, outgoing, taken, pstEpollRetEvents, cur, t, out,
                 set_OnReadyToSendClients, set_DiconClients, b_IsBuffered,
                 appended, appVars>>

-----------------------------------------------------------------------------
(* After the events: the two sets, if there is something in them.          *)

EventsDone ==
  /\ pc = "event" /\ pstEpollRetEvents = {}
  /\ pc' = IF set_OnReadyToSendClients # {} THEN "ready"
           ELSE IF set_DiconClients # {} THEN "discon" ELSE "wait"
  /\ UNCHANGED <<kernelVars, pstEpollRetEvents, cur, t, sendVars, appVars>>

ReadyToSend(c) ==
  /\ pc = "ready" /\ c \in set_OnReadyToSendClients
  /\ set_OnReadyToSendClients' = set_OnReadyToSendClients \ {c}
  /\ pc' = IF c \in m_ptrServerTypes THEN "onReady" ELSE "ready"
  /\ UNCHANGED <<kernelVars, pstEpollRetEvents, cur, t, out, to, iSendLen, back,
                 set_DiconClients, m_SendBuffer, b_IsBuffered, appended,
                 appVars>>

\* A write has failed.  The client stays on the list.
Disconnect(c) ==
  /\ pc = "discon" /\ c \in set_DiconClients
  /\ c \in m_ptrServerTypes
  /\ set_DiconClients' = set_DiconClients \ {c}
  /\ m_ptrServerTypes' = m_ptrServerTypes \ {c}
  /\ onDisconnect' = [onDisconnect EXCEPT ![c] = @ + 1]
  /\ pc' = "onDiscon"
  /\ UNCHANGED <<kernelVars, pstEpollRetEvents, cur, t, out, to, iSendLen, back,
                 set_OnReadyToSendClients, m_SendBuffer, b_IsBuffered, appended,
                 lst_ConnectedClients, onConnect, onData>>

\* It has been disconnected since: EPOLL_CTL_DEL.
Unregister(c) ==
  /\ pc = "discon" /\ c \in set_DiconClients
  /\ c \notin m_ptrServerTypes
  /\ set_DiconClients' = set_DiconClients \ {c}
  /\ link' = [link EXCEPT ![c] = "removed"]
  /\ ready' = ready \ {c}
  /\ UNCHANGED <<peer, sent, unread, outVars, pc, pstEpollRetEvents, cur, t, out,
                 to, iSendLen, back, set_OnReadyToSendClients, m_SendBuffer,
                 b_IsBuffered, appended, appVars>>

CallbackReturns ==
  /\ pc \in {"onReady", "onDiscon"}
  /\ pc' = IF pc = "onReady" THEN "ready" ELSE "discon"
  /\ UNCHANGED <<kernelVars, pstEpollRetEvents, cur, t, sendVars, appVars>>

SetsDone ==
  /\ \/ pc = "ready" /\ set_OnReadyToSendClients = {}
     \/ pc = "discon" /\ set_DiconClients = {}
  /\ pc' = IF set_DiconClients # {} THEN "discon" ELSE "wait"
  /\ UNCHANGED <<kernelVars, pstEpollRetEvents, cur, t, sendVars, appVars>>

SendToClient ==
  \/ WriteSome
  \/ WriteBlocked
  \/ AskForEPOLLOUT
  \/ WriteFails
  \/ WriteKills
  \/ WriteDone

ReadSockets ==
  \/ EpollWait
  \/ \E e \in pstEpollRetEvents :
       AcceptEvent(e) \/ StaleEvent(e) \/ HangUpEvent(e) \/ ClientEvent(e)
  \/ \E c \in Conns :
       \/ Accept(c)
       \/ AcceptUnregistered(c)
       \/ ReadyToSend(c)
       \/ Disconnect(c)
       \/ Unregister(c)
  \/ AcceptFails
  \/ ReadData
  \/ ReadHangUp
  \/ ReadDone
  \/ OutEvent
  \/ SendToClient
  \/ EventsDone
  \/ CallbackReturns
  \/ SetsDone

Next ==
  \/ \E c \in Conns :
       Connect(c) \/ PeerSends(c) \/ PeerLeaves(c) \/ PeerTakes(c)
  \/ \E c \in Conns, k \in 1..MaxAppend : Send(c, k)
  \/ ReadSockets

Spec == Init /\ [][Next]_vars

\* The receiver thread keeps running; peers do as they please, but a connected
\* one reads what it is sent.
FairSpec ==
  /\ Spec
  /\ WF_vars(ReadSockets)
  /\ \A c \in Conns : WF_vars(PeerTakes(c))

-----------------------------------------------------------------------------
(* Properties.                                                             *)

\* Every variable keeps its type.
TypeOK ==
  /\ link \in [Conns -> {"none", "pending", "accepted", "leaked", "removed"}]
  /\ peer \in [Conns -> {"alive", "fin", "rst"}]
  /\ sent \in [Conns -> 0..MaxSent]
  /\ unread \in [Conns -> 0..RcvBuf]
  /\ ready \subseteq Conns \cup {Listener}
  /\ epollout \subseteq Conns
  /\ outgoing \in [Conns -> 0..SndBuf]
  /\ pc \in {"wait", "event", "accept", "read", "out", "send", "modify",
             "ready", "onReady", "discon", "onDiscon", "dead"}
  /\ pstEpollRetEvents \subseteq
       [fd : Conns \cup {Listener}, events : SUBSET {"EPOLLIN", "EPOLLOUT", "EPOLLRDHUP"}]
  /\ cur \in Conns \cup {Listener}
  /\ t \in 0..ReadTurns
  /\ out \in BOOLEAN
  /\ to \in Conns \cup {Listener}
  /\ iSendLen \in Nat
  /\ back \in {"wait", "read", "out", "onReady", "onDiscon"}
  /\ set_OnReadyToSendClients \cup set_DiconClients \cup b_IsBuffered
       \subseteq Conns
  /\ m_SendBuffer \in [Conns -> Nat]
  /\ taken \in [Conns -> Nat] /\ appended \in [Conns -> Nat]
  /\ m_ptrServerTypes \subseteq Conns
  /\ lst_ConnectedClients \subseteq Conns
  /\ onConnect \in [Conns -> Nat]
  /\ onData \in [Conns -> 0..MaxSent]
  /\ onDisconnect \in [Conns -> Nat]

\* The loop will still see to this of socket s without anything new on it.
WillSeeTo(s, flag) ==
  \/ s \in ready
  \/ \E e \in pstEpollRetEvents : e.fd = s /\ flag \in e.events
  \/ s = Listener /\ pc = "accept"
  \/ flag # "EPOLLOUT" /\ cur = s /\ "read" \in {pc, back}
  \/ flag = "EPOLLOUT" /\ (to = s \/ (cur = s /\ (out \/ pc = "out")))

(***************************************************************************)
(* Edge triggering loses nothing: although epoll reports a socket once and *)
(* the read loop gives up after i_ReadTurns turns, a client with unread    *)
(* data, a closed peer or room for what it waits to send is always still   *)
(* going to be looked at, and one with unsent data is known to wait; so is *)
(* the listening socket looked at while a peer waits to be accepted, until *)
(* descriptors run out.                                                    *)
(***************************************************************************)
NothingStranded ==
  /\ \A c \in m_ptrServerTypes, flag \in {"EPOLLIN", "EPOLLOUT", "EPOLLRDHUP"} :
       flag \in Mask(c) => WillSeeTo(c, flag)
  /\ \A c \in m_ptrServerTypes :
       m_SendBuffer[c] > 0 /\ to # c /\ peer[c] # "rst" =>
         c \in epollout /\ (c \in b_IsBuffered \/ pc = "out")
  /\ Mask(Listener) # {} /\ FdsInUse < FdLimit => WillSeeTo(Listener, "EPOLLIN")

(***************************************************************************)
(* The callbacks come in a sane order on every path that drops a client:   *)
(* OnConnect once, OnDisconnect once after it and only when the peer has   *)
(* left, and a client that has not been disconnected is in the table and   *)
(* on the server's list.  No data is invented or repeated, received or     *)
(* sent.                                                                   *)
(***************************************************************************)
CallbacksInOrder ==
  \A c \in Conns :
    /\ onConnect[c] = (IF link[c] \in {"accepted", "removed"} THEN 1 ELSE 0)
    /\ onDisconnect[c] = (IF c \in m_ptrServerTypes THEN 0 ELSE onConnect[c])
    /\ onDisconnect[c] = 1 => peer[c] # "alive"
    /\ c \in m_ptrServerTypes => c \in lst_ConnectedClients
    /\ onData[c] + unread[c] = sent[c]
    /\ appended[c] + (IF to = c THEN iSendLen ELSE 0)
         = m_SendBuffer[c] + outgoing[c] + taken[c]

\* A client that has been disconnected is never called back again: OnData and
\* OnDisconnect are calls on clients in the table.
NoCallAfterDisconnect ==
  [][\A c \in Conns :
       onDisconnect[c] > 0 =>
         onData'[c] = onData[c] /\ onDisconnect'[c] = onDisconnect[c]]_vars

(***************************************************************************)
(* All that a peer sends reaches OnData, unless the peer leaves, never     *)
(* gets a descriptor or could not be registered with epoll, or a write has *)
(* ended the process.                                                      *)
(***************************************************************************)
DataArrives ==
  \A c \in Conns, k \in 1..MaxSent :
    sent[c] >= k ~> \/ onData[c] >= k
                    \/ peer[c] # "alive"
                    \/ link[c] = "pending" /\ FdsInUse = FdLimit
                    \/ link[c] = "leaked"
                    \/ pc = "dead"

\* Every accepted client whose peer leaves is reported by OnDisconnect, unless
\* a write to one of them has ended the process.
DisconnectReported ==
  \A c \in Conns :
    link[c] = "accepted" /\ peer[c] # "alive"
      ~> onDisconnect[c] = 1 \/ pc = "dead"

\* What the application sends to a connected peer that reads gets there in
\* full, however often write() fails for want of room.
SentDataLeaves ==
  \A c \in Conns, k \in 1..MaxAppend :
    appended[c] >= k ~> taken[c] >= k \/ peer[c] # "alive" \/ pc = "dead"

-----------------------------------------------------------------------------
(* What the safety properties rest on; with TypeOK and CallbacksInOrder    *)
(* LoopInv is inductive (module SocketManagerProofs).                      *)

\* In the read loop, or in a Send that OnData has called.
Reading == "read" \in {pc, back}

\* What the thread works on where it is.
AtWork ==
  /\ pc \in {"send", "modify", "dead"} => to \in m_ptrServerTypes
  /\ pc \notin {"send", "modify", "dead"} => to = Listener /\ back = "wait"
  /\ IF pc \in {"send", "dead"} THEN iSendLen <= m_SendBuffer[to]
                                ELSE iSendLen = 0
  /\ Reading => cur \in m_ptrServerTypes
  /\ pc = "out" => cur \in Conns
  /\ back = "out" => to = cur
  /\ out => Reading \/ pc = "out"

\* Only accepted clients are known to Server and SocketManager; a client whose
\* write has failed has a peer that has reset.
Clients ==
  /\ \A c \in m_ptrServerTypes : link[c] = "accepted"
  /\ \A c \in lst_ConnectedClients \cup set_DiconClients :
       link[c] \in {"accepted", "removed"}
  /\ \A c \in Conns :
       link[c] \notin {"accepted", "removed"} => m_SendBuffer[c] = 0
  /\ \A c \in set_DiconClients : peer[c] = "rst"

\* The events in hand: one of a socket, and EPOLLRDHUP is never premature.
Events ==
  /\ \A e \in pstEpollRetEvents :
       /\ "EPOLLRDHUP" \in e.events =>
            e.fd # Listener /\ peer[e.fd] # "alive" /\ "EPOLLIN" \in e.events
       /\ Reading => e.fd # cur
  /\ \A e, f \in pstEpollRetEvents : e.fd = f.fd => e = f
  /\ \/ pc \in {"event", "accept", "out"} \/ Reading \/ back = "out"
     \/ pstEpollRetEvents = {}

HasEvent(c, flag) ==
  \E e \in pstEpollRetEvents : e.fd = c /\ flag \in e.events

\* Why a client with something to do is looked at again: once it has left, to
\* the end; with data, until it is read; with room, until it is sent to.
SeenTo ==
  /\ \A c \in m_ptrServerTypes :
       peer[c] # "alive" =>
         \/ c \in ready
         \/ /\ HasEvent(c, "EPOLLRDHUP")
            /\ peer[c] = "rst" /\ c \in epollout => HasEvent(c, "EPOLLOUT")
  /\ \A c \in m_ptrServerTypes :
       unread[c] > 0 =>
         c \in ready \/ HasEvent(c, "EPOLLIN") \/ (cur = c /\ Reading)
  /\ \A c \in m_ptrServerTypes \cap epollout :
       outgoing[c] < SndBuf /\ peer[c] # "rst" =>
         \/ c \in ready
         \/ HasEvent(c, "EPOLLOUT")
         \/ cur = c /\ (out \/ pc = "out")
         \/ to = c /\ back = "out"

\* The turns suffice for what the socket held at the first of them; what came
\* later has put the client on the ready list.
TurnsSuffice ==
  Reading /\ unread[cur] > (ReadTurns - t) * ReadSize => cur \in ready

\* Data that is left in a client's buffer waits for EPOLLOUT.
UnsentWaits ==
  /\ \A c \in m_ptrServerTypes :
       m_SendBuffer[c] > 0 /\ to # c /\ peer[c] # "rst" =>
         c \in epollout \cap b_IsBuffered
  /\ pc = "modify" => to \in b_IsBuffered

ListenerSeenTo ==
  (\E c \in Conns : link[c] = "pending") /\ FdsInUse < FdLimit =>
    Listener \in ready \/ HasEvent(Listener, "EPOLLIN") \/ pc = "accept"

LoopInv ==
  AtWork /\ Clients /\ Events /\ SeenTo /\ TurnsSuffice /\ UnsentWaits
    /\ ListenerSeenTo
=============================================================================
