---------------------------- MODULE FrameDecoder ----------------------------
(***************************************************************************)
(* From the byte stream of a vnode to ReceivedMessages: ServerAPI::OnData, *)
(* Decode, GetPayLoadLength and ProcessedSocketData over the receive       *)
(* buffer of class ClientData.                                             *)
(*                                                                         *)
(* A frame is  L=dddddddd|partition|heartbeat|label;label...#  where the   *)
(* eight digits give the length of the whole frame.  TCP may cut the       *)
(* stream anywhere: OnData gets it in chunks of any size.  A byte of the   *)
(* model is a pair: its kind, and what it stands for.  A field of the      *)
(* payload, and a label "ts:value", is a single byte; each of the eight    *)
(* digits stands for the length they spell together.                       *)
(***************************************************************************)
EXTENDS Naturals, FiniteSets, Sequences, SequencesExt

CONSTANTS
  Clients,
  NoClient,
  Messages,        \* what a client may want to send
  Telnet,          \* the client ends every frame with CR LF
  DocumentedOrder, \* the client puts the heartbeat before the partition id
  InitialBuffer,   \* capacity of an empty ClientData; INIT_NORM_BUF_LEN
  IncUnit,         \* extra room taken when it grows; INC_UNIT_LEN
  MaxFrames        \* bound: frames a client sends

ASSUME DecoderAssumption ==
  /\ NoClient \notin Clients
  /\ Messages \subseteq [pid : Nat, hb : Nat, labels : Seq(Nat) \ {<<>>}]
  /\ Telnet \in BOOLEAN /\ DocumentedOrder \in BOOLEAN
  /\ InitialBuffer \in Nat /\ IncUnit \in Nat /\ MaxFrames \in Nat

VARIABLES
  sent,            \* per client: the messages it has sent
  stream,          \* per client: the bytes it has sent
  delivered,       \* per client: how many of them OnData has been given
  m_RcvBuffer,     \* per client: contents of the receive buffer
  m_iMaxDataLen,   \* per client: capacity of the receive buffer
  pClient,         \* the client Decode works for, or NoClient
  decoded          \* per client: the ReceivedMessages made

vars ==
  <<sent, stream, delivered, m_RcvBuffer, m_iMaxDataLen, pClient, decoded>>

PAYLOAD_SIZE == 8
HeaderSize == PAYLOAD_SIZE + 3

-----------------------------------------------------------------------------
(* The clients (external): how a message becomes bytes.                    *)

Byte ==
  {"L", "=", "digit", "|", "field", "label", ";", "#", "CR", "LF"} \X Nat

\* l1;l2;...
Labels(ls) ==
  [i \in 1..(2 * Len(ls) - 1) |->
     IF i % 2 = 1 THEN <<"label", ls[(i + 1) \div 2]>> ELSE <<";", 0>>]

PayLoad(m) ==
  << <<"field", IF DocumentedOrder THEN m.hb ELSE m.pid>>, <<"|", 0>>,
     <<"field", IF DocumentedOrder THEN m.pid ELSE m.hb>>, <<"|", 0>> >>
  \o Labels(m.labels)

Frame(m) ==
  LET size == HeaderSize + Len(PayLoad(m)) + 1 IN
  << <<"L", 0>>, <<"=", 0>> >>
  \o [i \in 1..PAYLOAD_SIZE |-> <<"digit", size>>]
  \o << <<"|", 0>> >>
  \o PayLoad(m)
  \o << <<"#", 0>> >>
  \o (IF Telnet THEN << <<"CR", 0>>, <<"LF", 0>> >> ELSE <<>>)

\* A frame goes into the socket whole; it arrives in any pieces.
ClientSends(c, m) ==
  /\ Len(sent[c]) < MaxFrames
  /\ sent' = [sent EXCEPT ![c] = Append(@, m)]
  /\ stream' = [stream EXCEPT ![c] = @ \o Frame(m)]
  /\ UNCHANGED <<delivered, m_RcvBuffer, m_iMaxDataLen, pClient, decoded>>

Init ==
  /\ sent = [c \in Clients |-> <<>>]
  /\ stream = [c \in Clients |-> <<>>]
  /\ delivered = [c \in Clients |-> 0]
  /\ m_RcvBuffer = [c \in Clients |-> <<>>]
  /\ m_iMaxDataLen = [c \in Clients |-> InitialBuffer]
  /\ pClient = NoClient
  /\ decoded = [c \in Clients |-> <<>>]

-----------------------------------------------------------------------------
(* ServerAPI.                                                              *)

\* Mutant: the room left instead of the room there is.
MutRoomLeft(max, total) == max - total

\* Mutant: grows by the increment only.
MutGrowsTooLittle(max, total) == IF total > max THEN max + IncUnit ELSE max

\* ClientData::Append grows a buffer that is too small for the new total.
GrownBuffer(max, total) == IF total > max THEN total + IncUnit ELSE max

DeleteFromStart(buffer, k) == SubSeq(buffer, k + 1, Len(buffer))

\* OnData drops a CR LF that ends the chunk.
RemoveCR(chunk) ==
  IF Len(chunk) >= 2 /\ chunk[Len(chunk) - 1] = <<"CR", 0>>
    THEN SubSeq(chunk, 1, Len(chunk) - 2)
    ELSE chunk

\* 0 unless the buffer starts with an L and holds a pipe.
GetPayLoadLength(buffer) ==
  IF /\ buffer # <<>>
     /\ buffer[1] = <<"L", 0>>
     /\ \E i \in 2..Len(buffer) : buffer[i] = <<"|", 0>>
    THEN buffer[3][2]
    ELSE 0

\* Where the tokens of a kind are, and the n-th of them.
Tokens(data, kind) == {i \in 1..Len(data) : data[i][1] = kind}
Nth(P, n) == CHOOSE p \in P : Cardinality({q \in P : q <= p}) = n

\* strtok: the fields between the pipes, then the labels of the third.
ProcessedSocketData(data) ==
  LET v(n) == data[Nth(Tokens(data, "field"), n)][2]
      lbls == Tokens(data, "label")
  IN  [pid |-> v(1), hb |-> v(2),
       labels |-> [n \in 1..Cardinality(lbls) |-> data[Nth(lbls, n)][2]]]

\* The socket is readable: OnData with the next bytes of the stream, up to
\* and including the first call of GetPayLoadLength in Decode.
OnData(c, len) ==
  LET chunk == SubSeq(stream[c], delivered[c] + 1, delivered[c] + len)
      buffer == m_RcvBuffer[c] \o RemoveCR(chunk)
  IN  /\ pClient = NoClient
      /\ delivered' = [delivered EXCEPT ![c] = @ + len]
      /\ m_RcvBuffer' = [m_RcvBuffer EXCEPT ![c] = buffer]
      /\ m_iMaxDataLen' =
           [m_iMaxDataLen EXCEPT ![c] = GrownBuffer(@, Len(buffer))]
      /\ pClient' = IF GetPayLoadLength(buffer) = 0 THEN NoClient ELSE c
      /\ UNCHANGED <<sent, stream, decoded>>

\* Mutant: a frame that ends the buffer does not count.
MutFrameAndMore(buffer) ==
  LET len == GetPayLoadLength(buffer) IN
  /\ len # 0
  /\ len < Len(buffer)
  /\ buffer[len] = <<"#", 0>>

\* Decode's loop goes round while the buffer starts with a whole frame.
WholeFrame(buffer) ==
  LET len == GetPayLoadLength(buffer) IN
  /\ len # 0
  /\ len <= Len(buffer)
  /\ buffer[len] = <<"#", 0>>

\* One round: cut off the header, copy and parse the payload, cut it off.
Decode ==
  /\ pClient # NoClient
  /\ LET c == pClient
         len == GetPayLoadLength(m_RcvBuffer[c])
         data == DeleteFromStart(m_RcvBuffer[c], HeaderSize)
         payload == len - HeaderSize
     IN  /\ WholeFrame(m_RcvBuffer[c])
         /\ decoded' = [decoded EXCEPT ![c] =
              Append(@, ProcessedSocketData(SubSeq(data, 1, payload - 1)))]
         /\ m_RcvBuffer' = [m_RcvBuffer EXCEPT ![c] =
              DeleteFromStart(data, payload)]
  /\ UNCHANGED <<sent, stream, delivered, m_iMaxDataLen, pClient>>

DecodeReturns ==
  /\ pClient # NoClient
  /\ ~WholeFrame(m_RcvBuffer[pClient])
  /\ pClient' = NoClient
  /\ UNCHANGED <<sent, stream, delivered, m_RcvBuffer, m_iMaxDataLen, decoded>>

Next ==
  \/ \E c \in Clients, m \in Messages : ClientSends(c, m)
  \/ \E c \in Clients :
       \E len \in 1..(Len(stream[c]) - delivered[c]) : OnData(c, len)
  \/ Decode
  \/ DecodeReturns

Spec == Init /\ [][Next]_vars

-----------------------------------------------------------------------------
(* Properties.                                                             *)

\* Every variable keeps its type.
TypeOK ==
  /\ sent \in [Clients -> Seq(Messages)]
  /\ stream \in [Clients -> Seq(Byte)]
  /\ delivered \in [Clients -> Nat]
  /\ m_RcvBuffer \in [Clients -> Seq(Byte)]
  /\ m_iMaxDataLen \in [Clients -> Nat]
  /\ pClient \in Clients \cup {NoClient}
  /\ decoded \in [Clients -> Seq([pid : Nat, hb : Nat, labels : Seq(Nat)])]

\* Where the frames in a stream end.
FrameEnds(bytes) == {i \in 1..Len(bytes) : bytes[i] = <<"#", 0>>}

\* Number of messages of c whose frames have arrived to the end mark.
FramesDelivered(c) ==
  Cardinality({e \in FrameEnds(stream[c]) : e <= delivered[c]})

(***************************************************************************)
(* Wherever TCP cuts the stream, and however the clients' chunks are       *)
(* mixed: once Decode has returned, the messages made for a client are     *)
(* exactly those whose frames have arrived, with the fields they were sent *)
(* with, in the order sent.  None is held up until later bytes arrive,     *)
(* none is decoded early from a part of a frame.                           *)
(***************************************************************************)
FramesDecoded ==
  pClient = NoClient =>
    \A c \in Clients : decoded[c] = SubSeq(sent[c], 1, FramesDelivered(c))

(***************************************************************************)
(* ClientData never writes beyond its array, and DeleteFromStart never     *)
(* cuts off more than there is: the buffer holds the bytes delivered that  *)
(* no decoded frame has used.                                              *)
(***************************************************************************)
BufferFits ==
  \A c \in Clients :
    /\ Len(m_RcvBuffer[c]) <= m_iMaxDataLen[c]
    /\ IsSuffix(m_RcvBuffer[c], SubSeq(stream[c], 1, delivered[c]))

-----------------------------------------------------------------------------
(* What the properties rest on while no client is a telnet client; with    *)
(* TypeOK DecoderInv is inductive (module FrameDecoderProofs).             *)

\* Bytes of a stream before its frame k.
Before(bytes, k) == IF k = 1 THEN 0 ELSE Nth(FrameEnds(bytes), k - 1)

\* The stream is made of the frames of the messages ms, one after the other.
MadeOf(bytes, ms) ==
  /\ Len(bytes) = Before(bytes, Len(ms) + 1)
  /\ Cardinality(FrameEnds(bytes)) = Len(ms)
  /\ \A k \in 1..Len(ms) :
       LET end == Before(bytes, k + 1) IN
       /\ end \in FrameEnds(bytes)
       /\ Cardinality({e \in FrameEnds(bytes) : e <= end}) = k
       /\ end = Before(bytes, k) + Len(Frame(ms[k]))
       /\ SubSeq(bytes, Before(bytes, k) + 1, end) = Frame(ms[k])
  /\ \A i \in 1..Len(bytes) : bytes[i][1] # "CR"

\* What ProcessedSocketData makes of the payload of m.
ReadAs(m) ==
  [pid |-> IF DocumentedOrder THEN m.hb ELSE m.pid,
   hb |-> IF DocumentedOrder THEN m.pid ELSE m.hb,
   labels |-> m.labels]

\* The first frames are decoded, the buffer holds what has arrived of the
\* others; unless Decode is at work that is less than a frame.
DecodedInOrder(c) ==
  LET n == Len(decoded[c])
      start == Before(stream[c], n + 1)
  IN  /\ n <= Len(sent[c])
      /\ \A k \in 1..n : decoded[c][k] = ReadAs(sent[c][k])
      /\ start <= delivered[c] /\ delivered[c] <= Len(stream[c])
      /\ m_RcvBuffer[c] = SubSeq(stream[c], start + 1, delivered[c])
      /\ Len(m_RcvBuffer[c]) <= m_iMaxDataLen[c]
      /\ pClient # c =>
           n = Len(sent[c]) \/ delivered[c] < Before(stream[c], n + 2)

DecoderInv ==
  \A c \in Clients : MadeOf(stream[c], sent[c]) /\ DecodedInOrder(c)
=============================================================================
