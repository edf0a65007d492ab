----------------------- MODULE MultiplexerServerProofs -----------------------
(***************************************************************************)
(* The start-up of main() for every capacity, every number of messages and *)
(* every interleaving of its calls with the two threads.  StartInv is the  *)
(* inductive invariant: how far main() is, and that nothing has arrived    *)
(* before it has started the receiver thread.                              *)
(***************************************************************************)
EXTENDS MultiplexerServer, HandOffProofs

\* The settings main() has written when it comes to a call.
WrittenBefore ==
  [SetClientCount                |-> {},
   setDeleteThreshold            |-> {"SetClientCount"},
   openConnectionToLabelReceiver |-> {"SetClientCount", "setDeleteThreshold"},
   setLabelDeliverySize          |-> Settings \ {"setLabelDeliverySize"},
   StartReceiverThread           |-> Settings,
   SetIgnoreMessageCount         |-> Settings,
   sleep                         |-> Settings]

StartInv ==
  /\ MuxTypeOK
  /\ configured = WrittenBefore[mpc]
  /\ ~ReceiverStarted => rpc = "decode" /\ admitted = <<>>

\* A step of main() or of a thread is a step of the hand-off, or none.
LEMMA MuxStepIsStep == MuxNext => [Next]_vars
<1> SUFFICES ASSUME MuxNext PROVE Next \/ UNCHANGED vars
  OBVIOUS
<1>1. CASE Configure \/ StartReceiverThread
  BY <1>1 DEF Configure, StartReceiverThread
<1>2. CASE SetIgnore
  BY <1>2, MuxAssumption DEF SetIgnore, Next
<1>3. CASE ~Configure /\ ~StartReceiverThread /\ ~SetIgnore
  BY <1>3 DEF MuxNext, Next
<1> QED BY <1>1, <1>2, <1>3

\* main() writes the settings in order, and until it has started the receiver
\* thread no message is decoded, hence none announced.
LEMMA StartNext == StartInv /\ [MuxNext]_muxVars => StartInv'
<1> SUFFICES ASSUME StartInv, [MuxNext]_muxVars PROVE StartInv'
  OBVIOUS
<1> USE DEF StartInv, MuxTypeOK, ReceiverStarted
<1>1. CASE Configure
  <2>1. UNCHANGED <<rpc, admitted>>
    BY <1>1 DEF Configure, vars
  <2>2. /\ mpc' \in DOMAIN After \cup {"sleep"} /\ configured' \subseteq Settings
        /\ configured' = WrittenBefore[mpc']
        /\ mpc' \notin {"SetIgnoreMessageCount", "sleep"}
    BY <1>1 DEF Configure, Settings, After, WrittenBefore
  <2> QED BY <1>1, <2>1, <2>2 DEF Configure, Settings
<1>2. CASE StartReceiverThread
  BY <1>2 DEF StartReceiverThread, After, WrittenBefore
<1>3. CASE SetIgnore
  BY <1>3 DEF SetIgnore, After, WrittenBefore
<1>4. CASE ReceiverStarted /\ Receiver /\ UNCHANGED <<mpc, configured>>
  BY <1>4
<1>5. CASE Processor /\ UNCHANGED <<mpc, configured>>
  <2>1. admitted' = admitted /\ (rpc = "decode" => rpc' = "decode")
    BY <1>5 DEF Processor, PollFromIntermediateQueue, PollFromConsumerQueue,
                Process, ConsumerQueueEmpty, WaitToDecrease,
                DecreaseQueueSize, SignalReceiver
  <2> QED BY <1>5, <2>1
<1>6. CASE SpuriousWakeup /\ UNCHANGED <<mpc, configured>>
  BY <1>6 DEF SpuriousWakeup
<1>7. CASE UNCHANGED muxVars
  BY <1>7 DEF muxVars, vars
<1> QED
  BY <1>1, <1>2, <1>3, <1>4, <1>5, <1>6, <1>7 DEF MuxNext

LEMMA StartInvariance == MuxSpec => [](TypeOK /\ HandOffInv /\ StartInv)
<1>1. MuxInit => TypeOK /\ HandOffInv
  BY InductiveInit DEF MuxInit
<1>2. MuxInit => StartInv
  BY DEF MuxInit, Init, StartInv, MuxTypeOK, After, WrittenBefore
<1>3. TypeOK /\ HandOffInv /\ [MuxNext]_muxVars => TypeOK' /\ HandOffInv'
  <2>1. [MuxNext]_muxVars => [Next]_vars
    BY MuxStepIsStep DEF muxVars
  <2> QED BY <2>1, InductiveNext
<1> QED BY <1>1, <1>2, <1>3, StartNext, PTL DEF MuxSpec

\* main() goes through its calls once, and writes no other setting.
THEOREM MuxTypeCorrect == MuxSpec => []MuxTypeOK
<1>1. StartInv => MuxTypeOK
  BY DEF StartInv
<1> QED BY <1>1, StartInvariance, PTL

(***************************************************************************)
(* The processing thread, started first, never works on a packet before    *)
(* main() has written all its settings: a packet has been let through,     *)
(* hence the receiver thread started.                                      *)
(***************************************************************************)
THEOREM SettingsBeforeUse == MuxSpec => []ConfiguredBeforeUse
<1>1. TypeOK /\ HandOffInv /\ StartInv => ConfiguredBeforeUse
  <2> SUFFICES ASSUME TypeOK, HandOffInv, StartInv, ppc = "process"
               PROVE  configured = Settings
    BY DEF ConfiguredBeforeUse
  <2>1. Len(processed) < Len(admitted) /\ Len(processed) \in Nat
    BY InHandIsNext, LenProperties DEF TypeOK
  <2>2. admitted # <<>>
    BY <2>1, EmptySeq
  <2>3. mpc \in {"SetIgnoreMessageCount", "sleep"}
    BY <2>2 DEF StartInv, ReceiverStarted
  <2> QED BY <2>3 DEF StartInv, WrittenBefore
<1> QED BY <1>1, StartInvariance, PTL

\* The threads as main() starts and configures them behave as HandOff says,
\* so all that is proved of HandOff holds of them.
THEOREM StartUpIsHandOff == MuxSpec => ImplementsHandOff
<1>1. MuxInit => Init
  BY DEF MuxInit
<1>2. [MuxNext]_muxVars => [Next]_vars
  BY MuxStepIsStep DEF muxVars
<1> QED BY <1>1, <1>2, PTL DEF MuxSpec, ImplementsHandOff, Spec
=============================================================================
