-------------------------- MODULE MultiplexerServer --------------------------
(***************************************************************************)
(* main(): the order in which the threads are started and configured.  The *)
(* processing thread runs from the start; its settings, and those of the   *)
(* receiver thread, are plain fields the main thread writes while the      *)
(* threads are running.  HandOff with the main thread as it is.            *)
(***************************************************************************)
EXTENDS HandOff

CONSTANT IgnoreMsgCount   \* argv[5]

ASSUME MuxAssumption == IgnoreMsgCount \in IgnoreValues

VARIABLES
  mpc,          \* the next call of main()
  configured    \* the settings of ProcessingThread that have been written

muxVars == <<vars, mpc, configured>>

\* The settings processQ reads, in the order main() writes them.
Settings == {"SetClientCount", "setDeleteThreshold",
             "openConnectionToLabelReceiver", "setLabelDeliverySize"}

\* Mutant: the receiver thread started before the last setting.
MutReceiverTooEarly ==
  [SetClientCount                |-> "setDeleteThreshold",
   setDeleteThreshold            |-> "openConnectionToLabelReceiver",
   openConnectionToLabelReceiver |-> "StartReceiverThread",
   StartReceiverThread           |-> "SetIgnoreMessageCount",
   SetIgnoreMessageCount         |-> "setLabelDeliverySize",
   setLabelDeliverySize          |-> "sleep"]

\* The call that follows a call in main().
After == [SetClientCount                |-> "setDeleteThreshold",
          setDeleteThreshold            |-> "openConnectionToLabelReceiver",
          openConnectionToLabelReceiver |-> "setLabelDeliverySize",
          setLabelDeliverySize          |-> "StartReceiverThread",
          StartReceiverThread           |-> "SetIgnoreMessageCount",
          SetIgnoreMessageCount         |-> "sleep"]

\* StartProcessingThread has returned.  ServerAPI's constructor leaves
\* m_ignoreMsgCount uninitialized: HandOff's Init allows any value.
MuxInit ==
  /\ Init
  /\ mpc = "SetClientCount"
  /\ configured = {}

\* Mutant: marks the call after the one made.
MutConfigureNext ==
  /\ mpc \in Settings
  /\ configured' = configured \cup {After[mpc]}
  /\ mpc' = After[mpc]
  /\ UNCHANGED vars

Configure ==
  /\ mpc \in Settings
  /\ configured' = configured \cup {mpc}
  /\ mpc' = After[mpc]
  /\ UNCHANGED vars

StartReceiverThread ==
  /\ mpc = "StartReceiverThread"
  /\ mpc' = After[mpc]
  /\ UNCHANGED <<vars, configured>>

\* Mutant: starts counting anew, under the receiver thread's feet.
MutSetIgnoreResets ==
  /\ mpc = "SetIgnoreMessageCount"
  /\ m_ignoreMsgCount' = IgnoreMsgCount
  /\ m_iCurrentMsgCount' = 0
  /\ mpc' = After[mpc]
  /\ UNCHANGED <<rpc, queueVars, m_iObectSize, ppc, pCont, l_iProcessedMsg,
                 admitted, processed, configured>>

SetIgnore ==
  /\ mpc = "SetIgnoreMessageCount"
  /\ SetIgnoreMessageCount(IgnoreMsgCount)
  /\ mpc' = After[mpc]
  /\ UNCHANGED configured

\* pthread_create has returned or is about to.
ReceiverStarted == mpc \in {"SetIgnoreMessageCount", "sleep"}

MuxNext ==
  \/ Configure
  \/ StartReceiverThread
  \/ SetIgnore
  \/ ReceiverStarted /\ Receiver /\ UNCHANGED <<mpc, configured>>
  \/ Processor /\ UNCHANGED <<mpc, configured>>
  \/ SpuriousWakeup /\ UNCHANGED <<mpc, configured>>

MuxSpec == MuxInit /\ [][MuxNext]_muxVars

-----------------------------------------------------------------------------
(* Properties.                                                             *)

\* The main thread's variables keep their types.
MuxTypeOK ==
  /\ mpc \in DOMAIN After \cup {"sleep"}
  /\ configured \subseteq Settings

(***************************************************************************)
(* The processing thread is started before its settings are written, and   *)
(* yet reads none of them too early: it sleeps in DecreaseQueueSize until  *)
(* a packet is announced, and nobody announces one before main() is done   *)
(* with the processing thread.                                             *)
(***************************************************************************)
ConfiguredBeforeUse == ppc = "process" => configured = Settings

\* The threads started and configured by main() behave as HandOff says.
ImplementsHandOff == Spec

(***************************************************************************)
(* The README's "IgnoreMsgCount (To ignore initial messages (to avoid the  *)
(* influence of startup delays))": none of the first IgnoreMsgCount        *)
(* messages is let through.                                                *)
(***************************************************************************)
IgnoresInitialMessages ==
  \A i \in 1..Len(admitted) : admitted[i] > IgnoreMsgCount
=============================================================================
