------------------------------- MODULE Channel -------------------------------
(***************************************************************************)
(* What the hand-off between the receiver thread and the processing thread *)
(* promises: a bounded first-in first-out channel.  Everything given is    *)
(* taken, in order, exactly once; the giver is held up only while Room     *)
(* messages are on their way.                                              *)
(***************************************************************************)
EXTENDS Naturals, Sequences

CONSTANTS
  Message,
  Room       \* the most messages that can be on their way

VARIABLES
  given,     \* messages put into the channel, in order
  taken      \* messages taken out of it, in order

chanVars == <<given, taken>>

Init == given = <<>> /\ taken = <<>>

Put ==
  /\ Len(given) - Len(taken) < Room
  /\ \E m \in Message : given' = Append(given, m)
  /\ UNCHANGED taken

Take ==
  /\ Len(taken) < Len(given)
  /\ taken' = Append(taken, given[Len(taken) + 1])
  /\ UNCHANGED given

Next == Put \/ Take

Spec == Init /\ [][Next]_chanVars

\* With a taker that does not stop.
FairSpec == Spec /\ WF_chanVars(Take)
=============================================================================
