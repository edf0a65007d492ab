--------------------------- MODULE OrderedDelivery ---------------------------
(***************************************************************************)
(* What the service promises its users.  Partitions send labels, and       *)
(* promise to send none below a bound.  Labels are released in timestamp   *)
(* order, each once, as soon as nothing older can come; labels of one      *)
(* partition with the same timestamp keep the order they were sent in.     *)
(*                                                                         *)
(* A label is a record [ts, val]; val is its partition and its number      *)
(* among that partition's labels.                                          *)
(***************************************************************************)
EXTENDS Naturals, Sequences, SequencesExt

CONSTANTS
  Partitions,
  Promises,     \* the bounds a partition may promise
  Labels        \* the labels there may be

VARIABLES
  sent,         \* labels sent
  promise,      \* per partition: it will send nothing below this any more
  released      \* labels released, in order

orderVars == <<sent, promise, released>>

Init ==
  /\ sent = {}
  /\ promise = [p \in Partitions |-> 0]
  /\ released = <<>>

\* Partition p sends labels, numbered on and not below its promise, and makes
\* its next promise.
Send(p) ==
  /\ sent' \in SUBSET Labels
  /\ sent \subseteq sent'
  /\ \A l \in sent' \ sent :
       /\ l.val[1] = p
       /\ l.ts >= promise[p]
       /\ \A k \in sent' : k # l /\ k.val[1] = p => k.val[2] # l.val[2]
       /\ \A k \in sent : k.val[1] = p => k.val[2] < l.val[2]
  /\ \E b \in Promises :
       /\ b >= promise[p]
       /\ promise' = [promise EXCEPT ![p] = b]
  /\ UNCHANGED released

\* No label that is sent from now on is below t.
Final(t) == \A p \in Partitions : t <= promise[p]

\* k has to be released before l.
Before(k, l) ==
  \/ k.ts < l.ts
  \/ k.ts = l.ts /\ k.val[1] = l.val[1] /\ k.val[2] < l.val[2]

\* Some of the final labels are released together: with each of them all that
\* have to come before it, each once, and in an order that respects Before.
Release ==
  LET waiting == sent \ ToSet(released)
      first == Len(released) + 1
      new == {released'[i] : i \in first..Len(released')}
  IN
  /\ released' # released
  /\ released' \in Seq(Labels)
  /\ IsPrefix(released, released')
  /\ IsInjective(released')
  /\ new \subseteq {l \in waiting : Final(l.ts)}
  /\ \A l \in new, k \in waiting : Before(k, l) => k \in new
  /\ \A i, j \in first..Len(released') :
       Before(released'[i], released'[j]) => i < j
  /\ UNCHANGED <<sent, promise>>

Next == Release \/ \E p \in Partitions : Send(p)

Spec == Init /\ [][Next]_orderVars
=============================================================================
