------------------------- MODULE FrameDecoderProofs -------------------------
(***************************************************************************)
(* What is proved about module FrameDecoder for any messages, any number   *)
(* of clients and every way TCP may cut their streams, as long as no       *)
(* client ends its frames with CR LF.  DecoderInv is the inductive         *)
(* invariant.  First what a frame looks like, then what GetPayLoadLength   *)
(* and ProcessedSocketData make of it, then the steps.                     *)
(***************************************************************************)
EXTENDS FrameDecoder, SequenceTheorems, FiniteSetTheorems, TLAPS

-----------------------------------------------------------------------------
(* The n-th element of a finite set of numbers.                            *)

\* The one with n elements up to it.
LEMMA NthIs ==
  ASSUME NEW P \in SUBSET Nat, IsFiniteSet(P), NEW p \in P
  PROVE  Nth(P, Cardinality({q \in P : q <= p})) = p
<1> DEFINE UpTo(r) == {q \in P : q <= r}
<1>1. \A r \in P : UpTo(r) \in SUBSET P /\ IsFiniteSet(UpTo(r))
  BY FS_Subset
<1>2. ASSUME NEW r \in P, NEW s \in P, r < s
      PROVE  Cardinality(UpTo(r)) # Cardinality(UpTo(s))
  <2>0. s <= s /\ ~(s <= r) /\ \A q \in P : q <= r => q <= s
    BY <1>2
  <2>1. UpTo(r) \in SUBSET UpTo(s) /\ s \in UpTo(s) /\ s \notin UpTo(r)
    BY <2>0, Zenon
  <2>2. UpTo(s) # UpTo(r) /\ IsFiniteSet(UpTo(s))
    BY <2>1, <1>1
  <2> HIDE DEF UpTo
  <2>3. Cardinality(UpTo(s)) = Cardinality(UpTo(r)) => UpTo(s) = UpTo(r)
    BY <2>1, <2>2, FS_Subset
  <2> QED BY <2>2, <2>3
<1>3. \A r \in P : Cardinality(UpTo(r)) = Cardinality(UpTo(p)) => r = p
  <2> SUFFICES ASSUME NEW r \in P, Cardinality(UpTo(r)) = Cardinality(UpTo(p)),
                      r # p
               PROVE  FALSE
    OBVIOUS
  <2>1. r < p \/ p < r
    OBVIOUS
  <2> QED BY <2>1, <1>2
<1> QED BY <1>3 DEF Nth

\* An element above all others comes last, and moves none of them.
LEMMA NthGrows ==
  ASSUME NEW P \in SUBSET Nat, IsFiniteSet(P), NEW x \in Nat,
         \A p \in P : p < x
  PROVE  LET Q == P \cup {x} IN
         /\ IsFiniteSet(Q) /\ Cardinality(Q) = Cardinality(P) + 1
         /\ Cardinality({q \in Q : q <= x}) = Cardinality(P) + 1
         /\ Nth(Q, Cardinality(P) + 1) = x
         /\ \A p \in P : {q \in Q : q <= p} = {q \in P : q <= p}
<1> DEFINE Q == P \cup {x}
<1>1. x \notin P /\ Q \in SUBSET Nat /\ x \in Q
  OBVIOUS
<1>2. IsFiniteSet(Q) /\ Cardinality(Q) = Cardinality(P) + 1
  BY <1>1, FS_AddElement
<1>3. {q \in Q : q <= x} = Q
  <2>1. \A q \in Q : q <= x
    OBVIOUS
  <2> HIDE DEF Q
  <2> QED BY <2>1
<1>4. Nth(Q, Cardinality({q \in Q : q <= x})) = x
  BY <1>1, <1>2, NthIs
<1>5. \A p \in P : {q \in Q : q <= p} = {q \in P : q <= p}
  OBVIOUS
<1>6. /\ Cardinality({q \in Q : q <= x}) = Cardinality(P) + 1
      /\ Nth(Q, Cardinality(P) + 1) = x
  <2> HIDE DEF Q
  <2> QED BY <1>2, <1>3, <1>4
<1> QED BY <1>2, <1>5, <1>6, Zenon

\* Every other number from 5 on: where the labels are.
LEMMA LabelPlaces ==
  ASSUME NEW n \in Nat
  PROVE  LET S == {2 * j + 3 : j \in 1..n} IN
         /\ S \in SUBSET Nat /\ IsFiniteSet(S) /\ Cardinality(S) = n
         /\ \A i \in 1..n : Nth(S, i) = 2 * i + 3
<1> DEFINE S(k) == {2 * j + 3 : j \in 1..k}
<1>1. ASSUME NEW k \in Nat
      PROVE  S(k) \in SUBSET Nat /\ IsFiniteSet(S(k)) /\ Cardinality(S(k)) = k
  <2> DEFINE f == [j \in 1..k |-> 2 * j + 3]
  <2>1. f \in Bijection(1..k, S(k))
    BY DEF Bijection, Injection, Surjection, IsInjective
  <2>2. IsFiniteSet(1..k) /\ Cardinality(1..k) = k
    BY FS_Interval
  <2>3. ExistsBijection(1..k, S(k))
    BY <2>1 DEF ExistsBijection
  <2> HIDE DEF f
  <2>4. S(k) \in SUBSET Nat
    OBVIOUS
  <2> HIDE DEF S
  <2> QED BY <2>2, <2>3, <2>4, FS_Bijection
<1>2. ASSUME NEW i \in 1..n PROVE Nth(S(n), i) = 2 * i + 3
  <2>1. {q \in S(n) : q <= 2 * i + 3} = S(i)
    OBVIOUS
  <2>2. 2 * i + 3 \in S(n) /\ i \in Nat
    OBVIOUS
  <2> HIDE DEF S
  <2>3. Nth(S(n), Cardinality({q \in S(n) : q <= 2 * i + 3})) = 2 * i + 3
    BY <1>1, <2>2, NthIs
  <2> QED BY <1>1, <2>1, <2>2, <2>3
<1> QED BY <1>1, <1>2

-----------------------------------------------------------------------------
(* What a frame looks like.                                                *)

Message == [pid : Nat, hb : Nat, labels : Seq(Nat) \ {<<>>}]

\* The two fields as they stand in the payload.
First(m) == IF DocumentedOrder THEN m.hb ELSE m.pid
Second(m) == IF DocumentedOrder THEN m.pid ELSE m.hb

LEMMA MessageIs ==
  ASSUME NEW m \in Message
  PROVE  /\ First(m) \in Nat /\ Second(m) \in Nat
         /\ m.labels \in Seq(Nat) /\ Len(m.labels) \in Nat /\ Len(m.labels) >= 1
         /\ \A j \in 1..Len(m.labels) : m.labels[j] \in Nat
         /\ m.labels = [j \in 1..Len(m.labels) |-> m.labels[j]]
<1>1. m.labels \in Seq(Nat) /\ m.labels # <<>> /\ m.pid \in Nat /\ m.hb \in Nat
  BY DEF Message
<1>2. m.labels \in [1..Len(m.labels) -> Nat] /\ Len(m.labels) \in Nat
  BY <1>1, LenProperties
<1>3. Len(m.labels) # 0
  BY <1>1, EmptySeq
<1> QED BY <1>1, <1>2, <1>3 DEF First, Second

LEMMA PairIs == \A x, y : <<x, y>>[1] = x /\ <<x, y>>[2] = y
  OBVIOUS

LEMMA LabelsAre ==
  ASSUME NEW ls \in Seq(Nat), Len(ls) \in Nat, Len(ls) >= 1
  PROVE  /\ Labels(ls) \in Seq(Byte)
         /\ Len(Labels(ls)) = 2 * Len(ls) - 1
         /\ \A i \in 1..(2 * Len(ls) - 1) :
              \/ /\ Labels(ls)[i] = <<";", 0>>
                 /\ \A j \in Nat : i # 2 * j - 1
              \/ \E j \in 1..Len(ls) :
                   i = 2 * j - 1 /\ Labels(ls)[i] = <<"label", ls[j]>>
<1> DEFINE n == 2 * Len(ls) - 1
           e(i) == IF i % 2 = 1 THEN <<"label", ls[(i + 1) \div 2]>> ELSE <<";", 0>>
<1>1. n \in Nat
  OBVIOUS
<1>2. ASSUME NEW i \in 1..n
      PROVE  \/ e(i) = <<";", 0>> /\ \A j \in Nat : i # 2 * j - 1
             \/ \E j \in 1..Len(ls) : i = 2 * j - 1 /\ e(i) = <<"label", ls[j]>>
  <2>1. CASE i % 2 = 1
    <3> DEFINE j == (i + 1) \div 2
    <3>1. j \in 1..Len(ls) /\ i = 2 * j - 1
      BY <2>1
    <3>2. e(i) = <<"label", ls[j]>>
      BY <2>1
    <3> QED BY <3>1, <3>2
  <2>2. CASE i % 2 # 1
    <3>1. \A j \in Nat : i # 2 * j - 1
      BY <2>2
    <3> QED BY <3>1, <2>2
  <2> QED BY <2>1, <2>2
<1>3. ASSUME NEW i \in 1..n PROVE e(i) \in Byte
  <2>1. \A j \in 1..Len(ls) : ls[j] \in Nat
    BY ElementOfSeq
  <2>2. \A x \in Nat : <<"label", x>> \in Byte /\ <<";", x>> \in Byte
    BY DEF Byte
  <2> HIDE DEF e
  <2>3. CASE e(i) = <<";", 0>>
    BY <2>2, <2>3
  <2>4. CASE \E j \in 1..Len(ls) : i = 2 * j - 1 /\ e(i) = <<"label", ls[j]>>
    BY <2>1, <2>2, <2>4
  <2> QED BY <1>2, <2>3, <2>4
<1>4. Labels(ls) = [i \in 1..n |-> e(i)]
  BY DEF Labels
<1> HIDE DEF e, n
<1>5. Labels(ls) \in Seq(Byte) /\ Len(Labels(ls)) = n
  BY <1>1, <1>3, <1>4, IsASeq
<1>6. \A i \in 1..n : Labels(ls)[i] = e(i)
  BY <1>4
<1> QED BY <1>2, <1>5, <1>6 DEF n

LEMMA PayLoadIs ==
  ASSUME NEW m \in Message
  PROVE  /\ PayLoad(m) \in Seq(Byte)
         /\ Len(PayLoad(m)) = 2 * Len(m.labels) + 3
         /\ PayLoad(m)[1] = <<"field", First(m)>> /\ PayLoad(m)[2] = <<"|", 0>>
         /\ PayLoad(m)[3] = <<"field", Second(m)>> /\ PayLoad(m)[4] = <<"|", 0>>
         /\ \A i \in 5..(2 * Len(m.labels) + 3) :
              \/ /\ PayLoad(m)[i] = <<";", 0>>
                 /\ \A j \in Nat : i # 2 * j + 3
              \/ \E j \in 1..Len(m.labels) :
                   i = 2 * j + 3 /\ PayLoad(m)[i] = <<"label", m.labels[j]>>
<1> DEFINE head == << <<"field", First(m)>>, <<"|", 0>>,
                      <<"field", Second(m)>>, <<"|", 0>> >>
           ls == Labels(m.labels)
           n == Len(m.labels)
<1>1. PayLoad(m) = head \o ls
  BY DEF PayLoad, First, Second
<1>2. /\ head \in Seq(Byte) /\ Len(head) = 4
      /\ head[1] = <<"field", First(m)>> /\ head[2] = <<"|", 0>>
      /\ head[3] = <<"field", Second(m)>> /\ head[4] = <<"|", 0>>
  <2>1. <<"field", First(m)>> \in Byte /\ <<"field", Second(m)>> \in Byte
        /\ <<"|", 0>> \in Byte
    BY MessageIs DEF Byte
  <2> QED BY <2>1
<1>0. n \in Nat /\ n >= 1
  BY MessageIs
<1>3. /\ ls \in Seq(Byte) /\ Len(ls) = 2 * n - 1
      /\ \A i \in 1..(2 * n - 1) :
           \/ ls[i] = <<";", 0>> /\ \A j \in Nat : i # 2 * j - 1
           \/ \E j \in 1..n :
                i = 2 * j - 1 /\ ls[i] = <<"label", m.labels[j]>>
  BY MessageIs, LabelsAre
<1> HIDE DEF head, ls, n
<1>4. /\ head \o ls \in Seq(Byte)
      /\ Len(head \o ls) = 2 * n + 3
      /\ \A i \in 1..(2 * n + 3) :
           (head \o ls)[i] = IF i <= 4 THEN head[i] ELSE ls[i - 4]
  <2>1. /\ head \o ls \in Seq(Byte)
        /\ Len(head \o ls) = Len(head) + Len(ls)
        /\ \A i \in 1..(Len(head) + Len(ls)) :
             (head \o ls)[i] = IF i <= Len(head) THEN head[i] ELSE ls[i - Len(head)]
    BY <1>2, <1>3, ConcatProperties
  <2>2. Len(head) = 4 /\ Len(ls) = 2 * n - 1
    BY <1>2, <1>3
  <2>3. Len(head) + Len(ls) = 2 * n + 3
    BY <1>0, <2>2
  <2> QED BY <2>1, <2>2, <2>3
<1>5. \A i \in 1..4 : (head \o ls)[i] = head[i]
  <2>1. ASSUME NEW i \in 1..4 PROVE i \in 1..(2 * n + 3) /\ i <= 4
    BY <1>0
  <2> QED BY <2>1, <1>4
<1>6. ASSUME NEW i \in 5..(2 * n + 3)
      PROVE  \/ (head \o ls)[i] = <<";", 0>> /\ \A j \in Nat : i # 2 * j + 3
             \/ \E j \in 1..n :
                  i = 2 * j + 3 /\ (head \o ls)[i] = <<"label", m.labels[j]>>
  <2>0. i - 4 \in 1..(2 * n - 1) /\ i \in 1..(2 * n + 3) /\ ~(i <= 4)
    BY <1>0
  <2>1. i - 4 \in 1..(2 * n - 1) /\ (head \o ls)[i] = ls[i - 4]
    BY <2>0, <1>4
  <2>2. CASE ls[i - 4] = <<";", 0>> /\ \A j \in Nat : i - 4 # 2 * j - 1
    <3>0. \A j \in Nat : i - 4 # 2 * j - 1
      BY <2>2
    <3>1. \A j \in Nat : i # 2 * j + 3
      BY <1>0, <3>0
    <3> QED BY <2>1, <2>2, <3>1
  <2>3. CASE \E j \in 1..n : i - 4 = 2 * j - 1 /\ ls[i - 4] = <<"label", m.labels[j]>>
    <3>1. PICK j \in 1..n : i - 4 = 2 * j - 1 /\ ls[i - 4] = <<"label", m.labels[j]>>
      BY <2>3
    <3>0. i - 4 = 2 * j - 1
      BY <3>1
    <3>2. i = 2 * j + 3
      BY <3>0, <1>0
    <3> QED BY <2>1, <3>1, <3>2
  <2>4. \/ ls[i - 4] = <<";", 0>> /\ \A j \in Nat : i - 4 # 2 * j - 1
        \/ \E j \in 1..n :
             i - 4 = 2 * j - 1 /\ ls[i - 4] = <<"label", m.labels[j]>>
    BY <2>0, <1>3
  <2> QED BY <2>2, <2>3, <2>4
<1>7. /\ (head \o ls)[1] = head[1] /\ (head \o ls)[2] = head[2]
      /\ (head \o ls)[3] = head[3] /\ (head \o ls)[4] = head[4]
  <2>1. 1 \in 1..4 /\ 2 \in 1..4 /\ 3 \in 1..4 /\ 4 \in 1..4
    OBVIOUS
  <2> QED BY <2>1, <1>5, Zenon
<1> QED BY <1>1, <1>2, <1>4, <1>6, <1>7, Zenon DEF n

\* strtok finds the two fields, and the labels at every other place.
LEMMA TokensAre ==
  ASSUME NEW m \in Message
  PROVE  /\ Tokens(PayLoad(m), "field") = {1, 3}
         /\ Tokens(PayLoad(m), "label") = {2 * j + 3 : j \in 1..Len(m.labels)}
<1> DEFINE P == PayLoad(m)
           n == Len(m.labels)
<1>0. n \in Nat /\ n >= 1
  BY MessageIs
<1>1. /\ Len(P) = 2 * n + 3
      /\ P[1][1] = "field" /\ P[2][1] = "|" /\ P[3][1] = "field" /\ P[4][1] = "|"
      /\ \A i \in 5..(2 * n + 3) :
           \/ P[i][1] = ";" /\ \A j \in Nat : i # 2 * j + 3
           \/ P[i][1] = "label" /\ \E j \in 1..n : i = 2 * j + 3
  <2>1. ASSUME NEW i \in 5..(2 * n + 3)
        PROVE  \/ P[i][1] = ";" /\ \A j \in Nat : i # 2 * j + 3
               \/ P[i][1] = "label" /\ \E j \in 1..n : i = 2 * j + 3
    <3>1. \/ P[i] = <<";", 0>> /\ \A j \in Nat : i # 2 * j + 3
          \/ \E j \in 1..n : i = 2 * j + 3 /\ P[i] = <<"label", m.labels[j]>>
      BY PayLoadIs
    <3>2. /\ P[i] = <<";", 0>> => P[i][1] = ";"
          /\ \A j : P[i] = <<"label", m.labels[j]>> => P[i][1] = "label"
      BY PairIs, Zenon
    <3> HIDE DEF P, n
    <3> QED BY <3>1, <3>2, Zenon
  <2>2. /\ P[1] = <<"field", First(m)>> /\ P[2] = <<"|", 0>>
        /\ P[3] = <<"field", Second(m)>> /\ P[4] = <<"|", 0>>
        /\ Len(P) = 2 * n + 3
    BY PayLoadIs
  <2>3. /\ P[1][1] = "field" /\ P[2][1] = "|"
        /\ P[3][1] = "field" /\ P[4][1] = "|"
    BY <2>2, PairIs, Zenon
  <2> HIDE DEF P, n
  <2> QED BY <2>1, <2>2, <2>3, Zenon
<1> HIDE DEF P, n
<1>2. \A i \in 1..(2 * n + 3) : i \in {1, 2, 3, 4} \/ i \in 5..(2 * n + 3)
  BY <1>0
<1>3. ASSUME NEW i \in 1..(2 * n + 3) PROVE P[i][1] = "field" <=> i \in {1, 3}
  BY <1>1, <1>2
<1>4. ASSUME NEW i \in 1..(2 * n + 3)
      PROVE  P[i][1] = "label" <=> \E j \in 1..n : i = 2 * j + 3
  <2>1. CASE i \in {1, 2, 3, 4}
    <3>1. \A j \in 1..n : i # 2 * j + 3
      BY <2>1
    <3> QED BY <1>1, <2>1, <3>1
  <2>2. CASE i \in 5..(2 * n + 3)
    <3>1. \A j \in 1..n : j \in Nat
      OBVIOUS
    <3> QED BY <1>1, <2>2, <3>1
  <2> QED BY <1>2, <2>1, <2>2
<1>5. \A j \in 1..n : 2 * j + 3 \in 1..(2 * n + 3)
  BY <1>0
<1>6. 1 \in 1..(2 * n + 3) /\ 3 \in 1..(2 * n + 3)
  BY <1>0
<1>7. Tokens(P, "field") = {1, 3}
  BY <1>1, <1>3, <1>6 DEF Tokens
<1>8. Tokens(P, "label") = {2 * j + 3 : j \in 1..n}
  <2>1. Tokens(P, "label") = {i \in 1..(2 * n + 3) : P[i][1] = "label"}
    BY <1>1, Zenon DEF Tokens
  <2>2. ASSUME NEW i \in 1..(2 * n + 3), P[i][1] = "label"
        PROVE  \E j \in 1..n : i = 2 * j + 3
    BY <1>4, <2>2, Zenon
  <2>3. ASSUME NEW j \in 1..n
        PROVE  2 * j + 3 \in 1..(2 * n + 3) /\ P[2 * j + 3][1] = "label"
    BY <1>4, <1>5, Zenon
  <2> QED BY <2>1, <2>2, <2>3, Zenon
<1> QED BY <1>7, <1>8 DEF P, n

\* A payload is read back as it was written, but for the order of the fields.
LEMMA PayLoadIsRead ==
  ASSUME NEW m \in Message
  PROVE  ProcessedSocketData(PayLoad(m)) = ReadAs(m)
<1> DEFINE P == PayLoad(m)
           n == Len(m.labels)
           F == {1, 3}
           L == {2 * j + 3 : j \in 1..n}
<1>1. Tokens(P, "field") = F /\ Tokens(P, "label") = L
  BY TokensAre
<1>2. Nth(F, 1) = 1 /\ Nth(F, 2) = 3
  <2>1. F \in SUBSET Nat /\ IsFiniteSet(F) /\ Cardinality(F) = 2
    <3>1. IsFiniteSet({1}) /\ Cardinality({1}) = 1
      BY FS_Singleton
    <3>2. IsFiniteSet({1} \cup {3}) /\ Cardinality({1} \cup {3}) = 2
      BY <3>1, FS_AddElement
    <3>3. F = {1} \cup {3}
      OBVIOUS
    <3> QED BY <3>2, <3>3
  <2>2. {q \in F : q <= 1} = {1} /\ {q \in F : q <= 3} = F
    OBVIOUS
  <2>3. 1 \in F /\ 3 \in F /\ Cardinality({1}) = 1
    BY FS_Singleton
  <2> HIDE DEF F
  <2>4. /\ Nth(F, Cardinality({q \in F : q <= 1})) = 1
        /\ Nth(F, Cardinality({q \in F : q <= 3})) = 3
    BY <2>1, <2>3, NthIs
  <2> QED BY <2>1, <2>2, <2>3, <2>4
<1>3. Cardinality(L) = n /\ \A i \in 1..n : Nth(L, i) = 2 * i + 3
  BY MessageIs, LabelPlaces
<1>4. /\ P[1][2] = First(m) /\ P[3][2] = Second(m)
      /\ \A i \in 1..n : P[2 * i + 3][2] = m.labels[i]
  <2>1. n \in Nat /\ P[1] = <<"field", First(m)>> /\ P[3] = <<"field", Second(m)>>
    BY MessageIs, PayLoadIs
  <2>2. ASSUME NEW i \in 1..n PROVE P[2 * i + 3] = <<"label", m.labels[i]>>
    <3>1. 2 * i + 3 \in 5..(2 * n + 3) /\ i \in Nat
      BY <2>1
    <3>2. PICK j \in 1..n :
            2 * i + 3 = 2 * j + 3 /\ P[2 * i + 3] = <<"label", m.labels[j]>>
      BY <3>1, PayLoadIs
    <3>3. j = i
      BY <3>2
    <3> QED BY <3>2, <3>3
  <2> HIDE DEF P, n
  <2> QED BY <2>1, <2>2
<1>5. m.labels = [i \in 1..n |-> m.labels[i]]
  BY MessageIs
<1> HIDE DEF P, F, L, n
<1>6. ProcessedSocketData(P)
        = [pid |-> First(m), hb |-> Second(m), labels |-> [i \in 1..n |-> m.labels[i]]]
  BY <1>1, <1>2, <1>3, <1>4 DEF ProcessedSocketData
<1> QED BY <1>5, <1>6 DEF ReadAs, First, Second, P

LEMMA ByteIs ==
  \A x \in Nat : \A kind \in {"L", "=", "digit", "|", "field", "label", ";", "#"} :
    <<kind, x>> \in Byte
BY DEF Byte

LEMMA OneByte ==
  ASSUME NEW b \in Byte
  PROVE  <<b>> \in Seq(Byte) /\ Len(<<b>>) = 1 /\ <<b>>[1] = b
<1> HIDE DEF Byte
<1> QED OBVIOUS

LEMMA TwoBytes ==
  ASSUME NEW b \in Byte, NEW d \in Byte
  PROVE  /\ <<b, d>> \in Seq(Byte) /\ Len(<<b, d>>) = 2
         /\ <<b, d>>[1] = b /\ <<b, d>>[2] = d
<1> HIDE DEF Byte
<1> QED OBVIOUS

\* ab is the k bytes of a and then the n bytes of b.
IsJoin(ab, a, k, b, n) ==
  /\ ab \in Seq(Byte) /\ Len(ab) = k + n
  /\ \A i \in 1..k : ab[i] = a[i]
  /\ \A i \in 1..n : ab[k + i] = b[i]
  /\ \A i \in 1..(k + n) : i \in 1..k \/ \E j \in 1..n : i = k + j

LEMMA Joined ==
  \A a, b \in Seq(Byte) : \A k, n \in Nat :
    Len(a) = k /\ Len(b) = n => IsJoin(a \o b, a, k, b, n)
<1> SUFFICES ASSUME NEW a \in Seq(Byte), NEW b \in Seq(Byte),
                    NEW k \in Nat, NEW n \in Nat, Len(a) = k, Len(b) = n
             PROVE  IsJoin(a \o b, a, k, b, n)
  OBVIOUS
<1>1. /\ a \o b \in Seq(Byte) /\ Len(a \o b) = k + n
      /\ \A i \in 1..(k + n) : (a \o b)[i] = IF i <= k THEN a[i] ELSE b[i - k]
  BY ConcatProperties
<1>2. ASSUME NEW i \in 1..k PROVE (a \o b)[i] = a[i]
  <2>1. i \in 1..(k + n) /\ i <= k
    OBVIOUS
  <2> QED BY <1>1, <2>1
<1>3. ASSUME NEW i \in 1..n PROVE (a \o b)[k + i] = b[i]
  <2>1. k + i \in 1..(k + n) /\ ~(k + i <= k) /\ (k + i) - k = i
    OBVIOUS
  <2> QED BY <1>1, <2>1
<1>4. ASSUME NEW i \in 1..(k + n), i \notin 1..k PROVE \E j \in 1..n : i = k + j
  <2>1. i - k \in 1..n /\ i = k + (i - k)
    BY <1>4
  <2> QED BY <2>1
<1> QED BY <1>1, <1>2, <1>3, <1>4 DEF IsJoin

\* L=dddddddd|
Header(size) ==
  << <<"L", 0>>, <<"=", 0>> >> \o [i \in 1..PAYLOAD_SIZE |-> <<"digit", size>>]
    \o << <<"|", 0>> >>

LEMMA HeaderIs ==
  ASSUME NEW size \in Nat
  PROVE  /\ Header(size) \in Seq(Byte) /\ Len(Header(size)) = 11
         /\ Header(size)[1] = <<"L", 0>> /\ Header(size)[2] = <<"=", 0>>
         /\ \A i \in 3..10 : Header(size)[i] = <<"digit", size>>
         /\ Header(size)[11] = <<"|", 0>>
<1> DEFINE A == << <<"L", 0>>, <<"=", 0>> >>
           B == [i \in 1..8 |-> <<"digit", size>>]
           C == << <<"|", 0>> >>
<1>1. A \in Seq(Byte) /\ Len(A) = 2 /\ A[1] = <<"L", 0>> /\ A[2] = <<"=", 0>>
  <2>1. <<"L", 0>> \in Byte /\ <<"=", 0>> \in Byte
    BY ByteIs
  <2> QED BY <2>1, TwoBytes, Zenon
<1>2. B \in Seq(Byte) /\ Len(B) = 8 /\ \A i \in 1..8 : B[i] = <<"digit", size>>
  <2>1. <<"digit", size>> \in Byte
    BY ByteIs
  <2> QED BY <2>1, IsASeq
<1>3. C \in Seq(Byte) /\ Len(C) = 1 /\ C[1] = <<"|", 0>>
  <2>1. <<"|", 0>> \in Byte
    BY ByteIs
  <2> QED BY <2>1, OneByte, Zenon
<1>4. Header(size) = A \o B \o C
  BY DEF Header, PAYLOAD_SIZE
<1> HIDE DEF A, B, C
<1> DEFINE D == A \o B
<1>5. /\ D \in Seq(Byte) /\ Len(D) = 10
      /\ \A i \in 1..2 : D[i] = A[i]
      /\ \A i \in 1..8 : D[2 + i] = B[i]
  <2>1. 2 \in Nat /\ 8 \in Nat
    OBVIOUS
  <2>2. IsJoin(A \o B, A, 2, B, 8)
    BY <1>1, <1>2, <2>1, Joined, Zenon
  <2> HIDE DEF D
  <2>3. IsJoin(D, A, 2, B, 8)
    BY <2>2 DEF D
  <2> QED BY <2>3 DEF IsJoin
<1> HIDE DEF D
<1>6. /\ D \o C \in Seq(Byte) /\ Len(D \o C) = 11
      /\ \A i \in 1..10 : (D \o C)[i] = D[i]
      /\ \A i \in 1..1 : (D \o C)[10 + i] = C[i]
  <2>1. 10 \in Nat /\ 1 \in Nat
    OBVIOUS
  <2>2. IsJoin(D \o C, D, 10, C, 1)
    BY <1>3, <1>5, <2>1, Joined, Zenon
  <2> DEFINE E == D \o C
  <2> HIDE DEF E
  <2>3. IsJoin(E, D, 10, C, 1)
    BY <2>2 DEF E
  <2>4. /\ E \in Seq(Byte) /\ Len(E) = 11
        /\ \A i \in 1..10 : E[i] = D[i]
        /\ \A i \in 1..1 : E[10 + i] = C[i]
    BY <2>3 DEF IsJoin
  <2> QED BY <2>4 DEF E
<1>7. ASSUME NEW i \in 3..10 PROVE (D \o C)[i] = <<"digit", size>>
  <2>1. i - 2 \in 1..8 /\ i = 2 + (i - 2) /\ i \in 1..10
    OBVIOUS
  <2>2. D[i] = B[i - 2]
    BY <2>1, <1>5
  <2> QED BY <2>1, <2>2, <1>2, <1>6, Zenon
<1>8. (D \o C)[1] = D[1] /\ (D \o C)[2] = D[2] /\ D[1] = A[1] /\ D[2] = A[2]
  <2>1. 1 \in 1..10 /\ 2 \in 1..10 /\ 1 \in 1..2 /\ 2 \in 1..2
    OBVIOUS
  <2> QED BY <2>1, <1>5, <1>6, Zenon
<1>9. (D \o C)[11] = C[1]
  <2>1. 1 \in 1..1 /\ 10 + 1 = 11
    OBVIOUS
  <2> QED BY <2>1, <1>6
<1>10. Header(size) = D \o C
  BY <1>4 DEF D
<1> QED BY <1>1, <1>3, <1>6, <1>7, <1>8, <1>9, <1>10, Zenon

\* Only the last byte of a frame is an end mark.
LEMMA FrameIs ==
  ASSUME NEW m \in Message, ~Telnet
  PROVE  /\ Len(PayLoad(m)) \in Nat
         /\ Frame(m) \in Seq(Byte) /\ Len(Frame(m)) = Len(PayLoad(m)) + 12
         /\ \A i \in 1..11 : Frame(m)[i] = Header(Len(Frame(m)))[i]
         /\ \A i \in 1..Len(PayLoad(m)) : Frame(m)[11 + i] = PayLoad(m)[i]
         /\ Frame(m)[Len(Frame(m))] = <<"#", 0>>
         /\ \A i \in 1..(Len(Frame(m)) - 1) : Frame(m)[i] # <<"#", 0>>
         /\ \A i \in 1..Len(Frame(m)) : Frame(m)[i][1] # "CR"
<1> DEFINE P == PayLoad(m)
           np == Len(P)
           size == np + 12
           H == Header(size)
           D == << <<"#", 0>> >>
<1>1. P \in Seq(Byte) /\ np \in Nat
  BY PayLoadIs, LenProperties
<1>3. size \in Nat
  BY <1>1
<1>4. H \in Seq(Byte) /\ Len(H) = 11
  <2> HIDE DEF size
  <2> QED BY <1>3, HeaderIs
<1>5. D \in Seq(Byte) /\ Len(D) = 1 /\ D[1] = <<"#", 0>>
  <2>1. <<"#", 0>> \in Byte
    BY ByteIs
  <2> QED BY <2>1, OneByte, Zenon
<1>6. \A i \in 1..11 : H[i][1] # "#" /\ H[i][1] # "CR"
  <2>1. /\ H[1] = <<"L", 0>> /\ H[2] = <<"=", 0>> /\ H[11] = <<"|", 0>>
        /\ \A i \in 3..10 : H[i] = <<"digit", size>>
    <3> HIDE DEF size
    <3> QED BY <1>3, HeaderIs
  <2> HIDE DEF H, size
  <2>2. /\ H[1][1] = "L" /\ H[2][1] = "=" /\ H[11][1] = "|"
        /\ \A i \in 3..10 : H[i][1] = "digit"
    BY <2>1, PairIs, Zenon
  <2>3. \A i \in 1..11 : i = 1 \/ i = 2 \/ i = 11 \/ i \in 3..10
    OBVIOUS
  <2> QED BY <2>2, <2>3
<1>7. \A i \in 1..np : P[i][1] # "#" /\ P[i][1] # "CR"
  <2> SUFFICES ASSUME NEW i \in 1..np PROVE P[i][1] # "#" /\ P[i][1] # "CR"
    OBVIOUS
  <2>1. Len(m.labels) \in Nat /\ np = 2 * Len(m.labels) + 3
    BY MessageIs, PayLoadIs
  <2>2. i \in {1, 2, 3, 4} \/ i \in 5..(2 * Len(m.labels) + 3)
    <3> HIDE DEF np
    <3> QED BY <2>1
  <2>3. CASE i \in {1, 2, 3, 4}
    <3>1. P[i] = <<"field", First(m)>> \/ P[i] = <<"|", 0>>
          \/ P[i] = <<"field", Second(m)>>
      BY <2>3, PayLoadIs
    <3> HIDE DEF P
    <3>2. P[i][1] = "field" \/ P[i][1] = "|"
      BY <3>1, PairIs, Zenon
    <3> QED BY <3>2
  <2>4. CASE i \in 5..(2 * Len(m.labels) + 3)
    <3>1. P[i] = <<";", 0>> \/ \E j : P[i] = <<"label", m.labels[j]>>
      BY <2>4, PayLoadIs
    <3> HIDE DEF P
    <3>2. P[i][1] = ";" \/ P[i][1] = "label"
      BY <3>1, PairIs, Zenon
    <3> QED BY <3>2
  <2> QED BY <2>2, <2>3, <2>4
<1> DEFINE HP == H \o P
<1>8. /\ HP \in Seq(Byte) /\ Len(HP) = 11 + np
      /\ \A i \in 1..11 : HP[i] = H[i]
      /\ \A i \in 1..np : HP[11 + i] = P[i]
      /\ \A i \in 1..(11 + np) : i \in 1..11 \/ \E j \in 1..np : i = 11 + j
  <2>1. Len(P) = np
    OBVIOUS
  <2> HIDE DEF P, np, size, H
  <2>2. IsJoin(H \o P, H, 11, P, np)
    <3>1. 11 \in Nat
      OBVIOUS
    <3> QED BY <2>1, <3>1, <1>1, <1>4, Joined, Zenon
  <2> QED BY <2>2, Zenon DEF IsJoin
<1> DEFINE F == HP \o D
<1>9. /\ F \in Seq(Byte) /\ Len(F) = 11 + np + 1
      /\ \A i \in 1..(11 + np) : F[i] = HP[i]
      /\ \A i \in 1..1 : F[11 + np + i] = D[i]
      /\ \A i \in 1..(11 + np + 1) :
           i \in 1..(11 + np) \/ \E j \in 1..1 : i = 11 + np + j
  <2> HIDE DEF P, np, size, H, HP, D
  <2>1. 11 + np \in Nat /\ 1 \in Nat
    BY <1>1
  <2> DEFINE k == 11 + np
  <2>2. HP \in Seq(Byte) /\ Len(HP) = k /\ k \in Nat
    BY <1>8, <2>1
  <2> HIDE DEF k
  <2>3. /\ F \in Seq(Byte) /\ Len(F) = k + 1
        /\ \A i \in 1..k : F[i] = HP[i]
        /\ \A i \in 1..1 : F[k + i] = D[i]
        /\ \A i \in 1..(k + 1) : i \in 1..k \/ \E j \in 1..1 : i = k + j
    <3>1. IsJoin(HP \o D, HP, k, D, 1)
      BY <2>1, <2>2, <1>5, Joined, Zenon
    <3> QED BY <3>1, Zenon DEF IsJoin
  <2> QED BY <2>3 DEF k
<1>10. Frame(m) = F
  <2>1. Frame(m) = F \o <<>>
    <3>1. HeaderSize + np + 1 = size
      BY <1>1 DEF HeaderSize, PAYLOAD_SIZE
    <3> QED BY <3>1 DEF Frame, Header
  <2> HIDE DEF F
  <2> QED BY <2>1, <1>9, ConcatEmptySeq
<1> HIDE DEF P, np, H, D, HP, F
<1>11. /\ \A i \in 1..11 : i \in 1..(11 + np)
       /\ \A i \in 1..np : 11 + i \in 1..(11 + np)
       /\ \A i \in 1..size : i \in 1..(size - 1) \/ i = size
       /\ size - 1 = 11 + np /\ size = 11 + np + 1 /\ 1 \in 1..1
  BY <1>1
<1> HIDE DEF size
<1>12. \A i \in 1..(11 + np) : F[i][1] # "#" /\ F[i][1] # "CR"
  <2>1. ASSUME NEW i \in 1..(11 + np) PROVE HP[i][1] # "#" /\ HP[i][1] # "CR"
    <3>1. CASE i \in 1..11
      BY <3>1, <1>6, <1>8, Zenon
    <3>2. ASSUME NEW j \in 1..np, i = 11 + j PROVE HP[i][1] # "#" /\ HP[i][1] # "CR"
      <4>1. HP[i] = P[j]
        BY <3>2, <1>8, Zenon
      <4> QED BY <4>1, <1>7, Zenon
    <3> QED BY <3>1, <3>2, <1>8, Zenon
  <2> QED BY <2>1, <1>9, Zenon
<1>13. F[size] = <<"#", 0>>
  BY <1>5, <1>9, <1>11
<1>14. \A i \in 1..size : F[i][1] # "CR"
  <2>1. F[size][1] # "CR"
    BY <1>13, PairIs
  <2> QED BY <2>1, <1>11, <1>12, Zenon
<1>15. \A i \in 1..(size - 1) : F[i] # <<"#", 0>>
  <2>1. \A x : x[1] # "#" => x # <<"#", 0>>
    BY PairIs, Zenon
  <2> QED BY <2>1, <1>11, <1>12, Zenon
<1>16. \A i \in 1..11 : F[i] = H[i]
  BY <1>8, <1>9, <1>11, Zenon
<1>17. \A i \in 1..np : F[11 + i] = P[i]
  BY <1>8, <1>9, <1>11, Zenon
<1>18. Len(F) = size /\ size = np + 12
  BY <1>1, <1>9, <1>11 DEF size
<1>19. F \in Seq(Byte)
  BY <1>9
<1> QED BY <1>1, <1>10, <1>13, <1>14, <1>15, <1>16, <1>17, <1>18, <1>19, Zenon
        DEF P, np, H

-----------------------------------------------------------------------------
(* What Decode makes of a buffer.                                          *)

\* A piece of a sequence of bytes.
LEMMA Piece ==
  ASSUME NEW s \in Seq(Byte), NEW a \in Nat, NEW b \in Nat, a <= b, b <= Len(s)
  PROVE  /\ SubSeq(s, a + 1, b) \in Seq(Byte)
         /\ Len(SubSeq(s, a + 1, b)) = b - a
         /\ \A i \in 1..(b - a) : SubSeq(s, a + 1, b)[i] = s[a + i]
<1>1. Len(s) \in Nat /\ \A i \in 1..Len(s) : s[i] \in Byte
  BY LenProperties, ElementOfSeq
<1> DEFINE m == a + 1
<1>2. m \in Int /\ b \in Int /\ \A i \in m..b : i \in 1..Len(s)
  BY <1>1
<1> HIDE DEF m
<1>3. /\ SubSeq(s, m, b) \in Seq(Byte)
      /\ Len(SubSeq(s, m, b)) = IF m <= b THEN b - m + 1 ELSE 0
      /\ \A i \in 1..(b - m + 1) : SubSeq(s, m, b)[i] = s[m + i - 1]
  <2>1. \A i \in m..b : s[i] \in Byte
    BY <1>1, <1>2, Zenon
  <2> QED BY <1>2, <2>1, SubSeqProperties
<1>4. b - m + 1 = b - a /\ (m <= b \/ b - a = 0)
  BY DEF m
<1>5. \A i \in 1..(b - a) : m + i - 1 = a + i
  BY DEF m
<1>6. Len(SubSeq(s, m, b)) = b - a
  <2>1. CASE m <= b
    BY <2>1, <1>3, <1>4
  <2>2. CASE ~(m <= b)
    BY <2>2, <1>3, <1>4
  <2> QED BY <2>1, <2>2
<1> QED BY <1>3, <1>4, <1>5, <1>6, Zenon DEF m

\* A buffer that holds the beginning of the frame of m, or more than that.
Begins(b, m) ==
  /\ b \in Seq(Byte)
  /\ \A i \in 1..Len(b) : i <= Len(Frame(m)) => b[i] = Frame(m)[i]

LEMMA EmptyBuffer == GetPayLoadLength(<<>>) = 0 /\ ~WholeFrame(<<>>)
BY DEF GetPayLoadLength, WholeFrame

\* The length of the frame can be read as soon as its header is there.
LEMMA LengthIsRead ==
  ASSUME NEW m \in Message, ~Telnet, NEW b, Begins(b, m)
  PROVE  GetPayLoadLength(b) = IF Len(b) >= 11 THEN Len(Frame(m)) ELSE 0
<1> DEFINE F == Frame(m)
           size == Len(F)
<1>1. size \in Nat /\ size >= 12 /\ Len(b) \in Nat
  <2>1. Len(PayLoad(m)) \in Nat /\ size = Len(PayLoad(m)) + 12
    BY FrameIs
  <2> QED BY <2>1, LenProperties DEF Begins
<1>2. \A i \in 1..11 : i <= Len(b) => b[i] = Header(size)[i]
  <2> SUFFICES ASSUME NEW i \in 1..11, i <= Len(b) PROVE b[i] = Header(size)[i]
    OBVIOUS
  <2>1. F[i] = Header(size)[i]
    BY FrameIs
  <2> HIDE DEF F, size
  <2>2. i \in 1..Len(b) /\ i <= size
    BY <1>1
  <2> QED BY <2>1, <2>2 DEF Begins, F, size
<1> HIDE DEF F, size
<1>3. /\ Header(size)[1] = <<"L", 0>> /\ Header(size)[2] = <<"=", 0>>
      /\ \A i \in 3..10 : Header(size)[i] = <<"digit", size>>
      /\ Header(size)[11] = <<"|", 0>>
  BY <1>1, HeaderIs
<1>4. CASE Len(b) >= 11
  <2>1. \A i \in 1..11 : b[i] = Header(size)[i]
    BY <1>1, <1>2, <1>4
  <2>2. 1 \in 1..11 /\ 3 \in 1..11 /\ 11 \in 1..11 /\ 3 \in 3..10
    OBVIOUS
  <2>3. b[1] = <<"L", 0>> /\ b[3] = <<"digit", size>> /\ b[11] = <<"|", 0>>
    BY <1>3, <2>1, <2>2, Zenon
  <2>4. b[3][2] = size
    <3>1. b[3] = <<"digit", size>>
      BY <2>3
    <3>2. <<"digit", size>>[2] = size
      BY PairIs, Zenon
    <3> QED BY <3>1, <3>2, Zenon
  <2>5. b # <<>> /\ 11 \in 2..Len(b)
    BY <1>1, <1>4
  <2>6. GetPayLoadLength(b) = size
    BY <2>3, <2>4, <2>5, Zenon DEF GetPayLoadLength
  <2> QED BY <2>6, <1>4 DEF size, F
<1>5. CASE Len(b) < 11
  <2>1. ASSUME NEW i \in 2..Len(b) PROVE b[i] # <<"|", 0>>
    <3>1. i \in 1..11 /\ i <= Len(b) /\ (i = 2 \/ i \in 3..10)
      BY <1>1, <1>5
    <3>2. b[i] = <<"=", 0>> \/ b[i] = <<"digit", size>>
      BY <1>2, <1>3, <3>1, Zenon
    <3>3. <<"=", 0>>[1] = "=" /\ <<"digit", size>>[1] = "digit" /\ <<"|", 0>>[1] = "|"
      BY PairIs, Zenon
    <3>4. b[i][1] = "=" \/ b[i][1] = "digit"
      BY <3>2, <3>3, Zenon
    <3>5. b[i] = <<"|", 0>> => b[i][1] = "|"
      BY <3>3, Zenon
    <3> QED BY <3>4, <3>5
  <2>2. GetPayLoadLength(b) = 0
    BY <2>1, Zenon DEF GetPayLoadLength
  <2>3. ~(Len(b) >= 11)
    BY <1>1, <1>5
  <2> QED BY <2>2, <2>3
<1>6. Len(b) >= 11 \/ Len(b) < 11
  BY <1>1
<1> QED BY <1>4, <1>5, <1>6

\* Decode's loop goes on exactly if the whole frame is there.
LEMMA WholeFrameIsThere ==
  ASSUME NEW m \in Message, ~Telnet, NEW b, Begins(b, m)
  PROVE  WholeFrame(b) <=> Len(b) >= Len(Frame(m))
<1> DEFINE size == Len(Frame(m))
<1>1. size \in Nat /\ size >= 12 /\ Len(b) \in Nat
  <2>1. Len(PayLoad(m)) \in Nat /\ size = Len(PayLoad(m)) + 12
    BY FrameIs
  <2> QED BY <2>1, LenProperties DEF Begins
<1>2. GetPayLoadLength(b) = IF Len(b) >= 11 THEN size ELSE 0
  BY LengthIsRead
<1>3. Frame(m)[size] = <<"#", 0>>
  BY FrameIs
<1>4. Len(b) >= size => b[size] = <<"#", 0>>
  <2> HAVE Len(b) >= size
  <2>1. size \in 1..Len(b) /\ size <= size
    <3> HIDE DEF size
    <3> QED BY <1>1
  <2> QED BY <1>3, <2>1 DEF Begins
<1> HIDE DEF size
<1>5. CASE Len(b) >= size
  <2>1. GetPayLoadLength(b) = size
    BY <1>1, <1>2, <1>5
  <2> QED BY <1>1, <1>4, <1>5, <2>1 DEF WholeFrame, size
<1>6. CASE ~(Len(b) >= size)
  <2>1. ~WholeFrame(b)
    <3>1. CASE Len(b) >= 11
      BY <1>1, <1>2, <1>6, <3>1 DEF WholeFrame
    <3>2. CASE ~(Len(b) >= 11)
      BY <1>1, <1>2, <3>2 DEF WholeFrame
    <3> QED BY <3>1, <3>2
  <2> QED BY <2>1, <1>6 DEF size
<1> QED BY <1>5, <1>6

\* Cutting off the start leaves the rest.
LEMMA Cut ==
  ASSUME NEW b \in Seq(Byte), NEW k \in Nat, k <= Len(b)
  PROVE  /\ DeleteFromStart(b, k) \in Seq(Byte)
         /\ Len(DeleteFromStart(b, k)) = Len(b) - k
         /\ \A i \in 1..(Len(b) - k) : DeleteFromStart(b, k)[i] = b[k + i]
<1>1. Len(b) \in Nat /\ Len(b) <= Len(b)
  BY LenProperties
<1> QED BY <1>1, Piece DEF DeleteFromStart

\* A round of the loop: the message of the frame, and what follows it.
LEMMA RoundDecodes ==
  ASSUME NEW m \in Message, ~Telnet, NEW b, Begins(b, m),
         Len(b) >= Len(Frame(m))
  PROVE  LET len == GetPayLoadLength(b)
             data == DeleteFromStart(b, HeaderSize)
             payload == len - HeaderSize
         IN  /\ ProcessedSocketData(SubSeq(data, 1, payload - 1)) = ReadAs(m)
             /\ DeleteFromStart(data, payload) \in Seq(Byte)
             /\ Len(DeleteFromStart(data, payload)) = Len(b) - Len(Frame(m))
             /\ \A i \in 1..(Len(b) - Len(Frame(m))) :
                  DeleteFromStart(data, payload)[i] = b[Len(Frame(m)) + i]
<1> DEFINE P == PayLoad(m)
           np == Len(P)
           size == Len(Frame(m))
           data == DeleteFromStart(b, 11)
           n == Len(b)
           rest == DeleteFromStart(data, np + 1)
<1>1. np \in Nat /\ size = np + 12 /\ n \in Nat /\ b \in Seq(Byte) /\ n >= size
  BY FrameIs, LenProperties DEF Begins
<1>2. \A i \in 1..np : b[11 + i] = P[i]
  <2> SUFFICES ASSUME NEW i \in 1..np PROVE b[11 + i] = P[i]
    OBVIOUS
  <2>1. Frame(m)[11 + i] = P[i]
    BY FrameIs
  <2>2. 11 + i \in 1..n /\ 11 + i <= size
    <3> HIDE DEF np, n, size
    <3> QED BY <1>1
  <2> QED BY <2>1, <2>2 DEF Begins
<1>3. GetPayLoadLength(b) = np + 12 /\ HeaderSize = 11
  <2>1. GetPayLoadLength(b) = IF n >= 11 THEN size ELSE 0
    BY LengthIsRead
  <2> HIDE DEF np, n, size
  <2> QED BY <1>1, <2>1 DEF HeaderSize, PAYLOAD_SIZE
<1>4. P \in Seq(Byte)
  BY PayLoadIs
<1> HIDE DEF P, np, size, n
<1>5. /\ data \in Seq(Byte) /\ Len(data) = n - 11
      /\ \A i \in 1..(n - 11) : data[i] = b[11 + i]
  <2>1. 11 \in Nat /\ 11 <= n
    BY <1>1
  <2> QED BY <1>1, <2>1, Cut DEF n
<1> HIDE DEF data
<1>6. SubSeq(data, 1, np) = P
  <2> DEFINE q == SubSeq(data, 1, np)
  <2>1. /\ q \in Seq(Byte) /\ Len(q) = np /\ \A i \in 1..np : q[i] = data[i]
    <3>1. np <= Len(data) /\ 0 \in Nat /\ 0 <= np
      BY <1>1, <1>5
    <3>2. /\ SubSeq(data, 0 + 1, np) \in Seq(Byte)
          /\ Len(SubSeq(data, 0 + 1, np)) = np - 0
          /\ \A i \in 1..(np - 0) : SubSeq(data, 0 + 1, np)[i] = data[0 + i]
      BY <3>1, <1>1, <1>5, Piece
    <3>3. 0 + 1 = 1 /\ np - 0 = np /\ \A i \in 1..np : 0 + i = i
      BY <1>1
    <3> QED BY <3>2, <3>3
  <2> HIDE DEF q
  <2>2. \A i \in 1..np : i \in 1..(n - 11)
    BY <1>1
  <2>3. \A i \in 1..np : q[i] = P[i]
    BY <1>2, <1>5, <2>1, <2>2, Zenon
  <2>4. q = P
    BY <2>1, <2>3, <1>4, SeqEqual DEF np
  <2> QED BY <2>4 DEF q
<1>7. /\ rest \in Seq(Byte) /\ Len(rest) = n - size
      /\ \A i \in 1..(n - size) : rest[i] = b[size + i]
  <2> DEFINE k == np + 1
  <2>1. k \in Nat /\ k <= Len(data)
    BY <1>1, <1>5
  <2>2. Len(data) - k = n - size
    BY <1>1, <1>5
  <2> HIDE DEF k
  <2>3. /\ DeleteFromStart(data, k) \in Seq(Byte)
        /\ Len(DeleteFromStart(data, k)) = Len(data) - k
        /\ \A i \in 1..(Len(data) - k) : DeleteFromStart(data, k)[i] = data[k + i]
    BY <1>5, <2>1, Cut
  <2>4. ASSUME NEW i \in 1..(n - size)
        PROVE  k + i \in 1..(n - 11) /\ 11 + (k + i) = size + i
    BY <1>1 DEF k
  <2>5. rest = DeleteFromStart(data, k)
    BY DEF k
  <2> HIDE DEF rest
  <2>6. ASSUME NEW i \in 1..(n - size) PROVE rest[i] = b[size + i]
    <3>1. rest[i] = data[k + i]
      BY <2>2, <2>3, <2>5
    <3>2. data[k + i] = b[11 + (k + i)]
      BY <1>5, <2>4
    <3> QED BY <3>1, <3>2, <2>4
  <2> QED BY <2>2, <2>3, <2>5, <2>6
<1>8. ProcessedSocketData(P) = ReadAs(m)
  BY PayLoadIsRead DEF P
<1>9. (np + 12) - 11 = np + 1 /\ (np + 12) - 11 - 1 = np
  BY <1>1
<1> HIDE DEF rest
<1>10. ProcessedSocketData(SubSeq(data, 1, (np + 12) - 11 - 1)) = ReadAs(m)
  BY <1>6, <1>8, <1>9
<1>11. rest = DeleteFromStart(data, (np + 12) - 11)
  BY <1>9 DEF rest
<1> DEFINE payload == GetPayLoadLength(b) - HeaderSize
           d == DeleteFromStart(b, HeaderSize)
<1>12. payload = (np + 12) - 11 /\ d = data
  <2>1. payload = (np + 12) - 11
    BY <1>3, Zenon
  <2>2. d = data
    BY <1>3, Zenon DEF data
  <2> QED BY <2>1, <2>2
<1> HIDE DEF payload, d
<1>13. /\ ProcessedSocketData(SubSeq(d, 1, payload - 1)) = ReadAs(m)
       /\ rest = DeleteFromStart(d, payload)
  BY <1>10, <1>11, <1>12, Zenon
<1> QED BY <1>7, <1>13, Zenon DEF d, payload, n, size

-----------------------------------------------------------------------------
(* The stream of a client.                                                 *)

\* Where its frames start.
LEMMA StartsOfFrames ==
  ASSUME NEW st \in Seq(Byte), NEW ms \in Seq(Message), MadeOf(st, ms)
  PROVE  /\ Len(st) \in Nat /\ Len(ms) \in Nat
         /\ Before(st, 1) = 0 /\ Before(st, Len(ms) + 1) = Len(st)
         /\ \A k \in 1..(Len(ms) + 1) : Before(st, k) \in 0..Len(st)
<1>1. Len(st) \in Nat /\ Len(ms) \in Nat
  BY LenProperties
<1>2. Before(st, 1) = 0 /\ Before(st, Len(ms) + 1) = Len(st)
  BY DEF Before, MadeOf
<1>3. ASSUME NEW k \in 1..Len(ms) PROVE Before(st, k + 1) \in 1..Len(st)
  <2>1. Before(st, k + 1) \in FrameEnds(st)
    BY DEF MadeOf
  <2> QED BY <2>1 DEF FrameEnds
<1>4. ASSUME NEW k \in 1..(Len(ms) + 1) PROVE Before(st, k) \in 0..Len(st)
  <2>1. CASE k = 1
    BY <1>1, <1>2, <2>1
  <2>2. CASE k # 1
    <3>1. k - 1 \in 1..Len(ms) /\ (k - 1) + 1 = k
      BY <1>1, <2>2
    <3>2. Before(st, (k - 1) + 1) \in 1..Len(st)
      BY <1>3, <3>1
    <3> QED BY <1>1, <3>1, <3>2
  <2> QED BY <2>1, <2>2
<1> QED BY <1>1, <1>2, <1>4

\* A frame of the stream, and the next one behind it.
LEMMA FrameInStream ==
  ASSUME NEW st \in Seq(Byte), NEW ms \in Seq(Message), MadeOf(st, ms), ~Telnet,
         NEW k \in 1..Len(ms)
  PROVE  /\ ms[k] \in Message /\ Len(Frame(ms[k])) \in Nat
         /\ Len(Frame(ms[k])) >= 12
         /\ Before(st, k) \in Nat /\ Before(st, k + 1) <= Len(st)
         /\ Before(st, k + 1) = Before(st, k) + Len(Frame(ms[k]))
         /\ \A i \in 1..Len(Frame(ms[k])) :
              st[Before(st, k) + i] = Frame(ms[k])[i]
<1>1. ms[k] \in Message
  BY ElementOfSeq
<1> DEFINE F == Frame(ms[k])
           a == Before(st, k)
           b == Before(st, k + 1)
<1>2. F \in Seq(Byte) /\ Len(F) \in Nat /\ Len(F) >= 12
  <2>1. Len(PayLoad(ms[k])) \in Nat /\ Len(F) = Len(PayLoad(ms[k])) + 12
        /\ F \in Seq(Byte)
    BY <1>1, FrameIs
  <2> HIDE DEF F
  <2> QED BY <2>1
<1>3. a \in 0..Len(st) /\ b \in 0..Len(st) /\ Len(st) \in Nat
  <2>1. k \in 1..(Len(ms) + 1) /\ k + 1 \in 1..(Len(ms) + 1)
    BY LenProperties
  <2> QED BY <2>1, StartsOfFrames
<1>4. b = a + Len(F) /\ SubSeq(st, a + 1, b) = F
  BY DEF MadeOf
<1> HIDE DEF F, a, b
<1>5. \A i \in 1..(b - a) : SubSeq(st, a + 1, b)[i] = st[a + i]
  <2>1. a \in Nat /\ b \in Nat /\ a <= b /\ b <= Len(st)
    BY <1>2, <1>3, <1>4
  <2> QED BY <2>1, Piece
<1>6. \A i \in 1..Len(F) : st[a + i] = F[i]
  <2>1. b - a = Len(F)
    BY <1>2, <1>3, <1>4
  <2> QED BY <1>4, <1>5, <2>1, Zenon
<1> QED BY <1>1, <1>2, <1>3, <1>4, <1>6 DEF F, a, b

\* A client that has sent nothing.
LEMMA NothingSent == MadeOf(<<>>, <<>>)
<1>1. Len(<<>>) = 0 /\ FrameEnds(<<>>) = {}
  BY DEF FrameEnds
<1>2. Cardinality({}) = 0
  BY FS_EmptySet
<1> QED BY <1>1, <1>2 DEF MadeOf, Before

\* Another frame ends behind all others.
LEMMA EndsGrow ==
  ASSUME NEW st \in Seq(Byte), NEW m \in Message, ~Telnet
  PROVE  /\ st \o Frame(m) \in Seq(Byte)
         /\ Len(st \o Frame(m)) = Len(st) + Len(Frame(m))
         /\ \A i \in 1..Len(st) : (st \o Frame(m))[i] = st[i]
         /\ \A i \in 1..Len(Frame(m)) : (st \o Frame(m))[Len(st) + i] = Frame(m)[i]
         /\ FrameEnds(st \o Frame(m))
              = FrameEnds(st) \cup {Len(st) + Len(Frame(m))}
         /\ (\A i \in 1..Len(st) : st[i][1] # "CR")
             => \A i \in 1..(Len(st) + Len(Frame(m))) : (st \o Frame(m))[i][1] # "CR"
<1> DEFINE F == Frame(m)
           n == Len(st)
           f == Len(F)
           s2 == st \o F
           hash == <<"#", 0>>
<1>1. /\ F \in Seq(Byte) /\ f \in Nat /\ f >= 12 /\ F[f] = hash
      /\ \A i \in 1..(f - 1) : F[i] # hash
      /\ \A i \in 1..f : F[i][1] # "CR"
  <2>1. Len(PayLoad(m)) \in Nat /\ f = Len(PayLoad(m)) + 12
    BY FrameIs
  <2>2. f \in Nat /\ f >= 12
    <3> HIDE DEF f
    <3> QED BY <2>1
  <2> QED BY <2>2, FrameIs
<1>2. n \in Nat
  BY LenProperties
<1>3. IsJoin(s2, st, n, F, f)
  BY <1>1, <1>2, Joined, Zenon
<1> HIDE DEF F, n, f, s2, hash
<1>4. /\ s2 \in Seq(Byte) /\ Len(s2) = n + f
      /\ \A i \in 1..n : s2[i] = st[i]
      /\ \A i \in 1..f : s2[n + i] = F[i]
      /\ \A i \in 1..(n + f) : i \in 1..n \/ \E j \in 1..f : i = n + j
  BY <1>3, Zenon DEF IsJoin
<1>5. FrameEnds(s2) = {i \in 1..(n + f) : s2[i] = hash}
      /\ FrameEnds(st) = {i \in 1..n : st[i] = hash}
  BY <1>4 DEF FrameEnds, hash, n
<1>6. n + f \in 1..(n + f) /\ s2[n + f] = hash
  <2>1. f \in 1..f /\ n + f \in 1..(n + f)
    BY <1>1, <1>2
  <2>2. s2[n + f] = F[f]
    BY <1>4, <2>1
  <2> QED BY <1>1, <2>1, <2>2
<1>7. ASSUME NEW i \in 1..n PROVE i \in 1..(n + f) /\ (s2[i] = hash <=> st[i] = hash)
  <2>1. i \in 1..(n + f)
    BY <1>1, <1>2
  <2> QED BY <1>4, <2>1, Zenon
<1>8. ASSUME NEW i \in 1..(n + f), s2[i] = hash PROVE i \in 1..n \/ i = n + f
  <2>1. CASE \E j \in 1..f : i = n + j
    <3>1. PICK j \in 1..f : i = n + j
      BY <2>1
    <3>2. F[j] = hash
      BY <1>4, <1>8, <3>1, Zenon
    <3>3. j \in 1..(f - 1) \/ j = f
      BY <1>1
    <3> QED BY <1>1, <3>1, <3>2, <3>3, Zenon
  <2> QED BY <1>4, <2>1, Zenon
<1>9. FrameEnds(s2) = FrameEnds(st) \cup {n + f}
  BY <1>5, <1>6, <1>7, <1>8, Zenon
<1>10. ASSUME \A i \in 1..n : st[i][1] # "CR", NEW i \in 1..(n + f)
       PROVE  s2[i][1] # "CR"
  <2>1. CASE i \in 1..n
    BY <1>4, <1>10, <2>1, Zenon
  <2>2. ASSUME NEW j \in 1..f, i = n + j PROVE s2[i][1] # "CR"
    <3>1. s2[i] = F[j]
      BY <1>4, <2>2, Zenon
    <3> QED BY <1>1, <3>1, Zenon
  <2> QED BY <1>4, <2>1, <2>2, Zenon
<1> QED BY <1>4, <1>9, <1>10, Zenon DEF F, n, f, s2

\* The frames there are stay where they are, the new one comes behind them.
LEMMA AnotherFrame ==
  ASSUME NEW st \in Seq(Byte), NEW ms \in Seq(Message), NEW m \in Message, ~Telnet,
         MadeOf(st, ms)
  PROVE  /\ MadeOf(st \o Frame(m), Append(ms, m))
         /\ \A k \in 1..(Len(ms) + 1) : Before(st \o Frame(m), k) = Before(st, k)
<1> DEFINE F == Frame(m)
           n == Len(st)
           f == Len(F)
           s2 == st \o F
           ms2 == Append(ms, m)
           K == Len(ms)
           E == FrameEnds(st)
           x == n + f
           Q == E \cup {x}
<1>1. /\ F \in Seq(Byte) /\ f \in Nat /\ f >= 12
  <2>1. Len(PayLoad(m)) \in Nat /\ f = Len(PayLoad(m)) + 12 /\ F \in Seq(Byte)
    BY FrameIs
  <2> HIDE DEF f
  <2> QED BY <2>1
<1>2. n \in Nat /\ K \in Nat
  BY LenProperties
<1>3. /\ s2 \in Seq(Byte) /\ Len(s2) = x
      /\ \A i \in 1..n : s2[i] = st[i]
      /\ \A i \in 1..f : s2[n + i] = F[i]
      /\ FrameEnds(s2) = Q
      /\ \A i \in 1..x : s2[i][1] # "CR"
  BY EndsGrow DEF MadeOf
<1>4. E \in SUBSET (1..n) /\ E \in SUBSET Nat /\ IsFiniteSet(E)
  <2>1. E \in SUBSET (1..n)
    BY DEF FrameEnds
  <2>2. IsFiniteSet(1..n)
    BY <1>2, FS_Interval
  <2> HIDE DEF E, n
  <2>3. IsFiniteSet(E)
    BY <2>1, <2>2, FS_Subset
  <2>4. \A i \in 1..n : i \in Nat
    BY <1>2
  <2> QED BY <2>1, <2>3, <2>4, Zenon
<1>5. Cardinality(E) = K
  BY DEF MadeOf
<1>6. /\ IsFiniteSet(Q) /\ Cardinality(Q) = K + 1
      /\ Cardinality({q \in Q : q <= x}) = K + 1
      /\ Nth(Q, K + 1) = x
      /\ \A p \in E : {q \in Q : q <= p} = {q \in E : q <= p}
  <2> HIDE DEF E, x, n, f, K
  <2>1. x \in Nat /\ \A p \in E : p < x
    BY <1>1, <1>2, <1>4 DEF x
  <2>2. /\ IsFiniteSet(Q) /\ Cardinality(Q) = Cardinality(E) + 1
        /\ Cardinality({q \in Q : q <= x}) = Cardinality(E) + 1
        /\ Nth(Q, Cardinality(E) + 1) = x
        /\ \A p \in E : {q \in Q : q <= p} = {q \in E : q <= p}
    BY <1>4, <2>1, NthGrows
  <2> QED BY <2>2, <1>5
<1>7. /\ K + 1 \in Nat /\ Len(ms2) = K + 1 /\ ms2[K + 1] = m
      /\ \A k \in 1..K : ms2[k] = ms[k]
  BY <1>2, AppendProperties
<1>8. ASSUME NEW k \in 1..K
      PROVE  LET e == Before(st, k + 1) IN
             /\ e \in E /\ e \in Q /\ Before(s2, k + 1) = e
             /\ Cardinality({q \in Q : q <= e}) = k
  <2> DEFINE e == Before(st, k + 1)
  <2>1. e \in E /\ Cardinality({q \in E : q <= e}) = k
    BY DEF MadeOf
  <2>2. Cardinality({q \in Q : q <= e}) = k
    BY <1>6, <2>1
  <2>3. Q \in SUBSET Nat /\ e \in Q
    BY <1>1, <1>2, <1>4, <2>1
  <2> HIDE DEF Q, e, E, K
  <2>4. Nth(Q, Cardinality({q \in Q : q <= e})) = e
    BY <1>6, <2>3, NthIs
  <2>5. Before(s2, k + 1) = Nth(Q, k)
    <3>1. k + 1 # 1 /\ (k + 1) - 1 = k
      BY <1>2
    <3> QED BY <1>3, <3>1 DEF Before
  <2> QED BY <2>1, <2>2, <2>3, <2>4, <2>5 DEF e
<1>9. ASSUME NEW k \in 1..(K + 1) PROVE Before(s2, k) = Before(st, k)
  <2>1. CASE k = 1
    BY <2>1 DEF Before
  <2>2. CASE k # 1
    <3> HIDE DEF K, s2
    <3>1. k - 1 \in 1..K /\ (k - 1) + 1 = k
      BY <1>2, <2>2
    <3>2. Before(s2, (k - 1) + 1) = Before(st, (k - 1) + 1)
      BY <1>8, <3>1
    <3> QED BY <3>1, <3>2
  <2> QED BY <2>1, <2>2
<1>10. Before(s2, K + 2) = x
  <2>1. K + 2 # 1 /\ (K + 2) - 1 = K + 1
    BY <1>2
  <2> HIDE DEF K, s2, x, Q
  <2> QED BY <1>3, <1>6, <2>1 DEF Before
<1>11. Before(st, K + 1) = n
  BY DEF MadeOf
<1> HIDE DEF F, n, f, s2, ms2, K, E, x, Q
<1> DEFINE Sound(k) ==
             LET end == Before(s2, k + 1) IN
             /\ end \in FrameEnds(s2)
             /\ Cardinality({e \in FrameEnds(s2) : e <= end}) = k
             /\ end = Before(s2, k) + Len(Frame(ms2[k]))
             /\ SubSeq(s2, Before(s2, k) + 1, end) = Frame(ms2[k])
<1>12. ASSUME NEW k \in 1..K PROVE Sound(k)
  <2> DEFINE a == Before(st, k)
             e == Before(st, k + 1)
             G == Frame(ms[k])
  <2>1. k \in 1..(K + 1) /\ k + 1 \in 1..(K + 1)
    BY <1>2
  <2>2. Before(s2, k) = a /\ Before(s2, k + 1) = e /\ ms2[k] = ms[k]
    BY <1>7, <1>9, <2>1
  <2>3. e \in Q /\ Cardinality({q \in Q : q <= e}) = k
    BY <1>8
  <2>4. e = a + Len(G) /\ SubSeq(st, a + 1, e) = G
    BY DEF MadeOf, K
  <2>5. a \in Nat /\ e \in Nat /\ a <= e /\ e <= n
    <3>1. a \in 0..n /\ e \in 0..n
      BY <2>1, StartsOfFrames DEF n, K
    <3>2. Len(G) \in Nat /\ Len(G) >= 12
      BY FrameInStream DEF K
    <3> HIDE DEF a, e, G
    <3> QED BY <1>2, <2>4, <3>1, <3>2
  <2>6. SubSeq(s2, a + 1, e) = SubSeq(st, a + 1, e)
    <3> HIDE DEF a, e
    <3>1. e <= x /\ x = n + f
      BY <1>1, <1>2, <2>5 DEF x
    <3>2. /\ SubSeq(st, a + 1, e) \in Seq(Byte) /\ Len(SubSeq(st, a + 1, e)) = e - a
          /\ \A i \in 1..(e - a) : SubSeq(st, a + 1, e)[i] = st[a + i]
      BY <2>5, Piece DEF n
    <3>3. /\ SubSeq(s2, a + 1, e) \in Seq(Byte) /\ Len(SubSeq(s2, a + 1, e)) = e - a
          /\ \A i \in 1..(e - a) : SubSeq(s2, a + 1, e)[i] = s2[a + i]
      BY <1>3, <2>5, <3>1, Piece
    <3>4. \A i \in 1..(e - a) : a + i \in 1..n
      BY <1>2, <2>5
    <3>5. \A i \in 1..(e - a) : SubSeq(s2, a + 1, e)[i] = SubSeq(st, a + 1, e)[i]
      BY <1>3, <3>2, <3>3, <3>4, Zenon
    <3> DEFINE p == SubSeq(s2, a + 1, e)
               q == SubSeq(st, a + 1, e)
    <3>6. /\ p \in Seq(Byte) /\ q \in Seq(Byte) /\ Len(p) = e - a /\ Len(q) = e - a
          /\ \A i \in 1..(e - a) : p[i] = q[i]
      BY <3>2, <3>3, <3>5, Zenon
    <3> HIDE DEF p, q
    <3>7. p = q
      BY <3>6, SeqEqual
    <3> QED BY <3>7 DEF p, q
  <2> HIDE DEF a, e, G
  <2>7. Frame(ms2[k]) = G
    BY <2>2 DEF G
  <2> QED BY <1>3, <2>2, <2>3, <2>4, <2>6, <2>7, Zenon
<1>13. Sound(K + 1)
  <2>1. Before(s2, (K + 1) + 1) = x
    <3>1. (K + 1) + 1 = K + 2
      BY <1>2
    <3> QED BY <1>10, <3>1
  <2>2. Before(s2, K + 1) = n
    <3>1. K + 1 \in 1..(K + 1)
      BY <1>2
    <3> QED BY <1>9, <1>11, <3>1, Zenon
  <2>3. x \in Q
    BY DEF Q
  <2>4. Frame(ms2[K + 1]) = F
    BY <1>7 DEF F
  <2>5. SubSeq(s2, n + 1, x) = F
    <3>1. n <= x /\ x \in Nat /\ x - n = f
      BY <1>1, <1>2 DEF x
    <3> DEFINE p == SubSeq(s2, n + 1, x)
    <3>2. p \in Seq(Byte) /\ Len(p) = f /\ \A i \in 1..f : p[i] = s2[n + i]
      BY <1>2, <1>3, <3>1, Piece
    <3> HIDE DEF p
    <3>3. \A i \in 1..f : p[i] = F[i]
      BY <1>3, <3>2, Zenon
    <3>4. p = F
      BY <1>1, <3>2, <3>3, SeqEqual DEF f
    <3> QED BY <3>4 DEF p
  <2>6. x = n + Len(F)
    BY DEF x, f
  <2> QED BY <1>3, <1>6, <2>1, <2>2, <2>3, <2>4, <2>5, <2>6, Zenon
<1>14. \A k \in 1..(K + 1) : Sound(k)
  <2>1. \A k \in 1..(K + 1) : k \in 1..K \/ k = K + 1
    BY <1>2
  <2> HIDE DEF Sound
  <2> QED BY <1>12, <1>13, <2>1, Zenon
<1>15. Len(s2) = Before(s2, Len(ms2) + 1)
  <2>1. Len(ms2) + 1 = K + 2
    BY <1>2, <1>7
  <2> QED BY <1>3, <1>10, <2>1
<1>16. Cardinality(FrameEnds(s2)) = Len(ms2) /\ 1..Len(ms2) = 1..(K + 1)
  BY <1>3, <1>6, <1>7
<1>17. \A i \in 1..Len(s2) : s2[i][1] # "CR"
  BY <1>3
<1>18. MadeOf(s2, ms2)
  BY <1>14, <1>15, <1>16, <1>17, Zenon DEF MadeOf
<1> QED BY <1>9, <1>18, Zenon DEF s2, ms2, K, F

-----------------------------------------------------------------------------
(* How far the decoder is with the stream of a client.                     *)

\* The messages dec have been made of the first d bytes of the stream st, b
\* is what is left of these.
Progress(st, ms, dec, d, b) ==
  /\ Len(dec) <= Len(ms)
  /\ \A k \in 1..Len(dec) : dec[k] = ReadAs(ms[k])
  /\ Before(st, Len(dec) + 1) <= d /\ d <= Len(st)
  /\ b = SubSeq(st, Before(st, Len(dec) + 1) + 1, d)

\* There is no further frame in these bytes.
Settled(st, ms, dec, d) ==
  Len(dec) = Len(ms) \/ d < Before(st, Len(dec) + 2)

Reading == [pid : Nat, hb : Nat, labels : Seq(Nat)]

LEMMA ReadingIs == \A m \in Message : ReadAs(m) \in Reading
BY DEF Message, ReadAs, Reading

\* What has arrived from the start of a frame on.
LEMMA BufferBegins ==
  ASSUME NEW st \in Seq(Byte), NEW ms \in Seq(Message), MadeOf(st, ms), ~Telnet,
         NEW k \in 1..Len(ms), NEW d \in Nat, Before(st, k) <= d, d <= Len(st)
  PROVE  LET b == SubSeq(st, Before(st, k) + 1, d) IN
         Begins(b, ms[k]) /\ Len(b) = d - Before(st, k)
<1> DEFINE a == Before(st, k)
           b == SubSeq(st, a + 1, d)
           F == Frame(ms[k])
<1>1. /\ Len(F) \in Nat /\ a \in Nat
      /\ \A i \in 1..Len(F) : st[a + i] = F[i]
  BY FrameInStream
<1> HIDE DEF a, F
<1>2. a <= d
  BY DEF a
<1>3. /\ b \in Seq(Byte) /\ Len(b) = d - a
      /\ \A i \in 1..(d - a) : b[i] = st[a + i]
  BY <1>1, <1>2, Piece
<1>4. ASSUME NEW i \in 1..Len(b), i <= Len(F) PROVE b[i] = F[i]
  <2>1. i \in 1..Len(F) /\ i \in 1..(d - a)
    BY <1>1, <1>2, <1>3, <1>4
  <2> QED BY <1>1, <1>3, <2>1, Zenon
<1> HIDE DEF b
<1>5. Begins(b, ms[k])
  BY <1>3, <1>4 DEF Begins, F
<1> QED BY <1>3, <1>5, Zenon DEF a, b

\* The facts about a stream and its decoder the lemmas below start from.
LEMMA ProgressIs ==
  ASSUME NEW st \in Seq(Byte), NEW ms \in Seq(Message), MadeOf(st, ms), ~Telnet,
         NEW dec \in Seq(Reading), NEW d \in Nat, NEW b, Progress(st, ms, dec, d, b)
  PROVE  /\ Len(st) \in Nat /\ Len(ms) \in Nat /\ Len(dec) \in 0..Len(ms)
         /\ Before(st, Len(dec) + 1) \in Nat
         /\ b \in Seq(Byte) /\ Len(b) = d - Before(st, Len(dec) + 1)
         /\ \A i \in 1..Len(b) : b[i] = st[Before(st, Len(dec) + 1) + i]
         /\ Len(dec) = Len(ms) => b = <<>> /\ d = Len(st)
         /\ Len(dec) < Len(ms) => Begins(b, ms[Len(dec) + 1])
<1> DEFINE n == Len(dec)
           a == Before(st, n + 1)
<1>1. Len(st) \in Nat /\ Len(ms) \in Nat /\ n \in 0..Len(ms)
  BY LenProperties DEF Progress
<1>2. n + 1 \in 1..(Len(ms) + 1)
  <2> HIDE DEF n
  <2> QED BY <1>1
<1>3. a \in 0..Len(st) /\ (n = Len(ms) => a = Len(st))
  BY <1>2, StartsOfFrames
<1>4. a <= d /\ d <= Len(st) /\ b = SubSeq(st, a + 1, d)
  BY DEF Progress
<1>5. n < Len(ms) => Begins(b, ms[n + 1])
  <2> HAVE n < Len(ms)
  <2>1. n + 1 \in 1..Len(ms)
    <3> HIDE DEF n
    <3> QED BY <1>1
  <2>2. Begins(SubSeq(st, Before(st, n + 1) + 1, d), ms[n + 1])
    <3> DEFINE k == n + 1
    <3>1. k \in 1..Len(ms) /\ Before(st, k) <= d /\ d <= Len(st)
      BY <2>1, <1>4
    <3> HIDE DEF k
    <3>2. Begins(SubSeq(st, Before(st, k) + 1, d), ms[k])
      BY <3>1, BufferBegins
    <3> QED BY <3>2 DEF k
  <2> QED BY <2>2, <1>4
<1> HIDE DEF n, a
<1>6. /\ b \in Seq(Byte) /\ Len(b) = d - a
      /\ \A i \in 1..(d - a) : b[i] = st[a + i]
  BY <1>1, <1>3, <1>4, Piece
<1>7. n = Len(ms) => b = <<>> /\ d = Len(st)
  <2> HAVE n = Len(ms)
  <2>1. d = Len(st) /\ Len(b) = 0
    BY <1>1, <1>3, <1>4, <1>6
  <2> QED BY <2>1, <1>6, EmptySeq
<1> QED BY <1>1, <1>3, <1>5, <1>6, <1>7 DEF n, a

\* A further frame changes nothing for the decoder.
LEMMA ProgressSent ==
  ASSUME NEW st \in Seq(Byte), NEW ms \in Seq(Message), MadeOf(st, ms), ~Telnet,
         NEW dec \in Seq(Reading), NEW d \in Nat, NEW b, Progress(st, ms, dec, d, b),
         NEW m \in Message
  PROVE  /\ Progress(st \o Frame(m), Append(ms, m), dec, d, b)
         /\ Settled(st, ms, dec, d) => Settled(st \o Frame(m), Append(ms, m), dec, d)
<1> DEFINE s2 == st \o Frame(m)
           ms2 == Append(ms, m)
           n == Len(dec)
           K == Len(ms)
           a == Before(st, n + 1)
<1>1. /\ Len(st) \in Nat /\ K \in Nat /\ n \in 0..K /\ a \in Nat
      /\ n = K => d = Len(st)
  BY ProgressIs
<1>2. /\ s2 \in Seq(Byte) /\ Len(s2) = Len(st) + Len(Frame(m))
      /\ \A i \in 1..Len(st) : s2[i] = st[i]
  BY EndsGrow
<1>3. Len(Frame(m)) \in Nat /\ Len(Frame(m)) >= 12
  <2>1. Len(PayLoad(m)) \in Nat /\ Len(Frame(m)) = Len(PayLoad(m)) + 12
    BY FrameIs
  <2> QED BY <2>1
<1>4. MadeOf(s2, ms2) /\ \A k \in 1..(K + 1) : Before(s2, k) = Before(st, k)
  BY AnotherFrame
<1>5. /\ Len(ms2) = K + 1 /\ ms2 \in Seq(Message)
      /\ \A k \in 1..K : ms2[k] = ms[k]
  BY AppendProperties
<1>6. /\ \A k \in 1..n : dec[k] = ReadAs(ms[k])
      /\ a <= d /\ d <= Len(st) /\ b = SubSeq(st, a + 1, d)
  BY DEF Progress
<1> HIDE DEF s2, ms2, n, K, a
<1>7. Before(s2, n + 1) = a
  <2>1. n + 1 \in 1..(K + 1)
    BY <1>1
  <2> QED BY <1>4, <2>1 DEF a
<1>8. \A k \in 1..n : dec[k] = ReadAs(ms2[k])
  <2>1. \A k \in 1..n : k \in 1..K
    BY <1>1
  <2> QED BY <1>5, <1>6, <2>1, Zenon
<1>9. SubSeq(s2, a + 1, d) = SubSeq(st, a + 1, d)
  <2> DEFINE p == SubSeq(s2, a + 1, d)
             q == SubSeq(st, a + 1, d)
  <2>1. d <= Len(s2)
    BY <1>1, <1>2, <1>3, <1>6
  <2>2. p \in Seq(Byte) /\ Len(p) = d - a /\ \A i \in 1..(d - a) : p[i] = s2[a + i]
    BY <1>1, <1>2, <1>6, <2>1, Piece
  <2>3. q \in Seq(Byte) /\ Len(q) = d - a /\ \A i \in 1..(d - a) : q[i] = st[a + i]
    BY <1>1, <1>6, Piece
  <2> HIDE DEF p, q
  <2>4. \A i \in 1..(d - a) : a + i \in 1..Len(st)
    BY <1>1, <1>6
  <2>5. \A i \in 1..(d - a) : p[i] = q[i]
    BY <1>2, <2>2, <2>3, <2>4, Zenon
  <2>6. p = q
    BY <2>2, <2>3, <2>5, SeqEqual
  <2> QED BY <2>6 DEF p, q
<1>10. n <= Len(ms2) /\ d <= Len(s2)
  BY <1>1, <1>2, <1>3, <1>5, <1>6
<1>11. Progress(s2, ms2, dec, d, b)
  <2>1. /\ Len(dec) <= Len(ms2) /\ \A k \in 1..Len(dec) : dec[k] = ReadAs(ms2[k])
        /\ Before(s2, Len(dec) + 1) = a
    BY <1>7, <1>8, <1>10 DEF n
  <2> QED BY <2>1, <1>6, <1>9, <1>10 DEF Progress
<1>12. ASSUME Settled(st, ms, dec, d) PROVE Settled(s2, ms2, dec, d)
  <2>1. CASE n = K
    <3>1. Before(s2, Len(ms2) + 1) = Len(s2)
      BY <1>2, <1>4, <1>5, StartsOfFrames
    <3>2. Len(ms2) + 1 = n + 2
      BY <1>1, <1>5, <2>1
    <3>3. d < Before(s2, n + 2)
      BY <1>1, <1>2, <1>3, <1>6, <3>1, <3>2
    <3> QED BY <3>3 DEF Settled, n
  <2>2. CASE n # K
    <3>1. n + 2 \in 1..(K + 1)
      BY <1>1, <2>2
    <3>2. d < Before(st, n + 2)
      BY <1>12, <2>2 DEF Settled, n, K
    <3>3. Before(s2, n + 2) = Before(st, n + 2)
      BY <1>4, <3>1
    <3> QED BY <3>2, <3>3 DEF Settled, n
  <2> QED BY <2>1, <2>2
<1> QED BY <1>11, <1>12 DEF s2, ms2

\* OnData: nothing is cut off, and a buffer Decode does not look at any
\* further holds less than a frame.
LEMMA ProgressReceived ==
  ASSUME NEW st \in Seq(Byte), NEW ms \in Seq(Message), MadeOf(st, ms), ~Telnet,
         NEW dec \in Seq(Reading), NEW d \in Nat, NEW b, Progress(st, ms, dec, d, b),
         NEW len \in 1..(Len(st) - d)
  PROVE  LET b2 == b \o RemoveCR(SubSeq(st, d + 1, d + len)) IN
         /\ Progress(st, ms, dec, d + len, b2)
         /\ GetPayLoadLength(b2) = 0 => Settled(st, ms, dec, d + len)
<1> DEFINE n == Len(dec)
           a == Before(st, n + 1)
           chunk == SubSeq(st, d + 1, d + len)
           d2 == d + len
           b2 == b \o RemoveCR(chunk)
<1>1. /\ Len(st) \in Nat /\ Len(ms) \in Nat /\ n \in 0..Len(ms) /\ a \in Nat
      /\ b \in Seq(Byte) /\ Len(b) = d - a
      /\ \A i \in 1..Len(b) : b[i] = st[a + i]
  BY ProgressIs
<1>2. a <= d /\ d <= Len(st) /\ \A k \in 1..n : dec[k] = ReadAs(ms[k])
  BY DEF Progress
<1> HIDE DEF n, a
<1>3. d2 \in Nat /\ d <= d2 /\ d2 <= Len(st) /\ a <= d2 /\ d2 - d = len /\ len \in Nat
  BY <1>1, <1>2
<1> HIDE DEF d2
<1>4. /\ SubSeq(st, d + 1, d2) \in Seq(Byte) /\ Len(SubSeq(st, d + 1, d2)) = len
      /\ \A i \in 1..len : SubSeq(st, d + 1, d2)[i] = st[d + i]
  BY <1>3, Piece
<1>5. chunk \in Seq(Byte) /\ Len(chunk) = len /\ \A i \in 1..len : chunk[i] = st[d + i]
  BY <1>4 DEF d2
<1> HIDE DEF chunk
<1>6. RemoveCR(chunk) = chunk
  <2>1. ASSUME Len(chunk) >= 2 PROVE chunk[Len(chunk) - 1] # <<"CR", 0>>
    <3>1. len - 1 \in 1..len /\ d + (len - 1) \in 1..Len(st)
      BY <1>1, <1>2, <1>3, <1>5, <2>1 DEF d2
    <3>2. chunk[len - 1] = st[d + (len - 1)]
      BY <1>5, <3>1
    <3>3. st[d + (len - 1)][1] # "CR"
      BY <3>1 DEF MadeOf
    <3>4. <<"CR", 0>>[1] = "CR"
      BY PairIs, Zenon
    <3> QED BY <1>5, <3>2, <3>3, <3>4, Zenon
  <2> QED BY <2>1 DEF RemoveCR
<1>7. b2 = b \o chunk
  BY <1>6
<1> HIDE DEF b2
<1>8. b2 = SubSeq(st, a + 1, d2)
  <2> DEFINE q == SubSeq(st, a + 1, d2)
             k == Len(b)
  <2>1. q \in Seq(Byte) /\ Len(q) = d2 - a /\ \A i \in 1..(d2 - a) : q[i] = st[a + i]
    BY <1>1, <1>3, Piece
  <2> HIDE DEF q
  <2>2. k \in Nat /\ k = d - a /\ d2 - a = k + len
    BY <1>1, <1>2, <1>3 DEF d2
  <2>3. IsJoin(b2, b, k, chunk, len)
    <3> HIDE DEF k
    <3>1. Len(b) = k
      BY DEF k
    <3> QED BY <1>1, <1>3, <1>5, <1>7, <2>2, <3>1, Joined, Zenon
  <2> HIDE DEF k
  <2>4. /\ b2 \in Seq(Byte) /\ Len(b2) = k + len
        /\ \A i \in 1..k : b2[i] = b[i]
        /\ \A i \in 1..len : b2[k + i] = chunk[i]
        /\ \A i \in 1..(k + len) : i \in 1..k \/ \E j \in 1..len : i = k + j
    BY <2>3, Zenon DEF IsJoin
  <2>5. ASSUME NEW i \in 1..(k + len) PROVE b2[i] = st[a + i]
    <3>1. CASE i \in 1..k
      BY <1>1, <2>4, <3>1 DEF k
    <3>2. CASE \E j \in 1..len : i = k + j
      <4>1. PICK j \in 1..len : i = k + j
        BY <3>2
      <4>2. a + i = d + j
        BY <1>1, <1>3, <2>2, <4>1
      <4>3. b2[i] = st[d + j]
        BY <1>5, <2>4, <4>1, Zenon
      <4> QED BY <4>2, <4>3
    <3> QED BY <2>4, <3>1, <3>2, Zenon
  <2>6. Len(q) = Len(b2) /\ Len(q) = k + len /\ \A i \in 1..(k + len) : q[i] = b2[i]
    BY <2>1, <2>2, <2>4, <2>5
  <2>7. q = b2
    BY <2>1, <2>4, <2>6, SeqEqual
  <2> QED BY <2>7 DEF q
<1>9. Progress(st, ms, dec, d2, b2)
  <2>1. Len(dec) <= Len(ms)
    BY DEF Progress
  <2> QED BY <1>2, <1>3, <1>8, <2>1 DEF Progress, n, a
<1>10. ASSUME GetPayLoadLength(b2) = 0 PROVE Settled(st, ms, dec, d2)
  <2>1. CASE n = Len(ms)
    BY <2>1 DEF Settled, n
  <2>2. CASE n # Len(ms)
    <3> DEFINE k == n + 1
               m == ms[k]
    <3>1. k \in 1..Len(ms) /\ n < Len(ms)
      BY <1>1, <2>2
    <3>2. Begins(b2, ms[n + 1])
      BY <1>9, <1>3, <3>1, ProgressIs DEF n
    <3>3. /\ m \in Message /\ Len(Frame(m)) \in Nat /\ Len(Frame(m)) >= 12
          /\ Before(st, k + 1) = Before(st, k) + Len(Frame(m))
      <4> HIDE DEF k
      <4> QED BY <3>1, FrameInStream
    <3>4. GetPayLoadLength(b2) = IF Len(b2) >= 11 THEN Len(Frame(m)) ELSE 0
      BY <3>2, <3>3, LengthIsRead
    <3>5. Len(b2) = d2 - a
      BY <1>3, <1>9, ProgressIs DEF n, a
    <3> HIDE DEF m
    <3>6. ~(Len(b2) >= 11)
      BY <1>10, <3>3, <3>4
    <3>7. k + 1 = n + 2 /\ Before(st, k) = a
      BY <1>1 DEF a
    <3>8. d2 < Before(st, n + 2)
      BY <1>1, <1>3, <3>3, <3>5, <3>6, <3>7
    <3> QED BY <3>8 DEF Settled, n
  <2> QED BY <2>1, <2>2
<1> QED BY <1>9, <1>10 DEF b2, d2, chunk

\* Decode's loop goes round exactly if there is a further frame.
LEMMA RoundOrSettled ==
  ASSUME NEW st \in Seq(Byte), NEW ms \in Seq(Message), MadeOf(st, ms), ~Telnet,
         NEW dec \in Seq(Reading), NEW d \in Nat, NEW b, Progress(st, ms, dec, d, b)
  PROVE  WholeFrame(b) <=> ~Settled(st, ms, dec, d)
<1> DEFINE n == Len(dec)
           a == Before(st, n + 1)
<1>1. /\ Len(st) \in Nat /\ Len(ms) \in Nat /\ n \in 0..Len(ms) /\ a \in Nat
      /\ Len(b) = d - a
      /\ n = Len(ms) => b = <<>>
      /\ n < Len(ms) => Begins(b, ms[n + 1])
  BY ProgressIs
<1> HIDE DEF n, a
<1>2. CASE n = Len(ms)
  BY <1>1, <1>2, EmptyBuffer DEF Settled, n
<1>3. CASE n # Len(ms)
  <2> DEFINE k == n + 1
             m == ms[k]
  <2>1. k \in 1..Len(ms) /\ n < Len(ms)
    BY <1>1, <1>3
  <2>2. /\ m \in Message /\ Len(Frame(m)) \in Nat
        /\ Before(st, k + 1) = Before(st, k) + Len(Frame(m))
    <3> HIDE DEF k
    <3> QED BY <2>1, FrameInStream
  <2>3. Begins(b, m)
    BY <1>1, <2>1
  <2>4. k + 1 = n + 2 /\ Before(st, k) = a
    BY <1>1 DEF a
  <2> HIDE DEF m, k
  <2>5. WholeFrame(b) <=> Len(b) >= Len(Frame(m))
    BY <2>2, <2>3, WholeFrameIsThere
  <2>6. Settled(st, ms, dec, d) <=> d < a + Len(Frame(m))
    BY <1>3, <2>2, <2>4 DEF Settled, n
  <2>7. Len(b) >= Len(Frame(m)) <=> ~(d < a + Len(Frame(m)))
    BY <1>1, <2>2
  <2> QED BY <2>5, <2>6, <2>7
<1> QED BY <1>2, <1>3

\* A round makes the next message, and leaves what is behind its frame.
LEMMA ProgressDecoded ==
  ASSUME NEW st \in Seq(Byte), NEW ms \in Seq(Message), MadeOf(st, ms), ~Telnet,
         NEW dec \in Seq(Reading), NEW d \in Nat, NEW b, Progress(st, ms, dec, d, b),
         WholeFrame(b)
  PROVE  LET len == GetPayLoadLength(b)
             data == DeleteFromStart(b, HeaderSize)
             payload == len - HeaderSize
             r == ProcessedSocketData(SubSeq(data, 1, payload - 1))
             b2 == DeleteFromStart(data, payload)
         IN  /\ r \in Reading
             /\ Progress(st, ms, Append(dec, r), d, b2)
             /\ b2 \in Seq(Byte) /\ Len(b2) <= Len(b)
<1> DEFINE n == Len(dec)
           a == Before(st, n + 1)
           k == n + 1
           m == ms[k]
           f == Len(Frame(m))
           e == Before(st, k + 1)
           data == DeleteFromStart(b, HeaderSize)
           payload == GetPayLoadLength(b) - HeaderSize
           r == ProcessedSocketData(SubSeq(data, 1, payload - 1))
           b2 == DeleteFromStart(data, payload)
<1>1. /\ Len(st) \in Nat /\ Len(ms) \in Nat /\ n \in 0..Len(ms) /\ a \in Nat
      /\ b \in Seq(Byte) /\ Len(b) = d - a
      /\ \A i \in 1..Len(b) : b[i] = st[a + i]
      /\ n < Len(ms) => Begins(b, m)
  BY ProgressIs
<1>2. a <= d /\ d <= Len(st) /\ \A i \in 1..n : dec[i] = ReadAs(ms[i])
  BY DEF Progress
<1>3. n # Len(ms) /\ ~(d < Before(st, n + 2))
  BY RoundOrSettled DEF Settled
<1>4. k \in 1..Len(ms) /\ n < Len(ms) /\ k + 1 = n + 2 /\ n \in Nat
  <2> HIDE DEF n
  <2> QED BY <1>1, <1>3
<1>5. m \in Message /\ f \in Nat /\ f >= 12 /\ e = a + f
  <2>1. Before(st, k) = a
    OBVIOUS
  <2> HIDE DEF k
  <2> QED BY <1>4, <2>1, FrameInStream
<1>6. e <= d
  <2>1. e = Before(st, n + 2)
    BY <1>4
  <2> HIDE DEF e, n, a
  <2> QED BY <1>1, <1>2, <1>3, <1>5, <2>1
<1>7. Len(b) >= Len(Frame(m)) /\ Begins(b, m)
  <2>1. Begins(b, m)
    BY <1>1, <1>4
  <2> QED BY <2>1, <1>5, WholeFrameIsThere
<1>8. /\ r = ReadAs(m) /\ b2 \in Seq(Byte) /\ Len(b2) = Len(b) - f
      /\ \A i \in 1..(Len(b) - f) : b2[i] = b[f + i]
  <2> HIDE DEF m
  <2> QED BY <1>5, <1>7, RoundDecodes DEF f
<1> HIDE DEF n, a, m, f, e, data, payload, r, b2
<1>9. r \in Reading
  BY <1>5, <1>8, ReadingIs
<1> DEFINE dec2 == Append(dec, r)
<1>10. /\ Len(dec2) = k /\ dec2[k] = r
       /\ \A i \in 1..n : dec2[i] = dec[i]
  BY <1>9, AppendProperties DEF n
<1>11. \A i \in 1..k : dec2[i] = ReadAs(ms[i])
  <2>1. \A i \in 1..k : i \in 1..n \/ i = k
    BY <1>4
  <2>2. dec2[k] = ReadAs(ms[k])
    BY <1>8, <1>10 DEF m
  <2> HIDE DEF k, dec2
  <2> QED BY <1>2, <1>10, <2>1, <2>2, Zenon
<1>12. b2 = SubSeq(st, e + 1, d)
  <2> DEFINE q == SubSeq(st, e + 1, d)
  <2>1. e \in Nat
    BY <1>1, <1>5
  <2>2. q \in Seq(Byte) /\ Len(q) = d - e /\ \A i \in 1..(d - e) : q[i] = st[e + i]
    BY <1>2, <1>6, <2>1, Piece
  <2> HIDE DEF q
  <2>3. Len(b) - f = d - e /\ Len(b) \in Nat
    BY <1>1, <1>2, <1>5
  <2>4. ASSUME NEW i \in 1..(d - e) PROVE b2[i] = q[i]
    <3>1. f + i \in 1..Len(b) /\ a + (f + i) = e + i
      BY <1>1, <1>5, <2>1, <2>3
    <3>2. b2[i] = b[f + i]
      BY <1>8, <2>3
    <3>3. b[f + i] = st[a + (f + i)]
      BY <1>1, <3>1
    <3> QED BY <2>2, <3>1, <3>2, <3>3
  <2>5. Len(b2) = d - e
    BY <1>8, <2>3
  <2>6. b2 = q
    BY <1>8, <2>2, <2>4, <2>5, SeqEqual
  <2> QED BY <2>6 DEF q
<1> HIDE DEF dec2
<1>13. Progress(st, ms, dec2, d, b2)
  <2>1. Len(dec2) <= Len(ms) /\ Before(st, Len(dec2) + 1) = e
    BY <1>4, <1>10 DEF e
  <2>2. \A i \in 1..Len(dec2) : dec2[i] = ReadAs(ms[i])
    BY <1>10, <1>11
  <2> QED BY <1>2, <1>6, <1>12, <2>1, <2>2 DEF Progress
<1>14. Len(b2) <= Len(b)
  BY <1>1, <1>2, <1>5, <1>8
<1> QED BY <1>8, <1>9, <1>13, <1>14 DEF dec2, r, b2, data, payload

\* A decoder that is settled has made all the messages that have arrived.
LEMMA SettledIsComplete ==
  ASSUME NEW st \in Seq(Byte), NEW ms \in Seq(Message), MadeOf(st, ms), ~Telnet,
         NEW dec \in Seq(Reading), NEW d \in Nat, NEW b, Progress(st, ms, dec, d, b),
         Settled(st, ms, dec, d)
  PROVE  Cardinality({e \in FrameEnds(st) : e <= d}) = Len(dec)
<1> DEFINE n == Len(dec)
           K == Len(ms)
           E == FrameEnds(st)
           UpTo(x) == {e \in E : e <= x}
<1>1. /\ Len(st) \in Nat /\ K \in Nat /\ n \in 0..K /\ n \in Nat
      /\ n = K => d = Len(st)
  BY ProgressIs, LenProperties
<1>2. /\ Cardinality(E) = K
      /\ \A k \in 1..K : Before(st, k + 1) \in E
                         /\ Cardinality(UpTo(Before(st, k + 1))) = k
  BY DEF MadeOf
<1>3. Before(st, n + 1) <= d /\ (n = K \/ d < Before(st, n + 2))
  BY DEF Progress, Settled
<1>4. E \in SUBSET (1..Len(st)) /\ IsFiniteSet(E)
  <2>1. E \in SUBSET (1..Len(st))
    BY DEF FrameEnds
  <2>2. IsFiniteSet(1..Len(st))
    BY <1>1, FS_Interval
  <2> HIDE DEF E
  <2> QED BY <2>1, <2>2, FS_Subset
<1> HIDE DEF n, K, E
<1>5. \A x : UpTo(x) \in SUBSET E /\ IsFiniteSet(UpTo(x)) /\ Cardinality(UpTo(x)) \in Nat
  <2> SUFFICES ASSUME NEW x
               PROVE  UpTo(x) \in SUBSET E /\ IsFiniteSet(UpTo(x))
                      /\ Cardinality(UpTo(x)) \in Nat
    OBVIOUS
  <2>1. UpTo(x) \in SUBSET E
    OBVIOUS
  <2> HIDE DEF UpTo
  <2>2. IsFiniteSet(UpTo(x))
    BY <1>4, <2>1, FS_Subset
  <2> QED BY <2>1, <2>2, FS_CardinalityType
<1>6. \A e \in E : e \in Nat /\ e <= Len(st)
  BY <1>1, <1>4
<1>7. CASE n = K
  <2>1. \A e \in E : e <= d
    BY <1>1, <1>6, <1>7
  <2>2. UpTo(d) = E
    BY <2>1, Zenon
  <2> QED BY <1>2, <1>7, <2>2 DEF n, E
<1>8. CASE n # K
  <2> DEFINE x == Before(st, n + 2)
             y == Before(st, n + 1)
  <2>1. n + 1 \in 1..K /\ (n + 1) + 1 = n + 2
    BY <1>1, <1>8
  <2>2. x \in E /\ Cardinality(UpTo(x)) = n + 1
    <3>1. Before(st, (n + 1) + 1) \in E
          /\ Cardinality(UpTo(Before(st, (n + 1) + 1))) = n + 1
      <4> HIDE DEF UpTo
      <4> QED BY <1>2, <2>1, Zenon
    <3> HIDE DEF UpTo
    <3> QED BY <2>1, <3>1
  <2>3. d < x /\ x \in Nat
    BY <1>3, <1>6, <1>8, <2>2
  <2> HIDE DEF x
  <2>4. Cardinality(UpTo(d)) <= n
    <3>1. ~(x <= d) /\ x <= x /\ \A e \in E : e <= d => e <= x
      BY <1>6, <2>3
    <3>2. UpTo(d) \in SUBSET (UpTo(x) \ {x}) /\ x \in UpTo(x)
      BY <2>2, <3>1, Zenon
    <3> HIDE DEF UpTo
    <3>3. IsFiniteSet(UpTo(x) \ {x}) /\ Cardinality(UpTo(x) \ {x}) = (n + 1) - 1
      <4>1. IsFiniteSet(UpTo(x))
        BY <1>5, Zenon
      <4>2. /\ IsFiniteSet(UpTo(x) \ {x})
            /\ Cardinality(UpTo(x) \ {x}) =
                 IF x \in UpTo(x) THEN Cardinality(UpTo(x)) - 1
                                   ELSE Cardinality(UpTo(x))
        BY <4>1, FS_RemoveElement, Zenon
      <4> QED BY <2>2, <3>2, <4>2, Zenon
    <3>4. Cardinality(UpTo(d)) <= Cardinality(UpTo(x) \ {x})
      BY <3>2, <3>3, FS_Subset
    <3> QED BY <1>1, <3>3, <3>4
  <2>5. Cardinality(UpTo(d)) >= n
    <3>1. CASE n = 0
      <4>1. Cardinality(UpTo(d)) \in Nat
        BY <1>5
      <4> HIDE DEF UpTo
      <4> QED BY <3>1, <4>1
    <3>2. CASE n # 0
      <4>1. n \in 1..K
        BY <1>1, <3>2
      <4>2. y \in E /\ Cardinality(UpTo(y)) = n
        <5> HIDE DEF UpTo
        <5> QED BY <1>2, <4>1, Zenon
      <4>3. y <= d
        BY <1>3
      <4> HIDE DEF y
      <4>4. \A e \in E : e <= y => e <= d
        BY <1>6, <4>2, <4>3
      <4>5. UpTo(y) \in SUBSET UpTo(d)
        BY <4>4, Zenon
      <4> HIDE DEF UpTo
      <4>6. Cardinality(UpTo(y)) <= Cardinality(UpTo(d))
        BY <1>5, <4>5, FS_Subset
      <4> QED BY <4>2, <4>6, <1>5
    <3> QED BY <3>1, <3>2
  <2> HIDE DEF UpTo
  <2>6. Cardinality(UpTo(d)) = n
    BY <1>1, <1>5, <2>4, <2>5
  <2> QED BY <2>6 DEF n, E, UpTo
<1> QED BY <1>7, <1>8

\* With the fields in the order the code takes them, these are the messages sent.
LEMMA ReadAsSent ==
  ASSUME NEW ms \in Seq(Message), NEW dec \in Seq(Reading), Len(dec) <= Len(ms),
         \A k \in 1..Len(dec) : dec[k] = ReadAs(ms[k]), ~DocumentedOrder
  PROVE  dec = SubSeq(ms, 1, Len(dec))
<1>1. \A m \in Message : ReadAs(m) = m /\ m \in Reading
  BY DEF ReadAs, Message, Reading
<1>2. /\ Len(ms) \in Nat /\ Len(dec) \in Nat
      /\ \A k \in 1..Len(ms) : ms[k] \in Message
  BY LenProperties, ElementOfSeq
<1> DEFINE q == SubSeq(ms, 1, Len(dec))
<1>3. q \in Seq(Reading) /\ Len(q) = Len(dec) /\ \A k \in 1..Len(dec) : q[k] = ms[k]
  <2>1. \A k \in 1..Len(dec) : ms[k] \in Reading
    BY <1>1, <1>2
  <2>2. /\ q \in Seq(Reading) /\ Len(q) = IF 1 <= Len(dec) THEN Len(dec) - 1 + 1 ELSE 0
        /\ \A k \in 1..(Len(dec) - 1 + 1) : q[k] = ms[1 + k - 1]
    BY <1>2, <2>1, SubSeqProperties
  <2> HIDE DEF q
  <2>3. Len(dec) - 1 + 1 = Len(dec) /\ (1 <= Len(dec) \/ Len(dec) = 0)
        /\ \A k \in 1..Len(dec) : 1 + k - 1 = k
    BY <1>2
  <2> QED BY <2>2, <2>3
<1> HIDE DEF q
<1>4. \A k \in 1..Len(dec) : k \in 1..Len(ms)
  BY <1>2
<1>5. \A k \in 1..Len(dec) : dec[k] = q[k]
  BY <1>1, <1>2, <1>3, <1>4
<1>6. dec = q
  BY <1>3, <1>5, SeqEqual
<1> QED BY <1>6 DEF q

\* What is left of the bytes delivered is the end of them.
LEMMA LeftIsSuffix ==
  ASSUME NEW st \in Seq(Byte), NEW a \in Nat, NEW d \in Nat, a <= d, d <= Len(st)
  PROVE  IsSuffix(SubSeq(st, a + 1, d), SubSeq(st, 1, d))
<1> DEFINE s == SubSeq(st, a + 1, d)
           t == SubSeq(st, 1, d)
           n == d - a
<1>1. s \in Seq(Byte) /\ Len(s) = n /\ \A i \in 1..n : s[i] = st[a + i]
  BY Piece
<1>2. t \in Seq(Byte) /\ Len(t) = d /\ \A i \in 1..d : t[i] = st[i]
  <2>1. /\ SubSeq(st, 0 + 1, d) \in Seq(Byte) /\ Len(SubSeq(st, 0 + 1, d)) = d - 0
        /\ \A i \in 1..(d - 0) : SubSeq(st, 0 + 1, d)[i] = st[0 + i]
    BY Piece
  <2>2. 0 + 1 = 1 /\ d - 0 = d /\ \A i \in 1..d : 0 + i = i
    OBVIOUS
  <2> QED BY <2>1, <2>2
<1> HIDE DEF s, t
<1>3. n \in Nat /\ n <= d
  OBVIOUS
<1> DEFINE x == Reverse(s)
           y == Reverse(t)
<1>4. /\ x \in Seq(Byte) /\ Len(x) = n /\ \A i \in 1..n : x[i] = s[(n - i) + 1]
      /\ y \in Seq(Byte) /\ Len(y) = d /\ \A i \in 1..d : y[i] = t[(d - i) + 1]
  <2>1. x = [i \in 1..n |-> s[(n - i) + 1]] /\ y = [i \in 1..d |-> t[(d - i) + 1]]
    BY <1>1, <1>2 DEF Reverse
  <2>2. \A i \in 1..n : s[(n - i) + 1] \in Byte
    <3>1. \A i \in 1..n : (n - i) + 1 \in 1..n
      BY <1>3
    <3> QED BY <1>1, <3>1, ElementOfSeq
  <2>3. \A i \in 1..d : t[(d - i) + 1] \in Byte
    <3>1. \A i \in 1..d : (d - i) + 1 \in 1..d
      OBVIOUS
    <3> QED BY <1>2, <3>1, ElementOfSeq
  <2> HIDE DEF x, y, n
  <2>4. x \in Seq(Byte) /\ Len(x) = n
    BY <1>3, <2>1, <2>2, IsASeq
  <2>5. y \in Seq(Byte) /\ Len(y) = d
    BY <2>1, <2>3, IsASeq
  <2> QED BY <2>1, <2>4, <2>5
<1>5. ASSUME NEW i \in 1..n PROVE x[i] = y[i]
  <2>1. (n - i) + 1 \in 1..n /\ i \in 1..d /\ (d - i) + 1 \in 1..d
        /\ a + ((n - i) + 1) = (d - i) + 1
    BY <1>3
  <2> HIDE DEF x, y, n
  <2>2. x[i] = st[a + ((n - i) + 1)]
    BY <1>1, <1>4, <2>1
  <2>3. y[i] = st[(d - i) + 1]
    BY <1>2, <1>4, <2>1
  <2> QED BY <2>1, <2>2, <2>3
<1> HIDE DEF x, y, n
<1>6. SubSeq(x, 1, n) = SubSeq(y, 1, n)
  <2> DEFINE p == SubSeq(x, 1, n)
             q == SubSeq(y, 1, n)
  <2>1. 0 + 1 = 1 /\ n - 0 = n /\ 0 <= n /\ 0 \in Nat /\ \A i \in 1..n : 0 + i = i
    BY <1>3
  <2>2. /\ SubSeq(x, 0 + 1, n) \in Seq(Byte) /\ Len(SubSeq(x, 0 + 1, n)) = n - 0
        /\ \A i \in 1..(n - 0) : SubSeq(x, 0 + 1, n)[i] = x[0 + i]
    BY <1>3, <1>4, <2>1, Piece
  <2>3. /\ SubSeq(y, 0 + 1, n) \in Seq(Byte) /\ Len(SubSeq(y, 0 + 1, n)) = n - 0
        /\ \A i \in 1..(n - 0) : SubSeq(y, 0 + 1, n)[i] = y[0 + i]
    BY <1>3, <1>4, <2>1, Piece
  <2>4. /\ p \in Seq(Byte) /\ Len(p) = n /\ \A i \in 1..n : p[i] = x[i]
        /\ q \in Seq(Byte) /\ Len(q) = n /\ \A i \in 1..n : q[i] = y[i]
    BY <2>1, <2>2, <2>3
  <2> HIDE DEF p, q
  <2>5. \A i \in 1..n : p[i] = q[i]
    BY <1>5, <2>4
  <2>6. p = q
    BY <2>4, <2>5, SeqEqual
  <2> QED BY <2>6 DEF p, q
<1>7. IsPrefix(x, y)
  BY <1>3, <1>4, <1>6 DEF IsPrefix
<1> QED BY <1>7 DEF IsSuffix, x, y, s, t

-----------------------------------------------------------------------------
(* The inductive invariant.                                                *)

LEMMA SentAreMessages ==
  ASSUME TypeOK
  PROVE  \A c \in Clients :
           /\ sent[c] \in Seq(Messages) /\ sent[c] \in Seq(Message)
           /\ stream[c] \in Seq(Byte) /\ delivered[c] \in Nat
           /\ m_RcvBuffer[c] \in Seq(Byte) /\ m_iMaxDataLen[c] \in Nat
           /\ decoded[c] \in Seq(Reading)
<1>1. Messages \subseteq Message
  BY DecoderAssumption DEF Message
<1>2. \A s \in Seq(Messages) : s \in Seq(Message)
  BY <1>1, SeqMonotonic
<1> QED BY <1>2 DEF TypeOK, Reading

\* DecoderInv in the terms of the lemmas above.
LEMMA DecodedIs ==
  ASSUME NEW c
  PROVE  DecodedInOrder(c)
           <=> /\ Progress(stream[c], sent[c], decoded[c], delivered[c], m_RcvBuffer[c])
               /\ Len(m_RcvBuffer[c]) <= m_iMaxDataLen[c]
               /\ pClient # c
                    => Settled(stream[c], sent[c], decoded[c], delivered[c])
BY DEF DecodedInOrder, Progress, Settled

LEMMA DecodedIsPrime ==
  ASSUME NEW c
  PROVE  DecodedInOrder(c)'
           <=> /\ Progress(stream'[c], sent'[c], decoded'[c], delivered'[c], m_RcvBuffer'[c])
               /\ Len(m_RcvBuffer'[c]) <= m_iMaxDataLen'[c]
               /\ pClient' # c
                    => Settled(stream'[c], sent'[c], decoded'[c], delivered'[c])
BY DEF DecodedInOrder, Progress, Settled

\* Nothing is sent, delivered or decoded at first.
LEMMA DecoderInit == ~Telnet /\ Init => TypeOK /\ DecoderInv
<1> SUFFICES ASSUME ~Telnet, Init PROVE TypeOK /\ DecoderInv
  OBVIOUS
<1>1. TypeOK
  BY DecoderAssumption, EmptySeq DEF Init, TypeOK
<1>2. ASSUME NEW c \in Clients PROVE MadeOf(stream[c], sent[c]) /\ DecodedInOrder(c)
  <2>1. /\ sent[c] = <<>> /\ stream[c] = <<>> /\ delivered[c] = 0 /\ decoded[c] = <<>>
        /\ m_RcvBuffer[c] = <<>> /\ m_iMaxDataLen[c] = InitialBuffer
    BY <1>2 DEF Init
  <2>2. MadeOf(stream[c], sent[c])
    BY <2>1, NothingSent
  <2>3. Len(<<>>) = 0 /\ Before(<<>>, 0 + 1) = 0
    BY DEF Before
  <2>4. SubSeq(<<>>, 0 + 1, 0) = <<>>
    <3>1. /\ <<>> \in Seq(Byte) /\ 0 \in Nat /\ 0 <= 0 /\ 0 <= Len(<<>>)
      BY <2>3, EmptySeq
    <3> DEFINE q == SubSeq(<<>>, 0 + 1, 0)
    <3>2. q \in Seq(Byte) /\ Len(q) = 0 - 0
      BY <3>1, Piece
    <3> HIDE DEF q
    <3>3. q = <<>>
      BY <3>2, EmptySeq
    <3> QED BY <3>3 DEF q
  <2>5. Progress(<<>>, <<>>, <<>>, 0, <<>>)
    BY <2>3, <2>4 DEF Progress
  <2>6. Settled(<<>>, <<>>, <<>>, 0)
    BY DEF Settled
  <2>7. 0 <= InitialBuffer
    BY DecoderAssumption
  <2> QED BY <2>1, <2>2, <2>3, <2>5, <2>6, <2>7, DecodedIs
<1> QED BY <1>1, <1>2 DEF DecoderInv

\* A client that does not act keeps what it has.
LEMMA OthersKeep ==
  ASSUME NEW c, MadeOf(stream[c], sent[c]), DecodedInOrder(c),
         stream'[c] = stream[c], sent'[c] = sent[c], decoded'[c] = decoded[c],
         delivered'[c] = delivered[c], m_RcvBuffer'[c] = m_RcvBuffer[c],
         m_iMaxDataLen'[c] = m_iMaxDataLen[c],
         pClient' # c => pClient # c
  PROVE  MadeOf(stream'[c], sent'[c]) /\ DecodedInOrder(c)'
<1>1. /\ Progress(stream[c], sent[c], decoded[c], delivered[c], m_RcvBuffer[c])
      /\ Len(m_RcvBuffer[c]) <= m_iMaxDataLen[c]
      /\ pClient # c => Settled(stream[c], sent[c], decoded[c], delivered[c])
  BY DecodedIs
<1>2. /\ Progress(stream'[c], sent'[c], decoded'[c], delivered'[c], m_RcvBuffer'[c])
      /\ Len(m_RcvBuffer'[c]) <= m_iMaxDataLen'[c]
      /\ pClient' # c => Settled(stream'[c], sent'[c], decoded'[c], delivered'[c])
  BY <1>1
<1> QED BY <1>2, DecodedIsPrime

\* A client sends a frame.
LEMMA InvSends ==
  ASSUME ~Telnet, TypeOK, DecoderInv, NEW c \in Clients, NEW m \in Messages,
         ClientSends(c, m)
  PROVE  TypeOK' /\ DecoderInv'
<1>1. m \in Message
  BY DecoderAssumption DEF Message
<1>2. /\ sent'[c] = Append(sent[c], m) /\ stream'[c] = stream[c] \o Frame(m)
      /\ \A d \in Clients \ {c} : sent'[d] = sent[d] /\ stream'[d] = stream[d]
      /\ UNCHANGED <<delivered, m_RcvBuffer, m_iMaxDataLen, pClient, decoded>>
  BY DEF ClientSends, TypeOK
<1>3. /\ sent[c] \in Seq(Messages) /\ sent[c] \in Seq(Message)
      /\ stream[c] \in Seq(Byte) /\ delivered[c] \in Nat /\ decoded[c] \in Seq(Reading)
  BY SentAreMessages
<1>4. sent'[c] \in Seq(Messages) /\ stream'[c] \in Seq(Byte)
  BY <1>1, <1>2, <1>3, AppendProperties, EndsGrow
<1>5. TypeOK'
  BY <1>2, <1>4 DEF ClientSends, TypeOK
<1>6. MadeOf(stream[c], sent[c]) /\ DecodedInOrder(c)
  BY DEF DecoderInv
<1>7. MadeOf(stream'[c], sent'[c]) /\ DecodedInOrder(c)'
  <2> DEFINE st == stream[c]
             ms == sent[c]
             dec == decoded[c]
             d == delivered[c]
             b == m_RcvBuffer[c]
  <2>1. /\ Progress(st, ms, dec, d, b) /\ Len(b) <= m_iMaxDataLen[c]
        /\ pClient # c => Settled(st, ms, dec, d)
    BY <1>6, DecodedIs
  <2>2. /\ st \in Seq(Byte) /\ ms \in Seq(Message) /\ dec \in Seq(Reading)
        /\ d \in Nat /\ MadeOf(st, ms)
    BY <1>3, <1>6
  <2> HIDE DEF st, ms, dec, d, b
  <2>3. /\ Progress(st \o Frame(m), Append(ms, m), dec, d, b)
        /\ Settled(st, ms, dec, d) => Settled(st \o Frame(m), Append(ms, m), dec, d)
    BY <1>1, <2>1, <2>2, ProgressSent
  <2>4. MadeOf(st \o Frame(m), Append(ms, m))
    BY <1>1, <2>2, AnotherFrame
  <2>5. /\ stream'[c] = st \o Frame(m) /\ sent'[c] = Append(ms, m)
        /\ decoded'[c] = dec /\ delivered'[c] = d /\ m_RcvBuffer'[c] = b
        /\ m_iMaxDataLen'[c] = m_iMaxDataLen[c] /\ pClient' = pClient
    BY <1>2 DEF st, ms, dec, d, b
  <2>6. /\ Progress(stream'[c], sent'[c], decoded'[c], delivered'[c], m_RcvBuffer'[c])
        /\ Len(m_RcvBuffer'[c]) <= m_iMaxDataLen'[c]
        /\ pClient' # c => Settled(stream'[c], sent'[c], decoded'[c], delivered'[c])
    BY <2>1, <2>3, <2>5
  <2> QED BY <2>4, <2>5, <2>6, DecodedIsPrime
<1>8. ASSUME NEW d \in Clients \ {c}
      PROVE  MadeOf(stream'[d], sent'[d]) /\ DecodedInOrder(d)'
  <2>1. MadeOf(stream[d], sent[d]) /\ DecodedInOrder(d)
    BY DEF DecoderInv
  <2> QED BY <1>2, <2>1, OthersKeep
<1> QED BY <1>5, <1>7, <1>8 DEF DecoderInv

\* OnData.
LEMMA InvOnData ==
  ASSUME ~Telnet, TypeOK, DecoderInv, NEW c \in Clients,
         NEW len \in 1..(Len(stream[c]) - delivered[c]), OnData(c, len)
  PROVE  TypeOK' /\ DecoderInv'
<1> DEFINE st == stream[c]
           ms == sent[c]
           dec == decoded[c]
           d == delivered[c]
           b == m_RcvBuffer[c]
           b2 == b \o RemoveCR(SubSeq(st, d + 1, d + len))
           max == m_iMaxDataLen[c]
<1>1. /\ st \in Seq(Byte) /\ ms \in Seq(Message) /\ dec \in Seq(Reading)
      /\ d \in Nat /\ max \in Nat /\ b \in Seq(Byte)
  BY SentAreMessages
<1>2. MadeOf(st, ms) /\ DecodedInOrder(c)
  BY DEF DecoderInv
<1>3. Progress(st, ms, dec, d, b) /\ Len(b) <= max
  BY <1>2, DecodedIs
<1>4. /\ pClient = NoClient /\ sent' = sent /\ stream' = stream /\ decoded' = decoded
      /\ delivered' = [delivered EXCEPT ![c] = d + len]
      /\ m_RcvBuffer' = [m_RcvBuffer EXCEPT ![c] = b2]
      /\ m_iMaxDataLen' = [m_iMaxDataLen EXCEPT ![c] = GrownBuffer(max, Len(b2))]
      /\ pClient' = IF GetPayLoadLength(b2) = 0 THEN NoClient ELSE c
  BY DEF OnData
<1>5. /\ delivered \in [Clients -> Nat] /\ m_RcvBuffer \in [Clients -> Seq(Byte)]
      /\ m_iMaxDataLen \in [Clients -> Nat]
  BY DEF TypeOK
<1>6. /\ delivered'[c] = d + len /\ m_RcvBuffer'[c] = b2
      /\ m_iMaxDataLen'[c] = GrownBuffer(max, Len(b2))
      /\ \A x \in Clients \ {c} :
           /\ delivered'[x] = delivered[x] /\ m_RcvBuffer'[x] = m_RcvBuffer[x]
           /\ m_iMaxDataLen'[x] = m_iMaxDataLen[x]
  <2> HIDE DEF d, b2, max
  <2> QED BY <1>4, <1>5
<1>7. len \in 1..(Len(st) - d)
  OBVIOUS
<1> HIDE DEF st, ms, dec, d, b, max
<1>8. /\ Progress(st, ms, dec, d + len, b2)
      /\ GetPayLoadLength(b2) = 0 => Settled(st, ms, dec, d + len)
  BY <1>1, <1>2, <1>3, <1>7, ProgressReceived
<1> HIDE DEF b2
<1>9. d + len \in Nat
  BY <1>1, <1>7, LenProperties
<1>10. b2 \in Seq(Byte) /\ Len(b2) \in Nat
  <2> DEFINE d2 == d + len
  <2>1. d2 \in Nat /\ Progress(st, ms, dec, d2, b2)
    BY <1>8, <1>9
  <2> HIDE DEF d2
  <2>2. b2 \in Seq(Byte)
    BY <1>1, <1>2, <2>1, ProgressIs
  <2> QED BY <2>2, LenProperties
<1>11. GrownBuffer(max, Len(b2)) \in Nat /\ Len(b2) <= GrownBuffer(max, Len(b2))
  BY <1>1, <1>10, DecoderAssumption DEF GrownBuffer
<1>12. TypeOK'
  <2>1. /\ delivered' \in [Clients -> Nat] /\ m_RcvBuffer' \in [Clients -> Seq(Byte)]
        /\ m_iMaxDataLen' \in [Clients -> Nat]
    BY <1>4, <1>5, <1>9, <1>10, <1>11
  <2>2. pClient' \in Clients \cup {NoClient}
    BY <1>4
  <2> QED BY <1>4, <2>1, <2>2 DEF TypeOK
<1>13. MadeOf(stream'[c], sent'[c]) /\ DecodedInOrder(c)'
  <2>1. stream'[c] = st /\ sent'[c] = ms /\ decoded'[c] = dec
    BY <1>4 DEF st, ms, dec
  <2>2. pClient' # c => GetPayLoadLength(b2) = 0
    BY <1>4
  <2>3. /\ Progress(stream'[c], sent'[c], decoded'[c], delivered'[c], m_RcvBuffer'[c])
        /\ Len(m_RcvBuffer'[c]) <= m_iMaxDataLen'[c]
        /\ pClient' # c => Settled(stream'[c], sent'[c], decoded'[c], delivered'[c])
    BY <1>6, <1>8, <1>11, <2>1, <2>2
  <2> QED BY <1>2, <2>1, <2>3, DecodedIsPrime
<1>14. ASSUME NEW x \in Clients \ {c}
       PROVE  MadeOf(stream'[x], sent'[x]) /\ DecodedInOrder(x)'
  <2>1. MadeOf(stream[x], sent[x]) /\ DecodedInOrder(x)
    BY DEF DecoderInv
  <2>2. pClient # x
    BY <1>4, DecoderAssumption
  <2> QED BY <1>4, <1>6, <2>1, <2>2, OthersKeep
<1> QED BY <1>12, <1>13, <1>14 DEF DecoderInv

\* A round of Decode's loop.
LEMMA InvDecode ==
  ASSUME ~Telnet, TypeOK, DecoderInv, NEW c \in Clients, c = pClient, Decode
  PROVE  TypeOK' /\ DecoderInv'
<1> DEFINE st == stream[c]
           ms == sent[c]
           dec == decoded[c]
           d == delivered[c]
           b == m_RcvBuffer[c]
           data == DeleteFromStart(b, HeaderSize)
           payload == GetPayLoadLength(b) - HeaderSize
           r == ProcessedSocketData(SubSeq(data, 1, payload - 1))
           b2 == DeleteFromStart(data, payload)
<1>1. c \in Clients
  OBVIOUS
<1>2. /\ st \in Seq(Byte) /\ ms \in Seq(Message) /\ dec \in Seq(Reading)
      /\ d \in Nat /\ b \in Seq(Byte) /\ m_iMaxDataLen[c] \in Nat
  BY <1>1, SentAreMessages
<1>3. MadeOf(st, ms) /\ DecodedInOrder(c)
  BY <1>1 DEF DecoderInv
<1>4. Progress(st, ms, dec, d, b) /\ Len(b) <= m_iMaxDataLen[c]
  BY <1>3, DecodedIs
<1>5. /\ WholeFrame(b)
      /\ decoded' = [decoded EXCEPT ![c] = Append(dec, r)]
      /\ m_RcvBuffer' = [m_RcvBuffer EXCEPT ![c] = b2]
      /\ sent' = sent /\ stream' = stream /\ delivered' = delivered
      /\ m_iMaxDataLen' = m_iMaxDataLen /\ pClient' = pClient
  BY DEF Decode
<1>6. /\ r \in Reading /\ Progress(st, ms, Append(dec, r), d, b2)
      /\ b2 \in Seq(Byte) /\ Len(b2) <= Len(b)
  <2> HIDE DEF st, ms, dec, d, b
  <2> QED BY <1>2, <1>3, <1>4, <1>5, ProgressDecoded
<1>7. /\ decoded \in [Clients -> Seq(Reading)] /\ m_RcvBuffer \in [Clients -> Seq(Byte)]
  BY DEF TypeOK, Reading
<1> HIDE DEF st, ms, dec, d, b, r, b2
<1>8. Append(dec, r) \in Seq(Reading)
  BY <1>2, <1>6, AppendProperties
<1>9. /\ decoded' \in [Clients -> Seq(Reading)] /\ m_RcvBuffer' \in [Clients -> Seq(Byte)]
      /\ decoded'[c] = Append(dec, r) /\ m_RcvBuffer'[c] = b2
      /\ \A x \in Clients \ {c} :
           decoded'[x] = decoded[x] /\ m_RcvBuffer'[x] = m_RcvBuffer[x]
  BY <1>1, <1>5, <1>6, <1>7, <1>8
<1>10. TypeOK'
  BY <1>5, <1>9 DEF TypeOK, Reading
<1>11. MadeOf(stream'[c], sent'[c]) /\ DecodedInOrder(c)'
  <2>1. /\ stream'[c] = st /\ sent'[c] = ms /\ delivered'[c] = d
        /\ m_iMaxDataLen'[c] = m_iMaxDataLen[c] /\ pClient' = c
    BY <1>5 DEF st, ms, d
  <2>2. Len(b2) <= m_iMaxDataLen[c]
    <3>1. Len(b2) \in Nat /\ Len(b) \in Nat
      BY <1>2, <1>6, LenProperties
    <3> QED BY <1>2, <1>4, <1>6, <3>1
  <2>3. /\ Progress(stream'[c], sent'[c], decoded'[c], delivered'[c], m_RcvBuffer'[c])
        /\ Len(m_RcvBuffer'[c]) <= m_iMaxDataLen'[c]
        /\ pClient' # c => Settled(stream'[c], sent'[c], decoded'[c], delivered'[c])
    BY <1>6, <1>9, <2>1, <2>2
  <2>4. MadeOf(stream'[c], sent'[c])
    BY <1>3, <2>1
  <2>5. DecodedInOrder(c)'
    BY <2>3, DecodedIsPrime
  <2> QED BY <2>4, <2>5
<1>12. ASSUME NEW x \in Clients \ {c}
       PROVE  MadeOf(stream'[x], sent'[x]) /\ DecodedInOrder(x)'
  <2>1. MadeOf(stream[x], sent[x]) /\ DecodedInOrder(x)
    BY DEF DecoderInv
  <2> QED BY <1>5, <1>9, <2>1, OthersKeep
<1>13. \A x \in Clients : MadeOf(stream'[x], sent'[x]) /\ DecodedInOrder(x)'
  BY <1>11, <1>12
<1> QED BY <1>10, <1>13 DEF DecoderInv

\* Decode returns when there is no further frame.
LEMMA InvReturns ==
  ASSUME ~Telnet, TypeOK, DecoderInv, DecodeReturns
  PROVE  TypeOK' /\ DecoderInv'
<1>1. /\ pClient \in Clients /\ ~WholeFrame(m_RcvBuffer[pClient]) /\ pClient' = NoClient
      /\ UNCHANGED <<sent, stream, delivered, m_RcvBuffer, m_iMaxDataLen, decoded>>
  BY DEF DecodeReturns, TypeOK
<1>2. TypeOK'
  BY <1>1 DEF TypeOK
<1>3. ASSUME NEW x \in Clients
      PROVE  MadeOf(stream'[x], sent'[x]) /\ DecodedInOrder(x)'
  <2>1. MadeOf(stream[x], sent[x]) /\ DecodedInOrder(x)
    BY DEF DecoderInv
  <2>2. CASE x # pClient
    BY <1>1, <2>1, <2>2, OthersKeep
  <2>3. CASE x = pClient
    <3> DEFINE st == stream[x]
               ms == sent[x]
               dec == decoded[x]
               d == delivered[x]
               b == m_RcvBuffer[x]
    <3>1. Progress(st, ms, dec, d, b) /\ Len(b) <= m_iMaxDataLen[x]
      BY <2>1, DecodedIs
    <3>2. /\ st \in Seq(Byte) /\ ms \in Seq(Message) /\ dec \in Seq(Reading)
          /\ d \in Nat /\ MadeOf(st, ms) /\ ~WholeFrame(b)
      BY <1>1, <2>1, <2>3, SentAreMessages
    <3>3. /\ stream'[x] = st /\ sent'[x] = ms /\ decoded'[x] = dec
          /\ delivered'[x] = d /\ m_RcvBuffer'[x] = b
          /\ m_iMaxDataLen'[x] = m_iMaxDataLen[x]
      BY <1>1
    <3> HIDE DEF st, ms, dec, d, b
    <3>4. Settled(st, ms, dec, d)
      BY <3>1, <3>2, RoundOrSettled
    <3>5. /\ Progress(stream'[x], sent'[x], decoded'[x], delivered'[x], m_RcvBuffer'[x])
          /\ Len(m_RcvBuffer'[x]) <= m_iMaxDataLen'[x]
          /\ pClient' # x => Settled(stream'[x], sent'[x], decoded'[x], delivered'[x])
      BY <3>1, <3>3, <3>4
    <3> QED BY <3>2, <3>3, <3>5, DecodedIsPrime
  <2> QED BY <2>2, <2>3
<1> QED BY <1>2, <1>3 DEF DecoderInv

LEMMA DecoderNext == ~Telnet /\ TypeOK /\ DecoderInv /\ [Next]_vars => TypeOK' /\ DecoderInv'
<1> SUFFICES ASSUME ~Telnet, TypeOK, DecoderInv, [Next]_vars
             PROVE  TypeOK' /\ DecoderInv'
  OBVIOUS
<1>1. ASSUME NEW c \in Clients, NEW m \in Messages, ClientSends(c, m)
      PROVE  TypeOK' /\ DecoderInv'
  BY <1>1, InvSends
<1>2. ASSUME NEW c \in Clients, NEW len \in 1..(Len(stream[c]) - delivered[c]),
             OnData(c, len)
      PROVE  TypeOK' /\ DecoderInv'
  BY <1>2, InvOnData
<1>3. CASE Decode
  <2>1. pClient \in Clients
    BY <1>3 DEF Decode, TypeOK
  <2> QED BY <1>3, <2>1, InvDecode
<1>4. CASE DecodeReturns
  BY <1>4, InvReturns
<1>5. CASE UNCHANGED vars
  <2>1. TypeOK'
    BY <1>5 DEF vars, TypeOK
  <2>2. ASSUME NEW x \in Clients
        PROVE  MadeOf(stream'[x], sent'[x]) /\ DecodedInOrder(x)'
    <3>1. MadeOf(stream[x], sent[x]) /\ DecodedInOrder(x)
      BY DEF DecoderInv
    <3> QED BY <1>5, <3>1, OthersKeep DEF vars
  <2> QED BY <2>1, <2>2 DEF DecoderInv
<1> QED BY <1>1, <1>2, <1>3, <1>4, <1>5 DEF Next

-----------------------------------------------------------------------------
(* The theorems.                                                           *)

\* The inductive invariant holds in every state.
LEMMA DecoderInvariant == ~Telnet /\ Spec => [](TypeOK /\ DecoderInv)
<1>1. ~Telnet /\ Init => TypeOK /\ DecoderInv
  BY DecoderInit
<1>2. ~Telnet /\ TypeOK /\ DecoderInv /\ [Next]_vars => TypeOK' /\ DecoderInv'
  BY DecoderNext
<1>3. ~Telnet => [](~Telnet)
  OBVIOUS
<1> QED BY <1>1, <1>2, <1>3, PTL DEF Spec

\* Decode never makes a message with a field that is not a number, and never
\* cuts off more than the buffer holds (ServerAPI::Decode, ClientData).
THEOREM DecoderTypeCorrect == ~Telnet /\ Spec => []TypeOK
BY DecoderInvariant, PTL

\* ClientData::Append and DeleteFromStart stay within the array, and no byte is
\* lost or used twice.
THEOREM BufferHoldsTheRest == ~Telnet /\ Spec => []BufferFits
<1>1. TypeOK /\ DecoderInv /\ ~Telnet => BufferFits
  <2> SUFFICES ASSUME TypeOK, DecoderInv, ~Telnet, NEW c \in Clients
               PROVE  /\ Len(m_RcvBuffer[c]) <= m_iMaxDataLen[c]
                      /\ IsSuffix(m_RcvBuffer[c], SubSeq(stream[c], 1, delivered[c]))
    BY DEF BufferFits
  <2> DEFINE st == stream[c]
             ms == sent[c]
             dec == decoded[c]
             d == delivered[c]
             b == m_RcvBuffer[c]
             a == Before(st, Len(dec) + 1)
  <2>1. /\ st \in Seq(Byte) /\ ms \in Seq(Message) /\ dec \in Seq(Reading)
        /\ d \in Nat /\ MadeOf(st, ms) /\ DecodedInOrder(c)
    BY SentAreMessages DEF DecoderInv
  <2>2. Progress(st, ms, dec, d, b) /\ Len(b) <= m_iMaxDataLen[c]
    BY <2>1, DecodedIs
  <2> HIDE DEF st, ms, dec, d, b
  <2>3. a \in Nat
    BY <2>1, <2>2, ProgressIs
  <2>4. a <= d /\ d <= Len(st) /\ b = SubSeq(st, a + 1, d)
    BY <2>2 DEF Progress
  <2> HIDE DEF a
  <2>5. IsSuffix(b, SubSeq(st, 1, d))
    BY <2>1, <2>3, <2>4, LeftIsSuffix
  <2> QED BY <2>2, <2>5 DEF st, d, b
<1>2. ~Telnet => [](~Telnet)
  OBVIOUS
<1> QED BY <1>1, <1>2, DecoderInvariant, PTL

\* Wherever TCP cuts the stream, exactly the messages that have arrived are
\* made, in the order sent (ServerAPI::OnData, Decode, ProcessedSocketData).
THEOREM DecodesWhatArrived ==
  ~Telnet /\ ~DocumentedOrder /\ Spec => []FramesDecoded
<1>1. TypeOK /\ DecoderInv /\ ~Telnet /\ ~DocumentedOrder => FramesDecoded
  <2> SUFFICES ASSUME TypeOK, DecoderInv, ~Telnet, ~DocumentedOrder,
                      pClient = NoClient, NEW c \in Clients
               PROVE  decoded[c] = SubSeq(sent[c], 1, FramesDelivered(c))
    BY DEF FramesDecoded
  <2> DEFINE st == stream[c]
             ms == sent[c]
             dec == decoded[c]
             d == delivered[c]
             b == m_RcvBuffer[c]
  <2>1. /\ st \in Seq(Byte) /\ ms \in Seq(Message) /\ dec \in Seq(Reading)
        /\ d \in Nat /\ MadeOf(st, ms) /\ DecodedInOrder(c)
    BY SentAreMessages DEF DecoderInv
  <2>2. pClient # c
    BY DecoderAssumption
  <2>3. Progress(st, ms, dec, d, b) /\ Settled(st, ms, dec, d)
    BY <2>1, <2>2, DecodedIs
  <2>4. FramesDelivered(c) = Cardinality({e \in FrameEnds(st) : e <= d})
    BY DEF FramesDelivered
  <2> HIDE DEF st, ms, dec, d, b
  <2>5. FramesDelivered(c) = Len(dec)
    BY <2>1, <2>3, <2>4, SettledIsComplete
  <2>6. dec = SubSeq(ms, 1, Len(dec))
    BY <2>1, <2>3, ReadAsSent DEF Progress
  <2> QED BY <2>5, <2>6 DEF dec, ms
<1>2. ~Telnet => [](~Telnet)
  OBVIOUS
<1>3. ~DocumentedOrder => [](~DocumentedOrder)
  OBVIOUS
<1> QED BY <1>1, <1>2, <1>3, DecoderInvariant, PTL
=============================================================================
