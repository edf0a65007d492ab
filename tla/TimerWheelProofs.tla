--------------------------- MODULE TimerWheelProofs ---------------------------
(***************************************************************************)
(* Proofs about the timer wheel (module TimerWheel), for every size of the *)
(* wheel and of the id table, every interval and every time a pass may     *)
(* take.  First positions modulo the wheel, then sequences of boxes, ids   *)
(* and objects apart from the wheel, then one lemma per action.            *)
(***************************************************************************)
EXTENDS TimerWheel, SequenceTheorems, NaturalsInduction, WellFoundedInduction, TLAPS

-----------------------------------------------------------------------------
(* Remainders.                                                             *)

LEMMA DivMod ==
  ASSUME NEW a \in Nat, NEW n \in Nat, n > 0
  PROVE  /\ a % n \in 0..(n - 1)
         /\ \E q \in Nat : a = n * q + (a % n)
<1>1. a % n \in 0..(n - 1)
  BY SMT
<1>2. a \div n \in Nat
  BY SMT
<1>3. a = n * (a \div n) + (a % n)
  BY SMT
<1> QED BY <1>1, <1>2, <1>3

LEMMA ModIs ==
  ASSUME NEW n \in Nat, n > 0, NEW q \in Nat, NEW r \in 0..(n - 1)
  PROVE  (n * q + r) % n = r
  BY SMT

LEMMA TimesSucc ==
  ASSUME NEW A \in Nat, NEW q \in Nat
  PROVE  /\ A * q \in Nat
         /\ A * (q + 1) = A * q + A
         /\ A * (q + 2) = A * q + 2 * A
  BY SMT

LEMMA TimesMono ==
  ASSUME NEW A \in Nat, NEW p \in Nat, NEW q \in Nat, p <= q
  PROVE  A * p <= A * q
  BY SMT

\* Reducing modulo a multiple of A first changes nothing.
LEMMA SlotAt ==
  ASSUME NEW A \in Nat, A > 0, NEW M \in Nat, M > 0, M % A = 0,
         NEW pos \in 0..(M - 1), NEW k \in 0..(A - 1)
  PROVE  ((pos + k) % M) % A =
           IF (pos % A) + k < A THEN (pos % A) + k ELSE (pos % A) + k - A
<1>1. PICK m \in Nat : M = A * m
  <2>1. PICK q \in Nat : M = A * q + (M % A)
    BY DivMod
  <2>2. A * q \in Nat
    OBVIOUS
  <2> QED BY <2>1, <2>2
<1>2. PICK q \in Nat : pos = A * q + (pos % A)
  BY DivMod
<1>3. pos % A \in 0..(A - 1)
  BY DivMod
<1>4. m >= 1 /\ A <= M
  <2>1. m # 0
    BY <1>1, A * 0 = 0
  <2>2. m = (m - 1) + 1 /\ m - 1 \in Nat
    BY <2>1
  <2>3. A * ((m - 1) + 1) = A * (m - 1) + A /\ A * (m - 1) >= 0
    BY <2>2, TimesSucc
  <2> QED BY <1>1, <2>2, <2>3
<1>5. CASE pos + k < M
  <2>1. (pos + k) % M = pos + k
    BY <1>5
  <2>2. CASE (pos % A) + k < A
    <3>1. (A * q + ((pos % A) + k)) % A = (pos % A) + k
      BY <1>3, <2>2, ModIs
    <3>2. pos + k = A * q + ((pos % A) + k)
      BY <1>2, <1>3, A * q \in Nat
    <3> QED BY <2>1, <2>2, <3>1, <3>2
  <2>3. CASE (pos % A) + k >= A
    <3>0. (pos % A) + k - A \in 0..(A - 1) /\ q + 1 \in Nat
      BY <1>3, <2>3
    <3>1. (A * (q + 1) + ((pos % A) + k - A)) % A = (pos % A) + k - A
      BY <3>0, ModIs
    <3>2. A * (q + 1) = A * q + A /\ A * q \in Nat
      BY TimesSucc
    <3>3. pos + k = A * (q + 1) + ((pos % A) + k - A)
      BY <1>2, <1>3, <3>2
    <3> QED BY <1>3, <2>1, <2>3, <3>1, <3>3
  <2> QED BY <1>3, <2>1, <2>2, <2>3
<1>6. CASE pos + k >= M
  <2> DEFINE r == pos + k - M
  <2>1. r \in 0..(M - 1) /\ r \in 0..(A - 1)
    BY <1>4, <1>6
  <2>2. (M * 1 + r) % M = r /\ M * 1 + r = pos + k
    BY <2>1, ModIs
  <2>3. r % A = r
    BY <2>1
  <2>4. q + 1 = m
    <3>1. A * q \in Nat /\ A * (q + 1) = A * q + A /\ A * (q + 2) = A * q + 2 * A
      BY TimesSucc
    <3>2. q < m
      <4>1. q >= m => A * q >= A * m
        BY TimesMono
      <4> QED BY <1>1, <1>2, <1>3, <3>1, <4>1
    <3>3. ~(q + 2 <= m)
      <4>1. q + 2 <= m => A * (q + 2) <= A * m
        BY TimesMono
      <4> QED BY <1>1, <1>2, <1>3, <1>6, <3>1, <4>1
    <3> QED BY <3>2, <3>3
  <2>5. (pos % A) + k = A + r
    <3>1. A * q \in Nat /\ A * (q + 1) = A * q + A
      BY TimesSucc
    <3> QED BY <1>1, <1>2, <1>3, <2>4, <3>1
  <2> QED BY <1>3, <2>1, <2>2, <2>3, <2>5
<1> QED BY <1>5, <1>6

-----------------------------------------------------------------------------
(* Sequences and their elements.                                           *)

Elems(q) == {q[i] : i \in 1..Len(q)}

LEMMA ElemsTail ==
  ASSUME NEW S, NEW q \in Seq(S), q # <<>>
  PROVE  /\ Head(q) \in Elems(q) /\ Head(q) \in S /\ Tail(q) \in Seq(S)
         /\ Elems(q) = {Head(q)} \cup Elems(Tail(q))
         /\ Head(q) = q[1] /\ Len(Tail(q)) = Len(q) - 1 /\ Len(q) >= 1
         /\ \A i \in 1..Len(Tail(q)) : Tail(q)[i] = q[i + 1]
<1>1. /\ Tail(q) \in Seq(S) /\ Len(Tail(q)) = Len(q) - 1 /\ Head(q) = q[1]
      /\ Len(q) \in Nat /\ Len(q) >= 1
      /\ \A i \in 1..Len(Tail(q)) : Tail(q)[i] = q[i + 1]
  BY HeadTailProperties
<1>2. Head(q) \in Elems(q) /\ Head(q) \in S
  BY <1>1, ElementOfSeq DEF Elems
<1>3. ASSUME NEW i \in 1..Len(q) PROVE q[i] \in {Head(q)} \cup Elems(Tail(q))
  <2>1. CASE i = 1
    BY <1>1, <2>1
  <2>2. CASE i # 1
    <3>1. i - 1 \in 1..Len(Tail(q)) /\ Tail(q)[i - 1] = q[i]
      BY <1>1, <2>2
    <3> QED BY <3>1 DEF Elems
  <2> QED BY <2>1, <2>2
<1>4. ASSUME NEW i \in 1..Len(Tail(q)) PROVE Tail(q)[i] \in Elems(q)
  BY <1>1 DEF Elems
<1>5. Elems(q) = {Head(q)} \cup Elems(Tail(q))
  BY <1>2, <1>3, <1>4 DEF Elems
<1> QED BY <1>1, <1>2, <1>5

LEMMA ElemsAppend ==
  ASSUME NEW S, NEW q \in Seq(S), NEW x \in S
  PROVE  /\ Append(q, x) \in Seq(S) /\ Elems(Append(q, x)) = Elems(q) \cup {x}
         /\ Len(Append(q, x)) = Len(q) + 1 /\ Append(q, x)[Len(q) + 1] = x
         /\ \A i \in 1..Len(q) : Append(q, x)[i] = q[i]
         /\ Len(q) \in Nat
<1>1. /\ Append(q, x) \in Seq(S) /\ Len(q) \in Nat
      /\ Len(Append(q, x)) = Len(q) + 1 /\ Append(q, x)[Len(q) + 1] = x
      /\ \A i \in 1..Len(q) : Append(q, x)[i] = q[i]
  BY AppendProperties, LenProperties
<1>2. \A i \in 1..(Len(q) + 1) : i \in 1..Len(q) \/ i = Len(q) + 1
  BY <1>1
<1>3. ASSUME NEW i \in 1..Len(q)
      PROVE  i \in 1..Len(Append(q, x)) /\ Append(q, x)[i] = q[i]
  BY <1>1
<1>4. Len(q) + 1 \in 1..Len(Append(q, x))
  BY <1>1
<1>5. Elems(Append(q, x)) \subseteq Elems(q) \cup {x}
  BY <1>1, <1>2 DEF Elems
<1>6. Elems(q) \cup {x} \subseteq Elems(Append(q, x))
  BY <1>1, <1>3, <1>4 DEF Elems
<1> QED BY <1>1, <1>5, <1>6

LEMMA ElemsPush ==
  ASSUME NEW S, NEW q \in Seq(S), NEW x \in S
  PROVE  /\ <<x>> \o q \in Seq(S) /\ Elems(<<x>> \o q) = {x} \cup Elems(q)
         /\ IsInjective(q) /\ x \notin Elems(q) => IsInjective(<<x>> \o q)
<1> DEFINE p == <<x>> \o q
<1>1. /\ p \in Seq(S) /\ Len(p) = 1 + Len(q) /\ Len(q) \in Nat
      /\ p[1] = x /\ \A i \in 2..Len(p) : p[i] = q[i - 1]
  BY ConcatProperties, LenProperties
<1> HIDE DEF p
<1>2. ASSUME NEW i \in 1..Len(p), i # 1 PROVE i - 1 \in 1..Len(q) /\ p[i] = q[i - 1]
  BY <1>1, <1>2
<1>3. ASSUME NEW i \in 1..Len(q) PROVE i + 1 \in 1..Len(p) /\ p[i + 1] = q[i]
  BY <1>1
<1>4. Elems(p) \subseteq {x} \cup Elems(q)
  BY <1>1, <1>2 DEF Elems
<1>5. {x} \cup Elems(q) \subseteq Elems(p)
  <2>1. 1 \in 1..Len(p)
    BY <1>1
  <2>2. x \in Elems(p)
    BY <1>1, <2>1 DEF Elems
  <2>3. Elems(q) \subseteq Elems(p)
    BY <1>3 DEF Elems
  <2> QED BY <2>2, <2>3
<1>6. ASSUME IsInjective(q), x \notin Elems(q) PROVE IsInjective(p)
  <2>1. DOMAIN p = 1..Len(p) /\ DOMAIN q = 1..Len(q)
    BY <1>1, LenProperties
  <2>2. ASSUME NEW i \in 1..Len(p), NEW j \in 1..Len(p), p[i] = p[j] PROVE i = j
    <3>1. CASE i = 1 /\ j = 1
      BY <3>1
    <3>2. CASE i = 1 /\ j # 1
      BY <1>1, <1>2, <1>6, <2>2, <3>2 DEF Elems
    <3>3. CASE i # 1 /\ j = 1
      BY <1>1, <1>2, <1>6, <2>2, <3>3 DEF Elems
    <3>4. CASE i # 1 /\ j # 1
      BY <1>1, <1>2, <1>6, <2>1, <2>2, <3>4 DEF IsInjective
    <3> QED BY <3>1, <3>2, <3>3, <3>4
  <2> QED BY <2>1, <2>2 DEF IsInjective
<1> QED BY <1>1, <1>4, <1>5, <1>6 DEF p

LEMMA ElemsPop ==
  ASSUME NEW S, NEW q \in Seq(S), q # <<>>, IsInjective(q)
  PROVE  IsInjective(Tail(q)) /\ Elems(Tail(q)) = Elems(q) \ {Head(q)}
<1> USE ElemsTail
<1>1. DOMAIN q = 1..Len(q) /\ DOMAIN Tail(q) = 1..Len(Tail(q)) /\ Len(q) \in Nat
  BY LenProperties
<1>2. ASSUME NEW i \in 1..Len(Tail(q)) PROVE i + 1 \in 1..Len(q) /\ Tail(q)[i] = q[i + 1]
  BY <1>1
<1>3. IsInjective(Tail(q))
  <2>1. ASSUME NEW i \in 1..Len(Tail(q)), NEW j \in 1..Len(Tail(q)), Tail(q)[i] = Tail(q)[j]
        PROVE  i = j
    <3>1. q[i + 1] = q[j + 1]
      BY <1>2, <2>1
    <3> QED BY <1>1, <1>2, <3>1 DEF IsInjective
  <2> QED BY <1>1, <2>1 DEF IsInjective
<1>4. Head(q) \notin Elems(Tail(q))
  <2>1. ASSUME NEW i \in 1..Len(Tail(q)), Tail(q)[i] = q[1] PROVE FALSE
    <3>1. 1 \in 1..Len(q) /\ i + 1 # 1
      BY <1>1
    <3> QED BY <1>1, <1>2, <2>1, <3>1 DEF IsInjective
  <2>2. Head(q) = q[1]
    OBVIOUS
  <2> QED BY <2>1, <2>2 DEF Elems
<1>5. Elems(q) = {Head(q)} \cup Elems(Tail(q))
  OBVIOUS
<1> QED BY <1>3, <1>4, <1>5

-----------------------------------------------------------------------------
(* Shelves of boxes, as a function.                                        *)

Rows == [s \in Shelves |-> Shelf(s)]

Held(R) == UNION {Elems(R[s]) : s \in Shelves}

Distinct(R) ==
  \A r, s \in Shelves : \A i \in 1..Len(R[r]), j \in 1..Len(R[s]) :
    R[r][i].ui_TimerID = R[s][j].ui_TimerID => r = s /\ i = j

\* No two boxes of a set have the same id.
OneEach(B) == \A b, c \in B : b.ui_TimerID = c.ui_TimerID => b = c

LEMMA DistinctIsOneEach ==
  ASSUME NEW R, Distinct(R)
  PROVE  OneEach(Held(R))
  BY DEF Distinct, OneEach, Held, Elems

\* The first box of a shelf is taken off.
LEMMA PopRow ==
  ASSUME NEW R \in [Shelves -> Seq(Box)], Distinct(R), NEW s \in Shelves, R[s] # <<>>,
         NEW Q, Q = [R EXCEPT ![s] = Tail(@)]
  PROVE  /\ Q \in [Shelves -> Seq(Box)] /\ Distinct(Q)
         /\ Head(R[s]) \in Held(R) /\ Head(R[s]) \in Box
         /\ Held(Q) = Held(R) \ {Head(R[s])}
         /\ \A b \in Held(Q) : b.ui_TimerID # Head(R[s]).ui_TimerID
<1>1. /\ Head(R[s]) \in Elems(R[s]) /\ Head(R[s]) \in Box /\ Tail(R[s]) \in Seq(Box)
      /\ Elems(R[s]) = {Head(R[s])} \cup Elems(Tail(R[s]))
      /\ Head(R[s]) = R[s][1] /\ Len(Tail(R[s])) = Len(R[s]) - 1 /\ Len(R[s]) >= 1
      /\ \A i \in 1..Len(Tail(R[s])) : Tail(R[s])[i] = R[s][i + 1]
  BY ElemsTail
<1>2. Q \in [Shelves -> Seq(Box)] /\ Q[s] = Tail(R[s])
        /\ \A r \in Shelves \ {s} : Q[r] = R[r]
  BY <1>1
<1> DEFINE up(r) == IF r = s THEN 1 ELSE 0
<1>3. ASSUME NEW r \in Shelves, NEW i \in 1..Len(Q[r])
      PROVE  i + up(r) \in 1..Len(R[r]) /\ Q[r][i] = R[r][i + up(r)]
  <2>1. Len(R[r]) \in Nat
    BY LenProperties
  <2> QED BY <1>1, <1>2, <2>1
<1>4. Distinct(Q)
  <2> SUFFICES ASSUME NEW r \in Shelves, NEW q \in Shelves,
                      NEW i \in 1..Len(Q[r]), NEW j \in 1..Len(Q[q]),
                      Q[r][i].ui_TimerID = Q[q][j].ui_TimerID
               PROVE  r = q /\ i = j
    BY DEF Distinct
  <2>1. r = q /\ i + up(r) = j + up(q)
    BY <1>3 DEF Distinct
  <2> QED BY <2>1
<1>5. ASSUME NEW r \in Shelves, NEW i \in 1..Len(Q[r])
      PROVE  Q[r][i].ui_TimerID # Head(R[s]).ui_TimerID
  <2>1. 1 \in 1..Len(R[s])
    BY <1>1, LenProperties
  <2>2. ~(r = s /\ i + up(r) = 1)
    OBVIOUS
  <2> QED BY <1>1, <1>3, <2>1, <2>2 DEF Distinct
<1>6. \A b \in Held(Q) : b.ui_TimerID # Head(R[s]).ui_TimerID
  BY <1>5 DEF Held, Elems
<1>7. Held(R) = Held(Q) \cup {Head(R[s])}
  BY <1>1, <1>2 DEF Held
<1> QED BY <1>1, <1>2, <1>4, <1>6, <1>7 DEF Held

\* A box with an id of its own is put at the end of a shelf.
LEMMA PushRow ==
  ASSUME NEW R \in [Shelves -> Seq(Box)], Distinct(R), NEW s \in Shelves, NEW box \in Box,
         \A b \in Held(R) : b.ui_TimerID # box.ui_TimerID,
         NEW Q, Q = [R EXCEPT ![s] = Append(@, box)]
  PROVE  /\ Q \in [Shelves -> Seq(Box)] /\ Distinct(Q)
         /\ Held(Q) = Held(R) \cup {box}
<1>1. /\ Append(R[s], box) \in Seq(Box)
      /\ Elems(Append(R[s], box)) = Elems(R[s]) \cup {box}
      /\ Len(Append(R[s], box)) = Len(R[s]) + 1 /\ Append(R[s], box)[Len(R[s]) + 1] = box
      /\ \A i \in 1..Len(R[s]) : Append(R[s], box)[i] = R[s][i]
      /\ Len(R[s]) \in Nat
  BY ElemsAppend
<1>2. Q \in [Shelves -> Seq(Box)] /\ Q[s] = Append(R[s], box)
        /\ \A r \in Shelves \ {s} : Q[r] = R[r]
  BY <1>1
<1>3. ASSUME NEW r \in Shelves, NEW i \in 1..Len(Q[r])
      PROVE  \/ i \in 1..Len(R[r]) /\ Q[r][i] = R[r][i]
             \/ r = s /\ i = Len(R[s]) + 1 /\ Q[r][i] = box
  BY <1>1, <1>2
<1>4. ASSUME NEW r \in Shelves, NEW i \in 1..Len(R[r])
      PROVE  R[r][i].ui_TimerID # box.ui_TimerID
  BY DEF Held, Elems
<1>5. Distinct(Q)
  <2> SUFFICES ASSUME NEW r \in Shelves, NEW q \in Shelves,
                      NEW i \in 1..Len(Q[r]), NEW j \in 1..Len(Q[q]),
                      Q[r][i].ui_TimerID = Q[q][j].ui_TimerID
               PROVE  r = q /\ i = j
    BY DEF Distinct
  <2>1. CASE i \in 1..Len(R[r]) /\ Q[r][i] = R[r][i]
    <3>1. Q[q][j] # box
      BY <1>4, <2>1
    <3>2. j \in 1..Len(R[q]) /\ Q[q][j] = R[q][j]
      BY <1>3, <3>1
    <3> QED BY <2>1, <3>2 DEF Distinct
  <2>2. CASE r = s /\ i = Len(R[s]) + 1 /\ Q[r][i] = box
    <3>1. ~(j \in 1..Len(R[q]) /\ Q[q][j] = R[q][j])
      BY <1>4, <2>2
    <3> QED BY <1>3, <2>2, <3>1
  <2> QED BY <1>3, <2>1, <2>2
<1>6. Held(Q) = Held(R) \cup {box}
  BY <1>1, <1>2 DEF Held
<1> QED BY <1>2, <1>5, <1>6

-----------------------------------------------------------------------------
(* Ids, boxes and objects: B are the boxes there are, F the free ids, m    *)
(* the table and tm the objects.                                           *)

Objects == [Timers -> {NULL} \cup TimerFields]
Tables == [0..MaxTimerID -> Timers \cup {NULL}]

Sound(B, F, m, tm) ==
  /\ \A b \in B : b.ui_TimerID \notin F
  /\ \A b \in B : m[b.ui_TimerID] # NULL =>
       /\ m[b.ui_TimerID] = b.p_Timer
       /\ tm[b.p_Timer] # NULL /\ tm[b.p_Timer].ui_TimerID = b.ui_TimerID
  /\ \A t \in Timers : tm[t] # NULL /\ tm[t].ui_TimerID # 0 =>
       /\ m[tm[t].ui_TimerID] = t
       /\ \E b \in B : b.ui_TimerID = tm[t].ui_TimerID

LEMMA NullIsNoObject == NULL \notin Timers /\ NULL \notin TimerFields
  BY TimerAssumption

\* A dead box is dropped.
LEMMA SoundDrop ==
  ASSUME NEW B \in SUBSET Box, NEW F, NEW m \in Tables, NEW tm \in Objects,
         Sound(B, F, m, tm), OneEach(B), NEW box \in B, m[box.ui_TimerID] = NULL
  PROVE  Sound(B \ {box}, F \cup {box.ui_TimerID}, m, tm)
<1>1. \A b \in B \ {box} : b.ui_TimerID # box.ui_TimerID
  BY DEF OneEach
<1>2. ASSUME NEW t \in Timers, tm[t] # NULL, tm[t].ui_TimerID # 0
      PROVE  tm[t].ui_TimerID # box.ui_TimerID
  BY <1>2, NullIsNoObject DEF Sound
<1> QED BY <1>1, <1>2 DEF Sound

\* A one-shot timer has fired.
WithoutID(tm, t) == [tm EXCEPT ![t].ui_TimerID = 0]

LEMMA SoundEnd ==
  ASSUME NEW B \in SUBSET Box, NEW F, NEW m \in Tables, NEW tm \in Objects,
         Sound(B, F, m, tm), OneEach(B), NEW box \in B, m[box.ui_TimerID] # NULL,
         NEW n, n = WithoutID(tm, box.p_Timer)
  PROVE  Sound(B \ {box}, F \cup {box.ui_TimerID}, m, n)
<1> DEFINE t == box.p_Timer
<1>0. t \in Timers /\ tm[t] \in TimerFields /\ m[box.ui_TimerID] = t
        /\ tm[t].ui_TimerID = box.ui_TimerID
  BY DEF Sound, Box, Objects
<1>1. 0 \in 0..MaxTimerID
  BY TimerAssumption
<1>2. n \in Objects /\ n[t] \in TimerFields /\ n[t].ui_TimerID = 0
        /\ \A u \in Timers \ {t} : n[u] = tm[u]
  BY <1>0, <1>1 DEF Objects, TimerFields, WithoutID
<1>3. \A b \in B \ {box} : b.ui_TimerID # box.ui_TimerID
  BY DEF OneEach
<1>4. ASSUME NEW b \in B \ {box}, m[b.ui_TimerID] # NULL PROVE b.p_Timer # t
  BY <1>0, <1>3, <1>4 DEF Sound
<1>5. ASSUME NEW b \in B \ {box}, m[b.ui_TimerID] # NULL
      PROVE  /\ m[b.ui_TimerID] = b.p_Timer
             /\ n[b.p_Timer] # NULL /\ n[b.p_Timer].ui_TimerID = b.ui_TimerID
  <2>1. b.p_Timer \in Timers \ {t}
    BY <1>4, <1>5 DEF Box
  <2> QED BY <1>2, <1>5, <2>1 DEF Sound
<1>6. ASSUME NEW u \in Timers, n[u] # NULL, n[u].ui_TimerID # 0
      PROVE  /\ m[n[u].ui_TimerID] = u
             /\ \E b \in B \ {box} : b.ui_TimerID = n[u].ui_TimerID
  <2>1. u # t /\ n[u] = tm[u]
    BY <1>2, <1>6
  <2>2. tm[u].ui_TimerID # box.ui_TimerID
    BY <1>0, <1>6, <2>1 DEF Sound
  <2> QED BY <1>6, <2>1, <2>2 DEF Sound
<1>7. \A b \in B \ {box} : b.ui_TimerID \notin F \cup {box.ui_TimerID}
  BY <1>3 DEF Sound
<1> QED BY <1>2, <1>5, <1>6, <1>7 DEF Sound

\* The next part of an interval is set.
WithNextFire(tm, t, next) == [tm EXCEPT ![t].ui_NextFire = next]

LEMMA SoundNextFire ==
  ASSUME NEW B \in SUBSET Box, NEW F, NEW m \in Tables, NEW tm \in Objects,
         Sound(B, F, m, tm), NEW t \in Timers, tm[t] # NULL, NEW next \in Nat,
         NEW n, n = WithNextFire(tm, t, next)
  PROVE  Sound(B, F, m, n)
<1>1. tm[t] \in TimerFields
  BY DEF Objects
<1>2. /\ n \in Objects /\ n[t] \in TimerFields /\ n[t].ui_NextFire = next
      /\ n[t].ui_TimerID = tm[t].ui_TimerID
      /\ \A u \in Timers \ {t} : n[u] = tm[u]
  BY <1>1 DEF Objects, TimerFields, WithNextFire
<1>3. n[t] # NULL
  BY <1>2, NullIsNoObject
<1>4. ASSUME NEW u \in Timers
      PROVE  (n[u] # NULL <=> tm[u] # NULL) /\ (tm[u] # NULL => n[u].ui_TimerID = tm[u].ui_TimerID)
  BY <1>2, <1>3
<1>5. \A b \in B : b.p_Timer \in Timers
  BY DEF Box
<1>6. Sound(B, F, m, n)
  BY <1>4, <1>5 DEF Sound
<1> QED BY <1>6

\* A timer is deleted: its box stays, dead.
LEMMA SoundDelete ==
  ASSUME NEW B \in SUBSET Box, NEW F, NEW m \in Tables, NEW tm \in Objects,
         Sound(B, F, m, tm), NEW t \in Timers, tm[t] # NULL,
         NEW k, k = [m EXCEPT ![tm[t].ui_TimerID] = NULL],
         NEW n, n = [tm EXCEPT ![t] = NULL]
  PROVE  k \in Tables /\ n \in Objects /\ Sound(B, F, k, n)
<1> DEFINE id == tm[t].ui_TimerID
<1>1. tm[t] \in TimerFields /\ id \in 0..MaxTimerID
  BY DEF Objects, TimerFields
<1>2. /\ k \in Tables /\ k[id] = NULL /\ \A j \in 0..MaxTimerID \ {id} : k[j] = m[j]
      /\ n \in Objects /\ n[t] = NULL /\ \A u \in Timers \ {t} : n[u] = tm[u]
  BY <1>1 DEF Objects, Tables
<1>3. ASSUME NEW b \in B, k[b.ui_TimerID] # NULL
      PROVE  /\ k[b.ui_TimerID] = b.p_Timer
             /\ n[b.p_Timer] # NULL /\ n[b.p_Timer].ui_TimerID = b.ui_TimerID
  <2>1. b.ui_TimerID \in 0..MaxTimerID /\ b.p_Timer \in Timers
    BY DEF Box, Ids
  <2>2. b.ui_TimerID # id /\ k[b.ui_TimerID] = m[b.ui_TimerID]
    BY <1>2, <1>3, <2>1
  <2>3. b.p_Timer # t
    BY <1>3, <2>2 DEF Sound
  <2> QED BY <1>2, <1>3, <2>1, <2>2, <2>3 DEF Sound
<1>4. ASSUME NEW u \in Timers, n[u] # NULL, n[u].ui_TimerID # 0
      PROVE  /\ k[n[u].ui_TimerID] = u
             /\ \E b \in B : b.ui_TimerID = n[u].ui_TimerID
  <2>1. u # t /\ n[u] = tm[u] /\ tm[u] \in TimerFields
    BY <1>2, <1>4 DEF Objects
  <2>2. m[tm[u].ui_TimerID] = u /\ tm[u].ui_TimerID \in 0..MaxTimerID
    BY <1>4, <2>1 DEF Sound, TimerFields
  <2>3. tm[u].ui_TimerID # id
    <3>1. CASE id = 0
      BY <1>4, <2>1, <3>1
    <3>2. CASE id # 0
      BY <2>1, <2>2, <3>2 DEF Sound
    <3> QED BY <3>1, <3>2
  <2> QED BY <1>2, <1>4, <2>1, <2>2, <2>3 DEF Sound
<1>5. \A b \in B : b.ui_TimerID \notin F
  BY DEF Sound
<1> QED BY <1>2, <1>3, <1>4, <1>5 DEF Sound

\* A timer is created with a free id.
LEMMA SoundCreate ==
  ASSUME NEW B \in SUBSET Box, NEW F, NEW m \in Tables, NEW tm \in Objects,
         Sound(B, F, m, tm), NEW t \in Timers, tm[t] = NULL,
         NEW id \in Ids, id \in F, NEW fields \in TimerFields, fields.ui_TimerID = id,
         NEW box, box.ui_TimerID = id, box.p_Timer = t,
         NEW k, k = [m EXCEPT ![id] = t], NEW n, n = [tm EXCEPT ![t] = fields]
  PROVE  Sound(B \cup {box}, F \ {id}, k, n)
<1>1. id \in 0..MaxTimerID /\ id # 0
  BY TimerAssumption DEF Ids
<1>2. /\ k \in Tables /\ k[id] = t /\ \A j \in 0..MaxTimerID \ {id} : k[j] = m[j]
      /\ n \in Objects /\ n[t] = fields /\ n[t] # NULL
      /\ \A u \in Timers \ {t} : n[u] = tm[u]
  BY <1>1, NullIsNoObject DEF Objects, Tables
<1>3. \A b \in B : b.ui_TimerID # id
  BY DEF Sound
<1>4. ASSUME NEW b \in B, k[b.ui_TimerID] # NULL
      PROVE  /\ k[b.ui_TimerID] = b.p_Timer
             /\ n[b.p_Timer] # NULL /\ n[b.p_Timer].ui_TimerID = b.ui_TimerID
  <2>1. b.ui_TimerID \in 0..MaxTimerID /\ b.p_Timer \in Timers
    BY DEF Box, Ids
  <2>2. k[b.ui_TimerID] = m[b.ui_TimerID]
    BY <1>2, <1>3, <2>1
  <2>3. b.p_Timer # t
    BY <1>4, <2>2 DEF Sound
  <2> QED BY <1>2, <1>4, <2>1, <2>2, <2>3 DEF Sound
<1>5. ASSUME NEW u \in Timers, n[u] # NULL, n[u].ui_TimerID # 0
      PROVE  /\ k[n[u].ui_TimerID] = u
             /\ \E b \in B \cup {box} : b.ui_TimerID = n[u].ui_TimerID
  <2>1. CASE u = t
    <3>1. n[u].ui_TimerID = id
      BY <1>2, <2>1
    <3>2. box \in B \cup {box} /\ box.ui_TimerID = id
      OBVIOUS
    <3> QED BY <1>2, <2>1, <3>1, <3>2
  <2>2. CASE u # t
    <3>1. n[u] = tm[u] /\ tm[u] \in TimerFields
      BY <1>2, <1>5, <2>2 DEF Objects
    <3>2. /\ m[tm[u].ui_TimerID] = u /\ tm[u].ui_TimerID \in 0..MaxTimerID
          /\ \E b \in B : b.ui_TimerID = tm[u].ui_TimerID
      BY <1>5, <3>1 DEF Sound, TimerFields
    <3> QED BY <1>2, <1>3, <3>1, <3>2
  <2> QED BY <2>1, <2>2
<1>6. \A b \in B \cup {box} : b.ui_TimerID \notin F \ {id}
  BY DEF Sound
<1>7. \A b \in B \cup {box} : k[b.ui_TimerID] # NULL =>
        /\ k[b.ui_TimerID] = b.p_Timer
        /\ n[b.p_Timer] # NULL /\ n[b.p_Timer].ui_TimerID = b.ui_TimerID
  BY <1>2, <1>4
<1>8. Sound(B \cup {box}, F \ {id}, k, n)
  BY <1>5, <1>6, <1>7 DEF Sound
<1> QED BY <1>2, <1>3, <1>8

\* Boxes with different ids are boxes of different objects.
LEMMA OtherObject ==
  ASSUME NEW B, NEW F, NEW m, NEW tm, Sound(B, F, m, tm),
         NEW b \in B, NEW c \in B, b.ui_TimerID # c.ui_TimerID,
         m[b.ui_TimerID] # NULL, m[c.ui_TimerID] # NULL
  PROVE  b.p_Timer # c.p_Timer
  BY DEF Sound

-----------------------------------------------------------------------------
(* The inductive invariant.                                                *)

\* IdsSound about shelves, sets of boxes and sets of ids.
SoundInv ==
  /\ Distinct(Rows) /\ IsInjective(stack_FreeTimerIDs)
  /\ Sound(Held(Rows), Elems(stack_FreeTimerIDs), m_ptrTimers, timer)

TableInv ==
  /\ i_MaxTimers >= 1
  /\ \A id \in Elems(stack_FreeTimerIDs) : id < i_MaxTimers
  /\ \A b \in Held(Rows) : b.ui_TimerID < i_MaxTimers

WheelSafe == TypeOK /\ IdsSound /\ WheelInv

LEMMA ShelvesAre ==
  /\ ARRAY_SIZE \in Nat /\ ARRAY_SIZE > 0
  /\ Slots \subseteq Shelves
  /\ ARRAY_SIZE \in Shelves /\ ARRAY_SIZE + 1 \in Shelves
  /\ ARRAY_SIZE \notin Slots /\ ARRAY_SIZE + 1 \notin Slots
  /\ ARRAY_SIZE # ARRAY_SIZE + 1
  /\ \A s \in Shelves : s \in Slots \/ s = ARRAY_SIZE \/ s = ARRAY_SIZE + 1
  /\ 0 \notin Ids /\ NoBox \notin Box
<1>1. 0 \notin Ids /\ NoBox \notin Box
  BY DEF Ids, NoBox, Box
<1> QED BY <1>1, TimerAssumption DEF Slots, Shelves

\* What each shelf is.
LEMMA RowsAre ==
  ASSUME TypeOK
  PROVE  /\ Rows \in [Shelves -> Seq(Box)]
         /\ \A s \in Slots : Rows[s] = set_Timers[s] /\ set_Timers[s] \in Seq(Box)
         /\ Rows[ARRAY_SIZE] = lst_FireAll
         /\ Rows[ARRAY_SIZE + 1] = IF pTimeBox = NoBox THEN <<>> ELSE <<pTimeBox>>
         /\ Held(Rows) \in SUBSET Box
<1>1. \A s \in Slots : set_Timers[s] \in Seq(Box)
  BY DEF TypeOK
<1>2. /\ \A s \in Slots : Shelf(s) = set_Timers[s]
      /\ Shelf(ARRAY_SIZE) = lst_FireAll
      /\ Shelf(ARRAY_SIZE + 1) = IF pTimeBox = NoBox THEN <<>> ELSE <<pTimeBox>>
  BY ShelvesAre DEF Shelf
<1>3. ASSUME NEW s \in Shelves PROVE Shelf(s) \in Seq(Box)
  <2>1. lst_FireAll \in Seq(Box) /\ (pTimeBox # NoBox => pTimeBox \in Box)
    BY DEF TypeOK
  <2>2. pTimeBox \in Box => <<pTimeBox>> \in Seq(Box)
    OBVIOUS
  <2>3. <<>> \in Seq(Box)
    OBVIOUS
  <2> QED BY <1>1, <1>2, <2>1, <2>2, <2>3, ShelvesAre
<1>4. \A s \in Shelves : Rows[s] = Shelf(s)
  BY DEF Rows
<1>5. Rows \in [Shelves -> Seq(Box)]
  BY <1>3 DEF Rows
<1>6. ASSUME NEW s \in Shelves, NEW i \in 1..Len(Rows[s]) PROVE Rows[s][i] \in Box
  BY <1>5, ElementOfSeq
<1> QED BY <1>1, <1>2, <1>4, <1>5, <1>6, ShelvesAre DEF Held, Elems

LEMMA IdsSoundIs ==
  ASSUME TypeOK
  PROVE  IdsSound <=> SoundInv
<1>1. \A s \in Shelves : Rows[s] = Shelf(s)
  BY DEF Rows
<1>2. /\ \A s \in Shelves : \A i \in 1..Len(Shelf(s)) : Shelf(s)[i] \in Held(Rows)
      /\ \A b \in Held(Rows) : \E s \in Shelves : \E i \in 1..Len(Shelf(s)) : b = Shelf(s)[i]
  BY <1>1 DEF Held, Elems
<1>3. /\ \A k \in 1..Len(stack_FreeTimerIDs) :
           stack_FreeTimerIDs[k] \in Elems(stack_FreeTimerIDs)
      /\ \A f \in Elems(stack_FreeTimerIDs) :
           \E k \in 1..Len(stack_FreeTimerIDs) : f = stack_FreeTimerIDs[k]
  BY DEF Elems
<1>4. Distinct(Rows) <=>
        \A r, s \in Shelves : \A i \in 1..Len(Shelf(r)), j \in 1..Len(Shelf(s)) :
          Shelf(r)[i].ui_TimerID = Shelf(s)[j].ui_TimerID => r = s /\ i = j
  BY <1>1 DEF Distinct
<1> HIDE DEF Shelves
<1>5. ASSUME IdsSound PROVE SoundInv
  <2>1. ASSUME NEW b \in Held(Rows)
        PROVE  b.ui_TimerID \notin Elems(stack_FreeTimerIDs) /\ BoxSound(b)
    <3>1. PICK s \in Shelves : \E i \in 1..Len(Shelf(s)) : b = Shelf(s)[i]
      BY <1>2
    <3>2. PICK i \in 1..Len(Shelf(s)) : b = Shelf(s)[i]
      BY <3>1
    <3>3. /\ \A k \in 1..Len(stack_FreeTimerIDs) : stack_FreeTimerIDs[k] # b.ui_TimerID
          /\ BoxSound(b)
      BY <1>5, <3>2 DEF IdsSound
    <3> QED BY <1>3, <3>3
  <2>2. ASSUME NEW t \in Timers, timer[t] # NULL, timer[t].ui_TimerID # 0
        PROVE  /\ m_ptrTimers[timer[t].ui_TimerID] = t
               /\ \E b \in Held(Rows) : b.ui_TimerID = timer[t].ui_TimerID
    BY <1>2, <1>5, <2>2 DEF IdsSound
  <2>3. IsInjective(stack_FreeTimerIDs) /\ Distinct(Rows)
    BY <1>4, <1>5 DEF IdsSound
  <2> QED BY <2>1, <2>2, <2>3 DEF SoundInv, Sound, BoxSound, IsTimerLive
<1>6. ASSUME SoundInv PROVE IdsSound
  <2>1. ASSUME NEW s \in Shelves, NEW i \in 1..Len(Shelf(s))
        PROVE  /\ \A k \in 1..Len(stack_FreeTimerIDs) :
                    stack_FreeTimerIDs[k] # Shelf(s)[i].ui_TimerID
               /\ BoxSound(Shelf(s)[i])
    BY <1>2, <1>3, <1>6 DEF SoundInv, Sound, BoxSound, IsTimerLive
  <2>2. ASSUME NEW t \in Timers, timer[t] # NULL, timer[t].ui_TimerID # 0
        PROVE  /\ m_ptrTimers[timer[t].ui_TimerID] = t
               /\ \E s \in Shelves : \E i \in 1..Len(Shelf(s)) :
                    Shelf(s)[i].ui_TimerID = timer[t].ui_TimerID
    BY <1>2, <1>6, <2>2 DEF SoundInv, Sound
  <2> QED BY <1>4, <1>6, <2>1, <2>2 DEF IdsSound, SoundInv
<1> QED BY <1>5, <1>6

LEMMA IdsInTableIs ==
  IdsInTable <=> TableInv
<1>1. \A s \in Shelves : Rows[s] = Shelf(s)
  BY DEF Rows
<1> QED BY <1>1 DEF IdsInTable, TableInv, Held, Elems

-----------------------------------------------------------------------------
(* Positions.                                                              *)

LEMMA Positions ==
  ASSUME TypeOK
  PROVE  /\ Slot(0) \in Slots /\ Slots = 0..(ARRAY_SIZE - 1)
         /\ \A k \in Slots :
              /\ Slot(k) \in Slots
              /\ Slot(k) = IF Slot(0) + k < ARRAY_SIZE THEN Slot(0) + k
                                                       ELSE Slot(0) + k - ARRAY_SIZE
              /\ Ahead(Slot(k)) = k
         /\ \A s \in Slots : Ahead(s) \in Slots /\ Slot(Ahead(s)) = s
         /\ \A k \in Nat : Pos(k) \in 0..(PosModulus - 1) /\ Slot(k) \in Slots
<1>1. /\ ARRAY_SIZE \in Nat /\ ARRAY_SIZE > 0 /\ PosModulus \in Nat
      /\ PosModulus > 0 /\ PosModulus % ARRAY_SIZE = 0
      /\ ui_CurrentPos \in 0..(PosModulus - 1) /\ Slots = 0..(ARRAY_SIZE - 1)
  BY TimerAssumption DEF TypeOK, Slots
<1> DEFINE p == ui_CurrentPos % ARRAY_SIZE
<1>2. p \in 0..(ARRAY_SIZE - 1)
  BY <1>1, DivMod
<1>3. \A k \in 0..(ARRAY_SIZE - 1) :
        Slot(k) = IF p + k < ARRAY_SIZE THEN p + k ELSE p + k - ARRAY_SIZE
  BY <1>1, SlotAt, ZenonT(60) DEF Slot, Pos
<1> HIDE DEF p
<1>4. Slot(0) = p
  BY <1>1, <1>2, <1>3
<1>5. ASSUME NEW k \in Nat
      PROVE  Pos(k) \in 0..(PosModulus - 1) /\ Slot(k) \in 0..(ARRAY_SIZE - 1)
  <2>1. (ui_CurrentPos + k) \in Nat
    BY <1>1
  <2>2. Pos(k) \in 0..(PosModulus - 1)
    BY <1>1, <2>1, DivMod DEF Pos
  <2> QED BY <1>1, <2>2, DivMod DEF Slot
<1>6. ASSUME NEW k \in Slots
      PROVE  /\ Slot(k) \in Slots
             /\ Slot(k) = IF p + k < ARRAY_SIZE THEN p + k ELSE p + k - ARRAY_SIZE
             /\ Ahead(Slot(k)) = k
  BY <1>1, <1>2, <1>3, <1>4 DEF Ahead
<1>7. ASSUME NEW s \in Slots
      PROVE  Ahead(s) \in Slots /\ Slot(Ahead(s)) = s
  <2>1. Ahead(s) = IF s >= p THEN s - p ELSE s - p + ARRAY_SIZE
    BY <1>4 DEF Ahead
  <2>2. Ahead(s) \in 0..(ARRAY_SIZE - 1)
    BY <1>1, <1>2, <2>1
  <2>3. Slot(Ahead(s)) = IF p + Ahead(s) < ARRAY_SIZE THEN p + Ahead(s)
                                                      ELSE p + Ahead(s) - ARRAY_SIZE
    BY <1>3, <2>2
  <2> QED BY <1>1, <1>2, <2>1, <2>2, <2>3
<1> QED BY <1>1, <1>2, <1>4, <1>5, <1>6, <1>7

\* ui_CurrentPos goes on by d.
LEMMA AheadAfter ==
  ASSUME TypeOK, NEW d \in Nat, ui_CurrentPos' = Pos(d), NEW s \in Slots
  PROVE  /\ Ahead(s)' \in Slots
         /\ d < ARRAY_SIZE => Ahead(s)' = IF Ahead(s) >= d THEN Ahead(s) - d
                                          ELSE Ahead(s) - d + ARRAY_SIZE
<1>1. /\ ARRAY_SIZE \in Nat /\ ARRAY_SIZE > 0 /\ PosModulus \in Nat
      /\ PosModulus > 0 /\ Slots = 0..(ARRAY_SIZE - 1)
  BY TimerAssumption DEF Slots
<1>2. Slot(0)' = Slot(d)
  <2>1. Pos(d) \in 0..(PosModulus - 1)
    BY Positions
  <2>2. Pos(d) + 0 = Pos(d) /\ Pos(d) % PosModulus = Pos(d)
    BY <1>1, <2>1
  <2>3. Slot(0)' = ((Pos(d) + 0) % PosModulus) % ARRAY_SIZE
    BY DEF Slot, Pos
  <2> QED BY <2>2, <2>3 DEF Slot
<1>3. Slot(d) \in Slots /\ Slot(0) \in Slots
  BY Positions
<1>4. Ahead(s)' = IF s >= Slot(d) THEN s - Slot(d) ELSE s - Slot(d) + ARRAY_SIZE
  BY <1>2 DEF Ahead
<1>5. Ahead(s)' \in Slots
  BY <1>1, <1>3, <1>4
<1>6. ASSUME d < ARRAY_SIZE
      PROVE  Ahead(s)' = IF Ahead(s) >= d THEN Ahead(s) - d
                                          ELSE Ahead(s) - d + ARRAY_SIZE
  <2>1. d \in Slots
    BY <1>1, <1>6
  <2>2. Slot(d) = IF Slot(0) + d < ARRAY_SIZE THEN Slot(0) + d
                                               ELSE Slot(0) + d - ARRAY_SIZE
    BY <2>1, Positions
  <2>3. Ahead(s) = IF s >= Slot(0) THEN s - Slot(0) ELSE s - Slot(0) + ARRAY_SIZE
    BY DEF Ahead
  <2> QED BY <1>1, <1>3, <1>4, <2>1, <2>2, <2>3
<1> QED BY <1>5, <1>6

\* Where an interval is put.
LEMMA PlaceIs ==
  ASSUME NEW interval \in Nat \ {0}
  PROVE  /\ Place(interval).offset \in Slots /\ Place(interval).offset > 0
         /\ Place(interval).nextFire \in Nat
         /\ interval = Place(interval).offset + Place(interval).nextFire
<1>1. ARRAY_SIZE \in Nat /\ ARRAY_SIZE > 1
  BY TimerAssumption
<1> QED BY <1>1 DEF Place, Slots

\* What a loop over n positions looks at: all of them, or none at the wrap.
LEMMA ScannedIs ==
  ASSUME TypeOK, NEW n \in 0..(PosModulus - 1)
  PROVE  \/ Scanned(n) = 0..(n - 1) /\ ~Wraps(n)
         \/ Scanned(n) = {} /\ Wraps(n)
<1>1. PosModulus \in Nat /\ PosModulus > 0 /\ ui_CurrentPos \in 0..(PosModulus - 1)
  BY TimerAssumption DEF TypeOK
<1>2. CASE ui_CurrentPos + n < PosModulus
  <2>1. Pos(n) = ui_CurrentPos + n
    BY <1>1, <1>2 DEF Pos
  <2>2. Scanned(n) = 0..(n - 1)
    BY <1>1, <2>1 DEF Scanned
  <2>3. n > 0 => Scanned(n) # {}
    <3>1. n > 0 => 0 \in 0..(n - 1)
      OBVIOUS
    <3> QED BY <2>2, <3>1
  <2> QED BY <2>2, <2>3 DEF Wraps
<1>3. CASE ui_CurrentPos + n >= PosModulus
  <2> DEFINE r == ui_CurrentPos + n - PosModulus
  <2>1. r \in 0..(PosModulus - 1) /\ r <= ui_CurrentPos /\ n > 0
    BY <1>1, <1>3
  <2>2. (PosModulus * 1 + r) % PosModulus = r
    BY <1>1, <2>1, ModIs
  <2>3. PosModulus * 1 + r = ui_CurrentPos + n
    BY <1>1
  <2>4. Pos(n) = r
    BY <2>2, <2>3 DEF Pos
  <2>5. Scanned(n) = {}
    BY <1>1, <2>1, <2>4 DEF Scanned
  <2> QED BY <2>1, <2>5 DEF Wraps
<1> QED BY <1>1, <1>2, <1>3

-----------------------------------------------------------------------------
(* The invariant in terms of elements, and what the pieces of the actions  *)
(* do to it.                                                               *)

\* What box still has to wait is covered by its slot, more positions ahead.
Due(b, more) ==
  IsTimerLive(b.ui_TimerID) =>
    left[b.ui_TimerID] <= timer[b.p_Timer].ui_NextFire + more

DueInv ==
  /\ \A s \in Slots : \A b \in Elems(set_Timers[s]) : Due(b, Ahead(s))
  /\ \A b \in Elems(lst_FireAll) : Due(b, IF pc = "collect" THEN Turn ELSE 0)

TrackInv ==
  \A s \in Slots : \A b \in Elems(set_Timers[s]) :
    b.ui_TimerID \notin passedOver =>
      /\ togo[b.ui_TimerID] = Ahead(s)
      /\ pc = "read" => Ahead(s) >= uiPollInterval - 1

Inner ==
  /\ TypeOK /\ SoundInv /\ TableInv /\ InHand /\ DeviationBounded
  /\ DueInv /\ TrackInv

LEMMA InnerIs == WheelSafe <=> Inner
<1>1. DueInTime <=> DueInv
  BY DEF DueInTime, DueInv, Due, Elems
<1>2. OnTrack <=> TrackInv
  BY DEF OnTrack, TrackInv, Elems
<1> QED BY <1>1, <1>2, IdsSoundIs, IdsInTableIs DEF WheelSafe, WheelInv, Inner

\* How the shelves are after a step.
LEMMA RowsNext ==
  ASSUME NEW Q \in [Shelves -> Seq(Box)],
         \A s \in Slots : set_Timers'[s] = Q[s],
         lst_FireAll' = Q[ARRAY_SIZE],
         Q[ARRAY_SIZE + 1] = IF pTimeBox' = NoBox THEN <<>> ELSE <<pTimeBox'>>
  PROVE  Rows' = Q
<1>1. \A s \in Shelves : Shelf(s)' = Q[s]
  BY ShelvesAre DEF Shelf
<1>2. Rows' = [s \in Shelves |-> Shelf(s)']
  BY DEF Rows
<1> QED BY <1>1, <1>2

LEMMA PutBoxIs ==
  ASSUME TypeOK, NEW w \in [Slots -> Seq(Box)], NEW box \in Box,
         NEW interval \in Nat \ {0}, PutBox(w, box, interval)
  PROVE  LET at == Place(interval) s == Slot(at.offset) IN
         /\ s \in Slots /\ Ahead(s) = at.offset
         /\ set_Timers' = [w EXCEPT ![s] = Append(@, box)]
         /\ set_Timers' \in [Slots -> Seq(Box)]
         /\ Elems(set_Timers'[s]) = Elems(w[s]) \cup {box}
         /\ \A r \in Slots \ {s} : set_Timers'[r] = w[r]
         /\ togo' \in [Ids -> Int] /\ togo'[box.ui_TimerID] = at.offset
         /\ \A id \in Ids \ {box.ui_TimerID} : togo'[id] = togo[id]
<1> DEFINE at == Place(interval)
           s == Slot(at.offset)
<1>1. s \in Slots /\ Ahead(s) = at.offset /\ at.offset \in Int
  <2>1. at.offset \in Slots
    BY PlaceIs
  <2>2. Slot(at.offset) \in Slots /\ Ahead(Slot(at.offset)) = at.offset
    BY <2>1, Positions
  <2>3. \A k \in Slots : k \in Int
    BY ShelvesAre DEF Slots
  <2> QED BY <2>1, <2>2, <2>3
<1>2. set_Timers' = [w EXCEPT ![s] = Append(@, box)]
        /\ togo' = [togo EXCEPT ![box.ui_TimerID] = at.offset]
  BY DEF PutBox
<1> HIDE DEF at, s
<1>3. Append(w[s], box) \in Seq(Box) /\ Elems(Append(w[s], box)) = Elems(w[s]) \cup {box}
  BY <1>1, ElemsAppend
<1>4. box.ui_TimerID \in Ids /\ togo \in [Ids -> Int]
  BY DEF Box, TypeOK
<1>5. set_Timers' \in [Slots -> Seq(Box)] /\ set_Timers'[s] = Append(w[s], box)
        /\ \A r \in Slots \ {s} : set_Timers'[r] = w[r]
  BY <1>1, <1>2, <1>3
<1>6. togo' \in [Ids -> Int] /\ togo'[box.ui_TimerID] = at.offset
        /\ \A id \in Ids \ {box.ui_TimerID} : togo'[id] = togo[id]
  BY <1>1, <1>2, <1>4
<1> QED BY <1>1, <1>2, <1>3, <1>5, <1>6 DEF at, s

LEMMA FreeBoxIs ==
  ASSUME TypeOK, NEW w, NEW box \in Box, FreeBox(w, box)
  PROVE  LET id == box.ui_TimerID IN
         /\ id \in Ids /\ set_Timers' = w
         /\ stack_FreeTimerIDs' \in Seq(Nat \ {0})
         /\ Elems(stack_FreeTimerIDs') = Elems(stack_FreeTimerIDs) \cup {id}
         /\ IsInjective(stack_FreeTimerIDs) /\ id \notin Elems(stack_FreeTimerIDs)
              => IsInjective(stack_FreeTimerIDs')
         /\ togo' \in [Ids -> Int] /\ left' \in [Ids -> Nat] /\ passedOver' \subseteq Ids
         /\ passedOver' = passedOver \ {id}
         /\ \A i \in Ids \ {id} : togo'[i] = togo[i] /\ left'[i] = left[i]
<1> DEFINE id == box.ui_TimerID
<1>1. id \in Ids /\ id \in Nat \ {0}
  BY DEF Box, Ids
<1>2. stack_FreeTimerIDs' = <<id>> \o stack_FreeTimerIDs
  BY DEF FreeBox
<1>3. /\ stack_FreeTimerIDs' \in Seq(Nat \ {0})
      /\ Elems(stack_FreeTimerIDs') = {id} \cup Elems(stack_FreeTimerIDs)
      /\ IsInjective(stack_FreeTimerIDs) /\ id \notin Elems(stack_FreeTimerIDs)
           => IsInjective(stack_FreeTimerIDs')
  BY <1>1, <1>2, ElemsPush DEF TypeOK
<1>4. /\ set_Timers' = w /\ togo' = [togo EXCEPT ![id] = 0]
      /\ left' = [left EXCEPT ![id] = 0] /\ passedOver' = passedOver \ {id}
  BY DEF FreeBox
<1>5. togo \in [Ids -> Int] /\ left \in [Ids -> Nat] /\ passedOver \subseteq Ids
  BY DEF TypeOK
<1> HIDE DEF id
<1>6. /\ togo' \in [Ids -> Int] /\ left' \in [Ids -> Nat]
      /\ \A i \in Ids \ {id} : togo'[i] = togo[i] /\ left'[i] = left[i]
  BY <1>1, <1>4, <1>5
<1> QED BY <1>1, <1>3, <1>4, <1>5, <1>6 DEF id

LEMMA AdvanceIs ==
  ASSUME TypeOK, NEW d \in Nat, NEW w, Advance(d, w)
  PROVE  /\ ui_CurrentPos' = Pos(d) /\ ui_CurrentPos' \in 0..(PosModulus - 1)
         /\ left' \in [Ids -> Nat] /\ togo' \in [Ids -> Int]
         /\ \A i \in Ids : left'[i] = IF left[i] > d THEN left[i] - d ELSE 0
         /\ \A i \in Ids : togo'[i] = IF i \in IdsInWheel(w) \ passedOver
                                      THEN togo[i] - d ELSE 0
<1>1. left \in [Ids -> Nat] /\ togo \in [Ids -> Int]
  BY DEF TypeOK
<1>2. ui_CurrentPos' = Pos(d) /\ Pos(d) \in 0..(PosModulus - 1)
  BY Positions DEF Advance
<1>3. left' = [i \in Ids |-> IF left[i] > d THEN left[i] - d ELSE 0]
      /\ togo' = [i \in Ids |-> IF i \in IdsInWheel(w) \ passedOver
                            THEN togo[i] - d ELSE 0]
  BY DEF Advance
<1>4. \A i \in Ids : left[i] \in Nat /\ togo[i] \in Int
  BY <1>1
<1>5. left' \in [Ids -> Nat] /\ togo' \in [Ids -> Int]
  BY <1>3, <1>4
<1> QED BY <1>2, <1>3, <1>5

LEMMA InWheelIs ==
  ASSUME NEW w \in [Slots -> Seq(Box)]
  PROVE  /\ IdsInWheel(w) \subseteq Ids
         /\ \A s \in Slots : \A b \in Elems(w[s]) : b.ui_TimerID \in IdsInWheel(w)
<1>1. \A s \in Slots : \A i \in 1..Len(w[s]) : w[s][i] \in Box
  BY ElementOfSeq
<1>2. \A b \in Box : b.ui_TimerID \in Ids
  BY DEF Box
<1> QED BY <1>1, <1>2 DEF IdsInWheel, Elems

LEMMA AheadStays ==
  ASSUME UNCHANGED ui_CurrentPos
  PROVE  \A s : Ahead(s)' = Ahead(s)
  BY DEF Ahead, Slot, Pos

\* The box the loop takes next.
From == IF pc = "slot" THEN Slot(0) ELSE ARRAY_SIZE

LEMMA NextBox ==
  ASSUME Inner, InLoop
  PROVE  LET box == Head(Boxes)
             Q == [Rows EXCEPT ![From] = Tail(@)]
         IN
         /\ From \in Shelves /\ Rows[From] = Boxes /\ pTimeBox = NoBox
         /\ box \in Box /\ box \in Held(Rows) /\ Due(box, 0)
         /\ Q \in [Shelves -> Seq(Box)] /\ Distinct(Q)
         /\ Held(Q) = Held(Rows) \ {box}
         /\ \A b \in Held(Q) : b.ui_TimerID # box.ui_TimerID
         /\ WheelLeft \in [Slots -> Seq(Box)]
         /\ \A s \in Slots : Q[s] = WheelLeft[s]
         /\ \A s \in Slots : Elems(WheelLeft[s]) \subseteq Elems(set_Timers[s])
         /\ \A s \in Slots : Elems(WheelLeft[s]) \subseteq Held(Q)
         /\ Q[ARRAY_SIZE + 1] = <<>>
         /\ TakeBox => /\ lst_FireAll' = Q[ARRAY_SIZE]
                       /\ lst_FireAll' \in Seq(Box)
                       /\ Elems(lst_FireAll') \subseteq Elems(lst_FireAll)
                       /\ Elems(lst_FireAll') \subseteq Held(Q)
                       /\ pc = "slot" => lst_FireAll' = <<>>
<1> DEFINE box == Head(Boxes)
           Q == [Rows EXCEPT ![From] = Tail(@)]
<1>0. TypeOK /\ SoundInv /\ InHand /\ DueInv
  BY DEF Inner
<1>1. pc \in {"slot", "all"} /\ Boxes # <<>>
  BY DEF InLoop
<1>2. Slot(0) \in Slots /\ Slot(0) \in Shelves /\ Ahead(Slot(0)) = 0
  <2>1. 0 \in Slots
    BY ShelvesAre DEF Slots
  <2> QED BY <1>0, <2>1, Positions, ShelvesAre
<1>3. From \in Shelves /\ Rows[From] = Boxes /\ From # ARRAY_SIZE + 1
  BY <1>0, <1>1, <1>2, RowsAre, ShelvesAre DEF From, Boxes
<1>4. pTimeBox = NoBox
  BY <1>0, <1>1 DEF InHand, InOnTimer
<1>5. /\ Rows \in [Shelves -> Seq(Box)] /\ Distinct(Rows)
      /\ \A s \in Slots : Rows[s] = set_Timers[s] /\ set_Timers[s] \in Seq(Box)
      /\ Rows[ARRAY_SIZE] = lst_FireAll /\ Rows[ARRAY_SIZE + 1] = <<>>
  BY <1>0, <1>4, RowsAre DEF SoundInv
<1>6. /\ Q \in [Shelves -> Seq(Box)] /\ Distinct(Q)
      /\ box \in Held(Rows) /\ box \in Box /\ Held(Q) = Held(Rows) \ {box}
      /\ \A b \in Held(Q) : b.ui_TimerID # box.ui_TimerID
  <2>1. Rows[From] # <<>> /\ box = Head(Rows[From])
    BY <1>1, <1>3
  <2>2. Q = [Rows EXCEPT ![From] = Tail(@)]
    OBVIOUS
  <2> HIDE DEF Q, box
  <2>3. Rows \in [Shelves -> Seq(Box)] /\ Distinct(Rows) /\ From \in Shelves
    BY <1>3, <1>5
  <2>4. /\ Q \in [Shelves -> Seq(Box)] /\ Distinct(Q)
        /\ Head(Rows[From]) \in Held(Rows) /\ Head(Rows[From]) \in Box
        /\ Held(Q) = Held(Rows) \ {Head(Rows[From])}
        /\ \A b \in Held(Q) : b.ui_TimerID # Head(Rows[From]).ui_TimerID
    BY <2>1, <2>2, <2>3, PopRow, Zenon
  <2> QED BY <2>1, <2>4
<1>7. Q[From] = Tail(Boxes) /\ \A s \in Shelves \ {From} : Q[s] = Rows[s]
  BY <1>3, <1>5
<1>8. /\ Tail(Boxes) \in Seq(Box) /\ box \in Elems(Boxes)
      /\ Elems(Boxes) = {box} \cup Elems(Tail(Boxes))
  BY <1>1, <1>3, <1>5, ElemsTail
<1>9. Due(box, 0)
  BY <1>0, <1>1, <1>2, <1>8 DEF DueInv, Boxes
<1> HIDE DEF Q
<1>10. /\ WheelLeft \in [Slots -> Seq(Box)]
       /\ \A s \in Slots : Q[s] = WheelLeft[s]
       /\ \A s \in Slots : Elems(WheelLeft[s]) \subseteq Elems(set_Timers[s])
  <2>1. CASE pc = "slot"
    <3>1. From = Slot(0) /\ Boxes = set_Timers[Slot(0)]
            /\ WheelLeft = [set_Timers EXCEPT ![Slot(0)] = Tail(@)]
      BY <2>1 DEF From, Boxes, WheelLeft
    <3>2. set_Timers \in [Slots -> Seq(Box)]
      BY <1>0 DEF TypeOK
    <3>3. WheelLeft \in [Slots -> Seq(Box)] /\ WheelLeft[Slot(0)] = Tail(Boxes)
            /\ \A s \in Slots \ {Slot(0)} : WheelLeft[s] = set_Timers[s]
      BY <1>2, <1>8, <3>1, <3>2
    <3> QED BY <1>2, <1>5, <1>7, <1>8, <3>1, <3>3, ShelvesAre
  <2>2. CASE pc # "slot"
    <3>1. From = ARRAY_SIZE /\ WheelLeft = set_Timers
      BY <2>2 DEF From, WheelLeft
    <3>2. set_Timers \in [Slots -> Seq(Box)]
      BY <1>0 DEF TypeOK
    <3> QED BY <1>5, <1>7, <3>1, <3>2, ShelvesAre
  <2> QED BY <2>1, <2>2
<1>11. \A s \in Slots : Elems(WheelLeft[s]) \subseteq Held(Q)
  BY <1>10, ShelvesAre DEF Held
<1>12. Q[ARRAY_SIZE + 1] = <<>>
  BY <1>3, <1>5, <1>7, ShelvesAre
<1>13. ASSUME TakeBox
       PROVE  /\ lst_FireAll' = Q[ARRAY_SIZE] /\ lst_FireAll' \in Seq(Box)
              /\ Elems(lst_FireAll') \subseteq Elems(lst_FireAll)
              /\ pc = "slot" => lst_FireAll' = <<>>
  <2>1. CASE pc = "slot"
    <3>1. lst_FireAll' = lst_FireAll /\ lst_FireAll = <<>> /\ From = Slot(0)
      BY <1>0, <1>13, <2>1 DEF TakeBox, InHand, From
    <3>2. Slot(0) # ARRAY_SIZE
      BY <1>2, ShelvesAre
    <3> QED BY <1>5, <1>6, <1>7, <3>1, <3>2, ShelvesAre
  <2>2. CASE pc # "slot"
    <3>1. lst_FireAll' = Tail(Boxes) /\ lst_FireAll = Boxes /\ From = ARRAY_SIZE
      BY <1>1, <1>13, <2>2 DEF TakeBox, From, Boxes
    <3> QED BY <1>7, <1>8, <2>2, <3>1
  <2> QED BY <2>1, <2>2
<1>14. TakeBox => Elems(lst_FireAll') \subseteq Held(Q)
  BY <1>13, ShelvesAre DEF Held
<1> QED BY <1>3, <1>4, <1>6, <1>9, <1>10, <1>11, <1>12, <1>13, <1>14 DEF Q

-----------------------------------------------------------------------------
(* The actions.                                                            *)

LEMMA DropKeepsInner == Inner /\ DropBox => Inner'
<1> SUFFICES ASSUME Inner, DropBox PROVE Inner'
  OBVIOUS
<1> DEFINE box == Head(Boxes)
           Q == [Rows EXCEPT ![From] = Tail(@)]
           id == box.ui_TimerID
<1>0. TypeOK /\ SoundInv /\ TableInv /\ InHand /\ DeviationBounded /\ DueInv /\ TrackInv
  BY DEF Inner
<1>1. /\ InLoop /\ ~IsTimerLive(id) /\ TakeBox /\ FreeBox(WheelLeft, box)
      /\ UNCHANGED <<timer, m_ptrTimers, i_MaxTimers, ui_CurrentPos,
                     ui_TotalDeviation, uiPollInterval, pc, pTimeBox>>
  BY DEF DropBox, posVars
<1>2. /\ box \in Box /\ box \in Held(Rows) /\ pTimeBox = NoBox
      /\ Q \in [Shelves -> Seq(Box)] /\ Distinct(Q)
      /\ Held(Q) = Held(Rows) \ {box}
      /\ \A b \in Held(Q) : b.ui_TimerID # id
      /\ WheelLeft \in [Slots -> Seq(Box)]
      /\ \A s \in Slots : Q[s] = WheelLeft[s]
      /\ \A s \in Slots : Elems(WheelLeft[s]) \subseteq Elems(set_Timers[s])
      /\ \A s \in Slots : Elems(WheelLeft[s]) \subseteq Held(Q)
      /\ Q[ARRAY_SIZE + 1] = <<>>
      /\ lst_FireAll' = Q[ARRAY_SIZE] /\ lst_FireAll' \in Seq(Box)
      /\ Elems(lst_FireAll') \subseteq Elems(lst_FireAll)
      /\ Elems(lst_FireAll') \subseteq Held(Q)
      /\ pc = "slot" => lst_FireAll' = <<>>
  BY <1>1, NextBox
<1> HIDE DEF box, Q
<1>3. /\ id \in Ids /\ set_Timers' = WheelLeft
      /\ stack_FreeTimerIDs' \in Seq(Nat \ {0})
      /\ Elems(stack_FreeTimerIDs') = Elems(stack_FreeTimerIDs) \cup {id}
      /\ IsInjective(stack_FreeTimerIDs) /\ id \notin Elems(stack_FreeTimerIDs)
           => IsInjective(stack_FreeTimerIDs')
      /\ togo' \in [Ids -> Int] /\ left' \in [Ids -> Nat] /\ passedOver' \subseteq Ids
      /\ passedOver' = passedOver \ {id}
      /\ \A i \in Ids \ {id} : togo'[i] = togo[i] /\ left'[i] = left[i]
  BY <1>0, <1>1, <1>2, FreeBoxIs
<1> HIDE DEF id
<1>4. TypeOK'
  BY <1>0, <1>1, <1>2, <1>3 DEF TypeOK
<1>5. Rows' = Q
  BY <1>1, <1>2, <1>3, RowsNext
<1>6. Held(Rows) \in SUBSET Box /\ OneEach(Held(Rows)) /\ m_ptrTimers[id] = NULL
        /\ m_ptrTimers \in Tables /\ timer \in Objects
  BY <1>0, <1>1, RowsAre, DistinctIsOneEach DEF SoundInv, IsTimerLive, TypeOK, Tables, Objects
<1>7. SoundInv'
  <2>1. Sound(Held(Rows) \ {box}, Elems(stack_FreeTimerIDs) \cup {id}, m_ptrTimers, timer)
    BY <1>0, <1>2, <1>6, SoundDrop DEF SoundInv, id
  <2>2. id \notin Elems(stack_FreeTimerIDs)
    BY <1>0, <1>2 DEF SoundInv, Sound, id
  <2>3. /\ Held(Rows') = Held(Rows) \ {box} /\ Distinct(Rows')
        /\ Elems(stack_FreeTimerIDs') = Elems(stack_FreeTimerIDs) \cup {id}
        /\ m_ptrTimers' = m_ptrTimers /\ timer' = timer
    BY <1>1, <1>2, <1>3, <1>5
  <2>4. Sound(Held(Rows'), Elems(stack_FreeTimerIDs'), m_ptrTimers', timer')
    BY <2>1, <2>3
  <2> QED BY <1>0, <1>3, <2>2, <2>3, <2>4 DEF SoundInv
<1>8. TableInv'
  <2>1. id < i_MaxTimers
    BY <1>0, <1>2 DEF TableInv, id
  <2>2. /\ Held(Rows)' = Held(Rows) \ {box}
        /\ Elems(stack_FreeTimerIDs)' = Elems(stack_FreeTimerIDs) \cup {id}
    BY <1>2, <1>3, <1>5
  <2> QED BY <1>0, <1>1, <2>1, <2>2 DEF TableInv
<1>9. InHand' /\ DeviationBounded'
  BY <1>0, <1>1, <1>2 DEF InHand, InLoop, InOnTimer, DeviationBounded
<1>10. \A s : Ahead(s)' = Ahead(s)
  BY <1>1, AheadStays
<1>11. pc \in {"slot", "all"}
  BY <1>1 DEF InLoop
<1>12. \A b \in Held(Q) : b.ui_TimerID \in Ids \ {id}
  BY <1>2, <1>6 DEF Box, id
<1>13. ASSUME NEW b \in Held(Q), NEW more, Due(b, more)
       PROVE  IsTimerLive(b.ui_TimerID)' =>
                left'[b.ui_TimerID] <= timer'[b.p_Timer].ui_NextFire + more
  BY <1>1, <1>3, <1>12, <1>13 DEF Due, IsTimerLive
<1>14. DueInv'
  <2>1. ASSUME NEW s \in Slots, NEW b \in Elems(set_Timers'[s]) PROVE Due(b, Ahead(s))'
    <3>1. b \in Held(Q) /\ Due(b, Ahead(s))
      BY <1>0, <1>2, <1>3 DEF DueInv
    <3> QED BY <1>10, <1>13, <3>1 DEF Due
  <2>2. ASSUME NEW b \in Elems(lst_FireAll')
        PROVE  Due(b, 0)'
    <3>1. b \in Held(Q) /\ Due(b, 0)
      BY <1>0, <1>2, <1>11 DEF DueInv
    <3> QED BY <1>13, <3>1 DEF Due
  <2>3. pc' # "collect"
    BY <1>1, <1>11
  <2> QED BY <2>1, <2>2, <2>3 DEF DueInv
<1>15. TrackInv'
  <2>1. ASSUME NEW s \in Slots, NEW b \in Elems(set_Timers'[s]),
               b.ui_TimerID \notin passedOver'
        PROVE  togo'[b.ui_TimerID] = Ahead(s)'
    <3>1. b \in Elems(set_Timers[s]) /\ b.ui_TimerID \in Ids \ {id}
      BY <1>2, <1>3, <1>12
    <3> QED BY <1>0, <1>3, <1>10, <2>1, <3>1 DEF TrackInv
  <2> QED BY <1>1, <1>11, <2>1 DEF TrackInv
<1> QED BY <1>4, <1>7, <1>8, <1>9, <1>14, <1>15 DEF Inner

LEMMA RequeueKeepsInner == Inner /\ RequeueBox => Inner'
<1> SUFFICES ASSUME Inner, RequeueBox PROVE Inner'
  OBVIOUS
<1> DEFINE box == Head(Boxes)
           Q == [Rows EXCEPT ![From] = Tail(@)]
           id == box.ui_TimerID
           t == box.p_Timer
           next == timer[t].ui_NextFire
           at == Place(next)
           s1 == Slot(at.offset)
           R == [Q EXCEPT ![s1] = Append(@, box)]
<1>0. TypeOK /\ SoundInv /\ TableInv /\ InHand /\ DeviationBounded /\ DueInv /\ TrackInv
  BY DEF Inner
<1>1. /\ InLoop /\ IsTimerLive(id) /\ next # 0 /\ TakeBox /\ PutBox(WheelLeft, box, next)
      /\ timer' = [timer EXCEPT ![t].ui_NextFire = at.nextFire]
      /\ passedOver' = passedOver \ {id}
      /\ UNCHANGED <<m_ptrTimers, stack_FreeTimerIDs, i_MaxTimers, ui_CurrentPos,
                     ui_TotalDeviation, uiPollInterval, pc, pTimeBox, left>>
  BY DEF RequeueBox, posVars, idVars
<1>2. /\ box \in Box /\ box \in Held(Rows) /\ pTimeBox = NoBox /\ Due(box, 0)
      /\ Q \in [Shelves -> Seq(Box)] /\ Distinct(Q)
      /\ Held(Q) = Held(Rows) \ {box}
      /\ \A b \in Held(Q) : b.ui_TimerID # id
      /\ WheelLeft \in [Slots -> Seq(Box)]
      /\ \A s \in Slots : Q[s] = WheelLeft[s]
      /\ \A s \in Slots : Elems(WheelLeft[s]) \subseteq Elems(set_Timers[s])
      /\ \A s \in Slots : Elems(WheelLeft[s]) \subseteq Held(Q)
      /\ Q[ARRAY_SIZE + 1] = <<>>
      /\ lst_FireAll' = Q[ARRAY_SIZE] /\ lst_FireAll' \in Seq(Box)
      /\ Elems(lst_FireAll') \subseteq Elems(lst_FireAll)
      /\ Elems(lst_FireAll') \subseteq Held(Q)
      /\ pc = "slot" => lst_FireAll' = <<>>
  BY <1>1, NextBox
<1> HIDE DEF box, Q
<1>3. id \in Ids /\ t \in Timers
  BY <1>2 DEF Box
<1>4. /\ Held(Rows) \in SUBSET Box /\ m_ptrTimers \in Tables /\ timer \in Objects
      /\ Sound(Held(Rows), Elems(stack_FreeTimerIDs), m_ptrTimers, timer)
      /\ m_ptrTimers[id] # NULL
  BY <1>0, <1>1, RowsAre DEF SoundInv, IsTimerLive, TypeOK, Tables, Objects
<1>5. timer[t] # NULL /\ timer[t] \in TimerFields
  BY <1>2, <1>3, <1>4 DEF Sound, Objects
<1>6. next \in Nat \ {0}
  BY <1>1, <1>5 DEF TimerFields
<1> HIDE DEF next
<1>7. at.nextFire \in Nat /\ at.offset \in Slots /\ next = at.offset + at.nextFire
  BY <1>6, PlaceIs
<1>8. /\ s1 \in Slots /\ Ahead(s1) = at.offset
      /\ set_Timers' = [WheelLeft EXCEPT ![s1] = Append(@, box)]
      /\ set_Timers' \in [Slots -> Seq(Box)]
      /\ Elems(set_Timers'[s1]) = Elems(WheelLeft[s1]) \cup {box}
      /\ \A r \in Slots \ {s1} : set_Timers'[r] = WheelLeft[r]
      /\ togo' \in [Ids -> Int] /\ togo'[id] = at.offset
      /\ \A i \in Ids \ {id} : togo'[i] = togo[i]
  BY <1>0, <1>1, <1>2, <1>6, PutBoxIs
<1>9. /\ timer' \in Objects /\ timer'[t].ui_NextFire = at.nextFire
      /\ \A u \in Timers \ {t} : timer'[u] = timer[u]
      /\ Sound(Held(Rows), Elems(stack_FreeTimerIDs), m_ptrTimers, timer')
  <2>1. timer' = WithNextFire(timer, t, at.nextFire)
    BY <1>1 DEF WithNextFire
  <2>2. t \in Timers /\ timer[t] # NULL /\ at.nextFire \in Nat
    BY <1>3, <1>5, <1>7
  <2> HIDE DEF t, at
  <2>3. /\ timer' \in Objects /\ timer'[t].ui_NextFire = at.nextFire
        /\ \A u \in Timers \ {t} : timer'[u] = timer[u]
    BY <1>4, <1>5, <2>1, <2>2 DEF WithNextFire, Objects, TimerFields
  <2>4. Sound(Held(Rows), Elems(stack_FreeTimerIDs), m_ptrTimers, timer')
    BY <1>4, <2>1, <2>2, SoundNextFire, Zenon
  <2> QED BY <2>3, <2>4
<1> HIDE DEF at, s1, t, id
<1>10. TypeOK'
  BY <1>0, <1>1, <1>2, <1>8, <1>9 DEF TypeOK, Objects
<1>11. R \in [Shelves -> Seq(Box)] /\ Distinct(R) /\ Held(R) = Held(Q) \cup {box}
  <2>1. s1 \in Shelves
    BY <1>8, ShelvesAre
  <2>2. \A b \in Held(Q) : b.ui_TimerID # box.ui_TimerID
    BY <1>2 DEF id
  <2>3. R = [Q EXCEPT ![s1] = Append(@, box)]
    OBVIOUS
  <2> HIDE DEF R
  <2> QED BY <1>2, <2>1, <2>2, <2>3, PushRow, ZenonT(60)
<1>12. Rows' = R
  <2>1. \A s \in Slots : set_Timers'[s] = R[s]
    BY <1>2, <1>8, ShelvesAre
  <2>2. R[ARRAY_SIZE] = lst_FireAll' /\ R[ARRAY_SIZE + 1] = <<>>
    BY <1>2, <1>8, ShelvesAre
  <2> HIDE DEF R
  <2> QED BY <1>1, <1>2, <1>11, <2>1, <2>2, RowsNext
<1> HIDE DEF R
<1>13. Held(Rows)' = Held(Rows)
  BY <1>2, <1>11, <1>12
<1>14. SoundInv' /\ TableInv'
  <2>1. Held(Rows') = Held(Rows) /\ stack_FreeTimerIDs' = stack_FreeTimerIDs
          /\ m_ptrTimers' = m_ptrTimers
    BY <1>1, <1>13
  <2> QED BY <1>0, <1>1, <1>9, <1>11, <1>12, <1>13, <2>1 DEF SoundInv, TableInv
<1>15. InHand' /\ DeviationBounded'
  BY <1>0, <1>1, <1>2 DEF InHand, InLoop, InOnTimer, DeviationBounded
<1>16. \A s : Ahead(s)' = Ahead(s)
  BY <1>1, AheadStays
<1>17. pc \in {"slot", "all"}
  BY <1>1 DEF InLoop
<1>18. \A b \in Held(Q) : b \in Held(Rows) /\ b.p_Timer \in Timers /\ b.ui_TimerID \in Ids \ {id}
  BY <1>2, <1>4 DEF Box, id
<1>19. ASSUME NEW b \in Held(Q), NEW more, Due(b, more)
       PROVE  IsTimerLive(b.ui_TimerID)' =>
                left'[b.ui_TimerID] <= timer'[b.p_Timer].ui_NextFire + more
  <2>1. IsTimerLive(b.ui_TimerID) => b.p_Timer # t
    BY <1>2, <1>4, <1>18, OtherObject DEF IsTimerLive, id, t
  <2> QED BY <1>1, <1>9, <1>18, <1>19, <2>1 DEF Due, IsTimerLive
<1>20. left'[id] <= timer'[t].ui_NextFire + Ahead(s1)
  <2>1. left[id] <= next + 0
    BY <1>1, <1>2 DEF Due, id, next, t
  <2>2. left[id] \in Nat /\ at.offset \in Nat
    <3>1. left[id] \in Nat
      BY <1>0, <1>3 DEF TypeOK
    <3>2. at.offset \in Nat
      BY <1>7, ShelvesAre DEF Slots
    <3> QED BY <3>1, <3>2
  <2> QED BY <1>1, <1>6, <1>7, <1>8, <1>9, <2>1, <2>2
<1>21. DueInv'
  <2>1. ASSUME NEW s \in Slots, NEW b \in Elems(set_Timers'[s]) PROVE Due(b, Ahead(s))'
    <3>1. CASE b \in Elems(WheelLeft[s])
      <4>1. b \in Held(Q) /\ Due(b, Ahead(s))
        BY <1>0, <1>2, <3>1 DEF DueInv
      <4> QED BY <1>16, <1>19, <4>1 DEF Due
    <3>2. CASE b \notin Elems(WheelLeft[s])
      <4>1. s = s1 /\ b = box
        BY <1>8, <3>2
      <4> QED BY <1>16, <1>20, <4>1 DEF Due, id, t
    <3> QED BY <3>1, <3>2
  <2>2. ASSUME NEW b \in Elems(lst_FireAll') PROVE Due(b, 0)'
    <3>1. b \in Held(Q) /\ Due(b, 0)
      BY <1>0, <1>2, <1>17 DEF DueInv
    <3> QED BY <1>19, <3>1 DEF Due
  <2>3. pc' # "collect"
    BY <1>1, <1>17
  <2> QED BY <2>1, <2>2, <2>3 DEF DueInv
<1>22. TrackInv'
  <2>1. ASSUME NEW s \in Slots, NEW b \in Elems(set_Timers'[s]),
               b.ui_TimerID \notin passedOver'
        PROVE  togo'[b.ui_TimerID] = Ahead(s)'
    <3>1. CASE b \in Elems(WheelLeft[s])
      <4>1. b \in Elems(set_Timers[s]) /\ b.ui_TimerID \in Ids \ {id}
        BY <1>2, <1>18, <3>1
      <4> QED BY <1>0, <1>1, <1>8, <1>16, <2>1, <4>1 DEF TrackInv
    <3>2. CASE b \notin Elems(WheelLeft[s])
      <4>1. s = s1 /\ b = box
        BY <1>8, <3>2
      <4> QED BY <1>8, <1>16, <4>1 DEF id
    <3> QED BY <3>1, <3>2
  <2> QED BY <1>1, <1>17, <2>1 DEF TrackInv
<1> QED BY <1>10, <1>14, <1>15, <1>21, <1>22 DEF Inner

LEMMA FireKeepsInner == Inner /\ FireBox => Inner'
<1> SUFFICES ASSUME Inner, FireBox PROVE Inner'
  OBVIOUS
<1> DEFINE box == Head(Boxes)
           Q == [Rows EXCEPT ![From] = Tail(@)]
           id == box.ui_TimerID
           t == box.p_Timer
           interval == timer[t].ui_Interval
           R == [Q EXCEPT ![ARRAY_SIZE + 1] = Append(@, box)]
<1>0. TypeOK /\ SoundInv /\ TableInv /\ InHand /\ DeviationBounded /\ DueInv /\ TrackInv
  BY DEF Inner
<1>1. /\ InLoop /\ IsTimerLive(id) /\ TakeBox
      /\ set_Timers' = WheelLeft /\ pTimeBox' = box
      /\ pc' = IF pc = "slot" THEN "onTimer" ELSE "onTimerAll"
      /\ timer' = IF pc = "slot" THEN timer
                  ELSE [timer EXCEPT ![t].ui_NextFire = interval]
      /\ UNCHANGED <<m_ptrTimers, stack_FreeTimerIDs, i_MaxTimers, ui_CurrentPos,
                     ui_TotalDeviation, uiPollInterval, left, togo, passedOver>>
  BY DEF FireBox, posVars, idVars, histVars
<1>2. /\ box \in Box /\ box \in Held(Rows) /\ pTimeBox = NoBox
      /\ Q \in [Shelves -> Seq(Box)] /\ Distinct(Q)
      /\ Held(Q) = Held(Rows) \ {box}
      /\ \A b \in Held(Q) : b.ui_TimerID # id
      /\ WheelLeft \in [Slots -> Seq(Box)]
      /\ \A s \in Slots : Q[s] = WheelLeft[s]
      /\ \A s \in Slots : Elems(WheelLeft[s]) \subseteq Elems(set_Timers[s])
      /\ \A s \in Slots : Elems(WheelLeft[s]) \subseteq Held(Q)
      /\ Q[ARRAY_SIZE + 1] = <<>>
      /\ lst_FireAll' = Q[ARRAY_SIZE] /\ lst_FireAll' \in Seq(Box)
      /\ Elems(lst_FireAll') \subseteq Elems(lst_FireAll)
      /\ Elems(lst_FireAll') \subseteq Held(Q)
      /\ pc = "slot" => lst_FireAll' = <<>>
  BY <1>1, NextBox
<1> HIDE DEF box, Q
<1>3. id \in Ids /\ t \in Timers /\ box # NoBox
  BY <1>2, ShelvesAre DEF Box
<1>4. /\ Held(Rows) \in SUBSET Box /\ m_ptrTimers \in Tables /\ timer \in Objects
      /\ Sound(Held(Rows), Elems(stack_FreeTimerIDs), m_ptrTimers, timer)
      /\ m_ptrTimers[id] # NULL
  BY <1>0, <1>1, RowsAre DEF SoundInv, IsTimerLive, TypeOK, Tables, Objects
<1>5. timer[t] # NULL /\ timer[t] \in TimerFields
  BY <1>2, <1>3, <1>4 DEF Sound, Objects
<1>6. interval \in Nat
  BY <1>5, TimerAssumption DEF TimerFields
<1> HIDE DEF interval
<1>7. /\ timer' \in Objects
      /\ \A u \in Timers \ {t} : timer'[u] = timer[u]
      /\ Sound(Held(Rows), Elems(stack_FreeTimerIDs), m_ptrTimers, timer')
  <2> HIDE DEF t
  <2>1. CASE pc = "slot"
    BY <1>1, <1>4, <2>1
  <2>2. CASE pc # "slot"
    <3>1. timer' = WithNextFire(timer, t, interval)
      BY <1>1, <2>2 DEF WithNextFire
    <3>2. timer' \in Objects /\ \A u \in Timers \ {t} : timer'[u] = timer[u]
      BY <1>3, <1>4, <1>5, <1>6, <3>1 DEF WithNextFire, Objects, TimerFields
    <3>3. Sound(Held(Rows), Elems(stack_FreeTimerIDs), m_ptrTimers, timer')
      BY <1>3, <1>4, <1>5, <1>6, <3>1, SoundNextFire, Zenon
    <3> QED BY <3>2, <3>3
  <2> QED BY <2>1, <2>2
<1> HIDE DEF t, id
<1>8. pc \in {"slot", "all"} /\ pc' \in {"onTimer", "onTimerAll"}
  BY <1>1 DEF InLoop
<1>9. TypeOK'
  BY <1>0, <1>1, <1>2, <1>7, <1>8 DEF TypeOK, Objects
<1>10. R \in [Shelves -> Seq(Box)] /\ Distinct(R) /\ Held(R) = Held(Q) \cup {box}
  <2>1. \A b \in Held(Q) : b.ui_TimerID # box.ui_TimerID
    BY <1>2 DEF id
  <2>2. R = [Q EXCEPT ![ARRAY_SIZE + 1] = Append(@, box)]
    OBVIOUS
  <2>3. ARRAY_SIZE + 1 \in Shelves
    BY ShelvesAre
  <2> HIDE DEF R
  <2> QED BY <1>2, <2>1, <2>2, <2>3, PushRow, ZenonT(60)
<1>11. Rows' = R
  <2>1. \A s \in Slots : set_Timers'[s] = R[s]
    BY <1>1, <1>2, ShelvesAre
  <2>2. R[ARRAY_SIZE] = lst_FireAll'
    BY <1>2, ShelvesAre
  <2>3. R[ARRAY_SIZE + 1] = <<box>>
    <3>1. Append(<<>>, box) = <<box>>
      OBVIOUS
    <3> QED BY <1>2, <3>1, ShelvesAre
  <2> HIDE DEF R
  <2> QED BY <1>1, <1>3, <1>10, <2>1, <2>2, <2>3, RowsNext
<1> HIDE DEF R
<1>12. Held(Rows)' = Held(Rows)
  BY <1>2, <1>10, <1>11
<1>13. SoundInv' /\ TableInv'
  <2>1. Held(Rows') = Held(Rows) /\ stack_FreeTimerIDs' = stack_FreeTimerIDs
          /\ m_ptrTimers' = m_ptrTimers
    BY <1>1, <1>12
  <2> QED BY <1>0, <1>1, <1>7, <1>10, <1>11, <1>12, <2>1 DEF SoundInv, TableInv
<1>14. InHand' /\ DeviationBounded'
  <2>1. lst_FireAll' # <<>> => pc' = "onTimerAll"
    BY <1>1, <1>2
  <2> QED BY <1>0, <1>1, <1>3, <1>8, <2>1 DEF InHand, InOnTimer, DeviationBounded
<1>15. \A s : Ahead(s)' = Ahead(s)
  BY <1>1, AheadStays
<1>16. \A b \in Held(Q) : b \in Held(Rows) /\ b.p_Timer \in Timers /\ b.ui_TimerID \in Ids \ {id}
  BY <1>2, <1>4 DEF Box, id
<1>17. ASSUME NEW b \in Held(Q), NEW more, Due(b, more)
       PROVE  IsTimerLive(b.ui_TimerID)' =>
                left'[b.ui_TimerID] <= timer'[b.p_Timer].ui_NextFire + more
  <2>1. IsTimerLive(b.ui_TimerID) => b.p_Timer # t
    BY <1>2, <1>4, <1>16, OtherObject DEF IsTimerLive, id, t
  <2> QED BY <1>1, <1>7, <1>16, <1>17, <2>1 DEF Due, IsTimerLive
<1>18. DueInv'
  <2>1. ASSUME NEW s \in Slots, NEW b \in Elems(set_Timers'[s]) PROVE Due(b, Ahead(s))'
    <3>1. b \in Held(Q) /\ Due(b, Ahead(s))
      BY <1>0, <1>1, <1>2 DEF DueInv
    <3> QED BY <1>15, <1>17, <3>1 DEF Due
  <2>2. ASSUME NEW b \in Elems(lst_FireAll') PROVE Due(b, 0)'
    <3>1. b \in Held(Q) /\ Due(b, 0)
      BY <1>0, <1>2, <1>8 DEF DueInv
    <3> QED BY <1>17, <3>1 DEF Due
  <2>3. pc' # "collect"
    BY <1>8
  <2> QED BY <2>1, <2>2, <2>3 DEF DueInv
<1>19. TrackInv'
  <2>1. \A s \in Slots : \A b \in Elems(set_Timers'[s]) : b \in Elems(set_Timers[s])
    BY <1>1, <1>2
  <2> QED BY <1>0, <1>1, <1>8, <1>15, <2>1 DEF TrackInv
<1> QED BY <1>9, <1>13, <1>14, <1>18, <1>19 DEF Inner

\* The box in hand while OnTimer runs.
LEMMA HandBox ==
  ASSUME Inner, InOnTimer
  PROVE  LET Q == [Rows EXCEPT ![ARRAY_SIZE + 1] = Tail(@)] IN
         /\ pTimeBox \in Box /\ pTimeBox \in Held(Rows)
         /\ Q \in [Shelves -> Seq(Box)] /\ Distinct(Q)
         /\ Held(Q) = Held(Rows) \ {pTimeBox}
         /\ \A b \in Held(Q) : b.ui_TimerID # pTimeBox.ui_TimerID
         /\ \A s \in Slots : Q[s] = set_Timers[s] /\ Elems(set_Timers[s]) \subseteq Held(Q)
         /\ Q[ARRAY_SIZE] = lst_FireAll /\ Elems(lst_FireAll) \subseteq Held(Q)
         /\ Q[ARRAY_SIZE + 1] = <<>>
<1> DEFINE last == ARRAY_SIZE + 1
           Q == [Rows EXCEPT ![last] = Tail(@)]
<1>0. TypeOK /\ SoundInv /\ InHand
  BY DEF Inner
<1>1. pTimeBox # NoBox /\ pTimeBox \in Box
  BY <1>0 DEF InHand, TypeOK
<1>2. /\ Rows \in [Shelves -> Seq(Box)] /\ Distinct(Rows)
      /\ \A s \in Slots : Rows[s] = set_Timers[s]
      /\ Rows[ARRAY_SIZE] = lst_FireAll /\ Rows[last] = <<pTimeBox>>
  BY <1>0, <1>1, RowsAre DEF SoundInv
<1>3. last \in Shelves /\ ARRAY_SIZE \in Shelves /\ last # ARRAY_SIZE
        /\ Slots \subseteq Shelves /\ last \notin Slots
  BY ShelvesAre
<1>4. Rows[last] # <<>> /\ Head(Rows[last]) = pTimeBox /\ Tail(Rows[last]) = <<>>
  BY <1>2
<1>5. Q = [Rows EXCEPT ![last] = Tail(@)]
  OBVIOUS
<1> HIDE DEF last, Q
<1>6. /\ Q \in [Shelves -> Seq(Box)] /\ Distinct(Q)
      /\ Head(Rows[last]) \in Held(Rows) /\ Head(Rows[last]) \in Box
      /\ Held(Q) = Held(Rows) \ {Head(Rows[last])}
      /\ \A b \in Held(Q) : b.ui_TimerID # Head(Rows[last]).ui_TimerID
  <2>1. Rows \in [Shelves -> Seq(Box)] /\ Distinct(Rows) /\ last \in Shelves
          /\ Rows[last] # <<>>
    BY <1>2, <1>3, <1>4
  <2> QED BY <1>5, <2>1, PopRow, Zenon
<1>7. Q[last] = <<>> /\ \A s \in Shelves \ {last} : Q[s] = Rows[s]
  BY <1>2, <1>3, <1>4, <1>5
<1>8. \A s \in Shelves : Elems(Q[s]) \subseteq Held(Q)
  BY DEF Held
<1>9. /\ \A s \in Slots : Q[s] = set_Timers[s] /\ Elems(set_Timers[s]) \subseteq Held(Q)
      /\ Q[ARRAY_SIZE] = lst_FireAll /\ Elems(lst_FireAll) \subseteq Held(Q)
  BY <1>2, <1>3, <1>7, <1>8
<1>10. /\ pTimeBox \in Held(Rows) /\ Held(Q) = Held(Rows) \ {pTimeBox}
       /\ \A b \in Held(Q) : b.ui_TimerID # pTimeBox.ui_TimerID
  BY <1>4, <1>6
<1> QED BY <1>1, <1>6, <1>7, <1>9, <1>10 DEF Q, last

LEMMA RepeatKeepsInner == Inner /\ RepeatTimer => Inner'
<1> SUFFICES ASSUME Inner, RepeatTimer PROVE Inner'
  OBVIOUS
<1> DEFINE Q == [Rows EXCEPT ![ARRAY_SIZE + 1] = Tail(@)]
           id == pTimeBox.ui_TimerID
           t == pTimeBox.p_Timer
           interval == timer[t].ui_Interval
           at == Place(interval)
           s1 == Slot(at.offset)
           R == [Q EXCEPT ![s1] = Append(@, pTimeBox)]
<1>0. TypeOK /\ SoundInv /\ TableInv /\ InHand /\ DeviationBounded /\ DueInv /\ TrackInv
  BY DEF Inner
<1>1. /\ InOnTimer /\ IsTimerLive(id) /\ PutBox(set_Timers, pTimeBox, interval)
      /\ timer' = [timer EXCEPT ![t].ui_NextFire = at.nextFire]
      /\ left' = [left EXCEPT ![id] = interval]
      /\ passedOver' = passedOver \ {id}
      /\ BackInLoop /\ pTimeBox' = NoBox
      /\ UNCHANGED <<lst_FireAll, m_ptrTimers, stack_FreeTimerIDs, i_MaxTimers,
                     ui_CurrentPos, ui_TotalDeviation, uiPollInterval>>
  BY DEF RepeatTimer, posVars, idVars
<1>2. /\ pTimeBox \in Box /\ pTimeBox \in Held(Rows)
      /\ Q \in [Shelves -> Seq(Box)] /\ Distinct(Q)
      /\ Held(Q) = Held(Rows) \ {pTimeBox}
      /\ \A b \in Held(Q) : b.ui_TimerID # id
      /\ \A s \in Slots : Q[s] = set_Timers[s] /\ Elems(set_Timers[s]) \subseteq Held(Q)
      /\ Q[ARRAY_SIZE] = lst_FireAll /\ Elems(lst_FireAll) \subseteq Held(Q)
      /\ Q[ARRAY_SIZE + 1] = <<>>
  BY <1>1, HandBox
<1> HIDE DEF Q
<1>3. id \in Ids /\ t \in Timers
  BY <1>2 DEF Box
<1>4. /\ Held(Rows) \in SUBSET Box /\ m_ptrTimers \in Tables /\ timer \in Objects
      /\ Sound(Held(Rows), Elems(stack_FreeTimerIDs), m_ptrTimers, timer)
      /\ m_ptrTimers[id] # NULL
  BY <1>0, <1>1, RowsAre DEF SoundInv, IsTimerLive, TypeOK, Tables, Objects
<1>5. timer[t] # NULL /\ timer[t] \in TimerFields
  BY <1>2, <1>3, <1>4 DEF Sound, Objects
<1>6. interval \in Nat \ {0}
  BY <1>5, TimerAssumption DEF TimerFields
<1> HIDE DEF interval
<1>7. at.nextFire \in Nat /\ at.offset \in Slots /\ interval = at.offset + at.nextFire
  BY <1>6, PlaceIs
<1>8. /\ s1 \in Slots /\ Ahead(s1) = at.offset
      /\ set_Timers' = [set_Timers EXCEPT ![s1] = Append(@, pTimeBox)]
      /\ set_Timers' \in [Slots -> Seq(Box)]
      /\ Elems(set_Timers'[s1]) = Elems(set_Timers[s1]) \cup {pTimeBox}
      /\ \A r \in Slots \ {s1} : set_Timers'[r] = set_Timers[r]
      /\ togo' \in [Ids -> Int] /\ togo'[id] = at.offset
      /\ \A i \in Ids \ {id} : togo'[i] = togo[i]
  <2>1. set_Timers \in [Slots -> Seq(Box)]
    BY <1>0 DEF TypeOK
  <2> QED BY <1>0, <1>1, <1>2, <1>6, <2>1, PutBoxIs
<1>9. /\ timer' \in Objects /\ timer'[t].ui_NextFire = at.nextFire
      /\ \A u \in Timers \ {t} : timer'[u] = timer[u]
      /\ Sound(Held(Rows), Elems(stack_FreeTimerIDs), m_ptrTimers, timer')
  <2>1. timer' = WithNextFire(timer, t, at.nextFire)
    BY <1>1 DEF WithNextFire
  <2>2. t \in Timers /\ timer[t] # NULL /\ at.nextFire \in Nat
    BY <1>3, <1>5, <1>7
  <2> HIDE DEF t, at
  <2>3. /\ timer' \in Objects /\ timer'[t].ui_NextFire = at.nextFire
        /\ \A u \in Timers \ {t} : timer'[u] = timer[u]
    BY <1>4, <1>5, <2>1, <2>2 DEF WithNextFire, Objects, TimerFields
  <2>4. Sound(Held(Rows), Elems(stack_FreeTimerIDs), m_ptrTimers, timer')
    BY <1>4, <2>1, <2>2, SoundNextFire, Zenon
  <2> QED BY <2>3, <2>4
<1> HIDE DEF at, s1, t, id
<1>10. left' \in [Ids -> Nat] /\ left'[id] = interval /\ \A i \in Ids \ {id} : left'[i] = left[i]
  <2>1. left \in [Ids -> Nat]
    BY <1>0 DEF TypeOK
  <2> QED BY <1>1, <1>3, <1>6, <2>1
<1>11. pc \in {"onTimer", "onTimerAll"} /\ pc' = IF pc = "onTimer" THEN "slot" ELSE "all"
  BY <1>1 DEF InOnTimer, BackInLoop
<1>12. TypeOK'
  BY <1>0, <1>1, <1>8, <1>9, <1>10, <1>11 DEF TypeOK, Objects
<1>13. R \in [Shelves -> Seq(Box)] /\ Distinct(R) /\ Held(R) = Held(Q) \cup {pTimeBox}
  <2>1. s1 \in Shelves
    BY <1>8, ShelvesAre
  <2>2. \A b \in Held(Q) : b.ui_TimerID # pTimeBox.ui_TimerID
    BY <1>2 DEF id
  <2>3. R = [Q EXCEPT ![s1] = Append(@, pTimeBox)]
    OBVIOUS
  <2> HIDE DEF R
  <2> QED BY <1>2, <2>1, <2>2, <2>3, PushRow, Zenon
<1>14. Rows' = R
  <2>1. \A s \in Slots : set_Timers'[s] = R[s]
    BY <1>2, <1>8, ShelvesAre
  <2>2. R[ARRAY_SIZE] = lst_FireAll' /\ R[ARRAY_SIZE + 1] = <<>>
    BY <1>1, <1>2, <1>8, ShelvesAre
  <2> HIDE DEF R
  <2> QED BY <1>1, <1>13, <2>1, <2>2, RowsNext
<1> HIDE DEF R
<1>15. Held(Rows)' = Held(Rows)
  BY <1>2, <1>13, <1>14
<1>16. SoundInv' /\ TableInv'
  <2>1. Held(Rows') = Held(Rows) /\ stack_FreeTimerIDs' = stack_FreeTimerIDs
          /\ m_ptrTimers' = m_ptrTimers
    BY <1>1, <1>15
  <2> QED BY <1>0, <1>1, <1>9, <1>13, <1>14, <1>15, <2>1 DEF SoundInv, TableInv
<1>17. InHand' /\ DeviationBounded'
  BY <1>0, <1>1, <1>11 DEF InHand, InOnTimer, DeviationBounded
<1>18. \A s : Ahead(s)' = Ahead(s)
  BY <1>1, AheadStays
<1>19. \A b \in Held(Q) : b \in Held(Rows) /\ b.p_Timer \in Timers /\ b.ui_TimerID \in Ids \ {id}
  BY <1>2, <1>4 DEF Box, id
<1>20. ASSUME NEW b \in Held(Q), NEW more, Due(b, more)
       PROVE  IsTimerLive(b.ui_TimerID)' =>
                left'[b.ui_TimerID] <= timer'[b.p_Timer].ui_NextFire + more
  <2>1. IsTimerLive(b.ui_TimerID) => b.p_Timer # t
    BY <1>2, <1>4, <1>19, OtherObject DEF IsTimerLive, id, t
  <2> QED BY <1>1, <1>9, <1>10, <1>19, <1>20, <2>1 DEF Due, IsTimerLive
<1>21. left'[id] <= timer'[t].ui_NextFire + Ahead(s1)
  <2>1. at.offset \in Nat
    BY <1>7, ShelvesAre DEF Slots
  <2> QED BY <1>6, <1>7, <1>8, <1>9, <1>10, <2>1
<1>22. DueInv'
  <2>1. ASSUME NEW s \in Slots, NEW b \in Elems(set_Timers'[s]) PROVE Due(b, Ahead(s))'
    <3>1. CASE b \in Elems(set_Timers[s])
      <4>1. b \in Held(Q) /\ Due(b, Ahead(s))
        BY <1>0, <1>2, <3>1 DEF DueInv
      <4> QED BY <1>18, <1>20, <4>1 DEF Due
    <3>2. CASE b \notin Elems(set_Timers[s])
      <4>1. s = s1 /\ b = pTimeBox
        BY <1>8, <3>2
      <4> QED BY <1>18, <1>21, <4>1 DEF Due, id, t
    <3> QED BY <3>1, <3>2
  <2>2. ASSUME NEW b \in Elems(lst_FireAll') PROVE Due(b, 0)'
    <3>1. b \in Held(Q) /\ Due(b, 0)
      BY <1>0, <1>1, <1>2, <1>11 DEF DueInv
    <3> QED BY <1>20, <3>1 DEF Due
  <2>3. pc' # "collect"
    BY <1>11
  <2> QED BY <2>1, <2>2, <2>3 DEF DueInv
<1>23. TrackInv'
  <2>1. ASSUME NEW s \in Slots, NEW b \in Elems(set_Timers'[s]),
               b.ui_TimerID \notin passedOver'
        PROVE  togo'[b.ui_TimerID] = Ahead(s)'
    <3>1. CASE b \in Elems(set_Timers[s])
      <4>1. b.ui_TimerID \in Ids \ {id}
        BY <1>2, <1>19, <3>1
      <4> QED BY <1>0, <1>1, <1>8, <1>18, <2>1, <3>1, <4>1 DEF TrackInv
    <3>2. CASE b \notin Elems(set_Timers[s])
      <4>1. s = s1 /\ b = pTimeBox
        BY <1>8, <3>2
      <4> QED BY <1>8, <1>18, <4>1 DEF id
    <3> QED BY <3>1, <3>2
  <2> QED BY <1>11, <2>1 DEF TrackInv
<1> QED BY <1>12, <1>16, <1>17, <1>22, <1>23 DEF Inner

LEMMA EndKeepsInner == Inner /\ EndTimer => Inner'
<1> SUFFICES ASSUME Inner, EndTimer PROVE Inner'
  OBVIOUS
<1> DEFINE Q == [Rows EXCEPT ![ARRAY_SIZE + 1] = Tail(@)]
           id == pTimeBox.ui_TimerID
           t == pTimeBox.p_Timer
<1>0. TypeOK /\ SoundInv /\ TableInv /\ InHand /\ DeviationBounded /\ DueInv /\ TrackInv
  BY DEF Inner
<1>1. /\ InOnTimer /\ FreeBox(set_Timers, pTimeBox)
      /\ timer' = IF IsTimerLive(id) THEN WithoutID(timer, t) ELSE timer
      /\ BackInLoop /\ pTimeBox' = NoBox
      /\ UNCHANGED <<lst_FireAll, m_ptrTimers, i_MaxTimers, ui_CurrentPos,
                     ui_TotalDeviation, uiPollInterval>>
  BY DEF EndTimer, posVars, WithoutID
<1>2. /\ pTimeBox \in Box /\ pTimeBox \in Held(Rows)
      /\ Q \in [Shelves -> Seq(Box)] /\ Distinct(Q)
      /\ Held(Q) = Held(Rows) \ {pTimeBox}
      /\ \A b \in Held(Q) : b.ui_TimerID # id
      /\ \A s \in Slots : Q[s] = set_Timers[s] /\ Elems(set_Timers[s]) \subseteq Held(Q)
      /\ Q[ARRAY_SIZE] = lst_FireAll /\ Elems(lst_FireAll) \subseteq Held(Q)
      /\ Q[ARRAY_SIZE + 1] = <<>>
  BY <1>1, HandBox
<1> HIDE DEF Q
<1>3. /\ id \in Ids /\ set_Timers' = set_Timers
      /\ stack_FreeTimerIDs' \in Seq(Nat \ {0})
      /\ Elems(stack_FreeTimerIDs') = Elems(stack_FreeTimerIDs) \cup {id}
      /\ IsInjective(stack_FreeTimerIDs) /\ id \notin Elems(stack_FreeTimerIDs)
           => IsInjective(stack_FreeTimerIDs')
      /\ togo' \in [Ids -> Int] /\ left' \in [Ids -> Nat] /\ passedOver' \subseteq Ids
      /\ passedOver' = passedOver \ {id}
      /\ \A i \in Ids \ {id} : togo'[i] = togo[i] /\ left'[i] = left[i]
  BY <1>0, <1>1, <1>2, FreeBoxIs
<1>4. /\ Held(Rows) \in SUBSET Box /\ OneEach(Held(Rows))
      /\ m_ptrTimers \in Tables /\ timer \in Objects
      /\ Sound(Held(Rows), Elems(stack_FreeTimerIDs), m_ptrTimers, timer)
  BY <1>0, RowsAre, DistinctIsOneEach DEF SoundInv, TypeOK, Tables, Objects
<1>5. /\ timer' \in Objects /\ \A u \in Timers \ {t} : timer'[u] = timer[u]
      /\ ~IsTimerLive(id) => timer' = timer
  <2>1. CASE IsTimerLive(id)
    <3>1. t \in Timers /\ timer[t] # NULL /\ timer[t] \in TimerFields
      BY <1>2, <1>4, <2>1 DEF Sound, Objects, IsTimerLive, Box
    <3>2. 0 \in 0..MaxTimerID
      BY TimerAssumption
    <3> HIDE DEF t
    <3> QED BY <1>1, <1>4, <2>1, <3>1, <3>2 DEF WithoutID, Objects, TimerFields
  <2>2. CASE ~IsTimerLive(id)
    BY <1>1, <1>4, <2>2
  <2> QED BY <2>1, <2>2
<1>6. Sound(Held(Rows) \ {pTimeBox}, Elems(stack_FreeTimerIDs) \cup {id}, m_ptrTimers, timer')
  <2>1. CASE IsTimerLive(id)
    <3>1. m_ptrTimers[pTimeBox.ui_TimerID] # NULL /\ timer' = WithoutID(timer, pTimeBox.p_Timer)
      BY <1>1, <2>1 DEF IsTimerLive
    <3> QED BY <1>2, <1>4, <3>1, SoundEnd, Zenon
  <2>2. CASE ~IsTimerLive(id)
    <3>1. m_ptrTimers[pTimeBox.ui_TimerID] = NULL /\ timer' = timer
      BY <1>1, <2>2 DEF IsTimerLive
    <3>2. Sound(Held(Rows) \ {pTimeBox}, Elems(stack_FreeTimerIDs) \cup {id},
                m_ptrTimers, timer)
      BY <1>2, <1>4, <3>1, SoundDrop, Zenon
    <3> QED BY <3>1, <3>2
  <2> QED BY <2>1, <2>2
<1> HIDE DEF t, id
<1>7. pc \in {"onTimer", "onTimerAll"} /\ pc' = IF pc = "onTimer" THEN "slot" ELSE "all"
  BY <1>1 DEF InOnTimer, BackInLoop
<1>8. TypeOK'
  BY <1>0, <1>1, <1>3, <1>5, <1>7 DEF TypeOK, Objects
<1>9. Rows' = Q
  BY <1>1, <1>2, <1>3, RowsNext
<1>10. /\ Held(Rows') = Held(Rows) \ {pTimeBox} /\ Distinct(Rows')
       /\ Held(Rows)' = Held(Rows) \ {pTimeBox}
       /\ Elems(stack_FreeTimerIDs)' = Elems(stack_FreeTimerIDs) \cup {id}
  BY <1>2, <1>3, <1>9
<1>11. SoundInv'
  <2>1. id \notin Elems(stack_FreeTimerIDs)
    BY <1>2, <1>4 DEF Sound, id
  <2>2. Sound(Held(Rows'), Elems(stack_FreeTimerIDs'), m_ptrTimers', timer')
    BY <1>1, <1>3, <1>6, <1>10
  <2> QED BY <1>0, <1>3, <1>10, <2>1, <2>2 DEF SoundInv
<1>12. TableInv'
  <2>1. id < i_MaxTimers
    BY <1>0, <1>2 DEF TableInv, id
  <2> QED BY <1>0, <1>1, <1>10, <2>1 DEF TableInv
<1>13. InHand' /\ DeviationBounded'
  BY <1>0, <1>1, <1>7 DEF InHand, InOnTimer, DeviationBounded
<1>14. \A s : Ahead(s)' = Ahead(s)
  BY <1>1, AheadStays
<1>15. \A b \in Held(Q) : b \in Held(Rows) /\ b.p_Timer \in Timers /\ b.ui_TimerID \in Ids \ {id}
  BY <1>2, <1>4 DEF Box, id
<1>16. ASSUME NEW b \in Held(Q), NEW more, Due(b, more)
       PROVE  IsTimerLive(b.ui_TimerID)' =>
                left'[b.ui_TimerID] <= timer'[b.p_Timer].ui_NextFire + more
  <2>1. IsTimerLive(id) /\ IsTimerLive(b.ui_TimerID) => b.p_Timer # t
    BY <1>2, <1>4, <1>15, OtherObject DEF IsTimerLive, id, t
  <2> QED BY <1>1, <1>3, <1>5, <1>15, <1>16, <2>1 DEF Due, IsTimerLive
<1>17. DueInv'
  <2>1. ASSUME NEW s \in Slots, NEW b \in Elems(set_Timers'[s]) PROVE Due(b, Ahead(s))'
    <3>1. b \in Held(Q) /\ Due(b, Ahead(s))
      BY <1>0, <1>2, <1>3 DEF DueInv
    <3> QED BY <1>14, <1>16, <3>1 DEF Due
  <2>2. ASSUME NEW b \in Elems(lst_FireAll') PROVE Due(b, 0)'
    <3>1. b \in Held(Q) /\ Due(b, 0)
      BY <1>0, <1>1, <1>2, <1>7 DEF DueInv
    <3> QED BY <1>16, <3>1 DEF Due
  <2>3. pc' # "collect"
    BY <1>7
  <2> QED BY <2>1, <2>2, <2>3 DEF DueInv
<1>18. TrackInv'
  <2>1. ASSUME NEW s \in Slots, NEW b \in Elems(set_Timers'[s]),
               b.ui_TimerID \notin passedOver'
        PROVE  togo'[b.ui_TimerID] = Ahead(s)'
    <3>1. b \in Elems(set_Timers[s]) /\ b.ui_TimerID \in Ids \ {id}
      BY <1>2, <1>3, <1>15
    <3> QED BY <1>0, <1>3, <1>14, <2>1, <3>1 DEF TrackInv
  <2> QED BY <1>7, <2>1 DEF TrackInv
<1> QED BY <1>8, <1>11, <1>12, <1>13, <1>17, <1>18 DEF Inner

LEMMA DeleteKeepsInner ==
  ASSUME Inner, NEW t \in Timers, DeleteTimer(t)
  PROVE  Inner'
<1> DEFINE id == timer[t].ui_TimerID
<1>0. TypeOK /\ SoundInv /\ TableInv /\ InHand /\ DeviationBounded /\ DueInv /\ TrackInv
  BY DEF Inner
<1>1. /\ pc \in {"onTimer", "onTimerAll", "read"} /\ timer[t] # NULL
      /\ m_ptrTimers' = [m_ptrTimers EXCEPT ![id] = NULL]
      /\ timer' = [timer EXCEPT ![t] = NULL]
      /\ left' = [i \in Ids |-> IF i = id THEN 0 ELSE left[i]]
      /\ UNCHANGED <<set_Timers, lst_FireAll, stack_FreeTimerIDs, i_MaxTimers,
                     ui_CurrentPos, ui_TotalDeviation, uiPollInterval, pc, pTimeBox,
                     togo, passedOver>>
  BY DEF DeleteTimer, posVars
<1>2. /\ Held(Rows) \in SUBSET Box /\ m_ptrTimers \in Tables /\ timer \in Objects
      /\ Sound(Held(Rows), Elems(stack_FreeTimerIDs), m_ptrTimers, timer)
      /\ Rows \in [Shelves -> Seq(Box)]
  BY <1>0, RowsAre DEF SoundInv, TypeOK, Tables, Objects
<1>3. timer[t] \in TimerFields /\ id \in 0..MaxTimerID
  BY <1>1, <1>2 DEF Objects, TimerFields
<1>4. /\ m_ptrTimers' \in Tables /\ timer' \in Objects
      /\ Sound(Held(Rows), Elems(stack_FreeTimerIDs), m_ptrTimers', timer')
  <2>1. timer[t] # NULL /\ m_ptrTimers' = [m_ptrTimers EXCEPT ![timer[t].ui_TimerID] = NULL]
          /\ timer' = [timer EXCEPT ![t] = NULL]
    BY <1>1
  <2> QED BY <1>2, <2>1, SoundDelete, Zenon
<1>5. /\ m_ptrTimers'[id] = NULL /\ \A i \in 0..MaxTimerID \ {id} : m_ptrTimers'[i] = m_ptrTimers[i]
      /\ \A u \in Timers \ {t} : timer'[u] = timer[u]
  BY <1>1, <1>2, <1>3 DEF Tables, Objects
<1>6. left' \in [Ids -> Nat] /\ \A i \in Ids \ {id} : left'[i] = left[i]
  BY <1>0, <1>1 DEF TypeOK
<1>7. TypeOK'
  BY <1>0, <1>1, <1>4, <1>6 DEF TypeOK, Tables, Objects
<1>8. Rows' = Rows /\ \A s \in Slots : set_Timers'[s] = set_Timers[s]
  <2>1. \A s \in Shelves : Shelf(s)' = Shelf(s)
    BY <1>1 DEF Shelf
  <2> QED BY <1>1, <2>1 DEF Rows
<1>9. Held(Rows') = Held(Rows) /\ Held(Rows)' = Held(Rows)
  BY <1>8
<1>10. SoundInv' /\ TableInv'
  BY <1>0, <1>1, <1>4, <1>8, <1>9 DEF SoundInv, TableInv
<1>11. InHand' /\ DeviationBounded'
  BY <1>0, <1>1 DEF InHand, InOnTimer, DeviationBounded
<1>12. \A s : Ahead(s)' = Ahead(s)
  BY <1>1, AheadStays
<1>13. ASSUME NEW b \in Held(Rows), NEW more, Due(b, more)
       PROVE  IsTimerLive(b.ui_TimerID)' =>
                left'[b.ui_TimerID] <= timer'[b.p_Timer].ui_NextFire + more
  <2> SUFFICES ASSUME m_ptrTimers'[b.ui_TimerID] # NULL
               PROVE  left'[b.ui_TimerID] <= timer'[b.p_Timer].ui_NextFire + more
    BY DEF IsTimerLive
  <2>1. b.ui_TimerID \in Ids /\ b.ui_TimerID \in 0..MaxTimerID /\ b.p_Timer \in Timers
    BY <1>2 DEF Box, Ids
  <2>2. b.ui_TimerID # id
    BY <1>5
  <2>3. IsTimerLive(b.ui_TimerID)
    BY <1>5, <2>1, <2>2 DEF IsTimerLive
  <2>4. b.p_Timer # t
    BY <1>2, <2>2, <2>3 DEF Sound, IsTimerLive
  <2> QED BY <1>5, <1>6, <1>13, <2>1, <2>2, <2>3, <2>4 DEF Due
<1>14. DueInv'
  <2>1. ASSUME NEW s \in Slots, NEW b \in Elems(set_Timers'[s]) PROVE Due(b, Ahead(s))'
    <3>1. Rows[s] = set_Timers[s] /\ s \in Shelves
      BY <1>0, RowsAre, ShelvesAre
    <3>2. b \in Held(Rows) /\ Due(b, Ahead(s))
      BY <1>0, <1>8, <3>1 DEF DueInv, Held
    <3> QED BY <1>12, <1>13, <3>2 DEF Due
  <2>2. ASSUME NEW b \in Elems(lst_FireAll') PROVE Due(b, 0)'
    <3>1. Rows[ARRAY_SIZE] = lst_FireAll /\ ARRAY_SIZE \in Shelves
      BY <1>0, RowsAre, ShelvesAre
    <3>2. b \in Held(Rows) /\ Due(b, 0)
      BY <1>0, <1>1, <3>1 DEF DueInv, Held
    <3> QED BY <1>13, <3>2 DEF Due
  <2> QED BY <1>1, <2>1, <2>2 DEF DueInv
<1>15. TrackInv'
  BY <1>0, <1>1, <1>8, <1>12 DEF TrackInv
<1> QED BY <1>7, <1>10, <1>11, <1>14, <1>15 DEF Inner

\* The stack an id is taken from, refilled when it is empty.
LEMMA FreeIDsAre ==
  ASSUME Inner
  PROVE  LET more == IF stack_FreeTimerIDs # <<>> THEN 0 ELSE INCREASE IN
         /\ FreeIDs \in Seq(Nat \ {0}) /\ FreeIDs # <<>> /\ IsInjective(FreeIDs)
         /\ \A f \in Elems(FreeIDs) : f < i_MaxTimers + more
         /\ i_MaxTimers \in Nat /\ INCREASE \in Nat
         /\ Sound(Held(Rows), Elems(FreeIDs), m_ptrTimers, timer)
<1>0. /\ stack_FreeTimerIDs \in Seq(Nat \ {0}) /\ i_MaxTimers \in Nat
      /\ INCREASE \in Nat /\ INCREASE > 0
      /\ SoundInv /\ TableInv /\ Held(Rows) \in SUBSET Box
  BY TimerAssumption, RowsAre DEF Inner, TypeOK
<1>1. CASE stack_FreeTimerIDs # <<>>
  BY <1>0, <1>1 DEF FreeIDs, SoundInv, TableInv
<1>2. CASE stack_FreeTimerIDs = <<>>
  <2> DEFINE q == [i \in 1..INCREASE |-> i_MaxTimers + INCREASE - i]
  <2>1. FreeIDs = q
    BY <1>2 DEF FreeIDs
  <2>2. \A i \in 1..INCREASE : q[i] \in Nat \ {0} /\ q[i] >= i_MaxTimers
                                 /\ q[i] < i_MaxTimers + INCREASE
    BY <1>0 DEF TableInv
  <2>3. q \in Seq(Nat \ {0}) /\ Len(q) = INCREASE /\ DOMAIN q = 1..INCREASE
    BY <1>0, <2>2
  <2>4. IsInjective(q)
    BY <1>0, <2>3 DEF IsInjective
  <2>5. q # <<>>
    BY <1>0, <2>3
  <2> HIDE DEF q
  <2>6. \A f \in Elems(q) : f >= i_MaxTimers /\ f < i_MaxTimers + INCREASE
    BY <2>2, <2>3 DEF Elems
  <2>7. \A b \in Held(Rows) : b.ui_TimerID \notin Elems(q)
    <3>1. \A b \in Held(Rows) : b.ui_TimerID \in Nat /\ b.ui_TimerID < i_MaxTimers
      BY <1>0 DEF TableInv, Box, Ids
    <3>2. ASSUME NEW b \in Held(Rows), b.ui_TimerID \in Elems(q) PROVE FALSE
      BY <1>0, <2>6, <3>1, <3>2
    <3> QED BY <3>2
  <2>8. Sound(Held(Rows), Elems(q), m_ptrTimers, timer)
    BY <1>0, <2>7 DEF Sound, SoundInv
  <2> QED BY <1>0, <1>2, <2>1, <2>3, <2>4, <2>5, <2>6, <2>8
<1> QED BY <1>1, <1>2

LEMMA CreateKeepsInner ==
  ASSUME Inner, NEW t \in Timers, NEW interval \in Intervals, NEW repeated \in BOOLEAN,
         CreateTimer(t, interval, repeated)
  PROVE  Inner'
<1> DEFINE id == Head(FreeIDs)
           at == Place(interval)
           box == [ui_TimerID |-> id, p_Timer |-> t]
           fields == [ui_Interval |-> interval, b_IsRepeated |-> repeated,
                      ui_TimerID |-> id, ui_NextFire |-> at.nextFire]
           s1 == Slot(at.offset)
           R == [Rows EXCEPT ![s1] = Append(@, box)]
<1>0. TypeOK /\ SoundInv /\ TableInv /\ InHand /\ DeviationBounded /\ DueInv /\ TrackInv
  BY DEF Inner
<1>1. /\ pc \in {"onTimer", "onTimerAll", "read"} /\ timer[t] = NULL /\ id <= MaxTimerID
      /\ stack_FreeTimerIDs' = Tail(FreeIDs)
      /\ i_MaxTimers' = IF stack_FreeTimerIDs # <<>> THEN i_MaxTimers
                                                     ELSE i_MaxTimers + INCREASE
      /\ timer' = [timer EXCEPT ![t] = fields]
      /\ m_ptrTimers' = [m_ptrTimers EXCEPT ![id] = t]
      /\ PutBox(set_Timers, box, interval)
      /\ left' = [left EXCEPT ![id] = interval]
      /\ passedOver' = IF pc = "read" THEN passedOver \cup {id} ELSE passedOver
      /\ UNCHANGED <<lst_FireAll, ui_CurrentPos, ui_TotalDeviation, uiPollInterval,
                     pc, pTimeBox>>
  BY DEF CreateTimer, posVars
<1>2. /\ FreeIDs \in Seq(Nat \ {0}) /\ FreeIDs # <<>> /\ IsInjective(FreeIDs)
      /\ \A f \in Elems(FreeIDs) : f < i_MaxTimers'
      /\ i_MaxTimers \in Nat /\ i_MaxTimers' \in Nat /\ i_MaxTimers' >= i_MaxTimers
      /\ Sound(Held(Rows), Elems(FreeIDs), m_ptrTimers, timer)
  BY <1>0, <1>1, FreeIDsAre
<1>3. id \in Elems(FreeIDs) /\ id \in Nat \ {0} /\ Tail(FreeIDs) \in Seq(Nat \ {0})
        /\ IsInjective(Tail(FreeIDs)) /\ Elems(Tail(FreeIDs)) = Elems(FreeIDs) \ {id}
  BY <1>2, ElemsTail, ElemsPop
<1> HIDE DEF id
<1>4. id \in Ids /\ id \in 0..MaxTimerID /\ box \in Box /\ interval \in Nat \ {0}
  <2>1. MaxTimerID \in Nat /\ interval \in Nat \ {0}
    BY TimerAssumption
  <2>2. id \in 1..MaxTimerID
    BY <1>1, <1>3, <2>1
  <2> QED BY <2>1, <2>2 DEF Ids, Box
<1>5. at.nextFire \in Nat /\ at.offset \in Slots /\ interval = at.offset + at.nextFire
  BY <1>4, PlaceIs
<1>6. fields \in TimerFields /\ fields.ui_TimerID = id /\ fields.ui_NextFire = at.nextFire
  BY <1>4, <1>5 DEF TimerFields
<1>7. box.ui_TimerID = id /\ box.p_Timer = t
  OBVIOUS
<1> HIDE DEF at
<1>8. /\ Held(Rows) \in SUBSET Box /\ m_ptrTimers \in Tables /\ timer \in Objects
      /\ Rows \in [Shelves -> Seq(Box)] /\ Distinct(Rows)
      /\ set_Timers \in [Slots -> Seq(Box)]
  BY <1>0, RowsAre DEF SoundInv, TypeOK, Tables, Objects
<1>9. /\ s1 \in Slots /\ Ahead(s1) = at.offset
      /\ set_Timers' = [set_Timers EXCEPT ![s1] = Append(@, box)]
      /\ set_Timers' \in [Slots -> Seq(Box)]
      /\ Elems(set_Timers'[s1]) = Elems(set_Timers[s1]) \cup {box}
      /\ \A r \in Slots \ {s1} : set_Timers'[r] = set_Timers[r]
      /\ togo' \in [Ids -> Int] /\ togo'[id] = at.offset
      /\ \A i \in Ids \ {id} : togo'[i] = togo[i]
  <2> HIDE DEF box
  <2>1. PutBox(set_Timers, box, interval)
    BY <1>1
  <2>2. box \in Box /\ box.ui_TimerID = id
    BY <1>4, <1>7
  <2>3. LET ss == Slot(Place(interval).offset) IN
        /\ ss \in Slots /\ Ahead(ss) = Place(interval).offset
        /\ set_Timers' = [set_Timers EXCEPT ![ss] = Append(@, box)]
        /\ set_Timers' \in [Slots -> Seq(Box)]
        /\ Elems(set_Timers'[ss]) = Elems(set_Timers[ss]) \cup {box}
        /\ \A r \in Slots \ {ss} : set_Timers'[r] = set_Timers[r]
        /\ togo' \in [Ids -> Int] /\ togo'[box.ui_TimerID] = Place(interval).offset
        /\ \A i \in Ids \ {box.ui_TimerID} : togo'[i] = togo[i]
    BY <1>0, <1>4, <1>8, <2>1, <2>2, PutBoxIs
  <2> QED BY <2>2, <2>3 DEF at
<1>10. /\ m_ptrTimers' \in Tables /\ timer' \in Objects
       /\ \A b \in Held(Rows) : b.ui_TimerID # id
       /\ Sound(Held(Rows) \cup {box}, Elems(FreeIDs) \ {id}, m_ptrTimers', timer')
  <2>1. box.ui_TimerID = id /\ box.p_Timer = t
    BY <1>7
  <2>2. m_ptrTimers' = [m_ptrTimers EXCEPT ![id] = t] /\ timer' = [timer EXCEPT ![t] = fields]
          /\ timer[t] = NULL
    BY <1>1
  <2>3. fields \in TimerFields /\ fields.ui_TimerID = id
    BY <1>6
  <2>4. id \in Ids /\ id \in Elems(FreeIDs)
    BY <1>3, <1>4
  <2>5. Sound(Held(Rows), Elems(FreeIDs), m_ptrTimers, timer)
    BY <1>2
  <2> HIDE DEF box, fields
  <2>6. \A b \in Held(Rows) : b.ui_TimerID # id
    BY <2>4, <2>5 DEF Sound
  <2>7. m_ptrTimers' \in Tables /\ timer' \in Objects
    BY <1>4, <1>8, <2>2, <2>3 DEF Tables, Objects
  <2>8. Sound(Held(Rows) \cup {box}, Elems(FreeIDs) \ {id}, m_ptrTimers', timer')
    BY <1>8, <2>1, <2>2, <2>3, <2>4, <2>5, SoundCreate, Zenon
  <2> QED BY <2>6, <2>7, <2>8
<1>11. /\ m_ptrTimers'[id] = t /\ \A i \in 0..MaxTimerID \ {id} : m_ptrTimers'[i] = m_ptrTimers[i]
       /\ timer'[t] = fields /\ \A u \in Timers \ {t} : timer'[u] = timer[u]
  <2> HIDE DEF fields
  <2> QED BY <1>1, <1>4, <1>8 DEF Tables, Objects
<1>12. left' \in [Ids -> Nat] /\ left'[id] = interval /\ \A i \in Ids \ {id} : left'[i] = left[i]
  <2>1. left \in [Ids -> Nat]
    BY <1>0 DEF TypeOK
  <2> QED BY <1>1, <1>4, <2>1
<1> HIDE DEF box, fields, s1
<1>13. TypeOK'
  <2>1. passedOver' \subseteq Ids
    BY <1>0, <1>1, <1>4 DEF TypeOK
  <2> QED BY <1>0, <1>1, <1>2, <1>3, <1>9, <1>10, <1>12, <2>1 DEF TypeOK, Tables, Objects
<1>14. R \in [Shelves -> Seq(Box)] /\ Distinct(R) /\ Held(R) = Held(Rows) \cup {box}
  <2>1. s1 \in Shelves
    BY <1>9, ShelvesAre
  <2>2. \A b \in Held(Rows) : b.ui_TimerID # box.ui_TimerID
    BY <1>7, <1>10
  <2>3. R = [Rows EXCEPT ![s1] = Append(@, box)]
    OBVIOUS
  <2> HIDE DEF R
  <2> QED BY <1>4, <1>8, <2>1, <2>2, <2>3, PushRow, Zenon
<1>15. /\ \A s \in Slots : Rows[s] = set_Timers[s] /\ s \in Shelves
       /\ Rows[ARRAY_SIZE] = lst_FireAll /\ ARRAY_SIZE \in Shelves
  BY <1>0, RowsAre, ShelvesAre
<1>16. Rows' = R
  <2>1. \A s \in Slots : set_Timers'[s] = R[s]
    BY <1>8, <1>9, <1>15, ShelvesAre
  <2>2. R[ARRAY_SIZE] = lst_FireAll' /\ R[ARRAY_SIZE + 1] = Rows[ARRAY_SIZE + 1]
    BY <1>1, <1>8, <1>9, <1>15, ShelvesAre
  <2>3. Rows[ARRAY_SIZE + 1] = IF pTimeBox' = NoBox THEN <<>> ELSE <<pTimeBox'>>
    BY <1>0, <1>1, RowsAre
  <2> HIDE DEF R
  <2> QED BY <1>14, <2>1, <2>2, <2>3, RowsNext
<1> HIDE DEF R
<1>17. /\ Held(Rows') = Held(Rows) \cup {box} /\ Distinct(Rows')
       /\ Held(Rows)' = Held(Rows) \cup {box}
       /\ Elems(stack_FreeTimerIDs') = Elems(FreeIDs) \ {id}
       /\ Elems(stack_FreeTimerIDs)' = Elems(FreeIDs) \ {id}
  BY <1>1, <1>3, <1>14, <1>16
<1>18. SoundInv'
  <2>1. Sound(Held(Rows'), Elems(stack_FreeTimerIDs'), m_ptrTimers', timer')
    BY <1>10, <1>17
  <2> QED BY <1>1, <1>3, <1>17, <2>1 DEF SoundInv
<1>19. TableInv'
  <2>1. \A b \in Held(Rows) : b.ui_TimerID < i_MaxTimers'
    <3>1. \A b \in Held(Rows) : b.ui_TimerID \in Nat /\ b.ui_TimerID < i_MaxTimers
      BY <1>0, <1>8 DEF TableInv, Box, Ids
    <3> QED BY <1>2, <3>1
  <2>2. box.ui_TimerID < i_MaxTimers'
    BY <1>2, <1>3, <1>7
  <2>3. i_MaxTimers' >= 1
    BY <1>0, <1>2 DEF TableInv
  <2> QED BY <1>2, <1>17, <2>1, <2>2, <2>3 DEF TableInv
<1>20. InHand' /\ DeviationBounded'
  BY <1>0, <1>1 DEF InHand, InOnTimer, DeviationBounded
<1>21. \A s : Ahead(s)' = Ahead(s)
  BY <1>1, AheadStays
<1>22. \A b \in Held(Rows) : b.p_Timer \in Timers /\ b.ui_TimerID \in Ids \ {id}
                              /\ b.ui_TimerID \in 0..MaxTimerID \ {id}
  BY <1>8, <1>10 DEF Box, Ids
<1>23. ASSUME NEW b \in Held(Rows), NEW more, Due(b, more)
       PROVE  IsTimerLive(b.ui_TimerID)' =>
                left'[b.ui_TimerID] <= timer'[b.p_Timer].ui_NextFire + more
  <2>1. m_ptrTimers'[b.ui_TimerID] = m_ptrTimers[b.ui_TimerID]
    BY <1>11, <1>22
  <2>2. IsTimerLive(b.ui_TimerID) => b.p_Timer # t
    BY <1>1, <1>2 DEF Sound, IsTimerLive
  <2> QED BY <1>11, <1>12, <1>22, <1>23, <2>1, <2>2 DEF Due, IsTimerLive
<1>24. left'[id] <= timer'[t].ui_NextFire + Ahead(s1)
  <2>1. at.offset \in Nat
    BY <1>5, ShelvesAre DEF Slots
  <2> QED BY <1>4, <1>5, <1>6, <1>9, <1>11, <1>12, <2>1
<1>25. DueInv'
  <2>1. ASSUME NEW s \in Slots, NEW b \in Elems(set_Timers'[s]) PROVE Due(b, Ahead(s))'
    <3>1. CASE b \in Elems(set_Timers[s])
      <4>1. b \in Held(Rows) /\ Due(b, Ahead(s))
        BY <1>0, <1>15, <3>1 DEF DueInv, Held
      <4> QED BY <1>21, <1>23, <4>1 DEF Due
    <3>2. CASE b \notin Elems(set_Timers[s])
      <4>1. s = s1 /\ b = box
        BY <1>9, <3>2
      <4> QED BY <1>7, <1>21, <1>24, <4>1 DEF Due
    <3> QED BY <3>1, <3>2
  <2>2. ASSUME NEW b \in Elems(lst_FireAll') PROVE Due(b, 0)'
    <3>1. b \in Held(Rows) /\ Due(b, 0)
      BY <1>0, <1>1, <1>15 DEF DueInv, Held
    <3> QED BY <1>23, <3>1 DEF Due
  <2> QED BY <1>1, <2>1, <2>2 DEF DueInv
<1>26. TrackInv'
  <2>1. ASSUME NEW s \in Slots, NEW b \in Elems(set_Timers'[s]),
               b.ui_TimerID \notin passedOver'
        PROVE  /\ togo'[b.ui_TimerID] = Ahead(s)'
               /\ pc' = "read" => Ahead(s)' >= uiPollInterval' - 1
    <3>1. CASE b \in Elems(set_Timers[s])
      <4>1. b.ui_TimerID \in Ids \ {id} /\ b.ui_TimerID \notin passedOver
        <5>1. b \in Held(Rows)
          BY <1>15, <3>1 DEF Held
        <5> QED BY <1>1, <1>22, <2>1, <5>1
      <4> QED BY <1>0, <1>1, <1>9, <1>21, <3>1, <4>1 DEF TrackInv
    <3>2. CASE b \notin Elems(set_Timers[s])
      <4>1. s = s1 /\ b = box
        BY <1>9, <3>2
      <4>2. pc # "read"
        BY <1>1, <1>7, <2>1, <4>1
      <4> QED BY <1>1, <1>7, <1>9, <1>21, <4>1, <4>2
    <3> QED BY <3>1, <3>2
  <2> QED BY <2>1 DEF TrackInv
<1> QED BY <1>13, <1>18, <1>19, <1>20, <1>25, <1>26 DEF Inner

-----------------------------------------------------------------------------
(* The wheel turns.                                                        *)

\* The community module's Min of a set of naturals is its least element.
LEMMA MinIsLeast ==
  ASSUME NEW S \in SUBSET Nat, S # {}
  PROVE  Min(S) \in S /\ \A y \in S : Min(S) <= y
<1> DEFINE R == OpToRel(<, Nat)
<1>1. \A x, y \in Nat : <<y, x>> \notin R => x <= y
  <2>1. \A x, y \in Nat : y < x => <<y, x>> \in R
    BY DEF OpToRel
  <2> HIDE DEF R
  <2> QED BY <2>1
<1>2. IsWellFoundedOn(R, Nat)
  BY NatLessThanWellFounded, Zenon
<1> HIDE DEF R
<1>3. \E x \in S : \A y \in S : ~(<<y, x>> \in R)
  BY <1>2, WFMin
<1>4. \E x \in S : \A y \in S : x <= y
  BY <1>1, <1>3
<1> QED BY <1>4 DEF Min

\* Half of what a pass takes, which is what it is charged.
LEMMA Halves ==
  ASSUME NEW m \in Nat, NEW e \in 0..m
  PROVE  e \div 2 \in Nat /\ m \div 2 \in Nat /\ e \div 2 <= m \div 2 /\ 2 * (m \div 2) <= m
<1>1. e \div 2 \in Nat /\ m \div 2 \in Nat /\ e \in Nat
  OBVIOUS
<1>2. 2 * (m \div 2) <= m /\ 2 * (e \div 2) <= e /\ 2 * (m \div 2) + 1 >= m
  OBVIOUS
<1> QED BY <1>1, <1>2

LEMMA SizesAre ==
  /\ ARRAY_SIZE \in Nat /\ EPOL_WAIT \in Nat /\ EPOL_WAIT >= 1 /\ ARRAY_SIZE > EPOL_WAIT
  /\ PosModulus \in Nat /\ MaxElapsed \in Nat
  /\ PosModulus > 2 * MaxElapsed /\ PosModulus > EPOL_WAIT
  /\ Slots = 0..(ARRAY_SIZE - 1)
  BY TimerAssumption DEF Slots

\* What stays when no box and no object changes.
LEMMA BoxesStay ==
  ASSUME SoundInv, TableInv,
         UNCHANGED <<timer, set_Timers, lst_FireAll, idVars, pTimeBox>>
  PROVE  SoundInv' /\ TableInv'
<1>1. /\ timer' = timer /\ set_Timers' = set_Timers /\ lst_FireAll' = lst_FireAll
      /\ m_ptrTimers' = m_ptrTimers /\ stack_FreeTimerIDs' = stack_FreeTimerIDs
      /\ i_MaxTimers' = i_MaxTimers /\ pTimeBox' = pTimeBox
  BY DEF idVars
<1>2. Rows' = Rows
  <2>1. \A s \in Shelves : Shelf(s)' = Shelf(s)
    BY <1>1 DEF Shelf
  <2> QED BY <2>1 DEF Rows
<1>3. Held(Rows') = Held(Rows) /\ Held(Rows)' = Held(Rows)
  BY <1>2
<1> QED BY <1>1, <1>2, <1>3 DEF SoundInv, TableInv

\* Boxes are where they are found.
LEMMA InTheWheel ==
  ASSUME Inner
  PROVE  /\ \A s \in Slots : \A b \in Elems(set_Timers[s]) :
              b \in Held(Rows) /\ b.ui_TimerID \in Ids /\ b.ui_TimerID \in IdsInWheel(set_Timers)
         /\ \A b \in Elems(lst_FireAll) : b \in Held(Rows) /\ b.ui_TimerID \in Ids
         /\ \A b \in Held(Rows) : b \in Box /\ b.ui_TimerID \in Ids
              /\ (IsTimerLive(b.ui_TimerID) => timer[b.p_Timer].ui_NextFire \in Nat)
<1>1. TypeOK /\ SoundInv /\ set_Timers \in [Slots -> Seq(Box)]
  BY DEF Inner, TypeOK
<1>2. /\ \A s \in Slots : Rows[s] = set_Timers[s] /\ s \in Shelves
      /\ Rows[ARRAY_SIZE] = lst_FireAll /\ ARRAY_SIZE \in Shelves
      /\ Held(Rows) \in SUBSET Box
  BY <1>1, RowsAre, ShelvesAre
<1>3. \A b \in Held(Rows) : b \in Box /\ b.ui_TimerID \in Ids /\ b.p_Timer \in Timers
  BY <1>2 DEF Box
<1>4. ASSUME NEW b \in Held(Rows), IsTimerLive(b.ui_TimerID)
      PROVE  timer[b.p_Timer].ui_NextFire \in Nat
  <2>1. timer[b.p_Timer] # NULL
    BY <1>1, <1>4 DEF SoundInv, Sound, IsTimerLive
  <2>2. timer[b.p_Timer] \in TimerFields
    BY <1>1, <1>3, <2>1 DEF TypeOK
  <2> QED BY <2>2 DEF TimerFields
<1>5. \A s \in Slots : \A b \in Elems(set_Timers[s]) : b \in Held(Rows)
  BY <1>2 DEF Held
<1>6. \A b \in Elems(lst_FireAll) : b \in Held(Rows)
  BY <1>2 DEF Held
<1>7. \A s \in Slots : \A b \in Elems(set_Timers[s]) : b.ui_TimerID \in IdsInWheel(set_Timers)
  BY <1>1, InWheelIs
<1> QED BY <1>3, <1>4, <1>5, <1>6, <1>7

\* A box that has to wait as long as its slot is ahead has to wait less after
\* the wheel has turned, wherever the turn has brought the slot.
LEMMA TurnKeepsDue ==
  ASSUME Inner, NEW d \in Nat, Advance(d, set_Timers), UNCHANGED <<timer, m_ptrTimers>>
  PROVE  /\ \A s \in Slots : \A b \in Elems(set_Timers[s]) :
              IsTimerLive(b.ui_TimerID)' =>
                left'[b.ui_TimerID] <= timer'[b.p_Timer].ui_NextFire + Ahead(s)'
         /\ \A b \in Elems(lst_FireAll) : Due(b, d) =>
              (IsTimerLive(b.ui_TimerID)' =>
                 left'[b.ui_TimerID] <= timer'[b.p_Timer].ui_NextFire + 0)
<1>1. TypeOK /\ DueInv /\ left \in [Ids -> Nat]
  BY DEF Inner, TypeOK
<1>2. ui_CurrentPos' = Pos(d)
        /\ \A i \in Ids : left'[i] = IF left[i] > d THEN left[i] - d ELSE 0
  BY <1>1, AdvanceIs
<1>3. ASSUME NEW s \in Slots, NEW b \in Elems(set_Timers[s]), IsTimerLive(b.ui_TimerID)'
      PROVE  left'[b.ui_TimerID] <= timer'[b.p_Timer].ui_NextFire + Ahead(s)'
  <2>1. IsTimerLive(b.ui_TimerID) /\ timer' = timer
    BY <1>3 DEF IsTimerLive
  <2>2. b.ui_TimerID \in Ids /\ timer[b.p_Timer].ui_NextFire \in Nat
    BY <2>1, InTheWheel
  <2>3. left[b.ui_TimerID] <= timer[b.p_Timer].ui_NextFire + Ahead(s)
    BY <1>1, <2>1 DEF DueInv, Due
  <2>4. /\ Ahead(s) \in Slots /\ Ahead(s)' \in Slots
        /\ d < ARRAY_SIZE => Ahead(s)' = IF Ahead(s) >= d THEN Ahead(s) - d
                                         ELSE Ahead(s) - d + ARRAY_SIZE
    BY <1>1, <1>2, AheadAfter, Positions
  <2>5. Ahead(s)' >= Ahead(s) - d /\ Ahead(s) \in Int /\ Ahead(s)' \in Nat
    BY <2>4, SizesAre
  <2>6. left[b.ui_TimerID] \in Nat
    BY <1>1, <2>2
  <2> QED BY <1>2, <2>1, <2>2, <2>3, <2>5, <2>6
<1>4. ASSUME NEW b \in Elems(lst_FireAll), Due(b, d), IsTimerLive(b.ui_TimerID)'
      PROVE  left'[b.ui_TimerID] <= timer'[b.p_Timer].ui_NextFire + 0
  <2>1. IsTimerLive(b.ui_TimerID) /\ timer' = timer
    BY <1>4 DEF IsTimerLive
  <2>2. b.ui_TimerID \in Ids /\ timer[b.p_Timer].ui_NextFire \in Nat
    BY <2>1, InTheWheel
  <2>3. left[b.ui_TimerID] <= timer[b.p_Timer].ui_NextFire + d
    BY <1>4, <2>1 DEF Due
  <2>4. left[b.ui_TimerID] \in Nat
    BY <1>1, <2>2
  <2> QED BY <1>2, <2>1, <2>2, <2>3, <2>4
<1> QED BY <1>3, <1>4

\* A turn that ends before the first box keeps every box on its way.
LEMMA TurnKeepsTrack ==
  ASSUME Inner, NEW d \in Nat, d < ARRAY_SIZE, Advance(d, set_Timers),
         \A s \in Slots : \A b \in Elems(set_Timers[s]) :
           b.ui_TimerID \notin passedOver => Ahead(s) >= d
  PROVE  \A s \in Slots : \A b \in Elems(set_Timers[s]) :
           b.ui_TimerID \notin passedOver => togo'[b.ui_TimerID] = Ahead(s)'
<1> SUFFICES ASSUME NEW s \in Slots, NEW b \in Elems(set_Timers[s]),
                    b.ui_TimerID \notin passedOver
             PROVE  togo'[b.ui_TimerID] = Ahead(s)'
  OBVIOUS
<1>1. TypeOK /\ TrackInv
  BY DEF Inner
<1>2. b.ui_TimerID \in Ids /\ b.ui_TimerID \in IdsInWheel(set_Timers)
  BY InTheWheel
<1>3. togo'[b.ui_TimerID] = togo[b.ui_TimerID] - d
  BY <1>1, <1>2, AdvanceIs
<1>4. togo[b.ui_TimerID] = Ahead(s) /\ Ahead(s) >= d
  BY <1>1 DEF TrackInv
<1>5. ui_CurrentPos' = Pos(d)
  BY <1>1, AdvanceIs
<1>6. Ahead(s)' = Ahead(s) - d
  BY <1>1, <1>4, <1>5, AheadAfter
<1> QED BY <1>3, <1>4, <1>6

LEMMA SlotDoneKeepsInner == Inner /\ SlotDone => Inner'
<1> SUFFICES ASSUME Inner, SlotDone PROVE Inner'
  OBVIOUS
<1>0. TypeOK /\ SoundInv /\ TableInv /\ InHand /\ DeviationBounded /\ DueInv /\ TrackInv
  BY DEF Inner
<1>1. /\ pc = "slot" /\ set_Timers[Slot(0)] = <<>> /\ Advance(1, set_Timers)
      /\ pc' = IF ui_TotalDeviation' > 0 THEN "collect" ELSE "poll"
      /\ UNCHANGED <<timer, set_Timers, lst_FireAll, idVars, uiPollInterval, pTimeBox,
                     passedOver>>
  BY DEF SlotDone, Boxes
<1>2. PICK elapsed \in 0..MaxElapsed : ui_TotalDeviation' = ui_TotalDeviation + elapsed \div 2
  BY DEF SlotDone
<1>3. lst_FireAll = <<>> /\ pTimeBox = NoBox
  BY <1>0, <1>1 DEF InHand, InOnTimer
<1>4. ui_TotalDeviation' \in Nat /\ ui_TotalDeviation' <= 2 * MaxElapsed
  <2>1. /\ elapsed \div 2 \in Nat /\ MaxElapsed \div 2 \in Nat
        /\ elapsed \div 2 <= MaxElapsed \div 2 /\ 2 * (MaxElapsed \div 2) <= MaxElapsed
    BY SizesAre, Halves
  <2>2. ui_TotalDeviation \in Nat /\ ui_TotalDeviation <= MaxElapsed + MaxElapsed \div 2
    BY <1>0, <1>1, SizesAre DEF TypeOK, DeviationBounded
  <2> QED BY <1>2, <2>1, <2>2, SizesAre
<1>5. SoundInv' /\ TableInv'
  BY <1>0, <1>1, BoxesStay
<1>6. /\ ui_CurrentPos' \in 0..(PosModulus - 1)
      /\ left' \in [Ids -> Nat] /\ togo' \in [Ids -> Int]
  BY <1>0, <1>1, AdvanceIs
<1>7. TypeOK'
  <2>1. ui_TotalDeviation' \in 0..(PosModulus - 1)
    BY <1>4, SizesAre
  <2>2. pc' \in {"collect", "poll"}
    BY <1>1
  <2> QED BY <1>0, <1>1, <1>6, <2>1, <2>2 DEF TypeOK, idVars
<1>8. InHand' /\ DeviationBounded'
  <2>1. CASE ui_TotalDeviation' > 0
    <3>1. pc' = "collect"
      BY <1>1, <2>1
    <3> QED BY <1>1, <1>3, <1>4, <3>1 DEF InHand, InOnTimer, DeviationBounded
  <2>2. CASE ~(ui_TotalDeviation' > 0)
    <3>1. pc' = "poll" /\ ui_TotalDeviation' = 0
      BY <1>1, <1>4, <2>2
    <3>2. 0 <= MaxElapsed \div 2
      BY SizesAre, Halves
    <3> QED BY <1>1, <1>3, <3>1, <3>2 DEF InHand, InOnTimer, DeviationBounded
  <2> QED BY <2>1, <2>2
<1>9. Elems(lst_FireAll') = {} /\ set_Timers' = set_Timers /\ passedOver' = passedOver
  BY <1>1, <1>3 DEF Elems
<1>10. DueInv'
  <2>1. \A s \in Slots : \A b \in Elems(set_Timers[s]) :
          IsTimerLive(b.ui_TimerID)' =>
            left'[b.ui_TimerID] <= timer'[b.p_Timer].ui_NextFire + Ahead(s)'
    BY <1>1, TurnKeepsDue DEF idVars
  <2>2. \A b \in Elems(lst_FireAll)' : FALSE
    BY <1>9
  <2>3. \A s \in Slots : \A b \in Elems(set_Timers[s])' : Due(b, Ahead(s))'
    BY <1>9, <2>1 DEF Due
  <2> QED BY <2>2, <2>3 DEF DueInv
<1>11. ASSUME NEW s \in Slots, NEW b \in Elems(set_Timers[s]) PROVE Ahead(s) >= 1
  <2>1. Ahead(s) \in Slots /\ Slot(Ahead(s)) = s
    BY <1>0, Positions
  <2>2. Ahead(s) # 0
    BY <1>1, <2>1 DEF Elems
  <2> QED BY <2>1, <2>2, SizesAre
<1>12. TrackInv'
  <2>1. \A s \in Slots : \A b \in Elems(set_Timers[s]) :
          b.ui_TimerID \notin passedOver => togo'[b.ui_TimerID] = Ahead(s)'
    <3>1. 1 \in Nat /\ 1 < ARRAY_SIZE /\ Advance(1, set_Timers)
      BY <1>1, SizesAre
    <3>2. \A s \in Slots : \A b \in Elems(set_Timers[s]) :
            b.ui_TimerID \notin passedOver => Ahead(s) >= 1
      BY <1>11
    <3> QED BY <3>1, <3>2, TurnKeepsTrack, Zenon
  <2>2. pc' # "read"
    BY <1>1
  <2> QED BY <1>9, <2>1, <2>2 DEF TrackInv
<1> QED BY <1>5, <1>7, <1>8, <1>10, <1>12 DEF Inner

LEMMA ReadKeepsInner == Inner /\ ReadSocketsReturns => Inner'
<1> SUFFICES ASSUME Inner, ReadSocketsReturns PROVE Inner'
  OBVIOUS
<1>0. TypeOK /\ SoundInv /\ TableInv /\ InHand /\ DeviationBounded /\ DueInv /\ TrackInv
  BY DEF Inner
<1>1. /\ pc = "read" /\ uiPollInterval' = 1 /\ pc' = "slot"
      /\ UNCHANGED <<timer, set_Timers, lst_FireAll, idVars, pTimeBox, passedOver>>
  BY DEF ReadSocketsReturns
<1>2. uiPollInterval \in 1..EPOL_WAIT
  BY <1>0 DEF TypeOK
<1>3. PICK d \in Nat : /\ d <= uiPollInterval - 1 /\ Advance(d, set_Timers)
                       /\ ui_TotalDeviation' \in Nat
                       /\ ui_TotalDeviation' <= MaxElapsed + MaxElapsed \div 2
  <2>1. PICK uiRet \in 0..MaxElapsed :
          IF uiPollInterval < uiRet
            THEN /\ ui_TotalDeviation' =
                      ui_TotalDeviation + (uiRet - uiPollInterval) + 1
                 /\ Advance(uiPollInterval - 1, set_Timers)
            ELSE /\ Advance(IF uiRet > 0 THEN uiRet - 1 ELSE 0, set_Timers)
                 /\ UNCHANGED ui_TotalDeviation
    BY DEF ReadSocketsReturns
  <2>2. ui_TotalDeviation \in Nat /\ ui_TotalDeviation <= MaxElapsed \div 2
          /\ MaxElapsed \in Nat /\ MaxElapsed \div 2 \in Nat
    BY <1>0, <1>1, SizesAre, Halves DEF TypeOK, DeviationBounded
  <2>3. CASE uiPollInterval < uiRet
    <3>1. uiPollInterval - 1 \in Nat /\ Advance(uiPollInterval - 1, set_Timers)
      BY <1>2, <2>1, <2>3, SizesAre
    <3>2. ui_TotalDeviation' \in Nat /\ ui_TotalDeviation' <= MaxElapsed + MaxElapsed \div 2
      BY <1>2, <2>1, <2>2, <2>3, SizesAre
    <3>3. uiPollInterval - 1 <= uiPollInterval - 1
      BY <3>1
    <3> QED BY <3>1, <3>2, <3>3
  <2>4. CASE ~(uiPollInterval < uiRet)
    <3> DEFINE back == IF uiRet > 0 THEN uiRet - 1 ELSE 0
    <3>1. back \in Nat /\ back <= uiPollInterval - 1
      BY <1>2, <2>2, <2>4, SizesAre
    <3>2. Advance(back, set_Timers) /\ ui_TotalDeviation' = ui_TotalDeviation
      BY <2>1, <2>4
    <3>3. ui_TotalDeviation' \in Nat /\ ui_TotalDeviation' <= MaxElapsed + MaxElapsed \div 2
      BY <2>2, <3>2
    <3> HIDE DEF back
    <3> QED BY <3>1, <3>2, <3>3
  <2> QED BY <2>3, <2>4
<1>4. d < ARRAY_SIZE
  BY <1>2, <1>3, SizesAre
<1>5. lst_FireAll = <<>> /\ pTimeBox = NoBox
  BY <1>0, <1>1 DEF InHand, InOnTimer
<1>6. SoundInv' /\ TableInv'
  BY <1>0, <1>1, BoxesStay
<1>7. /\ ui_CurrentPos' \in 0..(PosModulus - 1)
      /\ left' \in [Ids -> Nat] /\ togo' \in [Ids -> Int]
  BY <1>0, <1>3, AdvanceIs
<1>8. TypeOK'
  <2>1. ui_TotalDeviation' \in 0..(PosModulus - 1)
    <3>1. MaxElapsed \div 2 \in Nat /\ 2 * (MaxElapsed \div 2) <= MaxElapsed
      BY SizesAre, Halves
    <3> QED BY <1>3, <3>1, SizesAre
  <2>2. uiPollInterval' \in 1..EPOL_WAIT
    BY <1>1, SizesAre
  <2> QED BY <1>0, <1>1, <1>7, <2>1, <2>2 DEF TypeOK, idVars
<1>9. InHand' /\ DeviationBounded'
  BY <1>1, <1>3, <1>5 DEF InHand, InOnTimer, DeviationBounded
<1>10. Elems(lst_FireAll') = {} /\ set_Timers' = set_Timers /\ passedOver' = passedOver
  BY <1>1, <1>5 DEF Elems
<1>11. DueInv'
  <2>1. \A s \in Slots : \A b \in Elems(set_Timers[s]) :
          IsTimerLive(b.ui_TimerID)' =>
            left'[b.ui_TimerID] <= timer'[b.p_Timer].ui_NextFire + Ahead(s)'
    BY <1>1, <1>3, TurnKeepsDue DEF idVars
  <2>2. \A b \in Elems(lst_FireAll)' : FALSE
    BY <1>10
  <2>3. \A s \in Slots : \A b \in Elems(set_Timers[s])' : Due(b, Ahead(s))'
    BY <1>10, <2>1 DEF Due
  <2> QED BY <2>2, <2>3 DEF DueInv
<1>12. ASSUME NEW s \in Slots, NEW b \in Elems(set_Timers[s]), b.ui_TimerID \notin passedOver
       PROVE  Ahead(s) >= d
  <2>1. Ahead(s) >= uiPollInterval - 1
    BY <1>0, <1>1, <1>12 DEF TrackInv
  <2>2. Ahead(s) \in Nat
    BY <1>0, Positions, SizesAre
  <2> QED BY <1>2, <1>3, <2>1, <2>2, SizesAre
<1>13. TrackInv'
  <2>1. \A s \in Slots : \A b \in Elems(set_Timers[s]) :
          b.ui_TimerID \notin passedOver => togo'[b.ui_TimerID] = Ahead(s)'
    BY <1>3, <1>4, <1>12, TurnKeepsTrack
  <2>2. pc' # "read"
    BY <1>1
  <2> QED BY <1>10, <2>1, <2>2 DEF TrackInv
<1> QED BY <1>6, <1>8, <1>9, <1>11, <1>13 DEF Inner

LEMMA FireAllDoneKeepsInner == Inner /\ FireAllDone => Inner'
<1> SUFFICES ASSUME Inner, FireAllDone PROVE Inner'
  OBVIOUS
<1>0. TypeOK /\ SoundInv /\ TableInv /\ InHand /\ DeviationBounded /\ DueInv /\ TrackInv
  BY DEF Inner
<1>1. /\ pc = "all" /\ lst_FireAll = <<>> /\ pc' = "poll"
      /\ UNCHANGED <<timer, set_Timers, lst_FireAll, idVars, ui_CurrentPos, uiPollInterval,
                     pTimeBox, left, togo, passedOver>>
  BY DEF FireAllDone, histVars
<1>2. PICK elapsed \in 0..MaxElapsed : ui_TotalDeviation' = elapsed \div 2
  BY DEF FireAllDone
<1>3. /\ elapsed \div 2 \in Nat /\ MaxElapsed \div 2 \in Nat
      /\ elapsed \div 2 <= MaxElapsed \div 2 /\ 2 * (MaxElapsed \div 2) <= MaxElapsed
  BY SizesAre, Halves
<1>4. SoundInv' /\ TableInv'
  BY <1>0, <1>1, BoxesStay
<1>5. TypeOK'
  <2>1. ui_TotalDeviation' \in 0..(PosModulus - 1)
    BY <1>2, <1>3, SizesAre
  <2> QED BY <1>0, <1>1, <2>1 DEF TypeOK, idVars
<1>6. InHand' /\ DeviationBounded'
  BY <1>0, <1>1, <1>2, <1>3 DEF InHand, InOnTimer, DeviationBounded
<1>7. /\ \A s : Ahead(s)' = Ahead(s)
      /\ set_Timers' = set_Timers /\ left' = left /\ togo' = togo /\ timer' = timer
      /\ passedOver' = passedOver /\ m_ptrTimers' = m_ptrTimers
  BY <1>1, AheadStays DEF idVars
<1>8. DueInv'
  <2>1. \A s \in Slots : \A b \in Elems(set_Timers[s])' : Due(b, Ahead(s))'
    BY <1>0, <1>7 DEF DueInv, Due, IsTimerLive
  <2>2. \A b \in Elems(lst_FireAll)' : FALSE
    BY <1>1 DEF Elems
  <2> QED BY <2>1, <2>2 DEF DueInv
<1>9. TrackInv'
  BY <1>0, <1>1, <1>7 DEF TrackInv
<1> QED BY <1>4, <1>5, <1>6, <1>8, <1>9 DEF Inner

LEMMA SetPollKeepsInner == Inner /\ SetPollInterval => Inner'
<1> SUFFICES ASSUME Inner, SetPollInterval PROVE Inner'
  OBVIOUS
<1> DEFINE filled == {k \in Scanned(EPOL_WAIT) : set_Timers[Slot(k)] # <<>>}
<1>0. TypeOK /\ SoundInv /\ TableInv /\ InHand /\ DeviationBounded /\ DueInv /\ TrackInv
  BY DEF Inner
<1>1. /\ pc = "poll" /\ pc' = "read"
      /\ uiPollInterval' = IF filled = {} THEN EPOL_WAIT ELSE Min(filled) + 1
      /\ passedOver' = IF Wraps(EPOL_WAIT) THEN IdsInWheel(set_Timers) ELSE passedOver
      /\ UNCHANGED <<timer, set_Timers, lst_FireAll, idVars, ui_CurrentPos,
                     ui_TotalDeviation, pTimeBox, left, togo>>
  BY DEF SetPollInterval
<1>2. \/ Scanned(EPOL_WAIT) = 0..(EPOL_WAIT - 1) /\ ~Wraps(EPOL_WAIT)
      \/ Scanned(EPOL_WAIT) = {} /\ Wraps(EPOL_WAIT)
  <2>1. EPOL_WAIT \in 0..(PosModulus - 1)
    BY SizesAre
  <2> QED BY <1>0, <2>1, ScannedIs
<1>3. filled \subseteq 0..(EPOL_WAIT - 1) /\ filled \in SUBSET Nat
  BY <1>2, SizesAre
<1>4. ~Wraps(EPOL_WAIT) =>
        \A k \in 0..(EPOL_WAIT - 1) : set_Timers[Slot(k)] # <<>> => k \in filled
  BY <1>2
<1> HIDE DEF filled
<1>5. filled # {} => Min(filled) \in filled /\ \A k \in filled : Min(filled) <= k
  BY <1>3, MinIsLeast
<1>6. uiPollInterval' \in 1..EPOL_WAIT
  <2>1. CASE filled = {}
    <3>1. uiPollInterval' = EPOL_WAIT
      BY <1>1, <2>1
    <3> QED BY <3>1, SizesAre
  <2>2. CASE filled # {}
    <3>1. uiPollInterval' = Min(filled) + 1
      BY <1>1, <2>2
    <3>2. Min(filled) \in 0..(EPOL_WAIT - 1)
      BY <1>3, <1>5, <2>2
    <3> QED BY <3>1, <3>2, SizesAre
  <2> QED BY <2>1, <2>2
<1>7. SoundInv' /\ TableInv'
  BY <1>0, <1>1, BoxesStay
<1>8. TypeOK'
  <2>1. IdsInWheel(set_Timers) \subseteq Ids
    BY <1>0, InWheelIs DEF TypeOK
  <2>2. passedOver' \subseteq Ids
    BY <1>0, <1>1, <2>1 DEF TypeOK
  <2> QED BY <1>0, <1>1, <1>6, <2>2 DEF TypeOK, idVars
<1>9. InHand' /\ DeviationBounded'
  BY <1>0, <1>1 DEF InHand, InOnTimer, DeviationBounded
<1>10. /\ \A s : Ahead(s)' = Ahead(s)
       /\ set_Timers' = set_Timers /\ lst_FireAll' = lst_FireAll /\ left' = left
       /\ togo' = togo /\ timer' = timer /\ m_ptrTimers' = m_ptrTimers
  BY <1>1, AheadStays DEF idVars
<1>11. DueInv'
  <2>1. \A s \in Slots : \A b \in Elems(set_Timers[s])' : Due(b, Ahead(s))'
    BY <1>0, <1>10 DEF DueInv, Due, IsTimerLive
  <2>2. \A b \in Elems(lst_FireAll)' : FALSE
    BY <1>0, <1>1, <1>10 DEF Elems, InHand
  <2> QED BY <2>1, <2>2 DEF DueInv
<1>12. CASE Wraps(EPOL_WAIT)
  <2>1. \A s \in Slots : \A b \in Elems(set_Timers[s]) : b.ui_TimerID \in passedOver'
    BY <1>1, <1>12, InTheWheel
  <2>2. TrackInv'
    BY <1>10, <2>1 DEF TrackInv
  <2> QED BY <1>7, <1>8, <1>9, <1>11, <2>2 DEF Inner
<1>13. CASE ~Wraps(EPOL_WAIT)
  <2>1. passedOver' = passedOver
    BY <1>1, <1>13
  <2>2. ASSUME NEW s \in Slots, NEW b \in Elems(set_Timers[s])
        PROVE  Ahead(s) >= uiPollInterval' - 1
    <3>1. set_Timers[s] # <<>>
      BY DEF Elems
    <3>2. Ahead(s) \in Slots /\ Slot(Ahead(s)) = s
      BY <1>0, Positions
    <3>3. CASE Ahead(s) < EPOL_WAIT
      <4>1. Ahead(s) \in 0..(EPOL_WAIT - 1)
        BY <3>2, <3>3, SizesAre
      <4>2. Ahead(s) \in filled
        BY <1>4, <1>13, <3>1, <3>2, <4>1
      <4>3. Min(filled) <= Ahead(s) /\ Min(filled) \in Nat
        BY <1>3, <1>5, <4>2
      <4>4. uiPollInterval' = Min(filled) + 1
        BY <1>1, <4>2
      <4> QED BY <4>1, <4>3, <4>4
    <3>4. CASE ~(Ahead(s) < EPOL_WAIT)
      BY <1>6, <3>2, <3>4, SizesAre
    <3> QED BY <3>3, <3>4
  <2>3. TrackInv'
    BY <1>0, <1>10, <2>1, <2>2 DEF TrackInv
  <2> QED BY <1>7, <1>8, <1>9, <1>11, <2>3 DEF Inner
<1> QED BY <1>12, <1>13

\* FireAll turns the wheel by less than a turn, unless its loops see nothing.
LEMMA TurnIs ==
  ASSUME TypeOK
  PROVE  /\ Turn \in 0..(PosModulus - 1)
         /\ \/ Scanned(Turn) = 0..(Turn - 1) /\ ~Wraps(Turn) /\ Turn < ARRAY_SIZE
            \/ Scanned(Turn) = {} /\ Wraps(Turn)
<1>1. ui_TotalDeviation \in 0..(PosModulus - 1)
  BY DEF TypeOK
<1>2. \/ Scanned(ui_TotalDeviation) = 0..(ui_TotalDeviation - 1)
      \/ Scanned(ui_TotalDeviation) = {} /\ Wraps(ui_TotalDeviation)
  BY <1>1, ScannedIs
<1>3. CASE ARRAY_SIZE - 1 \in Scanned(ui_TotalDeviation)
  <2>1. Turn = ARRAY_SIZE - 1
    BY <1>3 DEF Turn
  <2>2. ARRAY_SIZE - 1 \in 0..(ui_TotalDeviation - 1)
    BY <1>2, <1>3
  <2>3. Turn \in 0..(PosModulus - 1) /\ Turn < ARRAY_SIZE
    BY <1>1, <2>1, <2>2, SizesAre
  <2>4. \/ Scanned(Turn) = 0..(Turn - 1) /\ ~Wraps(Turn)
        \/ Scanned(Turn) = {} /\ Wraps(Turn)
    BY <2>3, ScannedIs
  <2> QED BY <2>3, <2>4
<1>4. CASE ARRAY_SIZE - 1 \notin Scanned(ui_TotalDeviation)
  <2>1. Turn = ui_TotalDeviation
    BY <1>4 DEF Turn
  <2>2. Scanned(ui_TotalDeviation) = {} \/ Turn < ARRAY_SIZE
    BY <1>1, <1>2, <1>4, <2>1, SizesAre
  <2>3. \/ Scanned(Turn) = 0..(Turn - 1) /\ ~Wraps(Turn)
        \/ Scanned(Turn) = {} /\ Wraps(Turn)
    BY <1>1, <2>1, ScannedIs
  <2>4. CASE Turn < ARRAY_SIZE
    BY <1>1, <2>1, <2>3, <2>4
  <2>5. CASE Scanned(ui_TotalDeviation) = {}
    <3>1. ~(Turn < ARRAY_SIZE) => ~(Scanned(Turn) = 0..(Turn - 1))
      <4>1. ~(Turn < ARRAY_SIZE) => 0 \in 0..(Turn - 1)
        BY <1>1, <2>1, SizesAre
      <4> QED BY <2>1, <2>5, <4>1
    <3> QED BY <1>1, <2>1, <2>3, <3>1
  <2> QED BY <2>2, <2>4, <2>5
<1> QED BY <1>3, <1>4

\* The box FireAll collects next.
LEMMA CollectedBox ==
  ASSUME Inner, pc = "collect", ToCollect # {}
  PROVE  LET k == Min(ToCollect)
             s == Slot(k)
             box == Head(set_Timers[s])
             w == [set_Timers EXCEPT ![s] = Tail(@)]
             Q == [Rows EXCEPT ![s] = Tail(@)]
         IN
         /\ Turn \in Nat /\ k \in Nat /\ k <= Turn
         /\ box \in Box /\ box \in Held(Rows) /\ Due(box, k) /\ pTimeBox = NoBox
         /\ Q \in [Shelves -> Seq(Box)] /\ Distinct(Q)
         /\ Held(Q) = Held(Rows) \ {box}
         /\ \A b \in Held(Q) : b.ui_TimerID # box.ui_TimerID
         /\ w \in [Slots -> Seq(Box)]
         /\ \A r \in Slots : Q[r] = w[r]
         /\ \A r \in Slots : Elems(w[r]) \subseteq Elems(set_Timers[r])
         /\ \A r \in Slots : Elems(w[r]) \subseteq Held(Q)
         /\ Q[ARRAY_SIZE] = lst_FireAll /\ Elems(lst_FireAll) \subseteq Held(Q)
         /\ Q[ARRAY_SIZE + 1] = <<>>
<1> DEFINE k == Min(ToCollect)
           s == Slot(k)
           box == Head(set_Timers[s])
           w == [set_Timers EXCEPT ![s] = Tail(@)]
           Q == [Rows EXCEPT ![s] = Tail(@)]
<1>0. TypeOK /\ SoundInv /\ InHand /\ DueInv
  BY DEF Inner
<1>1. Turn \in Nat /\ ToCollect \subseteq 0..(Turn - 1) /\ Turn < ARRAY_SIZE
  <2>1. /\ Turn \in 0..(PosModulus - 1)
        /\ \/ Scanned(Turn) = 0..(Turn - 1) /\ ~Wraps(Turn) /\ Turn < ARRAY_SIZE
           \/ Scanned(Turn) = {} /\ Wraps(Turn)
    BY <1>0, TurnIs
  <2> QED BY <2>1, SizesAre DEF ToCollect
<1>2. k \in ToCollect
  <2>1. ToCollect \in SUBSET Nat
    BY <1>1
  <2> QED BY <2>1, MinIsLeast
<1>3. k \in 0..(Turn - 1) /\ set_Timers[Slot(k)] # <<>>
  BY <1>1, <1>2 DEF ToCollect
<1> HIDE DEF k
<1>4. k \in Nat /\ k <= Turn /\ k \in Slots
  BY <1>1, <1>3, SizesAre
<1>5. s \in Slots /\ s \in Shelves /\ Ahead(s) = k /\ s # ARRAY_SIZE /\ s # ARRAY_SIZE + 1
  BY <1>0, <1>4, Positions, ShelvesAre
<1> HIDE DEF s
<1>6. pTimeBox = NoBox
  BY <1>0 DEF InHand, InOnTimer
<1>7. /\ Rows \in [Shelves -> Seq(Box)] /\ Distinct(Rows)
      /\ \A r \in Slots : Rows[r] = set_Timers[r] /\ set_Timers[r] \in Seq(Box)
      /\ Rows[ARRAY_SIZE] = lst_FireAll /\ Rows[ARRAY_SIZE + 1] = <<>>
  BY <1>0, <1>6, RowsAre DEF SoundInv
<1>8. Rows[s] # <<>> /\ box = Head(Rows[s]) /\ Rows[s] = set_Timers[s]
  BY <1>3, <1>5, <1>7 DEF s
<1> HIDE DEF box, Q
<1>9. /\ Q \in [Shelves -> Seq(Box)] /\ Distinct(Q)
      /\ box \in Held(Rows) /\ box \in Box /\ Held(Q) = Held(Rows) \ {box}
      /\ \A b \in Held(Q) : b.ui_TimerID # box.ui_TimerID
  <2>1. Q = [Rows EXCEPT ![s] = Tail(@)]
    BY DEF Q
  <2>2. Rows \in [Shelves -> Seq(Box)] /\ Distinct(Rows) /\ s \in Shelves /\ Rows[s] # <<>>
    BY <1>5, <1>7, <1>8
  <2>3. /\ Q \in [Shelves -> Seq(Box)] /\ Distinct(Q)
        /\ Head(Rows[s]) \in Held(Rows) /\ Head(Rows[s]) \in Box
        /\ Held(Q) = Held(Rows) \ {Head(Rows[s])}
        /\ \A b \in Held(Q) : b.ui_TimerID # Head(Rows[s]).ui_TimerID
    BY <2>1, <2>2, PopRow, Zenon
  <2> QED BY <1>8, <2>3
<1>10. Q[s] = Tail(Rows[s]) /\ \A r \in Shelves \ {s} : Q[r] = Rows[r]
  BY <1>5, <1>7 DEF Q
<1>11. /\ Tail(Rows[s]) \in Seq(Box) /\ box \in Elems(Rows[s])
       /\ Elems(Tail(Rows[s])) \subseteq Elems(Rows[s])
  BY <1>5, <1>7, <1>8, ElemsTail
<1>12. Due(box, k)
  BY <1>0, <1>5, <1>8, <1>11 DEF DueInv
<1>13. /\ w \in [Slots -> Seq(Box)] /\ w[s] = Tail(Rows[s])
       /\ \A r \in Slots \ {s} : w[r] = Rows[r]
  <2>1. set_Timers \in [Slots -> Seq(Box)]
    BY <1>0 DEF TypeOK
  <2> QED BY <1>5, <1>7, <1>8, <1>11, <2>1
<1> HIDE DEF w
<1>14. \A r \in Slots : Q[r] = w[r] /\ Elems(w[r]) \subseteq Elems(set_Timers[r])
  BY <1>5, <1>7, <1>8, <1>10, <1>11, <1>13, ShelvesAre
<1>15. Q[ARRAY_SIZE] = lst_FireAll /\ Q[ARRAY_SIZE + 1] = <<>>
  BY <1>5, <1>7, <1>10, ShelvesAre
<1>16. /\ \A r \in Slots : Elems(w[r]) \subseteq Held(Q)
       /\ Elems(lst_FireAll) \subseteq Held(Q)
  BY <1>14, <1>15, ShelvesAre DEF Held
<1> QED BY <1>1, <1>4, <1>6, <1>9, <1>12, <1>13, <1>14, <1>15, <1>16 DEF k, s, box, w, Q

LEMMA CollectBoxKeepsInner == Inner /\ CollectBox => Inner'
<1> SUFFICES ASSUME Inner, CollectBox PROVE Inner'
  OBVIOUS
<1> DEFINE k == Min(ToCollect)
           box == Head(set_Timers[Slot(k)])
           w == [set_Timers EXCEPT ![Slot(k)] = Tail(@)]
           Q == [Rows EXCEPT ![Slot(k)] = Tail(@)]
           id == box.ui_TimerID
<1>0. TypeOK /\ SoundInv /\ TableInv /\ InHand /\ DeviationBounded /\ DueInv /\ TrackInv
  BY DEF Inner
<1>1. /\ pc = "collect" /\ ToCollect # {}
      /\ \/ /\ IsTimerLive(id) /\ lst_FireAll' = Append(lst_FireAll, box)
            /\ set_Timers' = w /\ UNCHANGED <<stack_FreeTimerIDs, left, togo, passedOver>>
         \/ ~IsTimerLive(id) /\ FreeBox(w, box) /\ UNCHANGED lst_FireAll
      /\ UNCHANGED <<timer, m_ptrTimers, i_MaxTimers, ui_CurrentPos,
                     ui_TotalDeviation, uiPollInterval, pc, pTimeBox>>
  BY DEF CollectBox, posVars, histVars
<1>2. /\ Turn \in Nat /\ k \in Nat /\ k <= Turn
      /\ box \in Box /\ box \in Held(Rows) /\ Due(box, k) /\ pTimeBox = NoBox
      /\ Q \in [Shelves -> Seq(Box)] /\ Distinct(Q)
      /\ Held(Q) = Held(Rows) \ {box}
      /\ \A b \in Held(Q) : b.ui_TimerID # id
      /\ w \in [Slots -> Seq(Box)]
      /\ \A r \in Slots : Q[r] = w[r]
      /\ \A r \in Slots : Elems(w[r]) \subseteq Elems(set_Timers[r])
      /\ \A r \in Slots : Elems(w[r]) \subseteq Held(Q)
      /\ Q[ARRAY_SIZE] = lst_FireAll /\ Elems(lst_FireAll) \subseteq Held(Q)
      /\ Q[ARRAY_SIZE + 1] = <<>>
  BY <1>1, CollectedBox
<1> HIDE DEF k, w, Q, box
<1>3. /\ \A s : Ahead(s)' = Ahead(s)
      /\ Turn' = Turn /\ timer' = timer /\ m_ptrTimers' = m_ptrTimers
  BY <1>1, AheadStays DEF Turn, Scanned, Pos
<1>4. Held(Rows) \in SUBSET Box /\ OneEach(Held(Rows))
        /\ m_ptrTimers \in Tables /\ timer \in Objects
  BY <1>0, RowsAre, DistinctIsOneEach DEF SoundInv, TypeOK, Tables, Objects
<1>5. \A b \in Held(Q) : b \in Box /\ b.ui_TimerID \in Ids \ {id} /\ b \in Held(Rows)
  BY <1>2, <1>4 DEF Box
<1>6. ASSUME IsTimerLive(id), lst_FireAll' = Append(lst_FireAll, box), set_Timers' = w,
             UNCHANGED <<stack_FreeTimerIDs, left, togo, passedOver>>
      PROVE  Inner'
  <2> DEFINE R == [Q EXCEPT ![ARRAY_SIZE] = Append(@, box)]
  <2>1. /\ lst_FireAll' \in Seq(Box)
        /\ Elems(lst_FireAll') = Elems(lst_FireAll) \cup {box}
    BY <1>0, <1>2, <1>6, ElemsAppend DEF TypeOK
  <2>2. TypeOK'
    BY <1>0, <1>1, <1>2, <1>6, <2>1 DEF TypeOK
  <2>3. R[ARRAY_SIZE] = lst_FireAll' /\ \A r \in Shelves \ {ARRAY_SIZE} : R[r] = Q[r]
    BY <1>2, <1>6, ShelvesAre
  <2>4. R = [Q EXCEPT ![ARRAY_SIZE] = Append(@, box)] /\ ARRAY_SIZE \in Shelves
    BY ShelvesAre
  <2> HIDE DEF R
  <2>5. R \in [Shelves -> Seq(Box)] /\ Distinct(R) /\ Held(R) = Held(Q) \cup {box}
    BY <1>2, <2>4, PushRow, Zenon
  <2>6. Rows' = R
    <3>1. \A r \in Slots : set_Timers'[r] = R[r]
      BY <1>2, <1>6, <2>3, ShelvesAre
    <3>2. R[ARRAY_SIZE + 1] = IF pTimeBox' = NoBox THEN <<>> ELSE <<pTimeBox'>>
      BY <1>1, <1>2, <2>3, ShelvesAre
    <3> QED BY <2>3, <2>5, <3>1, <3>2, RowsNext
  <2>7. Held(Rows') = Held(Rows) /\ Held(Rows)' = Held(Rows) /\ Distinct(Rows')
    BY <1>2, <2>5, <2>6
  <2>8. SoundInv'
    BY <1>0, <1>3, <1>6, <2>7 DEF SoundInv
  <2>9. TableInv'
    BY <1>0, <1>1, <1>6, <2>7 DEF TableInv
  <2>10. InHand' /\ DeviationBounded'
    BY <1>0, <1>1 DEF InHand, InOnTimer, DeviationBounded
  <2>11. DueInv'
    <3>1. ASSUME NEW s \in Slots, NEW b \in Elems(set_Timers'[s]) PROVE Due(b, Ahead(s))'
      <4>1. Due(b, Ahead(s))
        BY <1>0, <1>2, <1>6 DEF DueInv
      <4> QED BY <1>3, <1>6, <4>1 DEF Due, IsTimerLive
    <3>2. ASSUME NEW b \in Elems(lst_FireAll') PROVE Due(b, Turn)'
      <4>1. Due(b, Turn)
        <5>1. CASE b \in Elems(lst_FireAll)
          BY <1>0, <1>1, <5>1 DEF DueInv
        <5>2. CASE b = box
          <6>1. left[id] <= timer[box.p_Timer].ui_NextFire + k
            BY <1>2, <1>6 DEF Due
          <6>2. left[id] \in Nat /\ timer[box.p_Timer].ui_NextFire \in Nat
            BY <1>0, <1>2, <1>6, InTheWheel DEF TypeOK
          <6>3. left[id] <= timer[box.p_Timer].ui_NextFire + Turn
            BY <1>2, <6>1, <6>2
          <6> QED BY <5>2, <6>3 DEF Due
        <5> QED BY <2>1, <5>1, <5>2
      <4> QED BY <1>3, <1>6, <4>1 DEF Due, IsTimerLive
    <3> QED BY <1>1, <3>1, <3>2 DEF DueInv
  <2>12. TrackInv'
    <3>1. ASSUME NEW s \in Slots, NEW b \in Elems(set_Timers'[s]),
                 b.ui_TimerID \notin passedOver'
          PROVE  togo'[b.ui_TimerID] = Ahead(s)'
      BY <1>0, <1>2, <1>3, <1>6, <3>1 DEF TrackInv
    <3> QED BY <1>1, <3>1 DEF TrackInv
  <2> QED BY <2>2, <2>8, <2>9, <2>10, <2>11, <2>12 DEF Inner
<1>7. ASSUME ~IsTimerLive(id), FreeBox(w, box), UNCHANGED lst_FireAll
      PROVE  Inner'
  <2>1. /\ id \in Ids /\ set_Timers' = w
        /\ stack_FreeTimerIDs' \in Seq(Nat \ {0})
        /\ Elems(stack_FreeTimerIDs') = Elems(stack_FreeTimerIDs) \cup {id}
        /\ IsInjective(stack_FreeTimerIDs) /\ id \notin Elems(stack_FreeTimerIDs)
             => IsInjective(stack_FreeTimerIDs')
        /\ togo' \in [Ids -> Int] /\ left' \in [Ids -> Nat] /\ passedOver' \subseteq Ids
        /\ passedOver' = passedOver \ {id}
        /\ \A i \in Ids \ {id} : togo'[i] = togo[i] /\ left'[i] = left[i]
    BY <1>0, <1>2, <1>7, FreeBoxIs
  <2>2. TypeOK'
    BY <1>0, <1>1, <1>2, <1>7, <2>1 DEF TypeOK
  <2>3. Rows' = Q
    <3>1. \A r \in Slots : set_Timers'[r] = Q[r]
      BY <1>2, <2>1
    <3>2. Q[ARRAY_SIZE + 1] = IF pTimeBox' = NoBox THEN <<>> ELSE <<pTimeBox'>>
      BY <1>1, <1>2
    <3> QED BY <1>2, <1>7, <3>1, <3>2, RowsNext
  <2>4. /\ Held(Rows') = Held(Rows) \ {box} /\ Held(Rows)' = Held(Rows) \ {box}
        /\ Distinct(Rows')
        /\ Elems(stack_FreeTimerIDs)' = Elems(stack_FreeTimerIDs) \cup {id}
    BY <1>2, <2>1, <2>3
  <2>5. SoundInv'
    <3>1. m_ptrTimers[id] = NULL
      BY <1>7 DEF IsTimerLive
    <3>2. Sound(Held(Rows) \ {box}, Elems(stack_FreeTimerIDs) \cup {id}, m_ptrTimers, timer)
      BY <1>0, <1>2, <1>4, <3>1, SoundDrop DEF SoundInv
    <3>3. id \notin Elems(stack_FreeTimerIDs)
      BY <1>0, <1>2 DEF SoundInv, Sound
    <3>4. Sound(Held(Rows'), Elems(stack_FreeTimerIDs'), m_ptrTimers', timer')
      BY <1>3, <2>1, <2>4, <3>2
    <3> QED BY <1>0, <2>1, <2>4, <3>3, <3>4 DEF SoundInv
  <2>6. TableInv'
    <3>1. id < i_MaxTimers
      BY <1>0, <1>2 DEF TableInv
    <3> QED BY <1>0, <1>1, <2>4, <3>1 DEF TableInv
  <2>7. InHand' /\ DeviationBounded'
    BY <1>0, <1>1, <1>7 DEF InHand, InOnTimer, DeviationBounded
  <2>8. ASSUME NEW b \in Held(Q), NEW more, Due(b, more)
        PROVE  IsTimerLive(b.ui_TimerID)' =>
                 left'[b.ui_TimerID] <= timer'[b.p_Timer].ui_NextFire + more
    BY <1>3, <1>5, <2>1, <2>8 DEF Due, IsTimerLive
  <2>9. DueInv'
    <3>1. ASSUME NEW s \in Slots, NEW b \in Elems(set_Timers'[s]) PROVE Due(b, Ahead(s))'
      <4>1. b \in Held(Q) /\ Due(b, Ahead(s))
        BY <1>0, <1>2, <2>1 DEF DueInv
      <4> QED BY <1>3, <2>8, <4>1 DEF Due
    <3>2. ASSUME NEW b \in Elems(lst_FireAll') PROVE Due(b, Turn)'
      <4>1. b \in Held(Q) /\ Due(b, Turn)
        BY <1>0, <1>1, <1>2, <1>7 DEF DueInv
      <4> QED BY <1>3, <2>8, <4>1 DEF Due
    <3> QED BY <1>1, <3>1, <3>2 DEF DueInv
  <2>10. TrackInv'
    <3>1. ASSUME NEW s \in Slots, NEW b \in Elems(set_Timers'[s]),
                 b.ui_TimerID \notin passedOver'
          PROVE  togo'[b.ui_TimerID] = Ahead(s)'
      <4>1. b \in Elems(set_Timers[s]) /\ b.ui_TimerID \in Ids \ {id}
        BY <1>2, <1>5, <2>1
      <4> QED BY <1>0, <1>3, <2>1, <3>1, <4>1 DEF TrackInv
    <3> QED BY <1>1, <3>1 DEF TrackInv
  <2> QED BY <2>2, <2>5, <2>6, <2>7, <2>9, <2>10 DEF Inner
<1> QED BY <1>1, <1>6, <1>7

LEMMA CollectDoneKeepsInner == Inner /\ CollectDone => Inner'
<1> SUFFICES ASSUME Inner, CollectDone PROVE Inner'
  OBVIOUS
<1>0. TypeOK /\ SoundInv /\ TableInv /\ InHand /\ DeviationBounded /\ DueInv /\ TrackInv
  BY DEF Inner
<1>1. /\ pc = "collect" /\ ToCollect = {} /\ Advance(Turn, set_Timers)
      /\ ui_TotalDeviation' = 0 /\ pc' = "all"
      /\ passedOver' = IF Wraps(Turn) THEN IdsInWheel(set_Timers) ELSE passedOver
      /\ UNCHANGED <<timer, set_Timers, lst_FireAll, idVars, uiPollInterval, pTimeBox>>
  BY DEF CollectDone
<1>2. /\ Turn \in Nat
      /\ \/ Scanned(Turn) = 0..(Turn - 1) /\ ~Wraps(Turn) /\ Turn < ARRAY_SIZE
         \/ Scanned(Turn) = {} /\ Wraps(Turn)
  BY <1>0, TurnIs, SizesAre
<1>3. SoundInv' /\ TableInv'
  BY <1>0, <1>1, BoxesStay
<1>4. /\ ui_CurrentPos' \in 0..(PosModulus - 1)
      /\ left' \in [Ids -> Nat] /\ togo' \in [Ids -> Int]
  BY <1>0, <1>1, <1>2, AdvanceIs
<1>5. TypeOK'
  <2>1. IdsInWheel(set_Timers) \subseteq Ids
    BY <1>0, InWheelIs DEF TypeOK
  <2>2. passedOver' \subseteq Ids
    BY <1>0, <1>1, <2>1 DEF TypeOK
  <2>3. ui_TotalDeviation' \in 0..(PosModulus - 1)
    BY <1>1, SizesAre
  <2> QED BY <1>0, <1>1, <1>4, <2>2, <2>3 DEF TypeOK, idVars
<1>6. InHand' /\ DeviationBounded'
  BY <1>0, <1>1 DEF InHand, InOnTimer, DeviationBounded
<1>7. set_Timers' = set_Timers /\ lst_FireAll' = lst_FireAll
  BY <1>1
<1>8. DueInv'
  <2>1. /\ \A s \in Slots : \A b \in Elems(set_Timers[s]) :
             IsTimerLive(b.ui_TimerID)' =>
               left'[b.ui_TimerID] <= timer'[b.p_Timer].ui_NextFire + Ahead(s)'
        /\ \A b \in Elems(lst_FireAll) : Due(b, Turn) =>
             (IsTimerLive(b.ui_TimerID)' =>
                left'[b.ui_TimerID] <= timer'[b.p_Timer].ui_NextFire + 0)
    BY <1>1, <1>2, TurnKeepsDue DEF idVars
  <2>2. \A s \in Slots : \A b \in Elems(set_Timers[s])' : Due(b, Ahead(s))'
    BY <1>7, <2>1 DEF Due
  <2>3. \A b \in Elems(lst_FireAll) : Due(b, Turn)
    BY <1>0, <1>1 DEF DueInv
  <2>4. \A b \in Elems(lst_FireAll)' : Due(b, 0)'
    BY <1>7, <2>1, <2>3 DEF Due
  <2> QED BY <1>1, <2>2, <2>4 DEF DueInv
<1>9. TrackInv'
  <2>1. CASE Wraps(Turn)
    <3>1. \A s \in Slots : \A b \in Elems(set_Timers[s]) : b.ui_TimerID \in passedOver'
      BY <1>1, <2>1, InTheWheel
    <3> QED BY <1>7, <3>1 DEF TrackInv
  <2>2. CASE ~Wraps(Turn)
    <3>1. Turn < ARRAY_SIZE /\ Scanned(Turn) = 0..(Turn - 1) /\ passedOver' = passedOver
      BY <1>1, <1>2, <2>2
    <3>2. ASSUME NEW s \in Slots, NEW b \in Elems(set_Timers[s]) PROVE Ahead(s) >= Turn
      <4>1. Ahead(s) \in Slots /\ Slot(Ahead(s)) = s
        BY <1>0, Positions
      <4>2. set_Timers[s] # <<>>
        BY DEF Elems
      <4>3. Ahead(s) \notin Scanned(Turn)
        BY <1>1, <4>1, <4>2 DEF ToCollect
      <4> QED BY <1>2, <3>1, <4>1, <4>3, SizesAre
    <3>3. \A s \in Slots : \A b \in Elems(set_Timers[s]) :
            b.ui_TimerID \notin passedOver => Ahead(s) >= Turn
      BY <3>2
    <3>4. Turn \in Nat /\ Advance(Turn, set_Timers)
      BY <1>1, <1>2
    <3>5. \A s \in Slots : \A b \in Elems(set_Timers[s]) :
            b.ui_TimerID \notin passedOver => togo'[b.ui_TimerID] = Ahead(s)'
      BY <3>1, <3>3, <3>4, TurnKeepsTrack, Zenon
    <3>6. pc' # "read"
      BY <1>1
    <3> QED BY <1>7, <3>1, <3>5, <3>6 DEF TrackInv
  <2> QED BY <2>1, <2>2
<1> QED BY <1>3, <1>5, <1>6, <1>8, <1>9 DEF Inner

-----------------------------------------------------------------------------
(* The invariant.                                                          *)

LEMMA InitInner == Init => Inner
<1> SUFFICES ASSUME Init PROVE Inner
  OBVIOUS
<1> DEFINE id == TIMERS_LIMIT - 1
           at == Place(HBInterval)
           box == [ui_TimerID |-> id, p_Timer |-> HBTimer]
           fields == [ui_Interval |-> HBInterval, b_IsRepeated |-> TRUE,
                      ui_TimerID |-> id, ui_NextFire |-> at.nextFire]
           s1 == (1 + at.offset) % ARRAY_SIZE
           free == [i \in 1..(id - 1) |-> id - i]
<1>1. /\ timer = [t \in Timers |-> IF t = HBTimer THEN fields ELSE NULL]
      /\ ui_CurrentPos = 1 /\ ui_TotalDeviation = 0 /\ uiPollInterval = 1
      /\ set_Timers = [s \in Slots |-> IF s = s1 THEN <<box>> ELSE <<>>]
      /\ lst_FireAll = <<>>
      /\ m_ptrTimers = [i \in 0..MaxTimerID |-> IF i = id THEN HBTimer ELSE NULL]
      /\ stack_FreeTimerIDs = free /\ i_MaxTimers = TIMERS_LIMIT
      /\ pc = "slot" /\ pTimeBox = NoBox
      /\ left = [i \in Ids |-> IF i = id THEN HBInterval ELSE 0]
      /\ togo = [i \in Ids |-> IF i = id THEN at.offset ELSE 0]
      /\ passedOver = {}
  BY DEF Init
<1>2. /\ id \in Ids /\ id \in Nat /\ id > 0 /\ id < TIMERS_LIMIT /\ TIMERS_LIMIT \in Nat
      /\ HBTimer \in Timers /\ HBInterval \in Nat /\ HBInterval # 0
  BY TimerAssumption DEF Ids
<1>3. /\ at.offset \in Slots /\ at.offset > 0 /\ at.nextFire \in Nat
      /\ HBInterval = at.offset + at.nextFire
  <2>1. HBInterval \in Nat \ {0}
    BY <1>2
  <2> QED BY <2>1, PlaceIs, Zenon
<1>4. /\ free \in Seq(Nat \ {0}) /\ Len(free) = id - 1 /\ DOMAIN free = 1..(id - 1)
      /\ IsInjective(free)
      /\ \A i \in 1..Len(free) : free[i] < id
  <2>1. \A i \in 1..(id - 1) : id - i \in Nat \ {0}
    BY <1>2
  <2>2. id - 1 \in Nat
    BY <1>2
  <2>3. free \in Seq(Nat \ {0}) /\ Len(free) = id - 1 /\ DOMAIN free = 1..(id - 1)
    BY <2>1, <2>2
  <2> QED BY <1>2, <2>3 DEF IsInjective
<1>5. box \in Box /\ fields \in TimerFields
  <2>1. id \in 0..MaxTimerID
    BY <1>2 DEF Ids
  <2> QED BY <1>2, <1>3, <2>1 DEF Box, TimerFields
<1>6. PosModulus \in Nat /\ PosModulus > 1 /\ 1 < ARRAY_SIZE
  BY SizesAre
<1> HIDE DEF id, at, box, fields, free
<1>7. s1 \in Slots /\ s1 = IF 1 + at.offset < ARRAY_SIZE THEN 1 + at.offset
                                                        ELSE 1 + at.offset - ARRAY_SIZE
  <2>1. ((1 + at.offset) % ARRAY_SIZE) \in 0..(ARRAY_SIZE - 1)
    BY <1>3, SizesAre
  <2>2. at.offset \in 0..(ARRAY_SIZE - 1) /\ ARRAY_SIZE \in Nat
    BY <1>3, SizesAre
  <2>3. (1 + at.offset) % ARRAY_SIZE = IF 1 + at.offset < ARRAY_SIZE THEN 1 + at.offset
                                       ELSE 1 + at.offset - ARRAY_SIZE
    <3>1. CASE 1 + at.offset < ARRAY_SIZE
      <4>1. (ARRAY_SIZE * 0 + (1 + at.offset)) % ARRAY_SIZE = 1 + at.offset
        BY <1>6, <2>2, <3>1, ModIs
      <4> QED BY <2>2, <3>1, <4>1
    <3>2. CASE ~(1 + at.offset < ARRAY_SIZE)
      <4>1. 1 + at.offset = ARRAY_SIZE
        BY <2>2, <3>2
      <4>2. (ARRAY_SIZE * 1 + 0) % ARRAY_SIZE = 0
        BY <1>6, <2>2, ModIs
      <4> QED BY <2>2, <3>2, <4>1, <4>2
    <3> QED BY <3>1, <3>2
  <2> QED BY <2>1, <2>3, SizesAre
<1> HIDE DEF s1
<1>8. TypeOK
  <2>1. timer \in [Timers -> {NULL} \cup TimerFields]
    BY <1>1, <1>5
  <2>2. set_Timers \in [Slots -> Seq(Box)] /\ lst_FireAll \in Seq(Box)
    <3>1. <<box>> \in Seq(Box) /\ <<>> \in Seq(Box)
      BY <1>5
    <3> QED BY <1>1, <3>1
  <2>3. m_ptrTimers \in [0..MaxTimerID -> Timers \cup {NULL}]
    BY <1>1, <1>2
  <2>4. left \in [Ids -> Nat] /\ togo \in [Ids -> Int]
    BY <1>1, <1>2, <1>3, SizesAre
  <2>5. /\ ui_CurrentPos \in 0..(PosModulus - 1) /\ ui_TotalDeviation \in 0..(PosModulus - 1)
        /\ uiPollInterval \in 1..EPOL_WAIT
    BY <1>1, <1>6, SizesAre
  <2> QED BY <1>1, <1>2, <1>4, <2>1, <2>2, <2>3, <2>4, <2>5 DEF TypeOK
<1>9. /\ Rows[s1] = <<box>> /\ \A s \in Shelves \ {s1} : Rows[s] = <<>>
      /\ s1 \in Shelves
  BY <1>1, <1>7, <1>8, RowsAre, ShelvesAre
<1>10. Held(Rows) = {box} /\ Distinct(Rows)
  <2>1. Elems(<<box>>) = {box} /\ Elems(<<>>) = {}
    BY DEF Elems
  <2>2. Held(Rows) = {box}
    BY <1>9, <2>1 DEF Held
  <2>3. ASSUME NEW r \in Shelves, NEW s \in Shelves,
               NEW i \in 1..Len(Rows[r]), NEW j \in 1..Len(Rows[s])
        PROVE  r = s /\ i = j
    <3>1. Len(<<box>>) = 1 /\ Len(<<>>) = 0
      OBVIOUS
    <3>2. r = s1
      BY <1>9, <3>1
    <3>3. s = s1
      BY <1>9, <3>1
    <3>4. Len(Rows[r]) = 1 /\ Len(Rows[s]) = 1
      BY <1>9, <3>1, <3>2, <3>3
    <3>5. i = 1 /\ j = 1
      BY <3>4
    <3> QED BY <3>2, <3>3, <3>5
  <2> QED BY <2>2, <2>3 DEF Distinct
<1>11. box.ui_TimerID = id /\ box.p_Timer = HBTimer
         /\ fields.ui_TimerID = id /\ fields.ui_NextFire = at.nextFire
  BY DEF box, fields
<1>12. \A f \in Elems(free) : f < id
  BY <1>4 DEF Elems
<1>13. SoundInv
  <2>1. timer[HBTimer] = fields /\ \A t \in Timers : t # HBTimer => timer[t] = NULL
    BY <1>1, <1>2
  <2>2. m_ptrTimers[id] = HBTimer
    BY <1>1, <1>2 DEF Ids
  <2>3. fields # NULL
    BY <1>5, NullIsNoObject
  <2>4. id \notin Elems(free)
    BY <1>2, <1>12
  <2>5. Sound(Held(Rows), Elems(stack_FreeTimerIDs), m_ptrTimers, timer)
    BY <1>1, <1>10, <1>11, <2>1, <2>2, <2>3, <2>4 DEF Sound
  <2> QED BY <1>1, <1>4, <1>10, <2>5 DEF SoundInv
<1>14. TableInv
  <2>1. \A f \in Elems(free) : f < TIMERS_LIMIT
    <3>1. \A f \in Elems(free) : f \in Nat
      BY <1>4, ElementOfSeq DEF Elems
    <3> QED BY <1>2, <1>12, <3>1
  <2> QED BY <1>1, <1>2, <1>10, <1>11, <2>1 DEF TableInv
<1>15. InHand /\ DeviationBounded
  <2>1. 0 <= MaxElapsed + MaxElapsed \div 2
    BY SizesAre, Halves
  <2> QED BY <1>1, <2>1 DEF InHand, InOnTimer, DeviationBounded
<1>16. Ahead(s1) = at.offset
  <2>1. 0 \in Slots /\ (1 + 0) % PosModulus = 1 /\ 1 % ARRAY_SIZE = 1
    BY <1>6, SizesAre
  <2>2. Slot(0) = 1
    BY <1>1, <2>1 DEF Slot, Pos
  <2>3. Slot(at.offset) = s1
    BY <1>3, <1>7, <1>8, <2>2, Positions
  <2> QED BY <1>3, <1>8, <2>3, Positions
<1>17. ASSUME NEW s \in Slots, NEW b \in Elems(set_Timers[s])
       PROVE  s = s1 /\ b = box
  BY <1>1, <1>17 DEF Elems
<1>18. DueInv
  <2>1. left[id] = HBInterval /\ timer[HBTimer] = fields
    BY <1>1, <1>2
  <2>2. Due(box, at.offset)
    BY <1>3, <1>11, <2>1, SizesAre DEF Due
  <2>3. \A b \in Elems(lst_FireAll) : FALSE
    BY <1>1 DEF Elems
  <2> QED BY <1>16, <1>17, <2>2, <2>3 DEF DueInv
<1>19. TrackInv
  <2>1. togo[id] = at.offset
    BY <1>1, <1>2
  <2> QED BY <1>1, <1>11, <1>16, <1>17, <2>1 DEF TrackInv
<1> QED BY <1>8, <1>13, <1>14, <1>15, <1>18, <1>19 DEF Inner

LEMMA StutterKeepsInner == Inner /\ UNCHANGED vars => Inner'
<1> SUFFICES ASSUME Inner, UNCHANGED vars PROVE Inner'
  OBVIOUS
<1>0. TypeOK /\ SoundInv /\ TableInv /\ InHand /\ DeviationBounded /\ DueInv /\ TrackInv
  BY DEF Inner
<1>1. /\ UNCHANGED <<timer, set_Timers, lst_FireAll, idVars, pTimeBox>>
      /\ timer' = timer /\ set_Timers' = set_Timers /\ lst_FireAll' = lst_FireAll
      /\ m_ptrTimers' = m_ptrTimers /\ ui_CurrentPos' = ui_CurrentPos
      /\ ui_TotalDeviation' = ui_TotalDeviation /\ uiPollInterval' = uiPollInterval
      /\ pc' = pc /\ pTimeBox' = pTimeBox
      /\ left' = left /\ togo' = togo /\ passedOver' = passedOver
  BY DEF vars, idVars, posVars, histVars
<1>2. SoundInv' /\ TableInv'
  BY <1>0, <1>1, BoxesStay
<1>3. TypeOK'
  BY <1>0, <1>1 DEF TypeOK, idVars
<1>4. InHand' /\ DeviationBounded'
  BY <1>0, <1>1 DEF InHand, InOnTimer, DeviationBounded
<1>5. (\A s : Ahead(s)' = Ahead(s)) /\ Turn' = Turn
  BY <1>1, AheadStays DEF Turn, Scanned, Pos
<1>6. DueInv'
  <2>1. \A b \in Elems(lst_FireAll)' : Due(b, IF pc = "collect" THEN Turn ELSE 0)'
    BY <1>0, <1>1, <1>5 DEF DueInv, Due, IsTimerLive
  <2>2. \A s \in Slots : \A b \in Elems(set_Timers[s])' : Due(b, Ahead(s))'
    BY <1>0, <1>1, <1>5 DEF DueInv, Due, IsTimerLive
  <2> QED BY <2>1, <2>2 DEF DueInv
<1>7. TrackInv'
  BY <1>0, <1>1, <1>5 DEF TrackInv
<1> QED BY <1>2, <1>3, <1>4, <1>6, <1>7 DEF Inner

LEMMA InnerNext == Inner /\ [Next]_vars => Inner'
<1> SUFFICES ASSUME Inner, [Next]_vars PROVE Inner'
  OBVIOUS
<1>1. CASE DropBox
  BY <1>1, DropKeepsInner
<1>2. CASE RequeueBox
  BY <1>2, RequeueKeepsInner
<1>3. CASE FireBox
  BY <1>3, FireKeepsInner
<1>4. CASE RepeatTimer
  BY <1>4, RepeatKeepsInner
<1>5. CASE EndTimer
  BY <1>5, EndKeepsInner
<1>6. CASE SlotDone
  BY <1>6, SlotDoneKeepsInner
<1>7. CASE CollectBox
  BY <1>7, CollectBoxKeepsInner
<1>8. CASE CollectDone
  BY <1>8, CollectDoneKeepsInner
<1>9. CASE FireAllDone
  BY <1>9, FireAllDoneKeepsInner
<1>10. CASE SetPollInterval
  BY <1>10, SetPollKeepsInner
<1>11. CASE ReadSocketsReturns
  BY <1>11, ReadKeepsInner
<1>12. CASE Application
  <2>1. ASSUME NEW t \in Timers, DeleteTimer(t) PROVE Inner'
    BY <2>1, DeleteKeepsInner
  <2>2. ASSUME NEW t \in Timers, NEW interval \in Intervals, NEW repeated \in BOOLEAN,
               CreateTimer(t, interval, repeated)
        PROVE  Inner'
    BY <2>2, CreateKeepsInner
  <2> QED BY <1>12, <2>1, <2>2 DEF Application
<1>13. CASE UNCHANGED vars
  BY <1>13, StutterKeepsInner
<1> QED
  BY <1>1, <1>2, <1>3, <1>4, <1>5, <1>6, <1>7, <1>8, <1>9, <1>10, <1>11, <1>12, <1>13
     DEF Next, Run

\* TypeOK, IdsSound and WheelInv hold in every state, whatever the sizes of the
\* wheel and of the id table and however long passes and callbacks take.
THEOREM WheelInvariant == Spec => []WheelSafe
<1>1. Spec => []Inner
  BY InitInner, InnerNext, PTL DEF Spec
<1> QED BY <1>1, InnerIs, PTL

\* Every variable keeps its type; with it uiPollInterval, which epoll_wait gets,
\* stays between 1 and MAX_EPOL_WAIT, and the unsigned sum of deviations never
\* wraps.
THEOREM WheelTypeCorrect == Spec => []TypeOK
<1>1. WheelSafe => TypeOK
  BY DEF WheelSafe
<1> QED BY <1>1, WheelInvariant, PTL

\* An id names one timer at a time in CreateTimer, ~Timer, Run and FireAll: it
\* has one box at most, is not free while it has one, and a box whose entry in
\* m_ptrTimers is set belongs to an object that exists, so that OnTimer is never
\* called on a deleted Timer.
THEOREM IdsAreSound == Spec => []IdsSound
<1>1. WheelSafe => IdsSound
  BY DEF WheelSafe
<1> QED BY <1>1, WheelInvariant, PTL

LEMMA SafeOverlooksNothing == WheelSafe => NotOverlooked
<1> SUFFICES ASSUME WheelSafe, NEW i \in IdsInWheel(set_Timers) \ passedOver
             PROVE  togo[i] >= 0
  BY DEF NotOverlooked
<1>1. TypeOK /\ TrackInv
  BY InnerIs DEF Inner
<1>2. PICK s \in Slots : \E b \in Elems(set_Timers[s]) : i = b.ui_TimerID
  BY DEF IdsInWheel, Elems
<1>3. PICK b \in Elems(set_Timers[s]) : i = b.ui_TimerID
  BY <1>2
<1>4. togo[i] = Ahead(s)
  BY <1>1, <1>3 DEF TrackInv
<1>5. Ahead(s) \in Slots
  BY <1>1, Positions
<1> QED BY <1>4, <1>5, SizesAre

\* The wheel passes over no slot with a box in it, neither by the poll interval
\* of Run() nor by the deviation FireAll makes up for, apart from the boxes that
\* passedOver names.
THEOREM NothingOverlooked == Spec => []NotOverlooked
  BY WheelInvariant, SafeOverlooksNothing, PTL

\* What NeverEarly says of a step.
OnTime == pTimeBox' # pTimeBox /\ pTimeBox' # NoBox => left[pTimeBox'.ui_TimerID] = 0

LEMMA SafeFiresOnTime == WheelSafe /\ [Next]_vars => [OnTime]_vars
<1> SUFFICES ASSUME WheelSafe, [Next]_vars PROVE OnTime
  OBVIOUS
<1>1. Inner
  BY InnerIs
<1>2. CASE FireBox
  <2> DEFINE box == Head(Boxes)
  <2>1. /\ InLoop /\ IsTimerLive(box.ui_TimerID) /\ pTimeBox' = box
        /\ timer[box.p_Timer].ui_NextFire = 0
    BY <1>2 DEF FireBox
  <2>2. box \in Box /\ Due(box, 0)
    BY <1>1, <2>1, NextBox
  <2> HIDE DEF box
  <2>3. left[box.ui_TimerID] <= 0 + 0
    BY <2>1, <2>2 DEF Due
  <2>4. left[box.ui_TimerID] \in Nat
    BY <1>1, <2>2 DEF Inner, TypeOK, Box
  <2> QED BY <2>1, <2>3, <2>4 DEF OnTime
<1>3. CASE DropBox \/ RequeueBox \/ RepeatTimer \/ EndTimer
  BY <1>3 DEF DropBox, RequeueBox, RepeatTimer, EndTimer, OnTime
<1>4. CASE SlotDone \/ CollectBox \/ CollectDone \/ FireAllDone
  BY <1>4 DEF SlotDone, CollectBox, CollectDone, FireAllDone, OnTime
<1>5. CASE SetPollInterval \/ ReadSocketsReturns
  BY <1>5 DEF SetPollInterval, ReadSocketsReturns, OnTime
<1>6. CASE Application
  BY <1>6 DEF Application, CreateTimer, DeleteTimer, OnTime
<1>7. CASE UNCHANGED vars
  BY <1>7 DEF vars, OnTime
<1> QED BY <1>2, <1>3, <1>4, <1>5, <1>6, <1>7 DEF Next, Run

\* OnTimer is not called before the interval is over, counted in positions of
\* the wheel, neither by Run() nor by FireAll, and however many turns of the
\* wheel AddToTimerList splits the interval into.
THEOREM NoneFiresEarly == Spec => NeverEarly
<1>1. WheelSafe /\ [Next]_vars => [OnTime]_vars
  BY SafeFiresOnTime
<1> QED BY <1>1, WheelInvariant, PTL DEF Spec, NeverEarly, OnTime

=============================================================================
