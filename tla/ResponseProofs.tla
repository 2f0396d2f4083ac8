---------------------------- MODULE ResponseProofs ----------------------------
(***************************************************************************)
(* That a response is read back as it was meant, whatever the message it   *)
(* answers: to_bytes writes a sequence of bytes of which a reader that     *)
(* follows the lengths finds the header, the question and every answer.    *)
(* The reader is a recursive function, so is the sequence that to_bytes    *)
(* puts together of the answers, and names have any number of labels: the  *)
(* lemmas are by induction on positions and on the number of answers.  And *)
(* that what is decided of a message is what DnsHandler has.               *)
(***************************************************************************)
EXTENDS DnsProofs, DnsDecisions

-----------------------------------------------------------------------------
(* A sequence that stands in another one.                                  *)

Position == Nat \ {0}

\* From position p on, w goes on with s.
Holds(w, p, s) ==
  /\ p + Len(s) <= Len(w) + 1
  /\ \A i \in 1..Len(s) : w[p - 1 + i] = s[i]

\* A sequence stands in itself.
LEMMA HoldsItself ==
  ASSUME NEW S, NEW w \in Seq(S)
  PROVE  Holds(w, 1, w)
<1>1. Len(w) \in Nat
  OBVIOUS
<1> DEFINE n == Len(w)
<1>2. \A i \in 1..n : w[1 - 1 + i] = w[i]
  <2>1. \A i \in 1..n : 1 - 1 + i = i
    OBVIOUS
  <2> QED
    BY <2>1
<1> QED
  BY <1>1, <1>2 DEF Holds

\* A sequence put together of two stands where the first one does, and the
\* second behind it.
LEMMA HoldsBoth ==
  ASSUME NEW S, NEW w \in Seq(S), NEW p \in Position, NEW s \in Seq(S), NEW t \in Seq(S)
  PROVE  Holds(w, p, s \o t) <=> Holds(w, p, s) /\ Holds(w, p + Len(s), t)
<1> DEFINE m == Len(s)
           n == Len(t)
           l == Len(w)
           c == s \o t
<1>1. m \in Nat /\ n \in Nat /\ l \in Nat /\ p \in Nat /\ p >= 1
  BY DEF Position
<1>2. Len(c) = m + n
  OBVIOUS
<1>3. \A i \in 1..m : c[i] = s[i]
  OBVIOUS
<1>4. \A i \in 1..n : c[m + i] = t[i]
  OBVIOUS
<1>5. Holds(w, p, c) <=> p + Len(c) <= l + 1 /\ \A i \in 1..Len(c) : w[p - 1 + i] = c[i]
  BY DEF Holds
<1>6. Holds(w, p, s) <=> p + m <= l + 1 /\ \A i \in 1..m : w[p - 1 + i] = s[i]
  BY DEF Holds
<1>7. Holds(w, p + m, t) <=> p + m + n <= l + 1 /\ \A i \in 1..n : w[(p + m) - 1 + i] = t[i]
  BY DEF Holds
<1> HIDE DEF m, n, l, c
<1>8. ASSUME Holds(w, p, c)
      PROVE  Holds(w, p, s) /\ Holds(w, p + m, t)
  <2>1. p + m + n <= l + 1 /\ \A i \in 1..(m + n) : w[p - 1 + i] = c[i]
    BY <1>1, <1>2, <1>5, <1>8
  <2>2. \A i \in 1..m : w[p - 1 + i] = s[i]
    BY <1>1, <1>3, <2>1
  <2>3. \A i \in 1..n : w[(p + m) - 1 + i] = t[i]
    <3> SUFFICES ASSUME NEW i \in 1..n PROVE w[(p + m) - 1 + i] = t[i]
      OBVIOUS
    <3>1. m + i \in 1..(m + n) /\ p - 1 + (m + i) = (p + m) - 1 + i
      BY <1>1
    <3>2. w[p - 1 + (m + i)] = c[m + i]
      BY <2>1, <3>1, Zenon
    <3> QED
      BY <1>4, <3>1, <3>2
  <2> QED
    BY <1>1, <1>6, <1>7, <2>1, <2>2, <2>3
<1>9. ASSUME Holds(w, p, s), Holds(w, p + m, t)
      PROVE  Holds(w, p, c)
  <2>1. p + Len(c) <= l + 1
    BY <1>1, <1>2, <1>7, <1>9
  <2>2. \A i \in 1..Len(c) : w[p - 1 + i] = c[i]
    <3> SUFFICES ASSUME NEW i \in 1..(m + n) PROVE w[p - 1 + i] = c[i]
      BY <1>2
    <3>1. CASE i <= m
      BY <1>1, <1>3, <1>6, <1>9, <3>1
    <3>2. CASE i > m
      <4>1. PICK j \in 1..n : i = m + j
        <5>1. i - m \in 1..n /\ i = m + (i - m)
          BY <1>1, <3>2
        <5> QED
          BY <5>1
      <4>2. p - 1 + i = (p + m) - 1 + j
        BY <1>1, <4>1
      <4>3. w[(p + m) - 1 + j] = t[j] /\ c[m + j] = t[j]
        BY <1>4, <1>7, <1>9
      <4> QED
        BY <4>1, <4>2, <4>3
    <3> QED
      BY <1>1, <3>1, <3>2
  <2> QED
    BY <1>5, <2>1, <2>2
<1> QED
  BY <1>8, <1>9 DEF c, m

\* What stands there can be cut out.
LEMMA HoldsCut ==
  ASSUME NEW S, NEW w \in Seq(S), NEW p \in Position, NEW s \in Seq(S), Holds(w, p, s)
  PROVE  SubSeq(w, p, p + Len(s) - 1) = s
<1> DEFINE m == Len(s)
           l == Len(w)
           c == SubSeq(w, p, p + m - 1)
<1>1. m \in Nat /\ l \in Nat /\ p \in Nat /\ p >= 1
  BY DEF Position
<1>2. p + m <= l + 1 /\ \A i \in 1..m : w[p - 1 + i] = s[i]
  BY DEF Holds
<1>3. s = [i \in 1..m |-> s[i]]
  OBVIOUS
<1>4. c = [i \in 1..m |-> w[p - 1 + i]]
  <2>1. c = [i \in 1..(p + m - 1 - p + 1) |-> w[p + i - 1]]
    BY <1>1, <1>2
  <2>2. p + m - 1 - p + 1 = m /\ \A i \in 1..m : p + i - 1 = p - 1 + i
    BY <1>1
  <2> HIDE DEF m
  <2> QED
    BY <2>1, <2>2
<1> HIDE DEF m, l, c
<1>5. c = s
  BY <1>2, <1>3, <1>4
<1> QED
  BY <1>5 DEF c, m

\* What stands there can be read byte by byte.
LEMMA HoldsAt ==
  ASSUME NEW w, NEW p \in Position, NEW s, Len(s) \in Nat, Holds(w, p, s), NEW i \in 1..Len(s)
  PROVE  w[p + i - 1] = s[i]
<1>1. p + i - 1 = p - 1 + i
  BY DEF Position
<1> QED
  BY <1>1 DEF Holds

-----------------------------------------------------------------------------
(* Names.                                                                  *)

\* The positions of D are those of the labels of the name n, and the last label
\* is the empty one.
Labelled(n, D) ==
  /\ 1 \in D
  /\ \A p \in D : IF n[p] = 0 THEN p = Len(n) ELSE p + n[p] + 1 \in D

IsName(n) == n \in Seq(Byte) /\ \E D \in SUBSET (1..Len(n)) : Labelled(n, D)

\* A name that a reader of responses finds.
IsReadable(n) ==
  n \in Seq(Byte) /\ \E D \in SUBSET (1..Len(n)) : Labelled(n, D) /\ \A p \in D : n[p] < 64

\* What NameEnd does at a position.
NameStep(g, p) ==
  IF p > Len(wire) THEN 0
  ELSE IF wire[p] = 0 THEN p + 1
  ELSE IF wire[p] < 64 THEN g[p + wire[p] + 1]
  ELSE 0

\* What is sent has bytes, which are numbers.
LEMMA WireBytes ==
  ASSUME wire \in Seq(Byte)
  PROVE  /\ Len(wire) \in Nat
         /\ \A p \in 1..Len(wire) : wire[p] \in Nat
<1> SUFFICES ASSUME NEW p \in 1..Len(wire) PROVE wire[p] \in Nat
  OBVIOUS
<1>1. wire[p] \in Byte
  OBVIOUS
<1> QED
  BY <1>1, Bytes

\* A reader that goes forward ends: there is a function that does at each
\* position what NameEnd says.
LEMMA NameEndExists ==
  ASSUME wire \in Seq(Byte)
  PROVE  \E g : g = [p \in Position |-> NameStep(g, p)]
<1> DEFINE l == Len(wire)
           R(g, k) == \A p \in Position : p + k > l => g[p] = NameStep(g, p)
           S == {k \in Nat : \E g \in [Position -> Nat] : R(g, k)}
<1>0. l \in Nat /\ \A p \in 1..l : wire[p] \in Nat
  BY WireBytes
<1>1. 0 \in S
  <2> DEFINE g == [p \in Position |-> 0]
  <2>1. g \in [Position -> Nat]
    OBVIOUS
  <2>2. R(g, 0)
    <3> SUFFICES ASSUME NEW p \in Position, p + 0 > l PROVE g[p] = NameStep(g, p)
      OBVIOUS
    <3>1. p > Len(wire)
      BY DEF Position
    <3> QED
      BY <3>1 DEF NameStep
  <2> HIDE DEF g
  <2> QED
    BY <2>1, <2>2
<1>2. ASSUME NEW k \in Nat, k \in S
      PROVE  k + 1 \in S
  <2>1. PICK f \in [Position -> Nat] : R(f, k)
    BY <1>2
  <2>2. CASE k >= l
    <3>1. R(f, k + 1)
      <4> SUFFICES ASSUME NEW p \in Position PROVE p + k > l
        BY <2>1
      <4> HIDE DEF l
      <4> QED
        BY <1>0, <2>2 DEF Position
    <3> QED
      BY <2>1, <3>1
  <2>3. CASE k < l
    <3> DEFINE q == l - k
    <3>1. q \in Position /\ q <= l /\ q \in 1..l
      BY <1>0, <2>3 DEF Position
    <3>2. wire[q] \in Nat
      BY <1>0, <3>1
    <3> HIDE DEF q
    <3>3. NameStep(f, q) \in Nat
      <4>1. q + 1 \in Nat /\ q + wire[q] + 1 \in Position
        BY <3>1, <3>2 DEF Position
      <4> QED
        BY <2>1, <3>1, <4>1 DEF NameStep
    <3> DEFINE g == [f EXCEPT ![q] = NameStep(f, q)]
    <3>4. /\ g \in [Position -> Nat]
          /\ g[q] = NameStep(f, q)
          /\ \A p \in Position : p # q => g[p] = f[p]
      BY <2>1, <3>1, <3>3
    <3> HIDE DEF g
    <3>5. \A p \in Position : p >= q => NameStep(g, p) = NameStep(f, p)
      <4> SUFFICES ASSUME NEW p \in Position, p >= q PROVE NameStep(g, p) = NameStep(f, p)
        OBVIOUS
      <4>1. CASE p > Len(wire)
        BY <4>1 DEF NameStep
      <4>2. CASE p <= Len(wire)
        <5>1. wire[p] \in Nat
          BY <1>0, <4>2 DEF Position
        <5>2. p + wire[p] + 1 \in Position /\ p + wire[p] + 1 # q
          BY <3>1, <5>1 DEF Position
        <5>3. g[p + wire[p] + 1] = f[p + wire[p] + 1]
          BY <3>4, <5>2
        <5> QED
          BY <4>2, <5>3 DEF NameStep
      <4> QED
        BY <1>0, <4>1, <4>2 DEF Position
    <3>6. R(g, k + 1)
      <4> SUFFICES ASSUME NEW p \in Position, p + (k + 1) > l PROVE g[p] = NameStep(g, p)
        OBVIOUS
      <4>1. p >= q
        BY <1>0 DEF q, Position
      <4>2. CASE p = q
        BY <3>4, <3>5, <4>1, <4>2
      <4>3. CASE p # q
        <5>1. p + k > l
          BY <1>0, <4>1, <4>3 DEF q, Position
        <5> QED
          BY <2>1, <3>4, <3>5, <4>1, <4>3, <5>1
      <4> QED
        BY <4>2, <4>3
    <3> QED
      BY <3>4, <3>6
  <2> QED
    BY <1>0, <2>2, <2>3
<1> HIDE DEF S
<1>3. \A k \in Nat : k \in S
  BY <1>1, <1>2, NatsInduct
<1>4. l \in S
  BY <1>0, <1>3
<1>5. PICK f \in [Position -> Nat] : R(f, l)
  BY <1>4 DEF S
<1>6. \A p \in Position : f[p] = NameStep(f, p)
  <2> SUFFICES ASSUME NEW p \in Position PROVE p + l > l
    BY <1>5
  <2> HIDE DEF l
  <2> QED
    BY <1>0 DEF Position
<1>7. f = [p \in Position |-> f[p]]
  BY <1>5
<1>8. f = [p \in Position |-> NameStep(f, p)]
  BY <1>6, <1>7
<1> QED
  BY <1>8

\* NameEnd is such a function.
LEMMA NameEndIs ==
  ASSUME wire \in Seq(Byte)
  PROVE  \A p \in Position : NameEnd[p] = NameStep(NameEnd, p)
<1>1. NameEnd = CHOOSE g : g = [p \in Position |-> NameStep(g, p)]
  BY Zenon DEF NameEnd, Position, NameStep
<1> DEFINE e == CHOOSE g : g = [p \in Position |-> NameStep(g, p)]
<1>2. e = [p \in Position |-> NameStep(e, p)]
  BY NameEndExists, Zenon
<1>3. NameEnd = e
  BY <1>1
<1> HIDE DEF e
<1>4. \A p \in Position : e[p] = NameStep(e, p)
  BY <1>2
<1> QED
  BY <1>3, <1>4

\* The position behind a name that stands in the message.
LEMMA NameEnds ==
  ASSUME wire \in Seq(Byte), NEW p \in Position, NEW n, IsReadable(n), Holds(wire, p, n)
  PROVE  NameEnd[p] = p + Len(n)
<1>0. n \in Seq(Byte) /\ p \in Nat /\ p >= 1
  BY DEF IsReadable, Position
<1>1. PICK D \in SUBSET (1..Len(n)) : Labelled(n, D) /\ \A d \in D : n[d] < 64
  BY DEF IsReadable
<1> DEFINE m == Len(n)
           l == Len(wire)
           S == {k \in Nat : \A d \in D : d + k > m => NameEnd[p + d - 1] = p + m}
<1>2. m \in Nat /\ l \in Nat /\ p + m <= l + 1
  BY <1>0 DEF Holds
<1>3. \A d \in D : d \in Nat /\ 1 <= d /\ d <= m
  BY <1>1
<1>4. \A d \in D : n[d] \in Nat
  <2> SUFFICES ASSUME NEW d \in D PROVE n[d] \in Nat
    OBVIOUS
  <2>1. n[d] \in Byte
    BY <1>0, <1>1
  <2> QED
    BY <2>1, Bytes
<1>5. \A d \in D : wire[p + d - 1] = n[d]
  BY <1>0, <1>1, HoldsAt
<1> HIDE DEF m, l
<1>6. \A d \in D : IF n[d] = 0 THEN d = m ELSE d + n[d] + 1 \in D
  BY <1>1 DEF Labelled, m
<1>7. 0 \in S
  BY <1>2, <1>3
<1>8. ASSUME NEW k \in Nat, k \in S
      PROVE  k + 1 \in S
  <2> SUFFICES ASSUME NEW d \in D, d + (k + 1) > m PROVE NameEnd[p + d - 1] = p + m
    BY <1>8
  <2> DEFINE q == p + d - 1
  <2>1. d \in Nat /\ 1 <= d /\ d <= m /\ n[d] \in Nat
    BY <1>3, <1>4
  <2>2. q \in Position /\ q <= l
    BY <1>0, <1>2, <2>1 DEF Position
  <2>3. wire[q] = n[d]
    BY <1>5
  <2>4. NameEnd[q] = IF n[d] = 0 THEN q + 1 ELSE NameEnd[q + n[d] + 1]
    <3> HIDE DEF q
    <3>1. NameEnd[q] = NameStep(NameEnd, q)
      BY <2>2, NameEndIs
    <3>2. q \in Nat /\ ~(q > Len(wire))
      BY <1>2, <2>2 DEF Position, l
    <3>3. n[d] < 64
      BY <1>1
    <3> QED
      BY <2>3, <3>1, <3>2, <3>3 DEF NameStep
  <2>5. CASE n[d] = 0
    <3>1. d = m
      BY <1>6, <2>5
    <3>2. q + 1 = p + m
      BY <1>0, <1>2, <3>1
    <3> QED
      BY <2>4, <2>5, <3>2
  <2>6. CASE n[d] # 0
    <3> DEFINE e == d + n[d] + 1
    <3>1. e \in D
      BY <1>6, <2>6
    <3>2. e + k > m
      BY <1>2, <2>1
    <3>3. NameEnd[p + e - 1] = p + m
      BY <1>8, <3>1, <3>2
    <3>4. p + e - 1 = q + n[d] + 1
      BY <1>0, <2>1
    <3> QED
      BY <2>4, <2>6, <3>3, <3>4
  <2> QED
    BY <2>5, <2>6
<1> HIDE DEF S
<1>9. \A k \in Nat : k \in S
  BY <1>7, <1>8, NatsInduct
<1>10. m \in S /\ 1 \in D
  BY <1>1, <1>2, <1>9 DEF Labelled
<1>11. NameEnd[p + 1 - 1] = p + m
  <2>1. 1 + m > m
    BY <1>2
  <2> QED
    BY <1>10, <2>1 DEF S
<1>12. p + 1 - 1 = p
  BY <1>0
<1> QED
  BY <1>11, <1>12 DEF m

\* A name that stands in the message and is found there can be read: the reader
\* has passed all of its labels.
LEMMA NameFound ==
  ASSUME wire \in Seq(Byte), NEW p \in Position, NEW n, IsName(n), Holds(wire, p, n),
         NameEnd[p] # 0
  PROVE  IsReadable(n)
<1>0. n \in Seq(Byte) /\ p \in Nat /\ p >= 1
  BY DEF IsName, Position
<1>1. PICK D \in SUBSET (1..Len(n)) : Labelled(n, D)
  BY DEF IsName
<1> DEFINE E == {d \in D : NameEnd[p + d - 1] # 0}
<1>2. 1 \in E
  <2>1. p + 1 - 1 = p
    BY <1>0
  <2> QED
    BY <1>1, <2>1 DEF Labelled
<1>3. ASSUME NEW d \in E
      PROVE  n[d] < 64 /\ IF n[d] = 0 THEN d = Len(n) ELSE d + n[d] + 1 \in E
  <2> DEFINE q == p + d - 1
  <2>1. d \in D /\ d \in 1..Len(n) /\ d \in Nat /\ d >= 1 /\ NameEnd[q] # 0
    BY <1>0, <1>1
  <2>2. wire[q] = n[d]
    BY <1>0, <2>1, HoldsAt
  <2>3. n[d] \in Nat
    <3>1. n[d] \in Byte
      BY <1>0, <2>1
    <3> QED
      BY <3>1, Bytes
  <2>4. q \in Position /\ q + n[d] + 1 = p + (d + n[d] + 1) - 1
    BY <1>0, <2>1, <2>3 DEF Position
  <2> HIDE DEF q
  <2>5. NameEnd[q] = NameStep(NameEnd, q)
    BY <2>4, NameEndIs
  <2>6. n[d] = 0 \/ (n[d] < 64 /\ NameEnd[q + n[d] + 1] # 0)
    BY <2>1, <2>2, <2>3, <2>5, Zenon DEF NameStep
  <2>7. IF n[d] = 0 THEN d = Len(n) ELSE d + n[d] + 1 \in D
    BY <1>1, <2>1 DEF Labelled
  <2>8. CASE n[d] = 0
    BY <2>7, <2>8
  <2>9. CASE n[d] # 0
    <3>1. n[d] < 64 /\ NameEnd[p + (d + n[d] + 1) - 1] # 0
      BY <2>4, <2>6, <2>9
    <3> QED
      BY <2>7, <2>9, <3>1
  <2> QED
    BY <2>8, <2>9
<1> HIDE DEF E
<1>4. E \in SUBSET (1..Len(n))
  BY <1>1 DEF E
<1>5. Labelled(n, E)
  BY <1>2, <1>3 DEF Labelled
<1> QED
  BY <1>0, <1>3, <1>4, <1>5 DEF IsReadable

\* What can be read is a name.
LEMMA ReadableIsName == \A n : IsReadable(n) => IsName(n)
BY DEF IsReadable, IsName

\* What stands in a part stands in the whole.
LEMMA HoldsWithin ==
  ASSUME NEW S, NEW w \in Seq(S), NEW s \in Seq(S), NEW t \in Seq(S),
         NEW q \in Position, NEW p \in Position, Holds(w, q, s), Holds(s, p, t)
  PROVE  Holds(w, q + p - 1, t)
<1> DEFINE m == Len(s)
           n == Len(t)
           l == Len(w)
           r == q + p - 1
<1>1. /\ m \in Nat /\ n \in Nat /\ l \in Nat /\ p \in Nat /\ p >= 1 /\ q \in Nat /\ q >= 1
      /\ q + m <= l + 1 /\ p + n <= m + 1
  BY DEF Position, Holds
<1>2. /\ \A i \in 1..m : w[q - 1 + i] = s[i]
      /\ \A i \in 1..n : s[p - 1 + i] = t[i]
  BY DEF Holds
<1> HIDE DEF m, n, l
<1>3. r + n <= l + 1
  BY <1>1
<1>4. \A i \in 1..n : w[r - 1 + i] = t[i]
  <2> SUFFICES ASSUME NEW i \in 1..n PROVE w[r - 1 + i] = t[i]
    OBVIOUS
  <2> DEFINE j == p - 1 + i
  <2>1. j \in 1..m /\ q - 1 + j = r - 1 + i
    BY <1>1
  <2> QED
    BY <1>2, <2>1
<1> HIDE DEF r
<1>5. Holds(w, r, t)
  BY <1>3, <1>4 DEF Holds, n, l
<1> QED
  BY <1>5 DEF r

-----------------------------------------------------------------------------
(* Sequences that are joined to one.                                       *)

JoinStep(ss, f, i) == IF i = 1 THEN ss[i] ELSE f[i - 1] \o ss[i]

\* There is a function that joins the first sequences of several, as FlattenSeq has it.
LEMMA JoinExists ==
  ASSUME NEW S, NEW ss \in Seq(Seq(S)), Len(ss) # 0
  PROVE  \E f \in [1..Len(ss) -> Seq(S)] : f = [i \in 1..Len(ss) |-> JoinStep(ss, f, i)]
<1> DEFINE m == Len(ss)
           R(f, k) == \A i \in 1..m : i <= k => f[i] = JoinStep(ss, f, i)
           T == {k \in Nat : \E f \in [1..m -> Seq(S)] : R(f, k)}
<1>1. m \in Nat /\ \A i \in 1..m : ss[i] \in Seq(S)
  OBVIOUS
<1> HIDE DEF m
<1>2. 0 \in T
  <2> DEFINE f == [i \in 1..m |-> ss[i]]
  <2>1. f \in [1..m -> Seq(S)]
    BY <1>1
  <2>2. R(f, 0)
    BY <1>1
  <2> HIDE DEF f
  <2> QED
    BY <2>1, <2>2
<1>3. ASSUME NEW k \in Nat, k \in T
      PROVE  k + 1 \in T
  <2>1. PICK f \in [1..m -> Seq(S)] : R(f, k)
    BY <1>3
  <2>2. CASE k + 1 > m
    <3>1. R(f, k + 1)
      <4> SUFFICES ASSUME NEW i \in 1..m PROVE i <= k
        BY <2>1
      <4> QED
        BY <1>1, <2>2
    <3>2. \E h \in [1..m -> Seq(S)] : R(h, k + 1)
      BY <2>1, <3>1, Zenon
    <3>3. k + 1 \in Nat
      OBVIOUS
    <3> QED
      BY <3>2, <3>3, Zenon
  <2>3. CASE k + 1 <= m
    <3> DEFINE q == k + 1
    <3>1. q \in 1..m /\ q \in Nat
      BY <1>1, <2>3
    <3>2. JoinStep(ss, f, q) \in Seq(S)
      <4>1. CASE q = 1
        BY <1>1, <3>1, <4>1 DEF JoinStep
      <4>2. CASE q # 1
        <5>1. q - 1 \in 1..m
          BY <1>1, <3>1, <4>2
        <5> HIDE DEF q
        <5>2. f[q - 1] \in Seq(S) /\ ss[q] \in Seq(S)
          BY <1>1, <2>1, <3>1, <5>1
        <5>3. f[q - 1] \o ss[q] \in Seq(S)
          BY <5>2
        <5> QED
          BY <4>2, <5>3 DEF JoinStep
      <4> QED
        BY <4>1, <4>2
    <3> DEFINE g == [f EXCEPT ![q] = JoinStep(ss, f, q)]
    <3>3. /\ g \in [1..m -> Seq(S)]
          /\ g[q] = JoinStep(ss, f, q)
          /\ \A i \in 1..m : i # q => g[i] = f[i]
      <4> HIDE DEF q
      <4> QED
        BY <2>1, <3>1, <3>2
    <3> HIDE DEF g
    <3>4. \A i \in 1..m : i <= q => JoinStep(ss, g, i) = JoinStep(ss, f, i)
      <4> SUFFICES ASSUME NEW i \in 1..m, i <= q, i # 1 PROVE g[i - 1] = f[i - 1]
        BY DEF JoinStep
      <4>1. i - 1 \in 1..m /\ i - 1 # q
        BY <1>1, <3>1
      <4> QED
        BY <3>3, <4>1
    <3>5. R(g, q)
      <4> SUFFICES ASSUME NEW i \in 1..m, i <= q PROVE g[i] = JoinStep(ss, g, i)
        OBVIOUS
      <4>1. CASE i = q
        BY <3>3, <3>4, <4>1
      <4>2. CASE i # q
        <5>1. i <= k
          BY <4>2
        <5>2. f[i] = JoinStep(ss, f, i)
          BY <2>1, <5>1
        <5>3. g[i] = f[i]
          BY <3>3, <4>2
        <5>4. JoinStep(ss, g, i) = JoinStep(ss, f, i)
          BY <3>4
        <5> QED
          BY <5>2, <5>3, <5>4
      <4> QED
        BY <4>1, <4>2
    <3>6. \E h \in [1..m -> Seq(S)] : R(h, q)
      BY <3>3, <3>5, Zenon
    <3>7. k + 1 \in Nat
      OBVIOUS
    <3> QED
      BY <3>6, <3>7, Zenon
  <2>4. k + 1 > m \/ k + 1 <= m
    BY <1>1
  <2> QED
    BY <2>2, <2>3, <2>4, Zenon
<1> HIDE DEF T
<1>4. m \in T
  BY <1>1, <1>2, <1>3, NatsInduct
<1>5. PICK f \in [1..m -> Seq(S)] : R(f, m)
  BY <1>4 DEF T
<1>6. \A i \in 1..m : f[i] = JoinStep(ss, f, i)
  BY <1>1, <1>5
<1>7. f = [i \in 1..m |-> f[i]]
  BY <1>5
<1>8. f = [i \in 1..m |-> JoinStep(ss, f, i)]
  BY <1>6, <1>7
<1> QED
  BY <1>8 DEF m

\* The joined sequence holds the others one behind the other: e has where each
\* of them ends.
LEMMA Flattened ==
  ASSUME NEW S, NEW ss \in Seq(Seq(S))
  PROVE  /\ FlattenSeq(ss) \in Seq(S)
         /\ \E e \in [0..Len(ss) -> Nat] :
              /\ e[0] = 0
              /\ e[Len(ss)] = Len(FlattenSeq(ss))
              /\ \A k \in 1..Len(ss) :
                   /\ e[k] = e[k - 1] + Len(ss[k])
                   /\ Holds(FlattenSeq(ss), e[k - 1] + 1, ss[k])
<1> DEFINE m == Len(ss)
<1>1. m \in Nat /\ \A i \in 1..m : ss[i] \in Seq(S)
  OBVIOUS
<1>2. CASE m = 0
  <2>1. FlattenSeq(ss) = <<>>
    BY <1>2 DEF FlattenSeq
  <2> DEFINE e == [k \in 0..0 |-> 0]
  <2>2. e \in [0..m -> Nat] /\ e[0] = 0
    BY <1>2
  <2> HIDE DEF e
  <2>3. Len(<<>>) = 0 /\ <<>> \in Seq(S)
    OBVIOUS
  <2>4. \A k \in 1..m : FALSE
    BY <1>2
  <2> QED
    BY <1>2, <2>1, <2>2, <2>3, <2>4
<1>3. CASE m # 0
  <2> DEFINE f == CHOOSE f : f = [i \in 1..m |-> JoinStep(ss, f, i)]
  <2>1. FlattenSeq(ss) = f[m]
    BY <1>3, Zenon DEF FlattenSeq, JoinStep
  <2>2. f = [i \in 1..m |-> JoinStep(ss, f, i)]
    <3>1. \E g : g = [i \in 1..m |-> JoinStep(ss, g, i)]
      BY <1>3, JoinExists, Zenon
    <3> QED
      BY <3>1, Zenon
  <2> HIDE DEF f, m
  <2>3. \A i \in 1..m : f[i] = JoinStep(ss, f, i)
    BY <2>2
  <2>4. f[1] = ss[1] /\ \A i \in 1..m : i # 1 => f[i] = f[i - 1] \o ss[i]
    <3>1. 1 \in 1..m
      BY <1>1, <1>3 DEF m
    <3>2. JoinStep(ss, f, 1) = ss[1] /\ \A i \in 1..m : i # 1 => JoinStep(ss, f, i) = f[i - 1] \o ss[i]
      BY Zenon DEF JoinStep
    <3>3. f[1] = ss[1]
      BY <2>3, <3>1, <3>2
    <3>4. ASSUME NEW i \in 1..m, i # 1
          PROVE  f[i] = f[i - 1] \o ss[i]
      BY <2>3, <3>2, <3>4, Zenon
    <3> QED
      BY <3>3, <3>4
  <2>5. \A i \in 1..m : f[i] \in Seq(S)
    <3> DEFINE T == {i \in Nat : i + 1 \in 1..m => f[i + 1] \in Seq(S)}
    <3>1. 0 \in T
      BY <1>1, <1>3, <2>4
    <3>2. ASSUME NEW i \in Nat, i \in T
          PROVE  i + 1 \in T
      <4> SUFFICES ASSUME (i + 1) + 1 \in 1..m PROVE f[(i + 1) + 1] \in Seq(S)
        OBVIOUS
      <4> DEFINE j == i + 1
                 k == j + 1
      <4>1. j \in 1..m /\ k \in 1..m /\ k # 1 /\ k - 1 = j
        BY <1>1
      <4>2. f[j] \in Seq(S)
        BY <3>2, <4>1
      <4> HIDE DEF j, k
      <4>3. f[k] = f[j] \o ss[k] /\ ss[k] \in Seq(S)
        BY <1>1, <2>4, <4>1
      <4>4. f[k] \in Seq(S)
        BY <4>2, <4>3
      <4> QED
        BY <4>4 DEF j, k
    <3> HIDE DEF T
    <3>3. \A i \in Nat : i \in T
      BY <3>1, <3>2, NatsInduct
    <3> SUFFICES ASSUME NEW i \in 1..m PROVE f[i] \in Seq(S)
      OBVIOUS
    <3>4. i - 1 \in Nat /\ (i - 1) + 1 = i
      BY <1>1
    <3>5. i - 1 \in T
      BY <3>3, <3>4
    <3> QED
      BY <3>4, <3>5 DEF T
  <2> DEFINE e == [k \in 0..m |-> IF k = 0 THEN 0 ELSE Len(f[k])]
  <2>6. e \in [0..m -> Nat] /\ e[0] = 0 /\ \A k \in 1..m : e[k] = Len(f[k])
    <3>1. \A k \in 1..m : Len(f[k]) \in Nat
      BY <2>5
    <3>2. \A k \in 0..m : k # 0 => k \in 1..m
      BY <1>1
    <3>3. 0 \in 0..m /\ \A k \in 1..m : k \in 0..m /\ k # 0
      BY <1>1
    <3> QED
      BY <3>1, <3>2, <3>3
  <2> HIDE DEF e
  <2>7. \A k \in 1..m : e[k] = e[k - 1] + Len(ss[k])
    <3> SUFFICES ASSUME NEW k \in 1..m PROVE e[k] = e[k - 1] + Len(ss[k])
      OBVIOUS
    <3>0. Len(ss[k]) \in Nat
      BY <1>1
    <3>1. CASE k = 1
      <4>1. e[k] = Len(ss[k]) /\ e[k - 1] = 0
        BY <2>4, <2>6, <3>1
      <4> QED
        BY <3>0, <4>1
    <3>2. CASE k # 1
      <4>1. k - 1 \in 1..m
        BY <1>1, <3>2
      <4> DEFINE j == k - 1
      <4>2. f[j] \in Seq(S) /\ ss[k] \in Seq(S) /\ f[k] = f[j] \o ss[k]
        BY <1>1, <2>4, <2>5, <3>2, <4>1
      <4> HIDE DEF j
      <4>3. Len(f[k]) = Len(f[j]) + Len(ss[k])
        BY <4>2
      <4> QED
        BY <2>6, <4>1, <4>3 DEF j
    <3> QED
      BY <3>1, <3>2
  <2>8. \A k \in 1..m : e[k - 1] \in Nat /\ e[k - 1] + 1 \in Position
    <3> SUFFICES ASSUME NEW k \in 1..m PROVE e[k - 1] \in Nat
      BY DEF Position
    <3>1. k - 1 \in 0..m
      BY <1>1
    <3> QED
      BY <2>6, <3>1
  <2>9. \A k \in 1..m : Holds(f[k], e[k - 1] + 1, ss[k])
    <3> SUFFICES ASSUME NEW k \in 1..m PROVE Holds(f[k], e[k - 1] + 1, ss[k])
      OBVIOUS
    <3>1. CASE k = 1
      <4>1. e[k - 1] + 1 = 1 /\ f[k] = ss[k]
        BY <2>4, <2>6, <3>1
      <4>2. ss[k] \in Seq(S)
        BY <1>1
      <4> QED
        BY <4>1, <4>2, HoldsItself
    <3>2. CASE k # 1
      <4> DEFINE j == k - 1
      <4>1. j \in 1..m
        BY <1>1, <3>2
      <4>2. f[j] \in Seq(S) /\ ss[k] \in Seq(S) /\ f[k] \in Seq(S) /\ f[k] = f[j] \o ss[k]
        BY <1>1, <2>4, <2>5, <3>2, <4>1
      <4> HIDE DEF j
      <4>3. Holds(f[k], 1, f[j] \o ss[k])
        BY <4>2, HoldsItself
      <4>4. 1 \in Position
        BY DEF Position
      <4>5. Holds(f[k], 1 + Len(f[j]), ss[k])
        BY <4>2, <4>3, <4>4, HoldsBoth
      <4>6. e[j] = Len(f[j]) /\ Len(f[j]) \in Nat
        BY <2>6, <4>1, <4>2
      <4>7. 1 + Len(f[j]) = e[j] + 1
        BY <4>6
      <4> QED
        BY <4>5, <4>7 DEF j
    <3> QED
      BY <3>1, <3>2
  <2>10. \A i \in Nat : \A k \in 1..m : k <= i /\ i <= m => Holds(f[i], e[k - 1] + 1, ss[k])
    <3> DEFINE T == {i \in Nat : \A k \in 1..m : k <= i /\ i <= m => Holds(f[i], e[k - 1] + 1, ss[k])}
    <3>1. 0 \in T
      OBVIOUS
    <3>2. ASSUME NEW i \in Nat, i \in T
          PROVE  i + 1 \in T
      <4> DEFINE j == i + 1
      <4> SUFFICES ASSUME NEW k \in 1..m, k <= j, j <= m
                   PROVE  Holds(f[j], e[k - 1] + 1, ss[k])
        BY <3>2
      <4>1. CASE k = j
        BY <2>9, <4>1
      <4>2. CASE k # j
        <5>1. k <= i /\ i <= m /\ i \in 1..m /\ j \in 1..m /\ j # 1 /\ j - 1 = i
          BY <1>1, <4>2
        <5>2. Holds(f[i], e[k - 1] + 1, ss[k])
          BY <3>2, <5>1
        <5> HIDE DEF j
        <5>3. f[i] \in Seq(S) /\ ss[j] \in Seq(S) /\ f[j] \in Seq(S) /\ f[j] = f[i] \o ss[j] /\ ss[k] \in Seq(S)
          BY <1>1, <2>4, <2>5, <5>1
        <5>4. 1 \in Position
          BY DEF Position
        <5>5. Holds(f[j], 1, f[i])
          BY <5>3, <5>4, HoldsItself, HoldsBoth
        <5> DEFINE p == e[k - 1] + 1
        <5>6. p \in Position /\ Holds(f[i], p, ss[k])
          BY <2>8, <5>2
        <5> HIDE DEF p
        <5>7. Holds(f[j], 1 + p - 1, ss[k])
          BY <5>3, <5>4, <5>5, <5>6, HoldsWithin
        <5>8. 1 + p - 1 = p
          BY <5>6 DEF Position
        <5> QED
          BY <5>7, <5>8 DEF p
      <4> QED
        BY <4>1, <4>2
    <3> HIDE DEF T
    <3>3. \A i \in Nat : i \in T
      BY <3>1, <3>2, NatsInduct
    <3> QED
      BY <3>3 DEF T
  <2>11. \A k \in 1..m : Holds(f[m], e[k - 1] + 1, ss[k])
    BY <1>1, <2>10
  <2>12. m \in 1..m
    BY <1>1, <1>3
  <2>13. f[m] \in Seq(S) /\ e[m] = Len(f[m])
    BY <2>5, <2>6, <2>12
  <2> QED
    BY <2>1, <2>6, <2>7, <2>11, <2>13 DEF m
<1> QED
  BY <1>2, <1>3

-----------------------------------------------------------------------------
(* What to_bytes writes, and what the reader finds of it.                  *)

\* The numbers of 16 bits, without their bounds in sight.
LEMMA Words == \A n : n \in 0..MAX_U16 <=> n \in Nat /\ n <= MAX_U16
BY MaxU16

\* Two parts, one behind the other.
LEMMA Behind ==
  ASSUME NEW w \in Seq(Byte), NEW p \in Position, NEW s \in Seq(Byte), NEW t \in Seq(Byte),
         Holds(w, p, s \o t)
  PROVE  Holds(w, p, s) /\ Holds(w, p + Len(s), t)
BY HoldsBoth

\* Bytes behind bytes.
LEMMA BothBytes ==
  ASSUME NEW s \in Seq(Byte), NEW t \in Seq(Byte)
  PROVE  /\ s \o t \in Seq(Byte)
         /\ Len(s \o t) = Len(s) + Len(t)
OBVIOUS

\* A number of 16 bits is written in two bytes.
LEMMA WordBytes ==
  ASSUME NEW n \in Nat
  PROVE  /\ u16(n) \in Seq(Byte) /\ Len(u16(n)) = 2
         /\ u16(n)[1] = (n \div 256) % 256 /\ u16(n)[2] = n % 256
<1>1. (n \div 256) % 256 \in Byte /\ n % 256 \in Byte
  <2>1. \A m \in Nat : m % 256 \in Nat /\ m % 256 <= 255
    OBVIOUS
  <2>2. n \div 256 \in Nat
    OBVIOUS
  <2> QED
    BY <2>1, <2>2, Bytes
<1> QED
  BY <1>1 DEF u16

\* A number of 32 bits is written in four.
LEMMA LongBytes ==
  ASSUME NEW n \in Nat
  PROVE  u32(n) \in Seq(Byte) /\ Len(u32(n)) = 4
<1> DEFINE s == u16(n \div 65536)
           t == u16(n % 65536)
<1>1. n \div 65536 \in Nat /\ n % 65536 \in Nat
  OBVIOUS
<1>2. s \in Seq(Byte) /\ t \in Seq(Byte) /\ Len(s) = 2 /\ Len(t) = 2
  BY <1>1, WordBytes
<1> HIDE DEF s, t
<1>3. s \o t \in Seq(Byte) /\ Len(s \o t) = Len(s) + Len(t)
  BY <1>2, BothBytes
<1>4. s \o t \in Seq(Byte) /\ Len(s \o t) = 4
  BY <1>2, <1>3
<1> QED
  BY <1>4 DEF u32, s, t

\* A number of 16 bits that stands in the message is read as it was.
LEMMA WordRead ==
  ASSUME NEW w, NEW p \in Position, NEW n \in 0..MAX_U16, Holds(w, p, u16(n))
  PROVE  u16_at(w, p - 1) = n
<1>1. n \in Nat /\ n <= MAX_U16
  BY Words
<1>2. Len(u16(n)) = 2 /\ u16(n)[1] = (n \div 256) % 256 /\ u16(n)[2] = n % 256
  BY <1>1, WordBytes
<1>3. 1 \in 1..2 /\ 2 \in 1..2 /\ 2 \in Nat
  OBVIOUS
<1>4. w[p - 1 + 1] = (n \div 256) % 256 /\ w[p - 1 + 2] = n % 256
  BY <1>2, <1>3 DEF Holds
<1>5. (((n \div 256) % 256) * 256) + (n % 256) = n
  <2>1. n < 65536
    BY <1>1 DEF MAX_U16
  <2>2. \A m \in Nat : m < 65536 => (m \div 256) % 256 = m \div 256
    OBVIOUS
  <2>3. (n \div 256) * 256 + (n % 256) = n
    BY <1>1
  <2> QED
    BY <1>1, <2>1, <2>2, <2>3
<1> QED
  BY <1>4, <1>5 DEF u16_at

IsQuestion(q) ==
  /\ IsName(q.query_name)
  /\ q.query_type \in 0..MAX_U16
  /\ q.query_class \in 0..MAX_U16

IsAnswer(a) ==
  /\ IsName(a.name)
  /\ a.query_type \in 0..MAX_U16
  /\ a.value \in Seq(Byte) /\ Len(a.value) <= MAX_U16
  /\ a = Answer(a.name, a.query_type, a.value)

\* A question is written as its name and four bytes.
LEMMA QuestionBytes ==
  ASSUME NEW q, IsQuestion(q)
  PROVE  /\ query_bytes(q) \in Seq(Byte)
         /\ Len(query_bytes(q)) = Len(q.query_name) + 4
<1> DEFINE n == q.query_name
           t == u16(q.query_type)
           c == u16(q.query_class)
<1>1. q.query_type \in Nat /\ q.query_class \in Nat
  BY Words DEF IsQuestion
<1>2. n \in Seq(Byte) /\ t \in Seq(Byte) /\ c \in Seq(Byte) /\ Len(t) = 2 /\ Len(c) = 2
  BY <1>1, WordBytes DEF IsQuestion, IsName
<1> HIDE DEF n, t, c
<1>3. n \o t \in Seq(Byte) /\ Len(n \o t) = Len(n) + 2
  BY <1>2, BothBytes
<1> DEFINE m == n \o t
<1> HIDE DEF m
<1>4. m \in Seq(Byte) /\ Len(m) = Len(n) + 2
  BY <1>3 DEF m
<1>5. m \o c \in Seq(Byte) /\ Len(m \o c) = Len(m) + 2
  BY <1>2, <1>4, BothBytes
<1>6. Len(n) \in Nat
  BY <1>2
<1>7. m \o c \in Seq(Byte) /\ Len(m \o c) = Len(n) + 4
  BY <1>4, <1>5, <1>6
<1> QED
  BY <1>7 DEF query_bytes, m, n, t, c

\* The name of a question is found, and what is behind it.
LEMMA QuestionRead ==
  ASSUME wire \in Seq(Byte), NEW p \in Position, NEW q, IsQuestion(q), Holds(wire, p, query_bytes(q))
  PROVE  /\ IsReadable(q.query_name) => NameEnd[p] # 0 /\ NameEnd[p] + 4 = p + Len(query_bytes(q))
         /\ NameEnd[p] # 0 => IsReadable(q.query_name)
<1> DEFINE n == q.query_name
           t == u16(q.query_type)
           c == u16(q.query_class)
           m == n \o t
<1>1. q.query_type \in Nat /\ q.query_class \in Nat
  BY Words DEF IsQuestion
<1>2. n \in Seq(Byte) /\ t \in Seq(Byte) /\ c \in Seq(Byte)
  BY <1>1, WordBytes DEF IsQuestion, IsName
<1>3. IsName(n) /\ Holds(wire, p, m \o c)
  BY DEF IsQuestion, query_bytes
<1> HIDE DEF n, t, c
<1>4. m \in Seq(Byte)
  BY <1>2, BothBytes
<1> HIDE DEF m
<1>5. Holds(wire, p, m)
  BY <1>2, <1>3, <1>4, Behind
<1>6. Holds(wire, p, n)
  BY <1>2, <1>5, Behind DEF m
<1>7. IsReadable(n) => NameEnd[p] = p + Len(n)
  BY <1>6, NameEnds
<1>8. Len(query_bytes(q)) = Len(n) + 4
  BY QuestionBytes DEF n
<1>9. Len(n) \in Nat /\ p \in Nat /\ p >= 1
  BY <1>2 DEF Position
<1>10. NameEnd[p] # 0 => IsReadable(n)
  BY <1>3, <1>6, NameFound
<1>11. p + Len(n) # 0 /\ p + Len(n) + 4 = p + Len(query_bytes(q))
  BY <1>8, <1>9
<1> QED
  BY <1>7, <1>10, <1>11 DEF n

\* An answer in its parts.
LEMMA AnswerParts ==
  ASSUME NEW a, IsAnswer(a)
  PROVE  /\ answer_bytes(a) \in Seq(Byte)
         /\ Len(answer_bytes(a)) = Len(a.name) + 10 + Len(a.value)
         /\ \A w \in Seq(Byte), p \in Position :
              Holds(w, p, answer_bytes(a)) =>
                /\ Holds(w, p, a.name)
                /\ Holds(w, p + Len(a.name), u16(a.query_type))
                /\ Holds(w, p + Len(a.name) + 8, u16(Len(a.value)))
                /\ Holds(w, p + Len(a.name) + 10, a.value)
<1> DEFINE n == a.name
           t == u16(a.query_type)
           c == u16(IN_CLASS)
           l == u32(ANSWER_TTL)
           d == u16(Len(a.value))
           v == a.value
           c2 == n \o t
           c3 == c2 \o c
           c4 == c3 \o l
           c5 == c4 \o d
           c6 == c5 \o v
<1>1. a.query_type \in Nat /\ v \in Seq(Byte) /\ n \in Seq(Byte) /\ Len(a.value) \in Nat
  BY Words DEF IsAnswer, IsName
<1>2. /\ t \in Seq(Byte) /\ Len(t) = 2
      /\ c \in Seq(Byte) /\ Len(c) = 2
      /\ l \in Seq(Byte) /\ Len(l) = 4
      /\ d \in Seq(Byte) /\ Len(d) = 2
  <2>1. t \in Seq(Byte) /\ Len(t) = 2
    BY <1>1, WordBytes
  <2>2. c \in Seq(Byte) /\ Len(c) = 2
    BY WordBytes DEF IN_CLASS
  <2>3. l \in Seq(Byte) /\ Len(l) = 4
    BY LongBytes DEF ANSWER_TTL
  <2>4. d \in Seq(Byte) /\ Len(d) = 2
    BY <1>1, WordBytes
  <2> QED
    BY <2>1, <2>2, <2>3, <2>4, Zenon
<1>3. answer_bytes(a) = c6
  BY DEF answer_bytes
<1>4. Len(n) \in Nat /\ Len(v) \in Nat
  BY <1>1
<1> HIDE DEF n, t, c, l, d, v
<1>5. c2 \in Seq(Byte) /\ Len(c2) = Len(n) + 2
  BY <1>1, <1>2, BothBytes
<1> HIDE DEF c2
<1>6. c3 \in Seq(Byte) /\ Len(c3) = Len(n) + 4
  <2>1. c3 \in Seq(Byte) /\ Len(c3) = Len(c2) + 2
    BY <1>2, <1>5, BothBytes
  <2> QED
    BY <1>4, <1>5, <2>1
<1> HIDE DEF c3
<1>7. c4 \in Seq(Byte) /\ Len(c4) = Len(n) + 8
  <2>1. c4 \in Seq(Byte) /\ Len(c4) = Len(c3) + 4
    BY <1>2, <1>6, BothBytes
  <2> QED
    BY <1>4, <1>6, <2>1
<1> HIDE DEF c4
<1>8. c5 \in Seq(Byte) /\ Len(c5) = Len(n) + 10
  <2>1. c5 \in Seq(Byte) /\ Len(c5) = Len(c4) + 2
    BY <1>2, <1>7, BothBytes
  <2> QED
    BY <1>4, <1>7, <2>1
<1> HIDE DEF c5
<1>9. c6 \in Seq(Byte) /\ Len(c6) = Len(n) + 10 + Len(v)
  <2>1. c6 \in Seq(Byte) /\ Len(c6) = Len(c5) + Len(v)
    BY <1>1, <1>8, BothBytes
  <2> QED
    BY <1>4, <1>8, <2>1
<1>10. ASSUME NEW w \in Seq(Byte), NEW p \in Position, Holds(w, p, c6)
       PROVE  /\ Holds(w, p, n)
              /\ Holds(w, p + Len(n), t)
              /\ Holds(w, p + Len(n) + 8, d)
              /\ Holds(w, p + Len(n) + 10, v)
  <2>0. p \in Nat
    BY DEF Position
  <2>1. Holds(w, p, c5) /\ Holds(w, p + Len(c5), v)
    BY <1>1, <1>8, <1>10, Behind
  <2>2. Holds(w, p, c4) /\ Holds(w, p + Len(c4), d)
    BY <1>2, <1>7, <2>1, Behind DEF c5
  <2>3. Holds(w, p, c3)
    BY <1>2, <1>6, <2>2, Behind DEF c4
  <2>4. Holds(w, p, c2)
    BY <1>2, <1>5, <2>3, Behind DEF c3
  <2>5. Holds(w, p, n) /\ Holds(w, p + Len(n), t)
    BY <1>1, <1>2, <2>4, Behind DEF c2
  <2>6. p + Len(c5) = p + Len(n) + 10 /\ p + Len(c4) = p + Len(n) + 8
    BY <1>4, <1>7, <1>8, <2>0
  <2> QED
    BY <2>1, <2>2, <2>5, <2>6
<1> HIDE DEF c6
<1> QED
  BY <1>3, <1>9, <1>10 DEF n, t, d, v

\* An answer that stands in the message is read.
LEMMA AnswerRead ==
  ASSUME wire \in Seq(Byte), NEW p \in Position, NEW a, IsAnswer(a), IsReadable(a.name),
         Holds(wire, p, answer_bytes(a))
  PROVE  /\ RecordAt(p).answer = a
         /\ RecordAt(p).rdata = p + Len(a.name) + 10
         /\ RecordAt(p).next = p + Len(answer_bytes(a))
         /\ Holds(wire, p + Len(a.name) + 10, a.value)
<1> DEFINE n == p + Len(a.name)
<1>1. /\ Holds(wire, p, a.name)
      /\ Holds(wire, n, u16(a.query_type))
      /\ Holds(wire, n + 8, u16(Len(a.value)))
      /\ Holds(wire, n + 10, a.value)
      /\ Len(answer_bytes(a)) = Len(a.name) + 10 + Len(a.value)
  BY AnswerParts
<1>2. /\ a.name \in Seq(Byte) /\ IsName(a.name) /\ a.query_type \in 0..MAX_U16
      /\ a.value \in Seq(Byte) /\ Len(a.value) <= MAX_U16
  BY DEF IsAnswer, IsName
<1>3. Len(a.name) \in Nat /\ Len(a.value) \in Nat /\ p \in Nat /\ p >= 1
  BY <1>2 DEF Position
<1>4. Len(a.value) \in 0..MAX_U16
  BY <1>2, <1>3, Words
<1>5. NameEnd[p] = n
  BY <1>1, <1>2, NameEnds
<1>6. n \in Position /\ n + 8 \in Position /\ n + 10 \in Position
  BY <1>3 DEF Position
<1>7. SubSeq(wire, p, n - 1) = a.name
  <2>1. SubSeq(wire, p, p + Len(a.name) - 1) = a.name
    BY <1>1, <1>2, HoldsCut
  <2> QED
    BY <1>3, <2>1
<1>10. n + 10 + Len(a.value) = p + Len(a.name) + 10 + Len(a.value)
  BY <1>3
<1>11. p + Len(answer_bytes(a)) = n + 10 + Len(a.value)
  <2>1. Len(answer_bytes(a)) = Len(a.name) + 10 + Len(a.value)
    BY AnswerParts
  <2> DEFINE x == Len(a.name)
             y == Len(a.value)
             z == Len(answer_bytes(a))
  <2>2. x \in Nat /\ y \in Nat /\ z = x + 10 + y
    BY <1>3, <2>1
  <2> HIDE DEF x, y, z
  <2>3. p + z = (p + x) + 10 + y
    BY <1>3, <2>2
  <2> QED
    BY <2>3 DEF x, y, z
<1> HIDE DEF n
<1>8. u16_at(wire, n - 1) = a.query_type
  BY <1>1, <1>2, <1>6, WordRead
<1>9. u16_at(wire, n + 7) = Len(a.value)
  <2>1. u16_at(wire, (n + 8) - 1) = Len(a.value)
    BY <1>1, <1>4, <1>6, WordRead
  <2>2. (n + 8) - 1 = n + 7
    BY <1>6 DEF Position
  <2> QED
    BY <2>1, <2>2
<1>12. SubSeq(wire, n + 10, (n + 10 + Len(a.value)) - 1) = a.value
  <2>1. SubSeq(wire, n + 10, n + 10 + Len(a.value) - 1) = a.value
    BY <1>1, <1>2, <1>6, HoldsCut
  <2>2. n + 10 + Len(a.value) - 1 = (n + 10 + Len(a.value)) - 1
    BY <1>3, <1>6 DEF Position
  <2> QED
    BY <2>1, <2>2
<1>13. RecordAt(p) = [answer |-> Answer(a.name, a.query_type, a.value),
                      rdata |-> n + 10, next |-> n + 10 + Len(a.value)]
  BY <1>5, <1>7, <1>8, <1>9, <1>12 DEF RecordAt
<1>14. Answer(a.name, a.query_type, a.value) = a
  BY DEF IsAnswer
<1>15. n + 10 = p + Len(a.name) + 10
  BY DEF n
<1>16. RecordAt(p).next = p + Len(answer_bytes(a))
  BY <1>11, <1>13
<1>17. RecordAt(p).rdata = p + Len(a.name) + 10 /\ RecordAt(p).answer = a
  BY <1>13, <1>14, <1>15
<1> QED
  BY <1>1, <1>15, <1>16, <1>17, Zenon

\* The responses that to_bytes is given.
IsWritable(r) ==
  /\ r.transaction_id \in 0..MAX_U16
  /\ r.recursion_desired \in {0, 1}
  /\ r.rcode \in DOMAIN ResponseCode
  /\ r.query = <<>> \/ \E q : IsQuestion(q) /\ r.query = <<q>>
  /\ IsSequence(r.answers)
  /\ Len(r.answers) <= MAX_U16
  /\ \A k \in 1..Len(r.answers) : IsAnswer(r.answers[k])

\* The bytes of the question, and those of the answers.
Asks(r) == FlattenSeq([k \in DOMAIN r.query |-> query_bytes(r.query[k])])
AnswerBytes(r) == [k \in DOMAIN r.answers |-> answer_bytes(r.answers[k])]
Tells(r) == FlattenSeq(AnswerBytes(r))

\* Nothing is joined to nothing.
LEMMA FlattenNone == FlattenSeq(<<>>) = <<>>
BY DEF FlattenSeq

\* One sequence is joined to itself.
LEMMA FlattenOne ==
  ASSUME NEW s \in Seq(Byte)
  PROVE  FlattenSeq(<<s>>) = s
<1> DEFINE ss == <<s>>
           f == FlattenSeq(ss)
<1>1. ss \in Seq(Seq(Byte)) /\ Len(ss) = 1 /\ ss[1] = s
  OBVIOUS
<1> HIDE DEF ss
<1>2. f \in Seq(Byte)
  BY <1>1, Flattened
<1>3. PICK e \in [0..1 -> Nat] :
         /\ e[0] = 0
         /\ e[1] = Len(f)
         /\ \A k \in 1..1 : e[k] = e[k - 1] + Len(ss[k]) /\ Holds(f, e[k - 1] + 1, ss[k])
  <2>1. \E e \in [0..Len(ss) -> Nat] :
         /\ e[0] = 0
         /\ e[Len(ss)] = Len(f)
         /\ \A k \in 1..Len(ss) : e[k] = e[k - 1] + Len(ss[k]) /\ Holds(f, e[k - 1] + 1, ss[k])
    BY <1>1, Flattened
  <2> QED
    BY <1>1, <2>1
<1> HIDE DEF f
<1>4. 1 \in 1..1 /\ 1 - 1 = 0 /\ 0 + 1 = 1 /\ 1 \in Position /\ Len(s) \in Nat
  BY DEF Position
<1>5. Len(f) = Len(s) /\ Holds(f, 1, s)
  BY <1>1, <1>3, <1>4
<1>6. SubSeq(f, 1, 1 + Len(s) - 1) = s
  BY <1>2, <1>4, <1>5, HoldsCut
<1>7. 1 + Len(s) - 1 = Len(f)
  BY <1>4, <1>5
<1>8. SubSeq(f, 1, Len(f)) = f
  BY <1>2
<1> QED
  BY <1>6, <1>7, <1>8 DEF f, ss

\* The bytes of the question, if there is one.
LEMMA AsksBytes ==
  ASSUME NEW r, IsWritable(r)
  PROVE  /\ Asks(r) \in Seq(Byte)
         /\ \/ r.query = <<>> /\ Len(r.query) = 0 /\ Asks(r) = <<>>
            \/ \E q : /\ IsQuestion(q)
                      /\ r.query = <<q>> /\ Len(r.query) = 1 /\ r.query[1] = q
                      /\ Asks(r) = query_bytes(q)
<1>1. CASE r.query = <<>>
  <2>1. [k \in DOMAIN r.query |-> query_bytes(r.query[k])] = <<>>
    BY <1>1
  <2>2. Asks(r) = <<>>
    BY <2>1, FlattenNone DEF Asks
  <2>3. <<>> \in Seq(Byte) /\ Len(<<>>) = 0
    OBVIOUS
  <2> QED
    BY <1>1, <2>2, <2>3
<1>2. CASE r.query # <<>>
  <2>1. PICK q : IsQuestion(q) /\ r.query = <<q>>
    BY <1>2 DEF IsWritable
  <2> DEFINE s == query_bytes(q)
  <2>2. s \in Seq(Byte)
    BY <2>1, QuestionBytes
  <2>3. [k \in DOMAIN r.query |-> query_bytes(r.query[k])] = <<s>>
    BY <2>1
  <2> HIDE DEF s
  <2>4. Asks(r) = s
    BY <2>2, <2>3, FlattenOne DEF Asks
  <2>5. Len(<<q>>) = 1 /\ <<q>>[1] = q
    OBVIOUS
  <2> QED
    BY <2>1, <2>2, <2>4, <2>5 DEF s
<1> QED
  BY <1>1, <1>2

\* The bytes of the answers, and where each of them ends.
LEMMA TellsBytes ==
  ASSUME NEW r, IsWritable(r)
  PROVE  /\ Len(r.answers) \in 0..MAX_U16
         /\ DOMAIN r.answers = 1..Len(r.answers)
         /\ Tells(r) \in Seq(Byte)
         /\ \E e \in [0..Len(r.answers) -> Nat] :
              /\ e[0] = 0
              /\ e[Len(r.answers)] = Len(Tells(r))
              /\ \A k \in 1..Len(r.answers) :
                   /\ e[k] = e[k - 1] + Len(answer_bytes(r.answers[k]))
                   /\ Holds(Tells(r), e[k - 1] + 1, answer_bytes(r.answers[k]))
<1> DEFINE m == Len(r.answers)
           ss == AnswerBytes(r)
<1>1. m \in Nat /\ DOMAIN r.answers = 1..m
  BY DEF IsWritable, IsSequence
<1>2. m \in 0..MAX_U16
  BY <1>1, Words DEF IsWritable
<1>3. \A k \in 1..m : answer_bytes(r.answers[k]) \in Seq(Byte)
  BY AnswerParts DEF IsWritable
<1> HIDE DEF m
<1>4. ss = [k \in 1..m |-> answer_bytes(r.answers[k])]
  BY <1>1 DEF AnswerBytes
<1>5. ss \in Seq(Seq(Byte)) /\ Len(ss) = m /\ \A k \in 1..m : ss[k] = answer_bytes(r.answers[k])
  BY <1>1, <1>3, <1>4
<1> HIDE DEF ss
<1>6. /\ FlattenSeq(ss) \in Seq(Byte)
      /\ \E e \in [0..Len(ss) -> Nat] :
           /\ e[0] = 0
           /\ e[Len(ss)] = Len(FlattenSeq(ss))
           /\ \A k \in 1..Len(ss) :
                /\ e[k] = e[k - 1] + Len(ss[k])
                /\ Holds(FlattenSeq(ss), e[k - 1] + 1, ss[k])
  BY <1>5, Flattened
<1>7. Tells(r) = FlattenSeq(ss)
  BY DEF Tells, ss
<1>8. PICK e \in [0..m -> Nat] :
         /\ e[0] = 0
         /\ e[m] = Len(Tells(r))
         /\ \A k \in 1..m :
              /\ e[k] = e[k - 1] + Len(ss[k])
              /\ Holds(Tells(r), e[k - 1] + 1, ss[k])
  BY <1>5, <1>6, <1>7
<1>9. \A k \in 1..m :
        /\ e[k] = e[k - 1] + Len(answer_bytes(r.answers[k]))
        /\ Holds(Tells(r), e[k - 1] + 1, answer_bytes(r.answers[k]))
  BY <1>5, <1>8
<1> QED
  BY <1>1, <1>2, <1>6, <1>7, <1>8, <1>9 DEF m

Flags(r) == <<128 + 4 + r.recursion_desired, 32 + ResponseCode[r.rcode]>>

\* The two bytes of flags, and what they say.
LEMMA FlagBytes ==
  ASSUME NEW r, IsWritable(r)
  PROVE  /\ Flags(r) \in Seq(Byte) /\ Len(Flags(r)) = 2
         /\ Flags(r)[1] \div 128 = 1
         /\ Flags(r)[1] % 2 = r.recursion_desired
         /\ Flags(r)[2] % 16 = ResponseCode[r.rcode]
<1> DEFINE d == r.recursion_desired
           c == ResponseCode[r.rcode]
<1>1. d \in {0, 1}
  BY DEF IsWritable
<1>2. c \in {0, 1, 3, 5}
  <2>1. r.rcode \in {"NoError", "FormErr", "NXDomain", "Refused"}
    BY Codes DEF IsWritable
  <2> QED
    BY <2>1 DEF ResponseCode
<1>3. Flags(r) = <<128 + 4 + d, 32 + c>>
  BY DEF Flags
<1> HIDE DEF d, c
<1>4. 128 + 4 + d \in Byte /\ 32 + c \in Byte
  BY <1>1, <1>2, Bytes
<1>5. (128 + 4 + d) \div 128 = 1 /\ (128 + 4 + d) % 2 = d /\ (32 + c) % 16 = c
  BY <1>1, <1>2
<1> QED
  BY <1>3, <1>4, <1>5 DEF d, c

\* A response in its parts.
LEMMA ResponseParts ==
  ASSUME NEW r, IsWritable(r)
  PROVE  /\ to_bytes(r) \in Seq(Byte)
         /\ Len(to_bytes(r)) = 12 + Len(Asks(r)) + Len(Tells(r))
         /\ Holds(to_bytes(r), 1, u16(r.transaction_id))
         /\ Holds(to_bytes(r), 3, Flags(r))
         /\ Holds(to_bytes(r), 5, u16(Len(r.query)))
         /\ Holds(to_bytes(r), 7, u16(Len(r.answers)))
         /\ Holds(to_bytes(r), 13, Asks(r))
         /\ Holds(to_bytes(r), 13 + Len(Asks(r)), Tells(r))
<1> DEFINE i == u16(r.transaction_id)
           f == Flags(r)
           nq == u16(Len(r.query))
           na == u16(Len(r.answers))
           z == u16(0)
           q == Asks(r)
           a == Tells(r)
           c2 == i \o f
           c3 == c2 \o nq
           c4 == c3 \o na
           c5 == c4 \o z
           c6 == c5 \o z
           c7 == c6 \o q
           c8 == c7 \o a
<1>1. r.transaction_id \in Nat /\ Len(r.query) \in Nat /\ Len(r.answers) \in Nat
  <2>1. Len(r.query) \in Nat
    BY AsksBytes
  <2>2. Len(r.answers) \in Nat
    BY TellsBytes, Words
  <2> QED
    BY <2>1, <2>2, Words DEF IsWritable
<1>2. /\ i \in Seq(Byte) /\ Len(i) = 2
      /\ f \in Seq(Byte) /\ Len(f) = 2
      /\ nq \in Seq(Byte) /\ Len(nq) = 2
      /\ na \in Seq(Byte) /\ Len(na) = 2
      /\ z \in Seq(Byte) /\ Len(z) = 2
      /\ q \in Seq(Byte) /\ a \in Seq(Byte)
  <2>1. i \in Seq(Byte) /\ Len(i) = 2
    BY <1>1, WordBytes
  <2>2. nq \in Seq(Byte) /\ Len(nq) = 2 /\ na \in Seq(Byte) /\ Len(na) = 2
    BY <1>1, WordBytes
  <2>3. z \in Seq(Byte) /\ Len(z) = 2
    BY WordBytes
  <2>4. f \in Seq(Byte) /\ Len(f) = 2
    BY FlagBytes
  <2>5. q \in Seq(Byte) /\ a \in Seq(Byte)
    BY AsksBytes, TellsBytes
  <2> QED
    BY <2>1, <2>2, <2>3, <2>4, <2>5, Zenon
<1>3. to_bytes(r) = c8
  BY DEF to_bytes, Flags, Asks, Tells, AnswerBytes
<1> HIDE DEF i, f, nq, na, z, q, a
<1>4. Len(q) \in Nat /\ Len(a) \in Nat
  BY <1>2
<1>5. c2 \in Seq(Byte) /\ Len(c2) = 4
  <2>1. c2 \in Seq(Byte) /\ Len(c2) = Len(i) + Len(f)
    BY <1>2, BothBytes
  <2> QED
    BY <1>2, <2>1
<1> HIDE DEF c2
<1>6. c3 \in Seq(Byte) /\ Len(c3) = 6
  <2>1. c3 \in Seq(Byte) /\ Len(c3) = Len(c2) + Len(nq)
    BY <1>2, <1>5, BothBytes
  <2> QED
    BY <1>2, <1>5, <2>1
<1> HIDE DEF c3
<1>7. c4 \in Seq(Byte) /\ Len(c4) = 8
  <2>1. c4 \in Seq(Byte) /\ Len(c4) = Len(c3) + Len(na)
    BY <1>2, <1>6, BothBytes
  <2> QED
    BY <1>2, <1>6, <2>1
<1> HIDE DEF c4
<1>8. c5 \in Seq(Byte) /\ Len(c5) = 10
  <2>1. c5 \in Seq(Byte) /\ Len(c5) = Len(c4) + Len(z)
    BY <1>2, <1>7, BothBytes
  <2> QED
    BY <1>2, <1>7, <2>1
<1> HIDE DEF c5
<1>9. c6 \in Seq(Byte) /\ Len(c6) = 12
  <2>1. c6 \in Seq(Byte) /\ Len(c6) = Len(c5) + Len(z)
    BY <1>2, <1>8, BothBytes
  <2> QED
    BY <1>2, <1>8, <2>1
<1> HIDE DEF c6
<1>10. c7 \in Seq(Byte) /\ Len(c7) = 12 + Len(q)
  BY <1>2, <1>9, BothBytes
<1> HIDE DEF c7
<1>11. c8 \in Seq(Byte) /\ Len(c8) = 12 + Len(q) + Len(a)
  <2>1. c8 \in Seq(Byte) /\ Len(c8) = Len(c7) + Len(a)
    BY <1>2, <1>10, BothBytes
  <2> QED
    BY <1>4, <1>10, <2>1
<1> DEFINE w == c8
<1>12. Holds(w, 1, c8)
  BY <1>11, HoldsItself
<1>13. w \in Seq(Byte) /\ 1 \in Position
  BY <1>11 DEF Position
<1> HIDE DEF w
<1>14. Holds(w, 1, c7) /\ Holds(w, 1 + Len(c7), a)
  BY <1>2, <1>10, <1>12, <1>13, Behind
<1>15. Holds(w, 1, c6) /\ Holds(w, 1 + Len(c6), q)
  BY <1>2, <1>9, <1>13, <1>14, Behind DEF c7
<1>16. Holds(w, 1, c5)
  BY <1>2, <1>8, <1>13, <1>15, Behind DEF c6
<1>17. Holds(w, 1, c4)
  BY <1>2, <1>7, <1>13, <1>16, Behind DEF c5
<1>18. Holds(w, 1, c3) /\ Holds(w, 1 + Len(c3), na)
  BY <1>2, <1>6, <1>13, <1>17, Behind DEF c4
<1>19. Holds(w, 1, c2) /\ Holds(w, 1 + Len(c2), nq)
  BY <1>2, <1>5, <1>13, <1>18, Behind DEF c3
<1>20. Holds(w, 1, i) /\ Holds(w, 1 + Len(i), f)
  BY <1>2, <1>13, <1>19, Behind DEF c2
<1>21. /\ 1 + Len(c7) = 13 + Len(q) /\ 1 + Len(c6) = 13 /\ 1 + Len(c3) = 7 /\ 1 + Len(c2) = 5
       /\ 1 + Len(i) = 3
  BY <1>2, <1>4, <1>5, <1>6, <1>9, <1>10
<1>22. to_bytes(r) = w
  BY <1>3 DEF w
<1> QED
  BY <1>11, <1>14, <1>15, <1>18, <1>19, <1>20, <1>21, <1>22 DEF w, i, f, nq, na, q, a

\* The header and the question of a response are found again.
LEMMA HeadRead ==
  ASSUME NEW r, IsWritable(r), wire = to_bytes(r)
  PROVE  /\ wire \in Seq(Byte)
         /\ u16_at(wire, 0) = r.transaction_id
         /\ SubSeq(wire, 1, 2) = u16(r.transaction_id)
         /\ IsReply(wire)
         /\ recursion_desired(wire) = r.recursion_desired
         /\ wire[4] % 16 = ResponseCode[r.rcode]
         /\ u16_at(wire, 4) = Len(r.query)
         /\ u16_at(wire, 6) = Len(r.answers)
         /\ Len(wire) = 12 + Len(Asks(r)) + Len(Tells(r))
         /\ Holds(wire, 13, Asks(r))
         /\ Holds(wire, 13 + Len(Asks(r)), Tells(r))
<1>1. /\ wire \in Seq(Byte)
      /\ Len(wire) = 12 + Len(Asks(r)) + Len(Tells(r))
      /\ Holds(wire, 1, u16(r.transaction_id))
      /\ Holds(wire, 3, Flags(r))
      /\ Holds(wire, 5, u16(Len(r.query)))
      /\ Holds(wire, 7, u16(Len(r.answers)))
      /\ Holds(wire, 13, Asks(r))
      /\ Holds(wire, 13 + Len(Asks(r)), Tells(r))
  BY ResponseParts
<1>2. /\ Asks(r) \in Seq(Byte) /\ Tells(r) \in Seq(Byte)
      /\ Len(Asks(r)) \in Nat /\ Len(Tells(r)) \in Nat
      /\ Len(r.answers) \in 0..MAX_U16
  <2>1. Asks(r) \in Seq(Byte) /\ Tells(r) \in Seq(Byte) /\ Len(r.answers) \in 0..MAX_U16
    BY AsksBytes, TellsBytes
  <2> QED
    BY <2>1
<1>3. /\ 1 \in Position /\ 3 \in Position /\ 5 \in Position /\ 7 \in Position /\ 13 \in Position
      /\ 1 - 1 = 0 /\ 5 - 1 = 4 /\ 7 - 1 = 6
  BY DEF Position
<1>4. r.transaction_id \in 0..MAX_U16 /\ r.transaction_id \in Nat
  BY Words DEF IsWritable
<1>5. u16_at(wire, 0) = r.transaction_id
  BY <1>1, <1>3, <1>4, WordRead
<1>6. SubSeq(wire, 1, 2) = u16(r.transaction_id)
  <2> DEFINE s == u16(r.transaction_id)
  <2>1. s \in Seq(Byte) /\ Len(s) = 2 /\ Holds(wire, 1, s)
    BY <1>1, <1>4, WordBytes
  <2> HIDE DEF s
  <2>2. SubSeq(wire, 1, 1 + Len(s) - 1) = s
    BY <1>1, <1>3, <2>1, HoldsCut
  <2>3. 1 + Len(s) - 1 = 2
    BY <2>1
  <2> QED
    BY <2>2, <2>3 DEF s
<1>7. wire[3] = Flags(r)[1] /\ wire[4] = Flags(r)[2]
  <2> DEFINE f == Flags(r)
  <2>1. Len(f) = 2 /\ Holds(wire, 3, f)
    BY <1>1, FlagBytes
  <2> HIDE DEF f
  <2>2. 1 \in 1..Len(f) /\ 2 \in 1..Len(f) /\ 3 - 1 + 1 = 3 /\ 3 - 1 + 2 = 4
    BY <2>1
  <2>3. \A j \in 1..Len(f) : wire[3 - 1 + j] = f[j]
    BY <2>1 DEF Holds
  <2> QED
    BY <2>2, <2>3 DEF f
<1>8. IsReply(wire) /\ recursion_desired(wire) = r.recursion_desired /\ wire[4] % 16 = ResponseCode[r.rcode]
  BY <1>7, FlagBytes DEF IsReply, recursion_desired
<1>9. u16_at(wire, 6) = Len(r.answers)
  BY <1>1, <1>2, <1>3, WordRead
<1>10. u16_at(wire, 4) = Len(r.query)
  <2>1. Len(r.query) \in 0..MAX_U16
    <3>1. Len(r.query) \in {0, 1}
      BY AsksBytes
    <3>2. 0 <= MAX_U16 /\ 1 <= MAX_U16
      BY DEF MAX_U16
    <3> QED
      BY <3>1, <3>2, Words
  <2> QED
    BY <1>1, <1>3, <2>1, WordRead
<1> QED
  BY <1>1, <1>5, <1>6, <1>8, <1>9, <1>10

\* The question is found if its name can be read, and only then.
LEMMA QuestionIsFound ==
  ASSUME NEW r, IsWritable(r), wire = to_bytes(r)
  PROVE  /\ QuestionFound <=> (r.query = <<>> \/ IsReadable(r.query[1].query_name))
         /\ QuestionFound =>
              /\ QuestionEnd = 13 + Len(Asks(r))
              /\ SubSeq(wire, 13, QuestionEnd - 1) = Asks(r)
<1>1. /\ wire \in Seq(Byte) /\ u16_at(wire, 4) = Len(r.query) /\ Holds(wire, 13, Asks(r))
  BY HeadRead
<1>2. 13 \in Position /\ Asks(r) \in Seq(Byte) /\ Len(Asks(r)) \in Nat
  <2>1. Asks(r) \in Seq(Byte)
    BY AsksBytes
  <2> QED
    BY <2>1 DEF Position
<1>3. ASSUME QuestionEnd = 13 + Len(Asks(r))
      PROVE  SubSeq(wire, 13, QuestionEnd - 1) = Asks(r)
  <2>1. SubSeq(wire, 13, 13 + Len(Asks(r)) - 1) = Asks(r)
    BY <1>1, <1>2, HoldsCut
  <2>2. 13 + Len(Asks(r)) - 1 = QuestionEnd - 1
    BY <1>2, <1>3
  <2> QED
    BY <2>1, <2>2
<1>4. CASE r.query = <<>>
  <2>1. Len(r.query) = 0 /\ Asks(r) = <<>> /\ Len(<<>>) = 0
    BY <1>4, AsksBytes
  <2>2. QuestionFound /\ QuestionEnd = 13 + Len(Asks(r))
    BY <1>1, <2>1 DEF QuestionFound, QuestionEnd
  <2> QED
    BY <1>3, <1>4, <2>2
<1>5. CASE r.query # <<>>
  <2> DEFINE q == r.query[1]
  <2>1. IsQuestion(q) /\ Len(r.query) = 1 /\ Asks(r) = query_bytes(q)
    BY <1>5, AsksBytes
  <2> HIDE DEF q
  <2>2. u16_at(wire, 4) = 1
    BY <1>1, <2>1
  <2>3. /\ IsReadable(q.query_name) => NameEnd[13] # 0 /\ NameEnd[13] + 4 = 13 + Len(Asks(r))
        /\ NameEnd[13] # 0 => IsReadable(q.query_name)
    BY <1>1, <1>2, <2>1, QuestionRead
  <2>4. QuestionFound <=> IsReadable(q.query_name)
    BY <2>2, <2>3 DEF QuestionFound
  <2>5. QuestionFound => QuestionEnd = 13 + Len(Asks(r))
    BY <2>2, <2>3, <2>4 DEF QuestionEnd
  <2> QED
    BY <1>3, <1>5, <2>4, <2>5 DEF q
<1> QED
  BY <1>4, <1>5

\* What RecordStart does at a number.
StartStep(g, k) == IF k = 0 THEN QuestionEnd ELSE RecordAt(g[k - 1]).next

\* The answers of a response are found again, one behind the other.
LEMMA TailRead ==
  ASSUME NEW r, IsWritable(r), wire = to_bytes(r), QuestionFound,
         \A k \in 1..Len(r.answers) : IsReadable(r.answers[k].name)
  PROVE  /\ u16_at(wire, 6) = Len(r.answers)
         /\ \A k \in 1..Len(r.answers) :
              /\ RecordStart[k - 1] \in Position
              /\ Holds(wire, RecordStart[k - 1], answer_bytes(r.answers[k]))
         /\ End = Len(wire) + 1
<1> DEFINE m == Len(r.answers)
           a == Tells(r)
           x == QuestionEnd
<1>1. /\ wire \in Seq(Byte) /\ u16_at(wire, 6) = m /\ x = 13 + Len(Asks(r))
      /\ Holds(wire, x, a) /\ Len(wire) + 1 = x + Len(a)
  <2>1. /\ wire \in Seq(Byte) /\ u16_at(wire, 6) = m
        /\ Len(wire) = 12 + Len(Asks(r)) + Len(a)
        /\ Holds(wire, 13 + Len(Asks(r)), a)
    BY HeadRead
  <2>2. x = 13 + Len(Asks(r))
    BY QuestionIsFound
  <2>3. Len(Asks(r)) \in Nat /\ Len(a) \in Nat
    <3>1. Asks(r) \in Seq(Byte) /\ a \in Seq(Byte)
      BY AsksBytes, TellsBytes
    <3> QED
      BY <3>1
  <2> HIDE DEF a, m, x
  <2> QED
    BY <2>1, <2>2, <2>3
<1>2. a \in Seq(Byte) /\ m \in Nat /\ DOMAIN r.answers = 1..m
  BY TellsBytes, Words
<1>3. x \in Nat /\ x >= 13
  <2>1. Len(Asks(r)) \in Nat
    BY AsksBytes
  <2> QED
    BY <1>1, <2>1
<1>4. PICK e \in [0..m -> Nat] :
         /\ e[0] = 0
         /\ e[m] = Len(a)
         /\ \A k \in 1..m :
              /\ e[k] = e[k - 1] + Len(answer_bytes(r.answers[k]))
              /\ Holds(a, e[k - 1] + 1, answer_bytes(r.answers[k]))
  BY TellsBytes
<1>5. \A k \in 1..m : IsAnswer(r.answers[k]) /\ answer_bytes(r.answers[k]) \in Seq(Byte)
  BY AnswerParts DEF IsWritable
<1> HIDE DEF m, a, x
<1>6. \A k \in 1..m : k - 1 \in 0..m /\ e[k - 1] \in Nat
  <2> SUFFICES ASSUME NEW k \in 1..m PROVE k - 1 \in 0..m /\ e[k - 1] \in Nat
    OBVIOUS
  <2>1. k - 1 \in 0..m
    BY <1>2
  <2> QED
    BY <1>4, <2>1
<1>7. \A k \in 1..m :
        /\ x + e[k - 1] \in Position
        /\ Holds(wire, x + e[k - 1], answer_bytes(r.answers[k]))
        /\ RecordAt(x + e[k - 1]).next = x + e[k]
  <2> SUFFICES ASSUME NEW k \in 1..m
               PROVE  /\ x + e[k - 1] \in Position
                      /\ Holds(wire, x + e[k - 1], answer_bytes(r.answers[k]))
                      /\ RecordAt(x + e[k - 1]).next = x + e[k]
    OBVIOUS
  <2> DEFINE d == e[k - 1]
             b == answer_bytes(r.answers[k])
             p == x + d
  <2>1. d \in Nat /\ b \in Seq(Byte) /\ Holds(a, d + 1, b) /\ e[k] = d + Len(b)
    BY <1>4, <1>5, <1>6
  <2>2. IsAnswer(r.answers[k]) /\ IsReadable(r.answers[k].name)
    BY <1>5 DEF m
  <2>3. Len(b) \in Nat
    BY <2>1
  <2> HIDE DEF d
  <2>4. d + 1 \in Position /\ x \in Position /\ p \in Position /\ x + (d + 1) - 1 = p
    BY <1>3, <2>1 DEF Position
  <2>5. Holds(wire, x + (d + 1) - 1, b)
    <3> HIDE DEF b
    <3> QED
      BY <1>1, <1>2, <2>1, <2>4, HoldsWithin
  <2>6. Holds(wire, p, b)
    BY <2>4, <2>5
  <2> HIDE DEF p
  <2>7. RecordAt(p).next = p + Len(b)
    BY <1>1, <2>2, <2>4, <2>6, AnswerRead
  <2>8. p + Len(b) = x + e[k]
    <3> HIDE DEF b
    <3> QED
      BY <1>3, <2>1, <2>3 DEF p
  <2> QED
    BY <2>4, <2>6, <2>7, <2>8 DEF p, d
<1> DEFINE g == [k \in 0..m |-> x + e[k]]
<1>8. g = [k \in 0..m |-> StartStep(g, k)]
  <2>1. ASSUME NEW k \in 0..m
        PROVE  x + e[k] = StartStep(g, k)
    <3>1. CASE k = 0
      BY <1>3, <1>4, <3>1 DEF StartStep, x
    <3>2. CASE k # 0
      <4>1. k \in 1..m
        BY <1>2, <3>2
      <4>2. g[k - 1] = x + e[k - 1]
        BY <1>6, <4>1
      <4> HIDE DEF g
      <4> QED
        BY <1>7, <3>2, <4>1, <4>2 DEF StartStep
    <3> QED
      BY <3>1, <3>2
  <2>2. [k \in 0..m |-> x + e[k]] = [k \in 0..m |-> StartStep(g, k)]
    <3> HIDE DEF g
    <3> QED
      BY <2>1
  <2> QED
    BY <2>2
<1> HIDE DEF g
<1> DEFINE s == CHOOSE s : s = [k \in 0..m |-> StartStep(s, k)]
<1>9. s = [k \in 0..m |-> StartStep(s, k)]
  BY <1>8, Zenon
<1>10. RecordStart = s
  <2>1. RecordStart = CHOOSE s_1 : s_1 = [k \in 0..u16_at(wire, 6) |-> StartStep(s_1, k)]
    BY Zenon DEF RecordStart, StartStep
  <2> QED
    BY <1>1, <2>1
<1> HIDE DEF s
<1>11. \A k \in 0..m : s[k] = StartStep(s, k)
  BY <1>9
<1>12. \A k \in 0..m : s[k] = x + e[k]
  <2> DEFINE T == {k \in Nat : k <= m => s[k] = x + e[k]}
  <2>1. 0 \in T
    <3>1. 0 \in 0..m
      BY <1>2
    <3>2. s[0] = x
      BY <1>11, <3>1 DEF StartStep, x
    <3>3. x + e[0] = x
      BY <1>3, <1>4
    <3> QED
      BY <3>2, <3>3
  <2>2. ASSUME NEW k \in Nat, k \in T
        PROVE  k + 1 \in T
    <3> SUFFICES ASSUME k + 1 <= m PROVE s[k + 1] = x + e[k + 1]
      OBVIOUS
    <3> DEFINE j == k + 1
    <3>1. j \in 1..m /\ j \in 0..m /\ j # 0 /\ j - 1 = k
      BY <1>2
    <3>2. s[k] = x + e[k]
      BY <1>2, <2>2
    <3> HIDE DEF j
    <3>3. s[j] = RecordAt(s[j - 1]).next
      BY <1>11, <3>1 DEF StartStep
    <3>4. s[j] = x + e[j]
      BY <1>7, <3>1, <3>2, <3>3
    <3> QED
      BY <3>4 DEF j
  <2> HIDE DEF T
  <2>3. \A k \in Nat : k \in T
    BY <2>1, <2>2, NatsInduct
  <2> SUFFICES ASSUME NEW k \in 0..m PROVE s[k] = x + e[k]
    OBVIOUS
  <2>4. k \in Nat /\ k <= m
    BY <1>2
  <2> QED
    BY <2>3, <2>4 DEF T
<1>13. \A k \in 1..m :
         /\ RecordStart[k - 1] \in Position
         /\ Holds(wire, RecordStart[k - 1], answer_bytes(r.answers[k]))
  BY <1>6, <1>7, <1>10, <1>12
<1>14. RecordStart[m] = Len(wire) + 1
  <2>1. m \in 0..m
    BY <1>2
  <2>2. s[m] = x + Len(a)
    BY <1>4, <1>12, <2>1
  <2> QED
    BY <1>1, <1>10, <2>2
<1>15. End = Len(wire) + 1
  BY <1>1, <1>14 DEF End
<1> QED
  BY <1>1, <1>13, <1>15 DEF m

-----------------------------------------------------------------------------
(* The name that the reader puts together is one.                          *)

\* at has the positions in the bytes n of the lengths of the first u labels of
\* ls, which n is made of, and of what is behind the last.
Placed(at, n, ls, u) ==
  /\ at \in [1..(u + 1) -> Nat]
  /\ at[1] = 1
  /\ at[u + 1] = Len(n) + 1
  /\ \A k \in 1..u : /\ at[k] \in 1..Len(n)
                     /\ n[at[k]] = Len(ls[k])
                     /\ at[k + 1] = at[k] + Len(ls[k]) + 1

\* And a label that is written out has less than 64 bytes.
NameInv ==
  /\ \E at : Placed(at, name, labels, used)
  /\ ~pointed => \A k \in 1..Len(labels) : Len(labels[k]) < 64
  /\ question = <<>> => name = <<>>

\* A number of up to 255 goes into one byte.
LEMMA OneByte == \A n \in Nat : n <= 255 => n % 256 = n
OBVIOUS

\* Nothing is in its place while the name is empty.
LEMMA EmptyIsPlaced ==
  ASSUME used = 0, name = <<>>
  PROVE  \E at : Placed(at, name, labels, used)
<1> DEFINE at == [k \in 1..1 |-> 1]
<1>1. Len(<<>>) = 0
  OBVIOUS
<1>2. Placed(at, name, labels, used)
  BY <1>1 DEF Placed
<1> QED
  BY <1>2

\* A label is put behind the others.
LEMMA OneMoreLabel ==
  ASSUME TypeOK, Short, NEW at, Placed(at, name, labels, used), AddLabel
  PROVE  \E at2 : Placed(at2, name', labels', used')
<1> DEFINE a == Len(name)
           b == Len(name')
           l == Len(labels[used + 1])
           at2 == [k \in 1..(used + 2) |-> IF k = used + 2 THEN b + 1 ELSE at[k]]
<1>1. UNCHANGED labels /\ used' = used + 1 /\ Label = labels[used + 1]
  BY DEF AddLabel, Label
<1>2. /\ labels \in Seq(Seq(Byte)) /\ used \in Nat /\ name \in Seq(Byte)
      /\ used + 1 \in 1..Len(labels) /\ Label \in Seq(Byte)
      /\ b = a + 1 + Len(Label)
      /\ \A i \in 1..a : name'[i] = name[i]
      /\ name'[a + 1] = Len(Label) % 256
  BY Parts, NameGrows, Zenon
<1>3. a \in Nat /\ l \in Nat /\ l <= 255 /\ b = a + 1 + l
  BY <1>1, <1>2 DEF Short
<1>4. name'[a + 1] = l
  <2>1. l % 256 = l
    <3> HIDE DEF l
    <3> QED
      BY <1>3
  <2> QED
    BY <1>1, <1>2, <2>1
<1>5. /\ at \in [1..(used + 1) -> Nat] /\ at[1] = 1 /\ at[used + 1] = a + 1
      /\ \A k \in 1..used : /\ at[k] \in 1..a
                            /\ name[at[k]] = Len(labels[k])
                            /\ at[k + 1] = at[k] + Len(labels[k]) + 1
  BY DEF Placed
<1> HIDE DEF a, b, l
<1>6. b \in Nat /\ used + 1 \in 1..(used + 2) /\ used + 2 \in 1..(used + 2) /\ 1 \in 1..(used + 2)
  BY <1>2, <1>3
<1>7. \A k \in 1..(used + 1) : at2[k] = at[k]
  BY <1>2
<1>8. at2[used + 2] = b + 1
  BY <1>6
<1>9. at2 \in [1..(used + 2) -> Nat]
  <2> SUFFICES ASSUME NEW k \in 1..(used + 2), k # used + 2 PROVE at[k] \in Nat
    BY <1>6
  <2>1. k \in 1..(used + 1)
    BY <1>2
  <2> QED
    BY <1>5, <2>1
<1> HIDE DEF at2
<1>10. ASSUME NEW k \in 1..(used + 1)
       PROVE  /\ at2[k] \in 1..b
              /\ name'[at2[k]] = Len(labels[k])
              /\ at2[k + 1] = at2[k] + Len(labels[k]) + 1
  <2>1. CASE k = used + 1
    <3>1. at2[k] = a + 1 /\ a + 1 \in 1..b
      BY <1>3, <1>5, <1>7, <2>1
    <3>2. at2[k + 1] = b + 1 /\ b + 1 = a + 1 + l + 1
      <4>1. k + 1 = used + 2
        BY <1>2, <2>1
      <4> QED
        BY <1>3, <1>8, <4>1
    <3> QED
      BY <1>4, <2>1, <3>1, <3>2 DEF l
  <2>2. CASE k # used + 1
    <3>1. k \in 1..used /\ k + 1 \in 1..(used + 1)
      BY <1>2, <2>2
    <3>2. at2[k] = at[k] /\ at2[k + 1] = at[k + 1] /\ at[k] \in 1..a /\ name[at[k]] = Len(labels[k])
      BY <1>5, <1>7, <3>1
    <3>3. name'[at[k]] = name[at[k]]
      <4>1. \A i \in 1..a : name'[i] = name[i]
        BY <1>2
      <4> QED
        BY <3>2, <4>1
    <3>4. at[k] \in 1..b
      BY <1>3, <3>2
    <3> QED
      BY <1>5, <3>1, <3>2, <3>3, <3>4
  <2> QED
    BY <2>1, <2>2
<1>11. used' + 1 = used + 2 /\ 1 \in 1..(used + 1)
  BY <1>1, <1>2
<1>12. at2[1] = 1
  BY <1>5, <1>7, <1>11
<1>13. Placed(at2, name', labels', used')
  BY <1>1, <1>8, <1>9, <1>10, <1>11, <1>12 DEF Placed, b
<1> QED
  BY <1>13

\* Each step of the reader leaves the labels of the name in their places.
LEMMA NameInductive ==
  TypeOK /\ Whole /\ Short /\ NameInv /\ [from_bytes]_vars => NameInv'
<1> SUFFICES ASSUME TypeOK, Whole, Short, NameInv, [from_bytes]_vars PROVE NameInv'
  OBVIOUS
<1>0. bytes \in Seq(Byte) /\ labels \in Seq(Seq(Byte)) /\ used \in Nat /\ Len(labels) \in Nat
      /\ cursor \in Nat
  <2>1. bytes \in Seq(Byte) /\ labels \in Seq(Seq(Byte)) /\ used \in Nat /\ cursor \in Nat
    BY Parts, Zenon
  <2> QED
    BY <2>1
<1>1. CASE ReadLabel \/ FollowPointer
  <2>1. Looping /\ UNCHANGED <<question, name, used>>
    BY <1>1, LabelIsAdded
  <2>2. question = <<>> /\ used = 0 /\ name = <<>>
    BY <2>1 DEF Looping, Naming, Whole, NameInv
  <2>3. \E at : Placed(at, name', labels', used')
    <3> DEFINE at == [k \in 1..1 |-> 1]
    <3>1. Len(<<>>) = 0
      OBVIOUS
    <3>2. Placed(at, name', labels', used')
      BY <2>1, <2>2, <3>1 DEF Placed
    <3> QED
      BY <3>2
  <2>4. (~pointed => \A k \in 1..Len(labels) : Len(labels[k]) < 64)'
    <3>1. CASE FollowPointer
      BY <3>1 DEF FollowPointer
    <3>2. CASE ReadLabel
      <4> SUFFICES ASSUME ~pointed, NEW k \in 1..Len(labels') PROVE Len(labels'[k]) < 64
        BY <3>2 DEF ReadLabel
      <4> DEFINE l == label_at(cursor)
                 m == labels
      <4>1. labels' = Append(m, l) /\ LabelFits(cursor) /\ IsLength(At(cursor))
        BY <3>2 DEF ReadLabel
      <4>2. l \in Seq(Byte) /\ Len(l) = At(cursor)
        BY <1>0, <4>1, LabelBytes
      <4>3. Len(l) < 64
        BY <4>1, <4>2 DEF IsLength
      <4>4. \A i \in 1..Len(m) : Len(m[i]) < 64
        BY DEF NameInv
      <4>5. m \in Seq(Seq(Byte))
        BY <1>0
      <4> HIDE DEF l, m
      <4>6. /\ Len(labels') = Len(m) + 1 /\ labels'[Len(m) + 1] = l
            /\ \A i \in 1..Len(m) : labels'[i] = m[i]
        BY <4>1, <4>2, <4>5
      <4>7. Len(m) \in Nat
        BY <4>5
      <4>8. k = Len(m) + 1 \/ k \in 1..Len(m)
        BY <4>6, <4>7
      <4> QED
        BY <4>3, <4>4, <4>6, <4>8
    <3> QED
      BY <1>1, <3>1, <3>2
  <2> QED
    BY <2>1, <2>2, <2>3, <2>4 DEF NameInv
<1>2. CASE Gives
  <2>1. UNCHANGED <<labels, pointed, question, name, used>>
    BY <1>2, GivesOutcome
  <2> QED
    BY <2>1 DEF NameInv, Placed
<1>3. CASE ReadTail
  <2>1. UNCHANGED <<labels, pointed, name, used>> /\ question' # <<>>
    BY <1>3 DEF ReadTail
  <2> QED
    BY <2>1 DEF NameInv, Placed
<1>4. CASE AddLabel
  <2>1. UNCHANGED <<labels, pointed, question>> /\ question # <<>>
    BY <1>4 DEF AddLabel, Joining
  <2>2. PICK at : Placed(at, name, labels, used)
    BY DEF NameInv
  <2>3. \E at2 : Placed(at2, name', labels', used')
    BY <1>4, <2>2, OneMoreLabel
  <2> QED
    BY <2>1, <2>3 DEF NameInv
<1>5. CASE Finish
  BY <1>5 DEF Finish, Ends, NameInv, Placed
<1>6. CASE UNCHANGED vars
  BY <1>6 DEF vars, NameInv, Placed
<1> QED
  BY <1>1, <1>2, <1>3, <1>4, <1>5, <1>6, Steps

\* What is taken is a name, and it can be read if no label has 64 bytes or
\* more, and only then.
LEMMA NameOfLabels ==
  ASSUME TypeOK, Whole, NameInv, outcome = "Ok"
  PROVE  /\ IsName(name)
         /\ IsReadable(name) <=> \A k \in 1..Len(labels) : Len(labels[k]) < 64
<1> DEFINE m == Len(labels)
           c == Len(name)
<1>1. labels \in Seq(Seq(Byte)) /\ name \in Seq(Byte)
  BY Parts, Zenon
<1>2. used = m /\ labels # <<>> /\ labels[m] = <<>> /\ \A k \in 1..(m - 1) : labels[k] # <<>>
  BY DEF Whole
<1>3. m \in Nat /\ m >= 1 /\ c \in Nat
  BY <1>1, <1>2
<1>4. \A k \in 1..m : Len(labels[k]) \in Nat /\ (Len(labels[k]) = 0 <=> labels[k] = <<>>)
  <2> SUFFICES ASSUME NEW k \in 1..m
               PROVE  Len(labels[k]) \in Nat /\ (Len(labels[k]) = 0 <=> labels[k] = <<>>)
    OBVIOUS
  <2>1. labels[k] \in Seq(Byte)
    BY <1>1
  <2> QED
    BY <2>1
<1>5. PICK at : Placed(at, name, labels, used)
  BY DEF NameInv
<1> HIDE DEF m, c
<1>6. /\ at[1] = 1
      /\ at[m + 1] = c + 1
      /\ \A k \in 1..m : /\ at[k] \in 1..c
                         /\ name[at[k]] = Len(labels[k])
                         /\ at[k + 1] = at[k] + Len(labels[k]) + 1
  BY <1>2, <1>5 DEF Placed, c
<1>7. \A k \in 1..m : labels[k] = <<>> <=> k = m
  <2> SUFFICES ASSUME NEW k \in 1..m, k # m PROVE labels[k] # <<>>
    BY <1>2
  <2>1. k \in 1..(m - 1)
    BY <1>3
  <2> QED
    BY <1>2, <2>1
<1> DEFINE D == {at[k] : k \in 1..m}
<1>8. D \in SUBSET (1..c)
  BY <1>6
<1>9. Labelled(name, D)
  <2>1. 1 \in D
    <3>1. 1 \in 1..m
      BY <1>3
    <3> QED
      BY <1>6, <3>1
  <2>2. ASSUME NEW k \in 1..m
        PROVE  IF name[at[k]] = 0 THEN at[k] = c ELSE at[k] + name[at[k]] + 1 \in D
    <3>1. at[k] \in Nat /\ name[at[k]] = Len(labels[k]) /\ at[k + 1] = at[k] + Len(labels[k]) + 1
      BY <1>3, <1>6
    <3>2. CASE k = m
      <4>1. name[at[k]] = 0
        BY <1>4, <1>7, <3>1, <3>2
      <4>2. at[k] + 0 + 1 = c + 1
        BY <1>6, <3>1, <3>2, <4>1
      <4> QED
        BY <1>3, <3>1, <4>1, <4>2
    <3>3. CASE k # m
      <4>1. name[at[k]] # 0
        BY <1>4, <1>7, <3>1, <3>3
      <4>2. k + 1 \in 1..m
        BY <1>3, <3>3
      <4> QED
        BY <3>1, <4>1, <4>2
    <3> QED
      BY <3>2, <3>3
  <2> QED
    BY <2>1, <2>2 DEF Labelled, c
<1>10. IsName(name)
  BY <1>1, <1>8, <1>9 DEF IsName, c
<1>11. ASSUME \A k \in 1..m : Len(labels[k]) < 64
       PROVE  IsReadable(name)
  <2>1. \A p \in D : name[p] < 64
    BY <1>6, <1>11
  <2> HIDE DEF D
  <2> QED
    BY <1>1, <1>8, <1>9, <2>1 DEF IsReadable, c
<1>12. ASSUME IsReadable(name)
       PROVE  \A k \in 1..m : Len(labels[k]) < 64
  <2>1. PICK E \in SUBSET (1..c) : Labelled(name, E) /\ \A p \in E : name[p] < 64
    BY <1>12 DEF IsReadable, c
  <2> DEFINE S == {k \in Nat : k + 1 <= m => at[k + 1] \in E}
  <2>2. 0 \in S
    BY <1>6, <2>1 DEF Labelled
  <2>3. ASSUME NEW k \in Nat, k \in S
        PROVE  k + 1 \in S
    <3> SUFFICES ASSUME (k + 1) + 1 <= m PROVE at[(k + 1) + 1] \in E
      OBVIOUS
    <3> DEFINE j == k + 1
    <3>1. j \in 1..m /\ j # m /\ at[j] \in E
      BY <1>3, <2>3
    <3> HIDE DEF j
    <3>2. name[at[j]] # 0 /\ at[j + 1] = at[j] + name[at[j]] + 1
      BY <1>4, <1>6, <1>7, <3>1
    <3>3. at[j + 1] \in E
      BY <2>1, <3>1, <3>2 DEF Labelled
    <3> QED
      BY <3>3 DEF j
  <2> HIDE DEF S
  <2>4. \A k \in Nat : k \in S
    BY <2>2, <2>3, NatsInduct
  <2> SUFFICES ASSUME NEW k \in 1..m PROVE Len(labels[k]) < 64
    OBVIOUS
  <2>5. k - 1 \in Nat /\ (k - 1) + 1 = k /\ k <= m
    BY <1>3
  <2>6. at[k] \in E
    BY <2>4, <2>5 DEF S
  <2> QED
    BY <1>6, <2>1, <2>6
<1> QED
  BY <1>10, <1>11, <1>12 DEF m

\* A name without its first label has the labels behind it, if that is not the
\* last.
LEMMA ParentLabels ==
  ASSUME NEW n \in Seq(Byte), NEW D \in SUBSET (1..Len(n)), Labelled(n, D), n[1] # 0
  PROVE  /\ parent(n) \in Seq(Byte)
         /\ Len(parent(n)) <= Len(n)
         /\ \E E \in SUBSET (1..Len(parent(n))) :
              /\ Labelled(parent(n), E)
              /\ \A i \in E : \E d \in D : parent(n)[i] = n[d]
<1>0. n \in Seq(Byte)
  OBVIOUS
<1>1. D \in SUBSET (1..Len(n)) /\ Labelled(n, D)
  OBVIOUS
<1> DEFINE a == Len(n)
           c == n[1] + 1
           s == parent(n)
<1>2. a \in Nat /\ 1 \in 1..a /\ n[1] \in Byte
  BY <1>0, <1>1 DEF Labelled
<1>3. n[1] \in Nat /\ c \in Nat /\ c + 1 = 1 + n[1] + 1
  BY <1>2, Bytes
<1>4. c + 1 \in D
  BY <1>1, <1>3 DEF Labelled
<1>5. c + 1 \in 1..a
  BY <1>1, <1>4
<1>6. s = SubSeq(n, c + 1, a)
  <2>1. c + 1 = n[1] + 2
    BY <1>3
  <2> HIDE DEF c
  <2> QED
    BY <2>1 DEF parent
<1> HIDE DEF s
<1> DEFINE h == a - c
<1>7. s \in Seq(Byte) /\ Len(s) = h /\ \A i \in 1..h : s[i] = n[c + i]
  <2>1. SubSeq(n, c + 1, a) \in Seq(Byte)
    BY <1>0, <1>5
  <2> HIDE DEF c
  <2>2. Len(SubSeq(n, c + 1, a)) = h
    BY <1>0, <1>2, <1>3, <1>5
  <2>3. \A i \in 1..h : SubSeq(n, c + 1, a)[i] = n[c + i]
    BY <1>0, <1>2, <1>3, <1>5
  <2> QED
    BY <1>6, <2>1, <2>2, <2>3
<1>8. h \in Nat /\ h >= 1 /\ h <= a
  BY <1>2, <1>3, <1>5
<1> HIDE DEF c, h
<1> DEFINE E == {i \in 1..h : c + i \in D}
<1>9. 1 \in E
  BY <1>4, <1>8
<1>10. \A i \in E : IF s[i] = 0 THEN i = h ELSE i + s[i] + 1 \in E
  <2> SUFFICES ASSUME NEW i \in 1..h, c + i \in D
               PROVE  IF s[i] = 0 THEN i = h ELSE i + s[i] + 1 \in E
    OBVIOUS
  <2>1. s[i] = n[c + i]
    BY <1>7
  <2>2. IF n[c + i] = 0 THEN c + i = a ELSE c + i + n[c + i] + 1 \in D
    BY <1>1 DEF Labelled
  <2>3. CASE s[i] = 0
    BY <1>2, <1>3, <2>1, <2>2, <2>3 DEF h
  <2>4. CASE s[i] # 0
    <3> DEFINE j == i + s[i] + 1
    <3>1. c + i + s[i] + 1 \in D
      BY <2>1, <2>2, <2>4
    <3>2. s[i] \in Nat
      <4>1. s[i] \in Byte
        BY <1>7
      <4> QED
        BY <4>1, Bytes
    <3>3. c + j = c + i + s[i] + 1 /\ j \in Nat /\ j >= 1
      <4> DEFINE x == s[i]
      <4>1. c \in Nat /\ i \in Nat /\ i >= 1 /\ x \in Nat
        BY <1>3, <1>8, <3>2
      <4> HIDE DEF x
      <4>2. c + (i + x + 1) = c + i + x + 1 /\ i + x + 1 \in Nat /\ i + x + 1 >= 1
        BY <4>1
      <4> QED
        BY <4>2 DEF x
    <3> HIDE DEF j
    <3>4. c + j \in D /\ c + j \in 1..a
      BY <1>1, <3>1, <3>3
    <3>5. j \in 1..h
      BY <1>2, <1>3, <1>8, <3>3, <3>4 DEF h
    <3>6. j \in E
      BY <3>4, <3>5
    <3> QED
      BY <2>4, <3>6 DEF j
  <2> QED
    BY <2>3, <2>4
<1>11. E \in SUBSET (1..h)
  OBVIOUS
<1> HIDE DEF E
<1>12. Labelled(s, E)
  BY <1>7, <1>9, <1>10 DEF Labelled
<1>13. \A i \in E : \E d \in D : s[i] = n[d]
  BY <1>7 DEF E
<1>14. E \in SUBSET (1..Len(s)) /\ Len(s) <= Len(n)
  BY <1>7, <1>8, <1>11
<1> QED
  BY <1>7, <1>12, <1>13, <1>14 DEF s

\* It is a name.
LEMMA ParentName ==
  ASSUME NEW n, IsName(n), n[1] # 0
  PROVE  IsName(parent(n)) /\ Len(parent(n)) <= Len(n)
<1>1. PICK D \in SUBSET (1..Len(n)) : Labelled(n, D)
  BY DEF IsName
<1> QED
  BY <1>1, ParentLabels DEF IsName

\* And it can be read if the name can.
LEMMA ParentIsReadable ==
  ASSUME NEW n, IsReadable(n), n[1] # 0
  PROVE  IsReadable(parent(n))
<1>1. PICK D \in SUBSET (1..Len(n)) : Labelled(n, D) /\ \A d \in D : n[d] < 64
  BY DEF IsReadable
<1>2. n \in Seq(Byte)
  BY DEF IsReadable
<1>3. parent(n) \in Seq(Byte)
  BY <1>1, <1>2, ParentLabels
<1>4. PICK E \in SUBSET (1..Len(parent(n))) :
         Labelled(parent(n), E) /\ \A i \in E : \E d \in D : parent(n)[i] = n[d]
  BY <1>1, <1>2, ParentLabels
<1>5. \A i \in E : parent(n)[i] < 64
  BY <1>1, <1>4
<1> QED
  BY <1>3, <1>4, <1>5 DEF IsReadable

-----------------------------------------------------------------------------
(* The answers, and the bytes that are sent.                               *)

\* The data of an answer below the name n, by its type: a value, a name, two
\* names and numbers.
IsData(type, v, n) ==
  /\ type = QueryType.TXT => \E value \in Values : v = u8(Len(value)) \o value
  /\ type = QueryType.NS => n[1] # 0 /\ v = parent(n)
  /\ type = QueryType.SOA =>
       /\ Len(v) = Len(n) + Len(n) + 20
       /\ Holds(v, 1, n)
       /\ Holds(v, 1 + Len(n), n)

WireInv ==
  /\ Len(response.answers) <= MAX_U16
  /\ \A k \in 1..Len(response.answers) :
       /\ IsAnswer(response.answers[k])
       /\ IsData(response.answers[k].query_type, response.answers[k].value, response.answers[k].name)
  /\ wire = IF Sent THEN to_bytes(response) ELSE <<>>

MessageInv == ReaderInv /\ NameInv /\ ResponseInv /\ WireInv

\* Any value that is heard of goes into an answer, behind its length byte.
LEMMA StringBytes ==
  ASSUME NEW v \in Values
  PROVE  /\ v \in Seq(Byte) /\ Len(v) \in Nat
         /\ u8(Len(v)) \o v \in Seq(Byte)
         /\ Len(u8(Len(v)) \o v) = 1 + Len(v)
         /\ Len(u8(Len(v)) \o v) <= MAX_U16
         /\ (u8(Len(v)) \o v)[1] = Len(v) % 256
<1>1. v \in Seq(Byte) /\ Len(v) < 4096
  BY ResponseAssumption
<1> DEFINE l == Len(v)
           u == u8(l)
<1>2. l \in Nat /\ l < 4096
  BY <1>1
<1> HIDE DEF l
<1>3. l % 256 \in Byte
  BY <1>2, Bytes
<1>4. u \in Seq(Byte) /\ Len(u) = 1 /\ u[1] = l % 256
  BY <1>3 DEF u8
<1> HIDE DEF u
<1>5. u \o v \in Seq(Byte) /\ Len(u \o v) = Len(u) + Len(v)
  <2>1. u \in Seq(Byte) /\ v \in Seq(Byte)
    BY <1>1, <1>4
  <2> QED
    BY <2>1, BothBytes
<1>6. Len(u \o v) = 1 + l
  BY <1>4, <1>5 DEF l
<1>7. (u \o v)[1] = u[1]
  <2>3. u \in Seq(Byte) /\ v \in Seq(Byte)
    BY <1>1, <1>4
  <2>1. \A i \in 1..Len(u) : (u \o v)[i] = u[i]
    BY <2>3
  <2>2. 1 \in 1..Len(u)
    BY <1>4
  <2> QED
    BY <2>1, <2>2
<1>8. 1 + l <= MAX_U16
  BY <1>2 DEF MAX_U16
<1> QED
  BY <1>1, <1>2, <1>4, <1>5, <1>6, <1>7, <1>8 DEF l, u

\* The numbers of the types.
LEMMA Types ==
  /\ QueryType.A = 1 /\ QueryType.NS = 2 /\ QueryType.SOA = 6 /\ QueryType.TXT = 16
  /\ QueryType.AAAA = 28
  /\ QueryType["A"] = 1 /\ QueryType["NS"] = 2 /\ QueryType["SOA"] = 6 /\ QueryType["TXT"] = 16
  /\ QueryType["AAAA"] = 28
BY DEF QueryType

\* Lengths up to 1000 fit in 16 bits.
LEMMA SmallWords == \A n \in Nat : n <= 1000 => n \in 0..MAX_U16
<1>1. 1000 <= MAX_U16
  BY DEF MAX_U16
<1> QED
  BY <1>1, Words, MaxU16

\* The question that is answered, as it was read.
LEMMA QuestionIs ==
  ASSUME ReaderInv, NameInv, outcome = "Ok"
  PROVE  /\ IsQuestion(Query)
         /\ Query.query_name = name /\ IsName(name) /\ Len(name) <= 255
         /\ IsReadable(name) <=> \A k \in 1..Len(labels) : Len(labels[k]) < 64
         /\ Query.is_acme_challenge = is_acme_challenge
<1>1. question # <<>> /\ used = Len(labels)
  BY DEF ReaderInv, Whole
<1>2. IsName(name) /\ (IsReadable(name) <=> \A k \in 1..Len(labels) : Len(labels[k]) < 64)
  BY NameOfLabels DEF ReaderInv
<1>3. TypeOK
  BY DEF ReaderInv
<1>4. question \in (0..MAX_U16) \X (0..MAX_U16)
  <2>1. question \in {<<>>} \cup (0..MAX_U16) \X (0..MAX_U16)
    BY <1>3, Zenon DEF TypeOK
  <2> QED
    BY <1>1, <2>1
<1>5. question[1] \in 0..MAX_U16 /\ question[2] \in 0..MAX_U16
  BY <1>4
<1>6. /\ Query.query_name = name /\ Query.query_type = question[1] /\ Query.query_class = question[2]
      /\ Query.is_acme_challenge = is_acme_challenge
  BY DEF Query
<1>7. IsQuestion(Query)
  BY <1>2, <1>5, <1>6 DEF IsQuestion
<1>8. Len(name) <= 255
  <2>1. MAX_NAME \in Nat /\ MAX_NAME <= 255
    BY QueryAssumption, Bytes, Zenon
  <2>2. Len(name) <= MAX_NAME /\ name \in Seq(Byte)
    BY <1>3, Parts, Zenon
  <2> QED
    BY <2>1, <2>2
<1> QED
  BY <1>2, <1>6, <1>7, <1>8

\* What is sent is what to_bytes can write.
LEMMA Writable ==
  ASSUME MessageInv
  PROVE  IsWritable(response)
<1>1. ReaderInv /\ NameInv /\ ResponseInv /\ WireInv
  BY DEF MessageInv
<1>2. bytes \in Seq(Byte) /\ LENGTH <= Len(bytes)
  <2>1. TypeOK
    BY <1>1 DEF ReaderInv
  <2>2. bytes \in Seq(Byte) /\ cursor \in LENGTH..Len(bytes)
    BY <2>1, Parts, Zenon
  <2> QED
    BY <2>2 DEF LENGTH
<1>3. response.transaction_id \in 0..MAX_U16
  <2>1. Indexes(0) /\ 0 \in Nat
    BY <1>2 DEF Indexes, LENGTH
  <2>2. u16_at(bytes, 0) \in 0..MAX_U16
    BY <1>2, <2>1, Numbers
  <2> QED
    BY <1>1, <2>2 DEF ResponseInv, Responds, transaction_id
<1>4. response.recursion_desired \in {0, 1}
  <2>1. bytes[3] \in Byte
    BY <1>2 DEF LENGTH
  <2>2. bytes[3] \in Nat
    BY <2>1, Bytes
  <2>3. bytes[3] % 2 \in {0, 1}
    BY <2>2
  <2> QED
    BY <1>1, <2>3 DEF ResponseInv, Responds, recursion_desired
<1>5. response.query = <<>> \/ \E q : IsQuestion(q) /\ response.query = <<q>>
  <2> SUFFICES ASSUME response.query # <<>> PROVE IsQuestion(Query) /\ response.query = <<Query>>
    OBVIOUS
  <2>1. outcome = "Ok" /\ response.query = <<Query>>
    BY <1>1 DEF ResponseInv, Responds
  <2> QED
    BY <1>1, <2>1, QuestionIs
<1> QED
  BY <1>1, <1>3, <1>4, <1>5 DEF IsWritable, ResponseInv, Responds, WireInv

\* An answer that is added is one that the reader of responses understands.
LEMMA AnswerIsKept ==
  ASSUME MessageInv, NEW type \in DOMAIN QueryType, NEW value, AddAnswer(type, value),
         value \in Seq(Byte), Len(value) <= MAX_U16,
         IsData(QueryType[type], value, Question.query_name),
         Len(response.answers) < MAX_U16
  PROVE  WireInv'
<1> DEFINE x == Answer(Question.query_name, QueryType[type], value)
           a == response.answers
           b == Append(a, x)
<1>1. ReaderInv /\ NameInv /\ ResponseInv /\ WireInv
  BY DEF MessageInv
<1>2. /\ state = "question" /\ UNCHANGED <<state, wire>>
      /\ response' = [response EXCEPT !.answers = b]
  BY DEF AddAnswer
<1>3. response'.answers = b
  <2> DEFINE c == b
  <2>1. response' = [response EXCEPT !.answers = c] /\ IsResponse(response)
    BY <1>1, <1>2 DEF ResponseInv
  <2> HIDE DEF c
  <2>2. response'.answers = c
    BY <2>1, AnswersAreSet
  <2> QED
    BY <2>2 DEF c
<1>4. outcome = "Ok" /\ Question = Query
  <2>1. response.query # <<>>
    BY <1>1, <1>2 DEF ResponseInv
  <2>2. outcome = "Ok" /\ response.query = <<Query>>
    BY <1>1, <2>1 DEF ResponseInv, Responds
  <2> QED
    BY <2>2 DEF Question
<1>5. IsName(Question.query_name)
  BY <1>1, <1>4, QuestionIs
<1>6. QueryType[type] \in 0..MAX_U16
  <2>1. type \in {"A", "NS", "SOA", "TXT", "AAAA"}
    BY DEF QueryType
  <2>2. QueryType[type] \in Nat /\ QueryType[type] <= 1000
    BY <2>1, Types
  <2> QED
    BY <2>2, SmallWords
<1>7. x.name = Question.query_name /\ x.query_type = QueryType[type] /\ x.value = value
  BY DEF Answer
<1>8. x = Answer(x.name, x.query_type, x.value)
  BY <1>7
<1> HIDE DEF x
<1>9. IsAnswer(x) /\ IsData(x.query_type, x.value, x.name)
  BY <1>5, <1>6, <1>7, <1>8 DEF IsAnswer
<1>10. PICK S : a \in Seq(S)
  BY <1>1 DEF ResponseInv, IsSequence
<1> DEFINE n == Len(a)
<1>11. n \in Nat /\ n < MAX_U16
  BY <1>10
<1> HIDE DEF a
<1>12. b \in Seq(S \cup {x}) /\ Len(b) = n + 1 /\ b[n + 1] = x /\ \A k \in 1..n : b[k] = a[k]
  <2>1. a \in Seq(S \cup {x})
    BY <1>10
  <2> QED
    BY <2>1
<1>13. \A k \in 1..n : IsAnswer(a[k]) /\ IsData(a[k].query_type, a[k].value, a[k].name)
  BY <1>1 DEF WireInv, a
<1> HIDE DEF b, n
<1>14. \A k \in 1..(n + 1) : IsAnswer(b[k]) /\ IsData(b[k].query_type, b[k].value, b[k].name)
  <2> SUFFICES ASSUME NEW k \in 1..(n + 1) PROVE IsAnswer(b[k]) /\ IsData(b[k].query_type, b[k].value, b[k].name)
    OBVIOUS
  <2>1. CASE k = n + 1
    BY <1>9, <1>12, <2>1
  <2>2. CASE k # n + 1
    <3>1. k \in 1..n
      BY <1>11, <2>2
    <3> QED
      BY <1>12, <1>13, <3>1
  <2> QED
    BY <2>1, <2>2
<1>15. Len(b) <= MAX_U16
  BY <1>11, <1>12, MaxU16
<1>16. ~Sent' /\ wire' = <<>>
  BY <1>1, <1>2 DEF WireInv, Sent
<1> QED
  BY <1>3, <1>12, <1>14, <1>15, <1>16 DEF WireInv

\* A response that is sent is written as it is.
LEMMA SentIsWritten ==
  ASSUME WireInv, ResponseInv, NEW rcode, Send(rcode)
  PROVE  WireInv'
<1>1. /\ response' = [response EXCEPT !.rcode = rcode]
      /\ state' = "sent" /\ wire' = to_bytes(response')
  BY DEF Send
<1>2. response'.answers = response.answers
  BY <1>1, CodeIsSet DEF ResponseInv
<1>3. Sent' /\ wire' = to_bytes(response)'
  BY <1>1 DEF Sent
<1> QED
  BY <1>2, <1>3 DEF WireInv

SoaValue(n) ==
  n \o n \o u32(1) \o u32(10800) \o u32(3600) \o u32(604800) \o u32(30)

\* The data of an SOA answer: the name twice, and twenty bytes.
LEMMA SoaBytes ==
  ASSUME NEW n, IsName(n), Len(n) <= 255
  PROVE  /\ SoaValue(n) \in Seq(Byte)
         /\ Len(SoaValue(n)) = Len(n) + Len(n) + 20
         /\ Len(SoaValue(n)) <= MAX_U16
         /\ Holds(SoaValue(n), 1, n)
         /\ Holds(SoaValue(n), 1 + Len(n), n)
<1> DEFINE a == u32(1)
           b == u32(10800)
           c == u32(3600)
           d == u32(604800)
           e == u32(30)
           c2 == n \o n
           c3 == c2 \o a
           c4 == c3 \o b
           c5 == c4 \o c
           c6 == c5 \o d
           c7 == c6 \o e
<1>1. n \in Seq(Byte)
  BY DEF IsName
<1>2. a \in Seq(Byte) /\ Len(a) = 4
  BY LongBytes
<1>3. b \in Seq(Byte) /\ Len(b) = 4
  BY LongBytes
<1>4. c \in Seq(Byte) /\ Len(c) = 4
  BY LongBytes
<1>5. d \in Seq(Byte) /\ Len(d) = 4
  BY LongBytes
<1>6. e \in Seq(Byte) /\ Len(e) = 4
  BY LongBytes
<1>7. SoaValue(n) = c7
  BY DEF SoaValue
<1> DEFINE l == Len(n)
<1>8. l \in Nat /\ l <= 255
  BY <1>1
<1> HIDE DEF a, b, c, d, e
<1>9. c2 \in Seq(Byte) /\ Len(c2) = l + l
  BY <1>1, BothBytes
<1> HIDE DEF c2, l
<1>10. c3 \in Seq(Byte) /\ Len(c3) = l + l + 4
  <2>1. c3 \in Seq(Byte) /\ Len(c3) = Len(c2) + Len(a)
    BY <1>2, <1>9, BothBytes
  <2> QED
    BY <1>2, <1>8, <1>9, <2>1
<1> HIDE DEF c3
<1>11. c4 \in Seq(Byte) /\ Len(c4) = l + l + 8
  <2>1. c4 \in Seq(Byte) /\ Len(c4) = Len(c3) + Len(b)
    BY <1>3, <1>10, BothBytes
  <2> QED
    BY <1>3, <1>8, <1>10, <2>1
<1> HIDE DEF c4
<1>12. c5 \in Seq(Byte) /\ Len(c5) = l + l + 12
  <2>1. c5 \in Seq(Byte) /\ Len(c5) = Len(c4) + Len(c)
    BY <1>4, <1>11, BothBytes
  <2> QED
    BY <1>4, <1>8, <1>11, <2>1
<1> HIDE DEF c5
<1>13. c6 \in Seq(Byte) /\ Len(c6) = l + l + 16
  <2>1. c6 \in Seq(Byte) /\ Len(c6) = Len(c5) + Len(d)
    BY <1>5, <1>12, BothBytes
  <2> QED
    BY <1>5, <1>8, <1>12, <2>1
<1> HIDE DEF c6
<1>14. c7 \in Seq(Byte) /\ Len(c7) = l + l + 20
  <2>1. c7 \in Seq(Byte) /\ Len(c7) = Len(c6) + Len(e)
    BY <1>6, <1>13, BothBytes
  <2> QED
    BY <1>6, <1>8, <1>13, <2>1
<1> DEFINE w == c7
<1>15. w \in Seq(Byte) /\ 1 \in Position /\ Holds(w, 1, c7)
  <2>1. 1 \in Position
    BY DEF Position
  <2>2. Holds(w, 1, w)
    BY <1>14, HoldsItself
  <2> QED
    BY <1>14, <2>1, <2>2
<1> HIDE DEF w
<1>16. Holds(w, 1, c6)
  BY <1>6, <1>13, <1>15, Behind
<1>17. Holds(w, 1, c5)
  BY <1>5, <1>12, <1>15, <1>16, Behind DEF c6
<1>18. Holds(w, 1, c4)
  BY <1>4, <1>11, <1>15, <1>17, Behind DEF c5
<1>19. Holds(w, 1, c3)
  BY <1>3, <1>10, <1>15, <1>18, Behind DEF c4
<1>20. Holds(w, 1, c2)
  BY <1>2, <1>9, <1>15, <1>19, Behind DEF c3
<1>21. Holds(w, 1, n) /\ Holds(w, 1 + Len(n), n)
  BY <1>1, <1>15, <1>20, Behind DEF c2
<1>22. l + l + 20 <= MAX_U16
  BY <1>8 DEF MAX_U16
<1>23. SoaValue(n) = w
  BY <1>7 DEF w
<1> HIDE DEF c7
<1> QED
  BY <1>7, <1>14, <1>21, <1>22, <1>23 DEF l

\* The addresses of the server as data.
LEMMA Addresses ==
  /\ V4 \in Seq(Byte) /\ Len(V4) <= MAX_U16
  /\ V6 \in Seq(Byte) /\ Len(V6) <= MAX_U16
<1>1. 0 <= MAX_U16 /\ 4 <= MAX_U16 /\ 16 <= MAX_U16
  BY DEF MAX_U16
<1>2. V4 \in Seq(Byte) /\ Len(V4) \in {0, 4} /\ V6 \in Seq(Byte) /\ Len(V6) \in {0, 16}
  BY ResponseAssumption
<1> QED
  BY <1>1, <1>2

\* Some answer is added, whichever it is.
LEMMA AnswersAreKept ==
  ASSUME MessageInv,
         add_txt_answer \/ add_ns_answer \/ add_soa_answer \/ add_a_answer \/ add_aaaa_answer
  PROVE  WireInv'
<1>1. ReaderInv /\ NameInv /\ ResponseInv /\ WireInv
  BY DEF MessageInv
<1>2. DOMAIN QueryType = {"A", "NS", "SOA", "TXT", "AAAA"}
  BY DEF QueryType
<1>3. ASSUME NEW type, NEW value, AddAnswer(type, value)
      PROVE  /\ IsName(Question.query_name)
             /\ Len(Question.query_name) <= 255
             /\ Question.query_name[1] # 0
  <2>1. state = "question" /\ Processes
    BY <1>3 DEF AddAnswer
  <2>2. response.query # <<>>
    BY <1>1, <2>1 DEF ResponseInv
  <2>3. outcome = "Ok" /\ response.query = <<Query>>
    BY <1>1, <2>2 DEF ResponseInv, Responds
  <2>4. Question = Query
    BY <2>3 DEF Question
  <2>5. IsName(name) /\ Len(name) <= 255 /\ Question.query_name = name /\ is_acme_challenge
    BY <1>1, <2>1, <2>3, <2>4, QuestionIs DEF Processes
  <2>6. name[1] = Len(ACME_CHALLENGE_LABEL)
    BY <1>1, <2>3, <2>5, AcmeHasParent DEF ParentIsName
  <2>7. Len(ACME_CHALLENGE_LABEL) # 0
    <3>1. ACME_CHALLENGE_LABEL \in Seq(Byte) \ {<<>>}
      BY QueryAssumption
    <3> QED
      BY <3>1
  <2> QED
    BY <2>5, <2>6, <2>7
<1>4. MAX_U16 \in Nat /\ 1 <= MAX_U16
  BY DEF MAX_U16
<1>5. Unanswered => Len(response.answers) < MAX_U16
  BY <1>4 DEF Unanswered
<1>6. CASE add_txt_answer
  <2>1. PICK v \in Values : AddAnswer("TXT", u8(Len(v)) \o v)
    BY <1>6 DEF add_txt_answer
  <2>2. Len(response.answers) < MAX_U16
    <3>1. MAX_ANSWERS \in Nat /\ MAX_ANSWERS <= MAX_U16 /\ Len(response.answers) < MAX_ANSWERS
      BY <1>6, ResponseAssumption, Words DEF add_txt_answer
    <3>2. Len(response.answers) \in Nat
      BY <1>1 DEF ResponseInv, IsSequence
    <3> QED
      BY <1>4, <3>1, <3>2
  <2> DEFINE value == u8(Len(v)) \o v
  <2>3. value \in Seq(Byte) /\ Len(value) <= MAX_U16
    BY StringBytes
  <2>4. IsData(QueryType["TXT"], value, Question.query_name)
    <3>1. QueryType["TXT"] = 16 /\ QueryType.NS = 2 /\ QueryType.SOA = 6
      BY Types
    <3>2. \E s \in Values : value = u8(Len(s)) \o s
      OBVIOUS
    <3> HIDE DEF value
    <3> QED
      BY <3>1, <3>2 DEF IsData
  <2>5. AddAnswer("TXT", value) /\ "TXT" \in DOMAIN QueryType
    BY <1>2, <2>1
  <2> HIDE DEF value
  <2> QED
    BY <2>2, <2>3, <2>4, <2>5, AnswerIsKept
<1>7. CASE add_ns_answer
  <2> DEFINE value == parent(Question.query_name)
  <2>1. Unanswered /\ AddAnswer("NS", value) /\ "NS" \in DOMAIN QueryType
    BY <1>2, <1>7 DEF add_ns_answer
  <2>2. IsName(value) /\ Len(value) <= Len(Question.query_name) /\ Len(Question.query_name) <= 255
    BY <1>3, <2>1, ParentName
  <2>3. value \in Seq(Byte) /\ Len(value) <= MAX_U16
    <3>1. value \in Seq(Byte) /\ Question.query_name \in Seq(Byte)
      BY <1>3, <2>1, <2>2 DEF IsName
    <3>2. 255 <= MAX_U16
      BY DEF MAX_U16
    <3> HIDE DEF value
    <3>3. Len(value) \in Nat /\ Len(Question.query_name) \in Nat
      BY <3>1
    <3> QED
      BY <1>4, <2>2, <3>1, <3>2, <3>3
  <2> HIDE DEF value
  <2>4. IsData(QueryType["NS"], value, Question.query_name)
    BY <1>3, <2>1, Types DEF IsData, value
  <2> QED
    BY <1>5, <2>1, <2>3, <2>4, AnswerIsKept
<1>8. CASE add_soa_answer
  <2> DEFINE n == Question.query_name
             value == SoaValue(n)
  <2>1. Unanswered /\ AddAnswer("SOA", value) /\ "SOA" \in DOMAIN QueryType
    BY <1>2, <1>8 DEF add_soa_answer, SoaValue
  <2>2. IsName(n) /\ Len(n) <= 255
    BY <1>3, <2>1
  <2> HIDE DEF n
  <2>3. /\ value \in Seq(Byte) /\ Len(value) = Len(n) + Len(n) + 20 /\ Len(value) <= MAX_U16
        /\ Holds(value, 1, n) /\ Holds(value, 1 + Len(n), n)
    BY <2>2, SoaBytes
  <2> HIDE DEF value
  <2>4. IsData(QueryType["SOA"], value, Question.query_name)
    BY <2>3, Types DEF IsData, n
  <2> QED
    BY <1>5, <2>1, <2>3, <2>4, AnswerIsKept
<1>9. CASE add_a_answer
  <2>1. Unanswered /\ AddAnswer("A", V4) /\ "A" \in DOMAIN QueryType
    BY <1>2, <1>9 DEF add_a_answer
  <2>2. IsData(QueryType["A"], V4, Question.query_name)
    BY Types DEF IsData
  <2> QED
    BY <1>5, <2>1, <2>2, Addresses, AnswerIsKept
<1>10. CASE add_aaaa_answer
  <2>1. Unanswered /\ AddAnswer("AAAA", V6) /\ "AAAA" \in DOMAIN QueryType
    BY <1>2, <1>10 DEF add_aaaa_answer
  <2>2. IsData(QueryType["AAAA"], V6, Question.query_name)
    BY Types DEF IsData
  <2> QED
    BY <1>5, <2>1, <2>2, Addresses, AnswerIsKept
<1> QED
  BY <1>6, <1>7, <1>8, <1>9, <1>10

\* Nothing has been sent at first.
LEMMA WireInit == RInit => WireInv
<1> SUFFICES ASSUME RInit PROVE WireInv
  OBVIOUS
<1>1. response.answers = <<>> /\ wire = <<>> /\ ~Sent
  BY NewIsResponse DEF RInit, Sent
<1>2. Len(<<>>) = 0 /\ 0 <= MAX_U16
  BY MaxU16
<1> QED
  BY <1>1, <1>2 DEF WireInv

\* Every step adds an answer that can be read, or sends what there is.
LEMMA WireInductive == MessageInv /\ [RNext]_rvars => WireInv'
<1> SUFFICES ASSUME MessageInv, [RNext]_rvars PROVE WireInv'
  OBVIOUS
<1>0. ReaderInv /\ NameInv /\ ResponseInv /\ WireInv
  BY DEF MessageInv
<1>1. CASE Receive
  <2>1. response'.answers = <<>> /\ wire' = <<>> /\ ~Sent'
    BY <1>0, <1>1, NewIsResponse DEF Receive, Sent, WireInv
  <2>2. Len(<<>>) = 0 /\ 0 <= MAX_U16
    BY MaxU16
  <2> QED
    BY <2>1, <2>2 DEF WireInv
<1>2. CASE Ignore
  <2>1. response' = response /\ wire' = <<>> /\ ~Sent'
    BY <1>0, <1>2 DEF Ignore, Sent, WireInv
  <2> QED
    BY <1>0, <2>1 DEF WireInv
<1>3. CASE RefuseOpcode \/ RejectCount \/ RejectQuestion \/ RefuseQuestion \/ Complete
  <2>1. \E rcode : Send(rcode)
    BY <1>3 DEF RefuseOpcode, RejectCount, RejectQuestion, RefuseQuestion, Complete
  <2> QED
    BY <1>0, <2>1, SentIsWritten
<1>4. CASE ReadQuestion
  <2>1. response' = response /\ wire' = wire /\ state' = state /\ state = "header"
    BY <1>4 DEF ReadQuestion, HasQuestion
  <2> QED
    BY <1>0, <2>1 DEF WireInv, Sent
<1>5. CASE TakeQuestion
  <2> DEFINE q == <<Query>>
  <2>1. /\ state = "header" /\ state' = "question" /\ wire' = wire
        /\ response' = [response EXCEPT !.query = q] /\ IsResponse(response)
    BY <1>0, <1>5 DEF TakeQuestion, HasQuestion, ResponseInv
  <2> HIDE DEF q
  <2>2. response'.answers = response.answers
    BY <2>1, QueryIsSet
  <2> QED
    BY <1>0, <2>1, <2>2 DEF WireInv, Sent
<1>6. CASE add_txt_answer \/ add_ns_answer \/ add_soa_answer \/ add_a_answer \/ add_aaaa_answer
  BY <1>6, AnswersAreKept
<1>7. CASE UNCHANGED rvars
  <2>1. response' = response /\ wire' = wire /\ state' = state
    BY <1>7 DEF rvars
  <2>2. UNCHANGED to_bytes(response)
    BY <2>1
  <2> QED
    BY <1>0, <2>1, <2>2 DEF WireInv, Sent
<1> QED
  BY <1>1, <1>2, <1>3, <1>4, <1>5, <1>6, <1>7, Zenon DEF RNext, Done

\* The inductive invariant always holds.
LEMMA MessageCorrect == RSpec => []MessageInv
<1>1. RInit => MessageInv
  <2> SUFFICES ASSUME RInit PROVE MessageInv
    OBVIOUS
  <2>1. Init
    BY DEF RInit
  <2>2. NameInv
    <3>1. used = 0 /\ name = <<>> /\ labels = <<>>
      BY <2>1 DEF Init
    <3>2. Len(labels) = 0
      BY <3>1
    <3> QED
      BY <3>1, <3>2, EmptyIsPlaced DEF NameInv
  <2> QED
    BY <2>1, <2>2, ReaderInit, ResponseInit, WireInit DEF MessageInv
<1>2. MessageInv /\ [RNext]_rvars => MessageInv'
  <2> SUFFICES ASSUME MessageInv, [RNext]_rvars PROVE MessageInv'
    OBVIOUS
  <2>1. [from_bytes]_vars /\ ReaderInv /\ NameInv /\ ResponseInv
    BY ReaderStep DEF MessageInv
  <2>2. ReaderInv'
    BY <2>1, ReaderInductive
  <2>3. NameInv'
    BY <2>1, NameInductive DEF ReaderInv
  <2>4. ResponseInv'
    BY <2>1, ResponseInductive
  <2>5. WireInv'
    BY WireInductive
  <2> QED
    BY <2>2, <2>3, <2>4, <2>5 DEF MessageInv
<1> QED
  BY <1>1, <1>2, PTL DEF RSpec

-----------------------------------------------------------------------------

\* What is sent is a sequence of bytes, and has answers when and only when its
\* code is NoError.
THEOREM ResponseTypeCorrect == RSpec => []RTypeOK
<1>1. MessageInv => RTypeOK
  <2> SUFFICES ASSUME MessageInv PROVE RTypeOK
    OBVIOUS
  <2>1. ReaderInv /\ ResponseInv /\ WireInv
    BY DEF MessageInv
  <2>2. wire \in Seq(Byte)
    <3>1. IsWritable(response)
      BY Writable
    <3>2. to_bytes(response) \in Seq(Byte) /\ <<>> \in Seq(Byte)
      BY <3>1, ResponseParts
    <3> QED
      BY <2>1, <3>2 DEF WireInv
  <2>3. TypeOK
    BY <2>1 DEF ReaderInv
  <2> QED
    BY <2>1, <2>2, <2>3, Zenon DEF ResponseInv, Responds, RTypeOK
<1> QED
  BY <1>1, MessageCorrect, PTL

\* Without pointers, what is asked for in the response has the bytes of the
\* message.
LEMMA SameQuestionBytes ==
  ASSUME ReaderInv, outcome = "Ok", ~pointed
  PROVE  LET q == query_bytes(Query) IN q = SubSeq(bytes, 13, 13 + Len(q) - 1)
<1> DEFINE q == query_bytes(Query)
           l == Len(bytes)
<1>1. bytes \in Seq(Byte) /\ cursor \in Nat /\ cursor >= 12 /\ cursor + 4 <= l
  <2>1. bytes \in Seq(Byte) /\ cursor \in LENGTH..Len(bytes) /\ cursor \in Nat
    BY Parts, Zenon DEF ReaderInv
  <2>2. cursor + 4 <= Len(bytes)
    BY DEF ReaderInv, Whole
  <2>3. Len(bytes) \in Nat
    BY <2>1
  <2> QED
    BY <2>1, <2>2, <2>3 DEF LENGTH
<1>2. q = SubSeq(bytes, 13, cursor + 4)
  <2>1. query_bytes(Query) = SubSeq(bytes, LENGTH + 1, cursor_at_end)
    BY CopyIsWhole DEF ReaderInv, EchoesQuestion
  <2>2. LENGTH + 1 = 13
    BY DEF LENGTH
  <2> QED
    BY <2>1, <2>2 DEF cursor_at_end
<1>3. Len(q) = cursor + 4 - 12
  BY <1>1, <1>2
<1>4. 13 + Len(q) - 1 = cursor + 4
  BY <1>1, <1>3
<1> HIDE DEF q
<1>5. q = SubSeq(bytes, 13, 13 + Len(q) - 1)
  BY <1>2, <1>4
<1> QED
  BY <1>5 DEF q

\* Whatever the message, the header of the response to it tells the client that
\* this is the one.  So does the question, if no label has 64 bytes or more; a
\* query without pointers has none, and its question has the bytes that the
\* client sent.
THEOREM ResponsesMatch == RSpec => []MatchesQuery
<1>1. MessageInv => MatchesQuery
  <2> SUFFICES ASSUME MessageInv, Sent
               PROVE  /\ SubSeq(wire, 1, 2) = SubSeq(bytes, 1, 2)
                      /\ IsReply(wire)
                      /\ recursion_desired(wire) = recursion_desired(bytes)
                      /\ wire[4] % 16 = ResponseCode[response.rcode]
                      /\ u16_at(wire, 4) = Len(response.query)
                      /\ response.query # <<>> =>
                           /\ QuestionFound <=> \A k \in DOMAIN labels : Len(labels[k]) < 64
                           /\ QuestionFound =>
                                SubSeq(wire, 13, QuestionEnd - 1) = query_bytes(Question)
                           /\ ~pointed =>
                                /\ QuestionFound
                                /\ SubSeq(wire, 13, QuestionEnd - 1)
                                     = SubSeq(bytes, 13, QuestionEnd - 1)
    BY DEF MatchesQuery
  <2>1. ReaderInv /\ NameInv /\ ResponseInv /\ WireInv
    BY DEF MessageInv
  <2>2. IsWritable(response) /\ wire = to_bytes(response)
    BY <2>1, Writable DEF WireInv
  <2>3. /\ SubSeq(wire, 1, 2) = u16(response.transaction_id)
        /\ IsReply(wire)
        /\ recursion_desired(wire) = response.recursion_desired
        /\ wire[4] % 16 = ResponseCode[response.rcode]
        /\ u16_at(wire, 4) = Len(response.query)
    BY <2>2, HeadRead
  <2>4. bytes \in Seq(Byte) /\ 12 <= Len(bytes)
    <3>1. TypeOK
      BY <2>1 DEF ReaderInv
    <3>2. bytes \in Seq(Byte) /\ cursor \in LENGTH..Len(bytes)
      BY <3>1, Parts, Zenon
    <3> QED
      BY <3>2 DEF LENGTH
  <2>5. SubSeq(bytes, 1, 2) = <<bytes[1], bytes[2]>>
    <3> DEFINE s == SubSeq(bytes, 1, 2)
    <3>1. s \in Seq(Byte) /\ Len(s) = 2 /\ s[1] = bytes[1] /\ s[2] = bytes[2]
      BY <2>4
    <3> HIDE DEF s
    <3>2. s = <<s[1], s[2]>>
      BY <3>1
    <3> QED
      BY <3>1, <3>2 DEF s
  <2>6. u16(response.transaction_id) = <<bytes[1], bytes[2]>>
    <3>1. Indexes(0) /\ 0 \in Nat
      BY <2>4 DEF Indexes
    <3>2. u16(u16_at(bytes, 0)) = <<bytes[0 + 1], bytes[0 + 2]>>
      BY <2>4, <3>1, BytesBack
    <3>3. response.transaction_id = u16_at(bytes, 0)
      BY <2>1 DEF ResponseInv, Responds, transaction_id
    <3> QED
      BY <3>2, <3>3
  <2>7. response.recursion_desired = recursion_desired(bytes)
    BY <2>1 DEF ResponseInv, Responds
  <2>8. ASSUME response.query # <<>>
        PROVE  /\ QuestionFound <=> \A k \in DOMAIN labels : Len(labels[k]) < 64
               /\ QuestionFound => SubSeq(wire, 13, QuestionEnd - 1) = query_bytes(Question)
               /\ ~pointed =>
                    /\ QuestionFound
                    /\ SubSeq(wire, 13, QuestionEnd - 1) = SubSeq(bytes, 13, QuestionEnd - 1)
    <3> DEFINE q == query_bytes(Query)
    <3>1. outcome = "Ok" /\ response.query = <<Query>>
      BY <2>1, <2>8 DEF ResponseInv, Responds
    <3>2. Question = Query /\ response.query[1] = Query
      BY <3>1 DEF Question
    <3>3. /\ Query.query_name = name
          /\ IsReadable(name) <=> \A k \in 1..Len(labels) : Len(labels[k]) < 64
      BY <2>1, <3>1, QuestionIs
    <3>4. DOMAIN labels = 1..Len(labels)
      <4>1. labels \in Seq(Seq(Byte))
        BY <2>1, Parts, Zenon DEF ReaderInv
      <4> QED
        BY <4>1
    <3>5. Asks(response) = q
      BY <2>2, <2>8, <3>2, AsksBytes
    <3> HIDE DEF q
    <3>6. /\ QuestionFound <=> IsReadable(name)
          /\ QuestionFound => /\ QuestionEnd = 13 + Len(q)
                              /\ SubSeq(wire, 13, QuestionEnd - 1) = q
      BY <2>2, <2>8, <3>2, <3>3, <3>5, QuestionIsFound
    <3>7. ASSUME ~pointed
          PROVE  /\ QuestionFound
                 /\ SubSeq(wire, 13, QuestionEnd - 1) = SubSeq(bytes, 13, QuestionEnd - 1)
      <4>1. QuestionFound
        BY <2>1, <3>3, <3>6, <3>7 DEF NameInv
      <4>2. q = SubSeq(bytes, 13, 13 + Len(q) - 1)
        BY <2>1, <3>1, <3>7, SameQuestionBytes DEF q
      <4> QED
        BY <3>6, <4>1, <4>2
    <3> QED
      BY <3>2, <3>3, <3>4, <3>6, <3>7 DEF q
  <2> QED
    BY <2>3, <2>5, <2>6, <2>7, <2>8
<1> QED
  BY <1>1, MessageCorrect, PTL

\* The records of a response that is sent, if its question is found.
LEMMA RecordsRead ==
  ASSUME MessageInv, Sent, QuestionFound
  PROVE  /\ wire \in Seq(Byte)
         /\ IsSequence(response.answers)
         /\ DOMAIN Records = 1..Len(response.answers)
         /\ End = Len(wire) + 1
         /\ \A k \in 1..Len(response.answers) :
              LET a == response.answers[k] IN
              /\ IsAnswer(a) /\ IsReadable(a.name) /\ IsData(a.query_type, a.value, a.name)
              /\ Records[k].answer = a
              /\ Records[k].rdata \in Position
              /\ Records[k].next = Records[k].rdata + Len(a.value)
              /\ Holds(wire, Records[k].rdata, a.value)
<1>1. ResponseInv /\ WireInv
  BY DEF MessageInv
<1>2. IsWritable(response) /\ wire = to_bytes(response)
  BY <1>1, Writable DEF WireInv
<1> DEFINE m == Len(response.answers)
<1>3. wire \in Seq(Byte)
  BY <1>2, HeadRead
<1>9. \A k \in 1..m : IsReadable(response.answers[k].name)
  <2> SUFFICES ASSUME NEW k \in 1..m PROVE IsReadable(response.answers[k].name)
    OBVIOUS
  <2>1. response.answers # <<>> /\ k \in DOMAIN response.answers
    BY <1>1 DEF ResponseInv, IsSequence
  <2>2. response.query # <<>> /\ response.answers[k].name = response.query[1].query_name
    BY <1>1, <2>1 DEF ResponseInv, Responds, Question
  <2> QED
    BY <1>2, <2>2, QuestionIsFound
<1>4. /\ u16_at(wire, 6) = m
      /\ End = Len(wire) + 1
      /\ \A k \in 1..m : /\ RecordStart[k - 1] \in Position
                         /\ Holds(wire, RecordStart[k - 1], answer_bytes(response.answers[k]))
  BY <1>2, <1>9, TailRead
<1> HIDE DEF m
<1>5. Records = [k \in 1..m |-> RecordAt(RecordStart[k - 1])]
  BY <1>4 DEF Records
<1>6. ASSUME NEW k \in 1..m
      PROVE  LET a == response.answers[k] IN
             /\ IsAnswer(a) /\ IsReadable(a.name) /\ IsData(a.query_type, a.value, a.name)
             /\ Records[k].answer = a
             /\ Records[k].rdata \in Position
             /\ Records[k].next = Records[k].rdata + Len(a.value)
             /\ Holds(wire, Records[k].rdata, a.value)
  <2> DEFINE a == response.answers[k]
             p == RecordStart[k - 1]
             r == RecordAt(p)
  <2>1. Records[k] = r
    BY <1>5
  <2>2. IsAnswer(a) /\ IsReadable(a.name) /\ IsData(a.query_type, a.value, a.name)
    BY <1>1, <1>9 DEF WireInv, m
  <2>3. p \in Position /\ Holds(wire, p, answer_bytes(a))
    BY <1>4
  <2> HIDE DEF a, p
  <2>4. /\ r.answer = a
        /\ r.rdata = p + Len(a.name) + 10
        /\ r.next = p + Len(answer_bytes(a))
        /\ Holds(wire, p + Len(a.name) + 10, a.value)
    BY <1>3, <2>2, <2>3, AnswerRead
  <2>5. Len(answer_bytes(a)) = Len(a.name) + 10 + Len(a.value)
    BY <2>2, AnswerParts
  <2>6. Len(a.name) \in Nat /\ Len(a.value) \in Nat /\ p \in Nat /\ p >= 1
    <3>1. a.name \in Seq(Byte) /\ a.value \in Seq(Byte)
      BY <2>2 DEF IsAnswer, IsName
    <3> QED
      BY <2>3, <3>1 DEF Position
  <2> DEFINE x == Len(a.name)
             y == Len(a.value)
             z == Len(answer_bytes(a))
  <2>7. p + z = p + x + 10 + y /\ p + x + 10 \in Position
    <3>1. z = x + 10 + y /\ x \in Nat /\ y \in Nat
      BY <2>5, <2>6
    <3> HIDE DEF x, y, z
    <3> QED
      BY <2>6, <3>1 DEF Position
  <2> HIDE DEF r
  <2>8. r.rdata \in Position /\ r.next = r.rdata + Len(a.value) /\ Holds(wire, r.rdata, a.value)
    BY <2>4, <2>7
  <2> QED
    BY <2>1, <2>2, <2>4, <2>8 DEF a
<1>7. DOMAIN Records = 1..m
  BY <1>5
<1>8. IsSequence(response.answers)
  BY <1>1 DEF ResponseInv
<1> QED
  BY <1>3, <1>4, <1>6, <1>7, <1>8 DEF m

\* Whatever the number of the answers and their data, a client that finds the
\* question finds each of them, and the end of the message behind the last.
THEOREM AnswersAreRead == RSpec => []AnswersReadBack
<1>1. MessageInv => AnswersReadBack
  <2> SUFFICES ASSUME MessageInv, Sent, QuestionFound
               PROVE  /\ [k \in DOMAIN Records |-> Records[k].answer] = response.answers
                      /\ End = Len(wire) + 1
    BY DEF AnswersReadBack
  <2> DEFINE s == response.answers
             m == Len(s)
  <2>1. /\ DOMAIN Records = 1..m /\ IsSequence(s) /\ End = Len(wire) + 1
        /\ \A k \in 1..m : Records[k].answer = s[k]
    BY RecordsRead
  <2>2. s = [k \in 1..m |-> s[k]]
    BY <2>1 DEF IsSequence
  <2> HIDE DEF s
  <2>3. [k \in DOMAIN Records |-> Records[k].answer] = s
    BY <2>1, <2>2
  <2> QED
    BY <2>1, <2>3 DEF s
<1> QED
  BY <1>1, MessageCorrect, PTL

\* A TXT answer that stands in the message holds a value, and is one string when
\* and only when its length byte says as much.
LEMMA StringRead ==
  ASSUME wire \in Seq(Byte), NEW d \in Position, NEW value \in Values,
         NEW v, v = u8(Len(value)) \o value, Holds(wire, d, v)
  PROVE  /\ SubSeq(wire, d + 1, (d + Len(v)) - 1) = value
         /\ d + 1 + wire[d] = d + Len(v) <=> (d + Len(v)) - d <= 256
<1> DEFINE l == Len(value)
           u == u8(l)
<1>1. d \in Nat /\ d >= 1 /\ d + 1 \in Position
  BY DEF Position
<1>2. value \in Seq(Byte) /\ l \in Nat /\ Len(v) = 1 + l /\ v[1] = l % 256 /\ v \in Seq(Byte)
  BY StringBytes
<1>3. l % 256 \in Byte
  BY <1>2, Bytes
<1> HIDE DEF l
<1>4. u \in Seq(Byte) /\ Len(u) = 1
  BY <1>3 DEF u8
<1>5. v = u \o value
  BY DEF l
<1> HIDE DEF u
<1>6. Holds(wire, d + 1, value)
  <2>1. Holds(wire, d, u \o value)
    BY <1>5
  <2>2. Holds(wire, d + Len(u), value)
    BY <1>2, <1>4, <2>1, HoldsBoth
  <2> QED
    BY <1>4, <2>2
<1>7. SubSeq(wire, d + 1, (d + 1) + l - 1) = value
  BY <1>1, <1>2, <1>6, HoldsCut DEF l
<1>8. (d + 1) + l - 1 = (d + Len(v)) - 1 /\ (d + Len(v)) - d = 1 + l /\ d + Len(v) = d + 1 + l
  BY <1>1, <1>2
<1>9. wire[d] = l % 256
  <2>1. 1 \in 1..Len(v)
    BY <1>2
  <2>2. \A i \in 1..Len(v) : wire[d - 1 + i] = v[i]
    BY DEF Holds
  <2>3. wire[d - 1 + 1] = v[1]
    BY <2>1, <2>2
  <2>4. d - 1 + 1 = d
    BY <1>1
  <2> QED
    BY <1>2, <2>3, <2>4
<1>10. d + 1 + (l % 256) = d + 1 + l <=> 1 + l <= 256
  <2> DEFINE x == l % 256
  <2>1. x \in Nat /\ x <= 255
    BY <1>3, Bytes
  <2>2. l <= 255 => x = l
    BY <1>2, OneByte
  <2> HIDE DEF x
  <2>3. d + 1 + x = d + 1 + l <=> 1 + l <= 256
    BY <1>1, <1>2, <2>1, <2>2
  <2> QED
    BY <2>3 DEF x
<1> QED
  BY <1>7, <1>8, <1>9, <1>10

\* Whatever the values are, the data of every answer are what its type calls
\* for, except that a value of more than 255 bytes is not one string.
THEOREM DataIsRead == RSpec => []DataReadsBack
<1>1. MessageInv => DataReadsBack
  <2> SUFFICES ASSUME MessageInv, Sent, QuestionFound, NEW k \in DOMAIN Records
               PROVE  LET r == Records[k] IN
                 /\ r.answer.query_type = QueryType.TXT =>
                      /\ SubSeq(wire, r.rdata + 1, r.next - 1) \in Values
                      /\ r.rdata + 1 + wire[r.rdata] = r.next <=> r.next - r.rdata <= 256
                 /\ r.answer.query_type = QueryType.NS => NameEnd[r.rdata] = r.next
                 /\ r.answer.query_type = QueryType.SOA => NameEnd[NameEnd[r.rdata]] + 20 = r.next
    BY DEF DataReadsBack
  <2> DEFINE r == Records[k]
             a == response.answers[k]
             d == Records[k].rdata
             v == response.answers[k].value
             n == response.answers[k].name
  <2>1. k \in 1..Len(response.answers) /\ wire \in Seq(Byte)
    BY RecordsRead
  <2>2. /\ IsAnswer(a) /\ IsReadable(n) /\ IsData(a.query_type, v, n)
        /\ r.answer = a /\ d \in Position /\ r.next = d + Len(v) /\ Holds(wire, d, v)
    BY <2>1, RecordsRead
  <2>3. v \in Seq(Byte) /\ n \in Seq(Byte)
    BY <2>2 DEF IsAnswer, IsReadable
  <2>4. r.rdata = d
    OBVIOUS
  <2> HIDE DEF r, a, d, v, n
  <2>5. d \in Nat /\ d >= 1 /\ Len(v) \in Nat
    BY <2>2, <2>3 DEF Position
  <2>6. ASSUME a.query_type = QueryType.TXT
        PROVE  /\ SubSeq(wire, d + 1, r.next - 1) \in Values
               /\ d + 1 + wire[d] = r.next <=> r.next - d <= 256
    <3>1. PICK value \in Values : v = u8(Len(value)) \o value
      BY <2>2, <2>6 DEF IsData
    <3>2. /\ SubSeq(wire, d + 1, (d + Len(v)) - 1) = value
          /\ d + 1 + wire[d] = d + Len(v) <=> (d + Len(v)) - d <= 256
      BY <2>1, <2>2, <3>1, StringRead
    <3> QED
      BY <2>2, <3>2
  <2>7. ASSUME a.query_type = QueryType.NS
        PROVE  NameEnd[d] = r.next
    <3>1. IsReadable(v)
      BY <2>2, <2>7, ParentIsReadable DEF IsData
    <3> QED
      BY <2>1, <2>2, <3>1, NameEnds
  <2>8. ASSUME a.query_type = QueryType.SOA
        PROVE  NameEnd[NameEnd[d]] + 20 = r.next
    <3> DEFINE l == Len(n)
    <3>1. /\ Len(v) = l + l + 20
          /\ Holds(v, 1, n)
          /\ Holds(v, 1 + l, n)
      BY <2>2, <2>8 DEF IsData
    <3>2. l \in Nat
      BY <2>3
    <3> DEFINE e == d + l
    <3>3. /\ 1 \in Position /\ 1 + l \in Position /\ e \in Position
          /\ d + 1 - 1 = d /\ d + (1 + l) - 1 = e /\ e + l + 20 = d + Len(v)
      <4> HIDE DEF l
      <4> QED
        BY <2>5, <3>1, <3>2 DEF Position
    <3>4. Holds(wire, d + 1 - 1, n)
      BY <2>1, <2>2, <2>3, <3>1, <3>3, HoldsWithin
    <3>5. Holds(wire, d + (1 + l) - 1, n)
      <4> DEFINE j == 1 + l
      <4>1. j \in Position /\ Holds(v, j, n)
        BY <3>1, <3>3
      <4> HIDE DEF j
      <4>2. Holds(wire, d + j - 1, n)
        BY <2>1, <2>2, <2>3, <4>1, HoldsWithin
      <4> QED
        BY <4>2 DEF j
    <3> HIDE DEF e
    <3>6. NameEnd[d] = e
      BY <2>1, <2>2, <3>3, <3>4, NameEnds DEF e
    <3>7. NameEnd[e] = e + l
      BY <2>1, <2>2, <3>3, <3>5, NameEnds
    <3> QED
      BY <2>2, <3>3, <3>6, <3>7
  <2> QED
    BY <2>2, <2>4, <2>6, <2>7, <2>8 DEF r
<1> QED
  BY <1>1, MessageCorrect, PTL

-----------------------------------------------------------------------------
(* The decisions of DnsHandler.                                            *)

\* A message to which there is one question.
AsksOne == opcode(bytes) = 0 /\ num_questions(bytes) = 1

\* What has become of the message, by where its response is.
Routed ==
  /\ state = "ignored" => IsReply(bytes)
  /\ state \in {"header", "question", "sent"} => ~IsReply(bytes)
  /\ outcome # "Reading" => AsksOne /\ state \in {"header", "question", "sent"}
  /\ outcome = "Panic" => state = "header"
  /\ state = "question" => outcome = "Ok" /\ response.query = <<Query>>

\* More than one answer is only given to a question for values.
Few == Len(response.answers) > 1 => response.query # <<>> /\ Asked("TXT")

\* The code that is sent, by the checks in the order of the code.
Coded ==
  Sent =>
    /\ opcode(bytes) # 0 => response.rcode = "Refused"
    /\ opcode(bytes) = 0 /\ num_questions(bytes) # 1 => response.rcode = "FormErr"
    /\ AsksOne => outcome # "Reading"
    /\ AsksOne /\ outcome # "Ok" => response.rcode = "FormErr"
    /\ outcome = "Ok" =>
         /\ response.query = <<Query>>
         /\ ~Processes => response.rcode = "Refused"
         /\ Processes =>
              /\ response.rcode = IF Unanswered THEN "NXDomain" ELSE "NoError"
              /\ Asked("A") => (Unanswered <=> V4 = <<>>)
              /\ Asked("AAAA") => (Unanswered <=> V6 = <<>>)

DecisionInv == Routed /\ Few /\ Coded

\* Nothing is decided at first.
LEMMA DecisionInit == RInit => DecisionInv
<1> SUFFICES ASSUME RInit PROVE DecisionInv
  OBVIOUS
<1>1. response.answers = <<>> /\ state = "idle" /\ outcome = "Reading"
  BY NewIsResponse DEF RInit, Init
<1>2. ~ (Len(<<>>) > 1)
  OBVIOUS
<1> QED
  BY <1>1, <1>2 DEF DecisionInv, Routed, Few, Coded, Sent

\* What a step that leaves the message, the reader and the question alone cannot change.
LEMMA SameQuestion ==
  ASSUME UNCHANGED vars, response'.query = response.query
  PROVE  /\ (AsksOne' <=> AsksOne) /\ (IsReply(bytes)' <=> IsReply(bytes))
         /\ opcode(bytes)' = opcode(bytes) /\ num_questions(bytes)' = num_questions(bytes)
         /\ outcome' = outcome /\ Query' = Query /\ Question' = Question
         /\ (Processes' <=> Processes)
         /\ \A t : Asked(t)' <=> Asked(t)
BY DEF vars, AsksOne, IsReply, opcode, num_questions, Query, is_acme_challenge, Question, Processes, Asked

\* A response that is sent.
LEMMA SentIsCoded ==
  ASSUME IsResponse(response), Routed, Few, NEW rcode, Send(rcode),
         outcome # "Panic", state \in {"header", "question"},
         opcode(bytes) # 0 => rcode = "Refused",
         opcode(bytes) = 0 /\ num_questions(bytes) # 1 => rcode = "FormErr",
         AsksOne => outcome # "Reading",
         AsksOne /\ outcome # "Ok" => rcode = "FormErr",
         outcome = "Ok" =>
           /\ response.query = <<Query>>
           /\ ~Processes => rcode = "Refused"
           /\ Processes =>
                /\ rcode = IF Unanswered THEN "NXDomain" ELSE "NoError"
                /\ Asked("A") => (Unanswered <=> V4 = <<>>)
                /\ Asked("AAAA") => (Unanswered <=> V6 = <<>>)
  PROVE  DecisionInv'
<1>1. /\ response' = [response EXCEPT !.rcode = rcode]
      /\ state' = "sent"
      /\ UNCHANGED vars
  BY DEF Send
<1>2. /\ response'.rcode = rcode
      /\ response'.query = response.query
      /\ response'.answers = response.answers
  BY <1>1, CodeIsSet
<1>3. /\ (AsksOne' <=> AsksOne) /\ (IsReply(bytes)' <=> IsReply(bytes))
      /\ opcode(bytes)' = opcode(bytes) /\ num_questions(bytes)' = num_questions(bytes)
      /\ outcome' = outcome /\ Query' = Query /\ Question' = Question
      /\ (Processes' <=> Processes)
      /\ \A t : Asked(t)' <=> Asked(t)
  BY <1>1, <1>2, SameQuestion
<1>4. Unanswered' <=> Unanswered
  BY <1>2 DEF Unanswered
<1>5. Routed'
  BY <1>1, <1>2, <1>3, Zenon DEF Routed
<1>6. Few'
  BY <1>2, <1>3 DEF Few
<1>7. Coded'
  BY <1>1, <1>2, <1>3, <1>4, Zenon DEF Coded, Sent
<1> QED
  BY <1>5, <1>6, <1>7 DEF DecisionInv

\* An answer that is added.
LEMMA AddedIsFew ==
  ASSUME IsResponse(response), IsSequence(response.answers), DecisionInv,
         NEW type, NEW value, AddAnswer(type, value),
         type = "TXT" \/ Unanswered
  PROVE  DecisionInv'
<1> DEFINE x == Answer(Question.query_name, QueryType[type], value)
           b == Append(response.answers, x)
<1>1. /\ state = "question" /\ UNCHANGED vars /\ state' = state
      /\ Asked(type)
      /\ response' = [response EXCEPT !.answers = b]
  BY DEF AddAnswer
<1> HIDE DEF x
<1>2. Len(b) = Len(response.answers) + 1 /\ Len(response.answers) \in Nat
  BY DEF IsSequence
<1> HIDE DEF b
<1>3. /\ response'.answers = b
      /\ response'.query = response.query
  BY <1>1, AnswersAreSet
<1>4. /\ (AsksOne' <=> AsksOne) /\ (IsReply(bytes)' <=> IsReply(bytes))
      /\ opcode(bytes)' = opcode(bytes) /\ num_questions(bytes)' = num_questions(bytes)
      /\ outcome' = outcome /\ Query' = Query /\ Question' = Question
      /\ (Processes' <=> Processes)
      /\ \A t : Asked(t)' <=> Asked(t)
  BY <1>1, <1>3, SameQuestion
<1>5. Routed'
  BY <1>1, <1>3, <1>4, Zenon DEF Routed, DecisionInv
<1>6. Few'
  <2>1. <<Query>> # <<>>
    OBVIOUS
  <2>2. response.query # <<>>
    BY <1>1, <2>1 DEF DecisionInv, Routed
  <2>3. CASE Asked("TXT")
    BY <1>3, <1>4, <2>2, <2>3 DEF Few
  <2>4. CASE ~Asked("TXT")
    <3>1. response.answers = <<>>
      BY <1>1, <2>4 DEF Unanswered
    <3>2. Len(b) = 1
      BY <1>2, <3>1
    <3> QED
      BY <1>3, <3>2 DEF Few
  <2> QED
    BY <2>3, <2>4
<1>7. Coded'
  BY <1>1 DEF Coded, Sent
<1> QED
  BY <1>5, <1>6, <1>7 DEF DecisionInv

\* Every step keeps the account of the decisions.
LEMMA DecisionInductive == ResponseInv /\ DecisionInv /\ [RNext]_rvars => DecisionInv'
<1> SUFFICES ASSUME ResponseInv, DecisionInv, [RNext]_rvars PROVE DecisionInv'
  OBVIOUS
<1>0. /\ IsResponse(response) /\ IsSequence(response.answers)
      /\ Routed /\ Few
      /\ state \in {"header", "question"} => response.rcode \in DOMAIN ResponseCode
      /\ state = "header" => response.query = <<>> /\ response.answers = <<>>
  BY DEF ResponseInv, DecisionInv, Responds
<1>1. CASE Receive
  <2>1. /\ state = "idle" /\ state' = "header" /\ ~IsReply(bytes) /\ bytes' = bytes /\ outcome' = outcome
        /\ response'.answers = <<>>
    BY <1>1, NewIsResponse DEF Receive, vars
  <2>2. ~ (Len(<<>>) > 1)
    OBVIOUS
  <2>3. outcome = "Reading" /\ (IsReply(bytes)' <=> IsReply(bytes))
    BY <1>0, <2>1 DEF Routed, IsReply
  <2> QED
    BY <2>1, <2>2, <2>3 DEF DecisionInv, Routed, Few, Coded, Sent
<1>2. CASE Ignore
  <2>1. /\ state = "idle" /\ state' = "ignored" /\ IsReply(bytes) /\ UNCHANGED vars /\ response' = response
    BY <1>2 DEF Ignore
  <2>2. outcome = "Reading" /\ outcome' = "Reading" /\ (IsReply(bytes)' <=> IsReply(bytes))
    BY <1>0, <2>1 DEF Routed, IsReply, vars
  <2>3. Few'
    BY <1>0, <2>1 DEF Few, Asked, Question
  <2> QED
    BY <2>1, <2>2, <2>3 DEF DecisionInv, Routed, Coded, Sent
<1>3. CASE RefuseOpcode
  <2>1. state = "header" /\ opcode(bytes) # 0 /\ Send("Refused") /\ ~AsksOne
    BY <1>3 DEF RefuseOpcode, AsksOne
  <2>2. outcome = "Reading"
    BY <1>0, <2>1 DEF Routed
  <2> QED
    BY <1>0, <2>1, <2>2, SentIsCoded
<1>4. CASE RejectCount
  <2>1. state = "header" /\ opcode(bytes) = 0 /\ num_questions(bytes) # 1 /\ Send("FormErr") /\ ~AsksOne
    BY <1>4 DEF RejectCount, AsksOne
  <2>2. outcome = "Reading"
    BY <1>0, <2>1 DEF Routed
  <2> QED
    BY <1>0, <2>1, <2>2, SentIsCoded
<1>5. CASE RejectQuestion
  <2>1. state = "header" /\ AsksOne /\ Send("FormErr") /\ outcome \notin {"Reading", "Ok", "Panic"}
    BY <1>5 DEF RejectQuestion, HasQuestion, AsksOne
  <2> QED
    BY <1>0, <2>1, SentIsCoded DEF AsksOne
<1>6. CASE RefuseQuestion
  <2>1. state = "question" /\ ~Processes /\ Send("Refused")
    BY <1>6 DEF RefuseQuestion
  <2>2. outcome = "Ok" /\ response.query = <<Query>> /\ AsksOne
    BY <1>0, <2>1 DEF Routed
  <2> QED
    BY <1>0, <2>1, <2>2, SentIsCoded DEF AsksOne
<1>7. CASE Complete
  <2> DEFINE rcode == IF Unanswered THEN "NXDomain" ELSE "NoError"
  <2>1. /\ state = "question" /\ Processes /\ Send(rcode)
        /\ Asked("A") => (Unanswered <=> V4 = <<>>)
        /\ Asked("AAAA") => (Unanswered <=> V6 = <<>>)
    BY <1>7 DEF Complete
  <2>2. outcome = "Ok" /\ response.query = <<Query>> /\ AsksOne
    BY <1>0, <2>1 DEF Routed
  <2>3. rcode = IF Unanswered THEN "NXDomain" ELSE "NoError"
    OBVIOUS
  <2> HIDE DEF rcode
  <2> QED
    BY <1>0, <2>1, <2>2, <2>3, SentIsCoded DEF AsksOne
<1>8. CASE ReadQuestion
  <2>1. /\ state = "header" /\ AsksOne /\ response' = response /\ state' = state
        /\ bytes' = bytes
    BY <1>8, Steps, GivesOutcome DEF ReadQuestion, HasQuestion, AsksOne, from_bytes, ReadLabel, FollowPointer,
                CutLabel, BadLabel, CutPointer, ReadTail, CutTail, AddLabel, BadEncoding, TooLong, Finish, Ends
  <2>2. ~IsReply(bytes)' /\ AsksOne'
    BY <1>0, <2>1 DEF Routed, IsReply, AsksOne, opcode, num_questions
  <2>3. Few'
    BY <1>0, <2>1 DEF Few, Asked, Question
  <2> QED
    BY <2>1, <2>2, <2>3 DEF DecisionInv, Routed, Coded, Sent
<1>9. CASE TakeQuestion
  <2> DEFINE q == <<Query>>
  <2>1. /\ state = "header" /\ AsksOne /\ outcome = "Ok" /\ state' = "question" /\ UNCHANGED vars
        /\ response' = [response EXCEPT !.query = q]
    BY <1>9 DEF TakeQuestion, HasQuestion, AsksOne
  <2>2. q' = q
    BY <2>1 DEF vars, Query, is_acme_challenge
  <2> HIDE DEF q
  <2>3. response'.query = q /\ response'.answers = response.answers
    BY <1>0, <2>1, QueryIsSet
  <2>4. ~IsReply(bytes)' /\ AsksOne' /\ outcome' = "Ok"
    BY <1>0, <2>1 DEF Routed, IsReply, AsksOne, opcode, num_questions, vars
  <2>5. response'.query = <<Query>>'
    BY <2>2, <2>3 DEF q
  <2>6. Routed'
    BY <2>1, <2>4, <2>5 DEF Routed
  <2>7. Few'
    <3>1. ~ (Len(<<>>) > 1)
      OBVIOUS
    <3> QED
      BY <1>0, <2>1, <2>3, <3>1 DEF Few
  <2> QED
    BY <2>1, <2>6, <2>7 DEF DecisionInv, Coded, Sent
<1>10. CASE add_txt_answer \/ add_ns_answer \/ add_soa_answer \/ add_a_answer \/ add_aaaa_answer
  <2>1. \E type, value : AddAnswer(type, value) /\ (type = "TXT" \/ Unanswered)
    BY <1>10 DEF add_txt_answer, add_ns_answer, add_soa_answer, add_a_answer, add_aaaa_answer
  <2> QED
    BY <1>0, <2>1, AddedIsFew
<1>11. CASE UNCHANGED rvars
  <2>1. UNCHANGED vars /\ response' = response /\ state' = state
    BY <1>11 DEF rvars
  <2>2. /\ (AsksOne' <=> AsksOne) /\ (IsReply(bytes)' <=> IsReply(bytes))
        /\ opcode(bytes)' = opcode(bytes) /\ num_questions(bytes)' = num_questions(bytes)
        /\ outcome' = outcome /\ Query' = Query /\ Question' = Question
        /\ (Processes' <=> Processes)
        /\ \A t : Asked(t)' <=> Asked(t)
    BY <2>1, SameQuestion
  <2>3. Routed' /\ Few'
    BY <1>0, <2>1, <2>2 DEF Routed, Few
  <2>4. Coded'
    BY <2>1, <2>2, Zenon DEF Coded, Sent, DecisionInv, Unanswered
  <2> QED
    BY <2>3, <2>4 DEF DecisionInv
<1> QED
  BY <1>1, <1>2, <1>3, <1>4, <1>5, <1>6, <1>7, <1>8, <1>9, <1>10, <1>11, Zenon DEF RNext, Done

\* The name of a type is that of its number.
LEMMA TypeNames ==
  /\ DOMAIN QueryType = {"A", "NS", "SOA", "TXT", "AAAA"}
  /\ \A c : IsValid(c) => TypeName(c) \in DOMAIN QueryType /\ QueryType[TypeName(c)] = c
  /\ \A c : ~IsValid(c) => TypeName(c) = "other"
  /\ \A c : c = QueryType.TXT => IsValid(c) /\ TypeName(c) = "TXT"
<1>1. DOMAIN QueryType = {"A", "NS", "SOA", "TXT", "AAAA"}
  BY DEF QueryType
<1>2. ASSUME NEW c, IsValid(c)
      PROVE  TypeName(c) \in DOMAIN QueryType /\ QueryType[TypeName(c)] = c
  <2>1. \E t \in DOMAIN QueryType : QueryType[t] = c
    BY <1>2 DEF IsValid
  <2>2. TypeName(c) = CHOOSE t \in DOMAIN QueryType : QueryType[t] = c
    BY <1>2 DEF TypeName
  <2> QED
    BY <2>1, <2>2, Zenon
<1>3. \A c : ~IsValid(c) => TypeName(c) = "other"
  BY DEF TypeName
<1>4. ASSUME NEW c, c = QueryType.TXT
      PROVE  IsValid(c) /\ TypeName(c) = "TXT"
  <2>1. IsValid(c)
    BY <1>1, <1>4 DEF IsValid
  <2>2. \A t \in DOMAIN QueryType : QueryType[t] = QueryType.TXT => t = "TXT"
    BY DEF QueryType
  <2> QED
    BY <1>2, <1>4, <2>1, <2>2
<1> QED
  BY <1>1, <1>2, <1>3, <1>4

\* What DnsHandler looks at of a message.
LEMMA MessageFields ==
  ASSUME ReaderInv
  PROVE  /\ message \in Handler!Message
         /\ ~message.short
         /\ message.reply <=> IsReply(bytes)
         /\ message.opcode = "Standard" <=> opcode(bytes) = 0
         /\ message.num_questions = 1 <=> num_questions(bytes) = 1
         /\ message.question = "cut" <=> outcome = "Panic"
         /\ message.question = "malformed" <=> outcome \notin {"Reading", "Ok", "Panic"}
         /\ message.query_type = IF question = <<>> THEN "other" ELSE TypeName(question[1])
         /\ message.acme <=> is_acme_challenge
<1> DEFINE op == CASE opcode(bytes) = 0 -> "Standard"
                   [] opcode(bytes) = 1 -> "Inverse"
                   [] opcode(bytes) = 2 -> "Status"
                   [] OTHER -> "Other"
           n == num_questions(bytes)
           nq == IF n <= 2 THEN n ELSE 2
           qu == CASE outcome = "Panic" -> "cut"
                   [] outcome \in {"Reading", "Ok"} -> "whole"
                   [] OTHER -> "malformed"
           ty == IF question = <<>> THEN "other" ELSE TypeName(question[1])
           r == IsReply(bytes)
           ac == is_acme_challenge
<1>1. message = [short |-> FALSE, reply |-> r, opcode |-> op, num_questions |-> nq, question |-> qu,
                 query_type |-> ty, acme |-> ac, name |-> name]
  BY DEF message
<1>2. op \in {"Standard", "Inverse", "Status", "Other"} /\ (op = "Standard" <=> opcode(bytes) = 0)
  OBVIOUS
<1>3. nq \in 0..2 /\ (nq = 1 <=> n = 1)
  <2>1. n \in Nat
    <3>1. bytes \in Seq(Byte) /\ Len(bytes) >= LENGTH
      <4>1. bytes \in Seq(Byte) /\ cursor \in LENGTH..Len(bytes) /\ cursor \in Nat
        BY Parts DEF ReaderInv
      <4> QED
        BY <4>1 DEF LENGTH
    <3>2. bytes[5] \in Nat /\ bytes[6] \in Nat
      <4>1. bytes[5] \in Byte /\ bytes[6] \in Byte
        BY <3>1 DEF LENGTH
      <4> QED
        BY <4>1, Bytes
    <3>3. n = bytes[5] * 256 + bytes[6]
      BY DEF num_questions, u16_at
    <3> QED
      BY <3>2, <3>3
  <2> HIDE DEF n
  <2> QED
    BY <2>1
<1>4. /\ qu \in {"whole", "malformed", "cut"}
      /\ qu = "cut" <=> outcome = "Panic"
      /\ qu = "malformed" <=> outcome \notin {"Reading", "Ok", "Panic"}
  OBVIOUS
<1>5. ty \in {"A", "NS", "SOA", "TXT", "AAAA", "other"}
  BY TypeNames
<1>6. r \in BOOLEAN /\ ac \in BOOLEAN
  BY DEF IsReply, is_acme_challenge
<1>7. name \in Seq(Byte)
  BY Parts DEF ReaderInv
<1> HIDE DEF op, n, nq, qu, ty, r, ac
<1>8. message \in Handler!Message
  BY <1>1, <1>2, <1>3, <1>4, <1>5, <1>6, <1>7 DEF Handler!Message, Handler!QueryTypes
<1>9. /\ ~message.short /\ message.reply = r /\ message.opcode = op /\ message.num_questions = nq
      /\ message.question = qu /\ message.query_type = ty /\ message.acme = ac
  BY <1>1
<1> QED
  BY <1>2, <1>3, <1>4, <1>8, <1>9 DEF n, r, ac, ty

\* A response that has no answers.
LEMMA EmptyIsTold ==
  ASSUME response.answers = <<>>
  PROVE  ValuesTold = <<>> /\ ResponseTold = Handler!Response(response.rcode, <<>>)
<1>1. DOMAIN response.answers = {}
  BY SMT
<1>2. \A f : DOMAIN f = {} /\ f = [k \in DOMAIN f |-> f[k]] => f = <<>>
  BY SMT
<1> DEFINE v == [k \in DOMAIN response.answers |-> Tail(response.answers[k].value)]
           t == [k \in DOMAIN response.answers |->
                   LET a == response.answers[k] IN
                   Handler!Answer(TypeName(a.query_type),
                                  IF a.query_type = QueryType.TXT THEN Tail(a.value) ELSE "fixed")]
<1>3. v = <<>>
  BY <1>1
<1>4. t = <<>>
  BY <1>1
<1>5. ResponseTold = Handler!Response(response.rcode, t)
  BY Zenon DEF ResponseTold
<1> HIDE DEF v, t
<1>6. ValuesTold = IF message.query_type = "TXT" THEN v ELSE <<>>
  BY DEF ValuesTold, v
<1> QED
  BY <1>3, <1>4, <1>5, <1>6

\* The answers to a question for values.
LEMMA ValuesAreTold ==
  ASSUME IsSequence(response.answers), WireInv, message.query_type = "TXT",
         \A k \in DOMAIN response.answers : response.answers[k].query_type = QueryType.TXT
  PROVE  /\ ValuesTold \in Seq(Values)
         /\ ValuesTold = <<>> <=> response.answers = <<>>
         /\ ResponseTold = Handler!Response(response.rcode,
                             [k \in DOMAIN ValuesTold |-> Handler!Answer("TXT", ValuesTold[k])])
<1> DEFINE a == response.answers
           n == Len(a)
           v == [k \in 1..n |-> Tail(a[k].value)]
           t == [k \in DOMAIN a |->
                   Handler!Answer(TypeName(a[k].query_type),
                                  IF a[k].query_type = QueryType.TXT THEN Tail(a[k].value) ELSE "fixed")]
<1>1. n \in Nat /\ DOMAIN a = 1..n /\ (n = 0 <=> a = <<>>)
  BY DEF IsSequence
<1>2. \A k \in 1..n : Tail(a[k].value) \in Values
  <2> SUFFICES ASSUME NEW k \in 1..n PROVE Tail(a[k].value) \in Values
    OBVIOUS
  <2>1. IsData(a[k].query_type, a[k].value, a[k].name) /\ a[k].query_type = QueryType.TXT
    BY <1>1 DEF WireInv
  <2>2. PICK value \in Values : a[k].value = u8(Len(value)) \o value
    BY <2>1 DEF IsData
  <2>3. value \in Seq(Byte)
    BY StringBytes
  <2>4. Tail(u8(Len(value)) \o value) = value
    <3> DEFINE b == Len(value) % 256
    <3>1. u8(Len(value)) = <<b>>
      BY DEF u8
    <3> HIDE DEF b
    <3>2. Tail(<<b>> \o value) = value
      BY <2>3
    <3> QED
      BY <3>1, <3>2
  <2> QED
    BY <2>2, <2>4
<1>3. ValuesTold = v
  BY <1>1 DEF ValuesTold
<1>4. t = [k \in DOMAIN v |-> Handler!Answer("TXT", v[k])]
  <2>1. TypeName(QueryType.TXT) = "TXT"
    BY TypeNames
  <2>2. DOMAIN v = DOMAIN a /\ \A k \in DOMAIN a : v[k] = Tail(a[k].value)
    BY <1>1
  <2> HIDE DEF v
  <2>3. \A k \in DOMAIN a :
           Handler!Answer(TypeName(a[k].query_type),
                          IF a[k].query_type = QueryType.TXT THEN Tail(a[k].value) ELSE "fixed")
             = Handler!Answer("TXT", v[k])
    BY <2>1, <2>2
  <2> QED
    BY <2>2, <2>3
<1>5. ResponseTold = Handler!Response(response.rcode, t)
  BY Zenon DEF ResponseTold
<1>6. v \in Seq(Values) /\ (v = <<>> <=> a = <<>>)
  <2>1. Len(v) = n /\ v \in Seq(Values)
    BY <1>1, <1>2
  <2>2. v = <<>> <=> Len(v) = 0
    BY <2>1
  <2> QED
    BY <1>1, <2>1, <2>2
<1> HIDE DEF v, t
<1> QED
  BY <1>3, <1>4, <1>5, <1>6

\* At most one answer that tells no value.
LEMMA OneIsTold ==
  ASSUME IsSequence(response.answers), Len(response.answers) <= 1,
         message.query_type # "TXT", message.query_type # "other",
         \A k \in DOMAIN response.answers :
           /\ response.answers[k].query_type # QueryType.TXT
           /\ TypeName(response.answers[k].query_type) = message.query_type
  PROVE  /\ ValuesTold = <<>>
         /\ ResponseTold = Handler!Response(response.rcode,
              Handler!AnswerIf(response.answers # <<>>, message.query_type))
<1>1. ValuesTold = <<>>
  BY DEF ValuesTold
<1>2. CASE response.answers = <<>>
  BY <1>1, <1>2, EmptyIsTold DEF Handler!AnswerIf
<1>3. CASE response.answers # <<>>
  <2> DEFINE a == response.answers
             m == message.query_type
             t == [k \in DOMAIN a |->
                     Handler!Answer(TypeName(a[k].query_type),
                                    IF a[k].query_type = QueryType.TXT THEN Tail(a[k].value) ELSE "fixed")]
  <2>1. DOMAIN a = {1}
    <3>1. Len(a) = 1 /\ DOMAIN a = 1..1
      <4>1. PICK S : a \in Seq(S)
        BY DEF IsSequence
      <4> DEFINE n == Len(a)
      <4>2. n \in Nat /\ n # 0 /\ n <= 1 /\ DOMAIN a = 1..n
        BY <1>3, <4>1
      <4> HIDE DEF n
      <4>3. n = 1
        BY <4>2
      <4> QED
        BY <4>2, <4>3 DEF n
    <3> QED
      BY <3>1
  <2>2. \A k \in DOMAIN a :
           Handler!Answer(TypeName(a[k].query_type),
                          IF a[k].query_type = QueryType.TXT THEN Tail(a[k].value) ELSE "fixed")
             = Handler!Answer(m, "fixed")
    OBVIOUS
  <2>3. t = [k \in {1} |-> Handler!Answer(m, "fixed")]
    BY <2>1, <2>2
  <2>4. t = <<Handler!Answer(m, "fixed")>>
    <3> DEFINE x == Handler!Answer(m, "fixed")
    <3> HIDE DEF x
    <3>1. [k \in {1} |-> x] = <<x>>
      OBVIOUS
    <3> QED
      BY <2>3, <3>1 DEF x
  <2>5. ResponseTold = Handler!Response(response.rcode, t)
    BY Zenon DEF ResponseTold
  <2> HIDE DEF t
  <2> QED
    BY <1>1, <1>3, <2>4, <2>5 DEF Handler!AnswerIf
<1> QED
  BY <1>2, <1>3

\* What becomes of a message that has a question for a challenge.
LEMMA AnswerIsDecided ==
  ASSUME ReaderInv, ResponseInv, WireInv, DecisionInv, Sent, outcome = "Ok", Processes
  PROVE  /\ ValuesTold \in Seq(Values)
         /\ Handler!ReadMessageResult(message) = "Process"
         /\ \E found \in BOOLEAN :
              ResponseTold = Handler!handle_request(message, ValuesTold, found)
<1> DEFINE m == message
           a == response.answers
           found == response.answers # <<>>
           t == m.query_type
<1>1. /\ AsksOne /\ ~IsReply(bytes) /\ response.query = <<Query>>
      /\ response.rcode = IF a = <<>> THEN "NXDomain" ELSE "NoError"
      /\ Asked("A") => (a = <<>> <=> V4 = <<>>)
      /\ Asked("AAAA") => (a = <<>> <=> V6 = <<>>)
  BY DEF DecisionInv, Routed, Coded, Unanswered, Sent
<1>2. Question.query_type = question[1] /\ question # <<>>
  <2>1. Question = Query
    BY <1>1 DEF Question
  <2>2. Query.query_type = question[1]
    BY DEF Query
  <2>3. question # <<>>
    BY DEF ReaderInv, Whole
  <2> QED
    BY <2>1, <2>2, <2>3
<1>3. /\ t \in DOMAIN QueryType
      /\ \A c : c = Question.query_type => TypeName(c) = t
      /\ \A x : Asked(x) <=> QueryType[t] = QueryType[x]
  <2>1. IsValid(Question.query_type)
    BY DEF Processes
  <2>2. t = TypeName(Question.query_type)
    BY <1>2, MessageFields
  <2>3. QueryType[t] = Question.query_type
    BY <2>1, <2>2, TypeNames
  <2> QED
    BY <2>1, <2>2, <2>3, TypeNames DEF Asked
<1>4. \A k \in DOMAIN a : a[k].query_type = Question.query_type
  BY DEF ResponseInv, Responds
<1>5. IsSequence(a) /\ (~Asked("TXT") => Len(a) <= 1)
  <2>1. IsSequence(a)
    BY DEF ResponseInv
  <2>2. Len(a) \in Nat
    BY <2>1 DEF IsSequence
  <2>3. ~Asked("TXT") => ~ (Len(a) > 1)
    BY DEF DecisionInv, Few
  <2> QED
    BY <2>1, <2>2, <2>3
<1>6. /\ m.opcode = "Standard" /\ m.num_questions = 1 /\ m.question # "malformed"
      /\ m.acme
  <2>1. m.acme
    <3>1. Question.is_acme_challenge <=> is_acme_challenge
      BY <1>1 DEF Question, Query
    <3> QED
      BY <3>1, MessageFields DEF Processes
  <2> QED
    BY <1>1, <2>1, MessageFields DEF AsksOne
<1>7. t # "other" /\ t \in {"A", "NS", "SOA", "TXT", "AAAA"}
  BY <1>3, TypeNames
<1> HIDE DEF m
<1>8. Handler!ReadMessageResult(m) = "Process"
  BY <1>6, <1>7 DEF Handler!ReadMessageResult
<1>9. /\ ValuesTold \in Seq(Values)
      /\ ResponseTold = Handler!Response(response.rcode, Handler!Answers(m, ValuesTold, found))
      /\ Handler!Answers(m, ValuesTold, found) = <<>> <=> a = <<>>
  <2>1. CASE t = "TXT"
    <3>1. Asked("TXT")
      BY <1>3, <2>1
    <3>2. \A k \in DOMAIN a : a[k].query_type = QueryType.TXT
      BY <1>4, <3>1 DEF Asked
    <3>3. /\ ValuesTold \in Seq(Values)
          /\ ValuesTold = <<>> <=> a = <<>>
          /\ ResponseTold = Handler!Response(response.rcode,
                              [k \in DOMAIN ValuesTold |-> Handler!Answer("TXT", ValuesTold[k])])
      BY <1>5, <2>1, <3>2, ValuesAreTold DEF m
    <3> DEFINE v == ValuesTold
               w == [k \in DOMAIN v |-> Handler!Answer("TXT", v[k])]
    <3>4. Handler!Answers(m, ValuesTold, found) = w
      BY <2>1 DEF Handler!Answers
    <3>5. w = <<>> <=> v = <<>>
      <4>1. v \in Seq(Values)
        BY <3>3
      <4> HIDE DEF v
      <4>2. DOMAIN v = 1..Len(v) /\ Len(v) \in Nat
        BY <4>1
      <4>3. w \in Seq(Range(w))
        <5>1. DOMAIN w = 1..Len(v)
          BY <4>2
        <5>2. w = [k \in 1..Len(v) |-> w[k]]
          BY <5>1
        <5>3. \A k \in 1..Len(v) : w[k] \in Range(w)
          BY <5>1 DEF Range
        <5> HIDE DEF w
        <5> QED
          BY <4>2, <5>2, <5>3
      <4>4. DOMAIN w = DOMAIN v
        OBVIOUS
      <4> HIDE DEF w
      <4>5. DOMAIN w = 1..Len(w) /\ Len(w) \in Nat
        BY <4>3
      <4>6. Len(w) = Len(v)
        BY <4>2, <4>4, <4>5
      <4> QED
        BY <4>1, <4>3, <4>6
    <3> QED
      BY <3>3, <3>4, <3>5
  <2>2. CASE t # "TXT"
    <3>1. ~Asked("TXT")
      BY <1>3, <1>7, <2>2, Types
    <3>2. \A k \in DOMAIN a : a[k].query_type # QueryType.TXT /\ TypeName(a[k].query_type) = t
      BY <1>3, <1>4, <3>1 DEF Asked
    <3>3. /\ ValuesTold = <<>>
          /\ ResponseTold = Handler!Response(response.rcode, Handler!AnswerIf(found, t))
      BY <1>5, <1>7, <2>2, <3>1, <3>2, OneIsTold DEF m
    <3>4. Handler!Answers(m, ValuesTold, found) = Handler!AnswerIf(found, t)
      <4>1. CASE t = "SOA" \/ t = "NS"
        BY <4>1 DEF Handler!Answers
      <4>2. CASE t = "A"
        <5>1. found <=> V4 # <<>>
          BY <1>1, <1>3, <4>2
        <5> QED
          BY <4>2, <5>1 DEF Handler!Answers, Handler!AnswerIf
      <4>3. CASE t = "AAAA"
        <5>1. found <=> V6 # <<>>
          BY <1>1, <1>3, <4>3
        <5> QED
          BY <4>3, <5>1 DEF Handler!Answers, Handler!AnswerIf
      <4> QED
        BY <1>7, <2>2, <4>1, <4>2, <4>3
    <3>5. Handler!AnswerIf(found, t) = <<>> <=> a = <<>>
      BY DEF Handler!AnswerIf
    <3>6. <<>> \in Seq(Values)
      OBVIOUS
    <3> QED
      BY <3>3, <3>4, <3>5, <3>6
  <2> QED
    BY <2>1, <2>2
<1>10. Handler!handle_request(m, ValuesTold, found)
         = Handler!Response(response.rcode, Handler!Answers(m, ValuesTold, found))
  BY <1>1, <1>8, <1>9, Zenon DEF Handler!handle_request
<1>11. found \in BOOLEAN
  OBVIOUS
<1> HIDE DEF found
<1>12. ResponseTold = Handler!handle_request(m, ValuesTold, found)
  BY <1>9, <1>10
<1> QED
  BY <1>8, <1>9, <1>11, <1>12 DEF m

\* What becomes of any other message that gets a response.
LEMMA RefusalIsDecided ==
  ASSUME ReaderInv, ResponseInv, DecisionInv, Sent, ~ (outcome = "Ok" /\ Processes)
  PROVE  /\ ValuesTold \in Seq(Values)
         /\ \E found \in BOOLEAN :
              ResponseTold = Handler!handle_request(message, ValuesTold, found)
<1> DEFINE m == message
           rcode == response.rcode
<1>1. /\ opcode(bytes) # 0 => rcode = "Refused"
      /\ opcode(bytes) = 0 /\ num_questions(bytes) # 1 => rcode = "FormErr"
      /\ AsksOne => outcome # "Reading"
      /\ AsksOne /\ outcome # "Ok" => rcode = "FormErr"
      /\ outcome = "Ok" => ~Processes /\ rcode = "Refused" /\ response.query = <<Query>>
      /\ outcome # "Panic"
  BY DEF DecisionInv, Routed, Coded, Sent
<1>2. rcode # "NoError" /\ rcode # "Process"
  BY <1>1 DEF AsksOne
<1>3. response.answers = <<>>
  BY <1>2 DEF ResponseInv, Responds
<1>4. Handler!ReadMessageResult(m) = rcode
  <2>1. /\ m.opcode = "Standard" <=> opcode(bytes) = 0
        /\ m.num_questions = 1 <=> num_questions(bytes) = 1
        /\ m.question = "malformed" <=> outcome \notin {"Reading", "Ok", "Panic"}
    BY MessageFields
  <2>2. outcome = "Ok" => m.query_type = "other" \/ ~m.acme
    <3> SUFFICES ASSUME outcome = "Ok" PROVE m.query_type = "other" \/ ~m.acme
      OBVIOUS
    <3>1. Question = Query
      BY <1>1 DEF Question
    <3>2. Query.query_type = question[1] /\ (Query.is_acme_challenge <=> is_acme_challenge)
      BY DEF Query
    <3>3. ~IsValid(question[1]) \/ ~is_acme_challenge
      BY <1>1, <3>1, <3>2 DEF Processes
    <3> QED
      BY <3>3, MessageFields, TypeNames
  <2> HIDE DEF m
  <2> QED
    BY <1>1, <2>1, <2>2 DEF Handler!ReadMessageResult, AsksOne
<1>5. ValuesTold = <<>> /\ ResponseTold = Handler!Response(rcode, <<>>)
  BY <1>3, EmptyIsTold
<1>6. Handler!handle_request(m, ValuesTold, TRUE) = Handler!Response(rcode, <<>>)
  BY <1>2, <1>4 DEF Handler!handle_request
<1>7. <<>> \in Seq(Values)
  OBVIOUS
<1> HIDE DEF rcode
<1> QED
  BY <1>5, <1>6, <1>7

\* At every moment the message is as DnsHandler has it.
LEMMA DecisionIsThat ==
  ASSUME ReaderInv, ResponseInv, WireInv, DecisionInv
  PROVE  DecisionsAgree
<1>1. message \in Handler!Message
  BY MessageFields
<1>2. state = "ignored" => Handler!DontRespond(message)
  BY MessageFields DEF DecisionInv, Routed, Handler!DontRespond
<1>3. outcome = "Panic" => Handler!Panics(message)
  BY MessageFields DEF DecisionInv, Routed, AsksOne, Handler!Panics, Handler!DontRespond
<1>4. Sent => ~Handler!DontRespond(message) /\ ~Handler!Panics(message)
  BY MessageFields DEF DecisionInv, Routed, Sent, Handler!Panics, Handler!DontRespond
<1>5. Sent => /\ ValuesTold \in Seq(Values)
              /\ \E found \in BOOLEAN :
                   ResponseTold = Handler!handle_request(message, ValuesTold, found)
  BY AnswerIsDecided, RefusalIsDecided
<1> QED
  BY <1>1, <1>2, <1>3, <1>4, <1>5, Zenon DEF DecisionsAgree

\* The bytes of a message and the record that Server has for it come to the same:
\* ignored, the end of the process, or a response with the same code and the same
\* answers, for any message, values and addresses.
THEOREM HandlerDecides == RSpec => []DecisionsAgree
BY MessageCorrect, DecisionInit, DecisionInductive, DecisionIsThat, PTL DEF RSpec, MessageInv
================================================================================
