--------------------------- MODULE ChallengesProofs ---------------------------
(* Proofs about the list of challenges for every MAX_LEN and every set of  *)
(* domains, names and values.                                              *)
EXTENDS Challenges, FiniteSetTheorems, TLAPS

-----------------------------------------------------------------------------
(* What set and cleanup do to the list.                                    *)

\* The size of an interval that starts after a.
LEMMA IntervalFacts ==
  /\ \A b \in Nat : IsFiniteSet(1..b) /\ Cardinality(1..b) = b
  /\ \A b \in Nat : \A a \in 0..b :
       IsFiniteSet((a + 1)..b) /\ Cardinality((a + 1)..b) = b - a
<1>1. ASSUME NEW b \in Nat, NEW a \in 0..b
      PROVE  IsFiniteSet((a + 1)..b) /\ Cardinality((a + 1)..b) = b - a
  <2>1. /\ IsFiniteSet((a + 1)..b)
        /\ Cardinality((a + 1)..b) = IF (a + 1) > b THEN 0 ELSE b - (a + 1) + 1
    BY FS_Interval
  <2> QED
    BY <2>1
<1>2. ASSUME NEW b \in Nat
      PROVE  IsFiniteSet(1..b) /\ Cardinality(1..b) = b
  <2>1. 0 \in 0..b /\ 0 + 1 = 1 /\ b - 0 = b
    OBVIOUS
  <2> QED
    BY <1>1, <2>1
<1> QED
  BY <1>1, <1>2

\* Picking positions of a list in order keeps every picked element, and none
\* ends up further from the back than it was.
LEMMA AtFacts ==
  ASSUME NEW S, NEW l \in Seq(S), NEW P \in SUBSET (1..Len(l)), NEW m \in At(l, P)
  PROVE  /\ m \in Seq(S)
         /\ Len(m) = Cardinality(P) /\ Len(m) <= Len(l)
         /\ \A k \in 1..Len(m) : \E i \in P : m[k] = l[i]
         /\ \A i \in P : \E k \in 1..Len(m) : m[k] = l[i] /\ Len(m) - k <= Len(l) - i
<1> DEFINE n == Cardinality(P)
<1>1. IsFiniteSet(P) /\ n \in Nat /\ n <= Len(l) /\ Len(l) \in Nat
  <2>1. Len(l) \in Nat
    OBVIOUS
  <2>2. IsFiniteSet(1..Len(l)) /\ Cardinality(1..Len(l)) = Len(l)
    BY <2>1, IntervalFacts
  <2> QED
    BY <2>1, <2>2, FS_Subset, FS_CardinalityType
<1>2. PICK pos \in [1..n -> P] : Ascending(pos) /\ m = [k \in 1..n |-> l[pos[k]]]
  BY DEF At
<1> HIDE DEF n
<1>3. m \in Seq(S) /\ Len(m) = n /\ \A k \in 1..n : m[k] = l[pos[k]] /\ pos[k] \in P
  <2>1. ASSUME NEW k \in 1..n
        PROVE  pos[k] \in P /\ l[pos[k]] \in S
    <3>1. pos[k] \in P
      BY <1>2
    <3>2. pos[k] \in 1..Len(l)
      BY <3>1
    <3> QED
      BY <3>1, <3>2
  <2>2. m \in [1..n -> S]
    BY <1>2, <2>1
  <2> QED
    BY <1>1, <1>2, <2>1, <2>2
<1>4. ASSUME NEW j \in 1..n, NEW k \in 1..n, pos[j] = pos[k]
      PROVE  j = k
  <2>1. pos[j] \in Nat /\ j \in Nat /\ k \in Nat /\ j \in DOMAIN pos /\ k \in DOMAIN pos
    <3>1. pos[j] \in P /\ j \in DOMAIN pos /\ k \in DOMAIN pos
      BY <1>2
    <3>2. pos[j] \in 1..Len(l)
      BY <3>1
    <3> QED
      BY <1>1, <3>1, <3>2
  <2>2. ~(j < k) /\ ~(k < j)
    BY <1>2, <1>4, <2>1 DEF Ascending
  <2> QED
    BY <2>1, <2>2
<1>5. \A i \in P : \E k \in 1..n : pos[k] = i
  <2>1. pos \in Injection(1..n, P)
    BY <1>2, <1>4 DEF Injection, IsInjective
  <2>2. Cardinality(1..n) = Cardinality(P)
    BY <1>1, IntervalFacts DEF n
  <2>3. pos \in Surjection(1..n, P)
    BY <1>1, <2>1, <2>2, FS_Injection
  <2> QED
    BY <2>3 DEF Surjection
<1>6. ASSUME NEW i \in P, NEW k \in 1..n, pos[k] = i
      PROVE  n - k <= Len(l) - i
  <2> DEFINE later == [j \in (k + 1)..n |-> pos[j]]
  <2>1. ASSUME NEW j \in (k + 1)..n
        PROVE  pos[j] \in (i + 1)..Len(l)
    <3>1. j \in 1..n /\ k < j
      BY <1>1
    <3>2. pos[j] \in 1..Len(l) /\ j \in DOMAIN pos /\ k \in DOMAIN pos
      BY <1>2, <3>1
    <3>3. pos[k] < pos[j]
      BY <1>2, <3>1, <3>2 DEF Ascending
    <3> QED
      BY <1>1, <1>6, <3>2, <3>3
  <2>2. later \in Injection((k + 1)..n, (i + 1)..Len(l))
    BY <1>1, <1>4, <2>1 DEF Injection, IsInjective
  <2>3. IsFiniteSet((i + 1)..Len(l)) /\ Cardinality((i + 1)..Len(l)) = Len(l) - i
    BY <1>1, IntervalFacts
  <2>4. Cardinality((k + 1)..n) = n - k
    BY <1>1, IntervalFacts
  <2>5. Cardinality((k + 1)..n) <= Cardinality((i + 1)..Len(l))
    BY <2>2, <2>3, FS_Injection
  <2> QED
    BY <2>3, <2>4, <2>5
<1>7. \A k \in 1..n : \E i \in P : m[k] = l[i]
  BY <1>3
<1>8. ASSUME NEW i \in P
      PROVE  \E k \in 1..n : m[k] = l[i] /\ n - k <= Len(l) - i
  <2>1. PICK k \in 1..n : pos[k] = i
    BY <1>5
  <2>2. m[k] = l[i] /\ n - k <= Len(l) - i
    BY <1>3, <1>6, <2>1
  <2> QED
    BY <2>2
<1>9. m \in Seq(S) /\ Len(m) = n /\ n <= Len(l)
  BY <1>1, <1>3
<1> QED
  BY <1>7, <1>8, <1>9 DEF n

\* The positions can be listed in order: each has its rank, the number of those
\* up to it.
LEMMA AtExists ==
  ASSUME NEW S, NEW l \in Seq(S), NEW P \in SUBSET (1..Len(l))
  PROVE  At(l, P) # {}
<1> DEFINE n == Cardinality(P)
           UpTo(i) == {j \in P : j <= i}
           rank == [i \in P |-> Cardinality(UpTo(i))]
<1>1. IsFiniteSet(P) /\ n \in Nat /\ P \subseteq Nat
  <2>1. Len(l) \in Nat
    OBVIOUS
  <2>2. IsFiniteSet(1..Len(l))
    BY <2>1, IntervalFacts
  <2>3. IsFiniteSet(P)
    BY <2>2, FS_Subset
  <2>4. P \subseteq Nat
    BY <2>1
  <2> QED
    BY <2>3, <2>4, FS_CardinalityType
<1>2. ASSUME NEW i \in P
      PROVE  IsFiniteSet(UpTo(i)) /\ Cardinality(UpTo(i)) \in 1..n
  <2>1. UpTo(i) \in SUBSET P /\ i \in UpTo(i)
    BY <1>1
  <2>2. IsFiniteSet(UpTo(i)) /\ Cardinality(UpTo(i)) <= n /\ Cardinality(UpTo(i)) \in Nat
    BY <1>1, <2>1, FS_Subset, FS_CardinalityType
  <2>3. Cardinality(UpTo(i)) # 0
    BY <2>1, <2>2, FS_EmptySet
  <2> QED
    BY <1>1, <2>2, <2>3
<1>3. ASSUME NEW i \in P, NEW j \in P, i < j
      PROVE  Cardinality(UpTo(i)) < Cardinality(UpTo(j))
  <2>0. i \in Nat /\ j \in Nat /\ \A k \in P : k \in Nat
    BY <1>1
  <2>1. UpTo(i) \in SUBSET UpTo(j) /\ UpTo(i) # UpTo(j)
    <3>1. \A k \in P : k <= i => k <= j
      BY <1>3, <2>0
    <3>2. j \in UpTo(j) /\ j \notin UpTo(i)
      BY <1>3, <2>0
    <3> QED
      BY <3>1, <3>2
  <2>2. Cardinality(UpTo(i)) <= Cardinality(UpTo(j)) /\ Cardinality(UpTo(i)) # Cardinality(UpTo(j))
    BY <1>2, <2>1, FS_Subset
  <2>3. Cardinality(UpTo(i)) \in Nat /\ Cardinality(UpTo(j)) \in Nat
    BY <1>2, FS_CardinalityType
  <2> QED
    BY <2>2, <2>3
<1> HIDE DEF UpTo
<1>4. rank \in [P -> 1..n] /\ \A i \in P : rank[i] = Cardinality(UpTo(i))
  BY <1>2
<1>5. \A i, j \in P : i < j => rank[i] < rank[j]
  BY <1>3, <1>4
<1> HIDE DEF rank, n
<1>6. rank \in Bijection(P, 1..n)
  <2>1. \A i, j \in P : rank[i] = rank[j] => i = j
    <3> SUFFICES ASSUME NEW i \in P, NEW j \in P, rank[i] = rank[j]
                 PROVE  i = j
      OBVIOUS
    <3>1. rank[i] \in Nat /\ i \in Nat /\ j \in Nat
      BY <1>1, <1>4
    <3>2. ~(i < j) /\ ~(j < i)
      BY <1>5, <3>1
    <3> QED
      BY <3>1, <3>2
  <2>2. rank \in Injection(P, 1..n)
    BY <1>4, <2>1 DEF Injection, IsInjective
  <2>3. IsFiniteSet(1..n) /\ Cardinality(1..n) = Cardinality(P)
    BY <1>1, IntervalFacts DEF n
  <2>4. rank \in Surjection(P, 1..n)
    BY <2>2, <2>3, FS_Injection
  <2> QED
    BY <2>2, <2>4 DEF Bijection
<1> DEFINE pos == [k \in 1..n |-> CHOOSE i \in P : rank[i] = k]
<1>7. \A k \in 1..n : pos[k] \in P /\ rank[pos[k]] = k
  BY <1>6 DEF Bijection, Surjection
<1>8. pos \in [1..n -> P] /\ DOMAIN pos = 1..n
  BY <1>7
<1> HIDE DEF pos
<1>9. Ascending(pos)
  <2> SUFFICES ASSUME NEW j \in 1..n, NEW k \in 1..n, j < k
               PROVE  pos[j] < pos[k]
    BY <1>8 DEF Ascending
  <2>1. pos[j] \in P /\ pos[k] \in P /\ rank[pos[j]] = j /\ rank[pos[k]] = k
    BY <1>7
  <2>2. pos[j] \in Nat /\ pos[k] \in Nat
    BY <1>1, <2>1
  <2>3. j \in Nat /\ k \in Nat
    BY <1>1
  <2>4. ~(pos[k] < pos[j]) /\ pos[j] # pos[k]
    BY <1>5, <2>1, <2>2, <2>3
  <2> QED
    BY <2>2, <2>4
<1> QED
  BY <1>8, <1>9 DEF At, n

\* A cleanup leaves exactly the other challenges, each as close to the back
\* as it was or closer.
LEMMA DroppedFacts ==
  ASSUME NEW l \in Seq(Challenge), NEW c, NEW m \in Dropped(l, c)
  PROVE  /\ m \in Seq(Challenge)
         /\ Len(m) <= Len(l)
         /\ \A k \in 1..Len(m) : m[k] # c /\ \E i \in 1..Len(l) : m[k] = l[i]
         /\ \A i \in 1..Len(l) : l[i] # c =>
              \E k \in 1..Len(m) : m[k] = l[i] /\ Len(m) - k <= Len(l) - i
         /\ IF \E i \in 1..Len(l) : l[i] = c THEN Len(m) < Len(l) ELSE Len(m) = Len(l)
<1> DEFINE P == {i \in DOMAIN l : l[i] # c}
<1>1. P \in SUBSET (1..Len(l)) /\ m \in At(l, P)
  BY DEF Dropped
<1>2. \A i \in 1..Len(l) : i \in P <=> l[i] # c
  OBVIOUS
<1> HIDE DEF P
<1>3. /\ m \in Seq(Challenge)
      /\ Len(m) = Cardinality(P) /\ Len(m) <= Len(l)
      /\ \A k \in 1..Len(m) : \E i \in P : m[k] = l[i]
      /\ \A i \in P : \E k \in 1..Len(m) : m[k] = l[i] /\ Len(m) - k <= Len(l) - i
  BY <1>1, AtFacts
<1>4. IF \E i \in 1..Len(l) : l[i] = c THEN Len(m) < Len(l) ELSE Len(m) = Len(l)
  <2>1. Len(l) \in Nat /\ Len(m) \in Nat
    BY <1>3
  <2>2. IsFiniteSet(1..Len(l)) /\ Cardinality(1..Len(l)) = Len(l)
    BY <2>1, IntervalFacts
  <2>3. Cardinality(P) = Len(l) => P = 1..Len(l)
    BY <1>1, <2>2, FS_Subset
  <2>4. CASE \E i \in 1..Len(l) : l[i] = c
    BY <1>2, <1>3, <2>1, <2>3, <2>4
  <2>5. CASE \A i \in 1..Len(l) : l[i] # c
    <3>1. P = 1..Len(l)
      BY <1>1, <1>2, <2>5
    <3> QED
      BY <1>3, <2>2, <2>5, <3>1
  <2> QED
    BY <2>4, <2>5
<1> QED
  BY <1>1, <1>2, <1>3, <1>4

\* named yields the values of the matching challenges and no others, and any
\* tells whether there are some (challenges.rs:53-69).
LEMMA NamedFacts ==
  ASSUME NEW l \in Seq(Challenge), NEW name
  PROVE  /\ named(l, name) \in Seq(Values)
         /\ \A k \in 1..Len(named(l, name)) :
              \E i \in 1..Len(l) : matches(l[i], name) /\ l[i].value = named(l, name)[k]
         /\ \A i \in 1..Len(l) : matches(l[i], name) =>
              \E k \in 1..Len(named(l, name)) : named(l, name)[k] = l[i].value
         /\ any(l, name) <=> named(l, name) # <<>>
<1> DEFINE P == {i \in DOMAIN l : matches(l[i], name)}
           found == CHOOSE m \in At(l, P) : TRUE
           r == named(l, name)
<1>1. P \in SUBSET (1..Len(l)) /\ \A i \in 1..Len(l) : i \in P <=> matches(l[i], name)
  OBVIOUS
<1>2. r = [k \in DOMAIN found |-> found[k].value]
  BY DEF named
<1>3. any(l, name) <=> P # {}
  BY DEF any
<1> HIDE DEF P, r
<1>4. found \in At(l, P)
  BY <1>1, AtExists
<1> HIDE DEF found
<1>5. /\ found \in Seq(Challenge)
      /\ \A k \in 1..Len(found) : \E i \in P : found[k] = l[i]
      /\ \A i \in P : \E k \in 1..Len(found) : found[k] = l[i]
  BY <1>1, <1>4, AtFacts
<1>6. /\ r \in Seq(Values) /\ Len(r) = Len(found) /\ Len(r) \in Nat
      /\ \A k \in 1..Len(r) : r[k] = found[k].value
  <2>1. \A k \in 1..Len(found) : found[k] \in Challenge
    BY <1>5
  <2>2. \A k \in 1..Len(found) : found[k].value \in Values
    BY <2>1 DEF Challenge
  <2>3. Len(found) \in Nat /\ DOMAIN found = 1..Len(found)
    BY <1>5
  <2>4. r \in [1..Len(found) -> Values]
    BY <1>2, <2>2, <2>3
  <2> QED
    BY <1>2, <2>3, <2>4
<1>7. P # {} <=> r # <<>>
  <2>1. P # {} <=> \E k \in 1..Len(r) : TRUE
    BY <1>5, <1>6
  <2> QED
    BY <1>6, <2>1
<1>8. \A k \in 1..Len(r) : \E i \in 1..Len(l) : matches(l[i], name) /\ l[i].value = r[k]
  <2> SUFFICES ASSUME NEW k \in 1..Len(r)
               PROVE  \E i \in 1..Len(l) : matches(l[i], name) /\ l[i].value = r[k]
    OBVIOUS
  <2>1. PICK i \in P : found[k] = l[i]
    BY <1>5, <1>6
  <2> QED
    BY <1>1, <1>6, <2>1
<1>9. \A i \in 1..Len(l) : matches(l[i], name) => \E k \in 1..Len(r) : r[k] = l[i].value
  <2> SUFFICES ASSUME NEW i \in 1..Len(l), matches(l[i], name)
               PROVE  \E k \in 1..Len(r) : r[k] = l[i].value
    OBVIOUS
  <2>1. PICK k \in 1..Len(found) : found[k] = l[i]
    BY <1>1, <1>5
  <2> QED
    BY <1>6, <2>1
<1>10. any(l, name) <=> r # <<>>
  BY <1>3, <1>7
<1> QED
  BY <1>6, <1>8, <1>9, <1>10 DEF r

\* A set appends its challenge and moves every other one a place away from
\* the back; what falls off the front was MAX_LEN places away.
PushedShape(l, c, r) ==
  /\ r \in Seq(Challenge)
  /\ Len(r) <= MAX_LEN /\ Len(r) >= 1
  /\ r[Len(r)] = c
  /\ \A k \in 1..Len(r) : r[k] = c \/ \E i \in 1..Len(l) : r[k] = l[i]
  /\ \A i \in 1..Len(l) : Len(l) - i + 1 < MAX_LEN =>
       \E k \in 1..Len(r) : r[k] = l[i] /\ Len(r) - k = Len(l) - i + 1

\* What push_back and pop_front leave behind (challenges.rs:43-46).
LEMMA PushedFacts ==
  ASSUME NEW l \in Seq(Challenge), NEW c \in Challenge, Len(l) <= MAX_LEN
  PROVE  PushedShape(l, c, Pushed(l, c))
<1> USE ListAssumption
<1> DEFINE longer == Append(l, c)
<1>1. /\ longer \in Seq(Challenge) /\ Len(longer) = Len(l) + 1 /\ Len(l) \in Nat
      /\ longer[Len(l) + 1] = c /\ \A i \in 1..Len(l) : longer[i] = l[i]
  OBVIOUS
<1>2. CASE Len(longer) > MAX_LEN
  <2>1. Pushed(l, c) = Tail(longer)
    BY <1>2 DEF Pushed
  <2> DEFINE m == Tail(longer)
  <2> HIDE DEF longer
  <2>2. /\ m \in Seq(Challenge) /\ Len(m) = Len(l) /\ Len(l) = MAX_LEN
        /\ \A k \in 1..Len(m) : m[k] = longer[k + 1]
    BY <1>1, <1>2
  <2> HIDE DEF m
  <2>3. ASSUME NEW i \in 1..Len(l), Len(l) - i + 1 < MAX_LEN
        PROVE  \E k \in 1..Len(m) : m[k] = l[i] /\ Len(m) - k = Len(l) - i + 1
    <3>1. i - 1 \in 1..Len(m) /\ (i - 1) + 1 = i
      BY <2>2, <2>3
    <3>2. m[i - 1] = l[i]
      BY <1>1, <2>2, <3>1
    <3>3. Len(m) - (i - 1) = Len(l) - i + 1
      BY <1>1, <2>2
    <3> QED
      BY <3>1, <3>2, <3>3
  <2>4. ASSUME NEW k \in 1..Len(m)
        PROVE  m[k] = c \/ \E i \in 1..Len(l) : m[k] = l[i]
    <3>1. m[k] = longer[k + 1]
      BY <2>2
    <3>2. CASE k + 1 \in 1..Len(l)
      BY <1>1, <3>1, <3>2
    <3>3. CASE k + 1 = Len(l) + 1
      BY <1>1, <3>1, <3>3
    <3>4. Len(l) \in Nat /\ Len(m) = Len(l)
      BY <1>1, <2>2
    <3>5. k + 1 \in 1..Len(l) \/ k + 1 = Len(l) + 1
      BY <3>4
    <3> QED
      BY <3>2, <3>3, <3>5
  <2>5. Len(m) <= MAX_LEN /\ Len(m) >= 1 /\ m[Len(m)] = c
    BY <1>1, <2>2
  <2>6. Pushed(l, c) = m
    BY <2>1 DEF m, longer
  <2>7. PushedShape(l, c, m)
    BY <2>2, <2>3, <2>4, <2>5 DEF PushedShape
  <2> QED
    BY <2>6, <2>7
<1>3. CASE Len(longer) <= MAX_LEN
  <2>1. Pushed(l, c) = longer
    BY <1>1, <1>3 DEF Pushed
  <2> HIDE DEF longer
  <2>2. ASSUME NEW i \in 1..Len(l)
        PROVE  \E k \in 1..Len(longer) :
                 longer[k] = l[i] /\ Len(longer) - k = Len(l) - i + 1
    <3>1. i \in 1..Len(longer) /\ longer[i] = l[i] /\ Len(longer) - i = Len(l) - i + 1
      BY <1>1
    <3> QED
      BY <3>1
  <2>3. ASSUME NEW k \in 1..Len(longer)
        PROVE  longer[k] = c \/ \E i \in 1..Len(l) : longer[k] = l[i]
    <3>1. CASE k \in 1..Len(l)
      BY <1>1, <3>1
    <3>2. CASE k = Len(l) + 1
      BY <1>1, <3>2
    <3> QED
      BY <1>1, <3>1, <3>2
  <2>4. Len(longer) >= 1 /\ longer[Len(longer)] = c
    BY <1>1
  <2>5. PushedShape(l, c, longer)
    BY <1>1, <1>3, <2>2, <2>3, <2>4 DEF PushedShape
  <2> QED
    BY <2>1, <2>5
<1> QED
  BY <1>1, <1>2, <1>3

-----------------------------------------------------------------------------
(* The invariants.                                                         *)

ListInv == TypeOK /\ NothingElse /\ AllPlaced

\* The new list is empty and nothing is wanted (challenges.rs:22-24).
LEMMA InitInv == Init => ListInv
BY ListAssumption DEF Init, ListInv, TypeOK, NothingElse, AllPlaced

\* set moves every entry by the place the new one takes (challenges.rs:42-47).
LEMMA SetKeepsInv ==
  ASSUME ListInv, NEW c \in Challenge, set(c)
  PROVE  ListInv'
<1> USE ListAssumption
<1>1. /\ list \in Seq(Challenge) /\ Len(list) <= MAX_LEN /\ Len(list) \in Nat
      /\ wanted \in SUBSET Challenge /\ since \in [Challenge -> 0..MAX_LEN]
  BY DEF ListInv, TypeOK
<1>2. /\ list' \in Seq(Challenge)
      /\ Len(list') <= MAX_LEN /\ Len(list') >= 1
      /\ list'[Len(list')] = c
      /\ \A k \in 1..Len(list') : list'[k] = c \/ \E i \in 1..Len(list) : list'[k] = list[i]
      /\ \A i \in 1..Len(list) : Len(list) - i + 1 < MAX_LEN =>
           \E k \in 1..Len(list') :
             list'[k] = list[i] /\ Len(list') - k = Len(list) - i + 1
  <2>1. PushedShape(list, c, list')
    BY <1>1, PushedFacts DEF set
  <2> QED
    BY <2>1 DEF PushedShape
<1>3. wanted' = wanted \cup {c}
  BY DEF set
<1>4. \A d \in Challenge : since'[d] = IF d = c THEN 0
                               ELSE IF since[d] < MAX_LEN THEN since[d] + 1 ELSE since[d]
  BY DEF set
<1>5. since' \in [Challenge -> 0..MAX_LEN]
  BY <1>1 DEF set
<1>6. NothingElse'
  <2> SUFFICES ASSUME NEW k \in 1..Len(list')
               PROVE  list'[k] \in wanted'
    BY <1>2 DEF NothingElse
  <2>1. \A i \in 1..Len(list) : list[i] \in wanted
    BY <1>1 DEF ListInv, NothingElse
  <2> QED
    BY <1>2, <1>3, <2>1
<1>7. ASSUME NEW d \in wanted', since'[d] < MAX_LEN
      PROVE  \E k \in 1..Len(list') : list'[k] = d /\ Len(list') - k <= since'[d]
  <2>0. d \in Challenge /\ Len(list') \in Nat
    BY <1>1, <1>2, <1>3
  <2>1. CASE d = c
    <3>1. Len(list') \in 1..Len(list') /\ since'[d] = 0 /\ Len(list') - Len(list') = 0
      BY <1>2, <1>4, <2>0, <2>1
    <3> QED
      BY <1>2, <2>1, <3>1
  <2>2. CASE d # c
    <3>1. d \in wanted /\ since[d] \in Nat
      BY <1>1, <1>3, <2>0, <2>2
    <3>2. since'[d] = since[d] + 1 /\ since[d] + 1 < MAX_LEN
      BY <1>4, <1>7, <2>0, <2>2, <3>1
    <3>3. PICK i \in 1..Len(list) : list[i] = d /\ Len(list) - i <= since[d]
      BY <1>1, <3>1, <3>2 DEF ListInv, AllPlaced, Placed
    <3>4. Len(list) - i + 1 < MAX_LEN
      BY <1>1, <3>1, <3>2, <3>3
    <3>5. PICK k \in 1..Len(list') :
                 list'[k] = list[i] /\ Len(list') - k = Len(list) - i + 1
      BY <1>2, <3>4
    <3>6. Len(list') - k <= since'[d]
      BY <1>1, <3>1, <3>2, <3>3, <3>5
    <3> QED
      BY <3>3, <3>5, <3>6
  <2> QED
    BY <2>1, <2>2
<1>8. AllPlaced'
  BY <1>2, <1>7 DEF AllPlaced, Placed
<1> QED
  BY <1>1, <1>2, <1>3, <1>5, <1>6, <1>8 DEF ListInv, TypeOK

\* cleanup moves no entry away from the back (challenges.rs:49-51).
LEMMA CleanupKeepsInv ==
  ASSUME ListInv, NEW c \in Challenge, cleanup(c)
  PROVE  ListInv'
<1> USE ListAssumption
<1>1. /\ list \in Seq(Challenge) /\ Len(list) <= MAX_LEN /\ Len(list) \in Nat
      /\ wanted \in SUBSET Challenge /\ since \in [Challenge -> 0..MAX_LEN]
  BY DEF ListInv, TypeOK
<1>2. /\ list' \in Seq(Challenge)
      /\ Len(list') <= Len(list)
      /\ \A k \in 1..Len(list') :
           list'[k] # c /\ \E i \in 1..Len(list) : list'[k] = list[i]
      /\ \A i \in 1..Len(list) : list[i] # c =>
           \E k \in 1..Len(list') : list'[k] = list[i] /\ Len(list') - k <= Len(list) - i
  BY <1>1, DroppedFacts DEF cleanup
<1>3. wanted' = wanted \ {c} /\ since' = since
  BY DEF cleanup
<1>4. NothingElse'
  <2> SUFFICES ASSUME NEW k \in 1..Len(list')
               PROVE  list'[k] \in wanted'
    BY <1>2 DEF NothingElse
  <2>1. \A i \in 1..Len(list) : list[i] \in wanted
    BY <1>1 DEF ListInv, NothingElse
  <2> QED
    BY <1>2, <1>3, <2>1
<1>5. ASSUME NEW d \in wanted', since'[d] < MAX_LEN
      PROVE  \E k \in 1..Len(list') : list'[k] = d /\ Len(list') - k <= since'[d]
  <2>1. d \in wanted /\ d # c /\ since[d] \in Nat /\ since[d] < MAX_LEN
    BY <1>1, <1>3, <1>5
  <2>2. PICK i \in 1..Len(list) : list[i] = d /\ Len(list) - i <= since[d]
    BY <1>1, <2>1 DEF ListInv, AllPlaced, Placed
  <2>3. PICK k \in 1..Len(list') :
               list'[k] = list[i] /\ Len(list') - k <= Len(list) - i
    BY <1>2, <2>1, <2>2
  <2>4. Len(list') \in Nat
    BY <1>2
  <2>5. Len(list') - k <= since[d]
    BY <1>1, <2>1, <2>2, <2>3, <2>4
  <2> QED
    BY <1>3, <2>2, <2>3, <2>5
<1>6. AllPlaced'
  BY <1>2, <1>5 DEF AllPlaced, Placed
<1>7. Len(list') <= MAX_LEN
  BY <1>1, <1>2
<1> QED
  BY <1>1, <1>2, <1>3, <1>4, <1>6, <1>7 DEF ListInv, TypeOK

\* The invariant is inductive.
LEMMA InvInductive == ListInv /\ [Next]_vars => ListInv'
<1> SUFFICES ASSUME ListInv, [Next]_vars
             PROVE  ListInv'
  OBVIOUS
<1>1. CASE UNCHANGED vars
  BY <1>1 DEF vars, ListInv, TypeOK, NothingElse, AllPlaced, Placed
<1> QED
  BY <1>1, SetKeepsInv, CleanupKeepsInv DEF Next

\* For every bound: the list stays within it, serves nothing that was cleaned
\* up and not set again, and has each wanted challenge at most as far from its
\* back as there were sets after it.
THEOREM ListCorrect ==
  Spec => [](TypeOK /\ NothingElse /\ AllPlaced)
BY InitInv, InvInductive, PTL DEF Spec, ListInv

\* The ring is well formed and its counters stay within MAX_LEN.
THEOREM ListTypeCorrect == Spec => []TypeOK
BY ListCorrect, PTL

\* Every challenge that was set and is still wanted has its own place in the
\* list, and the places are in the order of the calls of set.
THEOREM PlacesKept == Spec => []AllPlaced
BY ListCorrect, PTL

\* A wanted challenge is served until MAX_LEN others have been set after it.
THEOREM WantedKept == Spec => []Kept
<1>1. AllPlaced => Kept
  BY DEF AllPlaced, Placed, Kept
<1> QED
  BY <1>1, ListCorrect, PTL
=============================================================================
