-------------------------- MODULE RateLimiterProofs --------------------------
(* Proofs about the limiter for every table size, limit and duration.      *)
EXTENDS RateLimiterHistory, FiniteSetTheorems, TLAPS

-----------------------------------------------------------------------------
(* Lemmas on the table.                                                    *)

\* The size of a table is a natural number; overwriting one entry adds at
\* most one to it, and an empty table has size zero.
LEMMA SizeFacts ==
  ASSUME NEW s \in [Addrs -> Entries]
  PROVE  /\ Size(s) \in Nat
         /\ \A a \in Addrs, e \in Entries : Size([s EXCEPT ![a] = e]) <= Size(s) + 1
         /\ (\A a \in Addrs : s[a].tag = "Absent") => Size(s) = 0
<1> DEFINE Occupied(f) == {a \in Addrs : f[a].tag # "Absent"}
<1>1. \A f : IsFiniteSet(Occupied(f)) /\ Cardinality(Occupied(f)) \in Nat
  <2> TAKE f
  <2>1. Occupied(f) \in SUBSET Addrs
    OBVIOUS
  <2>2. IsFiniteSet(Occupied(f))
    BY <2>1, FS_Subset, LimitsAssumption
  <2> QED
    BY <2>2, FS_CardinalityType
<1>2. ASSUME NEW a \in Addrs, NEW e \in Entries
      PROVE  Size([s EXCEPT ![a] = e]) <= Size(s) + 1
  <2> DEFINE new == Occupied([s EXCEPT ![a] = e])
             old == Occupied(s)
  <2>1. new \in SUBSET (old \cup {a})
    OBVIOUS
  <2>2. IsFiniteSet(old \cup {a}) /\ Cardinality(old \cup {a}) <= Cardinality(old) + 1
    <3>1. IsFiniteSet(old) /\ Cardinality(old) \in Nat
      BY <1>1
    <3> HIDE DEF old
    <3>2. IsFiniteSet(old \cup {a})
      BY <3>1, FS_AddElement
    <3>3. Cardinality(old \cup {a}) = IF a \in old THEN Cardinality(old) ELSE Cardinality(old) + 1
      BY <3>1, FS_AddElement
    <3> QED
      BY <3>1, <3>2, <3>3
  <2>3. Cardinality(new) <= Cardinality(old \cup {a})
    BY <2>1, <2>2, FS_Subset
  <2>4. Cardinality(new) \in Nat /\ Cardinality(old) \in Nat /\ Cardinality(old \cup {a}) \in Nat
    BY <1>1, <2>2, FS_CardinalityType
  <2> QED
    BY <2>2, <2>3, <2>4 DEF Size
<1>3. ASSUME \A a \in Addrs : s[a].tag = "Absent"
      PROVE  Size(s) = 0
  <2>1. Occupied(s) = {}
    BY <1>3
  <2> QED
    BY <2>1, FS_EmptySet DEF Size
<1> QED
  BY <1>1, <1>2, <1>3 DEF Size

\* The purge keeps an entry as it is or drops it, and it drops only entries
\* whose time is over.
LEMMA PurgedFacts ==
  ASSUME TypeOK
  PROVE  /\ Purged \in [Addrs -> Entries]
         /\ \A a \in Addrs :
              \/ Purged[a] = states[a]
              \/ Purged[a] = Absent /\ ~Retains(states[a], now)
BY DEF TypeOK, Purged, cleanup, Entries, Absent

\* The entry a call works on is the stored one, or a fresh counter.
LEMMA EntryFacts ==
  ASSUME TypeOK, NEW a \in Addrs
  PROVE  \/ EntryOf(a) = KnownSince(now, 0) /\ Purged[a].tag = "Absent"
         \/ EntryOf(a) = states[a] /\ Purged[a] = states[a] /\ states[a].tag # "Absent"
BY PurgedFacts DEF EntryOf, Absent

\* A call either leaves the purged table, or sets the entry of its address.
LEMMA IncrementFacts ==
  ASSUME TypeOK, NEW a \in Addrs, increment(a)
  PROVE  /\ now' = now
         /\ result' \in RateLimitResult
         /\ \/ states' = Purged /\ Size(Purged) >= MAX_SIZE
            \/ \E e \in Entries : states' = [Purged EXCEPT ![a] = e] /\ Size(Purged) < MAX_SIZE
<1> USE LimitsAssumption DEF Settle, RateLimitResult
<1>0. now' = now
  BY DEF increment
<1>1. CASE ShortCircuit(a)
  BY <1>0, <1>1 DEF ShortCircuit
<1>2. CASE StartWindow(a)
  <2>1. KnownSince(now, 1) \in Entries
    BY DEF KnownSince, Entries, TypeOK
  <2> QED
    BY <1>0, <1>2, <2>1 DEF StartWindow
<1>3. CASE CountQuery(a)
  <2>1. KnownSince(EntryOf(a).time, EntryOf(a).count + 1) \in Entries
    BY <1>3, EntryFacts DEF CountQuery, WindowOpen, KnownSince, Entries, TypeOK, Absent
  <2> QED
    BY <1>0, <1>3, <2>1 DEF CountQuery
<1>4. CASE StartBlock(a)
  <2>1. BlockedUntil(now + BLOCK_DURATION_SECS) \in Entries
    BY DEF BlockedUntil, Entries, TypeOK
  <2> QED
    BY <1>0, <1>4, <2>1 DEF StartBlock
<1>5. CASE StillBlocked(a)
  <2>1. EntryOf(a) \in Entries
    BY <1>5, EntryFacts DEF StillBlocked, KnownSince, TypeOK
  <2> QED
    BY <1>0, <1>5, <2>1 DEF StillBlocked
<1> QED
  BY <1>1, <1>2, <1>3, <1>4, <1>5 DEF increment

-----------------------------------------------------------------------------
(* Type correctness and the bound on the table.                            *)

\* Every way increment returns leaves entries of the right shape.
LEMMA TypeInductive == TypeOK /\ [Next]_vars => TypeOK'
<1> SUFFICES ASSUME TypeOK, [Next]_vars
             PROVE  TypeOK'
  OBVIOUS
<1> USE LimitsAssumption
<1>1. ASSUME NEW a \in Addrs, increment(a)
      PROVE  TypeOK'
  BY <1>1, IncrementFacts, PurgedFacts DEF TypeOK
<1>2. CASE AdvanceClock
  BY <1>2 DEF AdvanceClock, TypeOK
<1>3. CASE SetClockBack
  BY <1>3 DEF SetClockBack, TypeOK
<1>4. CASE UNCHANGED vars
  BY <1>4 DEF vars, TypeOK
<1> QED
  BY <1>1, <1>2, <1>3, <1>4 DEF Next

\* The new table is empty (rate_limiter.rs:15-19).
LEMMA InitType == Init => TypeOK
BY LimitsAssumption DEF Init, TypeOK, Entries, Absent, RateLimitResult

\* Every entry the limiter keeps is well formed and its u8 counter stays
\* below RATE_LIMIT, whatever the clock does.
THEOREM TypeCorrect == Spec => []TypeOK
BY InitType, TypeInductive, PTL DEF Spec

\* The table never outgrows MAX_SIZE, whatever the clock does.
THEOREM TableBounded == Spec => []SizeBounded
<1>1. Init => SizeBounded
  <2> SUFFICES ASSUME Init PROVE SizeBounded
    OBVIOUS
  <2>1. states \in [Addrs -> Entries] /\ \A a \in Addrs : states[a].tag = "Absent"
    BY DEF Init, Entries, Absent
  <2> QED
    BY <2>1, SizeFacts, LimitsAssumption DEF SizeBounded
<1>2. TypeOK /\ SizeBounded /\ [Next]_vars => SizeBounded'
  <2> SUFFICES ASSUME TypeOK, SizeBounded, [Next]_vars
               PROVE  SizeBounded'
    OBVIOUS
  <2>1. Size(states)' = Size(states')
    BY DEF Size
  <2>2. ASSUME NEW a \in Addrs, increment(a)
        PROVE  SizeBounded'
    <3>1. Purged \in [Addrs -> Entries]
      BY PurgedFacts
    <3>2. Size(Purged) \in Nat
      BY <3>1, SizeFacts
    <3>3. CASE states' = Purged /\ Size(Purged) >= MAX_SIZE
      <4>1. Purged = states \/ Purged = cleanup(states, now)
        BY DEF Purged
      <4>2. {x \in Addrs : Purged[x].tag # "Absent"}
              \in SUBSET {x \in Addrs : states[x].tag # "Absent"}
        BY PurgedFacts DEF Absent
      <4>3. IsFiniteSet({x \in Addrs : states[x].tag # "Absent"})
        BY FS_Subset, LimitsAssumption
      <4>4. Size(Purged) <= Size(states)
        BY <4>2, <4>3, FS_Subset DEF Size
      <4>5. Size(states) \in Nat
        BY SizeFacts DEF TypeOK
      <4> QED
        BY <2>1, <3>2, <3>3, <4>4, <4>5, LimitsAssumption DEF SizeBounded
    <3>4. ASSUME NEW e \in Entries, states' = [Purged EXCEPT ![a] = e],
                 Size(Purged) < MAX_SIZE
          PROVE  SizeBounded'
      <4>1. Size(states') <= Size(Purged) + 1 /\ Size(states') \in Nat
        BY <3>1, <3>4, SizeFacts
      <4> QED
        BY <2>1, <3>2, <3>4, <4>1, LimitsAssumption DEF SizeBounded
    <3> QED
      BY <2>2, <3>3, <3>4, IncrementFacts
  <2>3. CASE AdvanceClock \/ SetClockBack \/ UNCHANGED vars
    BY <2>1, <2>3 DEF AdvanceClock, SetClockBack, vars, SizeBounded
  <2> QED
    BY <2>2, <2>3 DEF Next
<1> QED
  BY <1>1, <1>2, TypeCorrect, PTL DEF Spec

-----------------------------------------------------------------------------
(* Blocks that are in force.                                               *)

\* A call works on the entries of other addresses only through the purge.
LEMMA OthersUntouched ==
  ASSUME TypeOK, NEW a \in Addrs, increment(a), NEW b \in Addrs, b # a
  PROVE  states'[b] = Purged[b]
BY IncrementFacts, PurgedFacts

\* An entry that is still blocked survives its own query.
LEMMA BlockedStays ==
  ASSUME TypeOK, NEW a \in Addrs, increment(a),
         states[a].tag = "BlockedUntil", now < states[a].time
  PROVE  states'[a] = states[a]
<1> USE DEF Settle
<1>1. Purged[a] = states[a]
  BY PurgedFacts DEF Retains
<1>2. EntryOf(a) = states[a]
  BY <1>1 DEF EntryOf
<1>3. states[a].time \in Int /\ now \in Int
  BY DEF TypeOK, Entries, Absent
<1>4. ~WindowOver(EntryOf(a)) /\ ~WindowOpen(EntryOf(a)) /\ ~BlockOver(EntryOf(a))
  BY <1>2, <1>3 DEF WindowOver, WindowOpen, BlockOver
<1>5. ShortCircuit(a) \/ StillBlocked(a)
  BY <1>4 DEF increment, StartWindow, CountQuery, StartBlock
<1> QED
  BY <1>1, <1>2, <1>5, PurgedFacts DEF ShortCircuit, StillBlocked

\* No step lifts, changes or forgets a block that is in force, whatever the
\* clock did before.
THEOREM BlocksHold == Spec => BlockHolds
<1>1. TypeOK /\ [Next]_vars =>
        [\A a \in Addrs :
           (states[a].tag = "BlockedUntil" /\ now < states[a].time)
             => states'[a] = states[a]]_vars
  <2> SUFFICES ASSUME TypeOK, Next, NEW a \in Addrs,
                      states[a].tag = "BlockedUntil", now < states[a].time
               PROVE  states'[a] = states[a]
    OBVIOUS
  <2>1. ASSUME NEW b \in Addrs, increment(b), b # a
        PROVE  states'[a] = states[a]
    BY <2>1, OthersUntouched, PurgedFacts DEF Retains
  <2>2. CASE increment(a)
    BY <2>2, BlockedStays
  <2>3. CASE AdvanceClock \/ SetClockBack
    BY <2>3 DEF AdvanceClock, SetClockBack
  <2> QED
    BY <2>1, <2>2, <2>3 DEF Next
<1> QED
  BY <1>1, TypeCorrect, PTL DEF Spec, BlockHolds

\* Once everything in the table has expired the next query is answered.
THEOREM ExpiredServed == Spec => ExpiredIsServed
<1>1. TypeOK /\ [Next]_vars =>
        [AllExpired /\ (\E a \in Addrs : increment(a)) => result' = "Ok"]_vars
  <2> SUFFICES ASSUME TypeOK, AllExpired, NEW a \in Addrs, increment(a)
               PROVE  result' = "Ok"
    OBVIOUS
  <2> USE LimitsAssumption
  <2>1. \A b \in Addrs : ~Retains(states[b], now)
    BY DEF AllExpired, Retains, TypeOK, Entries, Absent
  <2>2. Size(Purged) < MAX_SIZE
    <3>1. Size(states) \in Nat
      BY SizeFacts DEF TypeOK
    <3>2. CASE Size(states) >= MAX_SIZE
      <4>1. \A b \in Addrs : Purged[b].tag = "Absent"
        BY <2>1, <3>2 DEF Purged, cleanup, Absent
      <4>2. Size(Purged) = 0
        BY <4>1, PurgedFacts, SizeFacts
      <4> QED
        BY <4>2
    <3> QED
      BY <3>1, <3>2 DEF Purged
  <2>3. ~ShortCircuit(a)
    <3>1. Size(Purged) \in Nat
      BY PurgedFacts, SizeFacts
    <3> QED
      BY <2>2, <3>1 DEF ShortCircuit
  <2>4. ~StillBlocked(a)
    BY EntryFacts DEF AllExpired, StillBlocked, BlockOver, KnownSince
  <2>5. ~StartBlock(a)
    BY EntryFacts DEF AllExpired, StartBlock, WindowOpen, KnownSince, TypeOK, Entries, Absent
  <2> QED
    BY <2>3, <2>4, <2>5 DEF increment, StartWindow, CountQuery, Settle
<1> QED
  BY <1>1, TypeCorrect, PTL DEF Spec, ExpiredIsServed

-----------------------------------------------------------------------------
(* How an entry sums up the queries of its address.                        *)

\* Time passing leaves every summary true.
LEMMA SummaryAges ==
  ASSUME NEW e \in Entries, NEW g \in Seq(Int), NEW t \in Int, NEW u \in Int,
         t <= u, SummedUp(e, g, t)
  PROVE  SummedUp(e, g, u)
BY LimitsAssumption
DEF SummedUp, PastInv, AbsentInv, KnownInv, BlockedInv, Entries, Absent

\* An entry that the purge drops, or that has expired, says no more of its
\* history than no entry does.
LEMMA SummaryPurged ==
  ASSUME NEW e \in Entries, NEW g \in Seq(Int), NEW t \in Int,
         ~Retains(e, t), SummedUp(e, g, t)
  PROVE  SummedUp(Absent, g, t)
<1> USE LimitsAssumption DEF SummedUp
<1>1. \A i \in 1..(Len(g) - (RATE_LIMIT - 1)) : g[i] <= t - WINDOW_SECS
  <2>1. CASE e.tag = "Absent"
    BY <2>1 DEF AbsentInv
  <2>2. CASE e.tag = "KnownSince"
    <3> TAKE i \in 1..(Len(g) - (RATE_LIMIT - 1))
    <3>1. e.time \in Int /\ e.count \in 1..(RATE_LIMIT - 1) /\ t >= e.time + WINDOW_SECS
      BY <2>2 DEF Retains, Entries, Absent
    <3>2. i \in 1..(Len(g) - e.count) /\ g[i] \in Int
      BY <3>1
    <3>3. g[i] <= e.time
      BY <2>2, <3>2 DEF KnownInv
    <3> QED
      BY <3>1, <3>2, <3>3
  <2>3. CASE e.tag = "BlockedUntil"
    <3> TAKE i \in 1..(Len(g) - (RATE_LIMIT - 1))
    <3>1. e.time \in Int /\ t >= e.time
      BY <2>3 DEF Retains, Entries, Absent
    <3>2. g[i] <= e.time - WINDOW_SECS
      BY <2>3 DEF BlockedInv
    <3>3. i \in 1..Len(g) /\ g[i] \in Int
      OBVIOUS
    <3> QED
      BY <3>1, <3>2, <3>3
  <2> QED
    BY <2>1, <2>2, <2>3 DEF Entries, Absent
<1> QED
  BY <1>1 DEF Absent, AbsentInv, KnownInv, BlockedInv

\* A fresh counter sums up what no entry does.
LEMMA SummaryFresh ==
  ASSUME NEW g \in Seq(Int), NEW t \in Int, SummedUp(Absent, g, t)
  PROVE  SummedUp(KnownSince(t, 0), g, t)
BY LimitsAssumption
DEF SummedUp, PastInv, AbsentInv, KnownInv, BlockedInv, KnownSince, Absent

\* Counting a query sums up the history with that query.
LEMMA SummaryCounts ==
  ASSUME NEW s \in Int, NEW c \in 0..(RATE_LIMIT - 2), NEW g \in Seq(Int), NEW t \in Int,
         SummedUp(KnownSince(s, c), g, t)
  PROVE  SummedUp(KnownSince(s, c + 1), Append(g, t), t)
<1> USE LimitsAssumption
<1> DEFINE h == Append(g, t)
<1>1. /\ h \in Seq(Int) /\ Len(h) = Len(g) + 1 /\ h[Len(h)] = t
      /\ \A i \in 1..Len(g) : h[i] = g[i]
  OBVIOUS
<1>2. /\ PastInv(g, t) /\ s <= t /\ Len(g) - c >= 0
      /\ \A i \in 1..(Len(g) - c) : g[i] <= s
      /\ \A i \in 1..(Len(g) - c - (RATE_LIMIT - 1)) : g[i] <= s - WINDOW_SECS
      /\ \A i \in (Len(g) - c + 1)..Len(g) : g[i] >= s
  BY DEF SummedUp, KnownInv, KnownSince
<1> HIDE DEF h
<1>3. Len(h) - (c + 1) = Len(g) - c
  BY <1>1
<1>4. PastInv(h, t)
  <2> SUFFICES ASSUME NEW i \in 1..Len(h) PROVE h[i] <= t
    BY DEF PastInv
  <2>1. CASE i \in 1..Len(g)
    BY <1>1, <1>2, <2>1 DEF PastInv
  <2>2. CASE i = Len(h)
    BY <1>1, <2>2
  <2> QED
    BY <1>1, <2>1, <2>2
<1>5. ASSUME NEW i \in (Len(g) - c + 1)..Len(h)
      PROVE  h[i] >= s
  <2>1. CASE i = Len(h)
    BY <1>1, <1>2, <2>1
  <2>2. CASE i # Len(h)
    <3>1. i \in (Len(g) - c + 1)..Len(g) /\ i \in 1..Len(g)
      BY <1>1, <1>2, <2>2
    <3> QED
      BY <1>1, <1>2, <3>1
  <2> QED
    BY <2>1, <2>2
<1>6. ASSUME NEW i \in 1..(Len(g) - c)
      PROVE  /\ h[i] <= s
             /\ i \in 1..(Len(g) - c - (RATE_LIMIT - 1)) => h[i] <= s - WINDOW_SECS
  <2>1. i \in 1..Len(g)
    BY <1>6
  <2> QED
    BY <1>1, <1>2, <2>1
<1>7. \A i \in 1..(Len(g) - c - (RATE_LIMIT - 1)) : i \in 1..(Len(g) - c)
  OBVIOUS
<1>8. SummedUp(KnownSince(s, c + 1), h, t)
  BY <1>2, <1>3, <1>4, <1>5, <1>6, <1>7
  DEF SummedUp, AbsentInv, KnownInv, BlockedInv, KnownSince
<1> QED
  BY <1>8 DEF h

\* A full counter turned into a block.
LEMMA SummaryBlocks ==
  ASSUME NEW s \in Int, NEW g \in Seq(Int), NEW t \in Int, t <= s + WINDOW_SECS,
         SummedUp(KnownSince(s, RATE_LIMIT - 1), g, t)
  PROVE  SummedUp(BlockedUntil(t + BLOCK_DURATION_SECS), g, t)
<1> USE LimitsAssumption
<1> DEFINE before == Len(g) - (RATE_LIMIT - 1)
<1>1. /\ before >= 0 /\ s <= t
      /\ \A i \in 1..before : g[i] <= s
      /\ \A i \in (before + 1)..Len(g) : g[i] >= s
  BY DEF SummedUp, KnownInv, KnownSince
<1>2. ASSUME NEW i \in 1..before
      PROVE  g[i] <= t + BLOCK_DURATION_SECS - WINDOW_SECS
  <2>1. i \in 1..Len(g) /\ g[i] \in Int
    BY <1>1
  <2> QED
    BY <1>1, <2>1
<1>3. ASSUME NEW i \in (before + 1)..Len(g)
      PROVE  g[i] >= t + BLOCK_DURATION_SECS - BLOCK_DURATION_SECS - WINDOW_SECS
  <2>1. i \in 1..Len(g) /\ g[i] \in Int
    BY <1>1
  <2> QED
    BY <1>1, <2>1
<1>4. PastInv(g, t)
  BY DEF SummedUp
<1> QED
  BY <1>1, <1>2, <1>3, <1>4
  DEF SummedUp, AbsentInv, KnownInv, BlockedInv, BlockedUntil

\* A query counted below the limit keeps the history spaced.
LEMMA SummarySpaced ==
  ASSUME NEW s \in Int, NEW c \in 0..(RATE_LIMIT - 2), NEW g \in Seq(Int), NEW t \in Int,
         SummedUp(KnownSince(s, c), g, t), Spaced(g)
  PROVE  Spaced(Append(g, t))
<1> USE LimitsAssumption
<1> DEFINE h == Append(g, t)
<1>1. /\ h \in Seq(Int) /\ Len(h) = Len(g) + 1 /\ h[Len(h)] = t
      /\ \A i \in 1..Len(g) : h[i] = g[i]
  OBVIOUS
<1>2. /\ s <= t
      /\ \A i \in 1..(Len(g) - c - (RATE_LIMIT - 1)) : g[i] <= s - WINDOW_SECS
  BY DEF SummedUp, KnownInv, KnownSince
<1> HIDE DEF h
<1>3. ASSUME NEW i \in 1..(Len(h) - Burst)
      PROVE  h[i + Burst] - h[i] >= WINDOW_SECS
  <2> Burst \in Nat
    BY DEF Burst
  <2>1. CASE i + Burst <= Len(g)
    <3>1. i \in 1..(Len(g) - Burst) /\ i \in 1..Len(g) /\ i + Burst \in 1..Len(g)
      BY <1>1, <2>1
    <3> QED
      BY <1>1, <3>1 DEF Spaced
  <2>2. CASE i + Burst = Len(h)
    <3>1. i \in 1..(Len(g) - c - (RATE_LIMIT - 1))
      BY <1>1, <2>2 DEF Burst
    <3>2. i \in 1..Len(g) /\ g[i] \in Int
      BY <3>1
    <3>3. h[i] <= s - WINDOW_SECS
      BY <1>1, <1>2, <3>1, <3>2
    <3>4. h[i + Burst] = t /\ h[i] \in Int
      BY <1>1, <2>2, <3>2
    <3> QED
      BY <1>2, <3>3, <3>4
  <2> QED
    BY <1>1, <2>1, <2>2
<1>4. Spaced(h)
  BY <1>3 DEF Spaced
<1> QED
  BY <1>4 DEF h

-----------------------------------------------------------------------------
(* What the limiter promises over time, while nobody sets the clock back.  *)

\* The history is a sequence of times.
LEMMA HTypeInductive == HTypeOK /\ [HNext]_hvars => HTypeOK'
<1> SUFFICES ASSUME HTypeOK, [HNext]_hvars
             PROVE  HTypeOK'
  OBVIOUS
<1>1. [Next]_vars
  BY DEF HNext, hvars, vars, Next, HIncrement, HAdvanceClock, HSetClockBack
<1>2. TypeOK'
  BY <1>1, TypeInductive DEF HTypeOK
<1>3. granted' \in [Addrs -> Seq(Int)] /\ steady' \in BOOLEAN
  <2>1. ASSUME NEW a \in Addrs, HIncrement(a)
        PROVE  granted' \in [Addrs -> Seq(Int)] /\ steady' \in BOOLEAN
    <3>1. granted \in [Addrs -> Seq(Int)] /\ Append(granted[a], now) \in Seq(Int)
      BY DEF HTypeOK, TypeOK
    <3> QED
      BY <2>1, <3>1 DEF HIncrement, HTypeOK
  <2>2. CASE HAdvanceClock \/ UNCHANGED hvars
    BY <2>2 DEF HAdvanceClock, hvars, HTypeOK
  <2>3. CASE HSetClockBack
    <3>1. <<>> \in Seq(Int)
      OBVIOUS
    <3> QED
      BY <2>3, <3>1 DEF HSetClockBack
  <2> QED
    BY <2>1, <2>2, <2>3 DEF HNext
<1> QED
  BY <1>2, <1>3 DEF HTypeOK

\* The purge and the fresh counter keep every summary true.
LEMMA SummaryOfEntry ==
  ASSUME HTypeOK, HistoryInv, steady, NEW a \in Addrs
  PROVE  /\ SummedUp(Purged[a], granted[a], now)
         /\ SummedUp(EntryOf(a), granted[a], now)
<1>1. /\ TypeOK /\ granted[a] \in Seq(Int) /\ now \in Int
      /\ states[a] \in Entries /\ SummedUp(states[a], granted[a], now)
  BY DEF HTypeOK, TypeOK, HistoryInv
<1>2. SummedUp(Purged[a], granted[a], now)
  BY <1>1, PurgedFacts, SummaryPurged
<1>3. CASE Purged[a].tag = "Absent"
  <2>1. Purged[a] = Absent
    BY <1>1, <1>3, PurgedFacts DEF Entries, Absent
  <2> QED
    BY <1>1, <1>2, <1>3, <2>1, SummaryFresh DEF EntryOf
<1>4. CASE Purged[a].tag # "Absent"
  BY <1>2, <1>4 DEF EntryOf
<1> QED
  BY <1>2, <1>3, <1>4

\* The shape of the entry a call counts in.
LEMMA OpenEntry ==
  ASSUME TypeOK, NEW a \in Addrs, WindowOpen(EntryOf(a))
  PROVE  /\ EntryOf(a) = KnownSince(EntryOf(a).time, EntryOf(a).count)
         /\ EntryOf(a).time \in Int /\ EntryOf(a).count \in 0..(RATE_LIMIT - 1)
<1>1. CASE EntryOf(a) = KnownSince(now, 0)
  <2>1. EntryOf(a).time = now /\ EntryOf(a).count = 0
    BY <1>1 DEF KnownSince
  <2> QED
    BY <1>1, <2>1, LimitsAssumption DEF TypeOK
<1>2. CASE EntryOf(a) = states[a]
  <2>1. states[a] \in [tag : {"KnownSince"}, time : Int, count : 1..(RATE_LIMIT - 1)]
    BY <1>2 DEF WindowOpen, TypeOK, Entries, Absent
  <2> QED
    BY <1>2, <2>1, LimitsAssumption DEF KnownSince
<1> QED
  BY <1>1, <1>2, EntryFacts

\* A call keeps the history of its address summed up and spaced.
LEMMA CallKeepsSummary ==
  ASSUME HTypeOK, HistoryInv, SlidingWindow, steady, NEW a \in Addrs, HIncrement(a)
  PROVE  /\ SummedUp(states'[a], granted'[a], now)
         /\ Spaced(granted'[a])
<1> USE LimitsAssumption DEF Settle
<1> DEFINE g == granted[a]
<1>1. /\ TypeOK /\ g \in Seq(Int) /\ now \in Int /\ Spaced(g)
      /\ SummedUp(Purged[a], g, now) /\ SummedUp(EntryOf(a), g, now)
      /\ Purged \in [Addrs -> Entries]
  BY SummaryOfEntry, PurgedFacts DEF HTypeOK, TypeOK, SlidingWindow
<1>2. /\ result' = "Ok" => granted'[a] = Append(g, now)
      /\ result' = "Block" => granted'[a] = g
  BY DEF HIncrement, HTypeOK
<1>3. CASE ShortCircuit(a)
  BY <1>1, <1>2, <1>3 DEF ShortCircuit
<1>4. CASE StartWindow(a)
  <2>1. EntryOf(a) \in Entries /\ ~Retains(EntryOf(a), now)
    BY <1>1, <1>4, EntryFacts
    DEF StartWindow, WindowOver, BlockOver, Retains, KnownSince, TypeOK, Entries, Absent
  <2>2. SummedUp(KnownSince(now, 0), g, now)
    BY <1>1, <2>1, SummaryPurged, SummaryFresh
  <2>3. SummedUp(KnownSince(now, 1), Append(g, now), now) /\ Spaced(Append(g, now))
    <3>1. 0 \in 0..(RATE_LIMIT - 2) /\ 0 + 1 = 1
      OBVIOUS
    <3>2. SummedUp(KnownSince(now, 0 + 1), Append(g, now), now)
      BY <1>1, <2>2, <3>1, SummaryCounts
    <3> QED
      BY <1>1, <2>2, <3>1, <3>2, SummarySpaced
  <2>4. states'[a] = KnownSince(now, 1) /\ result' = "Ok"
    BY <1>1, <1>4 DEF StartWindow
  <2> QED
    BY <1>2, <2>3, <2>4
<1>5. CASE CountQuery(a)
  <2> DEFINE e == EntryOf(a)
  <2>1. /\ e = KnownSince(e.time, e.count)
        /\ e.time \in Int /\ e.count \in 0..(RATE_LIMIT - 2)
    BY <1>1, <1>5, OpenEntry DEF CountQuery
  <2>2. states'[a] = KnownSince(e.time, e.count + 1) /\ result' = "Ok"
    BY <1>1, <1>5 DEF CountQuery
  <2> HIDE DEF e
  <2>3. SummedUp(KnownSince(e.time, e.count), g, now)
    BY <1>1, <2>1 DEF e
  <2>4. SummedUp(KnownSince(e.time, e.count + 1), Append(g, now), now)
    BY <1>1, <2>1, <2>3, SummaryCounts
  <2>5. Spaced(Append(g, now))
    BY <1>1, <2>1, <2>3, SummarySpaced
  <2> QED
    BY <1>2, <2>2, <2>4, <2>5
<1>6. CASE StartBlock(a)
  <2> DEFINE e == EntryOf(a)
  <2>1. /\ e = KnownSince(e.time, RATE_LIMIT - 1)
        /\ e.time \in Int /\ now <= e.time + WINDOW_SECS
    <3>1. /\ e = KnownSince(e.time, e.count)
          /\ e.time \in Int /\ e.count \in 0..(RATE_LIMIT - 1)
      BY <1>1, <1>6, OpenEntry DEF StartBlock
    <3>2. e.count = RATE_LIMIT - 1 /\ now <= e.time + WINDOW_SECS
      BY <1>6, <3>1 DEF StartBlock, WindowOpen
    <3> QED
      BY <3>1, <3>2
  <2>2. states'[a] = BlockedUntil(now + BLOCK_DURATION_SECS) /\ result' = "Block"
    BY <1>1, <1>6 DEF StartBlock
  <2> HIDE DEF e
  <2>3. SummedUp(KnownSince(e.time, RATE_LIMIT - 1), g, now)
    BY <1>1, <2>1 DEF e
  <2>4. SummedUp(BlockedUntil(now + BLOCK_DURATION_SECS), g, now)
    BY <1>1, <2>1, <2>3, SummaryBlocks
  <2> QED
    BY <1>1, <1>2, <2>2, <2>4
<1>7. CASE StillBlocked(a)
  BY <1>1, <1>2, <1>7 DEF StillBlocked
<1> QED
  BY <1>3, <1>4, <1>5, <1>6, <1>7 DEF HIncrement, increment

\* The invariant and the property it implies hold after each step.
LEMMA HistoryInductive ==
  HTypeOK /\ HistoryInv /\ SlidingWindow /\ [HNext]_hvars
    => HistoryInv' /\ SlidingWindow'
<1> SUFFICES ASSUME HTypeOK, HistoryInv, SlidingWindow, [HNext]_hvars, NEW b \in Addrs
             PROVE  /\ steady' => SummedUp(states'[b], granted'[b], now')
                    /\ Spaced(granted'[b])
  BY DEF HistoryInv, SlidingWindow
<1>1. /\ TypeOK /\ granted[b] \in Seq(Int) /\ now \in Int /\ states[b] \in Entries
      /\ steady => SummedUp(states[b], granted[b], now)
      /\ Spaced(granted[b])
  BY DEF HTypeOK, TypeOK, HistoryInv, SlidingWindow
<1>2. ASSUME NEW a \in Addrs, HIncrement(a), steady
      PROVE  SummedUp(states'[b], granted'[b], now') /\ Spaced(granted'[b])
  <2>1. now' = now /\ increment(a)
    BY <1>2 DEF HIncrement, increment
  <2>2. CASE a = b
    BY <1>2, <2>1, <2>2, CallKeepsSummary
  <2>3. CASE a # b
    <3>1. states'[b] = Purged[b]
      BY <1>1, <2>1, <2>3, OthersUntouched
    <3>2. granted'[b] = granted[b]
      BY <1>2, <2>3 DEF HIncrement, HTypeOK
    <3> QED
      BY <1>1, <1>2, <2>1, <3>1, <3>2, SummaryOfEntry
  <2> QED
    BY <2>2, <2>3
<1>3. ASSUME NEW a \in Addrs, HIncrement(a), ~steady
      PROVE  ~steady' /\ Spaced(granted'[b])
  BY <1>1, <1>3 DEF HIncrement
<1>4. CASE HAdvanceClock
  <2>1. now' \in Int /\ now <= now' /\ UNCHANGED <<states, granted, steady>>
    BY <1>1, <1>4, LimitsAssumption DEF HAdvanceClock, AdvanceClock
  <2>2. steady => SummedUp(states[b], granted[b], now')
    BY <1>1, <2>1, SummaryAges
  <2> QED
    BY <1>1, <2>1, <2>2
<1>5. CASE HSetClockBack
  <2>1. ~steady' /\ granted'[b] = <<>>
    BY <1>5 DEF HSetClockBack
  <2>2. Spaced(<<>>)
    BY LimitsAssumption DEF Spaced, Burst
  <2> QED
    BY <2>1, <2>2
<1>6. CASE UNCHANGED hvars
  BY <1>1, <1>6 DEF hvars
<1> QED
  BY <1>2, <1>3, <1>4, <1>5, <1>6 DEF HNext

\* At first nothing has been let through.
LEMMA HistoryInit == HInit => HTypeOK /\ HistoryInv /\ SlidingWindow
<1> SUFFICES ASSUME HInit
             PROVE  HTypeOK /\ HistoryInv /\ SlidingWindow
  OBVIOUS
<1> USE LimitsAssumption
<1>1. HTypeOK /\ \A a \in Addrs : granted[a] = <<>> /\ states[a] = Absent
  BY InitType DEF HInit, HTypeOK, Init
<1>2. \A a \in Addrs : SummedUp(Absent, <<>>, now)
  BY DEF SummedUp, PastInv, AbsentInv, KnownInv, BlockedInv, Absent
<1>3. Spaced(<<>>)
  BY DEF Spaced, Burst
<1> QED
  BY <1>1, <1>2, <1>3 DEF HistoryInv, SlidingWindow

\* The table always accounts for every recent query, and no address is
\* answered more than Burst times within less than WINDOW_SECS.
THEOREM HistoryCorrect == HSpec => [](HTypeOK /\ HistoryInv /\ SlidingWindow)
<1>1. HTypeOK /\ HistoryInv /\ SlidingWindow /\ [HNext]_hvars
        => (HTypeOK /\ HistoryInv /\ SlidingWindow)'
  BY HTypeInductive, HistoryInductive
<1> QED
  BY <1>1, HistoryInit, PTL DEF HSpec

\* What the table holds of an address accounts for the queries it has been
\* granted.
THEOREM HistoryAccounts == HSpec => []HistoryInv
BY HistoryCorrect, PTL

\* A query is refused only when its sender has spent a whole window lately,
\* or when the table is full of entries that may not be dropped.
THEOREM BlocksJustified == HSpec => BlockIsJustified
<1>1. HTypeOK /\ HistoryInv /\ [HNext]_hvars =>
        [\A a \in Addrs :
           (steady /\ increment(a) /\ result' = "Block")
             => SpentItsWindow(a) \/ HeldByOthers]_hvars
  <2> SUFFICES ASSUME HTypeOK, HistoryInv, NEW a \in Addrs, steady, increment(a),
                      result' = "Block"
               PROVE  SpentItsWindow(a) \/ HeldByOthers
    OBVIOUS
  <2> USE LimitsAssumption
  <2> DEFINE g == granted[a]
             first == Len(g) - RATE_LIMIT + 2
  <2>1. /\ TypeOK /\ g \in Seq(Int) /\ now \in Int /\ states[a] \in Entries
        /\ SummedUp(states[a], g, now)
    BY DEF HTypeOK, TypeOK, HistoryInv
  <2>2. CASE ShortCircuit(a)
    <3>1. Size(states) \in Nat
      BY <2>1, SizeFacts DEF TypeOK
    <3> QED
      BY <2>2, <3>1 DEF ShortCircuit, HeldByOthers, Purged
  <2>3. CASE StartBlock(a)
    <3>1. /\ states[a].tag = "KnownSince" /\ states[a].count = RATE_LIMIT - 1
          /\ states[a].time \in Int /\ now <= states[a].time + WINDOW_SECS
      BY <2>1, <2>3, EntryFacts
      DEF StartBlock, WindowOpen, KnownSince, Entries, Absent
    <3>2. /\ Len(g) - (RATE_LIMIT - 1) >= 0
          /\ \A i \in (Len(g) - (RATE_LIMIT - 1) + 1)..Len(g) : g[i] >= states[a].time
      BY <2>1, <3>1 DEF SummedUp, KnownInv
    <3>3. /\ first \in (Len(g) - (RATE_LIMIT - 1) + 1)..Len(g)
          /\ first \in 1..Len(g) /\ g[first] \in Int
      <4>1. Len(g) \in Nat /\ RATE_LIMIT \in Int /\ RATE_LIMIT >= 2
        BY <2>1
      <4>2. /\ first \in (Len(g) - (RATE_LIMIT - 1) + 1)..Len(g)
            /\ first \in 1..Len(g)
        BY <3>2, <4>1
      <4> QED
        BY <2>1, <4>2
    <3>4. g[first] >= states[a].time
      BY <3>2, <3>3
    <3> HIDE DEF g, first
    <3>5. g[first] >= now - WINDOW_SECS - BLOCK_DURATION_SECS
      BY <2>1, <3>1, <3>3, <3>4
    <3>6. Len(g) >= RATE_LIMIT - 1
      BY <2>1, <3>2
    <3> QED
      BY <3>5, <3>6 DEF SpentItsWindow, g, first
  <2>4. CASE StillBlocked(a)
    <3>1. /\ states[a].tag = "BlockedUntil"
          /\ states[a].time \in Int /\ now <= states[a].time
      BY <2>1, <2>4, EntryFacts
      DEF StillBlocked, BlockOver, KnownSince, Entries, Absent
    <3>2. /\ Len(g) - (RATE_LIMIT - 1) >= 0
          /\ \A i \in (Len(g) - (RATE_LIMIT - 1) + 1)..Len(g) :
               g[i] >= states[a].time - BLOCK_DURATION_SECS - WINDOW_SECS
      BY <2>1, <3>1 DEF SummedUp, BlockedInv
    <3>3. /\ first \in (Len(g) - (RATE_LIMIT - 1) + 1)..Len(g)
          /\ first \in 1..Len(g) /\ g[first] \in Int
      <4>1. Len(g) \in Nat /\ RATE_LIMIT \in Int /\ RATE_LIMIT >= 2
        BY <2>1
      <4>2. /\ first \in (Len(g) - (RATE_LIMIT - 1) + 1)..Len(g)
            /\ first \in 1..Len(g)
        BY <3>2, <4>1
      <4> QED
        BY <2>1, <4>2
    <3>4. g[first] >= states[a].time - BLOCK_DURATION_SECS - WINDOW_SECS
      BY <3>2, <3>3
    <3> HIDE DEF g, first
    <3>5. g[first] >= now - WINDOW_SECS - BLOCK_DURATION_SECS
      BY <2>1, <3>1, <3>3, <3>4
    <3>6. Len(g) >= RATE_LIMIT - 1
      BY <2>1, <3>2
    <3> QED
      BY <3>5, <3>6 DEF SpentItsWindow, g, first
  <2> QED
    BY <2>2, <2>3, <2>4 DEF increment, StartWindow, CountQuery, Settle
<1> QED
  BY <1>1, HistoryCorrect, PTL DEF HSpec, BlockIsJustified
=============================================================================
