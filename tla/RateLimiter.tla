----------------------------- MODULE RateLimiter -----------------------------
(***************************************************************************)
(* The per-address limiter of DNS queries, rate_limiter.rs.                *)
(*                                                                         *)
(* RateLimiter::increment is called once for each datagram and is one      *)
(* atomic step: the server has a single thread.  The clock it reads,       *)
(* SystemTime::now, is the wall clock: it moves by itself between calls,   *)
(* and it may also be set back.                                            *)
(***************************************************************************)
EXTENDS Integers, FiniteSets

CONSTANTS
  Addrs,                \* the IpAddr values that may send queries
  BLOCK_DURATION_SECS,  \* how long an address stays blocked
  WINDOW_SECS,          \* how long a counter is kept
  RATE_LIMIT,           \* the query of a window that starts a block
  MAX_SIZE,             \* how many addresses the table may hold
  Times                 \* the seconds the wall clock may show

\* The code's values are 600, 60, 100 (a u8) and 100.
ASSUME LimitsAssumption ==
  /\ IsFiniteSet(Addrs)
  /\ WINDOW_SECS \in Nat \ {0}
  /\ BLOCK_DURATION_SECS \in Nat
  /\ BLOCK_DURATION_SECS >= WINDOW_SECS
  /\ RATE_LIMIT \in 2..255
  /\ MAX_SIZE \in Nat \ {0}
  /\ Times \subseteq Int

VARIABLES
  states,  \* RateLimiter.states; an address without an entry is Absent
  now,     \* what now_secs() returns
  result   \* the RateLimitResult of the last call

vars == <<states, now, result>>

-----------------------------------------------------------------------------
(* enum State, and the HashMap as a total function.                        *)

Absent == [tag |-> "Absent", time |-> 0, count |-> 0]

KnownSince(start, n) == [tag |-> "KnownSince", time |-> start, count |-> n]

BlockedUntil(end) == [tag |-> "BlockedUntil", time |-> end, count |-> 0]

RateLimitResult == {"Ok", "Block"}

\* HashMap::len
Size(s) == Cardinality({a \in Addrs : s[a].tag # "Absent"})

\* Whether cleanup keeps an entry at time t.
Retains(entry, t) ==
  \/ entry.tag = "KnownSince" /\ t < entry.time + WINDOW_SECS
  \/ entry.tag = "BlockedUntil" /\ t < entry.time

\* Mutant of cleanup: an address that is blocked is forgotten with the counters.
CleanupForgetsBlocks(s, t) ==
  [a \in Addrs |->
     IF s[a].tag = "KnownSince" /\ Retains(s[a], t) THEN s[a] ELSE Absent]

\* Mutant of cleanup: a counter outlives its window by one more window.
CleanupKeepsExpired(s, t) ==
  [a \in Addrs |-> IF Retains(s[a], t - WINDOW_SECS) THEN s[a] ELSE Absent]

cleanup(s, t) ==
  [a \in Addrs |-> IF Retains(s[a], t) THEN s[a] ELSE Absent]

\* The table increment works on: purged first when it is at capacity.
Purged == IF Size(states) >= MAX_SIZE THEN cleanup(states, now) ELSE states

\* entry(src_addr).or_insert(KnownSince(now, 0))
EntryOf(addr) ==
  IF Purged[addr].tag = "Absent" THEN KnownSince(now, 0) ELSE Purged[addr]

-----------------------------------------------------------------------------
(* increment(src_addr): one action for each way it returns.                *)

\* Still at capacity after the purge: every address is turned away.
ShortCircuit(addr) ==
  /\ Size(Purged) >= MAX_SIZE
  /\ states' = Purged
  /\ result' = "Block"

\* Mutant of Settle: the table is filled without looking at its size.
SettleAnyway(addr, e, r) ==
  /\ states' = [Purged EXCEPT ![addr] = e]
  /\ result' = r

\* The entry of addr becomes e and the call returns r.
Settle(addr, e, r) ==
  /\ Size(Purged) < MAX_SIZE
  /\ states' = [Purged EXCEPT ![addr] = e]
  /\ result' = r

WindowOver(entry) ==
  entry.tag = "KnownSince" /\ now > entry.time + WINDOW_SECS

WindowOpen(entry) ==
  entry.tag = "KnownSince" /\ now <= entry.time + WINDOW_SECS

\* Mutant of BlockOver: the block ends as soon as the address asks again.
BlockOverAtOnce(entry) ==
  entry.tag = "BlockedUntil"

BlockOver(entry) ==
  entry.tag = "BlockedUntil" /\ now > entry.time

\* An expired counter or block: the address starts a window with this query.
StartWindow(addr) ==
  /\ WindowOver(EntryOf(addr)) \/ BlockOver(EntryOf(addr))
  /\ Settle(addr, KnownSince(now, 1), "Ok")

\* Mutant of CountQuery: the counter moves its window along.
CountQuerySlides(addr) ==
  LET e == EntryOf(addr) IN
  /\ WindowOpen(e)
  /\ e.count + 1 < RATE_LIMIT
  /\ Settle(addr, KnownSince(now, 1), "Ok")

\* Mutant of CountQuery: one query more than the limit is let through.
CountQueryOneMore(addr) ==
  LET e == EntryOf(addr) IN
  /\ WindowOpen(e)
  /\ e.count < RATE_LIMIT
  /\ Settle(addr, KnownSince(e.time, e.count + 1), "Ok")

\* Within the window and below the limit.
CountQuery(addr) ==
  LET e == EntryOf(addr) IN
  /\ WindowOpen(e)
  /\ e.count + 1 < RATE_LIMIT
  /\ Settle(addr, KnownSince(e.time, e.count + 1), "Ok")

\* Mutant of StartBlock: the limit is compared before the counter moves on.
StartBlockEarly(addr) ==
  LET e == EntryOf(addr) IN
  /\ WindowOpen(e)
  /\ e.count + 2 >= RATE_LIMIT
  /\ Settle(addr, BlockedUntil(now + BLOCK_DURATION_SECS), "Block")

\* The RATE_LIMIT-th query of the window starts a block.
StartBlock(addr) ==
  LET e == EntryOf(addr) IN
  /\ WindowOpen(e)
  /\ e.count + 1 >= RATE_LIMIT
  /\ Settle(addr, BlockedUntil(now + BLOCK_DURATION_SECS), "Block")

\* A query while blocked changes nothing, and does not prolong the block.
StillBlocked(addr) ==
  /\ EntryOf(addr).tag = "BlockedUntil"
  /\ ~BlockOver(EntryOf(addr))
  /\ Settle(addr, EntryOf(addr), "Block")

increment(addr) ==
  /\ \/ ShortCircuit(addr)
     \/ StartWindow(addr)
     \/ CountQuery(addr)
     \/ StartBlock(addr)
     \/ StillBlocked(addr)
  /\ UNCHANGED now

-----------------------------------------------------------------------------
(* The wall clock (now_secs).                                              *)

AdvanceClock ==
  /\ \E t \in Times : t > now /\ now' = t
  /\ UNCHANGED <<states, result>>

SetClockBack ==
  /\ \E t \in Times : t < now /\ now' = t
  /\ UNCHANGED <<states, result>>

-----------------------------------------------------------------------------

Init ==
  /\ states = [a \in Addrs |-> Absent]
  /\ now \in Times
  /\ result = "Ok"

Next ==
  \/ \E a \in Addrs : increment(a)
  \/ AdvanceClock
  \/ SetClockBack

Spec == Init /\ [][Next]_vars

-----------------------------------------------------------------------------
(* Properties.                                                             *)

Entries ==
  {Absent}
    \cup [tag : {"KnownSince"}, time : Int, count : 1..(RATE_LIMIT - 1)]
    \cup [tag : {"BlockedUntil"}, time : Int, count : {0}]

\* Every entry is one that increment can leave behind; in particular the u8
\* counter of rate_limiter.rs:49 stays below RATE_LIMIT and cannot overflow.
TypeOK ==
  /\ states \in [Addrs -> Entries]
  /\ now \in Int
  /\ result \in RateLimitResult

\* The table never holds more than MAX_SIZE addresses (rate_limiter.rs:25),
\* whatever the clock does between the purge and the insertion.
SizeBounded == Size(states) <= MAX_SIZE

\* A block in force is never lifted, shortened, prolonged or forgotten: not
\* by the blocked address asking again, not by the purge that another
\* address sets off at capacity (rate_limiter.rs:66-77).
BlockHolds ==
  [][\A a \in Addrs :
       (states[a].tag = "BlockedUntil" /\ now < states[a].time)
         => states'[a] = states[a]]_vars

\* When every deadline in the table has passed, the next query is answered,
\* whoever sends it and however full the table was (rate_limiter.rs:25-46):
\* purge and expiry do not disagree on an entry both should drop.
AllExpired ==
  \A a \in Addrs :
    /\ states[a].tag = "KnownSince" => now > states[a].time + WINDOW_SECS
    /\ states[a].tag = "BlockedUntil" => now > states[a].time

ExpiredIsServed ==
  [][AllExpired /\ (\E a \in Addrs : increment(a)) => result' = "Ok"]_vars
=============================================================================
