-------------------------- MODULE RateLimiterHistory --------------------------
(***************************************************************************)
(* The limiter together with the queries it has let through.  What it      *)
(* promises over time is stated here: how many queries of one address pass *)
(* in any window of time, and that nobody is turned away without a reason. *)
(* Both hold as long as nobody sets the wall clock back.                   *)
(***************************************************************************)
EXTENDS RateLimiter, Sequences

VARIABLES
  granted,  \* per address, the times of the queries let through
  steady    \* nobody has set the clock back

hvars == <<states, now, result, granted, steady>>

HInit ==
  /\ Init
  /\ granted = [a \in Addrs |-> <<>>]
  /\ steady = TRUE

HIncrement(addr) ==
  /\ increment(addr)
  /\ granted' = IF steady /\ result' = "Ok"
                THEN [granted EXCEPT ![addr] = Append(@, now)]
                ELSE granted
  /\ UNCHANGED steady

HAdvanceClock == AdvanceClock /\ UNCHANGED <<granted, steady>>

\* From then on no history is kept.
HSetClockBack ==
  /\ SetClockBack
  /\ granted' = [a \in Addrs |-> <<>>]
  /\ steady' = FALSE

HNext ==
  \/ \E a \in Addrs : HIncrement(a)
  \/ HAdvanceClock
  \/ HSetClockBack

HSpec == HInit /\ [][HNext]_hvars

-----------------------------------------------------------------------------

HTypeOK ==
  /\ TypeOK
  /\ granted \in [Addrs -> Seq(Int)]
  /\ steady \in BOOLEAN

\* The most queries one address gets answered within WINDOW_SECS.
Burst == 2 * (RATE_LIMIT - 1)

\* A query and the one Burst places later are WINDOW_SECS apart or more.
Spaced(g) ==
  \A i \in 1..(Len(g) - Burst) : g[i + Burst] - g[i] >= WINDOW_SECS

\* The windows of rate_limiter.rs:43 are not sliding, but no address gets more
\* than Burst answers within less than WINDOW_SECS of time.  This holds
\* across counters that expire, blocks that end and purges that drop either.
SlidingWindow == \A a \in Addrs : Spaced(granted[a])

\* a was let through RATE_LIMIT - 1 times, the first of them not too long ago.
SpentItsWindow(a) ==
  LET n == Len(granted[a]) IN
  /\ n >= RATE_LIMIT - 1
  /\ granted[a][n - RATE_LIMIT + 2] >= now - WINDOW_SECS - BLOCK_DURATION_SECS

\* Not even the purge makes room in the table.
HeldByOthers == Size(cleanup(states, now)) >= MAX_SIZE

\* An address that is turned away has itself spent RATE_LIMIT - 1 queries in
\* one window not longer ago than a block lasts, or the table is held by
\* MAX_SIZE addresses none of which may be dropped yet (rate_limiter.rs:27-29,
\* 51-55, 66-68).
BlockIsJustified ==
  [][\A a \in Addrs :
       (steady /\ increment(a) /\ result' = "Block")
         => SpentItsWindow(a) \/ HeldByOthers]_hvars

-----------------------------------------------------------------------------
(* The inductive invariant behind both: how the entry e of an address sums *)
(* up its history g at time t.  The queries before the current window lie  *)
(* before its start, and those more than RATE_LIMIT - 1 further back lie a *)
(* whole WINDOW_SECS before it.                                            *)

PastInv(g, t) == \A i \in 1..Len(g) : g[i] <= t

AbsentInv(e, g, t) ==
  e.tag = "Absent" =>
    \A i \in 1..(Len(g) - (RATE_LIMIT - 1)) : g[i] <= t - WINDOW_SECS

KnownInv(e, g, t) ==
  LET before == Len(g) - e.count IN
  e.tag = "KnownSince" =>
    /\ before >= 0
    /\ e.time <= t
    /\ \A i \in 1..before : g[i] <= e.time
    /\ \A i \in 1..(before - (RATE_LIMIT - 1)) : g[i] <= e.time - WINDOW_SECS
    /\ \A i \in (before + 1)..Len(g) : g[i] >= e.time

BlockedInv(e, g) ==
  LET before == Len(g) - (RATE_LIMIT - 1) IN
  e.tag = "BlockedUntil" =>
    /\ before >= 0
    /\ \A i \in 1..before : g[i] <= e.time - WINDOW_SECS
    /\ \A i \in (before + 1)..Len(g) :
         g[i] >= e.time - BLOCK_DURATION_SECS - WINDOW_SECS

SummedUp(e, g, t) ==
  /\ PastInv(g, t)
  /\ AbsentInv(e, g, t)
  /\ KnownInv(e, g, t)
  /\ BlockedInv(e, g)

\* What is left in the table still accounts for every query let through: an
\* entry that is reset, turned into a block or purged (rate_limiter.rs:44,
\* 53, 63, 75) never forgets a query younger than WINDOW_SECS.
HistoryInv == steady => \A a \in Addrs : SummedUp(states[a], granted[a], now)
=============================================================================
