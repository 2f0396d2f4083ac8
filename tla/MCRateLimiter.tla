----------------------------- MODULE MCRateLimiter -----------------------------
(* A table for two of three addresses.  Time ends, so the histories stay   *)
(* finite by themselves.                                                   *)
EXTENDS RateLimiterHistory, TLC

\* A second before the epoch, where now_secs is negative, and some after.
MCTimes == -1..4

\* The addresses are interchangeable.
Symmetry == Permutations(Addrs)
=============================================================================
