--------------------------- MODULE MCRateLimiter ---------------------------
(* A small instance of RateLimiter for TLC.                                *)
EXTENDS RateLimiter, TLC

Cfg(max, interval, initial, maxWait) ==
    [max_tokens |-> max, refill_interval |-> interval,
     initial_tokens |-> initial, max_wait |-> maxWait]

\* A bucket that starts below its maximum, one that starts above it and
\* times out, and one with every field out of range.
MCConfigs == {Cfg(2, 1, 1, None), Cfg(1, 2, 3, 1), Cfg(0, -1, 3, None)}

\* No wait, one interval, and a wait beyond the end of the clock's range.
MCWaits == {-1, 1, 100}
=============================================================================
