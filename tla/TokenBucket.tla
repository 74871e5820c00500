---------------------------- MODULE TokenBucket ----------------------------
(***************************************************************************)
(* What a rate limiter promises, with no tokens, no lazy refill and no     *)
(* locks: credit accrues with time at rate 1 up to capacity * interval,    *)
(* and a grant costs one interval of credit.  RateLimiter.tla implements   *)
(* this specification.                                                     *)
(***************************************************************************)
EXTENDS Integers, Sequences

VARIABLES
    bucket,     \* the fixed parameters: capacity, interval, initial
    time,       \* the latest clock reading the bucket has seen
    credit,     \* accrued credit, in clock ticks
    grants      \* readings at which a grant was made, oldest first

vars == <<bucket, time, credit, grants>>

Parameters == [capacity : Nat \ {0}, interval : Nat \ {0}, initial : Nat]

Capacity == bucket.capacity * bucket.interval

Capped(c) == IF c <= Capacity THEN c ELSE Capacity

Init ==
    /\ bucket \in Parameters
    /\ bucket.initial <= bucket.capacity
    /\ time \in Nat
    /\ credit = bucket.initial * bucket.interval
    /\ grants = <<>>

\* Time has moved on to now, and the credit with it.
ObserveAt(now) ==
    /\ now \in Nat
    /\ now >= time
    /\ time' = now
    /\ credit' = Capped(credit + (now - time))
    /\ UNCHANGED <<bucket, grants>>

Observe == ObserveAt(time')

Grant ==
    /\ credit >= bucket.interval
    /\ credit' = credit - bucket.interval
    /\ grants' = Append(grants, time)
    /\ UNCHANGED <<bucket, time>>

\* Back to the initial credit; the history starts again.
Reset ==
    /\ time' \in Nat
    /\ time' >= time
    /\ credit' = bucket.initial * bucket.interval
    /\ grants' = <<>>
    /\ UNCHANGED bucket

Next == Observe \/ Grant \/ Reset

Spec == Init /\ [][Next]_vars
-----------------------------------------------------------------------------
TypeOK ==
    /\ bucket \in Parameters
    /\ bucket.initial <= bucket.capacity
    /\ time \in Nat
    /\ credit \in 0..Capacity
    /\ grants \in Seq(Nat)

\* The grants made since the i-th one, and the credit still in hand, were all
\* paid for by the capacity and the time that has passed since.
PaidFor ==
    \A i \in 1..Len(grants) :
        (Len(grants) - i + 1) * bucket.interval + credit
            <= Capacity + (time - grants[i])

\* The rate limit itself: any run of consecutive grants i..j needs, beyond a
\* burst of capacity, one interval of elapsed time per grant.
BurstBound ==
    \A i, j \in 1..Len(grants) :
        i <= j => (j - i + 1) * bucket.interval
                      <= Capacity + (grants[j] - grants[i])
=============================================================================
