---------------------------- MODULE RetryPolicy ----------------------------
(***************************************************************************)
(* The decisions of retry.hpp: which outcomes of a request are tried       *)
(* again, and after which delay.                                           *)
(*                                                                         *)
(* A double is a whole number of units: delays of 1/DelayUnit ms,          *)
(* multipliers of 1/MultUnit, jitter factors of 1/JitterUnit; NonFinite    *)
(* stands for NaN and the infinities.  Where the delays matter, DelayUnit  *)
(* is a multiple of MultUnit^n for every number n of retries, so that no   *)
(* multiplication is rounded.                                              *)
(***************************************************************************)
EXTENDS Integers

CONSTANTS
    UINT8_MAX,          \* largest value of the attempt counter's type
    DelayUnit, MultUnit, JitterUnit,
    NonFinite,          \* NaN or an infinity
    Statuses,           \* HTTP status codes of responses
    Codes               \* values of ErrorCode

ASSUME UnitAssumption ==
    /\ UINT8_MAX \in Nat \ {0}
    /\ DelayUnit \in Nat \ {0}
    /\ MultUnit \in Nat \ {0}
    /\ JitterUnit \in Nat \ {0}

ASSUME StatusAssumption == Statuses \subseteq Int

Response == [kind : {"response"}, status : Statuses]
Failure == [kind : {"error"}, code : Codes]

RetryPolicies ==
    [initial_delay : Int, max_delay : Int,
     backoff_multiplier : Int \cup {NonFinite},
     jitter_factor : Int \cup {NonFinite},
     max_attempts : 0..UINT8_MAX,
     retry_on_network_error : BOOLEAN,
     retry_on_rate_limit : BOOLEAN,
     retry_on_server_error : BOOLEAN]

AtMost(a, b) == IF a <= b THEN a ELSE b
AtLeast(a, b) == IF a >= b THEN a ELSE b

\* should_retry for a response.
RetryStatus(status, policy) ==
    IF status \in {429, 503} THEN policy.retry_on_rate_limit
    ELSE policy.retry_on_server_error /\ status >= 500 /\ status < 600

\* should_retry for an error.
RetryError(code, policy) ==
    policy.retry_on_network_error /\ code = "NetworkError"

\* Mutant of should_retry: every error is retried.
ShouldRetryAnyError(r, policy) ==
    IF r.kind = "response" THEN RetryStatus(r.status, policy)
    ELSE policy.retry_on_network_error

should_retry(r, policy) ==
    IF r.kind = "response" THEN RetryStatus(r.status, policy)
    ELSE RetryError(r.code, policy)
-----------------------------------------------------------------------------
(* calculate_retry_delay.                                                  *)

Maximum(policy) == AtLeast(policy.max_delay, 0)

InitialDelay(policy) ==
    AtMost(AtLeast(policy.initial_delay, 0), Maximum(policy))

Multiplier(policy) ==
    IF policy.backoff_multiplier = NonFinite THEN MultUnit
    ELSE AtLeast(policy.backoff_multiplier, 0)

\* The delay before jitter: multiplied once per earlier attempt, and capped
\* each time.
Backoff(attempt, policy) ==
    LET b[i \in 1..UINT8_MAX] ==
          IF i = 1 THEN InitialDelay(policy) * DelayUnit
          ELSE AtMost((b[i - 1] * Multiplier(policy)) \div MultUnit,
                      Maximum(policy) * DelayUnit)
    IN  b[attempt]

Spread(policy) ==
    IF policy.jitter_factor = NonFinite THEN 0
    ELSE AtMost(AtLeast(policy.jitter_factor, 0), JitterUnit)

\* Mutant of Milliseconds: the cap is not applied again after the jitter.
MillisecondsUncapped(d, policy) == d \div DelayUnit

\* Conversion to whole milliseconds, capped before it truncates.
Milliseconds(d, policy) ==
    IF d >= Maximum(policy) * DelayUnit THEN Maximum(policy) ELSE d \div DelayUnit

\* The delays calculate_retry_delay may return, one per jitter drawn.
calculate_retry_delay(attempt, policy) ==
    {Milliseconds((Backoff(attempt, policy) * (JitterUnit + j)) \div JitterUnit,
                  policy) : j \in (0 - Spread(policy))..Spread(policy)}
=============================================================================
