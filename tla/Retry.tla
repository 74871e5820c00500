------------------------------- MODULE Retry -------------------------------
(***************************************************************************)
(* nws::with_retry and RetryingClient: one caller, a request at a time.    *)
(* The operation is whatever the caller passes in: each of its outcomes    *)
(* may follow any other.                                                   *)
(***************************************************************************)
EXTENDS RetryPolicy, Sequences

CONSTANTS
    Policies,       \* RetryPolicy values in use
    Outcomes,       \* what the operation may return
    MaxRequests     \* bound: requests made

ASSUME PoliciesAssumption == Policies \subseteq RetryPolicies
ASSUME OutcomesAssumption == Outcomes \subseteq Response \cup Failure
ASSUME RequestsAssumption == MaxRequests \in Nat
ASSUME CodesAssumption == "NetworkError" \in Codes

VARIABLES
    policy,     \* policy_ of the client
    pc,         \* "idle", "loop", "asleep"
    attempt,    \* the loop counter, an uint8_t
    result,     \* what the latest request returned, <<>> for nothing yet
    delay,      \* ms the latest sleep_for was asked for
    requests,   \* requests started
    outcomes    \* history: what the operation returned in this request

vars == <<policy, pc, attempt, result, delay, requests, outcomes>>

Exhausted == [kind |-> "error", code |-> "NetworkError"]

Init ==
    /\ policy \in Policies
    /\ pc = "idle"
    /\ attempt = 1
    /\ result = <<>>
    /\ delay = 0
    /\ requests = 0
    /\ outcomes = <<>>

\* set_policy; the account of the latest request is closed.
SetPolicy(p) ==
    /\ pc = "idle"
    /\ policy' = p
    /\ result' = <<>>
    /\ outcomes' = <<>>
    /\ UNCHANGED <<pc, attempt, delay, requests>>

Get ==
    /\ pc = "idle"
    /\ requests < MaxRequests
    /\ requests' = requests + 1
    /\ pc' = "loop"
    /\ attempt' = 1
    /\ result' = <<>>
    /\ outcomes' = <<>>
    /\ UNCHANGED <<policy, delay>>

TriesAgain(r) == should_retry(r, policy) /\ attempt < policy.max_attempts

Return(r) ==
    /\ pc' = "idle"
    /\ result' = r
    /\ UNCHANGED delay

\* One round of the loop: run the operation, then return what it returned or
\* ask for a delay.
Attempt(r) ==
    /\ pc = "loop"
    /\ attempt <= policy.max_attempts
    /\ outcomes' = Append(outcomes, r)
    /\ \/ /\ TriesAgain(r)
          /\ \E d \in calculate_retry_delay(attempt, policy) : delay' = d
          /\ pc' = "asleep"
          /\ UNCHANGED result
       \/ /\ ~TriesAgain(r)
          /\ Return(r)
    /\ UNCHANGED <<policy, attempt, requests>>

\* Mutant of Continue: only attempts that succeeded would be counted.
ContinueUncounted ==
    /\ pc = "asleep"
    /\ pc' = "loop"
    /\ outcomes' = <<>>
    /\ UNCHANGED <<policy, attempt, result, delay, requests>>

\* sleep_for returns; ++attempt.
Continue ==
    /\ pc = "asleep"
    /\ pc' = "loop"
    /\ attempt' = (attempt + 1) % (UINT8_MAX + 1)
    /\ UNCHANGED <<policy, result, delay, requests, outcomes>>

\* Mutant of OutOfAttempts: the attempt that was never made is reported as
\* a success.
OutOfAttemptsOk ==
    /\ pc = "loop"
    /\ attempt > policy.max_attempts
    /\ Return([kind |-> "response", status |-> 200])
    /\ UNCHANGED <<policy, attempt, requests, outcomes>>

\* The loop ends without having returned.
OutOfAttempts ==
    /\ pc = "loop"
    /\ attempt > policy.max_attempts
    /\ Return(Exhausted)
    /\ UNCHANGED <<policy, attempt, requests, outcomes>>

Step == Continue \/ OutOfAttempts \/ \E r \in Outcomes : Attempt(r)

Done == pc = "idle" /\ requests = MaxRequests /\ UNCHANGED vars

Next == Get \/ Step \/ Done \/ \E p \in Policies : SetPolicy(p)

Spec == Init /\ [][Next]_vars

\* The operation returns and so does sleep_for.
FairSpec == Spec /\ WF_vars(Step)
-----------------------------------------------------------------------------
(* Properties.                                                             *)

\* Outcomes worth another try, by the comments on RetryPolicy: lost
\* connections, rate limiting (429 and 503) and the other 5xx, each as the
\* policy allows.
Transient(r) ==
    \/ policy.retry_on_network_error /\ r \in Failure /\ r.code = "NetworkError"
    \/ policy.retry_on_rate_limit /\ r \in Response /\ r.status \in {429, 503}
    \/ /\ policy.retry_on_server_error
       /\ r \in Response
       /\ r.status \in (500..599) \ {503}

\* Type correctness: in particular, the loop counter never wraps to 0.
TypeOK ==
    /\ policy \in RetryPolicies
    /\ pc \in {"idle", "loop", "asleep"}
    /\ attempt \in 1..UINT8_MAX
    /\ result \in Response \cup Failure \cup {<<>>}
    /\ delay \in Int
    /\ requests \in Nat
    /\ outcomes \in Seq(Outcomes)

\* The operation runs at most max_attempts times, even when max_attempts is
\* the largest value of the counter's type; every outcome but the last was
\* transient, and the loop stops short of max_attempts only on one that is
\* not.
RetriesExactlyTransient ==
    /\ Len(outcomes) <= policy.max_attempts
    /\ \A i \in 1..(Len(outcomes) - 1) : Transient(outcomes[i])
    /\ pc = "idle" /\ outcomes # <<>> /\ Len(outcomes) < policy.max_attempts
           => ~Transient(outcomes[Len(outcomes)])

\* The caller sees the last outcome itself, not a substitute, unless the
\* policy allows no attempt at all: then it sees a network error.
ReportsLastOutcome ==
    pc = "idle" /\ result # <<>> =>
        result = IF outcomes = <<>> THEN Exhausted ELSE outcomes[Len(outcomes)]

\* base multiplied n - 1 times.
Power(base, n) ==
    LET b[i \in 1..UINT8_MAX] == IF i = 1 THEN 1 ELSE base * b[i - 1]
    IN  b[n]

\* The units are small enough for the largest number of multiplications, so
\* that none is rounded.
ASSUME ExactAssumption == DelayUnit % Power(MultUnit, UINT8_MAX) = 0

\* What the fields of a policy count for, whatever they hold: a time below 0
\* is 0, no wait is above the longest, a factor below 0 is 0, jitter is a
\* fraction, and without a number there is no growth and no jitter.
Longest(p) == IF p.max_delay < 0 THEN 0 ELSE p.max_delay

First(p) ==
    CASE p.initial_delay < 0 -> 0
      [] p.initial_delay > Longest(p) -> Longest(p)
      [] OTHER -> p.initial_delay

Factor(p) ==
    CASE p.backoff_multiplier = NonFinite -> MultUnit
      [] p.backoff_multiplier # NonFinite /\ p.backoff_multiplier < 0 -> 0
      [] OTHER -> p.backoff_multiplier

Jitter(p) ==
    CASE p.jitter_factor = NonFinite -> 0
      [] p.jitter_factor # NonFinite /\ p.jitter_factor < 0 -> 0
      [] p.jitter_factor # NonFinite /\ p.jitter_factor > JitterUnit -> JitterUnit
      [] OTHER -> p.jitter_factor

\* initial_delay * multiplier^(n-1), and at most max_delay.
BackoffReference(n, p) ==
    AtMost((First(p) * DelayUnit * Power(Factor(p), n)) \div Power(MultUnit, n),
           Longest(p) * DelayUnit)

\* The delay after the n-th attempt is initial_delay * multiplier^(n-1),
\* within the jitter, and never outside 0..max_delay, also when the policy's
\* numbers are negative, too large or no numbers at all.
DelayFollowsPolicy ==
    pc = "asleep" =>
        LET b == BackoffReference(attempt, policy)
            low == (b * (JitterUnit - Jitter(policy))) \div (JitterUnit * DelayUnit)
            high == (b * (JitterUnit + Jitter(policy))) \div (JitterUnit * DelayUnit)
        IN  delay \in low..AtMost(high, Longest(policy))

\* Every request returns.
EveryRequestReturns == pc # "idle" ~> pc = "idle"
=============================================================================
