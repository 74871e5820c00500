---------------------------- MODULE RateLimiter ----------------------------
(***************************************************************************)
(* nws::RateLimiter: a token bucket shared by threads.  A thread's call is *)
(* a sequence of steps: the mutex is held from the clock reading inside    *)
(* refill() to the end of take_or_wait_time(), and is free while the       *)
(* caller decides whether to give up and while it sleeps.  The clock may   *)
(* advance between any two steps.                                          *)
(***************************************************************************)
EXTENDS Integers, Sequences

CONSTANTS
    Threads,            \* the callers
    RawConfigs,         \* RateLimiter::Config values passed to the constructor
    Waits,              \* max_wait arguments of acquire_for, in ms
    UINT16_MAX,         \* largest value of the token count's type
    TicksPerMs,         \* Clock::duration ticks in one millisecond
    ClockMax,           \* Clock::duration::max(), in ticks
    DefaultIntervalMs,  \* refill interval substituted for a non-positive one
    None,               \* std::nullopt
    Free,               \* the mutex has no owner
    MaxTime,            \* bound: the clock stops here unless someone sleeps
    MaxCalls            \* bound: calls made by all threads together

Config ==
    [max_tokens : 0..UINT16_MAX, refill_interval : Int, initial_tokens : 0..UINT16_MAX,
     max_wait : Int \cup {None}]

ASSUME ConfigAssumption == RawConfigs \subseteq Config
ASSUME WaitsAssumption == Waits \subseteq Int
ASSUME ClockAssumption ==
    /\ TicksPerMs \in Nat \ {0}
    /\ ClockMax \in Nat \ {0}
    /\ DefaultIntervalMs \in Nat \ {0}
ASSUME WidthAssumption == UINT16_MAX \in Nat \ {0}
ASSUME NoneAssumption == None \notin Int /\ Free \notin Threads
ASSUME BoundsAssumption == MaxTime \in Nat /\ MaxCalls \in Nat

VARIABLES
    \* members of the limiter
    config, tokens, last_refill, mutex,
    \* environment
    clock, calls,
    \* locals of each thread's call
    pc, deadline, wait, wake, result,
    \* history
    reading,    \* the latest clock reading taken by the bucket
    grants,     \* readings at which tokens were taken since the last reset
    contended   \* did anyone take a token or reset since t computed its wait?

limiter == <<config, tokens, last_refill, mutex>>
locals == <<pc, deadline, wait, wake, result>>
history == <<reading, grants, contended>>
vars == <<limiter, clock, calls, locals, history>>

Labels == {"idle", "try", "tryLocked", "acquire", "locked", "decide", "asleep"}

MinOf(a, b) == IF a <= b THEN a ELSE b
MaxOf(a, b) == IF a >= b THEN a ELSE b
UInt16(n) == n % (UINT16_MAX + 1)
-----------------------------------------------------------------------------
(* Construction.                                                           *)

\* Mutant of Sanitized: the start is not clamped to the maximum.
SanitizedKeepsInitial(c) ==
    [c EXCEPT !.refill_interval = IF @ <= 0 THEN DefaultIntervalMs ELSE @,
              !.max_tokens = MaxOf(@, 1)]

Sanitized(c) ==
    LET max == MaxOf(c.max_tokens, 1)
    IN  [max_tokens |-> max,
         refill_interval |-> IF c.refill_interval <= 0 THEN DefaultIntervalMs
                             ELSE c.refill_interval,
         initial_tokens |-> MinOf(c.initial_tokens, max),
         max_wait |-> c.max_wait]

Init ==
    /\ \E c \in RawConfigs : config = Sanitized(c)
    /\ tokens = config.initial_tokens
    /\ last_refill = 0
    /\ mutex = Free
    /\ clock = 0
    /\ calls = 0
    /\ pc = [t \in Threads |-> "idle"]
    /\ deadline = [t \in Threads |-> None]
    /\ wait = [t \in Threads |-> 0]
    /\ wake = [t \in Threads |-> 0]
    /\ result = [t \in Threads |-> FALSE]
    /\ reading = 0
    /\ grants = <<>>
    /\ contended = [t \in Threads |-> TRUE]

(***************************************************************************)
(* The clock.  It runs up to MaxTime, and past it for as long as a thread  *)
(* is asleep; it never leaves the representable range.                     *)
(***************************************************************************)
Tick ==
    /\ clock + 1 < ClockMax
    /\ clock < MaxTime \/ \E t \in Threads : pc[t] = "asleep" /\ clock < wake[t]
    /\ clock' = clock + 1
    /\ UNCHANGED <<limiter, calls, locals, history>>
-----------------------------------------------------------------------------
(* Arithmetic of the bucket.                                               *)

Ms(ticks) == ticks \div TicksPerMs

Interval == config.refill_interval * TicksPerMs

Earned(now) == Ms(now - last_refill) \div config.refill_interval

\* Mutant of IntervalDuration: the clamp is taken the wrong way round.
IntervalDurationInverted ==
    IF config.refill_interval < Ms(ClockMax) THEN ClockMax ELSE Interval

\* The interval as a Clock::duration, clamped to the representable range.
IntervalDuration ==
    IF config.refill_interval >= Ms(ClockMax) THEN ClockMax ELSE Interval

\* Mutant of WaitTime: the wait is truncated to whole milliseconds.
WaitTimeInMs(now) ==
    MaxOf(Ms(IntervalDuration - (now - last_refill)) * TicksPerMs, 0)

WaitTime(now) == MaxOf(IntervalDuration - (now - last_refill), 0)

\* Mutant of Deadline: now + max_wait without the range check.
DeadlineUnchecked(now, ms) == IF ms <= 0 THEN now ELSE now + ms * TicksPerMs

Deadline(now, ms) ==
    IF ms <= 0 THEN now
    ELSE IF ms >= Ms(ClockMax - now) THEN ClockMax
    ELSE now + ms * TicksPerMs

\* Mutant of AvailableTokens: what has been earned is not capped.
AvailableTokensUncapped(now) == UInt16(tokens + MaxOf(Earned(now), 0))

AvailableTokens(now) ==
    UInt16(MinOf(tokens + MaxOf(Earned(now), 0), config.max_tokens))

\* Mutants of refill: the remainder of the elapsed time is dropped; a full
\* bucket goes on earning.
refillDropsRemainder(now) ==
    LET total == tokens + Earned(now)
    IN  /\ tokens' = MinOf(total, config.max_tokens)
        /\ last_refill' = IF tokens >= config.max_tokens \/ Earned(now) > 0
                          THEN now ELSE last_refill
refillKeepsIdleTime(now) ==
    LET earned == Earned(now)
    IN  IF tokens >= config.max_tokens \/ earned <= 0
        THEN UNCHANGED <<tokens, last_refill>>
        ELSE /\ tokens' = MinOf(tokens + earned, config.max_tokens)
             /\ last_refill' = IF tokens + earned >= config.max_tokens
                               THEN now ELSE last_refill + earned * Interval

\* refill() at the clock reading now.
refill(now) ==
    LET earned == Earned(now)
        total == tokens + earned
    IN  \/ /\ tokens >= config.max_tokens
           /\ last_refill' = now
           /\ UNCHANGED tokens
        \/ /\ tokens < config.max_tokens
           /\ earned <= 0
           /\ UNCHANGED <<tokens, last_refill>>
        \/ /\ tokens < config.max_tokens
           /\ earned > 0
           /\ total >= config.max_tokens
           /\ tokens' = config.max_tokens
           /\ last_refill' = now
        \/ /\ tokens < config.max_tokens
           /\ earned > 0
           /\ total < config.max_tokens
           /\ tokens' = UInt16(total)
           /\ last_refill' = last_refill + earned * Interval
-----------------------------------------------------------------------------
(* The calls of a thread.                                                  *)

Enter(t, label, dl) ==
    /\ pc[t] = "idle"
    /\ calls < MaxCalls
    /\ calls' = calls + 1
    /\ pc' = [pc EXCEPT ![t] = label]
    /\ deadline' = [deadline EXCEPT ![t] = dl]
    /\ contended' = [contended EXCEPT ![t] = TRUE]
    /\ UNCHANGED <<limiter, clock, wait, wake, result, reading, grants>>

\* Leave the call with the answer r; the locals go out of scope.
Return(t, r) ==
    /\ pc' = [pc EXCEPT ![t] = "idle"]
    /\ result' = [result EXCEPT ![t] = r]
    /\ deadline' = [deadline EXCEPT ![t] = None]
    /\ wait' = [wait EXCEPT ![t] = 0]
    /\ wake' = [wake EXCEPT ![t] = 0]

TryAcquire(t) == Enter(t, "try", None)

AcquireFor(t, ms) == Enter(t, "acquire", Deadline(clock, ms))

Acquire(t) ==
    IF config.max_wait # None
    THEN AcquireFor(t, config.max_wait)
    ELSE Enter(t, "acquire", None)

\* Lock the mutex and refill at a fresh clock reading.
LockAndRefill(t) ==
    /\ pc[t] \in {"try", "acquire"}
    /\ mutex = Free
    /\ mutex' = t
    /\ refill(clock)
    /\ reading' = clock
    /\ pc' = [pc EXCEPT ![t] = IF pc[t] = "try" THEN "tryLocked" ELSE "locked"]
    /\ UNCHANGED <<config, clock, calls, deadline, wait, wake, result, grants,
                   contended>>

\* A token is there: take it, unlock, and report success.
Take(t) ==
    /\ pc[t] \in {"tryLocked", "locked"}
    /\ tokens > 0
    /\ tokens' = tokens - 1
    /\ mutex' = Free
    /\ Return(t, TRUE)
    /\ grants' = Append(grants, reading)
    /\ contended' = [u \in Threads |-> TRUE]
    /\ UNCHANGED <<config, last_refill, clock, calls, reading>>

\* No token: compute the time to wait from a second clock reading, unlock.
\* try_acquire reports failure; acquire_until goes on to decide.
Miss(t) ==
    /\ tokens = 0
    /\ mutex' = Free
    /\ \/ /\ pc[t] = "tryLocked"
          /\ Return(t, FALSE)
          /\ UNCHANGED contended
       \/ /\ pc[t] = "locked"
          /\ pc' = [pc EXCEPT ![t] = "decide"]
          /\ wait' = [wait EXCEPT ![t] = WaitTime(clock)]
          /\ contended' = [contended EXCEPT ![t] = FALSE]
          /\ UNCHANGED <<deadline, wake, result>>
    /\ UNCHANGED <<config, tokens, last_refill, clock, calls, reading, grants>>

\* The wait would end after the deadline: report failure without waiting.
GiveUp(t) ==
    /\ pc[t] = "decide"
    /\ deadline[t] # None
    /\ wait[t] > deadline[t] - clock
    /\ Return(t, FALSE)
    /\ UNCHANGED <<limiter, clock, calls, history>>

Sleep(t) ==
    /\ pc[t] = "decide"
    /\ deadline[t] # None => wait[t] <= deadline[t] - clock
    /\ pc' = [pc EXCEPT ![t] = "asleep"]
    /\ wake' = [wake EXCEPT ![t] = clock + wait[t]]
    /\ UNCHANGED <<limiter, clock, calls, deadline, wait, result, history>>

\* sleep_for returns at some time not before the end of the wait.
Wake(t) ==
    /\ pc[t] = "asleep"
    /\ clock >= wake[t]
    /\ pc' = [pc EXCEPT ![t] = "acquire"]
    /\ UNCHANGED <<limiter, clock, calls, deadline, wait, wake, result, history>>

reset(t) ==
    /\ pc[t] = "idle"
    /\ mutex = Free
    /\ calls < MaxCalls
    /\ calls' = calls + 1
    /\ tokens' = config.initial_tokens
    /\ last_refill' = clock
    /\ reading' = clock
    /\ grants' = <<>>
    /\ contended' = [u \in Threads |-> TRUE]
    /\ UNCHANGED <<config, mutex, clock, locals>>
-----------------------------------------------------------------------------
Call(t) ==
    \/ TryAcquire(t)
    \/ Acquire(t)
    \/ \E ms \in Waits : AcquireFor(t, ms)
    \/ reset(t)

\* The steps of a call in progress.
Step(t) ==
    \/ LockAndRefill(t)
    \/ Take(t)
    \/ Miss(t)
    \/ GiveUp(t)
    \/ Sleep(t)
    \/ Wake(t)

\* The bounds are used up: every call has returned, or the clock has reached
\* the end of its range.
Done ==
    /\ \/ calls = MaxCalls /\ \A t \in Threads : pc[t] = "idle"
       \/ clock + 1 >= ClockMax
    /\ UNCHANGED vars

Next == Tick \/ Done \/ \E t \in Threads : Call(t) \/ Step(t)

Spec == Init /\ [][Next]_vars

\* Time passes, and the scheduler does not forget a thread that can run.
Fairness == WF_vars(Tick) /\ \A t \in Threads : WF_vars(Step(t))

FairSpec == Spec /\ Fairness
-----------------------------------------------------------------------------
(* Properties.                                                             *)

\* Type correctness: the bucket never holds more than max_tokens, so the
\* uint16_t member is never truncated, and every local has its type.
TypeOK ==
    /\ config \in Config
    /\ config.max_tokens > 0
    /\ config.refill_interval > 0
    /\ config.initial_tokens <= config.max_tokens
    /\ tokens \in 0..config.max_tokens
    /\ last_refill \in Nat
    /\ mutex \in Threads \cup {Free}
    /\ clock \in Nat
    /\ calls \in Nat
    /\ pc \in [Threads -> Labels]
    /\ deadline \in [Threads -> Nat \cup {None}]
    /\ wait \in [Threads -> Nat]
    /\ wake \in [Threads -> Nat]
    /\ result \in [Threads -> BOOLEAN]
    /\ reading \in Nat
    /\ grants \in Seq(Nat)
    /\ contended \in [Threads -> BOOLEAN]

\* The bucket the limiter implements: whole tokens plus the time elapsed since
\* last_refill are its credit, and it sees time only at refill's readings.
Bucket == INSTANCE TokenBucket WITH
    bucket <- [capacity |-> config.max_tokens, interval |-> Interval,
               initial |-> config.initial_tokens],
    time <- reading,
    credit <- tokens * Interval + (reading - last_refill),
    grants <- grants

\* The lazy refill in whole tokens, with last_refill advanced by whole
\* intervals, loses no credit and invents none under any interleaving.
ImplementsTokenBucket == Bucket!Spec

\* Threads together never take more than max_tokens plus one token per elapsed
\* refill_interval, over any stretch of time between two resets.
BurstBound == Bucket!BurstBound

\* available_tokens() announces what the next caller will find: its own
\* arithmetic, which leaves the members alone, agrees with refill's.
AvailableIsHonest ==
    [][\A t \in Threads :
          LockAndRefill(t) => tokens' = AvailableTokens(clock)]_vars

\* The wait computed by take_or_wait_time() is long enough: a thread that slept
\* it finds a token unless another thread took one, or reset, meanwhile.
SleepIsEnough ==
    \A t \in Threads : pc[t] = "locked" /\ tokens = 0 => contended[t]

\* acquire_for never computes a time point outside the clock's range, however
\* large the caller's max_wait.
DeadlineRepresentable ==
    \A t \in Threads : deadline[t] # None => deadline[t] <= ClockMax

\* Every try_acquire, acquire and acquire_for returns, whatever configuration
\* the limiter was built from, when finitely many calls compete.
EveryCallReturns ==
    \A t \in Threads : pc[t] # "idle" ~> pc[t] = "idle"
=============================================================================
