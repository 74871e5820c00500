------------------------- MODULE RateLimiterProofs -------------------------
(***************************************************************************)
(* What the limiter guarantees for every set of threads, configuration,    *)
(* tick length and clock range.                                            *)
(***************************************************************************)
EXTENDS RateLimiter, TLAPS

\* Euclidean division, and what dividing twice computes.
LEMMA DivFacts ==
    ASSUME NEW a \in Nat, NEW d \in Nat \ {0}
    PROVE  /\ a \div d \in Nat
           /\ (a \div d) * d <= a
           /\ a < (a \div d) * d + d
BY SMT

LEMMA MulMonotone ==
    ASSUME NEW a \in Nat, NEW b \in Nat, NEW d \in Nat, a <= b
    PROVE  /\ a * d \in Nat /\ b * d \in Nat /\ a * d <= b * d
           /\ (a + 1) * d = a * d + d
           /\ (a + b) * d = a * d + b * d
           /\ 0 * d = 0
BY SMT

LEMMA DoubleDiv ==
    ASSUME NEW e \in Nat, NEW T \in Nat \ {0}, NEW R \in Nat \ {0}
    PROVE  LET n == (e \div T) \div R
           IN  /\ n \in Nat
               /\ n * (R * T) <= e
               /\ e < n * (R * T) + R * T
<1> DEFINE q == e \div T
           n == q \div R
<1>1. q \in Nat /\ q * T <= e /\ e < q * T + T
  BY DivFacts
<1> HIDE DEF q
<1>2. n \in Nat /\ n * R <= q /\ q < n * R + R
  BY <1>1, DivFacts
<1> HIDE DEF n
<1> DEFINE p == n * R
<1>3. p \in Nat /\ p <= q /\ q + 1 <= p + R /\ p * T = n * (R * T)
  BY <1>1, <1>2, SMT
<1> HIDE DEF p
<1>4. p * T <= q * T /\ q * T \in Nat /\ p * T \in Nat
  BY <1>1, <1>3, MulMonotone
<1>5. (q + 1) * T <= (p + R) * T
  BY <1>1, <1>3, MulMonotone
<1>6. (q + 1) * T = q * T + T /\ (p + R) * T = p * T + R * T /\ R * T \in Nat
  BY <1>1, <1>3, SMT
<1>7. n * (R * T) <= e /\ e < n * (R * T) + R * T
  <2> DEFINE x == q * T
             y == n * (R * T)
             z == R * T
  <2>1. /\ x \in Nat /\ y \in Nat /\ z \in Nat
        /\ y <= x /\ x + T <= y + z /\ x <= e /\ e < x + T
    BY <1>1, <1>3, <1>4, <1>5, <1>6
  <2> HIDE DEF x, y, z
  <2>2. y <= e /\ e < y + z
    BY <2>1
  <2> QED BY <2>2 DEF y, z
<1> QED BY <1>2, <1>7 DEF n, q
-----------------------------------------------------------------------------
(* The arithmetic of the bucket.                                           *)

\* A sanitized configuration has a positive capacity and interval.
LEMMA ConfigFacts ==
    ASSUME TypeOK
    PROVE  /\ config.max_tokens \in 1..UINT16_MAX
           /\ config.refill_interval \in Nat \ {0}
           /\ config.initial_tokens \in 0..config.max_tokens
           /\ Interval \in Nat \ {0}
<1>1. /\ config.max_tokens \in 1..UINT16_MAX
      /\ config.refill_interval \in Nat \ {0}
      /\ config.initial_tokens \in 0..config.max_tokens
  BY WidthAssumption DEF TypeOK, Config
<1>2. TicksPerMs \in Nat \ {0}
  BY ClockAssumption
<1> DEFINE r == config.refill_interval
<1>3. r * TicksPerMs \in Nat \ {0}
  <2> HIDE DEF r
  <2>1. r \in Nat \ {0}
    BY <1>1 DEF r
  <2> QED BY <1>2, <2>1, SMT
<1> QED BY <1>1, <1>3 DEF Interval

\* Truncating to milliseconds before dividing by the interval earns exactly
\* the whole intervals that have elapsed.
LEMMA EarnedFacts ==
    ASSUME TypeOK, NEW now \in Nat, last_refill <= now
    PROVE  /\ Earned(now) \in Nat
           /\ Earned(now) * Interval \in Nat
           /\ Earned(now) * Interval <= now - last_refill
           /\ now - last_refill < Earned(now) * Interval + Interval
<1> DEFINE e == now - last_refill
           r == config.refill_interval
           n == (e \div TicksPerMs) \div r
<1>1. e \in Nat
  BY DEF TypeOK
<1>2. r \in Nat \ {0} /\ TicksPerMs \in Nat \ {0} /\ r * TicksPerMs \in Nat
  BY ConfigFacts, ClockAssumption DEF Interval
<1>3. /\ n \in Nat /\ n * (r * TicksPerMs) <= e
      /\ e < n * (r * TicksPerMs) + r * TicksPerMs
  <2> HIDE DEF e, r
  <2> QED BY <1>1, <1>2, DoubleDiv
<1>4. n * (r * TicksPerMs) \in Nat
  <2> HIDE DEF n, r
  <2> QED BY <1>2, <1>3, MulMonotone
<1> QED BY <1>3, <1>4 DEF Earned, Ms, Interval

\* What refill() does, in one place: it keeps the bucket in range, it moves
\* the credit as the abstract bucket does, it agrees with available_tokens(),
\* it never empties the bucket, it leaves an empty one alone, and it finds a
\* token once an interval has elapsed.
LEMMA RefillFacts ==
    ASSUME TypeOK, NEW now \in Nat, last_refill <= now, refill(now)
    PROVE  \E tk \in 0..config.max_tokens, lr \in Nat :
             LET credit == tokens * Interval + (now - last_refill)
                 capacity == config.max_tokens * Interval
             IN  /\ tokens' = tk /\ last_refill' = lr /\ lr <= now
                 /\ tk * Interval + (now - lr)
                       = IF credit <= capacity THEN credit ELSE capacity
                 /\ tk = AvailableTokens(now)
                 /\ tokens > 0 => tk > 0
                 /\ tk = 0 => lr = last_refill
                 /\ now - last_refill >= Interval => tk > 0
<1> DEFINE M == config.max_tokens
           I == Interval
           e == Earned(now)
           d == now - last_refill
           total == tokens + e
<1>1. /\ M \in 1..UINT16_MAX /\ I \in Nat \ {0} /\ tokens \in 0..M
      /\ last_refill \in Nat /\ d \in Nat
  BY ConfigFacts DEF TypeOK
<1>2. /\ e \in Nat /\ e * I \in Nat /\ e * I <= d /\ d < e * I + I
  BY EarnedFacts
<1> DEFINE Times(n) == n * I
<1>3. /\ \A a \in Nat : Times(a) \in Nat
      /\ Times(0) = 0
  <2> HIDE DEF I
  <2> QED BY <1>1, MulMonotone
<1>p. \A a, b \in Nat : Times(a + b) = Times(a) + Times(b)
  <2> HIDE DEF I
  <2> QED BY <1>1, SMT
<1>m. \A a, b \in Nat : a <= b => Times(a) <= Times(b)
  <2> HIDE DEF I
  <2> QED BY <1>1, MulMonotone
<1>s. \A a, b \in Nat : a < b => Times(a) + I <= Times(b)
  <2> HIDE DEF I
  <2> SUFFICES ASSUME NEW a \in Nat, NEW b \in Nat, a < b
               PROVE  Times(a) + I <= Times(b)
    OBVIOUS
  <2>1. (a + 1) * I <= b * I /\ (a + 1) * I = a * I + I
    BY <1>1, MulMonotone
  <2> QED BY <2>1
<1>a. /\ e \in Nat /\ Times(e) \in Nat /\ Times(e) <= d /\ d < Times(e) + I
  BY <1>2
<1>4. AvailableTokens(now) = IF total <= M THEN total ELSE M
  <2>1. MaxOf(e, 0) = e
    BY <1>2 DEF MaxOf
  <2>2. AvailableTokens(now) = UInt16(MinOf(total, M))
    BY <2>1 DEF AvailableTokens
  <2> HIDE DEF M, total
  <2>3. total \in Nat
    BY <1>1, <1>2 DEF total
  <2> QED BY <1>1, <2>2, <2>3, WidthAssumption DEF MinOf, UInt16
<1> DEFINE Good(tk, lr) ==
      /\ tk \in 0..M /\ lr \in Nat /\ lr <= now
      /\ Times(tk) + (now - lr)
            = IF Times(tokens) + d <= Times(M) THEN Times(tokens) + d ELSE Times(M)
      /\ tk = IF total <= M THEN total ELSE M
      /\ tokens > 0 => tk > 0
      /\ tk = 0 => lr = last_refill
      /\ d >= I => tk > 0
<1>b. /\ M \in Nat /\ tokens \in Nat /\ total \in Nat
      /\ Times(M) \in Nat /\ Times(tokens) \in Nat
      /\ Times(total) = Times(tokens) + Times(e)
  <2>1. M \in Nat /\ tokens \in Nat /\ total \in Nat
    BY <1>1, <1>2
  <2>2. Times(M) \in Nat /\ Times(tokens) \in Nat
    <3> HIDE DEF M, I, Times
    <3> QED BY <1>3, <2>1
  <2>3. Times(total) = Times(tokens) + Times(e)
    <3> HIDE DEF e, I, Times
    <3> QED BY <1>p, <1>a, <2>1
  <2> QED BY <2>1, <2>2, <2>3
<1>c. refill(now) =>
         \/ tokens >= M /\ last_refill' = now /\ tokens' = tokens
         \/ tokens < M /\ e <= 0 /\ tokens' = tokens /\ last_refill' = last_refill
         \/ tokens < M /\ e > 0 /\ total >= M /\ tokens' = M /\ last_refill' = now
         \/ /\ tokens < M /\ e > 0 /\ total < M /\ tokens' = UInt16(total)
            /\ last_refill' = last_refill + Times(e)
  BY DEF refill
<1>d. SUFFICES \E tk, lr : tokens' = tk /\ last_refill' = lr /\ Good(tk, lr)
  BY <1>4
<1> HIDE DEF I, Times
<1>5. CASE tokens >= M /\ last_refill' = now /\ tokens' = tokens
  <2>1. tokens = M
    BY <1>1, <1>5
  <2>2. Good(M, now)
    <3> HIDE DEF M, d, e
    <3> QED BY <1>1, <1>a, <1>b, <2>1
  <2> QED BY <1>5, <2>1, <2>2
<1>6. CASE /\ tokens < M /\ e <= 0
           /\ tokens' = tokens /\ last_refill' = last_refill
  <2> HIDE DEF M, e
  <2>0. e = 0
    BY <1>a, <1>6
  <2>1. e = 0 /\ d < I
    <3>1. Times(e) = 0
      BY <1>3, <2>0
    <3> HIDE DEF d
    <3> QED BY <1>1, <1>a, <2>0, <3>1
  <2>2. Times(tokens) + I <= Times(M)
    BY <1>s, <1>b, <1>6
  <2>3. Times(tokens) + d <= Times(M)
    <3> HIDE DEF d
    <3> QED BY <1>1, <1>b, <2>1, <2>2
  <2>4. Good(tokens, last_refill)
    BY <1>1, <1>6, <2>1, <2>3
  <2> QED BY <1>6, <2>4 DEF M
<1>7. CASE /\ tokens < M /\ e > 0 /\ total >= M
           /\ tokens' = M /\ last_refill' = now
  <2>1. Times(M) <= Times(total)
    <3> HIDE DEF M, total, e
    <3> QED BY <1>m, <1>b, <1>7
  <2>2. Good(M, now)
    <3> HIDE DEF M, d, e, total
    <3> QED BY <1>1, <1>a, <1>b, <1>7, <2>1
  <2> QED BY <1>7, <2>2
<1>8. CASE /\ tokens < M /\ e > 0 /\ total < M /\ tokens' = UInt16(total)
           /\ last_refill' = last_refill + Times(e)
  <2> DEFINE lr == last_refill + Times(e)
  <2>1. total \in 1..M /\ UInt16(total) = total
    <3>1. total \in 1..M /\ total <= UINT16_MAX
      <4> HIDE DEF M, e
      <4> QED BY <1>1, <1>a, <1>8, WidthAssumption
    <3> HIDE DEF total
    <3> QED BY <1>b, <3>1, WidthAssumption DEF UInt16
  <2>2. Times(total) + I <= Times(M)
    <3> HIDE DEF M, total, e
    <3> QED BY <1>s, <1>b, <1>8
  <2>3. /\ lr \in Nat /\ lr <= now
        /\ Times(total) + (now - lr) = Times(tokens) + d
        /\ Times(tokens) + d <= Times(M)
    <3> HIDE DEF e, M, total
    <3> QED BY <1>1, <1>a, <1>b, <2>2
  <2>4. Good(total, lr)
    <3> HIDE DEF lr, d, M, e, total
    <3> QED BY <1>1, <1>b, <2>1, <2>3
  <2> QED BY <1>8, <2>1, <2>4
<1> QED BY <1>c, <1>5, <1>6, <1>7, <1>8
-----------------------------------------------------------------------------
(* Type correctness.                                                       *)

\* last_refill is never ahead of the latest reading, nor that of the clock,
\* which never leaves its range.  refill() needs it: an elapsed time that is
\* negative would earn nothing and never be repaid.
ClockOrder ==
    /\ last_refill <= reading
    /\ reading <= clock
    /\ clock < ClockMax

\* sanitized() always yields a usable configuration.
LEMMA SanitizedFacts ==
    ASSUME NEW c \in Config
    PROVE  /\ Sanitized(c) \in Config
           /\ Sanitized(c).max_tokens > 0
           /\ Sanitized(c).refill_interval > 0
           /\ Sanitized(c).initial_tokens \in 0..Sanitized(c).max_tokens
<1>1. /\ c.max_tokens \in 0..UINT16_MAX /\ c.refill_interval \in Int
      /\ c.initial_tokens \in 0..UINT16_MAX /\ c.max_wait \in Int \cup {None}
  BY DEF Config
<1> DEFINE max == MaxOf(c.max_tokens, 1)
           init == MinOf(c.initial_tokens, max)
           ri == IF c.refill_interval <= 0 THEN DefaultIntervalMs
                 ELSE c.refill_interval
<1>2. max \in 1..UINT16_MAX
  BY <1>1, WidthAssumption DEF MaxOf
<1>3. init \in 0..max
  <2> HIDE DEF max
  <2> QED BY <1>1, <1>2, WidthAssumption DEF MinOf
<1>4. ri \in Nat \ {0}
  BY <1>1, ClockAssumption
<1>5. Sanitized(c) = [max_tokens |-> max, refill_interval |-> ri,
                      initial_tokens |-> init, max_wait |-> c.max_wait]
  BY DEF Sanitized
<1> HIDE DEF max, init, ri
<1>6. init \in 0..UINT16_MAX /\ ri \in Int /\ max > 0 /\ ri > 0 /\ max \in 0..UINT16_MAX
  BY <1>2, <1>3, <1>4, WidthAssumption
<1> QED BY <1>1, <1>3, <1>5, <1>6 DEF Config

LEMMA InitTypeOK == Init => TypeOK /\ ClockOrder
<1> SUFFICES ASSUME Init PROVE TypeOK /\ ClockOrder
  OBVIOUS
<1> PICK c \in RawConfigs : config = Sanitized(c)
  BY DEF Init
<1>1. /\ config \in Config /\ config.max_tokens > 0
      /\ config.refill_interval > 0
      /\ config.initial_tokens \in 0..config.max_tokens
  BY SanitizedFacts, ConfigAssumption
<1>2. config.initial_tokens <= config.max_tokens
  BY <1>1 DEF Config
<1>3. clock < ClockMax /\ last_refill <= reading /\ reading <= clock
  BY ClockAssumption DEF Init
<1> QED BY <1>1, <1>2, <1>3 DEF Init, TypeOK, ClockOrder, Labels

\* Every deadline is a time point of the clock, even for a wait that is
\* longer than what is left of its range.
LEMMA DeadlineFacts ==
    ASSUME NEW now \in Nat, now < ClockMax, NEW ms \in Int
    PROVE  Deadline(now, ms) \in Nat /\ Deadline(now, ms) <= ClockMax
<1> DEFINE left == ClockMax - now
           q == left \div TicksPerMs
<1>1. left \in Nat /\ TicksPerMs \in Nat \ {0} /\ ClockMax \in Nat
  BY ClockAssumption
<1>2. q \in Nat /\ q * TicksPerMs <= left
  <2> HIDE DEF left
  <2> QED BY <1>1, DivFacts
<1>3. CASE ms <= 0
  BY <1>1, <1>3 DEF Deadline
<1>4. CASE ms > 0 /\ ms >= q
  <2>1. Deadline(now, ms) = ClockMax
    <3> HIDE DEF q
    <3> QED BY <1>2, <1>4 DEF Deadline, Ms, q
  <2> QED BY <1>1, <2>1
<1>5. CASE ms > 0 /\ ms < q
  <2>1. Deadline(now, ms) = now + ms * TicksPerMs
    BY <1>2, <1>5 DEF Deadline, Ms
  <2>2. ms * TicksPerMs \in Nat /\ ms * TicksPerMs <= q * TicksPerMs
    <3> HIDE DEF q
    <3>1. ms \in Nat /\ ms <= q
      BY <1>2, <1>5
    <3> QED BY <1>1, <1>2, <3>1, MulMonotone
  <2>3. q * TicksPerMs \in Nat
    <3> HIDE DEF q
    <3> QED BY <1>1, <1>2, MulMonotone
  <2> DEFINE x == ms * TicksPerMs
             y == q * TicksPerMs
  <2>4. now + x \in Nat /\ now + x <= ClockMax
    <3> HIDE DEF x, y
    <3> QED BY <1>1, <1>2, <2>2, <2>3 DEF x, y
  <2> QED BY <2>1, <2>4
<1> QED BY <1>2, <1>3, <1>4, <1>5

\* A thread that waits for WaitTime(now) waits until a full interval has
\* elapsed since last_refill.
LEMMA WaitFacts ==
    ASSUME TypeOK, NEW now \in Nat, last_refill <= now
    PROVE  /\ IntervalDuration \in Nat
           /\ WaitTime(now) \in Nat
           /\ now + WaitTime(now) >= last_refill + IntervalDuration
<1>1. IntervalDuration \in Nat
  BY ConfigFacts, ClockAssumption DEF IntervalDuration
<1> QED BY <1>1 DEF WaitTime, MaxOf, TypeOK

\* Each step keeps the types and the order of the clock readings.
LEMMA NextTypeOK ==
    ASSUME TypeOK, ClockOrder, [Next]_vars
    PROVE  TypeOK' /\ ClockOrder'
<1> USE DEF TypeOK, ClockOrder, Labels
<1>1. CASE Tick
  <2>1. clock + 1 \in Nat /\ clock + 1 < ClockMax /\ reading <= clock + 1
    BY <1>1, ClockAssumption DEF Tick
  <2> QED BY <1>1, <2>1 DEF Tick, limiter, locals, history
<1>2. CASE Done \/ UNCHANGED vars
  BY <1>2 DEF Done, vars, limiter, locals, history
<1>3. ASSUME NEW t \in Threads, NEW label \in {"try", "acquire"},
             NEW dl \in Nat \cup {None}, Enter(t, label, dl)
      PROVE  TypeOK' /\ ClockOrder'
  BY <1>3 DEF Enter, limiter
<1>4. \A ms \in Int : Deadline(clock, ms) \in Nat
  BY DeadlineFacts
<1>5. ASSUME NEW t \in Threads, Call(t)
      PROVE  TypeOK' /\ ClockOrder'
  <2>1. CASE TryAcquire(t)
    BY <2>1, <1>3 DEF TryAcquire
  <2>2. ASSUME NEW ms \in Int, AcquireFor(t, ms)
        PROVE  TypeOK' /\ ClockOrder'
    BY <2>2, <1>3, <1>4 DEF AcquireFor
  <2>3. CASE Acquire(t)
    <3>1. config.max_wait \in Int \cup {None}
      BY DEF Config
    <3> QED BY <1>3, <2>2, <2>3, <3>1 DEF Acquire
  <2>4. CASE reset(t)
    BY <2>4, ConfigFacts DEF reset, locals
  <2> QED BY <1>5, <2>1, <2>2, <2>3, <2>4, WaitsAssumption DEF Call
<1>6. ASSUME NEW t \in Threads, Step(t)
      PROVE  TypeOK' /\ ClockOrder'
  <2>1. CASE LockAndRefill(t)
    <3>1. \E tk \in 0..config.max_tokens, lr \in Nat :
             tokens' = tk /\ last_refill' = lr /\ lr <= clock
      BY <2>1, RefillFacts DEF LockAndRefill
    <3> QED BY <2>1, <3>1 DEF LockAndRefill
  <2>2. CASE Take(t)
    <3>1. tokens - 1 \in 0..config.max_tokens /\ tokens' = tokens - 1
      BY <2>2, ConfigFacts DEF Take
    <3>2. Append(grants, reading) \in Seq(Nat)
      OBVIOUS
    <3>3. [u \in Threads |-> TRUE] \in [Threads -> BOOLEAN]
      OBVIOUS
    <3> QED BY <2>2, <3>1, <3>2, <3>3 DEF Take, Return
  <2>3. CASE Miss(t)
    <3>1. WaitTime(clock) \in Nat
      BY WaitFacts
    <3>2. CASE pc[t] = "tryLocked" /\ Return(t, FALSE) /\ UNCHANGED contended
      BY <2>3, <3>2 DEF Miss, Return
    <3>3. CASE /\ pc' = [pc EXCEPT ![t] = "decide"]
               /\ wait' = [wait EXCEPT ![t] = WaitTime(clock)]
               /\ contended' = [contended EXCEPT ![t] = FALSE]
               /\ UNCHANGED <<deadline, wake, result>>
      BY <2>3, <3>1, <3>3 DEF Miss
    <3> QED BY <2>3, <3>2, <3>3 DEF Miss
  <2>4. CASE GiveUp(t)
    BY <2>4 DEF GiveUp, Return, limiter, history
  <2>5. CASE Sleep(t)
    BY <2>5 DEF Sleep, limiter, history
  <2>6. CASE Wake(t)
    BY <2>6 DEF Wake, limiter, history
  <2> QED BY <1>6, <2>1, <2>2, <2>3, <2>4, <2>5, <2>6 DEF Step
<1> QED BY <1>1, <1>2, <1>5, <1>6 DEF Next

\* The limiter is type correct for every instance: above all, the bucket
\* never holds more than max_tokens.
THEOREM TypeCorrect == Spec => [](TypeOK /\ ClockOrder)
<1>1. Init => TypeOK /\ ClockOrder
  BY InitTypeOK
<1>2. TypeOK /\ ClockOrder /\ [Next]_vars => (TypeOK /\ ClockOrder)'
  BY NextTypeOK
<1> QED BY <1>1, <1>2, PTL DEF Spec

\* acquire_for never leaves the range of the clock.
THEOREM DeadlinesRepresentable == Spec => []DeadlineRepresentable
<1>1. Init => DeadlineRepresentable
  BY DEF Init, DeadlineRepresentable
<1>2. TypeOK /\ ClockOrder /\ DeadlineRepresentable /\ [Next]_vars
        => DeadlineRepresentable'
  <2> SUFFICES ASSUME TypeOK, ClockOrder, DeadlineRepresentable, [Next]_vars
               PROVE  DeadlineRepresentable'
    OBVIOUS
  <2>0. deadline \in [Threads -> Nat \cup {None}]
    BY DEF TypeOK
  <2>1. CASE UNCHANGED deadline
    BY <2>1 DEF DeadlineRepresentable
  <2>2. ASSUME NEW t \in Threads, NEW label,
               NEW dl, dl = None \/ dl <= ClockMax, Enter(t, label, dl)
        PROVE  DeadlineRepresentable'
    BY <2>0, <2>2 DEF Enter, DeadlineRepresentable
  <2>3. \A ms \in Int : Deadline(clock, ms) <= ClockMax
    BY DeadlineFacts DEF TypeOK, ClockOrder
  <2>4. ASSUME NEW t \in Threads, Call(t) PROVE DeadlineRepresentable'
    <3>1. config.max_wait \in Int \cup {None}
      BY DEF TypeOK, Config
    <3> QED BY <2>1, <2>2, <2>3, <2>4, <3>1, WaitsAssumption
            DEF Call, TryAcquire, Acquire, AcquireFor, reset, locals
  <2>5. ASSUME NEW t \in Threads, Step(t) PROVE DeadlineRepresentable'
    <3>1. ASSUME NEW r, Return(t, r) PROVE DeadlineRepresentable'
      BY <2>0, <3>1 DEF Return, DeadlineRepresentable
    <3> QED BY <2>1, <2>5, <3>1
            DEF Step, LockAndRefill, Take, Miss, GiveUp, Sleep, Wake
  <2> QED BY <2>1, <2>4, <2>5 DEF Next, Tick, Done, vars, locals
<1> QED BY <1>1, <1>2, TypeCorrect, PTL DEF Spec

\* available_tokens() and refill() agree in every reachable state.
THEOREM AvailableHonest == Spec => AvailableIsHonest
<1>1. TypeOK /\ ClockOrder
        => \A t \in Threads : LockAndRefill(t) => tokens' = AvailableTokens(clock)
  BY RefillFacts DEF LockAndRefill, TypeOK, ClockOrder
<1> QED BY <1>1, TypeCorrect, PTL DEF AvailableIsHonest
-----------------------------------------------------------------------------
(* The wait is long enough.                                                *)

\* What a thread that waits can count on while nobody interferes: either there
\* is a token, or its next look at the bucket comes a full interval after
\* last_refill.
Promise(t) ==
    \/ contended[t]
    \/ pc[t] = "idle"
    \/ tokens > 0
    \/ pc[t] = "decide" /\ clock + wait[t] >= last_refill + IntervalDuration
    \/ pc[t] = "asleep" /\ wake[t] >= last_refill + IntervalDuration
    \/ pc[t] = "acquire" /\ clock >= last_refill + IntervalDuration

\* A promise outlives a step that leaves the thread and the bucket alone.
LEMMA PromiseStable ==
    ASSUME TypeOK, ClockOrder, NEW u \in Threads, Promise(u),
           UNCHANGED <<config, last_refill>>, tokens > 0 => tokens' > 0,
           clock' = clock \/ clock' = clock + 1,
           pc'[u] = pc[u], wait'[u] = wait[u], wake'[u] = wake[u],
           contended'[u] = contended[u]
    PROVE  Promise(u)'
<1>1. IntervalDuration' = IntervalDuration /\ IntervalDuration \in Nat
  <2>1. IntervalDuration \in Nat
    BY WaitFacts DEF TypeOK, ClockOrder
  <2> QED BY <2>1 DEF IntervalDuration, Interval
<1>2. clock \in Nat /\ wait[u] \in Nat /\ last_refill \in Nat
  BY DEF TypeOK
<1>4. last_refill + IntervalDuration \in Int
  BY <1>1, <1>2
<1> DEFINE due == last_refill + IntervalDuration
<1>5. due' = due
  BY <1>1
<1>6. /\ clock >= due => clock' >= due
      /\ clock + wait[u] >= due => clock' + wait[u] >= due
  <2> HIDE DEF due
  <2>1. CASE clock' = clock
    BY <2>1
  <2>2. CASE clock' = clock + 1
    <3>1. /\ clock >= due => clock + 1 >= due
          /\ clock + wait[u] >= due => clock + 1 + wait[u] >= due
      <4> DEFINE w == wait[u]
      <4>1. due \in Int /\ w \in Nat
        BY <1>2, <1>4 DEF due
      <4> HIDE DEF w
      <4>2. /\ clock >= due => clock + 1 >= due
            /\ clock + w >= due => clock + 1 + w >= due
        BY <1>2, <4>1
      <4> QED BY <4>2 DEF w
    <3> QED BY <2>2, <3>1
  <2> QED BY <2>1, <2>2
<1> HIDE DEF due
<1>7. contended'[u] \/ ~contended[u]
  OBVIOUS
<1> QED BY <1>5, <1>6, <1>7 DEF Promise, due

\* A full interval after last_refill, refill() finds a token.  The clamp of
\* an interval that does not fit the clock is harmless: the clock never gets
\* there.
LEMMA PromiseKept ==
    ASSUME TypeOK, ClockOrder, refill(clock),
           clock >= last_refill + IntervalDuration
    PROVE  tokens' > 0
<1>1. clock \in Nat /\ last_refill \in Nat /\ last_refill <= clock
      /\ clock < ClockMax /\ ClockMax \in Nat
  BY ClockAssumption DEF TypeOK, ClockOrder
<1>2. IntervalDuration # ClockMax
  BY <1>1
<1>3. IntervalDuration = Interval /\ Interval \in Nat
  BY <1>2, ConfigFacts DEF IntervalDuration
<1>4. clock - last_refill >= Interval
  BY <1>1, <1>3
<1> QED BY <1>1, <1>4, RefillFacts

\* The wait computed under the lock is still long enough when it is used,
\* however long the thread was away in between: SleepIsEnough is inductive
\* together with the promise.
THEOREM SleepSuffices == Spec => []SleepIsEnough
<1> DEFINE AllPromised == \A t \in Threads : Promise(t)
<1>1. Init => AllPromised
  BY DEF Init, Promise
<1>2. TypeOK /\ ClockOrder /\ AllPromised /\ [Next]_vars => AllPromised'
  <2> SUFFICES ASSUME TypeOK, ClockOrder, AllPromised, [Next]_vars,
                      NEW u \in Threads
               PROVE  Promise(u)'
    OBVIOUS
  <2>0. /\ Promise(u)
        /\ pc \in [Threads -> Labels] /\ wait \in [Threads -> Nat]
        /\ wake \in [Threads -> Nat] /\ contended \in [Threads -> BOOLEAN]
        /\ clock \in Nat /\ last_refill \in Nat /\ last_refill <= clock
    BY DEF TypeOK, ClockOrder
  <2>i. IntervalDuration \in Nat
    BY <2>0, WaitFacts
  <2>1. CASE Tick
    BY <2>1, PromiseStable DEF Tick, limiter, locals, history
  <2>2. CASE Done \/ UNCHANGED vars
    BY <2>2, PromiseStable DEF Done, vars, limiter, locals, history
  <2>3. ASSUME NEW t \in Threads, NEW label, NEW dl, Enter(t, label, dl)
        PROVE  Promise(u)'
    <3>1. CASE u = t
      BY <2>0, <2>3, <3>1 DEF Enter, Promise
    <3>2. CASE u # t
      BY <2>0, <2>3, <3>2, PromiseStable DEF Enter, limiter
    <3> QED BY <3>1, <3>2
  <2>4. ASSUME NEW t \in Threads, Call(t) PROVE Promise(u)'
    <3>1. CASE reset(t)
      BY <3>1 DEF reset, Promise
    <3> QED BY <2>3, <2>4, <3>1 DEF Call, TryAcquire, Acquire, AcquireFor
  <2>5. ASSUME NEW t \in Threads, Step(t) PROVE Promise(u)'
    <3>1. CASE LockAndRefill(t)
      <4>1. PICK tk \in 0..config.max_tokens, lr \in Nat :
               /\ tokens' = tk /\ last_refill' = lr
               /\ tokens > 0 => tk > 0
               /\ tk = 0 => lr = last_refill
        BY <2>0, <3>1, RefillFacts DEF LockAndRefill
      <4>2. CASE tk > 0
        BY <4>1, <4>2 DEF Promise
      <4>3. CASE tk = 0
        <5>1. UNCHANGED last_refill /\ ~(tokens > 0)
          BY <4>1, <4>3
        <5>2. CASE u = t
          <6>1. tokens' = 0 /\ ~(tokens' > 0)
            BY <4>1, <4>3
          <6>2. clock >= last_refill + IntervalDuration => FALSE
            BY <3>1, <6>1, PromiseKept DEF LockAndRefill
          <6>3. contended[u]
            BY <2>0, <3>1, <5>1, <5>2, <6>2 DEF LockAndRefill, Promise
          <6> QED BY <3>1, <6>3 DEF LockAndRefill, Promise
        <5>3. CASE u # t
          BY <2>0, <3>1, <5>1, <5>3, PromiseStable DEF LockAndRefill
        <5> QED BY <5>2, <5>3
      <4> QED BY <2>0, <4>1, <4>2, <4>3, ConfigFacts
    <3>2. CASE Take(t)
      BY <3>2 DEF Take, Promise
    <3>3. CASE Miss(t)
      <4>1. CASE u = t /\ pc[t] = "locked"
        <5>1. /\ pc'[u] = "decide" /\ wait'[u] = WaitTime(clock) /\ clock' = clock
              /\ last_refill' = last_refill /\ config' = config
          BY <2>0, <3>3, <4>1 DEF Miss
        <5>2. IntervalDuration' = IntervalDuration
          BY <5>1 DEF IntervalDuration, Interval
        <5>3. clock + WaitTime(clock) >= last_refill + IntervalDuration
          BY WaitFacts DEF TypeOK, ClockOrder
        <5> QED BY <5>1, <5>2, <5>3 DEF Promise
      <4>2. CASE u = t /\ pc[t] = "tryLocked"
        BY <2>0, <3>3, <4>2 DEF Miss, Return, Promise
      <4>3. CASE u # t
        BY <2>0, <3>3, <4>3, PromiseStable DEF Miss, Return
      <4> QED BY <3>3, <4>1, <4>2, <4>3 DEF Miss
    <3>4. CASE GiveUp(t)
      <4>1. CASE u = t
        BY <2>0, <3>4, <4>1 DEF GiveUp, Return, Promise
      <4>2. CASE u # t
        BY <2>0, <3>4, <4>2, PromiseStable DEF GiveUp, Return, limiter, history
      <4> QED BY <4>1, <4>2
    <3>5. CASE Sleep(t)
      <4>1. CASE u = t
        BY <2>0, <3>5, <4>1
           DEF Sleep, Promise, limiter, history, IntervalDuration, Interval
      <4>2. CASE u # t
        BY <2>0, <3>5, <4>2, PromiseStable DEF Sleep, limiter, history
      <4> QED BY <4>1, <4>2
    <3>6. CASE Wake(t)
      <4>1. CASE u = t
        <5>1. /\ pc[t] = "asleep" /\ pc'[t] = "acquire" /\ clock >= wake[t]
              /\ UNCHANGED <<config, tokens, last_refill, clock, contended>>
          BY <2>0, <3>6 DEF Wake, limiter, history
        <5>2. IntervalDuration' = IntervalDuration
          BY <5>1 DEF IntervalDuration, Interval
        <5>3. /\ wake[t] \in Nat
              /\ wake[t] >= last_refill + IntervalDuration
                    => clock >= last_refill + IntervalDuration
          BY <2>0, <2>i, <5>1
        <5> QED BY <2>0, <4>1, <5>1, <5>2, <5>3 DEF Promise
      <4>2. CASE u # t
        BY <2>0, <3>6, <4>2, PromiseStable DEF Wake, limiter, history
      <4> QED BY <4>1, <4>2
    <3> QED BY <2>5, <3>1, <3>2, <3>3, <3>4, <3>5, <3>6 DEF Step
  <2> QED BY <2>1, <2>2, <2>4, <2>5 DEF Next
<1>3. TypeOK /\ AllPromised => SleepIsEnough
  <2> SUFFICES ASSUME TypeOK, AllPromised, NEW t \in Threads,
                      pc[t] = "locked", tokens = 0
               PROVE  contended[t]
    BY DEF SleepIsEnough
  <2>1. Promise(t) /\ ~(tokens > 0)
    OBVIOUS
  <2> QED BY <2>1 DEF Promise
<1> QED BY <1>1, <1>2, <1>3, TypeCorrect, PTL DEF Spec
-----------------------------------------------------------------------------
(* The limiter implements the token bucket.                                *)

\* A limiter that is left alone is a bucket that is left alone.
LEMMA BucketStutters ==
    ASSUME UNCHANGED <<config, tokens, last_refill, reading, grants>>
    PROVE  UNCHANGED Bucket!vars
BY DEF Bucket!vars, Interval

LEMMA BucketInit ==
    ASSUME Init PROVE Bucket!Init
<1>1. TypeOK
  BY InitTypeOK
<1>2. /\ config.max_tokens \in Nat \ {0} /\ Interval \in Nat \ {0}
      /\ config.initial_tokens \in Nat
      /\ config.initial_tokens <= config.max_tokens
  BY <1>1, ConfigFacts, WidthAssumption
<1>3. config.initial_tokens * Interval + (0 - 0) = config.initial_tokens * Interval
  <2> DEFINE x == config.initial_tokens
  <2> HIDE DEF x
  <2>1. x \in Nat
    BY <1>2 DEF x
  <2>2. x * Interval \in Nat
    BY <1>2, <2>1, MulMonotone
  <2>3. x * Interval + (0 - 0) = x * Interval
    BY <2>2
  <2> QED BY <2>3 DEF x
<1> QED BY <1>2, <1>3 DEF Init, Bucket!Init, Bucket!Parameters

\* refill() is the bucket seeing the clock.
LEMMA RefillObserves ==
    ASSUME TypeOK, ClockOrder, NEW t \in Threads, LockAndRefill(t)
    PROVE  Bucket!Observe
<1> DEFINE I == Interval
           M == config.max_tokens
<1>1. /\ clock \in Nat /\ reading \in Nat /\ last_refill \in Nat
      /\ reading <= clock /\ last_refill <= clock /\ clock >= reading
  BY DEF TypeOK, ClockOrder
<1>2. tokens * I \in Nat /\ M * I \in Nat
  <2>1. I \in Nat /\ M \in Nat /\ tokens \in Nat
    BY ConfigFacts, WidthAssumption DEF TypeOK
  <2> HIDE DEF I, M
  <2> QED BY <2>1, MulMonotone
<1>3. refill(clock) /\ reading' = clock /\ UNCHANGED <<config, grants>>
  BY DEF LockAndRefill
<1>4. PICK tk, lr :
         /\ tokens' = tk /\ last_refill' = lr
         /\ tk * I + (clock - lr)
               = IF tokens * I + (clock - last_refill) <= M * I
                 THEN tokens * I + (clock - last_refill) ELSE M * I
  BY <1>1, <1>3, RefillFacts
<1>5. tokens * I + (reading - last_refill) + (clock - reading)
        = tokens * I + (clock - last_refill)
  <2> DEFINE x == tokens * I
  <2>1. x \in Nat
    BY <1>2
  <2> HIDE DEF x
  <2>2. x + (reading - last_refill) + (clock - reading) = x + (clock - last_refill)
    BY <1>1, <2>1
  <2> QED BY <2>2 DEF x
<1>6. I' = I
  BY <1>3 DEF Interval
<1>7. Bucket!ObserveAt(clock)
  <2> HIDE DEF I, M
  <2> QED BY <1>1, <1>3, <1>4, <1>5, <1>6
          DEF Bucket!ObserveAt, Bucket!Capped, Bucket!Capacity, I, M
<1> QED BY <1>3, <1>7 DEF Bucket!Observe

\* A token taken is a grant paid for.
LEMMA TakeGrants ==
    ASSUME TypeOK, ClockOrder, NEW t \in Threads, Take(t)
    PROVE  Bucket!Grant
<1> DEFINE x == reading - last_refill
           I == Interval
<1>1. /\ I \in Nat \ {0} /\ tokens \in Nat /\ tokens > 0 /\ x \in Nat
  BY ConfigFacts, WidthAssumption DEF Take, TypeOK, ClockOrder
<1>2. /\ tokens * I + x >= I
      /\ (tokens - 1) * I + x = (tokens * I + x) - I
  <2> HIDE DEF x, I
  <2>1. tokens - 1 \in Nat /\ tokens = (tokens - 1) + 1
    BY <1>1
  <2> DEFINE k == (tokens - 1) * I
  <2>2. k \in Nat /\ tokens * I = k + I
    BY <1>1, <2>1, MulMonotone
  <2> HIDE DEF k
  <2>3. k + I + x >= I /\ k + x = (k + I + x) - I
    BY <1>1, <2>2
  <2> QED BY <2>2, <2>3 DEF k
<1>3. /\ tokens' = tokens - 1 /\ grants' = Append(grants, reading)
      /\ UNCHANGED <<config, last_refill, reading>>
  BY DEF Take
<1>4. I' = I
  BY <1>3 DEF Interval
<1> DEFINE b == [capacity |-> config.max_tokens, interval |-> Interval,
                 initial |-> config.initial_tokens]
           c == tokens * Interval + (reading - last_refill)
<1>5. b.interval = I /\ b' = b
  BY <1>3, <1>4
<1>6. c' = (tokens - 1) * I + x
  BY <1>3, <1>4
<1>7. c >= b.interval /\ c' = c - b.interval
  <2>1. c >= I
    BY <1>2
  <2>2. (tokens - 1) * I + x = c - I
    BY <1>2
  <2>3. c' = c - I
    <3> HIDE DEF c, I, x
    <3> QED BY <1>6, <2>2
  <2> HIDE DEF b, c, I
  <2> QED BY <1>5, <2>1, <2>3
<1> HIDE DEF b, c
<1> QED BY <1>3, <1>5, <1>7 DEF Bucket!Grant, b, c

LEMMA ResetResets ==
    ASSUME TypeOK, ClockOrder, NEW t \in Threads, reset(t)
    PROVE  Bucket!Reset
<1> DEFINE x == config.initial_tokens * Interval
<1>1. x \in Nat
  <2>1. config.initial_tokens \in Nat /\ Interval \in Nat
    BY ConfigFacts, WidthAssumption
  <2> QED BY <2>1, MulMonotone
<1>2. clock \in Nat /\ clock >= reading
  BY DEF TypeOK, ClockOrder
<1>3. x + (clock - clock) = x
  <2> HIDE DEF x
  <2> QED BY <1>1, <1>2
<1>4. /\ tokens' = config.initial_tokens /\ last_refill' = clock
      /\ reading' = clock /\ grants' = <<>> /\ config' = config
  BY DEF reset
<1>5. Interval' = Interval
  BY <1>4 DEF Interval
<1> QED BY <1>2, <1>3, <1>4, <1>5 DEF Bucket!Reset

\* The limiter implements the token bucket, for any number of threads and
\* under any interleaving of their steps.
THEOREM Refinement == Spec => ImplementsTokenBucket
<1>1. Init => Bucket!Init
  BY BucketInit
<1>2. TypeOK /\ ClockOrder /\ [Next]_vars => [Bucket!Next]_(Bucket!vars)
  <2> SUFFICES ASSUME TypeOK, ClockOrder, [Next]_vars
               PROVE  [Bucket!Next]_(Bucket!vars)
    OBVIOUS
  <2>1. CASE Tick \/ Done \/ UNCHANGED vars
    BY <2>1, BucketStutters DEF Tick, Done, vars, limiter, history
  <2>2. ASSUME NEW t \in Threads, Call(t)
        PROVE  [Bucket!Next]_(Bucket!vars)
    BY <2>2, BucketStutters, ResetResets
       DEF Call, TryAcquire, Acquire, AcquireFor, Enter, limiter, Bucket!Next
  <2>3. ASSUME NEW t \in Threads, Step(t)
        PROVE  [Bucket!Next]_(Bucket!vars)
    <3>1. CASE LockAndRefill(t)
      BY <3>1, RefillObserves DEF Bucket!Next
    <3>2. CASE Take(t)
      BY <3>2, TakeGrants DEF Bucket!Next
    <3>3. CASE Miss(t) \/ GiveUp(t) \/ Sleep(t) \/ Wake(t)
      BY <3>3, BucketStutters
         DEF Miss, GiveUp, Sleep, Wake, limiter, history
    <3> QED BY <2>3, <3>1, <3>2, <3>3 DEF Step
  <2> QED BY <2>1, <2>2, <2>3 DEF Next
<1> QED BY <1>1, <1>2, TypeCorrect, PTL
        DEF Spec, ImplementsTokenBucket, Bucket!Spec

\* The bucket's theorems, under the refinement mapping.
BucketProofs == INSTANCE TokenBucketProofs WITH
    bucket <- [capacity |-> config.max_tokens, interval |-> Interval,
               initial |-> config.initial_tokens],
    time <- reading,
    credit <- tokens * Interval + (reading - last_refill),
    grants <- grants

\* Threads together never exceed the configured rate: the bucket's theorem,
\* carried over by the refinement.
THEOREM RateLimited == Spec => []BurstBound
<1>1. Bucket!Init => BucketProofs!Init
  BY DEF Bucket!Init, BucketProofs!Init, Bucket!Parameters,
         BucketProofs!Parameters
<1>2. [Bucket!Next]_(Bucket!vars) => [BucketProofs!Next]_(BucketProofs!vars)
  BY DEF Bucket!Next, BucketProofs!Next, Bucket!vars, BucketProofs!vars,
         Bucket!Observe, BucketProofs!Observe,
         Bucket!ObserveAt, BucketProofs!ObserveAt,
         Bucket!Capped, BucketProofs!Capped,
         Bucket!Capacity, BucketProofs!Capacity,
         Bucket!Grant, BucketProofs!Grant, Bucket!Reset, BucketProofs!Reset
<1>3. BucketProofs!BurstBound => BurstBound
  BY DEF BurstBound, Bucket!BurstBound, BucketProofs!BurstBound,
         Bucket!Capacity, BucketProofs!Capacity
<1> QED BY <1>1, <1>2, <1>3, Refinement, BucketProofs!RateLimited, PTL
        DEF ImplementsTokenBucket, Bucket!Spec, BucketProofs!Spec
=============================================================================
