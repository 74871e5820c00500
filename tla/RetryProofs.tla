---------------------------- MODULE RetryProofs ----------------------------
(***************************************************************************)
(* The loop of with_retry and the delays between its attempts, for every   *)
(* policy, every width of the counter and every series of outcomes.        *)
(***************************************************************************)
EXTENDS Retry, WellFoundedInduction, TLAPS

-----------------------------------------------------------------------------
(* Induction over the natural numbers, for sets.                           *)

\* A set that holds 0 and the successor of each of its numbers holds them
\* all: otherwise the least number outside it has a predecessor inside.
LEMMA NatSetInduction ==
    ASSUME NEW S, 0 \in S, \A n \in Nat : n \in S => n + 1 \in S
    PROVE  Nat \subseteq S
<1> DEFINE R == {p \in Nat \X Nat : p[1] < p[2]}
           T == Nat \ S
<1>1. SUFFICES ASSUME T # {} PROVE FALSE
  OBVIOUS
<1>2. IsWellFoundedOn(R, Nat)
  <2>1. IsWellFoundedOn(OpToRel(<, Nat), Nat)
    BY NatLessThanWellFounded
  <2>2. R = OpToRel(<, Nat)
    BY DEF OpToRel
  <2> QED BY <2>1, <2>2
<1>3. PICK x \in T : \A y \in T : ~(<<y, x>> \in R)
  <2>1. T \subseteq Nat
    OBVIOUS
  <2> HIDE DEF R, T
  <2> QED BY <1>1, <1>2, <2>1, WFMin
<1>4. x \in Nat /\ x # 0 /\ x - 1 \in Nat
  BY <1>3
<1>5. <<x - 1, x>> \in R
  BY <1>4
<1>6. x - 1 \in S
  BY <1>3, <1>4, <1>5
<1> QED BY <1>3, <1>4, <1>6

\* The values of a table in which each entry follows from the one before.
LEMMA TableRange ==
    ASSUME NEW N \in Nat, NEW V, NEW g,
           N # 0 => g[1] \in V,
           \A i \in 2..N : g[i - 1] \in V => g[i] \in V
    PROVE  \A i \in 1..N : g[i] \in V
<1> DEFINE S == {n \in Nat : n \in 1..N => g[n] \in V}
<1>1. 0 \in S
  OBVIOUS
<1>2. ASSUME NEW n \in Nat, n \in S PROVE n + 1 \in S
  <2>1. CASE n = 0
    BY <2>1
  <2>2. CASE n # 0 /\ n + 1 \in 1..N
    <3>1. n + 1 \in 2..N /\ n \in 1..N /\ (n + 1) - 1 = n
      BY <2>2
    <3>2. g[(n + 1) - 1] \in V
      BY <1>2, <3>1
    <3>3. g[n + 1] \in V
      BY <3>1, <3>2
    <3> QED BY <3>3
  <2> QED BY <2>1, <2>2
<1>3. Nat \subseteq S
  <2> HIDE DEF S
  <2> QED BY <1>1, <1>2, NatSetInduction
<1> QED BY <1>3

IsTable(f, n, first, step) ==
    \A i \in 1..n : f[i] = IF i = 1 THEN first ELSE step[f[i - 1]]

\* Such a table exists, whatever the first entry and the step.
LEMMA TableExists ==
    ASSUME NEW N \in Nat, NEW V, NEW first \in V, NEW step \in [V -> V]
    PROVE  \E f \in [1..N -> V] : IsTable(f, N, first, step)
<1> USE DEF IsTable
<1> DEFINE Table(f, n) == IsTable(f, n, first, step)
           S == {n \in Nat : \E f \in [1..n -> V] : Table(f, n)}
<1>1. 0 \in S
  <2>1. [i \in 1..0 |-> first] \in [1..0 -> V] /\ Table([i \in 1..0 |-> first], 0)
    OBVIOUS
  <2> QED BY <2>1
<1>2. ASSUME NEW n \in Nat, n \in S PROVE n + 1 \in S
  <2>1. PICK f \in [1..n -> V] : Table(f, n)
    BY <1>2
  <2> DEFINE last == IF n = 0 THEN first ELSE step[f[n]]
             g == [i \in 1..(n + 1) |-> IF i <= n THEN f[i] ELSE last]
  <2>2. last \in V
    <3>1. CASE n = 0
      BY <3>1
    <3>2. CASE n # 0
      <4>1. n \in 1..n
        BY <3>2
      <4> QED BY <3>2, <4>1
    <3> QED BY <3>1, <3>2
  <2>3. g \in [1..(n + 1) -> V]
    <3>1. \A i \in 1..(n + 1) : (IF i <= n THEN f[i] ELSE last) \in V
      <4> HIDE DEF last
      <4> QED BY <2>2
    <3> HIDE DEF last
    <3> QED BY <3>1
  <2>4. ASSUME NEW i \in 1..(n + 1)
        PROVE  g[i] = IF i = 1 THEN first ELSE step[g[i - 1]]
    <3>1. CASE i <= n /\ i = 1
      BY <2>1, <3>1
    <3>2. CASE i <= n /\ i # 1
      <4>1. i \in 1..n /\ i - 1 \in 1..n /\ i - 1 \in 1..(n + 1) /\ i - 1 <= n
        BY <3>2
      <4>2. g[i] = f[i] /\ g[i - 1] = f[i - 1]
        <5> HIDE DEF last
        <5> QED BY <4>1
      <4>3. f[i] = step[f[i - 1]]
        BY <2>1, <3>2, <4>1
      <4> QED BY <3>2, <4>2, <4>3
    <3>3. CASE i = n + 1 /\ n = 0
      BY <3>3
    <3>4. CASE i = n + 1 /\ n # 0
      <4>1. n \in 1..(n + 1) /\ i - 1 = n /\ i # 1 /\ ~(i <= n)
        BY <3>4
      <4>2. g[n] = f[n] /\ g[i] = last
        <5> HIDE DEF last
        <5> QED BY <4>1
      <4> QED BY <3>4, <4>1, <4>2
    <3> QED BY <3>1, <3>2, <3>3, <3>4
  <2> HIDE DEF g
  <2> QED BY <2>3, <2>4
<1>3. Nat \subseteq S
  <2> HIDE DEF S
  <2> QED BY <1>1, <1>2, NatSetInduction
<1> QED BY <1>3

\* Induction up to a bound.
LEMMA IndexInduction ==
    ASSUME NEW N \in Nat, NEW S, N # 0 => 1 \in S,
           \A i \in 1..N : i \in S /\ i + 1 \in 1..N => i + 1 \in S
    PROVE  1..N \subseteq S
<1> DEFINE T == {n \in Nat : n \in 1..N => n \in S}
<1>1. 0 \in T
  OBVIOUS
<1>2. ASSUME NEW n \in Nat, n \in T PROVE n + 1 \in T
  <2>1. CASE n = 0
    BY <2>1
  <2>2. CASE n # 0 /\ n + 1 \in 1..N
    <3>1. n \in 1..N
      BY <2>2
    <3> QED BY <1>2, <2>2, <3>1
  <2> QED BY <2>1, <2>2
<1>3. Nat \subseteq T
  <2> HIDE DEF T
  <2> QED BY <1>1, <1>2, NatSetInduction
<1> QED BY <1>3

\* The function that a recursive definition of such a table denotes.
Table(first, step) ==
    CHOOSE g : g = [i \in 1..UINT8_MAX |-> IF i = 1 THEN first ELSE step[g[i - 1]]]

LEMMA TableFacts ==
    ASSUME NEW V, NEW first \in V, NEW step \in [V -> V]
    PROVE  /\ Table(first, step) \in [1..UINT8_MAX -> V]
           /\ IsTable(Table(first, step), UINT8_MAX, first, step)
<1> DEFINE Def(g) == [i \in 1..UINT8_MAX |-> IF i = 1 THEN first ELSE step[g[i - 1]]]
           b == Table(first, step)
<1>0. UINT8_MAX \in Nat /\ UINT8_MAX # 0
  BY UnitAssumption
<1>1. \E g : g = Def(g)
  <2>1. PICK f \in [1..UINT8_MAX -> V] : IsTable(f, UINT8_MAX, first, step)
    BY <1>0, TableExists
  <2>2. f = Def(f)
    BY <2>1 DEF IsTable
  <2> QED BY <2>2
<1>2. b = CHOOSE g : g = Def(g)
  BY DEF Table
<1>3. b = Def(b)
  <2> HIDE DEF Def, b
  <2> QED BY <1>1, <1>2
<1> HIDE DEF b
<1>4. \A i \in 1..UINT8_MAX : b[i] = IF i = 1 THEN first ELSE step[b[i - 1]]
  BY <1>3
<1>5. \A i \in 1..UINT8_MAX : b[i] \in V
  <2>1. b[1] \in V
    BY <1>0, <1>4
  <2>2. ASSUME NEW i \in 2..UINT8_MAX, b[i - 1] \in V PROVE b[i] \in V
    <3>1. i \in 1..UINT8_MAX /\ i # 1
      BY <1>0
    <3> QED BY <1>4, <2>2, <3>1
  <2> QED BY <1>0, <2>1, <2>2, TableRange
<1>6. b \in [1..UINT8_MAX -> V]
  <2>1. b = [i \in 1..UINT8_MAX |-> b[i]]
    BY <1>3
  <2> QED BY <1>5, <2>1
<1> QED BY <1>4, <1>6 DEF IsTable, b
-----------------------------------------------------------------------------
(* The delays.                                                             *)

\* The clamped fields of a policy, whatever the caller put in them.
LEMMA ClampedFields ==
    ASSUME NEW p \in RetryPolicies
    PROVE  /\ Maximum(p) \in Nat
           /\ InitialDelay(p) \in 0..Maximum(p)
           /\ Multiplier(p) \in Nat
           /\ Spread(p) \in 0..JitterUnit
<1>1. /\ p.max_delay \in Int /\ p.initial_delay \in Int
      /\ p.backoff_multiplier \in Int \cup {NonFinite}
      /\ p.jitter_factor \in Int \cup {NonFinite}
  BY DEF RetryPolicies
<1>2. Maximum(p) \in Nat
  BY <1>1 DEF Maximum, AtLeast
<1>3. InitialDelay(p) \in 0..Maximum(p)
  <2> HIDE DEF Maximum
  <2> QED BY <1>1, <1>2 DEF InitialDelay, AtLeast, AtMost
<1>4. Multiplier(p) \in Nat
  BY <1>1, UnitAssumption DEF Multiplier, AtLeast
<1>5. Spread(p) \in 0..JitterUnit
  BY <1>1, UnitAssumption DEF Spread, AtLeast, AtMost
<1> QED BY <1>2, <1>3, <1>4, <1>5

\* Products and quotients of natural numbers.
LEMMA ProductNat == ASSUME NEW a \in Nat, NEW b \in Nat PROVE a * b \in Nat
OBVIOUS

LEMMA QuotientNat ==
    ASSUME NEW a \in Nat, NEW b \in Nat \ {0} PROVE a \div b \in Nat
OBVIOUS

\* A quotient is below a bound when the dividend is below its multiple.
LEMMA QuotientBelow ==
    ASSUME NEW a \in Nat, NEW b \in Nat \ {0}, NEW c \in Nat, a < c * b
    PROVE  a \div b < c
OBVIOUS

\* A product of natural numbers grows with its first factor.
LEMMA ProductMonotone ==
    ASSUME NEW a \in Nat, NEW b \in Nat, NEW c \in Nat, a <= b
    PROVE  a * c <= b * c
OBVIOUS

\* One round of the loop of calculate_retry_delay.
Grow(v, p) == AtMost((v * Multiplier(p)) \div MultUnit, Maximum(p) * DelayUnit)

\* The loop of calculate_retry_delay: before jitter, the delay is a number
\* between zero and the cap, after any number of attempts.
LEMMA BackoffRounds ==
    ASSUME NEW p \in RetryPolicies
    PROVE  /\ \A i \in 1..UINT8_MAX : Backoff(i, p) \in 0..(Maximum(p) * DelayUnit)
           /\ Backoff(1, p) = InitialDelay(p) * DelayUnit
           /\ \A i \in 1..UINT8_MAX : i # 1 => Backoff(i, p) = Grow(Backoff(i - 1, p), p)
<1> DEFINE cap == Maximum(p) * DelayUnit
           first == InitialDelay(p) * DelayUnit
           V == 0..cap
           step == [v \in V |-> Grow(v, p)]
           b == CHOOSE g : g = [i \in 1..UINT8_MAX |-> IF i = 1 THEN first ELSE Grow(g[i - 1], p)]
           t == Table(first, step)
<1>1. cap \in Nat
  BY ClampedFields, UnitAssumption, ProductNat
<1>2. first \in V
  <2>1. InitialDelay(p) \in Nat /\ InitialDelay(p) <= Maximum(p) /\ Maximum(p) \in Nat
    BY ClampedFields
  <2>2. first \in Nat /\ first <= cap
    <3> HIDE DEF InitialDelay, Maximum
    <3> QED BY <2>1, UnitAssumption, ProductNat, ProductMonotone
  <2> HIDE DEF first, cap
  <2> QED BY <1>1, <2>2
<1>3. ASSUME NEW v \in V PROVE Grow(v, p) \in V
  <2> DEFINE q == (v * Multiplier(p)) \div MultUnit
  <2>1. v \in Nat /\ Multiplier(p) \in Nat
    <3> HIDE DEF cap
    <3> QED BY <1>1, ClampedFields
  <2>2. v * Multiplier(p) \in Nat
    BY <2>1, ProductNat
  <2>3. q \in Nat
    <3> DEFINE m == v * Multiplier(p)
    <3> HIDE DEF m
    <3>1. m \div MultUnit \in Nat
      BY <2>2, UnitAssumption, QuotientNat DEF m
    <3> QED BY <3>1 DEF m
  <2> HIDE DEF q, cap
  <2>4. AtMost(q, cap) \in 0..cap
    BY <1>1, <2>3 DEF AtMost
  <2> QED BY <2>4 DEF q, Grow, cap
<1> HIDE DEF cap, first
<1>4. step \in [V -> V]
  BY <1>3
<1>5. t \in [1..UINT8_MAX -> V] /\ IsTable(t, UINT8_MAX, first, step)
  <2> HIDE DEF V, step
  <2> QED BY <1>2, <1>4, TableFacts
<1>6. UINT8_MAX \in Nat /\ UINT8_MAX # 0
  BY UnitAssumption
<1> HIDE DEF t
<1>7. \A i \in 1..UINT8_MAX : t[i] = IF i = 1 THEN first ELSE Grow(t[i - 1], p)
  <2> SUFFICES ASSUME NEW i \in 1..UINT8_MAX, i # 1
               PROVE  t[i] = Grow(t[i - 1], p)
    BY <1>5 DEF IsTable
  <2>1. i - 1 \in 1..UINT8_MAX
    BY <1>6
  <2>2. t[i - 1] \in V
    BY <1>5, <2>1
  <2> QED BY <1>5, <2>2 DEF IsTable
<1>8. t = [i \in 1..UINT8_MAX |-> IF i = 1 THEN first ELSE Grow(t[i - 1], p)]
  BY <1>5, <1>7
<1>9. b = [i \in 1..UINT8_MAX |-> IF i = 1 THEN first ELSE Grow(b[i - 1], p)]
  <2> DEFINE Def(g) == [i \in 1..UINT8_MAX |-> IF i = 1 THEN first ELSE Grow(g[i - 1], p)]
  <2>1. t = Def(t)
    BY <1>8
  <2>2. b = CHOOSE g : g = Def(g)
    OBVIOUS
  <2> HIDE DEF Def, b
  <2>3. b = Def(b)
    BY <2>1, <2>2
  <2> QED BY <2>3 DEF Def
<1>10. \A i \in 1..UINT8_MAX : Backoff(i, p) = b[i]
  BY DEF Backoff, Grow, first, cap
<1> HIDE DEF b
<1>11. \A i \in 1..UINT8_MAX : b[i] = IF i = 1 THEN first ELSE Grow(b[i - 1], p)
  BY <1>9
<1>12. \A i \in 1..UINT8_MAX : b[i] \in V
  <2>1. b[1] \in V
    BY <1>2, <1>6, <1>11
  <2>2. ASSUME NEW i \in 2..UINT8_MAX, b[i - 1] \in V PROVE b[i] \in V
    <3>1. i \in 1..UINT8_MAX /\ i # 1
      BY <1>6
    <3> HIDE DEF V
    <3> QED BY <1>3, <1>11, <2>2, <3>1
  <2> HIDE DEF V
  <2> QED BY <1>6, <2>1, <2>2, TableRange
<1>13. ASSUME NEW i \in 1..UINT8_MAX, i # 1
       PROVE  Backoff(i, p) = Grow(Backoff(i - 1, p), p)
  <2>1. i - 1 \in 1..UINT8_MAX
    BY <1>6, <1>13
  <2> QED BY <1>10, <1>11, <1>13, <2>1
<1>14. 1 \in 1..UINT8_MAX
  BY <1>6
<1>15. Backoff(1, p) = first
  BY <1>10, <1>11, <1>14
<1>16. \A i \in 1..UINT8_MAX : Backoff(i, p) \in V
  BY <1>10, <1>12
<1> QED BY <1>13, <1>15, <1>16 DEF V, cap, first

\* What calculate_retry_delay returns, with any jitter: never a negative
\* delay and never one above max_delay.
LEMMA DelayRange ==
    ASSUME NEW p \in RetryPolicies, NEW n \in 1..UINT8_MAX,
           NEW d \in calculate_retry_delay(n, p)
    PROVE  d \in 0..Maximum(p)
<1> DEFINE base == Backoff(n, p)
           cap == Maximum(p) * DelayUnit
<1>1. PICK j \in (0 - Spread(p))..Spread(p) :
          d = Milliseconds((base * (JitterUnit + j)) \div JitterUnit, p)
  BY DEF calculate_retry_delay
<1>2. cap \in Nat /\ Maximum(p) \in Nat
  BY ClampedFields, UnitAssumption, ProductNat
<1>3. base \in Nat
  <2>1. base \in 0..cap
    BY BackoffRounds
  <2> HIDE DEF base, cap
  <2> QED BY <1>2, <2>1
<1>4. JitterUnit + j \in Nat
  BY <1>1, ClampedFields, UnitAssumption
<1> HIDE DEF base
<1> DEFINE factor == JitterUnit + j
           product == base * factor
           x == product \div JitterUnit
<1>5. product \in Nat
  <2> HIDE DEF factor
  <2> QED BY <1>3, <1>4, ProductNat DEF factor
<1>6. x \in Nat
  <2> HIDE DEF product
  <2> QED BY <1>5, UnitAssumption, QuotientNat
<1>7. d = Milliseconds(x, p)
  BY <1>1
<1> HIDE DEF x
<1>8. CASE x >= cap
  BY <1>2, <1>7, <1>8 DEF Milliseconds
<1>9. CASE ~(x >= cap)
  <2>1. d = x \div DelayUnit
    BY <1>7, <1>9 DEF Milliseconds
  <2>2. x < Maximum(p) * DelayUnit
    <3> HIDE DEF cap
    <3>1. x < cap
      BY <1>2, <1>6, <1>9
    <3> QED BY <3>1 DEF cap
  <2>3. x \div DelayUnit \in Nat /\ x \div DelayUnit < Maximum(p)
    BY <1>2, <1>6, <2>2, UnitAssumption, QuotientNat, QuotientBelow
  <2> HIDE DEF Maximum
  <2> QED BY <1>2, <2>1, <2>3
<1> QED BY <1>8, <1>9
-----------------------------------------------------------------------------
(* The delays follow the geometric series.                                 *)

\* More on products and quotients.
LEMMA ExactQuotient ==
    ASSUME NEW q \in Nat, NEW b \in Nat \ {0} PROVE (q * b) \div b = q
OBVIOUS

LEMMA ExactMultiple ==
    ASSUME NEW a \in Nat, NEW b \in Nat \ {0}, a % b = 0
    PROVE  a = (a \div b) * b
OBVIOUS

LEMMA QuotientAtLeast ==
    ASSUME NEW a \in Nat, NEW b \in Nat \ {0}, NEW c \in Nat, c * b <= a
    PROVE  c <= a \div b
OBVIOUS

LEMMA QuotientMonotone ==
    ASSUME NEW a \in Nat, NEW c \in Nat, NEW b \in Nat \ {0}, a <= c
    PROVE  a \div b <= c \div b
OBVIOUS

LEMMA NestedQuotient ==
    ASSUME NEW a \in Nat, NEW b \in Nat \ {0}, NEW c \in Nat \ {0}
    PROVE  (a \div b) \div c = a \div (b * c)
OBVIOUS

LEMMA Cancel ==
    ASSUME NEW a \in Nat, NEW b \in Nat, NEW c \in Nat \ {0}, a * c <= b * c
    PROVE  a <= b
OBVIOUS

\* Powers.
LEMMA PowerFacts ==
    ASSUME NEW base \in Nat
    PROVE  /\ Power(base, 1) = 1
           /\ \A i \in 1..UINT8_MAX : Power(base, i) \in Nat
           /\ \A i \in 1..UINT8_MAX : i # 1 => Power(base, i) = base * Power(base, i - 1)
           /\ base # 0 => \A i \in 1..UINT8_MAX : Power(base, i) # 0
<1> DEFINE step == [v \in Nat |-> base * v]
           Def(g) == [i \in 1..UINT8_MAX |-> IF i = 1 THEN 1 ELSE base * g[i - 1]]
           t == Table(1, step)
           b == CHOOSE g : g = Def(g)
<1>1. UINT8_MAX \in Nat /\ UINT8_MAX # 0
  BY UnitAssumption
<1>2. t \in [1..UINT8_MAX -> Nat] /\ IsTable(t, UINT8_MAX, 1, step)
  <2>1. step \in [Nat -> Nat]
    BY ProductNat
  <2> HIDE DEF step
  <2> QED BY <2>1, TableFacts
<1> HIDE DEF t
<1>3. \A i \in 1..UINT8_MAX : t[i] = IF i = 1 THEN 1 ELSE base * t[i - 1]
  <2> SUFFICES ASSUME NEW i \in 1..UINT8_MAX, i # 1
               PROVE  t[i] = base * t[i - 1]
    BY <1>2 DEF IsTable
  <2>1. i - 1 \in 1..UINT8_MAX
    BY <1>1
  <2>2. t[i - 1] \in Nat
    BY <1>2, <2>1
  <2> QED BY <1>2, <2>2 DEF IsTable
<1>4. t = Def(t)
  BY <1>2, <1>3
<1>5. b = Def(b)
  <2> HIDE DEF Def
  <2> QED BY <1>4
<1>6. \A i \in 1..UINT8_MAX : Power(base, i) = b[i]
  BY DEF Power
<1> HIDE DEF b
<1>7. \A i \in 1..UINT8_MAX : b[i] = IF i = 1 THEN 1 ELSE base * b[i - 1]
  BY <1>5
<1>8. ASSUME NEW V, 1 \in V, \A v \in V : base * v \in V
      PROVE  \A i \in 1..UINT8_MAX : b[i] \in V
  <2>1. b[1] \in V
    BY <1>1, <1>7, <1>8
  <2>2. ASSUME NEW i \in 2..UINT8_MAX, b[i - 1] \in V PROVE b[i] \in V
    <3>1. i \in 1..UINT8_MAX /\ i # 1
      BY <1>1
    <3> QED BY <1>7, <1>8, <2>2, <3>1
  <2> QED BY <1>1, <2>1, <2>2, TableRange
<1>9. \A i \in 1..UINT8_MAX : b[i] \in Nat
  BY <1>8, ProductNat
<1>10. base # 0 => \A i \in 1..UINT8_MAX : b[i] \in Nat \ {0}
  <2> SUFFICES ASSUME base # 0 PROVE \A i \in 1..UINT8_MAX : b[i] \in Nat \ {0}
    OBVIOUS
  <2> DEFINE V == Nat \ {0}
  <2>1. 1 \in V /\ \A v \in V : base * v \in V
    OBVIOUS
  <2> HIDE DEF V
  <2>2. \A i \in 1..UINT8_MAX : b[i] \in V
    BY <1>8, <2>1
  <2> QED BY <2>2 DEF V
<1>11. 1 \in 1..UINT8_MAX
  BY <1>1
<1>12. ASSUME NEW i \in 1..UINT8_MAX, i # 1
       PROVE  Power(base, i) = base * Power(base, i - 1)
  <2>1. i - 1 \in 1..UINT8_MAX
    BY <1>1, <1>12
  <2> QED BY <1>6, <1>7, <1>12, <2>1
<1> QED BY <1>6, <1>7, <1>9, <1>10, <1>11, <1>12

\* MultUnit^(n-1) and what is left of the largest power.
LEMMA PowerSplits ==
    ASSUME NEW n \in 1..UINT8_MAX
    PROVE  Power(MultUnit, UINT8_MAX + 1 - n) * Power(MultUnit, n)
               = Power(MultUnit, UINT8_MAX)
<1> DEFINE N == UINT8_MAX
           U == MultUnit
           P(i) == Power(U, i)
           S == {i \in 1..N : P(N + 1 - i) * P(i) = P(N)}
<1>1. N \in Nat /\ N # 0 /\ U \in Nat
  BY UnitAssumption
<1>2. /\ P(1) = 1
      /\ \A i \in 1..N : P(i) \in Nat
      /\ \A i \in 1..N : i # 1 => P(i) = U * P(i - 1)
  BY <1>1, PowerFacts
<1> HIDE DEF N, U, P
<1>3. 1 \in S
  <2>1. 1 \in 1..N /\ N \in 1..N /\ N + 1 - 1 = N
    BY <1>1
  <2>2. P(N) * 1 = P(N)
    BY <1>2, <2>1
  <2> QED BY <1>2, <2>1, <2>2
<1>4. ASSUME NEW i \in 1..N, i \in S, i + 1 \in 1..N PROVE i + 1 \in S
  <2> DEFINE k == N + 1 - i
  <2>1. k \in 1..N /\ k # 1 /\ k - 1 \in 1..N /\ N + 1 - (i + 1) = k - 1
        /\ i + 1 # 1 /\ (i + 1) - 1 = i
    BY <1>1, <1>4
  <2> HIDE DEF k
  <2>2. P(k) = U * P(k - 1) /\ P(i + 1) = U * P(i)
    BY <1>2, <1>4, <2>1
  <2>3. P(k - 1) \in Nat /\ P(i) \in Nat
    BY <1>2, <2>1
  <2>4. P(k - 1) * (U * P(i)) = (U * P(k - 1)) * P(i)
    BY <1>1, <2>3
  <2>5. P(k) * P(i) = P(N)
    BY <1>4 DEF k
  <2>6. P(k - 1) * P(i + 1) = P(N)
    BY <2>2, <2>4, <2>5
  <2> QED BY <1>4, <2>1, <2>6
<1>5. 1..N \subseteq S
  <2> HIDE DEF S
  <2> QED BY <1>1, <1>3, <1>4, IndexInduction
<1> QED BY <1>5 DEF N, P, U

\* The delay after n attempts before cap and jitter: a whole number of units,
\* since DelayUnit is a multiple of every power of MultUnit.
Exact(p, n) ==
    (InitialDelay(p) * (DelayUnit \div Power(MultUnit, UINT8_MAX)) * Power(Multiplier(p), n))
        * Power(MultUnit, UINT8_MAX + 1 - n)

LEMMA ExactFacts ==
    ASSUME NEW p \in RetryPolicies
    PROVE  /\ Exact(p, 1) = InitialDelay(p) * DelayUnit
           /\ \A n \in 1..UINT8_MAX :
                  /\ Exact(p, n) \in Nat
                  /\ Exact(p, n) * Power(MultUnit, n)
                         = InitialDelay(p) * DelayUnit * Power(Multiplier(p), n)
                  /\ n # 1 => Exact(p, n - 1) * Multiplier(p) = Exact(p, n) * MultUnit
<1> DEFINE N == UINT8_MAX
           U == MultUnit
           M == Multiplier(p)
           I == InitialDelay(p)
           P(b, i) == Power(b, i)
           d == DelayUnit \div P(U, N)
           E(i) == (I * d * P(M, i)) * P(U, N + 1 - i)
<1>0. \A i : E(i) = Exact(p, i)
  BY DEF Exact
<1>1. /\ N \in Nat /\ N # 0 /\ U \in Nat \ {0} /\ M \in Nat /\ I \in Nat
      /\ DelayUnit \in Nat /\ DelayUnit % P(U, N) = 0
  <2>1. I \in 0..Maximum(p) /\ Maximum(p) \in Nat /\ M \in Nat
    BY ClampedFields
  <2>2. I \in Nat
    <3> HIDE DEF I, Maximum
    <3> QED BY <2>1
  <2> QED BY <2>1, <2>2, UnitAssumption, ExactAssumption
<1>2. ASSUME NEW b \in {U, M}
      PROVE  /\ P(b, 1) = 1
             /\ \A i \in 1..N : P(b, i) \in Nat
             /\ \A i \in 1..N : i # 1 => P(b, i) = b * P(b, i - 1)
  <2>1. b \in Nat
    BY <1>1
  <2> QED BY <2>1, PowerFacts
<1>3. \A i \in 1..N : P(U, i) # 0
  BY <1>1, PowerFacts
<1>4. \A i \in 1..N : P(U, N + 1 - i) * P(U, i) = P(U, N)
  BY PowerSplits
<1> HIDE DEF N, U, M, I, P
<1>5. N \in 1..N /\ 1 \in 1..N
  BY <1>1
<1>6. P(U, N) \in Nat \ {0} /\ d \in Nat /\ DelayUnit = d * P(U, N)
  <2>1. P(U, N) \in Nat \ {0}
    BY <1>2, <1>3, <1>5
  <2> QED BY <1>1, <2>1, QuotientNat, ExactMultiple
<1> HIDE DEF d
<1>7. E(1) = I * DelayUnit
  <2>1. N + 1 - 1 = N
    BY <1>1
  <2>2. E(1) = (I * d * 1) * P(U, N)
    BY <1>2, <2>1
  <2>3. (I * d * 1) * P(U, N) = I * (d * P(U, N))
    BY <1>1, <1>6
  <2> QED BY <1>6, <2>2, <2>3
<1>8. ASSUME NEW n \in 1..N
      PROVE  /\ E(n) \in Nat
             /\ E(n) * P(U, n) = I * DelayUnit * P(M, n)
             /\ n # 1 => E(n - 1) * M = E(n) * U
  <2> DEFINE a == P(M, n)
             v == P(U, N + 1 - n)
             w == P(U, n)
  <2>1. N + 1 - n \in 1..N
    BY <1>1
  <2>2. a \in Nat /\ v \in Nat /\ w \in Nat /\ v * w = P(U, N)
    BY <1>2, <1>4, <2>1
  <2>3. E(n) = (I * d * a) * v
    OBVIOUS
  <2>4. (I * d * a) * v \in Nat
    <3> HIDE DEF a, v
    <3> QED BY <1>1, <1>6, <2>2, ProductNat
  <2>5. E(n) * w = I * DelayUnit * a
    <3>1. ((I * d * a) * v) * w = I * (d * (v * w)) * a
      <4> HIDE DEF a, v, w
      <4> QED BY <1>1, <1>6, <2>2
    <3> QED BY <1>6, <2>2, <3>1
  <2>6. ASSUME n # 1 PROVE E(n - 1) * M = E(n) * U
    <3> DEFINE c == P(M, n - 1)
    <3>1. /\ n - 1 \in 1..N /\ N + 1 - (n - 1) \in 1..N /\ N + 1 - (n - 1) # 1
          /\ (N + 1 - (n - 1)) - 1 = N + 1 - n
      BY <1>1, <2>6
    <3>2. a = M * c /\ P(U, N + 1 - (n - 1)) = U * v /\ c \in Nat
      BY <1>2, <2>6, <3>1
    <3>3. E(n - 1) = (I * d * c) * (U * v)
      BY <3>2
    <3>4. ((I * d * c) * (U * v)) * M = ((I * d * (M * c)) * v) * U
      <4> HIDE DEF a, v, c
      <4> QED BY <1>1, <1>6, <2>2, <3>2
    <3> QED BY <2>3, <3>2, <3>3, <3>4
  <2> HIDE DEF E
  <2> QED BY <2>3, <2>4, <2>5, <2>6
<1> HIDE DEF E
<1> QED BY <1>0, <1>7, <1>8 DEF N, U, M, I, P

\* A delay that grows stays at the cap once it has reached it, and one that
\* shrinks never reaches it: capping every round is capping at the end.
LEMMA BackoffIsReference ==
    ASSUME NEW p \in RetryPolicies, NEW n \in 1..UINT8_MAX
    PROVE  Backoff(n, p) = AtMost(Exact(p, n), Maximum(p) * DelayUnit)
<1> DEFINE N == UINT8_MAX
           U == MultUnit
           M == Multiplier(p)
           C == Maximum(p) * DelayUnit
           F == InitialDelay(p) * DelayUnit
           B(i) == Backoff(i, p)
           E(i) == Exact(p, i)
           S == {i \in 1..N : B(i) = AtMost(E(i), C) /\ (M <= U => E(i) <= F)}
<1>1. /\ N \in Nat /\ N # 0 /\ U \in Nat \ {0} /\ M \in Nat /\ C \in Nat /\ F \in Nat
      /\ F <= C
  <2>1. /\ InitialDelay(p) \in Nat /\ InitialDelay(p) <= Maximum(p) /\ Maximum(p) \in Nat
        /\ M \in Nat
    BY ClampedFields
  <2> HIDE DEF InitialDelay, Maximum, M
  <2> QED BY <2>1, UnitAssumption, ProductNat, ProductMonotone
<1>2. /\ B(1) = F
      /\ \A i \in 1..N : i # 1 => B(i) = AtMost((B(i - 1) * M) \div U, C)
  BY BackoffRounds DEF Grow
<1>3. /\ E(1) = F
      /\ \A i \in 1..N : E(i) \in Nat
      /\ \A i \in 1..N : i # 1 => E(i - 1) * M = E(i) * U
  BY ExactFacts
<1> HIDE DEF N, U, M, C, F, B, E
<1>4. 1 \in S
  <2>1. 1 \in 1..N /\ AtMost(F, C) = F /\ F <= F
    BY <1>1 DEF AtMost
  <2> QED BY <1>2, <1>3, <2>1
<1>5. ASSUME NEW i \in 1..N, i \in S, i + 1 \in 1..N PROVE i + 1 \in S
  <2> DEFINE e == E(i)
             f == E(i + 1)
  <2>1. i + 1 # 1 /\ (i + 1) - 1 = i
    BY <1>1
  <2>2. /\ B(i + 1) = AtMost((B(i) * M) \div U, C)
        /\ e \in Nat /\ f \in Nat /\ e * M = f * U
    BY <1>2, <1>3, <1>5, <2>1
  <2>3. B(i) = AtMost(e, C) /\ (M <= U => e <= F)
    BY <1>5
  <2> HIDE DEF e, f
  <2>4. M <= U => f <= e
    <3>1. M <= U => M * e <= U * e
      BY <1>1, <2>2, ProductMonotone
    <3>2. M * e = e * M /\ U * e = e * U
      BY <1>1, <2>2
    <3>3. M <= U => f * U <= e * U
      BY <2>2, <3>1, <3>2
    <3> QED BY <1>1, <2>2, <3>3, Cancel
  <2>5. U <= M => e <= f
    <3>1. U <= M => U * e <= M * e
      BY <1>1, <2>2, ProductMonotone
    <3>2. M * e = e * M /\ U * e = e * U
      BY <1>1, <2>2
    <3>3. U <= M => e * U <= f * U
      BY <2>2, <3>1, <3>2
    <3> QED BY <1>1, <2>2, <3>3, Cancel
  <2>6. M <= U => f <= F
    BY <1>1, <2>2, <2>3, <2>4
  <2>7. B(i + 1) = AtMost(f, C)
    <3>1. CASE e <= C
      <4>1. B(i) = e
        BY <2>3, <3>1 DEF AtMost
      <4>2. (e * M) \div U = f
        BY <1>1, <2>2, ExactQuotient
      <4> QED BY <2>2, <4>1, <4>2
    <3>2. CASE ~(e <= C)
      <4>1. B(i) = C /\ U <= M
        BY <1>1, <2>2, <2>3, <3>2 DEF AtMost
      <4>2. C <= f
        BY <1>1, <2>2, <2>5, <3>2, <4>1
      <4>3. C * U <= C * M
        BY <1>1, <4>1, ProductMonotone
      <4>4. C * M \in Nat
        BY <1>1, ProductNat
      <4>5. C <= (C * M) \div U
        <5> DEFINE m == C * M
        <5>1. m \in Nat /\ C * U <= m
          BY <4>3, <4>4
        <5> HIDE DEF m
        <5>2. C <= m \div U
          BY <1>1, <5>1, QuotientAtLeast
        <5> QED BY <5>2 DEF m
      <4>6. (C * M) \div U \in Nat
        <5> DEFINE m == C * M
        <5>1. m \in Nat
          BY <4>4
        <5> HIDE DEF m
        <5>2. m \div U \in Nat
          BY <1>1, <5>1, QuotientNat
        <5> QED BY <5>2 DEF m
      <4>7. AtMost((C * M) \div U, C) = C
        <5> DEFINE m == (C * M) \div U
        <5> HIDE DEF m
        <5>1. AtMost(m, C) = C
          BY <1>1, <4>5, <4>6 DEF AtMost, m
        <5> QED BY <5>1 DEF m
      <4>8. AtMost(f, C) = C
        BY <1>1, <2>2, <4>2 DEF AtMost
      <4> QED BY <2>2, <4>1, <4>7, <4>8
    <3> QED BY <3>1, <3>2
  <2> QED BY <1>5, <2>6, <2>7 DEF f
<1>6. 1..N \subseteq S
  <2> HIDE DEF S
  <2> QED BY <1>1, <1>4, <1>5, IndexInduction
<1>7. n \in S
  BY <1>6 DEF N
<1> QED BY <1>7 DEF B, E, C

\* What the fields of a policy count for is what the code clamps them to.
LEMMA ClampsAsMeant ==
    ASSUME NEW p \in RetryPolicies
    PROVE  /\ Longest(p) = Maximum(p)
           /\ First(p) = InitialDelay(p)
           /\ Factor(p) = Multiplier(p)
           /\ Jitter(p) = Spread(p)
<1>1. /\ p.max_delay \in Int /\ p.initial_delay \in Int
      /\ p.backoff_multiplier \in Int \cup {NonFinite}
      /\ p.jitter_factor \in Int \cup {NonFinite}
  BY DEF RetryPolicies
<1>2. Longest(p) = Maximum(p)
  BY <1>1 DEF Longest, Maximum, AtLeast
<1>3. First(p) = InitialDelay(p)
  <2> DEFINE m == Maximum(p)
             i == p.initial_delay
  <2>1. m \in Nat
    BY ClampedFields
  <2>2. First(p) = CASE i < 0 -> 0 [] i > m -> m [] OTHER -> i
    BY <1>2 DEF First
  <2>3. InitialDelay(p) = AtMost(AtLeast(i, 0), m)
    BY DEF InitialDelay
  <2>4. i \in Int
    BY <1>1
  <2> HIDE DEF m, i
  <2> QED BY <2>1, <2>2, <2>3, <2>4 DEF AtLeast, AtMost
<1>4. Factor(p) = Multiplier(p)
  <2>1. CASE p.backoff_multiplier = NonFinite
    BY <2>1 DEF Factor, Multiplier
  <2>2. CASE p.backoff_multiplier # NonFinite
    BY <1>1, <2>2 DEF Factor, Multiplier, AtLeast
  <2> QED BY <2>1, <2>2
<1>5. Jitter(p) = Spread(p)
  <2>1. CASE p.jitter_factor = NonFinite
    BY <2>1 DEF Jitter, Spread
  <2>2. CASE p.jitter_factor # NonFinite
    BY <1>1, <2>2, UnitAssumption DEF Jitter, Spread, AtLeast, AtMost
  <2> QED BY <2>1, <2>2
<1> QED BY <1>2, <1>3, <1>4, <1>5

\* The reference of DelayFollowsPolicy is what the loop computes.
LEMMA ReferenceIsBackoff ==
    ASSUME NEW p \in RetryPolicies, NEW n \in 1..UINT8_MAX
    PROVE  BackoffReference(n, p) = Backoff(n, p)
<1> DEFINE e == Exact(p, n)
           w == Power(MultUnit, n)
           g == InitialDelay(p) * DelayUnit * Power(Multiplier(p), n)
<1>1. e \in Nat /\ e * w = g
  BY ExactFacts
<1>2. w \in Nat \ {0}
  BY UnitAssumption, PowerFacts
<1>3. BackoffReference(n, p) = AtMost(g \div w, Maximum(p) * DelayUnit)
  BY ClampsAsMeant DEF BackoffReference
<1>4. Backoff(n, p) = AtMost(e, Maximum(p) * DelayUnit)
  BY BackoffIsReference
<1> HIDE DEF e, w, g
<1>5. g \div w = e
  BY <1>1, <1>2, ExactQuotient
<1> QED BY <1>3, <1>4, <1>5

\* Jitter moves the delay within its spread, and the cap holds afterwards.
LEMMA JitterRange ==
    ASSUME NEW p \in RetryPolicies, NEW n \in 1..UINT8_MAX,
           NEW d \in calculate_retry_delay(n, p)
    PROVE  LET b == Backoff(n, p)
               low == (b * (JitterUnit - Spread(p))) \div (JitterUnit * DelayUnit)
               high == (b * (JitterUnit + Spread(p))) \div (JitterUnit * DelayUnit)
           IN  d \in low..AtMost(high, Maximum(p))
<1> DEFINE b == Backoff(n, p)
           J == JitterUnit
           D == DelayUnit
           X == Maximum(p)
           s == Spread(p)
           Of(f) == (b * f) \div (J * D)
<1>1. PICK j \in (0 - s)..s : d = Milliseconds((b * (J + j)) \div J, p)
  BY DEF calculate_retry_delay
<1>2. /\ J \in Nat \ {0} /\ D \in Nat \ {0} /\ X \in Nat /\ s \in 0..J /\ X * D \in Nat
  BY UnitAssumption, ClampedFields, ProductNat
<1>3. b \in Nat /\ b <= X * D
  <2> DEFINE cap == X * D
  <2>1. b \in 0..cap /\ cap \in Nat
    BY <1>2, BackoffRounds
  <2> HIDE DEF b, cap
  <2>2. b \in Nat /\ b <= cap
    BY <2>1
  <2> QED BY <2>2 DEF cap
<1>4. d = IF (b * (J + j)) \div J >= X * D THEN X ELSE ((b * (J + j)) \div J) \div D
  BY <1>1 DEF Milliseconds
<1> HIDE DEF b, J, D, X, s
<1>5. /\ J - s \in Nat /\ J + j \in Nat /\ J + s \in Nat /\ J * D \in Nat \ {0}
      /\ J - s <= J + j /\ J + j <= J + s /\ J - s <= J
  <2>1. /\ J - s \in Nat /\ J + j \in Nat /\ J + s \in Nat
        /\ J - s <= J + j /\ J + j <= J + s /\ J - s <= J
    BY <1>1, <1>2
  <2>2. J * D \in Nat \ {0}
    BY <1>2
  <2> QED BY <2>1, <2>2
<1>6. ASSUME NEW f \in Nat, NEW g \in Nat, f <= g
      PROVE  /\ b * f \in Nat /\ b * g \in Nat
             /\ Of(f) \in Nat /\ Of(g) \in Nat /\ Of(f) <= Of(g)
  <2> DEFINE x == b * f
             y == b * g
             t == J * D
  <2>1. x \in Nat /\ y \in Nat /\ t \in Nat \ {0}
    BY <1>3, <1>5, ProductNat
  <2>2. x <= y
    <3>1. f * b <= g * b
      BY <1>3, <1>6, ProductMonotone
    <3>2. f * b = b * f /\ g * b = b * g
      BY <1>3
    <3> QED BY <3>1, <3>2
  <2> HIDE DEF x, y, t
  <2>3. x \div t \in Nat /\ y \div t \in Nat /\ x \div t <= y \div t
    BY <2>1, <2>2, QuotientNat, QuotientMonotone
  <2> QED BY <2>1, <2>3 DEF x, y, t
<1> DEFINE q == (b * (J + j)) \div J
<1>7. q \in Nat /\ q \div D = Of(J + j)
  <2> DEFINE x == b * (J + j)
  <2>1. x \in Nat
    BY <1>5, <1>6
  <2> HIDE DEF x
  <2>2. x \div J \in Nat /\ (x \div J) \div D = x \div (J * D)
    BY <1>2, <2>1, QuotientNat, NestedQuotient
  <2> QED BY <2>2 DEF x
<1>8. /\ Of(J - s) \in Nat /\ Of(J + j) \in Nat /\ Of(J + s) \in Nat
      /\ Of(J - s) <= Of(J + j) /\ Of(J + j) <= Of(J + s)
  BY <1>5, <1>6
<1>9. Of(J - s) <= X
  <2> DEFINE t == J * D
  <2>1. b * (J - s) <= b * J
    <3> DEFINE f == J - s
    <3>1. f \in Nat /\ f <= J
      BY <1>5
    <3> HIDE DEF f
    <3>2. f * b <= J * b /\ f * b = b * f /\ J * b = b * J
      BY <1>2, <1>3, <3>1, ProductMonotone
    <3>3. b * f <= b * J
      BY <3>2
    <3> QED BY <3>3 DEF f
  <2>2. b * J <= X * (J * D)
    <3>1. b * J <= (X * D) * J
      BY <1>2, <1>3, ProductMonotone
    <3>2. (X * D) * J = X * (J * D)
      BY <1>2
    <3> QED BY <3>1, <3>2
  <2> DEFINE x == b * (J - s)
             y == X * t
  <2>3. x \in Nat /\ y \in Nat /\ x <= y /\ t \in Nat \ {0}
    <3>1. x \in Nat
      BY <1>5, <1>6
    <3>2. y \in Nat /\ b * J \in Nat
      <4> HIDE DEF t
      <4> QED BY <1>2, <1>3, <1>5, ProductNat DEF t
    <3> DEFINE z == b * J
    <3>3. z \in Nat /\ x <= z /\ z <= y
      BY <2>1, <2>2, <3>2
    <3> HIDE DEF x, y, z, t
    <3>4. x <= y
      BY <3>1, <3>2, <3>3
    <3> QED BY <1>5, <3>1, <3>2, <3>4 DEF t
  <2> HIDE DEF x
  <2>4. x \div t <= y \div t
    <3> HIDE DEF y, t
    <3> QED BY <2>3, QuotientMonotone
  <2>5. y \div t = X
    <3> HIDE DEF t
    <3> QED BY <1>2, <2>3, ExactQuotient
  <2> QED BY <2>4, <2>5 DEF x, t
<1> DEFINE low == Of(J - s)
           mid == Of(J + j)
           high == Of(J + s)
<1>10. CASE q >= X * D
  <2>1. d = X
    BY <1>4, <1>10
  <2>2. X <= q \div D
    <3>1. X * D <= q
      <4> DEFINE c == X * D
      <4> HIDE DEF c, q
      <4>1. c <= q
        BY <1>2, <1>7, <1>10 DEF c
      <4> QED BY <4>1 DEF c
    <3> HIDE DEF q
    <3> QED BY <1>2, <1>7, <3>1, QuotientAtLeast
  <2>3. X <= mid
    BY <1>7, <2>2
  <2> HIDE DEF low, mid, high
  <2>4. d \in low..AtMost(high, X)
    BY <1>2, <1>8, <1>9, <2>1, <2>3 DEF AtMost, low, mid, high
  <2> QED BY <2>4 DEF low, high, b, J, D, X, s
<1>11. CASE ~(q >= X * D)
  <2>1. d = mid
    BY <1>4, <1>7, <1>11
  <2>2. q \div D < X
    <3>1. q < X * D
      <4> DEFINE c == X * D
      <4> HIDE DEF c, q
      <4>1. q < c
        BY <1>2, <1>7, <1>11 DEF c
      <4> QED BY <4>1 DEF c
    <3> HIDE DEF q
    <3> QED BY <1>2, <1>7, <3>1, QuotientBelow
  <2>3. mid < X
    BY <1>7, <2>2
  <2> HIDE DEF low, mid, high
  <2>4. d \in low..AtMost(high, X)
    BY <1>2, <1>8, <2>1, <2>3 DEF AtMost, low, mid, high
  <2> QED BY <2>4 DEF low, high, b, J, D, X, s
<1> QED BY <1>10, <1>11
-----------------------------------------------------------------------------
(* The loop.                                                               *)

\* The delay of the latest sleep is one the policy allows.
DelayWithinCap == pc = "asleep" => delay \in 0..Maximum(policy)

AllTransient == \A i \in 1..Len(outcomes) : Transient(outcomes[i])

\* What the counter says of the outcomes so far.
Progress ==
    /\ pc = "loop" =>
           /\ attempt = Len(outcomes) + 1
           /\ attempt = 1 \/ attempt <= policy.max_attempts
           /\ AllTransient
    /\ pc = "asleep" =>
           /\ attempt = Len(outcomes)
           /\ attempt < policy.max_attempts
           /\ AllTransient

IInv ==
    /\ TypeOK
    /\ Progress
    /\ RetriesExactlyTransient
    /\ ReportsLastOutcome
    /\ DelayWithinCap
    /\ DelayFollowsPolicy

\* should_retry decides as the comments on the policy say.
LEMMA RetryIsTransient ==
    ASSUME NEW r \in Outcomes
    PROVE  should_retry(r, policy) <=> Transient(r)
<1>1. CASE r \in Response
  <2>1. r.kind = "response" /\ r.status \in Int /\ r \notin Failure
    BY <1>1, StatusAssumption DEF Response, Failure
  <2>2. r.status \in 500..599 <=> r.status >= 500 /\ r.status < 600
    BY <2>1
  <2> HIDE DEF Response, Failure
  <2> QED BY <1>1, <2>1, <2>2 DEF should_retry, RetryStatus, Transient
<1>2. CASE r \in Failure
  <2>1. r.kind = "error" /\ r \notin Response
    BY <1>2 DEF Response, Failure
  <2> QED BY <1>2, <2>1 DEF should_retry, RetryError, Transient
<1> QED BY <1>1, <1>2, OutcomesAssumption

\* The initial state: nothing asked for yet.
LEMMA InitIInv == Init => IInv
<1> SUFFICES ASSUME Init PROVE IInv
  OBVIOUS
<1> USE DEF Init
<1>1. policy \in RetryPolicies /\ policy.max_attempts \in 0..UINT8_MAX
  BY PoliciesAssumption DEF RetryPolicies
<1>2. outcomes \in Seq(Outcomes) /\ Len(outcomes) = 0
  OBVIOUS
<1>3. attempt \in 1..UINT8_MAX
  BY UnitAssumption
<1>4. TypeOK
  BY <1>1, <1>2, <1>3 DEF TypeOK
<1>5. Progress /\ ReportsLastOutcome /\ DelayWithinCap /\ DelayFollowsPolicy
  BY DEF Progress, ReportsLastOutcome, DelayWithinCap, DelayFollowsPolicy
<1>6. RetriesExactlyTransient
  BY <1>1, <1>2 DEF RetriesExactlyTransient
<1> QED BY <1>4, <1>5, <1>6 DEF IInv

\* A step that closes or opens the account of a request.
LEMMA ResetStep ==
    ASSUME IInv, outcomes' = <<>>, result' = <<>>, policy' \in RetryPolicies,
           \/ pc' = "idle" /\ attempt' = attempt
           \/ pc' = "loop" /\ attempt' = 1,
           requests' \in Nat, delay' = delay
    PROVE  IInv'
<1>1. policy'.max_attempts \in 0..UINT8_MAX
  BY DEF RetryPolicies
<1>2. outcomes' \in Seq(Outcomes) /\ Len(outcomes') = 0
  OBVIOUS
<1>3. attempt' \in 1..UINT8_MAX
  BY UnitAssumption DEF IInv, TypeOK
<1>4. TypeOK'
  BY <1>2, <1>3 DEF IInv, TypeOK
<1>5. Progress'
  BY <1>2 DEF Progress, AllTransient
<1>6. ReportsLastOutcome' /\ DelayWithinCap' /\ DelayFollowsPolicy'
  BY DEF ReportsLastOutcome, DelayWithinCap, DelayFollowsPolicy
<1>7. RetriesExactlyTransient'
  BY <1>1, <1>2 DEF RetriesExactlyTransient
<1> QED BY <1>4, <1>5, <1>6, <1>7 DEF IInv

\* One round: the operation's outcome is returned, unless it is transient
\* and attempts are left.
LEMMA AttemptStep ==
    ASSUME IInv, NEW r \in Outcomes, Attempt(r)
    PROVE  IInv'
<1> DEFINE n == Len(outcomes)
<1>1. /\ pc = "loop" /\ attempt <= policy.max_attempts
      /\ outcomes' = Append(outcomes, r)
      /\ policy' = policy /\ attempt' = attempt /\ requests' = requests
  BY DEF Attempt
<1>2. /\ policy \in RetryPolicies /\ policy.max_attempts \in 0..UINT8_MAX
      /\ outcomes \in Seq(Outcomes) /\ attempt \in 1..UINT8_MAX /\ requests \in Nat
      /\ n \in Nat /\ delay \in Int /\ UINT8_MAX \in Nat
  BY UnitAssumption DEF IInv, TypeOK, RetryPolicies
<1>3. /\ outcomes' \in Seq(Outcomes) /\ Len(outcomes') = n + 1 /\ outcomes' # <<>>
      /\ \A i \in 1..n : outcomes'[i] = outcomes[i]
      /\ outcomes'[n + 1] = r
  BY <1>1, <1>2
<1>4. /\ attempt = n + 1
      /\ \A i \in 1..n : Transient(outcomes[i])
  BY <1>1 DEF IInv, Progress, AllTransient
<1>5. \A x : Transient(x)' <=> Transient(x)
  BY <1>1 DEF Transient
<1>6. should_retry(r, policy) <=> Transient(r)
  BY RetryIsTransient
<1>7. r \in Response \cup Failure
  BY OutcomesAssumption
<1> HIDE DEF n
<1>8. CASE TriesAgain(r)
  <2>1. PICK d \in calculate_retry_delay(attempt, policy) : delay' = d
    BY <1>8 DEF Attempt
  <2>2. delay' \in 0..Maximum(policy)
    BY <1>2, <2>1, DelayRange
  <2>3. delay' \in Int
    BY <2>2
  <2>4. pc' = "asleep" /\ result' = result /\ Transient(r) /\ attempt < policy.max_attempts
    BY <1>6, <1>8 DEF Attempt, TriesAgain
  <2>5. TypeOK'
    BY <1>1, <1>2, <1>3, <2>3, <2>4 DEF IInv, TypeOK
  <2>6. \A i \in 1..(n + 1) : Transient(outcomes'[i])
    BY <1>2, <1>3, <1>4, <2>4
  <2>7. Progress'
    <3>1. AllTransient'
      BY <1>3, <1>5, <2>6 DEF AllTransient
    <3> QED BY <1>1, <1>3, <1>4, <2>4, <3>1 DEF Progress
  <2>8. RetriesExactlyTransient'
    <3>1. n + 1 <= policy.max_attempts
      BY <1>1, <1>4
    <3>2. \A i \in 1..((n + 1) - 1) : i \in 1..(n + 1)
      BY <1>2
    <3> QED BY <1>1, <1>3, <1>5, <2>4, <2>6, <3>1, <3>2 DEF RetriesExactlyTransient
  <2>9. ReportsLastOutcome' /\ DelayWithinCap'
    BY <1>1, <2>2, <2>4 DEF ReportsLastOutcome, DelayWithinCap
  <2>10. DelayFollowsPolicy'
    <3>1. /\ BackoffReference(attempt, policy) = Backoff(attempt, policy)
          /\ Longest(policy) = Maximum(policy) /\ Jitter(policy) = Spread(policy)
      BY <1>2, ReferenceIsBackoff, ClampsAsMeant
    <3>2. policy' = policy /\ attempt' = attempt
      BY <1>1
    <3>3. LET b == Backoff(attempt, policy)
              low == (b * (JitterUnit - Spread(policy))) \div (JitterUnit * DelayUnit)
              high == (b * (JitterUnit + Spread(policy))) \div (JitterUnit * DelayUnit)
          IN  delay' \in low..AtMost(high, Maximum(policy))
      BY <1>2, <2>1, JitterRange
    <3> QED BY <1>1, <3>1, <3>2, <3>3 DEF DelayFollowsPolicy
  <2> QED BY <2>5, <2>7, <2>8, <2>9, <2>10 DEF IInv
<1>9. CASE ~TriesAgain(r)
  <2>1. pc' = "idle" /\ result' = r /\ delay' = delay
    BY <1>9 DEF Attempt, Return
  <2>2. TypeOK'
    BY <1>1, <1>2, <1>3, <1>7, <2>1 DEF IInv, TypeOK
  <2>3. Progress' /\ DelayWithinCap' /\ DelayFollowsPolicy'
    BY <2>1 DEF Progress, DelayWithinCap, DelayFollowsPolicy
  <2>4. ReportsLastOutcome'
    BY <1>3, <2>1 DEF ReportsLastOutcome
  <2>5. RetriesExactlyTransient'
    <3>1. n + 1 <= policy.max_attempts
      BY <1>1, <1>4
    <3>2. n + 1 < policy.max_attempts => ~Transient(r)
      BY <1>4, <1>6, <1>9 DEF TriesAgain
    <3>3. (n + 1) - 1 = n
      BY <1>2
    <3>4. \A i \in 1..n : Transient(outcomes'[i])
      BY <1>3, <1>4
    <3> QED BY <1>1, <1>3, <1>5, <3>1, <3>2, <3>3, <3>4 DEF RetriesExactlyTransient
  <2> QED BY <2>2, <2>3, <2>4, <2>5 DEF IInv
<1> QED BY <1>8, <1>9

\* The counter goes on; max_attempts fits its type, so it does not wrap.
LEMMA ContinueStep == ASSUME IInv, Continue PROVE IInv'
<1>1. /\ pc = "asleep" /\ pc' = "loop"
      /\ attempt' = (attempt + 1) % (UINT8_MAX + 1)
      /\ UNCHANGED <<policy, result, delay, requests, outcomes>>
  BY DEF Continue
<1>2. /\ policy.max_attempts \in 0..UINT8_MAX /\ attempt \in 1..UINT8_MAX
      /\ UINT8_MAX \in Nat /\ outcomes \in Seq(Outcomes) /\ Len(outcomes) \in Nat
  BY UnitAssumption DEF IInv, TypeOK, RetryPolicies
<1>3. attempt = Len(outcomes) /\ attempt < policy.max_attempts /\ AllTransient
  BY <1>1 DEF IInv, Progress
<1>4. attempt' = attempt + 1
  <2> DEFINE a == attempt + 1
             m == UINT8_MAX + 1
  <2>1. a \in Nat /\ m \in Nat \ {0} /\ a < m
    BY <1>2, <1>3
  <2> HIDE DEF a, m
  <2>2. a % m = a
    BY <2>1
  <2> QED BY <1>1, <2>2 DEF a, m
<1>5. attempt' \in 1..UINT8_MAX
  BY <1>2, <1>3, <1>4
<1>6. TypeOK'
  BY <1>1, <1>5 DEF IInv, TypeOK
<1>7. \A x : Transient(x)' <=> Transient(x)
  BY <1>1 DEF Transient
<1>8. Progress'
  <2>1. AllTransient'
    BY <1>1, <1>3, <1>7 DEF AllTransient
  <2>2. attempt' <= policy.max_attempts
    BY <1>2, <1>3, <1>4
  <2> QED BY <1>1, <1>3, <1>4, <2>1, <2>2 DEF Progress
<1>9. RetriesExactlyTransient'
  BY <1>1, <1>7 DEF IInv, RetriesExactlyTransient
<1>10. ReportsLastOutcome' /\ DelayWithinCap' /\ DelayFollowsPolicy'
  BY <1>1 DEF ReportsLastOutcome, DelayWithinCap, DelayFollowsPolicy
<1> QED BY <1>6, <1>8, <1>9, <1>10 DEF IInv

\* The loop ends on its own only when the policy allows no attempt.
LEMMA OutOfAttemptsStep == ASSUME IInv, OutOfAttempts PROVE IInv'
<1>1. /\ pc = "loop" /\ attempt > policy.max_attempts
      /\ pc' = "idle" /\ result' = Exhausted
      /\ UNCHANGED <<policy, attempt, requests, outcomes, delay>>
  BY DEF OutOfAttempts, Return
<1>2. /\ policy.max_attempts \in 0..UINT8_MAX /\ attempt \in 1..UINT8_MAX
      /\ outcomes \in Seq(Outcomes) /\ Len(outcomes) \in Nat
  BY UnitAssumption DEF IInv, TypeOK, RetryPolicies
<1>3. attempt = 1 /\ Len(outcomes) = 0 /\ outcomes = <<>>
  BY <1>1, <1>2, UnitAssumption DEF IInv, Progress
<1>4. Exhausted \in Failure
  BY CodesAssumption DEF Exhausted, Failure
<1>5. TypeOK'
  BY <1>1, <1>4 DEF IInv, TypeOK
<1>6. Progress' /\ DelayWithinCap' /\ DelayFollowsPolicy'
  BY <1>1 DEF Progress, DelayWithinCap, DelayFollowsPolicy
<1>7. ReportsLastOutcome'
  BY <1>1, <1>3 DEF ReportsLastOutcome
<1>8. RetriesExactlyTransient'
  BY <1>1, <1>2, <1>3 DEF RetriesExactlyTransient
<1> QED BY <1>5, <1>6, <1>7, <1>8 DEF IInv

\* Each step of with_retry keeps the invariant.
LEMMA NextIInv == IInv /\ [Next]_vars => IInv'
<1> SUFFICES ASSUME IInv, [Next]_vars PROVE IInv'
  OBVIOUS
<1>1. policy \in RetryPolicies /\ requests \in Nat /\ requests + 1 \in Nat
  BY DEF IInv, TypeOK
<1>2. CASE Get
  BY <1>1, <1>2, ResetStep DEF Get
<1>3. ASSUME NEW p \in Policies, SetPolicy(p) PROVE IInv'
  BY <1>1, <1>3, ResetStep, PoliciesAssumption DEF SetPolicy
<1>4. ASSUME NEW r \in Outcomes, Attempt(r) PROVE IInv'
  BY <1>4, AttemptStep
<1>5. CASE Continue
  BY <1>5, ContinueStep
<1>6. CASE OutOfAttempts
  BY <1>6, OutOfAttemptsStep
<1>7. CASE UNCHANGED vars
  <2>1. \A x : Transient(x)' <=> Transient(x)
    BY <1>7 DEF vars, Transient
  <2>2. TypeOK' /\ ReportsLastOutcome' /\ DelayWithinCap'
    BY <1>7 DEF vars, IInv, TypeOK, ReportsLastOutcome, DelayWithinCap
  <2>3. RetriesExactlyTransient'
    BY <1>7, <2>1 DEF vars, IInv, RetriesExactlyTransient
  <2>4. AllTransient' <=> AllTransient
    BY <1>7, <2>1 DEF vars, AllTransient
  <2>5. Progress'
    BY <1>7, <2>4 DEF vars, IInv, Progress
  <2>6. DelayFollowsPolicy'
    BY <1>7 DEF vars, IInv, DelayFollowsPolicy
  <2> QED BY <2>2, <2>3, <2>5, <2>6 DEF IInv
<1>8. CASE Done
  BY <1>7, <1>8 DEF Done
<1> QED BY <1>2, <1>3, <1>4, <1>5, <1>6, <1>7, <1>8 DEF Next, Step

\* The inductive invariant holds in every reachable state.
LEMMA Invariance == Spec => []IInv
BY InitIInv, NextIInv, PTL DEF Spec
-----------------------------------------------------------------------------
\* The variables keep their types; in particular the uint8_t counter of the
\* loop never wraps, not even with max_attempts at the type's limit.
THEOREM TypeCorrect == Spec => []TypeOK
<1>1. IInv => TypeOK
  BY DEF IInv
<1> QED BY <1>1, Invariance, PTL

\* with_retry runs the operation at most max_attempts times, and again only
\* after an outcome the policy calls transient.
THEOREM RetriesExactlyTransientTheorem == Spec => []RetriesExactlyTransient
<1>1. IInv => RetriesExactlyTransient
  BY DEF IInv
<1> QED BY <1>1, Invariance, PTL

\* with_retry returns what the last attempt returned.
THEOREM ReportsLastOutcomeTheorem == Spec => []ReportsLastOutcome
<1>1. IInv => ReportsLastOutcome
  BY DEF IInv
<1> QED BY <1>1, Invariance, PTL

\* calculate_retry_delay never asks sleep_for for a negative delay, nor for
\* one above max_delay, whatever the multiplier, the jitter and the attempt.
THEOREM DelayWithinCapTheorem == Spec => []DelayWithinCap
<1>1. IInv => DelayWithinCap
  BY DEF IInv
<1> QED BY <1>1, Invariance, PTL

\* The delay before each retry is the geometric series of the policy, within
\* the jitter and below the cap: cutting every round of the loop at the cap
\* gives the same as cutting once.
THEOREM DelayFollowsPolicyTheorem == Spec => []DelayFollowsPolicy
<1>1. IInv => DelayFollowsPolicy
  BY DEF IInv
<1> QED BY <1>1, Invariance, PTL
=============================================================================
