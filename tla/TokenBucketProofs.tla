------------------------- MODULE TokenBucketProofs -------------------------
(***************************************************************************)
(* The rate limit, proved of the abstract bucket for every capacity,       *)
(* interval and initial credit.                                            *)
(***************************************************************************)
EXTENDS TokenBucket, TLAPS

\* The products of the parameters behave as they should: the capacity is a
\* positive number of ticks and the initial credit fits in it.
LEMMA CapacityFacts ==
    ASSUME bucket \in Parameters, bucket.initial <= bucket.capacity
    PROVE  /\ bucket.interval \in Nat \ {0}
           /\ Capacity \in Nat
           /\ bucket.initial * bucket.interval \in 0..Capacity
<1> DEFINE c == bucket.capacity
           i == bucket.interval
           s == bucket.initial
<1>1. c \in Nat \ {0} /\ i \in Nat \ {0} /\ s \in Nat /\ s <= c
  BY DEF Parameters
<1>2. c * i \in Nat /\ s * i \in Nat /\ s * i <= c * i
  <2> HIDE DEF c, i, s
  <2> QED BY <1>1, SMT
<1> QED BY <1>1, <1>2 DEF Capacity

\* Capping keeps a credit in range and never increases it.
LEMMA CappedRange ==
    ASSUME Capacity \in Nat, NEW c \in Nat, NEW d \in Nat
    PROVE  Capped(c + d) \in 0..Capacity /\ Capped(c + d) <= c + d
BY SMT DEF Capped

\* The credit stays between nothing and the capacity.
THEOREM TypeCorrect == Spec => []TypeOK
<1>1. Init => TypeOK
  BY CapacityFacts DEF Init, TypeOK
<1>2. TypeOK /\ [Next]_vars => TypeOK'
  <2> SUFFICES ASSUME TypeOK, [Next]_vars PROVE TypeOK'
    OBVIOUS
  <2>0. /\ bucket.interval \in Nat \ {0}
        /\ Capacity \in Nat
        /\ bucket.initial * bucket.interval \in 0..Capacity
    BY CapacityFacts DEF TypeOK
  <2>1. CASE Observe
    <3>1. Capacity' = Capacity
      BY <2>1 DEF Observe, ObserveAt, Capacity
    <3> PICK now : ObserveAt(now)
      BY <2>1 DEF Observe
    <3>2. /\ time' = now /\ now - time \in Nat
          /\ credit' = Capped(credit + (now - time))
      BY DEF ObserveAt, TypeOK
    <3>3. credit \in Nat
      BY <2>0 DEF TypeOK
    <3>4. credit' \in 0..Capacity
      BY <2>0, <3>2, <3>3, CappedRange
    <3> QED BY <3>1, <3>4 DEF ObserveAt, TypeOK
  <2>2. CASE Grant
    <3>1. Capacity' = Capacity
      BY <2>2 DEF Grant, Capacity
    <3>2. credit' \in 0..Capacity
      BY <2>0, <2>2 DEF Grant, TypeOK
    <3> QED BY <2>2, <3>1, <3>2 DEF Grant, TypeOK
  <2>3. CASE Reset
    <3>1. Capacity' = Capacity
      BY <2>3 DEF Reset, Capacity
    <3> QED BY <2>0, <2>3, <3>1 DEF Reset, TypeOK
  <2>4. CASE UNCHANGED vars
    BY <2>4 DEF vars, Capacity, TypeOK
  <2> QED BY <2>1, <2>2, <2>3, <2>4 DEF Next
<1> QED BY <1>1, <1>2, PTL DEF Spec

\* The rate limit holds of every behaviour.  The invariant that carries it is
\* PaidFor: it adds the credit in hand to the grants since the i-th one, so
\* that a grant, which turns credit into a grant, leaves it true.
THEOREM RateLimited == Spec => [](PaidFor /\ BurstBound)
<1>1. Init => PaidFor /\ BurstBound
  BY DEF Init, PaidFor, BurstBound
<1>2. TypeOK /\ PaidFor /\ BurstBound /\ [Next]_vars => (PaidFor /\ BurstBound)'
  <2> SUFFICES ASSUME TypeOK, PaidFor, BurstBound, [Next]_vars
               PROVE  PaidFor' /\ BurstBound'
    OBVIOUS
  <2> DEFINE I == bucket.interval
             C == Capacity
             N == Len(grants)
             Cost(n) == n * I
  <2>0. I \in Nat \ {0} /\ C \in Nat /\ N \in Nat
    BY CapacityFacts DEF TypeOK
  <2>a. \A n \in Int : Cost(n) \in Int /\ Cost(n + 1) = Cost(n) + I
    <3> HIDE DEF I
    <3> QED BY <2>0, SMT
  <2>b. /\ credit \in Nat /\ credit <= C /\ time \in Nat
        /\ \A i \in 1..N : grants[i] \in Nat /\ N - i + 1 \in Int
    BY <2>0 DEF TypeOK
  <2>c. \A i \in 1..N : Cost(N - i + 1) + credit <= C + (time - grants[i])
    BY DEF PaidFor
  <2>1. CASE Observe
    <3>1. grants' = grants /\ bucket' = bucket /\ Capacity' = Capacity
      BY <2>1 DEF Observe, ObserveAt, Capacity
    <3>2. BurstBound'
      BY <3>1 DEF BurstBound
    <3> PICK now : ObserveAt(now)
      BY <2>1 DEF Observe
    <3> DEFINE new == Capped(credit + (now - time))
    <3>3. now - time \in Nat /\ now \in Nat /\ time' = now /\ credit' = new
      BY DEF ObserveAt, TypeOK
    <3>4. new \in 0..C /\ new <= credit + (now - time)
      BY <2>0, <2>b, <3>3, CappedRange
    <3>5. ASSUME NEW i \in 1..N
          PROVE  Cost(N - i + 1) + new <= C + (now - grants[i])
      <4>1. Cost(N - i + 1) \in Int /\ grants[i] \in Nat
        BY <2>a, <2>b
      <4>2. Cost(N - i + 1) + credit <= C + (time - grants[i])
        BY <2>c
      <4> HIDE DEF Cost, C, N, I, new
      <4> QED BY <2>0, <2>b, <3>3, <3>4, <4>1, <4>2
    <3> QED BY <3>1, <3>2, <3>3, <3>5 DEF PaidFor
  <2>2. CASE Grant
    <3>1. /\ credit >= I /\ credit' = credit - I /\ time' = time
          /\ bucket' = bucket /\ Capacity' = Capacity
          /\ Len(grants') = N + 1 /\ grants'[N + 1] = time
          /\ \A i \in 1..N : grants'[i] = grants[i]
      BY <2>2 DEF Grant, Capacity, TypeOK
    <3>2. ASSUME NEW i \in 1..N
          PROVE  /\ Cost(N + 1 - i + 1) + credit' <= C + (time - grants[i])
                 /\ Cost(N + 1 - i + 1) <= C + (time - grants[i])
      <4> DEFINE k == Cost(N - i + 1)
                 m == Cost(N + 1 - i + 1)
                 g == grants[i]
      <4>1. (N - i + 1) + 1 = N + 1 - i + 1
        BY <2>0
      <4>2. k \in Int /\ g \in Nat /\ m = k + I
        BY <2>a, <2>b, <4>1
      <4>3. k + credit <= C + (time - g)
        BY <2>c
      <4>4. credit >= I
        BY <3>1
      <4>5. m + (credit - I) <= C + (time - g) /\ m <= C + (time - g)
        <5> HIDE DEF k, m, g, Cost, C, N, I
        <5> QED BY <2>0, <2>b, <4>2, <4>3, <4>4
      <4> QED BY <3>1, <4>5
    <3>3. Cost(1) = I
      BY <2>0
    <3>4. PaidFor'
      <4> SUFFICES ASSUME NEW i \in 1..(N + 1)
                   PROVE  Cost(N + 1 - i + 1) + credit' <= C + (time - grants'[i])
        BY <3>1 DEF PaidFor
      <4>1. CASE i \in 1..N
        BY <3>1, <3>2, <4>1
      <4>2. CASE i = N + 1
        <5>1. N + 1 - i + 1 = 1
          BY <2>0, <4>2
        <5> HIDE DEF Cost, C, N, I
        <5> QED BY <2>0, <2>b, <3>1, <3>3, <4>2, <5>1
      <4> QED BY <2>0, <4>1, <4>2
    <3>5. BurstBound'
      <4> SUFFICES ASSUME NEW i \in 1..(N + 1), NEW j \in 1..(N + 1), i <= j
                   PROVE  Cost(j - i + 1) <= C + (grants'[j] - grants'[i])
        BY <3>1 DEF BurstBound
      <4>1. CASE j \in 1..N
        <5>1. i \in 1..N
          BY <4>1
        <5> QED BY <3>1, <4>1, <5>1 DEF BurstBound
      <4>2. CASE j = N + 1 /\ i \in 1..N
        BY <3>1, <3>2, <4>2
      <4>3. CASE j = N + 1 /\ i = N + 1
        <5>1. j - i + 1 = 1
          BY <2>0, <4>3
        <5> HIDE DEF Cost, C, N, I
        <5> QED BY <2>0, <2>b, <3>1, <3>3, <4>3, <5>1
      <4> QED BY <2>0, <4>1, <4>2, <4>3
    <3> QED BY <3>4, <3>5
  <2>3. CASE Reset
    BY <2>3 DEF Reset, PaidFor, BurstBound
  <2>4. CASE UNCHANGED vars
    BY <2>4 DEF vars, PaidFor, BurstBound, Capacity
  <2> QED BY <2>1, <2>2, <2>3, <2>4 DEF Next
<1> QED BY <1>1, <1>2, TypeCorrect, PTL DEF Spec
=============================================================================
