-------------------------- MODULE NWSClientProofs --------------------------
(***************************************************************************)
(* The requests of a client, what they cost and what it keeps of the       *)
(* answers, for every policy, bucket and ttl, any locations and any series *)
(* of calls and outcomes.                                                  *)
(***************************************************************************)
EXTENDS NWSClient, TLAPS

TypeInv ==
    /\ policy \in RetryPolicies
    /\ clock \in Nat
    /\ began \in Nat
    /\ began <= clock
    /\ pc \in {"idle", "point", "loop", "send", "asleep"}
    /\ request \in 1..Len(Requests(method))
    /\ attempt \in 1..UINT8_MAX
    /\ sent \in Nat

\* The token of the request about to be sent.
Paid ==
    /\ grants \in Seq(Nat)
    /\ total \in Nat
    /\ EveryRequestPaid

\* Requests that the attempts before this one may have made.
Budget(q) == q * policy.max_attempts

\* How far the call has come, and what it may have sent by then.
Progress ==
    /\ pc = "point" =>
           /\ location \in Locations
           /\ request = 1 /\ attempt = 1 /\ sent = 0
    /\ pc = "loop" =>
           /\ attempt = 1 \/ attempt <= policy.max_attempts
           /\ sent <= Budget(request - 1) + attempt - 1
    /\ pc = "send" =>
           /\ attempt <= policy.max_attempts
           /\ sent <= Budget(request - 1) + attempt - 1
    /\ pc = "asleep" =>
           /\ attempt < policy.max_attempts
           /\ sent <= Budget(request - 1) + attempt
    /\ pc \in {"loop", "send", "asleep"} => location = Absent \/ ValidCoordinates(location)
    /\ pc # "idle" => result = Nothing

CallInv == TypeInv /\ Progress /\ BoundedRequests /\ TransientErrorsExhausted

\* The table of writes covers the keys of valid locations.
CacheInv == written = [k \in CacheKeys |-> written[k]] /\ CacheGenuine

\* A method that takes a location asks the server only for a valid one.
Located ==
    method \in PointMethods =>
        /\ pc # "idle" => location \in Locations
        /\ pc \in {"loop", "send", "asleep"} => ValidCoordinates(location)

IInv == CallInv /\ Paid /\ CacheInv /\ Located
-----------------------------------------------------------------------------
(* Requests.                                                               *)

\* A method makes one to three requests; get_point makes itself.
LEMMA RequestsFacts ==
    /\ \A m : Len(Requests(m)) \in {1, 2, 3}
    /\ Requests("get_point") = <<"get_point">>
BY DEF Requests

\* A product grows with its first factor.
LEMMA ProductMonotone ==
    ASSUME NEW a \in Nat, NEW b \in Nat, NEW c \in Nat, a <= b
    PROVE  a * c <= b * c
OBVIOUS

\* The budget of one more request is one more round of attempts.
LEMMA BudgetFacts ==
    ASSUME TypeInv
    PROVE  /\ policy.max_attempts \in Nat
           /\ policy.max_attempts <= UINT8_MAX /\ UINT8_MAX \in Nat
           /\ request \in Nat /\ request - 1 \in Nat /\ attempt \in Nat /\ sent \in Nat
           /\ Len(Requests(method)) \in Nat
           /\ Budget(request - 1) \in Nat
           /\ Budget(request) = Budget(request - 1) + policy.max_attempts
           /\ Budget(request) <= Len(Requests(method)) * policy.max_attempts
<1> DEFINE M == policy.max_attempts
           L == Len(Requests(method))
<1>1. M \in Nat /\ M <= UINT8_MAX /\ UINT8_MAX \in Nat
  <2>1. M \in 0..UINT8_MAX
    BY DEF TypeInv, RetryPolicies
  <2> HIDE DEF M
  <2> QED BY <2>1, UnitAssumption
<1>2. L \in Nat
  BY RequestsFacts
<1>3. request \in 1..L /\ attempt \in Nat /\ sent \in Nat
  BY <1>1 DEF TypeInv
<1> HIDE DEF M, L
<1>4. request \in Nat /\ request - 1 \in Nat /\ request <= L
  BY <1>2, <1>3
<1>5. (request - 1) * M \in Nat
  BY <1>1, <1>4
<1>6. request * M = (request - 1) * M + M
  BY <1>1, <1>4
<1>7. request * M <= L * M
  BY <1>1, <1>2, <1>4, ProductMonotone
<1> QED BY <1>1, <1>2, <1>3, <1>4, <1>5, <1>6, <1>7 DEF M, L, Budget

\* Places that do not exist are not valid coordinates.
LEMMA InvalidPlace ==
    ASSUME NEW p, ValidCoordinates(p)
    PROVE  Place(p) \in (-90..90) \X (-180..180)
BY DEF ValidCoordinates, Place

\* body_or_error and with_retry agree: a response that the policy retries
\* is never turned into an error before the last attempt.
LEMMA CodesAgree ==
    ASSUME NEW r \in Response, r.status # 200
    PROVE  /\ from_response(r.status) # "NetworkError"
           /\ from_response(r.status) = "ServerError" /\ policy.retry_on_server_error
                  => should_retry(r, policy)
           /\ from_response(r.status) = "RateLimited" /\ policy.retry_on_rate_limit
                  => should_retry(r, policy)
<1> DEFINE s == r.status
<1>1. s \in Int /\ r.kind = "response"
  BY StatusAssumption DEF Response
<1>2. should_retry(r, policy) = RetryStatus(s, policy)
  BY <1>1 DEF should_retry
<1>3. /\ from_response(s) = "ServerError" => s \in (500..599) \ {503}
      /\ from_response(s) = "RateLimited" => s \in {503, 429}
      /\ from_response(s) # "NetworkError"
  BY <1>1 DEF from_response
<1>4. s \in (500..599) \ {503} => s >= 500 /\ s < 600 /\ s \notin {429, 503}
  BY <1>1
<1> HIDE DEF s
<1>5. s \in (500..599) \ {503} /\ policy.retry_on_server_error => RetryStatus(s, policy)
  BY <1>4 DEF RetryStatus
<1>6. s \in {503, 429} /\ policy.retry_on_rate_limit => RetryStatus(s, policy)
  BY DEF RetryStatus
<1> QED BY <1>2, <1>3, <1>5, <1>6 DEF s
-----------------------------------------------------------------------------
(* The progress of a call.                                                 *)

\* What TransientErrorsExhausted says of a result.
Justified(e) ==
    e.kind = "error" =>
        /\ e.code = "ServerError" /\ policy.retry_on_server_error
               => attempt = policy.max_attempts
        /\ e.code = "RateLimited" /\ policy.retry_on_rate_limit
               => attempt = policy.max_attempts \/ max_wait
        /\ e.code = "NetworkError" /\ policy.retry_on_network_error
               => attempt >= policy.max_attempts

Frame == UNCHANGED <<config, clock, method, location, began>>

\* A call that ends within its budget, for a good reason.
LEMMA ReturnStep ==
    ASSUME CallInv, Frame, NEW e, Return(e), Justified(e), sent' \in Nat,
           sent' <= Len(Requests(method)) * policy.max_attempts,
           location # Absent /\ Place(location) \notin (-90..90) \X (-180..180) => sent' = 0
    PROVE  CallInv'
<1>1. /\ pc' = "idle" /\ result' = e
      /\ UNCHANGED <<request, attempt, policy, max_wait, clock, method, location, began>>
  BY DEF Return, Frame, config
<1>2. TypeInv'
  BY <1>1 DEF CallInv, TypeInv
<1>3. Progress'
  BY <1>1 DEF Progress
<1>4. BoundedRequests'
  BY <1>1 DEF BoundedRequests
<1>5. TransientErrorsExhausted'
  BY <1>1 DEF TransientErrorsExhausted, Justified
<1> QED BY <1>2, <1>3, <1>4, <1>5 DEF CallInv

\* A call that goes on with its next request, or returns after the last.
LEMMA ProceedStep ==
    ASSUME CallInv, Frame, Proceed, result = Nothing, sent' \in Nat,
           sent' <= Budget(request),
           location = Absent \/ ValidCoordinates(location)
    PROVE  CallInv'
<1> DEFINE L == Len(Requests(method))
<1>1. TypeInv
  BY DEF CallInv
<1>2. /\ policy.max_attempts \in Nat /\ request \in Nat /\ L \in Nat
      /\ Budget(request) \in Nat /\ L * policy.max_attempts \in Nat
      /\ Budget(request) <= L * policy.max_attempts
  <2>1. /\ policy.max_attempts \in Nat /\ request \in Nat /\ L \in Nat
        /\ Budget(request) = Budget(request - 1) + policy.max_attempts
        /\ Budget(request - 1) \in Nat
        /\ Budget(request) <= L * policy.max_attempts
    BY <1>1, BudgetFacts
  <2> HIDE DEF Budget, L
  <2> QED BY <2>1
<1>3. sent' <= L * policy.max_attempts
  <2> DEFINE x == L * policy.max_attempts
             y == Budget(request)
             z == sent'
  <2> HIDE DEF x, y, z
  <2>1. x \in Nat /\ y \in Nat /\ z \in Nat /\ y <= x /\ z <= y
    BY <1>2 DEF x, y, z
  <2>2. z <= x
    BY <2>1
  <2> QED BY <2>2 DEF x, z
<1>4. location = Absent \/ Place(location) \in (-90..90) \X (-180..180)
  BY InvalidPlace
<1>5. CASE request = L
  <2>1. Return(Ok)
    BY <1>5 DEF Proceed
  <2>2. Justified(Ok)
    BY DEF Justified, Ok
  <2> QED BY <1>3, <1>4, <2>1, <2>2, ReturnStep
<1>6. CASE request # L
  <2>1. /\ pc' = "loop" /\ request' = request + 1 /\ attempt' = 1 /\ result' = result
        /\ UNCHANGED <<policy, max_wait, clock, method, location, began>>
    BY <1>6 DEF Proceed, Frame, config
  <2>2. request + 1 \in 1..L
    <3>1. request \in 1..L
      BY <1>1 DEF TypeInv
    <3> HIDE DEF L
    <3> QED BY <1>2, <1>6, <3>1
  <2>3. 1 \in 1..UINT8_MAX
    BY UnitAssumption
  <2>4. TypeInv'
    BY <1>1, <2>1, <2>2, <2>3 DEF TypeInv
  <2>5. sent' <= (Budget(request - 1))' + attempt' - 1
    <3>1. (Budget(request - 1))' = ((request + 1) - 1) * policy.max_attempts
      BY <2>1 DEF Budget
    <3>2. (request + 1) - 1 = request
      BY <1>2
    <3>3. (Budget(request - 1))' = Budget(request)
      BY <3>1, <3>2 DEF Budget
    <3>4. Budget(request) + 1 - 1 = Budget(request)
      <4> HIDE DEF Budget
      <4> QED BY <1>2
    <3> QED BY <2>1, <3>3, <3>4
  <2>6. Progress'
    <3>1. location' = Absent \/ ValidCoordinates(location)'
      BY <2>1 DEF ValidCoordinates, Number
    <3> QED BY <2>1, <2>5, <3>1 DEF Progress
  <2>7. BoundedRequests'
    BY <1>3, <1>4, <2>1 DEF BoundedRequests, Place, Number
  <2>8. TransientErrorsExhausted'
    BY <2>1 DEF TransientErrorsExhausted
  <2> QED BY <2>4, <2>6, <2>7, <2>8 DEF CallInv
<1> QED BY <1>5, <1>6

\* The initial state: no call yet.
LEMMA InitCall == Init => CallInv
<1> SUFFICES ASSUME Init PROVE CallInv
  OBVIOUS
<1> USE DEF Init
<1>1. policy \in RetryPolicies /\ policy.max_attempts \in Nat
  <2>1. policy \in RetryPolicies
    BY PoliciesAssumption
  <2>2. policy.max_attempts \in 0..UINT8_MAX
    BY <2>1 DEF RetryPolicies
  <2> QED BY <2>1, <2>2, UnitAssumption
<1>2. 1 \in 1..Len(Requests("get_point")) /\ 1 \in 1..UINT8_MAX
  <2>1. Len(Requests("get_point")) = 1
    BY RequestsFacts
  <2> QED BY <2>1, UnitAssumption
<1>3. TypeInv
  BY <1>1, <1>2 DEF TypeInv
<1>4. Progress
  BY DEF Progress
<1>5. BoundedRequests
  <2>1. 0 <= Len(Requests("get_point")) * policy.max_attempts
    BY <1>1, RequestsFacts
  <2> QED BY <2>1 DEF BoundedRequests
<1>6. TransientErrorsExhausted
  BY DEF TransientErrorsExhausted, Nothing
<1> QED BY <1>3, <1>4, <1>5, <1>6 DEF CallInv

\* A call starts with nothing sent.
LEMMA StartCall ==
    ASSUME CallInv, NEW m \in CalledMethods,
           NEW p \in IF m \in PointMethods THEN Locations ELSE {Absent}, Start(m, p)
    PROVE  CallInv'
<1>1. /\ method' = m /\ location' = p /\ began' = clock
      /\ pc' = IF m \in PointMethods THEN "point" ELSE "loop"
      /\ request' = 1 /\ attempt' = 1 /\ result' = Nothing /\ sent' = 0
      /\ UNCHANGED <<policy, clock>>
  BY DEF Start, config
<1>2. TypeInv /\ clock \in Nat /\ policy \in RetryPolicies /\ policy.max_attempts \in Nat
  BY BudgetFacts DEF CallInv, TypeInv
<1>3. Len(Requests(m)) \in Nat /\ 1 \in 1..Len(Requests(m)) /\ 1 \in 1..UINT8_MAX
  <2>1. Len(Requests(m)) \in {1, 2, 3}
    BY RequestsFacts, Zenon
  <2>2. UINT8_MAX \in Nat /\ UINT8_MAX >= 1
    BY UnitAssumption
  <2> HIDE DEF Requests
  <2> QED BY <2>1, <2>2
<1>4. TypeInv'
  BY <1>1, <1>2, <1>3 DEF TypeInv
<1>5. Progress'
  <2>1. CASE m \in PointMethods
    BY <1>1, <2>1 DEF Progress
  <2>2. CASE m \notin PointMethods
    <3>1. pc' = "loop" /\ location' = Absent
      BY <1>1, <2>2
    <3>2. (Budget(request - 1))' = 0
      <4>1. (1 - 1) * policy.max_attempts = 0
        BY <1>2
      <4> QED BY <1>1, <4>1 DEF Budget
    <3>3. sent' <= (Budget(request - 1))' + attempt' - 1
      BY <1>1, <3>2
    <3> QED BY <1>1, <3>1, <3>3 DEF Progress
  <2> QED BY <2>1, <2>2
<1>6. BoundedRequests'
  <2>1. 0 <= Len(Requests(m)) * policy.max_attempts
    BY <1>2, <1>3
  <2> QED BY <1>1, <2>1 DEF BoundedRequests
<1>7. TransientErrorsExhausted'
  BY <1>1 DEF TransientErrorsExhausted, Nothing
<1> QED BY <1>4, <1>5, <1>6, <1>7 DEF CallInv

\* A step that leaves the call alone.
LEMMA IdleCall ==
    ASSUME CallInv, clock' \in Nat, clock' >= clock,
           UNCHANGED <<config, method, location, began, pc, request, attempt, result, sent>>
    PROVE  CallInv'
<1>1. UNCHANGED <<policy, max_wait, method, location, began, pc, request, attempt, result, sent>>
  BY DEF config
<1>2. TypeInv'
  <2>1. began \in Nat /\ clock \in Nat /\ began <= clock
    BY DEF CallInv, TypeInv
  <2>2. began <= clock'
    <3> DEFINE c == clock'
    <3> HIDE DEF c
    <3>1. c \in Nat /\ c >= clock
      BY DEF c
    <3>2. began <= c
      BY <2>1, <3>1
    <3> QED BY <3>2 DEF c
  <2> QED BY <1>1, <2>1, <2>2 DEF CallInv, TypeInv
<1>3. Progress'
  BY <1>1 DEF CallInv, Progress, Budget, ValidCoordinates, Number
<1>4. BoundedRequests'
  BY <1>1 DEF CallInv, BoundedRequests
<1>5. TransientErrorsExhausted'
  BY <1>1 DEF CallInv, TransientErrorsExhausted
<1> QED BY <1>2, <1>3, <1>4, <1>5 DEF CallInv

\* The clock and the stuttering steps.
LEMMA TickCall == CallInv /\ (Tick \/ Done \/ UNCHANGED vars) => CallInv'
<1> SUFFICES ASSUME CallInv, Tick \/ Done \/ UNCHANGED vars PROVE CallInv'
  OBVIOUS
<1>0. clock \in Nat
  BY DEF CallInv, TypeInv
<1>1. CASE Tick
  <2>1. clock' = clock + 1
    BY <1>1 DEF Tick, Limiter!ObserveAt
  <2>2. clock' \in Nat /\ clock' >= clock
    BY <1>0, <2>1
  <2> QED BY <1>1, <2>2, IdleCall DEF Tick, call
<1>2. CASE Done \/ UNCHANGED vars
  <2>1. UNCHANGED vars
    BY <1>2 DEF Done
  <2>2. clock' \in Nat /\ clock' >= clock
    BY <1>0, <2>1 DEF vars
  <2> QED BY <2>1, <2>2, IdleCall DEF vars, call
<1> QED BY <1>1, <1>2

\* What every step of do_get starts from.
LEMMA InCall ==
    ASSUME CallInv
    PROVE  /\ sent \in Nat
           /\ sent <= Len(Requests(method)) * policy.max_attempts
           /\ location # Absent /\ Place(location) \notin (-90..90) \X (-180..180)
                  => sent = 0
BY DEF CallInv, TypeInv, BoundedRequests

\* get_point before it asks the server.
LEMMA PointCall ==
    CallInv /\ (RejectPoint \/ PointHit \/ PointMiss) => CallInv'
<1> SUFFICES ASSUME CallInv, RejectPoint \/ PointHit \/ PointMiss PROVE CallInv'
  OBVIOUS
<1>1. /\ pc = "point" /\ request = 1 /\ attempt = 1 /\ sent = 0 /\ result = Nothing
      /\ location \in Locations
  BY DEF CallInv, Progress, RejectPoint, PointHit, PointMiss
<1>2. CASE RejectPoint
  <2>1. Frame /\ Return(Error("InvalidRequest")) /\ sent' = sent
    BY <1>2 DEF RejectPoint, Frame, call
  <2>2. Justified(Error("InvalidRequest"))
    BY DEF Justified, Error
  <2> QED BY <2>1, <2>2, InCall, ReturnStep
<1>3. CASE PointHit
  <2>1. Frame /\ Proceed /\ sent' = sent /\ ValidCoordinates(location)
    BY <1>3 DEF PointHit, Frame, call, Cache!Hit
  <2>2. sent' \in Nat /\ sent' <= Budget(request)
    <3>1. Budget(request) \in Nat
      <4>1. /\ Budget(request - 1) \in Nat /\ policy.max_attempts \in Nat
            /\ Budget(request) = Budget(request - 1) + policy.max_attempts
        BY BudgetFacts DEF CallInv
      <4> HIDE DEF Budget
      <4> QED BY <4>1
    <3> HIDE DEF Budget
    <3> QED BY <1>1, <2>1, <3>1
  <2> QED BY <1>1, <2>1, <2>2, ProceedStep
<1>4. CASE PointMiss
  <2>1. /\ pc' = "loop" /\ ValidCoordinates(location)
        /\ UNCHANGED <<policy, max_wait, clock, method, location, began, request,
                       attempt, result, sent>>
    BY <1>4 DEF PointMiss, config, call, cache, Cache!Nothing
  <2>2. TypeInv'
    BY <2>1 DEF CallInv, TypeInv
  <2>3. sent' <= (Budget(request - 1))' + attempt' - 1
    <3>1. policy.max_attempts \in Nat
      BY BudgetFacts DEF CallInv
    <3>2. (1 - 1) * policy.max_attempts = 0
      BY <3>1
    <3>3. (Budget(request - 1))' = 0
      BY <1>1, <2>1, <3>2 DEF Budget
    <3> QED BY <1>1, <2>1, <3>3
  <2>4. Progress'
    <3>1. ValidCoordinates(location)'
      BY <2>1 DEF ValidCoordinates, Number
    <3> QED BY <1>1, <2>1, <2>3, <3>1 DEF Progress
  <2>5. BoundedRequests'
    BY <2>1 DEF CallInv, BoundedRequests
  <2>6. TransientErrorsExhausted'
    BY <2>1 DEF TransientErrorsExhausted
  <2> QED BY <2>2, <2>4, <2>5, <2>6 DEF CallInv
<1> QED BY <1>2, <1>3, <1>4

\* The limiter's answer, and a loop that ends without a request.
LEMMA AcquireCall ==
    CallInv /\ (Acquire \/ AcquireTimesOut \/ OutOfAttempts) => CallInv'
<1> SUFFICES ASSUME CallInv, Acquire \/ AcquireTimesOut \/ OutOfAttempts PROVE CallInv'
  OBVIOUS
<1>1. CASE Acquire
  <2>1. /\ pc = "loop" /\ pc' = "send" /\ attempt <= policy.max_attempts
        /\ UNCHANGED <<policy, max_wait, clock, method, location, began, request,
                       attempt, result, sent>>
    BY <1>1 DEF Acquire, InLoop, Limiter!Grant, config, call
  <2>2. TypeInv'
    BY <2>1 DEF CallInv, TypeInv
  <2>3. Progress'
    BY <2>1 DEF CallInv, Progress, Budget, ValidCoordinates, Number
  <2>4. BoundedRequests'
    BY <2>1 DEF CallInv, BoundedRequests
  <2>5. TransientErrorsExhausted'
    BY <2>1 DEF TransientErrorsExhausted
  <2> QED BY <2>2, <2>3, <2>4, <2>5 DEF CallInv
<1>2. CASE AcquireTimesOut
  <2>1. Frame /\ Return(Error("RateLimited")) /\ sent' = sent /\ max_wait
    BY <1>2 DEF AcquireTimesOut, Frame, call
  <2>2. Justified(Error("RateLimited"))
    BY <2>1 DEF Justified, Error
  <2> QED BY <2>1, <2>2, InCall, ReturnStep
<1>3. CASE OutOfAttempts
  <2>1. /\ Frame /\ Return(Error("NetworkError")) /\ sent' = sent
        /\ attempt > policy.max_attempts
    BY <1>3 DEF OutOfAttempts, Frame, call
  <2>2. attempt >= policy.max_attempts
    <3>1. attempt \in Nat /\ policy.max_attempts \in Nat
      BY BudgetFacts DEF CallInv
    <3> QED BY <2>1, <3>1
  <2>3. Justified(Error("NetworkError"))
    BY <2>2 DEF Justified, Error
  <2> QED BY <2>1, <2>3, InCall, ReturnStep
<1> QED BY <1>1, <1>2, <1>3

\* The loop counter does not wrap: another round is made only below
\* max_attempts.
LEMMA WakeCall == CallInv /\ Wake => CallInv'
<1> SUFFICES ASSUME CallInv, Wake PROVE CallInv'
  OBVIOUS
<1>1. /\ pc = "asleep" /\ pc' = "loop" /\ attempt' = (attempt + 1) % (UINT8_MAX + 1)
      /\ UNCHANGED <<policy, max_wait, clock, method, location, began, request,
                     result, sent>>
  BY DEF Wake, config, call
<1>2. /\ attempt \in Nat /\ policy.max_attempts \in Nat /\ UINT8_MAX \in Nat
      /\ policy.max_attempts <= UINT8_MAX /\ sent \in Nat /\ Budget(request - 1) \in Nat
  BY BudgetFacts DEF CallInv
<1>3. attempt < policy.max_attempts /\ sent <= Budget(request - 1) + attempt
  BY <1>1 DEF CallInv, Progress
<1>4. attempt' = attempt + 1 /\ attempt' \in 1..UINT8_MAX /\ attempt' <= policy.max_attempts
  <2>1. attempt + 1 <= policy.max_attempts /\ attempt + 1 \in 1..UINT8_MAX
    BY <1>2, <1>3
  <2>2. (attempt + 1) % (UINT8_MAX + 1) = attempt + 1
    BY <1>2, <2>1
  <2> QED BY <1>1, <2>1, <2>2
<1>5. TypeInv'
  BY <1>1, <1>4 DEF CallInv, TypeInv
<1>6. Progress'
  <2>1. Budget(request - 1) + attempt = Budget(request - 1) + (attempt + 1) - 1
    <3> HIDE DEF Budget
    <3> QED BY <1>2
  <2>2. (Budget(request - 1))' = Budget(request - 1)
    BY <1>1 DEF Budget
  <2>3. sent' <= (Budget(request - 1))' + attempt' - 1
    BY <1>1, <1>3, <1>4, <2>1, <2>2
  <2>4. location' = Absent \/ ValidCoordinates(location)'
    BY <1>1 DEF CallInv, Progress, ValidCoordinates, Number
  <2> QED BY <1>1, <1>4, <2>3, <2>4 DEF CallInv, Progress
<1>7. BoundedRequests'
  BY <1>1 DEF CallInv, BoundedRequests
<1>8. TransientErrorsExhausted'
  BY <1>1 DEF TransientErrorsExhausted
<1> QED BY <1>5, <1>6, <1>7, <1>8 DEF CallInv

\* The ways in which a request that is not tried again ends.
LEMMA FinishWays ==
    ASSUME NEW r \in Response \cup Failure, Finish(r)
    PROVE  /\ UNCHANGED clock
           /\ \/ Proceed
              \/ Return(Error("ParseError"))
              \/ Return(Error("NotFound"))
              \/ /\ r \in Response /\ r.status # 200
                 /\ Return(Error(from_response(r.status)))
              \/ r \in Failure /\ Return(Error(r.code))
<1>0. r.kind = "response" => r \in Response
  BY DEF Response, Failure
<1>1. r.kind = "error" => r \in Failure
  BY DEF Response, Failure
<1>2. CASE r.kind = "response" /\ r.status = 200 /\ \E parsed \in BOOLEAN : Received(parsed)
  <2>1. PICK parsed \in BOOLEAN : Received(parsed)
    BY <1>2
  <2>2. CASE PointReceived(parsed)
    <3>1. CASE ~parsed
      BY <2>2, <3>1 DEF PointReceived
    <3>2. CASE parsed
      BY <2>2, <3>2 DEF PointReceived, Cache!Store, Cache!Nothing
    <3> QED BY <3>1, <3>2
  <2>3. CASE OtherReceived(parsed)
    BY <2>3 DEF OtherReceived
  <2> QED BY <2>1, <2>2, <2>3 DEF Received
<1>3. CASE r.kind = "response" /\ r.status # 200
  BY <1>0, <1>3 DEF Finish
<1>4. CASE r.kind = "error"
  BY <1>1, <1>4 DEF Finish
<1> QED BY <1>2, <1>3, <1>4 DEF Finish

\* The error of a request that is not tried again is justified.
LEMMA ErrorJustified ==
    ASSUME CallInv, pc = "send", NEW r \in Response \cup Failure, ~TriesAgain(r)
    PROVE  /\ r \in Response /\ r.status # 200 => Justified(Error(from_response(r.status)))
           /\ r \in Failure => Justified(Error(r.code))
<1>1. should_retry(r, policy) => attempt = policy.max_attempts
  <2>1. attempt \in Nat /\ policy.max_attempts \in Nat
    BY BudgetFacts DEF CallInv
  <2>2. attempt <= policy.max_attempts
    BY DEF CallInv, Progress
  <2> QED BY <2>1, <2>2 DEF TriesAgain
<1>2. ASSUME r \in Response, r.status # 200
      PROVE  Justified(Error(from_response(r.status)))
  <2> DEFINE c == from_response(r.status)
  <2>1. /\ c # "NetworkError"
        /\ c = "ServerError" /\ policy.retry_on_server_error => attempt = policy.max_attempts
        /\ c = "RateLimited" /\ policy.retry_on_rate_limit => attempt = policy.max_attempts
    BY <1>1, <1>2, CodesAgree
  <2> HIDE DEF c
  <2>2. Justified(Error(c))
    BY <2>1 DEF Justified, Error
  <2> QED BY <2>2 DEF c
<1>3. ASSUME r \in Failure
      PROVE  Justified(Error(r.code))
  <2>1. r.kind = "error" /\ r.code \in {"NetworkError", "InvalidRequest"}
    BY <1>3, CodesAssumption DEF Failure
  <2>2. r.code = "NetworkError" /\ policy.retry_on_network_error
            => attempt = policy.max_attempts
    BY <1>1, <2>1 DEF should_retry, RetryError
  <2>3. attempt = policy.max_attempts => attempt >= policy.max_attempts
    BY BudgetFacts DEF CallInv
  <2>4. /\ r.code # "ServerError" /\ r.code # "RateLimited"
        /\ r.code = "NetworkError" /\ policy.retry_on_network_error
               => attempt >= policy.max_attempts
    BY <2>1, <2>2, <2>3
  <2> QED BY <2>4 DEF Justified, Error
<1> QED BY <1>2, <1>3

\* A request stays within the budget of its place in the method, and its
\* failure is reported only when with_retry would not try again.
LEMMA SendCall ==
    ASSUME CallInv, NEW r \in Response \cup Failure, Send(r)
    PROVE  CallInv'
<1>1. /\ pc = "send" /\ sent' = sent + 1
      /\ UNCHANGED <<policy, max_wait, enable_cache, method, location, began>>
  BY DEF Send, config, call
<1>2. /\ attempt <= policy.max_attempts /\ sent <= Budget(request - 1) + attempt - 1
      /\ location = Absent \/ ValidCoordinates(location)
      /\ result = Nothing
  BY <1>1 DEF CallInv, Progress
<1>3. /\ attempt \in Nat /\ policy.max_attempts \in Nat /\ sent \in Nat
      /\ Budget(request - 1) \in Nat
      /\ Budget(request) = Budget(request - 1) + policy.max_attempts
      /\ Budget(request) <= Len(Requests(method)) * policy.max_attempts
      /\ Len(Requests(method)) \in Nat
  BY BudgetFacts DEF CallInv
<1>4. sent + 1 \in Nat /\ sent + 1 <= Budget(request - 1) + attempt /\ sent + 1 <= Budget(request)
  <2> HIDE DEF Budget
  <2> QED BY <1>2, <1>3
<1>5. sent + 1 <= Len(Requests(method)) * policy.max_attempts
  <2> DEFINE b == Budget(request)
             n == Len(Requests(method)) * policy.max_attempts
  <2>1. b \in Nat /\ n \in Nat /\ b <= n /\ sent + 1 <= b
    <3>1. n \in Nat
      BY <1>3
    <3>2. b \in Nat
      <4> HIDE DEF Budget
      <4> QED BY <1>3
    <3> QED BY <1>3, <1>4, <3>1, <3>2
  <2> HIDE DEF b, n
  <2>2. sent + 1 <= n
    BY <1>3, <2>1
  <2> QED BY <2>2 DEF n
<1>6. location = Absent \/ Place(location) \in (-90..90) \X (-180..180)
  BY <1>2, InvalidPlace
<1>7. CASE TriesAgain(r) /\ pc' = "asleep" /\ UNCHANGED <<request, attempt, result, clock>>
  <2>1. TypeInv'
    <3>1. sent' \in Nat
      BY <1>1, <1>4
    <3> QED BY <1>1, <1>7, <3>1 DEF CallInv, TypeInv
  <2>2. Progress'
    <3>1. attempt < policy.max_attempts
      BY <1>7 DEF TriesAgain
    <3>2. sent' <= (Budget(request - 1))' + attempt'
      BY <1>1, <1>4, <1>7 DEF Budget
    <3>3. location' = Absent \/ ValidCoordinates(location)'
      BY <1>1, <1>2 DEF ValidCoordinates, Number
    <3> QED BY <1>1, <1>2, <1>7, <3>1, <3>2, <3>3 DEF Progress
  <2>3. BoundedRequests'
    BY <1>1, <1>5, <1>6 DEF BoundedRequests, Place, Number
  <2>4. TransientErrorsExhausted'
    BY <1>7 DEF TransientErrorsExhausted
  <2> QED BY <2>1, <2>2, <2>3, <2>4 DEF CallInv
<1>8. CASE ~TriesAgain(r) /\ Finish(r)
  <2>1. Frame
    BY <1>1, <1>8, FinishWays DEF Frame, config
  <2>2. sent' \in Nat /\ sent' <= Budget(request)
        /\ sent' <= Len(Requests(method)) * policy.max_attempts
    BY <1>1, <1>4, <1>5
  <2>3. ASSUME NEW e, Return(e), Justified(e)
        PROVE  CallInv'
    BY <1>6, <2>1, <2>2, <2>3, ReturnStep
  <2>4. CASE Proceed
    BY <1>2, <2>1, <2>2, <2>4, ProceedStep
  <2>5. CASE Return(Error("ParseError"))
    BY <2>3, <2>5 DEF Justified, Error
  <2>6. CASE Return(Error("NotFound"))
    BY <2>3, <2>6 DEF Justified, Error
  <2>7. CASE r \in Response /\ r.status # 200 /\ Return(Error(from_response(r.status)))
    BY <1>1, <1>8, <2>3, <2>7, ErrorJustified
  <2>8. CASE r \in Failure /\ Return(Error(r.code))
    BY <1>1, <1>8, <2>3, <2>8, ErrorJustified
  <2> QED BY <1>8, <2>4, <2>5, <2>6, <2>7, <2>8, FinishWays
<1> QED BY <1>7, <1>8 DEF Send

\* Every step keeps the account of the call.
LEMMA NextCall == CallInv /\ [Next]_vars => CallInv'
<1> SUFFICES ASSUME CallInv, [Next]_vars PROVE CallInv'
  OBVIOUS
<1>1. CASE Tick \/ Done \/ UNCHANGED vars
  BY <1>1, TickCall
<1>2. CASE RejectPoint \/ PointHit \/ PointMiss
  BY <1>2, PointCall
<1>3. CASE Acquire \/ AcquireTimesOut \/ OutOfAttempts
  BY <1>3, AcquireCall
<1>4. CASE Wake
  BY <1>4, WakeCall
<1>5. ASSUME NEW r \in Response \cup Failure, Send(r) PROVE CallInv'
  BY <1>5, SendCall
<1>6. ASSUME NEW m \in CalledMethods,
             NEW p \in IF m \in PointMethods THEN Locations ELSE {Absent}, Start(m, p)
      PROVE  CallInv'
  BY <1>6, StartCall
<1> QED BY <1>1, <1>2, <1>3, <1>4, <1>5, <1>6 DEF Next, Step
-----------------------------------------------------------------------------
(* What the requests cost.                                                 *)

\* Neither a token nor a request.
LEMMA PaidStutters ==
    ASSUME Paid, UNCHANGED <<grants, total>>, pc = "send" <=> pc' = "send"
    PROVE  Paid'
BY DEF Paid, EveryRequestPaid

\* Proceed and Return leave "send".
LEMMA LeavesSend ==
    ASSUME Proceed \/ \E e : Return(e)
    PROVE  pc' # "send"
BY DEF Proceed, Return

\* A token is taken before a request is sent, and none without one.
LEMMA NextPaid == CallInv /\ Paid /\ [Next]_vars => Paid'
<1> SUFFICES ASSUME CallInv, Paid, [Next]_vars PROVE Paid'
  OBVIOUS
<1> USE DEF limiter
<1>1. CASE Tick \/ Done \/ UNCHANGED vars
  BY <1>1, PaidStutters DEF Tick, Done, vars, Limiter!ObserveAt
<1>2. CASE RejectPoint \/ PointHit \/ PointMiss
  <2>1. pc # "send" /\ pc' # "send"
    BY <1>2, LeavesSend DEF RejectPoint, PointHit, PointMiss
  <2> QED BY <1>2, <2>1, PaidStutters DEF RejectPoint, PointHit, PointMiss
<1>3. CASE Acquire
  <2>1. /\ pc = "loop" /\ pc' = "send" /\ total' = total
        /\ grants' = Append(grants, clock)
    BY <1>3 DEF Acquire, InLoop, Limiter!Grant
  <2>2. clock \in Nat /\ grants \in Seq(Nat) /\ Len(grants) = total /\ total \in Nat
    BY <2>1 DEF CallInv, TypeInv, Paid, EveryRequestPaid
  <2>3. grants' \in Seq(Nat) /\ Len(grants') = total + 1
    BY <2>1, <2>2
  <2> QED BY <2>1, <2>2, <2>3 DEF Paid, EveryRequestPaid
<1>4. CASE AcquireTimesOut \/ OutOfAttempts
  <2>1. pc # "send" /\ pc' # "send"
    BY <1>4, LeavesSend DEF AcquireTimesOut, OutOfAttempts, InLoop
  <2> QED BY <1>4, <2>1, PaidStutters DEF AcquireTimesOut, OutOfAttempts
<1>5. CASE Wake
  BY <1>5, PaidStutters DEF Wake
<1>6. ASSUME NEW r \in Response \cup Failure, Send(r) PROVE Paid'
  <2>1. pc = "send" /\ total' = total + 1 /\ grants' = grants
    BY <1>6 DEF Send
  <2>2. pc' # "send"
    BY <1>6, FinishWays, LeavesSend DEF Send
  <2> QED BY <2>1, <2>2 DEF Paid, EveryRequestPaid
<1>7. ASSUME NEW m \in CalledMethods,
             NEW p \in IF m \in PointMethods THEN Locations ELSE {Absent}, Start(m, p)
      PROVE  Paid'
  BY <1>7, PaidStutters DEF Start
<1> QED BY <1>1, <1>2, <1>3, <1>4, <1>5, <1>6, <1>7 DEF Next, Step
-----------------------------------------------------------------------------
(* What the client keeps of the answers.                                   *)

\* Responses are only added to the history.
LEMMA CacheStutters ==
    ASSUME CacheInv, written' = written, served \subseteq served'
    PROVE  CacheInv'
BY DEF CacheInv, CacheGenuine

\* A response is stored under the place it is about, as it was received.
LEMMA StoreKeeps ==
    ASSUME CacheInv, NEW r, NEW v, r = [place |-> Place(location), version |-> v],
           Cache!Store(CoordinateKey(location), r),
           served' = served \cup {[response |-> r, at |-> clock]}
    PROVE  CacheInv'
<1> DEFINE k0 == CoordinateKey(location)
           w == [value |-> r, at |-> clock]
<1>1. r.place = <<k0.latitude, k0.longitude>>
  BY DEF CoordinateKey, Place
<1>2. /\ [response |-> w.value, at |-> w.at] \in served'
      /\ w.value.place = <<k0.latitude, k0.longitude>>
  BY <1>1
<1>3. written' = [written EXCEPT ![k0] = w]
  BY DEF Cache!Store
<1> HIDE DEF k0, w
<1>4. written = [k \in CacheKeys |-> written[k]]
  BY DEF CacheInv
<1>5. written' = [k \in CacheKeys |-> written'[k]]
  BY <1>3, <1>4
<1>6. \A k \in CacheKeys : written'[k] = IF k = k0 THEN w ELSE written[k]
  BY <1>3, <1>4
<1>7. ASSUME NEW k \in CacheKeys, written'[k] # Absent
      PROVE  /\ [response |-> written'[k].value, at |-> written'[k].at] \in served'
             /\ written'[k].value.place = <<k.latitude, k.longitude>>
  <2>1. CASE k = k0
    <3>1. written'[k] = w
      BY <1>6, <2>1
    <3> QED BY <1>2, <2>1, <3>1
  <2>2. CASE k # k0
    <3>1. written'[k] = written[k]
      BY <1>6, <2>2
    <3>2. /\ [response |-> written[k].value, at |-> written[k].at] \in served
          /\ written[k].value.place = <<k.latitude, k.longitude>>
      BY <1>7, <3>1 DEF CacheInv, CacheGenuine
    <3>3. served \subseteq served'
      OBVIOUS
    <3> QED BY <3>1, <3>2, <3>3
  <2> QED BY <2>1, <2>2
<1> QED BY <1>5, <1>7 DEF CacheInv, CacheGenuine

\* Nothing but a parsed response of the server gets into the cache.
LEMMA NextCache == CacheInv /\ [Next]_vars => CacheInv'
<1> SUFFICES ASSUME CacheInv, [Next]_vars PROVE CacheInv'
  OBVIOUS
<1> USE DEF cache
<1>1. CASE Tick \/ Done \/ UNCHANGED vars
  BY <1>1, CacheStutters DEF Tick, Done, vars, Cache!Tick
<1>2. CASE RejectPoint \/ PointHit \/ PointMiss
  BY <1>2, CacheStutters DEF RejectPoint, PointHit, PointMiss, Cache!Hit, Cache!Nothing
<1>3. CASE Acquire \/ AcquireTimesOut \/ OutOfAttempts \/ Wake
  BY <1>3, CacheStutters DEF Acquire, AcquireTimesOut, OutOfAttempts, Wake
<1>4. ASSUME NEW r \in Response \cup Failure, Send(r) PROVE CacheInv'
  <2>1. CASE UNCHANGED <<written, served>>
    BY <2>1, CacheStutters
  <2>2. ASSUME NEW parsed \in BOOLEAN, PointReceived(parsed) PROVE CacheInv'
    <3>1. CASE ~parsed
      BY <2>1, <2>2, <3>1 DEF PointReceived
    <3>2. CASE parsed
      <4>1. PICK v \in Versions :
              LET q == [place |-> Place(location), version |-> v]
              IN  /\ served' = served \cup {[response |-> q, at |-> clock]}
                  /\ IF enable_cache
                     THEN Cache!Store(CoordinateKey(location), q) \/ Cache!Nothing
                     ELSE UNCHANGED <<cache, clock>>
        BY <2>2, <3>2 DEF PointReceived
      <4> DEFINE q == [place |-> Place(location), version |-> v]
      <4>2. CASE Cache!Store(CoordinateKey(location), q)
        BY <4>1, <4>2, StoreKeeps
      <4>3. CASE written' = written
        BY <4>1, <4>3, CacheStutters
      <4> QED BY <4>1, <4>2, <4>3 DEF Cache!Nothing
    <3> QED BY <3>1, <3>2
  <2>3. ASSUME NEW parsed \in BOOLEAN, OtherReceived(parsed) PROVE CacheInv'
    BY <2>1, <2>3 DEF OtherReceived
  <2> QED BY <1>4, <2>1, <2>2, <2>3 DEF Send, Finish, Received
<1>5. ASSUME NEW m \in CalledMethods,
             NEW p \in IF m \in PointMethods THEN Locations ELSE {Absent}, Start(m, p)
      PROVE  CacheInv'
  BY <1>5, CacheStutters DEF Start
<1> QED BY <1>1, <1>2, <1>3, <1>4, <1>5 DEF Next, Step

\* The place of the call is checked before the call goes past "point".
LEMMA NextLocated == Located /\ [Next]_vars => Located'
<1> SUFFICES ASSUME Located, [Next]_vars PROVE Located'
  OBVIOUS
<1> DEFINE Asking == {"loop", "send", "asleep"}
<1>1. ASSUME UNCHANGED <<method, location>>, pc # "idle" \/ pc' = "idle",
             pc' \in Asking => pc \in Asking \/ ValidCoordinates(location)
      PROVE  Located'
  BY <1>1 DEF Located, ValidCoordinates, Number
<1> USE DEF call
<1>2. CASE Tick \/ Done \/ UNCHANGED vars
  <2>1. UNCHANGED <<method, location, pc>>
    BY <1>2 DEF Tick, Done, vars
  <2> QED BY <1>1, <2>1
<1>3. CASE RejectPoint \/ AcquireTimesOut \/ OutOfAttempts
  BY <1>1, <1>3 DEF RejectPoint, AcquireTimesOut, OutOfAttempts, Return
<1>4. CASE PointHit \/ PointMiss
  BY <1>1, <1>4 DEF PointHit, PointMiss
<1>5. CASE Acquire \/ Wake
  BY <1>1, <1>5 DEF Acquire, InLoop, Wake
<1>6. ASSUME NEW r \in Response \cup Failure, Send(r) PROVE Located'
  BY <1>1, <1>6 DEF Send
<1>7. ASSUME NEW m \in CalledMethods,
             NEW p \in IF m \in PointMethods THEN Locations ELSE {Absent}, Start(m, p)
      PROVE  Located'
  BY <1>7 DEF Start, Located
<1> QED BY <1>2, <1>3, <1>4, <1>5, <1>6, <1>7 DEF Next, Step
-----------------------------------------------------------------------------
(* The theorems.                                                           *)

\* The invariant of a client.
LEMMA Inductive == Spec => []IInv
<1>1. Init => IInv
  <2> SUFFICES ASSUME Init PROVE IInv
    OBVIOUS
  <2>1. Paid
    BY DEF Init, Paid, EveryRequestPaid
  <2>2. CacheInv
    BY DEF Init, CacheInv, CacheGenuine
  <2>3. Located
    BY DEF Init, Located
  <2> QED BY <2>1, <2>2, <2>3, InitCall DEF IInv
<1>2. IInv /\ [Next]_vars => IInv'
  BY NextCall, NextPaid, NextCache, NextLocated DEF IInv
<1> QED BY <1>1, <1>2, PTL DEF Spec

\* Every HTTP request of every method, retries included, takes a token of
\* its own, and no token is taken for a request that is not made.
THEOREM EveryRequestPaidTheorem == Spec => []EveryRequestPaid
<1>1. IInv => EveryRequestPaid
  BY DEF IInv, Paid
<1> QED BY <1>1, Inductive, PTL

\* A call makes at most max_attempts requests per step of its method, and
\* none for a place that does not exist, whatever the server answers.
THEOREM BoundedRequestsTheorem == Spec => []BoundedRequests
<1>1. IInv => BoundedRequests
  BY DEF IInv, CallInv
<1> QED BY <1>1, Inductive, PTL

\* Only what the server said of the very place is in the cache.
THEOREM CacheGenuineTheorem == Spec => []CacheGenuine
<1>1. IInv => CacheGenuine
  BY DEF IInv, CacheInv
<1> QED BY <1>1, Inductive, PTL

\* from_response and should_retry agree: an error that the policy says to
\* retry reaches the caller only after the last attempt, or because the
\* limiter timed out.
THEOREM TransientErrorsExhaustedTheorem == Spec => []TransientErrorsExhausted
<1>1. IInv => TransientErrorsExhausted
  BY DEF IInv, CallInv
<1> QED BY <1>1, Inductive, PTL

\* What PointIsFresh says of a step.
Fresh ==
    method = "get_point" /\ pc # "idle" /\ result' = Ok =>
        \E s \in served' :
            /\ s.response = point'
            /\ s.response.place = Place(location)
            /\ s.at >= began \/ (enable_cache /\ clock - s.at <= ttl)

\* A call that has not ended has no result, and an error is not a success.
LEMMA NotYetOk ==
    ASSUME IInv, result' = result \/ \E c : Return(Error(c))
    PROVE  Fresh
<1>1. pc # "idle" => result # Ok
  BY DEF IInv, CallInv, Progress, Nothing, Ok
<1>2. \A c : Error(c) # Ok
  BY DEF Error, Ok
<1> QED BY <1>1, <1>2 DEF Return, Fresh

\* A hit answers with what the server said of the place, ttl ago at most.
LEMMA HitIsFresh == IInv /\ PointHit => Fresh
<1> SUFFICES ASSUME IInv, PointHit PROVE Fresh
  OBVIOUS
<1> DEFINE k == CoordinateKey(location)
           s == [response |-> written[k].value, at |-> written[k].at]
<1>1. /\ location \in Locations /\ ValidCoordinates(location) /\ enable_cache
      /\ written[k] # Absent /\ clock - written[k].at <= ttl
      /\ point' = written[k].value /\ served' = served
  BY DEF PointHit, Cache!Hit, IInv, CallInv, Progress
<1>2. k \in CacheKeys
  BY <1>1 DEF CacheKeys, ValidLocations
<1>3. s \in served /\ written[k].value.place = <<k.latitude, k.longitude>>
  BY <1>1, <1>2 DEF IInv, CacheInv, CacheGenuine
<1>4. <<k.latitude, k.longitude>> = Place(location)
  BY DEF CoordinateKey, Place
<1>5. s.response = written[k].value /\ s.at = written[k].at
  OBVIOUS
<1> HIDE DEF k, s
<1> QED BY <1>1, <1>3, <1>4, <1>5 DEF Fresh

\* So does a request, with what the server has just said.
LEMMA SendIsFresh ==
    ASSUME IInv, NEW r \in Response \cup Failure, Send(r)
    PROVE  Fresh
<1>1. began \in Nat /\ clock \in Nat /\ began <= clock
  BY DEF IInv, CallInv, TypeInv
<1>2. CASE result' = result \/ \E c : Return(Error(c))
  BY <1>2, NotYetOk
<1>3. ASSUME NEW parsed \in BOOLEAN, PointReceived(parsed) PROVE Fresh
  <2>1. CASE ~parsed
    BY <1>2, <1>3, <2>1 DEF PointReceived
  <2>2. CASE parsed
    <3>1. PICK v \in Versions :
            LET q == [place |-> Place(location), version |-> v]
            IN  /\ point' = q
                /\ served' = served \cup {[response |-> q, at |-> clock]}
      BY <1>3, <2>2 DEF PointReceived
    <3> DEFINE q == [place |-> Place(location), version |-> v]
               s == [response |-> q, at |-> clock]
    <3>2. s \in served' /\ s.response = point' /\ s.response.place = Place(location)
      BY <3>1
    <3>3. s.at >= began
      BY <1>1
    <3> HIDE DEF s
    <3> QED BY <3>2, <3>3 DEF Fresh
  <2> QED BY <2>1, <2>2
<1>4. ASSUME NEW parsed \in BOOLEAN, OtherReceived(parsed),
             Requests(method)[request] # "get_point"
      PROVE  Fresh
  <2>1. ASSUME method = "get_point" PROVE FALSE
    <3>1. request \in 1..Len(Requests(method))
      BY DEF IInv, CallInv, TypeInv
    <3>2. Requests(method) = <<"get_point">>
      BY <2>1, RequestsFacts
    <3>3. request = 1
      BY <3>1, <3>2
    <3> QED BY <1>4, <3>2, <3>3
  <2> QED BY <2>1 DEF Fresh
<1>5. CASE TriesAgain(r) /\ result' = result
  BY <1>2, <1>5
<1>6. CASE Finish(r)
  BY <1>2, <1>3, <1>4, <1>6 DEF Finish, Received
<1> QED BY <1>5, <1>6 DEF Send

\* get_point answers for the place it was asked about, with a response the
\* server gave in this call or, with the cache on, at most ttl ago.
THEOREM PointIsFreshTheorem == Spec => PointIsFresh
<1>1. IInv /\ [Next]_vars => [Fresh]_vars
  <2> SUFFICES ASSUME IInv, Next PROVE Fresh
    OBVIOUS
  <2>1. CASE Tick \/ Done
    BY <2>1, NotYetOk DEF Tick, Done, vars
  <2>2. CASE RejectPoint \/ AcquireTimesOut \/ OutOfAttempts
    BY <2>2, NotYetOk DEF RejectPoint, AcquireTimesOut, OutOfAttempts
  <2>3. CASE PointMiss \/ Acquire \/ Wake
    BY <2>3, NotYetOk DEF PointMiss, Acquire, Wake
  <2>4. CASE PointHit
    BY <2>4, HitIsFresh
  <2>5. ASSUME NEW r \in Response \cup Failure, Send(r) PROVE Fresh
    BY <2>5, SendIsFresh
  <2>6. ASSUME NEW m \in CalledMethods,
               NEW p \in IF m \in PointMethods THEN Locations ELSE {Absent}, Start(m, p)
        PROVE  Fresh
    BY <2>6 DEF Start, Fresh
  <2> QED BY <2>1, <2>2, <2>3, <2>4, <2>5, <2>6 DEF Next, Step
<1>2. [Fresh]_vars => [method = "get_point" /\ pc # "idle" /\ result' = Ok =>
          \E s \in served' :
              /\ s.response = point'
              /\ s.response.place = Place(location)
              /\ s.at >= began \/ (enable_cache /\ clock - s.at <= ttl)]_vars
  BY DEF Fresh
<1> QED BY <1>1, <1>2, Inductive, PTL DEF Spec, PointIsFresh
-----------------------------------------------------------------------------
(* The limiter of the client.                                              *)

\* The client uses the limiter as TokenBucket allows: it waits, it takes
\* tokens, and nothing else touches the bucket.
THEOREM UsesTokenBucket == Spec => Limiter!Spec
<1>1. Init => Limiter!Init
  <2> SUFFICES ASSUME Init PROVE Limiter!Init
    OBVIOUS
  <2>1. bucket \in [capacity : Nat \ {0}, interval : Nat \ {0}, initial : Nat]
        /\ bucket.initial <= bucket.capacity
    BY BucketsAssumption DEF Init
  <2> QED BY <2>1 DEF Init, Limiter!Init, Limiter!Parameters
<1>2. [Next]_vars => [Limiter!Next]_(Limiter!vars)
  <2> SUFFICES ASSUME [Next]_vars PROVE [Limiter!Next]_(Limiter!vars)
    OBVIOUS
  <2> USE DEF limiter, cache
  <2>1. CASE Tick
    <3>1. Limiter!Observe
      BY <2>1 DEF Tick, Limiter!Observe, Limiter!ObserveAt
    <3> QED BY <3>1 DEF Limiter!Next
  <2>2. CASE Acquire
    BY <2>2 DEF Acquire, Limiter!Next
  <2>3. CASE Done \/ UNCHANGED vars
    BY <2>3 DEF Done, vars, Limiter!vars
  <2>4. CASE RejectPoint \/ PointHit \/ PointMiss
    BY <2>4 DEF RejectPoint, PointHit, PointMiss, Cache!Hit, Cache!Nothing, Limiter!vars
  <2>5. CASE AcquireTimesOut \/ OutOfAttempts \/ Wake
    BY <2>5 DEF AcquireTimesOut, OutOfAttempts, Wake, Limiter!vars
  <2>6. ASSUME NEW r \in Response \cup Failure, Send(r)
        PROVE  UNCHANGED Limiter!vars
    BY <2>6, FinishWays DEF Send, Limiter!vars
  <2>7. ASSUME NEW m \in CalledMethods,
               NEW p \in IF m \in PointMethods THEN Locations ELSE {Absent}, Start(m, p)
        PROVE  UNCHANGED Limiter!vars
    BY <2>7 DEF Start, Limiter!vars
  <2> QED BY <2>1, <2>2, <2>3, <2>4, <2>5, <2>6, <2>7 DEF Next, Step
<1> QED BY <1>1, <1>2, PTL DEF Spec, Limiter!Spec

\* The bucket's theorems, for the client's limiter.
LimiterProofs == INSTANCE TokenBucketProofs WITH time <- clock

\* Both instances of the bucket are the same specification.
LEMMA SameBucket == Limiter!Spec => LimiterProofs!Spec
<1>1. Limiter!Init => LimiterProofs!Init
  BY DEF Limiter!Init, LimiterProofs!Init, Limiter!Parameters, LimiterProofs!Parameters
<1>2. [Limiter!Next]_(Limiter!vars) => [LimiterProofs!Next]_(LimiterProofs!vars)
  BY DEF Limiter!Next, LimiterProofs!Next, Limiter!vars, LimiterProofs!vars,
         Limiter!Observe, LimiterProofs!Observe,
         Limiter!ObserveAt, LimiterProofs!ObserveAt,
         Limiter!Capped, LimiterProofs!Capped,
         Limiter!Capacity, LimiterProofs!Capacity,
         Limiter!Grant, LimiterProofs!Grant, Limiter!Reset, LimiterProofs!Reset
<1> QED BY <1>1, <1>2, PTL DEF Limiter!Spec, LimiterProofs!Spec

\* The requests of a client keep to the rate: any run of consecutive
\* requests, retries included, takes one interval per request beyond a burst
\* of the bucket's capacity.
THEOREM RequestsWithinRate == Spec => [](EveryRequestPaid /\ Limiter!BurstBound)
<1>1. LimiterProofs!BurstBound => Limiter!BurstBound
  BY DEF Limiter!BurstBound, LimiterProofs!BurstBound,
         Limiter!Capacity, LimiterProofs!Capacity
<1> QED BY <1>1, UsesTokenBucket, SameBucket, EveryRequestPaidTheorem,
           LimiterProofs!RateLimited, PTL
-----------------------------------------------------------------------------
(* The cache of the client.                                                *)

\* The methods that look up a point are those that take a location.
LEMMA PointRequest ==
    ASSUME IInv, Requests(method)[request] = "get_point"
    PROVE  method \in PointMethods
<1> SUFFICES ASSUME method \notin PointMethods PROVE FALSE
  OBVIOUS
<1>1. Requests(method) = <<method>>
  BY DEF Requests, PointMethods
<1>2. request \in 1..Len(Requests(method))
  BY DEF IInv, CallInv, TypeInv
<1>3. request = 1
  BY <1>1, <1>2
<1> QED BY <1>1, <1>3 DEF PointMethods

\* A response is stored under a key of a valid location.
LEMMA StoresPoint ==
    ASSUME IInv, pc = "send", Requests(method)[request] = "get_point",
           NEW parsed \in BOOLEAN, PointReceived(parsed)
    PROVE  [Cache!Next]_(Cache!vars)
<1>1. CASE ~parsed
  BY <1>1 DEF PointReceived, cache, Cache!vars
<1>2. CASE parsed
  <2>1. PICK v \in Versions :
          LET q == [place |-> Place(location), version |-> v]
          IN  IF enable_cache
              THEN Cache!Store(CoordinateKey(location), q) \/ Cache!Nothing
              ELSE UNCHANGED <<cache, clock>>
    BY <1>2 DEF PointReceived
  <2> DEFINE q == [place |-> Place(location), version |-> v]
  <2>2. location \in ValidLocations
    BY PointRequest DEF IInv, Located, ValidLocations
  <2>3. CoordinateKey(location) \in CacheKeys /\ q \in PointResponses
    BY <2>2 DEF CacheKeys, PointResponses
  <2> HIDE DEF q
  <2>4. CASE Cache!Store(CoordinateKey(location), q)
    BY <2>3, <2>4 DEF Cache!Next
  <2>5. CASE Cache!Nothing
    BY <2>5 DEF Cache!Next
  <2>6. CASE UNCHANGED <<cache, clock>>
    BY <2>6 DEF cache, Cache!vars
  <2> QED BY <2>1, <2>4, <2>5, <2>6 DEF q
<1> QED BY <1>1, <1>2

\* The client uses the cache as LossyStore allows: it stores responses of
\* valid locations under their keys, and nothing else touches the entries.
THEOREM UsesLossyStore == Spec => Cache!Spec
<1>1. Init => Cache!Init
  BY TTLsAssumption DEF Init, Cache!Init
<1>2. IInv /\ [Next]_vars => [Cache!Next]_(Cache!vars)
  <2> SUFFICES ASSUME IInv, [Next]_vars PROVE [Cache!Next]_(Cache!vars)
    OBVIOUS
  <2>1. CASE Tick
    BY <2>1 DEF Tick, Cache!Next
  <2>2. CASE Done \/ UNCHANGED vars
    BY <2>2 DEF Done, vars, cache, Cache!vars
  <2>3. CASE PointHit
    <3>1. location \in ValidLocations
      BY <2>3 DEF PointHit, IInv, CallInv, Progress, ValidLocations
    <3>2. CoordinateKey(location) \in CacheKeys
      BY <3>1 DEF CacheKeys
    <3> QED BY <2>3, <3>2 DEF PointHit, Cache!Next
  <2>4. CASE PointMiss
    BY <2>4 DEF PointMiss, Cache!Next, cache, Cache!vars
  <2>5. CASE RejectPoint \/ AcquireTimesOut \/ OutOfAttempts \/ Wake
    BY <2>5 DEF RejectPoint, AcquireTimesOut, OutOfAttempts, Wake, cache, Cache!vars
  <2>6. CASE Acquire
    BY <2>6 DEF Acquire, Limiter!Grant, cache, Cache!vars
  <2>7. ASSUME NEW r \in Response \cup Failure, Send(r)
        PROVE  [Cache!Next]_(Cache!vars)
    <3>1. pc = "send"
      BY <2>7 DEF Send
    <3>2. CASE UNCHANGED <<cache, clock>>
      BY <3>2 DEF cache, Cache!vars
    <3>3. ASSUME NEW parsed \in BOOLEAN, Received(parsed)
          PROVE  [Cache!Next]_(Cache!vars)
      <4>1. CASE Requests(method)[request] = "get_point"
        BY <3>1, <3>3, <4>1, StoresPoint DEF Received
      <4>2. CASE Requests(method)[request] # "get_point"
        BY <3>2, <3>3, <4>2 DEF Received, OtherReceived
      <4> QED BY <4>1, <4>2
    <3> QED BY <2>7, <3>2, <3>3 DEF Send, Finish
  <2>8. ASSUME NEW m \in CalledMethods,
               NEW p \in IF m \in PointMethods THEN Locations ELSE {Absent}, Start(m, p)
        PROVE  UNCHANGED Cache!vars
    BY <2>8 DEF Start, cache, Cache!vars
  <2> QED BY <2>1, <2>2, <2>3, <2>4, <2>5, <2>6, <2>7, <2>8 DEF Next, Step
<1> QED BY <1>1, <1>2, Inductive, PTL DEF Spec, Cache!Spec
-----------------------------------------------------------------------------
(* Types.                                                                  *)

Results == {Nothing, Ok} \cup {Error(c) : c \in ErrorCodes}

\* What TypeOK says beyond TypeInv and the limiter's own types.
Types ==
    /\ max_wait \in BOOLEAN
    /\ enable_cache \in BOOLEAN
    /\ ttl \in Int
    /\ written \in [CacheKeys -> Cache!Write \cup {Absent}]
    /\ answer \in PointResponses \cup {Absent}
    /\ method \in Methods
    /\ location \in Locations \cup {Absent}
    /\ point \in PointResponses \cup {Absent}
    /\ result \in Results
    /\ calls \in Nat
    /\ served \subseteq [response : PointResponses, at : Nat]

\* The code chosen for a status is an error code, and so is that of a failure.
LEMMA CodeTypes ==
    /\ \A status : from_response(status) \in ErrorCodes
    /\ \A r \in Failure : r.code \in ErrorCodes
<1>1. ASSUME NEW status PROVE from_response(status) \in ErrorCodes
  BY DEF from_response, ErrorCodes
<1>2. ASSUME NEW r \in Failure PROVE r.code \in ErrorCodes
  BY <1>2, CodesAssumption DEF Failure, ErrorCodes
<1> QED BY <1>1, <1>2

\* A step within a call that leaves the cache and the history alone.
LEMMA TypesKept ==
    ASSUME Types, UNCHANGED <<config, cache, method, location, calls, served>>,
           point' \in PointResponses \cup {Absent}, result' \in Results
    PROVE  Types'
BY DEF Types, config, cache, CacheKeys, PointResponses, Cache!Write, Results

\* Proceed returns Ok or nothing yet.
LEMMA ProceedTypes ==
    ASSUME Types, Proceed
    PROVE  result' \in Results
BY DEF Types, Proceed, Return, Results

\* A point that is received is recorded, and may be stored, as a response.
LEMMA PointTypes ==
    ASSUME IInv, Types, pc = "send", Requests(method)[request] = "get_point",
           UNCHANGED <<config, method, location, calls>>,
           NEW parsed \in BOOLEAN, PointReceived(parsed)
    PROVE  Types'
<1>1. CASE ~parsed
  <2>1. Error("ParseError") \in Results
    BY DEF Results, ErrorCodes
  <2> QED BY <1>1, <2>1, TypesKept DEF PointReceived, Return, Types
<1>2. CASE parsed
  <2>1. PICK v \in Versions :
          LET q == [place |-> Place(location), version |-> v]
          IN  /\ point' = q
              /\ served' = served \cup {[response |-> q, at |-> clock]}
              /\ IF enable_cache
                 THEN Cache!Store(CoordinateKey(location), q) \/ Cache!Nothing
                 ELSE UNCHANGED <<cache, clock>>
              /\ Proceed
    BY <1>2 DEF PointReceived
  <2> DEFINE q == [place |-> Place(location), version |-> v]
             k0 == CoordinateKey(location)
             w == [value |-> q, at |-> clock]
  <2>2. location \in ValidLocations
    BY PointRequest DEF IInv, Located, ValidLocations
  <2>3. k0 \in CacheKeys /\ q \in PointResponses
    BY <2>2 DEF CacheKeys, PointResponses
  <2>4. clock \in Nat
    BY DEF IInv, CallInv, TypeInv
  <2> HIDE DEF q, k0
  <2>5. w \in Cache!Write /\ [response |-> q, at |-> clock] \in [response : PointResponses, at : Nat]
    BY <2>3, <2>4 DEF Cache!Write
  <2>6. served' \subseteq [response : PointResponses, at : Nat]
    BY <2>1, <2>5 DEF Types, q
  <2>7. ttl' = ttl /\ answer' \in PointResponses \cup {Absent}
    BY <2>1 DEF Types, Cache!Store, Cache!Nothing, cache
  <2> HIDE DEF w
  <2>8. written' = written \/ written' = [written EXCEPT ![k0] = w]
    BY <2>1 DEF Cache!Store, Cache!Nothing, cache, q, k0, w
  <2>9. written' \in [CacheKeys -> Cache!Write \cup {Absent}]
    BY <2>3, <2>5, <2>8 DEF Types
  <2>10. point' \in PointResponses \cup {Absent} /\ result' \in Results
    BY <2>1, <2>3, ProceedTypes DEF q
  <2> QED BY <2>6, <2>7, <2>9, <2>10
          DEF Types, config, CacheKeys, PointResponses, Cache!Write, Results
<1> QED BY <1>1, <1>2

\* Types are kept by every step of a client.
LEMMA NextTypes == IInv /\ Types /\ [Next]_vars => Types'
<1> SUFFICES ASSUME IInv, Types, [Next]_vars PROVE Types'
  OBVIOUS
<1>1. /\ Nothing \in Results /\ Ok \in Results
      /\ \A c \in ErrorCodes : Error(c) \in Results
      /\ {"InvalidRequest", "RateLimited", "NetworkError", "ParseError", "NotFound"}
             \subseteq ErrorCodes
  BY DEF Results, ErrorCodes
<1>2. point \in PointResponses \cup {Absent} /\ result \in Results
  BY DEF Types
<1> USE DEF call
<1>3. CASE Tick \/ Done \/ UNCHANGED vars
  BY <1>2, <1>3, TypesKept DEF Tick, Done, vars, Cache!Tick, cache
<1>4. CASE RejectPoint \/ AcquireTimesOut \/ OutOfAttempts
  BY <1>1, <1>2, <1>4, TypesKept DEF RejectPoint, AcquireTimesOut, OutOfAttempts, Return
<1>5. CASE PointHit
  <2>1. CoordinateKey(location) \in CacheKeys
    <3>1. location \in ValidLocations
      BY <1>5 DEF PointHit, IInv, CallInv, Progress, ValidLocations
    <3> QED BY <3>1 DEF CacheKeys
  <2>2. answer' \in PointResponses
    BY <1>5, <2>1 DEF PointHit, Types, Cache!Hit, Cache!Write
  <2>3. result' \in Results
    BY <1>5, ProceedTypes DEF PointHit
  <2> QED BY <1>5, <2>2, <2>3
          DEF PointHit, Types, Cache!Hit, config, CacheKeys, PointResponses, Cache!Write, Results
<1>6. CASE PointMiss
  BY <1>6 DEF PointMiss, Types, Cache!Nothing, cache, config, CacheKeys, PointResponses,
              Cache!Write, Results
<1>7. CASE Acquire \/ Wake
  BY <1>2, <1>7, TypesKept DEF Acquire, Wake
<1>8. ASSUME NEW r \in Response \cup Failure, Send(r) PROVE Types'
  <2>1. pc = "send" /\ UNCHANGED <<config, method, location, calls>>
    BY <1>8 DEF Send
  <2>2. ASSUME UNCHANGED <<point, served, cache, clock>>, result' \in Results
        PROVE  Types'
    BY <1>2, <2>1, <2>2, TypesKept
  <2>3. ASSUME NEW parsed \in BOOLEAN, Received(parsed) PROVE Types'
    <3>1. CASE Requests(method)[request] = "get_point"
      BY <2>1, <2>3, <3>1, PointTypes DEF Received
    <3>2. CASE Requests(method)[request] # "get_point"
      BY <1>1, <2>2, <2>3, <3>2, ProceedTypes DEF Received, OtherReceived, Return
    <3> QED BY <3>1, <3>2
  <2>4. CASE TriesAgain(r)
    BY <1>2, <1>8, <2>2, <2>4 DEF Send
  <2>5. CASE ~TriesAgain(r)
    <3>1. Finish(r)
      BY <1>8, <2>5 DEF Send
    <3>2. CASE r.kind = "response" /\ r.status = 200
      BY <2>3, <3>1, <3>2 DEF Finish
    <3>3. CASE r.kind = "response" /\ r.status # 200
      BY <1>1, <2>2, <3>1, <3>3, CodeTypes DEF Finish, Return
    <3>4. CASE r.kind = "error"
      <4>1. r \in Failure
        BY <3>4 DEF Response
      <4> QED BY <1>1, <2>2, <3>1, <3>4, <4>1, CodeTypes DEF Finish, Return
    <3> QED BY <3>1, <3>2, <3>3, <3>4 DEF Finish
  <2> QED BY <2>4, <2>5
<1>9. ASSUME NEW m \in CalledMethods,
             NEW p \in IF m \in PointMethods THEN Locations ELSE {Absent}, Start(m, p)
      PROVE  Types'
  <2>1. m \in Methods /\ p \in Locations \cup {Absent}
    BY MethodsAssumption
  <2> QED BY <1>1, <1>9, <2>1
          DEF Start, Types, cache, config, CacheKeys, PointResponses, Cache!Write, Results
<1> QED BY <1>3, <1>4, <1>5, <1>6, <1>7, <1>8, <1>9 DEF Next, Step

\* Every member of a client keeps its type, the bucket its credit within
\* capacity, and the cache holds nothing but responses of valid locations.
THEOREM TypeCorrect == Spec => []TypeOK
<1>1. Init => Types
  <2> SUFFICES ASSUME Init PROVE Types
    OBVIOUS
  <2>1. "get_point" \in Methods
    BY DEF Methods, PointMethods
  <2>2. written \in [CacheKeys -> Cache!Write \cup {Absent}]
    BY DEF Init
  <2>3. ttl \in Int
    BY TTLsAssumption DEF Init
  <2> QED BY <2>1, <2>2, <2>3 DEF Init, Types, Results
<1>2. LimiterProofs!TypeOK => Limiter!TypeOK
  BY DEF Limiter!TypeOK, LimiterProofs!TypeOK, Limiter!Parameters,
         LimiterProofs!Parameters, Limiter!Capacity, LimiterProofs!Capacity
<1>3. IInv /\ Types /\ Limiter!TypeOK => TypeOK
  BY DEF IInv, CallInv, TypeInv, Paid, Types, TypeOK, Results
<1> QED BY <1>1, <1>2, <1>3, NextTypes, Inductive, UsesTokenBucket, SameBucket,
           LimiterProofs!TypeCorrect, PTL
        DEF Spec
=============================================================================
