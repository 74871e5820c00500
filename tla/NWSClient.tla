----------------------------- MODULE NWSClient -----------------------------
(***************************************************************************)
(* nws::NWSClient: every method is a series of GET requests, each made     *)
(* through with_retry around the rate limiter and the HTTP client; point   *)
(* lookups go through the cache first.  A client is used by one thread.    *)
(*                                                                         *)
(* The limiter and the cache appear as what they promise: TokenBucket,     *)
(* which RateLimiter.tla implements, and LossyStore, which LruCache.tla    *)
(* implements.  They read the same steady clock.                           *)
(***************************************************************************)
EXTENDS RetryPolicy, Sequences

CONSTANTS
    Locations,              \* latitude and longitude arguments of the methods
    NaN, NegZero,           \* a double that is not finite, and -0.0
    CalledMethods,          \* the methods an instance calls
    Policies,               \* config.retry
    Buckets,                \* TokenBucket parameters for config.rate_limit
    TTLs,                   \* config.cache.ttl
    Versions,               \* what a server may say of a location
    Absent,                 \* std::nullopt
    MaxTime,                \* bound: the clock stops here unless a call waits
    MaxCalls                \* bound: calls made

ErrorCodes ==
    {"NetworkError", "RateLimited", "ServerError", "NotFound", "InvalidRequest",
     "ParseError", "Unknown"}

\* The errors HttpClient::get returns.
ASSUME CodesAssumption == Codes \subseteq {"NetworkError", "InvalidRequest"}
ASSUME PoliciesAssumption == Policies \subseteq RetryPolicies
ASSUME BucketsAssumption ==
    /\ Buckets \subseteq [capacity : Nat \ {0}, interval : Nat \ {0}, initial : Nat]
    /\ \A b \in Buckets : b.initial <= b.capacity
ASSUME TTLsAssumption == TTLs \subseteq Int
ASSUME BoundsAssumption == MaxTime \in Nat /\ MaxCalls \in Nat

\* The doubles compare as numbers: -0.0 equals 0.0.
Number(d) == IF d = NegZero THEN 0 ELSE d

\* Mutant of ValidCoordinates: the range is not checked.
ValidCoordinatesFinite(p) == p.latitude # NaN /\ p.longitude # NaN

ValidCoordinates(p) ==
    /\ p.latitude # NaN /\ p.longitude # NaN
    /\ Number(p.latitude) \in -90..90
    /\ Number(p.longitude) \in -180..180

\* A representative of the keys equal to that of p.
CoordinateKey(p) == [latitude |-> Number(p.latitude), longitude |-> Number(p.longitude)]

\* Where p is, to the server.
Place(p) == <<Number(p.latitude), Number(p.longitude)>>

ValidLocations == {p \in Locations : ValidCoordinates(p)}
CacheKeys == {CoordinateKey(p) : p \in ValidLocations}
PointResponses ==
    [place : {Place(p) : p \in ValidLocations}, version : Versions]

VARIABLES
    policy, max_wait, enable_cache,     \* members: retry_policy, the limiter's
                                        \* max_wait (set or not), points_cache
    clock,
    bucket, credit, grants,             \* the limiter
    ttl, written, answer,               \* the cache
    method, location,                   \* the call in progress
    pc,         \* "idle", "point", "loop", "send" or "asleep"
    request,    \* which request of the method
    attempt,    \* with_retry's counter
    point,      \* the PointResponse the call is working with
    result,     \* what the latest call returned
    calls,      \* calls made
    sent,       \* history: HTTP requests of this call
    total,      \* history: HTTP requests of all calls
    served,     \* history: point responses the server has sent, and when
    began       \* history: when the latest call began

config == <<policy, max_wait, enable_cache>>
cache == <<ttl, written, answer>>
limiter == <<bucket, credit, grants>>
call == <<method, location, began>>
vars == <<config, clock, limiter, cache, call, pc, request, attempt, point,
          result, calls, sent, total, served>>

Limiter == INSTANCE TokenBucket WITH time <- clock
Cache == INSTANCE LossyStore WITH Keys <- CacheKeys, Values <- PointResponses

\* The methods, by the requests they make: those that take a location look up
\* its point first; the others build a path and make one request.
PointMethods == {"get_point", "get_forecast_for_location", "get_current_weather"}
GridpointMethods ==
    {"get_gridpoint", "get_forecast", "get_forecast_hourly", "get_gridpoint_stations"}
StationMethods == {"get_station", "get_observations", "get_latest_observation"}
AlertMethods ==
    {"get_alerts", "get_active_alerts", "get_active_alert_count",
     "get_active_alerts_by_area", "get_active_alerts_by_zone", "get_alert",
     "get_alert_types"}
ZoneMethods == {"get_zone", "get_zone_forecast", "get_glossary"}
ProductMethods == {"get_latest_product", "get_product"}

Methods ==
    PointMethods \cup GridpointMethods \cup StationMethods \cup AlertMethods
        \cup ZoneMethods \cup ProductMethods

ASSUME MethodsAssumption == CalledMethods \subseteq Methods

Requests(m) ==
    CASE m = "get_point" -> <<"get_point">>
      [] m = "get_forecast_for_location" -> <<"get_point", "get_forecast">>
      [] m = "get_current_weather" ->
             <<"get_point", "get_gridpoint_stations", "get_latest_observation">>
      [] OTHER -> <<m>>

Nothing == [kind |-> "none"]
Ok == [kind |-> "ok"]
Error(code) == [kind |-> "error", code |-> code]

Init ==
    /\ policy \in Policies
    /\ max_wait \in BOOLEAN
    /\ enable_cache \in BOOLEAN
    /\ clock = 0
    /\ bucket \in Buckets
    /\ credit = bucket.initial * bucket.interval
    /\ grants = <<>>
    /\ ttl \in TTLs
    /\ written = [k \in CacheKeys |-> Absent]
    /\ answer = Absent
    /\ method = "get_point"
    /\ location = Absent
    /\ pc = "idle"
    /\ request = 1
    /\ attempt = 1
    /\ point = Absent
    /\ result = Nothing
    /\ calls = 0
    /\ sent = 0
    /\ total = 0
    /\ served = {}
    /\ began = 0

(***************************************************************************)
(* The clock.  Past MaxTime it runs only while a call waits for a token.   *)
(***************************************************************************)
Tick ==
    /\ clock < MaxTime \/ (pc = "loop" /\ credit < bucket.interval)
    /\ Limiter!ObserveAt(clock + 1)
    /\ Cache!Tick
    /\ UNCHANGED <<config, call, pc, request, attempt, point, result, calls, sent,
                   total, served>>
-----------------------------------------------------------------------------
(* A call.                                                                 *)

Start(m, p) ==
    /\ pc = "idle"
    /\ calls < MaxCalls
    /\ calls' = calls + 1
    /\ method' = m
    /\ location' = p
    /\ began' = clock
    /\ pc' = IF m \in PointMethods THEN "point" ELSE "loop"
    /\ request' = 1
    /\ attempt' = 1
    /\ point' = Absent
    /\ result' = Nothing
    /\ sent' = 0
    /\ UNCHANGED <<config, clock, limiter, cache, total, served>>

Return(r) ==
    /\ pc' = "idle"
    /\ result' = r
    /\ UNCHANGED <<request, attempt>>

\* The request succeeded: make the method's next one, if any.
Proceed ==
    IF request = Len(Requests(method)) THEN Return(Ok)
    ELSE /\ pc' = "loop"
         /\ request' = request + 1
         /\ attempt' = 1
         /\ UNCHANGED result

RejectPoint ==
    /\ pc = "point"
    /\ ~ValidCoordinates(location)
    /\ Return(Error("InvalidRequest"))
    /\ UNCHANGED <<config, clock, limiter, cache, call, point, calls, sent, total, served>>

\* Mutant of PointHit: an entry is good however old it is.
PointHitStale ==
    /\ pc = "point"
    /\ ValidCoordinates(location)
    /\ enable_cache
    /\ written[CoordinateKey(location)] # Absent
    /\ answer' = written[CoordinateKey(location)].value
    /\ point' = answer'
    /\ Proceed
    /\ UNCHANGED <<config, clock, limiter, ttl, written, call, calls, sent, total, served>>

PointHit ==
    /\ pc = "point"
    /\ ValidCoordinates(location)
    /\ enable_cache
    /\ Cache!Hit(CoordinateKey(location))
    /\ point' = answer'
    /\ Proceed
    /\ UNCHANGED <<config, limiter, call, calls, sent, total, served>>

PointMiss ==
    /\ pc = "point"
    /\ ValidCoordinates(location)
    /\ IF enable_cache THEN Cache!Nothing ELSE UNCHANGED <<cache, clock>>
    /\ pc' = "loop"
    /\ UNCHANGED <<config, limiter, call, request, attempt, point, result, calls,
                   sent, total, served>>
-----------------------------------------------------------------------------
(* do_get: with_retry around acquire and HttpClient::get.                  *)

InLoop == pc = "loop" /\ attempt <= policy.max_attempts

\* Mutant of Acquire: the last token is never given out.
AcquireLeavesOne ==
    /\ InLoop
    /\ credit >= 2 * bucket.interval
    /\ Limiter!Grant
    /\ pc' = "send"
    /\ UNCHANGED <<config, cache, call, request, attempt, point, result, calls, sent,
                   total, served>>

Acquire ==
    /\ InLoop
    /\ Limiter!Grant
    /\ pc' = "send"
    /\ UNCHANGED <<config, cache, call, request, attempt, point, result, calls, sent,
                   total, served>>

\* with_retry does not retry the error acquire's timeout turns into, and
\* body_or_error passes it on.
AcquireTimesOut ==
    /\ InLoop
    /\ max_wait
    /\ credit < bucket.interval
    /\ Return(Error("RateLimited"))
    /\ UNCHANGED <<config, clock, limiter, cache, call, point, calls, sent, total, served>>

OutOfAttempts ==
    /\ pc = "loop"
    /\ attempt > policy.max_attempts
    /\ Return(Error("NetworkError"))
    /\ UNCHANGED <<config, clock, limiter, cache, call, point, calls, sent, total, served>>

TriesAgain(r) == should_retry(r, policy) /\ attempt < policy.max_attempts

\* Mutant of from_response: 503 is a server error.
FromResponse503(status) ==
    CASE status = 404 -> "NotFound"
      [] status = 400 -> "InvalidRequest"
      [] status = 429 -> "RateLimited"
      [] status \in 500..599 -> "ServerError"
      [] OTHER -> "Unknown"

\* Error::from_response: the code it chooses.
from_response(status) ==
    CASE status = 404 -> "NotFound"
      [] status = 400 -> "InvalidRequest"
      [] status \in {503, 429} -> "RateLimited"
      [] status \in (500..599) \ {503} -> "ServerError"
      [] OTHER -> "Unknown"

\* Mutant of PointReceived: the response is cached before it is parsed.
PointReceivedUnparsed(parsed) ==
    \E v \in Versions :
        LET r == [place |-> Place(location), version |-> v]
        IN  /\ IF enable_cache
               THEN Cache!Store(CoordinateKey(location), r) \/ Cache!Nothing
               ELSE UNCHANGED <<cache, clock>>
            /\ IF parsed THEN /\ point' = r
                              /\ served' = served \cup {[response |-> r, at |-> clock]}
                              /\ Proceed
               ELSE Return(Error("ParseError")) /\ UNCHANGED <<point, served>>

\* The rest of get_point after a 200: parse, then cache.
PointReceived(parsed) ==
    IF ~parsed THEN Return(Error("ParseError")) /\ UNCHANGED <<point, served, cache, clock>>
    ELSE \E v \in Versions :
        LET r == [place |-> Place(location), version |-> v]
        IN  /\ point' = r
            /\ served' = served \cup {[response |-> r, at |-> clock]}
            /\ IF enable_cache
               THEN Cache!Store(CoordinateKey(location), r) \/ Cache!Nothing
               ELSE UNCHANGED <<cache, clock>>
            /\ Proceed

\* The same for the other requests.  get_current_weather stops when there is
\* no station.
OtherReceived(parsed) ==
    /\ \/ ~parsed /\ Return(Error("ParseError"))
       \/ parsed /\ Proceed
       \/ /\ parsed
          /\ method = "get_current_weather"
          /\ Requests(method)[request] = "get_gridpoint_stations"
          /\ Return(Error("NotFound"))
    /\ UNCHANGED <<point, served, cache, clock>>

Received(parsed) ==
    IF Requests(method)[request] = "get_point"
    THEN PointReceived(parsed) ELSE OtherReceived(parsed)

\* body_or_error, and what the method does with a body.
Finish(r) ==
    \/ /\ r.kind = "response" /\ r.status = 200
       /\ \E parsed \in BOOLEAN : Received(parsed)
    \/ /\ r.kind = "response" /\ r.status # 200
       /\ Return(Error(from_response(r.status)))
       /\ UNCHANGED <<point, served, cache, clock>>
    \/ /\ r.kind = "error"
       /\ Return(Error(r.code))
       /\ UNCHANGED <<point, served, cache, clock>>

\* HttpClient::get returns.
Send(r) ==
    /\ pc = "send"
    /\ sent' = sent + 1
    /\ total' = total + 1
    /\ \/ /\ TriesAgain(r)
          /\ pc' = "asleep"
          /\ UNCHANGED <<request, attempt, result, point, served, cache, clock>>
       \/ ~TriesAgain(r) /\ Finish(r)
    /\ UNCHANGED <<config, limiter, call, calls>>

\* Mutant of Wake: the retry reuses the token.
WakeKeepsToken ==
    /\ pc = "asleep"
    /\ pc' = "send"
    /\ attempt' = (attempt + 1) % (UINT8_MAX + 1)
    /\ UNCHANGED <<config, clock, limiter, cache, call, request, point, result, calls,
                   sent, total, served>>

\* sleep_for returns, and the loop goes on.
Wake ==
    /\ pc = "asleep"
    /\ pc' = "loop"
    /\ attempt' = (attempt + 1) % (UINT8_MAX + 1)
    /\ UNCHANGED <<config, clock, limiter, cache, call, request, point, result, calls,
                   sent, total, served>>
-----------------------------------------------------------------------------
Step ==
    \/ RejectPoint \/ PointHit \/ PointMiss
    \/ Acquire \/ AcquireTimesOut \/ OutOfAttempts \/ Wake
    \/ \E r \in Response \cup Failure : Send(r)

\* The bounds are used up.
Done == clock >= MaxTime /\ UNCHANGED vars

Next ==
    \/ Tick
    \/ Done
    \/ Step
    \/ \E m \in CalledMethods :
           \E p \in IF m \in PointMethods THEN Locations ELSE {Absent} : Start(m, p)

Spec == Init /\ [][Next]_vars

\* Time passes, requests and sleeps end.
FairSpec == Spec /\ WF_vars(Tick) /\ WF_vars(Step)
-----------------------------------------------------------------------------
(* Properties.                                                             *)

\* Type correctness.
TypeOK ==
    /\ policy \in RetryPolicies
    /\ max_wait \in BOOLEAN
    /\ enable_cache \in BOOLEAN
    /\ Limiter!TypeOK
    /\ ttl \in Int
    /\ written \in [CacheKeys -> Cache!Write \cup {Absent}]
    /\ answer \in PointResponses \cup {Absent}
    /\ method \in Methods
    /\ location \in Locations \cup {Absent}
    /\ pc \in {"idle", "point", "loop", "send", "asleep"}
    /\ request \in 1..Len(Requests(method))
    /\ attempt \in 1..UINT8_MAX
    /\ point \in PointResponses \cup {Absent}
    /\ result \in {Nothing, Ok} \cup {Error(c) : c \in ErrorCodes}
    /\ calls \in Nat
    /\ sent \in Nat
    /\ total \in Nat
    /\ served \subseteq [response : PointResponses, at : Nat]
    /\ began \in Nat

\* Every HTTP request of every method, retries included, took a token of its
\* own, and no token is taken for a request that is not made.
EveryRequestPaid == Len(grants) = total + (IF pc = "send" THEN 1 ELSE 0)

\* A call makes at most max_attempts requests per step of its method, and
\* none at all when the coordinates are invalid.
BoundedRequests ==
    /\ sent <= Len(Requests(method)) * policy.max_attempts
    /\ location # Absent /\ Place(location) \notin (-90..90) \X (-180..180) => sent = 0

\* Only what a server said of the very place is in the cache: no error, no
\* response that could not be parsed, no neighbour's answer.
CacheGenuine ==
    \A k \in CacheKeys : written[k] # Absent =>
        /\ [response |-> written[k].value, at |-> written[k].at] \in served
        /\ written[k].value.place = <<k.latitude, k.longitude>>

\* get_point answers for the place it was asked about, with a response the
\* server gave in this call or, with the cache on, at most ttl ago.
PointIsFresh ==
    [][method = "get_point" /\ pc # "idle" /\ result' = Ok =>
          \E s \in served' :
              /\ s.response = point'
              /\ s.response.place = Place(location)
              /\ s.at >= began \/ (enable_cache /\ clock - s.at <= ttl)]_vars

\* The codes of from_response and the decisions of should_retry agree: an
\* error that the policy says to retry reaches the caller only after the
\* last attempt, or because the limiter timed out.
TransientErrorsExhausted ==
    pc = "idle" /\ result.kind = "error" =>
        /\ result.code = "ServerError" /\ policy.retry_on_server_error
               => attempt = policy.max_attempts
        /\ result.code = "RateLimited" /\ policy.retry_on_rate_limit
               => attempt = policy.max_attempts \/ max_wait
        /\ result.code = "NetworkError" /\ policy.retry_on_network_error
               => attempt >= policy.max_attempts

\* Every call returns.
EveryCallReturns == pc # "idle" ~> pc = "idle"
=============================================================================
