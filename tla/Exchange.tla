------------------------------ MODULE Exchange ------------------------------
(***************************************************************************)
(* The data of an exchange with the service.  A caller keeps one object of *)
(* some kind.  It calls methods, whose arguments become the target of a    *)
(* request; the bodies of answers, good and bad ones, are deserialized     *)
(* into the object, one after the other; from a point and from a list of   *)
(* stations follow-up requests are made; a quantity is converted from unit *)
(* to unit.  How requests are sent, retried and cached is in NWSClient.    *)
(***************************************************************************)
EXTENDS Models, FiniteSets

CONSTANTS
    Kinds,          \* the kinds of objects
    Bodies(_),      \* the bodies a service may answer a kind's request with
    Calls,          \* method calls, with their arguments
    NoRequest,      \* no request is under way
    NoBody,         \* the object has not been filled yet
    MaxConversions  \* bound on the conversions of one quantity

VARIABLES
    kind,           \* the kind of the caller's object
    out,            \* the object
    last,           \* history: the last body that was accepted
    request,        \* the request under way, and what was asked for
    conversions     \* conversions since the object was filled

exchange_vars == <<kind, out, last, request, conversions>>

Q == INSTANCE Query

feature(of) == [shape |-> "feature", of |-> of]
collection(of) == [shape |-> "collection", of |-> of]
plain(of) == [shape |-> "plain", of |-> of]

\* The kind of object a method returns.
Returns ==
    [get_point |-> feature("point"),
     get_gridpoint |-> feature("gridpoint"),
     get_forecast |-> feature("forecast"),
     get_forecast_hourly |-> feature("forecast"),
     get_gridpoint_stations |-> collection("station"),
     get_station |-> feature("station"),
     get_observations |-> collection("observation"),
     get_latest_observation |-> feature("observation"),
     get_alerts |-> collection("alert"),
     get_active_alerts |-> collection("alert"),
     get_active_alert_count |-> plain("active_count"),
     get_active_alerts_by_area |-> collection("alert"),
     get_active_alerts_by_zone |-> collection("alert"),
     get_alert |-> feature("alert"),
     get_alert_types |-> plain("alert_types"),
     get_zone |-> feature("zone"),
     get_zone_forecast |-> plain("zone_forecast"),
     get_glossary |-> plain("glossary"),
     get_latest_product |-> plain("product"),
     get_product |-> plain("product")]
-----------------------------------------------------------------------------
ExchangeInit ==
    /\ kind \in Kinds
    /\ out = New(kind)
    /\ last = NoBody
    /\ request = NoRequest
    /\ conversions = 0

\* asked: the arguments the service should see, None when there are none to
\* compare with.
Send(method, args, asked) ==
    /\ request = NoRequest
    /\ request' = [method |-> method, target |-> Q!target(method, args), asked |-> asked]
    /\ UNCHANGED <<kind, out, last, conversions>>

ValidCoordinates(args) == args.latitude \in -90 .. 90 /\ args.longitude \in -180 .. 180

\* A method with the caller's arguments, which is all the target depends on.
\* get_point sends nothing for coordinates off the globe.
Call(c) ==
    /\ Returns[c.method] = kind
    /\ c.method = "get_point" => ValidCoordinates(c.args)
    /\ last = NoBody
    /\ Send(c.method, c.args, c.args)

\* The grid cell the body of a point names, if it does.
CellOf(body, units) ==
    LET props == find_object(body, "properties")
        x == find(props, "gridX", "num")
        y == find(props, "gridY", "num")
    IN  IF find(props, "gridId", "str") # Missing /\ x # Missing /\ y # Missing
           /\ InRange(x.num) /\ InRange(y.num)
        THEN [wfo |-> get_string(props, "gridId"), x |-> Truncated(x.num),
              y |-> Truncated(y.num), units |-> units]
        ELSE None

\* get_forecast_for_location and get_current_weather, once they have a point.
FollowPoint(method, units) ==
    /\ kind = feature("point")
    /\ last # NoBody
    /\ Send(method,
            [wfo |-> out.properties.grid_id, x |-> out.properties.grid_x,
             y |-> out.properties.grid_y, units |-> units],
            CellOf(last, units))

\* The station the body's first feature names, if it does.
FirstStation(body) ==
    LET first == find_array(body, "features").arr[1]
        id == find(find_object(first, "properties"), "stationIdentifier", "str")
    IN  IF id = Missing THEN None ELSE [station_id |-> id.str]

\* get_current_weather, once it has the stations near the point.
FollowStations ==
    /\ kind = collection("station")
    /\ last # NoBody
    /\ out.features # <<>>
    /\ Send("get_latest_observation",
            [station_id |-> out.features[1].properties.station_identifier],
            FirstStation(last))

\* A body arrives, for the request under way or for one made elsewhere.
Answer(body) ==
    /\ out' = deserialize(kind, body, out)
    /\ last' = IF Rejected(kind, body) THEN last ELSE body
    /\ conversions' = IF Rejected(kind, body) THEN conversions ELSE 0
    /\ request' = NoRequest
    /\ UNCHANGED kind

Convert(unit) ==
    /\ kind = plain("quantity")
    /\ last # NoBody
    /\ conversions < MaxConversions
    /\ conversions' = conversions + 1
    /\ out' = converted_to(out, unit)
    /\ UNCHANGED <<kind, last, request>>

ExchangeNext ==
    \/ \E c \in Calls : Call(c)
    \/ \E u \in {None, "si", "us"} : FollowPoint("get_forecast", u)
    \/ FollowPoint("get_gridpoint_stations", None)
    \/ FollowStations
    \/ \E b \in Bodies(kind) : Answer(b)
    \/ \E u \in Unit : Convert(u)

ExchangeSpec == ExchangeInit /\ [][ExchangeNext]_exchange_vars
-----------------------------------------------------------------------------
(* Properties.                                                             *)

\* Whatever bytes the arguments of a method hold, the service reads exactly
\* them out of the request: no value runs into its neighbours, is split or is
\* decoded to another, and nothing is sent for what is not set.  A follow-up
\* request asks for the very cell or station the body before it names.
RequestAsRead ==
    request # NoRequest /\ request.asked # None =>
        Q!ReadTarget(request.target) = Q!Asked(request.method, request.asked)

\* A successful parse replaces the object: whatever it held before, and
\* however many bodies were rejected since, it is now what a new object
\* would be after the last accepted body alone.
ReplacesDestination ==
    last # NoBody /\ conversions = 0 => out = deserialize(kind, last, New(kind))

\* The members that are read together count as one.
Group(f) ==
    CASE f \in {"latitude", "longitude"} -> "position"
      [] f \in {"unit", "unit_code"} -> "unit"
      [] OTHER -> f

Differing(a, b) == {Group(f) : f \in {x \in DOMAIN a : a[x] # b[x]}}

\* The keys under which two objects of a body differ.
DifferingKeys(a, b) ==
    {k \in DOMAIN a.obj \cup DOMAIN b.obj : lookup(a, k) # lookup(b, k)}

\* The keys whose numbers are read as doubles, which hold any of them.
Doubles == {"value", "minValue", "maxValue", "latitude", "longitude"}

\* A null, and a number whose whole part no int32_t can hold.
Unusable(node, key) ==
    \/ node = Null
    \/ /\ Is(node, "num")
       /\ key \notin Doubles
       /\ node.num >= (INT32_MAX + 1) * Scale \/ node.num <= -(INT32_MAX + 2) * Scale

\* The keys of a point, a gridpoint and the counts that are read as integers.
IntKeys == {"gridX", "gridY", "total", "land", "marine"}

\* A whole number that an int32_t holds, and that is not the default.
Usable(node, key) ==
    /\ key \in IntKeys
    /\ Is(node, "num")
    /\ \E i \in (-INT32_MAX - 1 .. INT32_MAX) \ {0} : node.num = i * Scale

\* One has no value under the key, the other an unusable one.
SameAsAbsent(a, b, key) ==
    \/ a = Missing /\ Unusable(b, key)
    \/ b = Missing /\ Unusable(a, key)

\* What one key of two nodes may change in the members read from them.
Contained(a, b, x, y) ==
    Cardinality(DifferingKeys(a, b)) = 1 =>
        LET k == CHOOSE k \in DifferingKeys(a, b) : TRUE
        IN  /\ Cardinality(Differing(x, y)) <= 1
            /\ SameAsAbsent(lookup(a, k), lookup(b, k), k) => x = y
            /\ lookup(a, k) = Missing /\ Usable(lookup(b, k), k) => x # y

Comparable(body) == body # NoBody /\ IsJson(body) /\ Is(body, "obj")

\* Damage is contained.  Two bodies that differ in one key give objects that
\* differ in one member; a null, or a number an int32_t cannot hold, reads as
\* if the key were absent, and every whole number it can hold does not, up to
\* both bounds; one element of a list makes no difference to the others.
DamageContained ==
    [][Comparable(last) /\ Comparable(last') /\ conversions = 0 /\ conversions' = 0 =>
        CASE kind.shape = "feature" ->
                LET a == find_object(last, "properties")
                    b == find_object(last', "properties")
                IN  IF DifferingKeys(last, last') = {"properties"} /\ a # Missing /\ b # Missing
                    THEN /\ Differing(out, out') \subseteq {"properties"}
                         /\ Contained(a, b, out.properties, out'.properties)
                    ELSE kind # feature("radar_station") => Contained(last, last', out, out')
          [] kind.shape = "collection" ->
                LET a == Elements(last, "features")
                    b == Elements(last', "features")
                IN  Len(a) = Len(b) =>
                        \A i \in DOMAIN a : a[i] = b[i] => out.features[i] = out'.features[i]
          [] kind.shape = "plain" /\ kind.of \notin {"alert_types", "iem_cli"} ->
                "properties" \notin DifferingKeys(last, last') => Contained(last, last', out, out')
          [] OTHER -> TRUE]_exchange_vars

\* The radar stations of the last answer, each with the object read from it.
RadarStations ==
    CASE kind = feature("radar_station") -> {<<last, out>>}
      [] kind = collection("radar_station") ->
            {<<Elements(last, "features")[i], out.features[i]>> : i \in DOMAIN out.features}
      [] OTHER -> {}


\* Equal but for what the conversion factors, which are rounded to five or
\* six digits, and the fixed point cost.
Close(a, b) ==
    LET size == IF b < 0 THEN -b ELSE b
    IN  a - b \in -(size \div 20000) - 3 .. (size \div 20000) + 3

\* Conversions agree: after a chain of converted_to the value and its
\* bounds are what Measurement::to makes of the parsed ones in one step, and
\* where a chain gets through there is a direct conversion.  So the bounds
\* stay in the unit of the value they bound.
ConversionsAgree ==
    kind = plain("quantity") /\ last # NoBody =>
        LET origin == deserialize(kind, last, New(kind))
        IN  \A f \in {"value", "min_value", "max_value"} :
                LET direct == to([value |-> origin[f], unit |-> origin.unit], out.unit).value
                IN  /\ out[f] # None => direct # None /\ Close(out[f], direct)
                    /\ out[f] = None /\ origin[f] # None => out.value = None
=============================================================================
