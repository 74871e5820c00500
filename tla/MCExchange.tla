----------------------------- MODULE MCExchange -----------------------------
(***************************************************************************)
(* An instance of Exchange: for every kind of object two complete bodies   *)
(* and the ways in which one of them may be damaged, for every method      *)
(* calls with every sort of character in the arguments.                    *)
(***************************************************************************)
EXTENDS Exchange

CONSTANTS EachFeature, EachCollection, EachPlain

MCKinds ==
    {feature(of) : of \in EachFeature} \cup {collection(of) : of \in EachCollection}
    \cup {plain(of) : of \in EachPlain}
-----------------------------------------------------------------------------
(* Complete bodies, in two versions.                                       *)

Huge == Num((INT32_MAX + 1) * Scale)

\* Around both bounds of an int32_t.
Extremes == {Num(n * Scale) : n \in {INT32_MIN - 1, INT32_MIN, INT32_MAX}}

Quantity(v) ==
    Obj([unitCode |-> Str(<<"wmoUnit:m">>), value |-> Num(v * Scale),
         qualityControl |-> Str(<<"V">>)])

\* Every second text of a list is null, and so left out.
Sample(sort, key, v) ==
    CASE sort \in {"string", "optional"} -> Str(<<key, ToString(v)>>)
      [] sort = "int" -> Num(v * Scale + Scale \div 2)
      [] sort = "strings" -> Arr(<<Str(<<key>>), Null, Str(<<ToString(v)>>)>>)
      [] sort = "quantity" -> Quantity(v)
      [] sort = "layer" ->
            Obj([uom |-> Str(<<"wmoUnit:degC">>),
                 values |-> Arr(<<Obj([validTime |-> Str(<<key>>), value |-> Num(v)]),
                                  Obj([value |-> Null])>>)])

\* An object with a value under each key of a table.
Samples(members, v) ==
    LET sorts == {s \in DOMAIN members : members[s] # <<>>}
        keys(s) == {members[s][f] : f \in DOMAIN members[s]}
        sortOf(k) == CHOOSE s \in sorts : k \in keys(s)
    IN  [k \in UNION {keys(s) : s \in sorts} |-> Sample(sortOf(k), k, v)]

Point(v) == Obj([type |-> Str(<<"Point">>), coordinates |-> Arr(<<Num(v), Num(-v)>>)])

Ring1 == Arr(<<Arr(<<Num(1), Num(2)>>), Arr(<<Num(3)>>), Null, Arr(<<Num(5), Null>>)>>)

Geometries ==
    {Point(1), Point(2), Null,
     Obj([type |-> Str(<<"Point">>), coordinates |-> Arr(<<Num(1)>>)]),
     Obj([type |-> Str(<<"Polygon">>), coordinates |-> Arr(<<Ring1, Null, Arr(<<>>)>>)]),
     Obj([type |-> Str(<<"Polygon">>)]), Obj([type |-> Str(<<"LineString">>)])}

Props(of, v) ==
    CASE of = "alert" ->
            [geocode |-> Obj(Samples(GeocodeMembers, v)),
             status |-> Str(<<IF v = 1 THEN "Test" ELSE "Other">>),
             messageType |-> Str(<<"Update">>), severity |-> Str(<<"Severe">>),
             certainty |-> Str(<<"Likely">>), urgency |-> Str(<<"Future">>)]
            @@ Samples(AlertMembers, v)
      [] of = "observation" ->
            [cloudLayers |-> Arr(<<Obj([base |-> Quantity(v), amount |-> Str(<<"FEW">>)]),
                                   Obj([base |-> Null])>>)]
            @@ Samples(ObservationMembers, v)
      [] of = "station" ->
            [stationIdentifier |-> Str(<<"K", "/", "%", ToString(v)>>)]
            @@ Samples(StationMembers, v)
      [] of = "zone" -> Samples(ZoneMembers, v)
      [] of = "sigmet" -> Samples(SigmetMembers, v)
      [] of = "cwa" -> Samples(CWAMembers, v)
      [] of = "radar_station" ->
            [latitude |-> Num(10 * v), longitude |-> Num(20 * v)] @@ Samples(RadarMembers, v)
      [] of = "point" ->
            [gridId |-> Str(<<"L", "?", ToString(v)>>),
             relativeLocation |-> Obj([geometry |-> Point(v),
                                       properties |-> Obj(Samples(LocationMembers, v))])]
            @@ Samples(PointMembers, v)
      [] of = "gridpoint" -> Samples(GridpointMembers, v)
      [] of = "forecast" ->
            [periods |-> Arr(<<Obj([isDaytime |-> Bool(FALSE), windSpeed |-> Quantity(v)]
                                   @@ Samples(PeriodMembers, v)),
                               Obj([windSpeed |-> Str(<<"5 mph">>), number |-> Huge]),
                               Null>>)]
            @@ Samples(ForecastMembers, v)

Whole(of, v) ==
    [id |-> Str(<<"id", ToString(v)>>), type |-> Str(<<"Feature">>), geometry |-> Point(v),
     properties |-> Obj(Props(of, v))]
-----------------------------------------------------------------------------
(* Damage: a key is absent, null, a number too large, an integer at its     *)
(* bounds, or is another's.                                                *)

Without(o, key) == [k \in DOMAIN o \ {key} |-> o[k]]

Damaged(o, other) ==
    {Obj(o), Obj(other)}
    \cup UNION {{Obj(Without(o, k)), Obj([o EXCEPT ![k] = Null]), Obj([o EXCEPT ![k] = Huge]),
                 Obj([o EXCEPT ![k] = other[k]])} : k \in DOMAIN o}
    \cup {Obj([o EXCEPT ![k] = n]) : k \in DOMAIN o \cap IntKeys, n \in Extremes}

With(o, key, nodes) == {Obj([o EXCEPT ![key] = n]) : n \in nodes}

FeatureBodies(of) ==
    LET one == Whole(of, 1)
    IN  {Obj(one), Obj(Whole(of, 2))}
        \cup {Obj(Without(one, k)) : k \in DOMAIN one}
        \cup {Obj([one EXCEPT ![k] = Null]) : k \in DOMAIN one}
        \cup With(one, "geometry", Geometries)
        \cup With(one, "properties", Damaged(Props(of, 1), Props(of, 2)))

\* A radar station with one, both or none of its coordinates inline, and with
\* or without a geometry.
RadarBodies ==
    LET props == Props("radar_station", 1)
        half == {props, Without(props, "latitude"), Without(props, "longitude"),
                 Without(Without(props, "latitude"), "longitude")}
    IN  UNION {{Obj([Whole("radar_station", 1) EXCEPT !.properties = Obj(p), !.geometry = g])
                    : g \in Geometries} : p \in half}

CollectionBodies(of) ==
    LET one == Obj(Whole(of, 1))
        two == Obj(Whole(of, 2))
        list(features) == Obj([type |-> Str(<<"FeatureCollection">>), features |-> Arr(features)])
    IN  {list(<<>>), list(<<one>>), list(<<two, one>>), Obj([features |-> Null])}
        \cup {list(<<one, x>>) : x \in
                {one, two, Null, Obj([properties |-> Null, geometry |-> Point(3)])}}

Zones(v) == [zone |-> Arr(<<Str(<<"Z", ToString(v)>>), Huge>>),
             periods |-> Arr(<<Obj(Samples(ZonePeriodMembers, v)), Obj([number |-> Huge])>>)]

Counts(v) ==
    [regions |-> Obj([AL |-> Num(v * Scale), GL |-> Huge, PA |-> Null]), areas |-> Null,
     zones |-> Obj([ANZ |-> Num(v * Scale)])]
    @@ Samples(ActiveCountMembers, v)

Row(day) == Obj([station |-> Str(<<"KNYC">>), valid |-> Str(day), date |-> Str(<<"then">>),
                 high |-> Num(5), low |-> Null])

Quantities ==
    ("wmoUnit:degC" :> -40) @@ ("wmoUnit:degF" :> 59) @@ ("wmoUnit:K" :> 288)
    @@ ("wmoUnit:km_h-1" :> 30) @@ ("wmoUnit:m_s-1" :> 30) @@ ("wmoUnit:kt" :> 30)
    @@ ("wmoUnit:mi_h-1" :> 30) @@ ("wmoUnit:m" :> 16000) @@ ("wmoUnit:km" :> 16)
    @@ ("unit:mi" :> 10) @@ ("wmoUnit:Pa" :> 101325) @@ ("wmoUnit:mbar" :> 1013)
    @@ ("wmoUnit:hPa" :> 1013) @@ ("wmoUnit:mm" :> 100) @@ ("unit:in" :> 4)
    @@ ("wmoUnit:cm" :> 10) @@ ("wmoUnit:degree_(angle)" :> 180) @@ ("wmoUnit:percent" :> 50)
    @@ ("furlong" :> 1)

Bounded(code) ==
    LET v == Quantities[code] * Scale
    IN  [unitCode |-> Str(<<code>>), value |-> Num(v), minValue |-> Num(v \div 2),
         maxValue |-> Num(v + v \div 2), qualityControl |-> Str(<<"V">>)]

Problem(v) ==
    [title |-> Str(<<"title", ToString(v)>>), detail |-> Str(<<"detail", ToString(v)>>),
     correlationId |-> Str(<<"id", ToString(v)>>)]

PlainBodies(of) ==
    CASE of \in DOMAIN PlainMembers ->
            Damaged(Samples(PlainMembers[of], 1), Samples(PlainMembers[of], 2))
      [] of = "active_count" -> Damaged(Counts(1), Counts(2))
      [] of = "alert_types" ->
            {Obj([eventTypes |-> n]) : n \in {Null, Arr(<<Str(<<"A">>), Null>>), Arr(<<>>)}}
      [] of = "zone_forecast" ->
            Damaged(Zones(1), Zones(2)) \cup {Obj([properties |-> Obj(Zones(v))]) : v \in {1, 2}}
      [] of = "glossary" ->
            {Obj([glossary |-> n]) : n \in
                {Null, Arr(<<>>), Arr(<<Obj(Samples(TermMembers, 1)), Null>>),
                 Arr(<<Obj(Samples(TermMembers, 2))>>)}}
      [] of = "iem_cli" ->
            {Obj([results |-> Arr(<<Row(<<"day">>), Null, Row(<<>>)>>)]),
             Obj([data |-> Arr(<<Row(<<"day">>)>>), results |-> Null]), Obj([results |-> Null])}
      [] of \in Problems -> Damaged(Problem(1), Problem(2)) \cup With(Problem(1), "title", {Str(<<>>)})
      [] of = "quantity" ->
            {Obj(Bounded(c)) : c \in DOMAIN Quantities}
            \cup Damaged(Bounded("wmoUnit:degC"), Bounded("wmoUnit:K"))

MCBodies(k) ==
    {Malformed, NoText, Null, Obj([unknown |-> Null])}
    \cup CASE k = feature("radar_station") -> FeatureBodies(k.of) \cup RadarBodies
           [] k.shape = "feature" /\ k.of # "radar_station" -> FeatureBodies(k.of)
           [] k.shape = "collection" -> CollectionBodies(k.of)
           [] k.shape = "plain" -> PlainBodies(k.of)
-----------------------------------------------------------------------------
(* Calls.                                                                  *)

\* An argument with every sort of character, and one that looks like an escape.
Awkward ==
    <<"a", " ", "%", "b", "&", "+", "c", ",", "/", ":", "=", "?", "byte FF">>
Escape == <<"%", "2", "6">>

CallOf(method, args) == [method |-> method, args |-> args]

\* The parameters with some of them set.
Setting(names, values) ==
    values @@ [n \in Q!ToSet(names) |-> None]

\* A list may hold anything but a comma inside an element.
Value(name, v) ==
    CASE name \in Q!VectorParams -> (CASE v = 1 -> <<Escape, <<"b", "&">>>> [] v = 2 -> <<>>)
      [] name \in Q!IntegerParams -> v
      [] OTHER -> IF v = 1 THEN Awkward ELSE <<>>

Settings(names) ==
    {Setting(names, <<>>), Setting(names, [n \in Q!ToSet(names) |-> Value(n, 1)])}
    \cup {Setting(names, (n :> Value(n, v)) @@ (m :> Value(m, 1))) :
            n \in Q!ToSet(names), m \in Q!ToSet(names), v \in {1, 2}}

Cell(text, units) == [wfo |-> text, x |-> 0, y |-> -1, units |-> units]

MCCalls ==
    {CallOf(m, [station_id |-> t, area |-> t, zone_id |-> t, id |-> t, type |-> Escape,
                type_id |-> t, location_id |-> Escape, product_id |-> t,
                wfo |-> t, x |-> 2, y |-> -1, units |-> u]) :
        m \in DOMAIN Returns \ {"get_point", "get_observations", "get_alerts",
                                "get_active_alerts"},
        t \in {Awkward, Escape}, u \in {None, "si", "us"}}
    \cup {CallOf("get_point", [latitude |-> lat, longitude |-> -180]) : lat \in {0, 90, 91}}
    \cup {CallOf("get_observations", [station_id |-> Escape, params |-> p]) :
            p \in Settings(Q!ObservationsParams)}
    \cup {CallOf(m, [params |-> p]) :
            m \in {"get_alerts", "get_active_alerts"}, p \in Settings(Q!AlertsParams)}
=============================================================================
