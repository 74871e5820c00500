------------------------------- MODULE Query -------------------------------
(***************************************************************************)
(* Request targets: encode_query_value, the query builders of NWSClient    *)
(* and the paths of its methods.  A text is a sequence of characters; a    *)
(* word of letters, digits, '-', '.', '_' and '~', which no part of the    *)
(* code takes apart, may stand in it as one character.                     *)
(***************************************************************************)
EXTENDS Integers, Sequences, SequencesExt, TLC

CONSTANTS
    None            \* std::nullopt

\* The bytes outside the unreserved set that occur in arguments.
Code ==
    [c \in {" ", "%", "&", "+", ",", "/", ":", "=", "?", "byte FF"} |->
        CASE c = " " -> 32 [] c = "%" -> 37 [] c = "&" -> 38 [] c = "+" -> 43
          [] c = "," -> 44 [] c = "/" -> 47 [] c = ":" -> 58 [] c = "=" -> 61
          [] c = "?" -> 63 [] c = "byte FF" -> 255]

hex == <<"0", "1", "2", "3", "4", "5", "6", "7", "8", "9", "A", "B", "C", "D", "E", "F">>

unreserved(c) == c \notin DOMAIN Code

\* Mutant of encode_query_value: '+' is left as it is.
EncodeKeepsPlus(value) ==
    FlattenSeq([i \in DOMAIN value |->
        IF unreserved(value[i]) \/ value[i] = "+" THEN <<value[i]>>
        ELSE <<"%", hex[(Code[value[i]] \div 16) + 1], hex[(Code[value[i]] % 16) + 1]>>])

encode_query_value(value) ==
    FlattenSeq([i \in DOMAIN value |->
        IF unreserved(value[i]) THEN <<value[i]>>
        ELSE <<"%", hex[(Code[value[i]] \div 16) + 1], hex[(Code[value[i]] % 16) + 1]>>])

\* std::to_string: digits and a sign.
to_string(n) == <<ToString(n)>>
-----------------------------------------------------------------------------
(* The query.                                                              *)

NoQuery == [query |-> <<>>, has_params |-> FALSE]

\* elements, separated by commas.
Joined(elements) ==
    FlattenSeq([i \in DOMAIN elements |->
        IF i = 1 THEN elements[i] ELSE <<",">> \o elements[i]])

append_text(q, key, text) ==
    [query |-> q.query \o <<IF q.has_params THEN "&" ELSE "?", key, "=">> \o text,
     has_params |-> TRUE]

append_param(q, key, value) == append_text(q, key, encode_query_value(value))

append_vector_param(q, key, values) ==
    IF values = <<>> THEN q
    ELSE append_text(q, key, Joined([i \in DOMAIN values |-> encode_query_value(values[i])]))

\* The parameters of a request, in the order they are appended.
ObservationsParams == <<"start", "end", "limit", "cursor">>
AlertsParams ==
    <<"status", "message_type", "event", "code", "area", "point", "region", "zone",
      "urgency", "severity", "certainty", "limit", "cursor">>
VectorParams == {"status", "area", "region", "zone"}
IntegerParams == {"limit"}

append_optional(q, key, value) ==
    CASE value = None -> q
      [] value # None /\ key \in VectorParams -> append_vector_param(q, key, value)
      [] value # None /\ key \in IntegerParams -> append_param(q, key, to_string(value))
      [] OTHER -> append_param(q, key, value)

build_query(names, params) ==
    FoldLeft(LAMBDA q, key : append_optional(q, key, params[key]), NoQuery, names).query

build_observations_query(params) == build_query(ObservationsParams, params)

build_alerts_query(params) == build_query(AlertsParams, params)

\* The unit system of a forecast, if one is asked for.
units_query(units) == IF units = None THEN <<>> ELSE <<"?", "units", "=", units>>
-----------------------------------------------------------------------------
(***************************************************************************)
(* The paths.  Each segment is a fixed word, an argument, which is encoded *)
(* as a query value is, or two numbers joined by a comma.                  *)
(***************************************************************************)
Word(w) == [word |-> w]
Arg(a) == [arg |-> a]
Pair(a, b) == [pair |-> <<a, b>>]

Grid == <<Word("gridpoints"), Arg("wfo"), Pair("x", "y")>>

Route ==
    [get_point |-> <<Word("points"), Pair("latitude", "longitude")>>,
     get_gridpoint |-> Grid,
     get_forecast |-> Append(Grid, Word("forecast")),
     get_forecast_hourly |-> Grid \o <<Word("forecast"), Word("hourly")>>,
     get_gridpoint_stations |-> Append(Grid, Word("stations")),
     get_station |-> <<Word("stations"), Arg("station_id")>>,
     get_observations |-> <<Word("stations"), Arg("station_id"), Word("observations")>>,
     get_latest_observation |->
        <<Word("stations"), Arg("station_id"), Word("observations"), Word("latest")>>,
     get_alerts |-> <<Word("alerts")>>,
     get_active_alerts |-> <<Word("alerts"), Word("active")>>,
     get_active_alert_count |-> <<Word("alerts"), Word("active"), Word("count")>>,
     get_active_alerts_by_area |->
        <<Word("alerts"), Word("active"), Word("area"), Arg("area")>>,
     get_active_alerts_by_zone |->
        <<Word("alerts"), Word("active"), Word("zone"), Arg("zone_id")>>,
     get_alert |-> <<Word("alerts"), Arg("id")>>,
     get_alert_types |-> <<Word("alerts"), Word("types")>>,
     get_zone |-> <<Word("zones"), Arg("type"), Arg("zone_id")>>,
     get_zone_forecast |-> <<Word("zones"), Arg("type"), Arg("zone_id"), Word("forecast")>>,
     get_glossary |-> <<Word("glossary")>>,
     get_latest_product |->
        <<Word("products"), Word("types"), Arg("type_id"), Word("locations"),
          Arg("location_id"), Word("latest")>>,
     get_product |-> <<Word("products"), Arg("product_id")>>]

Segment(s, args, Encode(_)) ==
    CASE "word" \in DOMAIN s -> <<s.word>>
      [] "arg" \in DOMAIN s -> Encode(args[s.arg])
      [] "pair" \in DOMAIN s -> to_string(args[s.pair[1]]) \o <<",">> \o to_string(args[s.pair[2]])

\* What a method appends to its path.
query_of(method, args) ==
    CASE method \in {"get_forecast", "get_forecast_hourly"} -> units_query(args.units)
      [] method = "get_observations" -> build_observations_query(args.params)
      [] method \in {"get_alerts", "get_active_alerts"} -> build_alerts_query(args.params)
      [] OTHER -> <<>>

\* The target of the request a method sends.
target(method, args) ==
    FlattenSeq([i \in DOMAIN Route[method] |->
        <<"/">> \o Segment(Route[method][i], args, encode_query_value)])
        \o query_of(method, args)
-----------------------------------------------------------------------------
(***************************************************************************)
(* The server's side: a target is taken apart at '?', '&', '=' and '/',    *)
(* and only then are the escapes undone.  In a query '+' is a blank.       *)
(***************************************************************************)
Split(text, sep) ==
    FoldLeft(LAMBDA parts, c :
                IF c = sep THEN Append(parts, <<>>)
                ELSE [parts EXCEPT ![Len(parts)] = Append(@, c)],
             << <<>> >>, text)

Digit(c) == SelectInSeq(hex, LAMBDA d : d = c) - 1

\* The byte two hexadecimal digits stand for.
Unescape(hi, lo) == CHOOSE c \in DOMAIN Code : Code[c] = 16 * Digit(hi) + Digit(lo)

\* escape: the characters of the escape being read, none outside of one.
Decode(text) ==
    FoldLeft(LAMBDA d, c :
                CASE Len(d.escape) = 2 ->
                        [text |-> Append(d.text, Unescape(d.escape[2], c)), escape |-> <<>>]
                  [] Len(d.escape) = 1 \/ (d.escape = <<>> /\ c = "%") ->
                        [d EXCEPT !.escape = Append(@, c)]
                  [] OTHER -> [d EXCEPT !.text = Append(@, c)],
             [text |-> <<>>, escape |-> <<>>], text).text

Blanks(text) == [i \in DOMAIN text |-> IF text[i] = "+" THEN " " ELSE text[i]]

\* The segments and the parameters of a target.
ReadTarget(t) ==
    LET halves == Split(t, "?")
        pairs == IF Len(halves) = 1 THEN {}
                 ELSE {Split(p, "=") : p \in ToSet(Split(halves[2], "&"))}
    IN  [path |-> [i \in DOMAIN Split(halves[1], "/") |-> Decode(Split(halves[1], "/")[i])],
         params |-> {<<p[1], [i \in 1 .. Len(p) - 1 |-> Decode(Blanks(p[i + 1]))]>> : p \in pairs}]

\* What the caller means: the arguments as they are, a list as its elements
\* separated by commas, nothing for what is not set and for an empty list.
Meant(key, value) ==
    CASE key \in VectorParams -> Joined(value)
      [] key \in IntegerParams -> to_string(value)
      [] OTHER -> value

Set(names, params) ==
    {<< <<key>>, <<Meant(key, params[key])>> >> : key \in
        {k \in ToSet(names) : params[k] # None /\ (k \in VectorParams => params[k] # <<>>)}}

Asked(method, args) ==
    [path |-> << <<>> >> \o [i \in DOMAIN Route[method] |->
                                Segment(Route[method][i], args, LAMBDA a : a)],
     params |->
        CASE method \in {"get_forecast", "get_forecast_hourly"} ->
                IF args.units = None THEN {} ELSE {<< <<"units">>, <<<<args.units>>>> >>}
          [] method = "get_observations" -> Set(ObservationsParams, args.params)
          [] method \in {"get_alerts", "get_active_alerts"} -> Set(AlertsParams, args.params)
          [] OTHER -> {}]
=============================================================================
