------------------------------- MODULE Models -------------------------------
(***************************************************************************)
(* The deserializers of nws/models: each fills a C++ object from a parsed  *)
(* JSON tree.  An object is a record of its members.  For the members that *)
(* are read one by one a table gives the JSON key of each, by the getter   *)
(* that reads it; the others are added where they are read.                *)
(***************************************************************************)
EXTENDS GlazeDetail

CONSTANTS
    Malformed,      \* a body that is not JSON
    NoText          \* the empty body, which is not JSON either

(* Members read by get_string, get_optional_string, get_int,               *)
(* get_string_array, as a quantity and as a gridpoint layer.               *)
NoMembers ==
    [string |-> <<>>, optional |-> <<>>, int |-> <<>>, strings |-> <<>>,
     quantity |-> <<>>, layer |-> <<>>]

Fill(table, value) == [f \in DOMAIN table |-> value]

\* The object a table describes, default-constructed.
Fresh(members) ==
    Fill(members.string, <<>>) @@ Fill(members.optional, None) @@ Fill(members.int, 0)
    @@ Fill(members.strings, <<>>) @@ Fill(members.quantity, QuantitativeValue)
    @@ Fill(members.layer, None)

\* A quantity is left as it is when its key holds no object.
parse_qv_field(node, key, qv) == parse_quantitative_value(find_object(node, key), qv)

Elements(node, key) ==
    LET list == find_array(node, key) IN IF list = Missing THEN <<>> ELSE list.arr

\* The loop over a list: every element is read into a fresh object.
Each(nodes, Read(_, _), fresh) ==
    FoldLeft(LAMBDA done, n : Append(done, Read(n, fresh)), <<>>, nodes)

GridpointLayer == [uom |-> <<>>, unit |-> "Unknown", values |-> <<>>]

TimeValue(node, tv) ==
    [valid_time |-> get_string(node, "validTime"), value |-> get_optional_double(node, "value")]

populate_layer(node) ==
    [uom |-> get_string(node, "uom"),
     unit |-> parse_unit_code(get_string(node, "uom")),
     values |-> Each(Elements(node, "values"), TimeValue, None)]

maybe_layer(node, key, layer) ==
    LET child == find_object(node, key)
    IN  IF child = Missing THEN layer ELSE populate_layer(child)

\* Read the members of the table out of node into the object p.
Read(members, node, p) ==
    [f \in DOMAIN members.string |-> get_string(node, members.string[f])]
    @@ [f \in DOMAIN members.optional |-> get_optional_string(node, members.optional[f])]
    @@ [f \in DOMAIN members.int |-> get_int(node, members.int[f])]
    @@ [f \in DOMAIN members.strings |-> get_string_array(node, members.strings[f])]
    @@ [f \in DOMAIN members.quantity |-> parse_qv_field(node, members.quantity[f], p[f])]
    @@ [f \in DOMAIN members.layer |-> maybe_layer(node, members.layer[f], p[f])]
    @@ p
-----------------------------------------------------------------------------
(* GeoJSON features and collections.                                       *)

GeoJsonFeature(properties) ==
    [id |-> <<>>, type |-> <<"Feature">>, geometry |-> NoGeometry, properties |-> properties]

GeoJsonFeatureCollection == [type |-> <<"FeatureCollection">>, features |-> <<>>]

OrDefault(text, default) == IF text = <<>> THEN default ELSE text

Feature(root, r, Populate(_, _)) ==
    LET geometry == find_object(root, "geometry")
        properties == find_object(root, "properties")
    IN  [id |-> get_string(root, "id"),
         type |-> OrDefault(get_string(root, "type"), <<"Feature">>),
         geometry |-> IF geometry = Missing THEN r.geometry ELSE parse_geometry(geometry),
         properties |-> IF properties = Missing THEN r.properties
                        ELSE Populate(properties, r.properties)]

Collection(root, ReadFeature(_, _), fresh) ==
    [type |-> OrDefault(get_string(root, "type"), <<"FeatureCollection">>),
     features |-> Each(Elements(root, "features"), ReadFeature, fresh)]
-----------------------------------------------------------------------------
(* Stations, zones, aviation.                                              *)

StationMembers ==
    [NoMembers EXCEPT
        !.string = [id |-> "@id", station_identifier |-> "stationIdentifier", name |-> "name",
                    time_zone |-> "timeZone", forecast_url |-> "forecast",
                    county_url |-> "county", fire_weather_zone_url |-> "fireWeatherZone"],
        !.quantity = [elevation |-> "elevation"]]

populate_station_properties(props, p) == Read(StationMembers, props, p)

populate_station_response(root, r) == Feature(root, r, populate_station_properties)

ZoneMembers ==
    [NoMembers EXCEPT
        !.string = [id |-> "@id", type |-> "@type", name |-> "name", state |-> "state"],
        !.strings = [forecast_offices |-> "forecastOffices",
                     observation_stations |-> "observationStations"]]

populate_zone_properties(props, p) == Read(ZoneMembers, props, p)

populate_zone_feature(root, r) == Feature(root, r, populate_zone_properties)

SigmetMembers ==
    [NoMembers EXCEPT
        !.string = [id |-> "id", atsu |-> "atsu", sequence |-> "sequence",
                    phenomenon |-> "phenomenon", valid_time_from |-> "validTimeFrom",
                    valid_time_to |-> "validTimeTo"]]

populate_sigmet_properties(props, p) == Read(SigmetMembers, props, p)

populate_sigmet_feature(root, r) == Feature(root, r, populate_sigmet_properties)

CWAMembers ==
    [NoMembers EXCEPT
        !.string = [id |-> "id", cwsu |-> "cwsu", sequence |-> "sequence", text |-> "text",
                    valid_time_from |-> "validTimeFrom", valid_time_to |-> "validTimeTo"]]

populate_cwa_properties(props, p) == Read(CWAMembers, props, p)

populate_cwa_feature(root, r) == Feature(root, r, populate_cwa_properties)
-----------------------------------------------------------------------------
(* Alerts.                                                                 *)

\* A text that names one of the values, or the value that stands for others.
Named(text, values, other) ==
    IF \E v \in values : text = <<v>> THEN text[1] ELSE other

parse_alert_severity(s) == Named(s, {"Extreme", "Severe", "Moderate", "Minor"}, "Unknown")
parse_alert_certainty(s) == Named(s, {"Observed", "Likely", "Possible", "Unlikely"}, "Unknown")
parse_alert_urgency(s) == Named(s, {"Immediate", "Expected", "Future", "Past"}, "Unknown")
parse_alert_status(s) == Named(s, {"Exercise", "System", "Test", "Draft"}, "Actual")
parse_alert_message_type(s) == Named(s, {"Update", "Cancel", "Ack", "Error"}, "Alert")

AlertMembers ==
    [NoMembers EXCEPT
        !.string = [id |-> "id", area_desc |-> "areaDesc", sent |-> "sent",
                    effective |-> "effective", expires |-> "expires", category |-> "category",
                    event |-> "event", sender |-> "sender", sender_name |-> "senderName",
                    description |-> "description", response |-> "response"],
        !.optional = [onset |-> "onset", ends |-> "ends", headline |-> "headline",
                      instruction |-> "instruction"],
        !.strings = [affected_zones |-> "affectedZones"]]

GeocodeMembers == [NoMembers EXCEPT !.strings = [ugc |-> "UGC", same |-> "SAME"]]

AlertProperties ==
    [geocode |-> Fresh(GeocodeMembers), status |-> "Actual", message_type |-> "Alert",
     severity |-> "Unknown", certainty |-> "Unknown", urgency |-> "Unknown"]
    @@ Fresh(AlertMembers)

populate_alert_properties(props, p) ==
    LET geocode == find_object(props, "geocode")
    IN  [geocode |-> IF geocode = Missing THEN p.geocode
                     ELSE Read(GeocodeMembers, geocode, p.geocode),
         status |-> parse_alert_status(get_string(props, "status")),
         message_type |-> parse_alert_message_type(get_string(props, "messageType")),
         severity |-> parse_alert_severity(get_string(props, "severity")),
         certainty |-> parse_alert_certainty(get_string(props, "certainty")),
         urgency |-> parse_alert_urgency(get_string(props, "urgency"))]
        @@ Read(AlertMembers, props, p)

populate_alert_feature(root, r) == Feature(root, r, populate_alert_properties)

ActiveCountMembers ==
    [NoMembers EXCEPT !.int = [total |-> "total", land |-> "land", marine |-> "marine"]]

AlertActiveCount ==
    [regions |-> <<>>, areas |-> <<>>, zones |-> <<>>] @@ Fresh(ActiveCountMembers)

\* The numbers of a map that fit are added to it; the others are left out.
populate_string_int_map(parent, key, map) ==
    LET obj == find_object(parent, key)
        fits == IF obj = Missing THEN {}
                ELSE {k \in DOMAIN obj.obj : Is(obj.obj[k], "num") /\ InRange(obj.obj[k].num)}
    IN  [k \in fits |-> Truncated(obj.obj[k].num)] @@ map

populate_active_count(root, out) ==
    [f \in {"regions", "areas", "zones"} |-> populate_string_int_map(root, f, out[f])]
    @@ Read(ActiveCountMembers, root, out)

\* get_alert_types
alert_types(root, out) == get_string_array(root, "eventTypes")
-----------------------------------------------------------------------------
(* Observations.                                                           *)

ObservationMembers ==
    [NoMembers EXCEPT
        !.string = [id |-> "@id", station_url |-> "station", station_id |-> "stationId",
                    station_name |-> "stationName", timestamp |-> "timestamp",
                    raw_message |-> "rawMessage", text_description |-> "textDescription",
                    icon |-> "icon"],
        !.quantity = [elevation |-> "elevation", temperature |-> "temperature",
                      dewpoint |-> "dewpoint", wind_direction |-> "windDirection",
                      wind_speed |-> "windSpeed", wind_gust |-> "windGust",
                      barometric_pressure |-> "barometricPressure",
                      sea_level_pressure |-> "seaLevelPressure", visibility |-> "visibility",
                      relative_humidity |-> "relativeHumidity", wind_chill |-> "windChill",
                      heat_index |-> "heatIndex",
                      precipitation_last_hour |-> "precipitationLastHour",
                      precipitation_last_3_hours |-> "precipitationLast3Hours",
                      precipitation_last_6_hours |-> "precipitationLast6Hours",
                      max_temperature_last_24_hours |-> "maxTemperatureLast24Hours",
                      min_temperature_last_24_hours |-> "minTemperatureLast24Hours"]]

ObservationProperties == [cloud_layers |-> <<>>] @@ Fresh(ObservationMembers)

CloudLayer == [base |-> QuantitativeValue, amount |-> <<>>]

ReadCloudLayer(node, cl) ==
    [base |-> parse_qv_field(node, "base", cl.base), amount |-> get_string(node, "amount")]

\* The layers are appended to those the object holds.
populate_observation_properties(props, p) ==
    [cloud_layers |->
        p.cloud_layers \o Each(Elements(props, "cloudLayers"), ReadCloudLayer, CloudLayer)]
    @@ Read(ObservationMembers, props, p)

populate_observation_response(root, r) == Feature(root, r, populate_observation_properties)
-----------------------------------------------------------------------------
(* Radar stations.                                                         *)

RadarMembers ==
    [NoMembers EXCEPT
        !.string = [id |-> "id", name |-> "name", station_type |-> "stationType"],
        !.quantity = [elevation |-> "elevation"]]

RadarStationProperties == [latitude |-> 0, longitude |-> 0] @@ Fresh(RadarMembers)

\* A double that stays as it is when the body has none.
Inline(props, key, value) ==
    LET v == get_optional_double(props, key) IN IF v = None THEN value ELSE v

populate_radar_station_properties(props, p) ==
    [latitude |-> Inline(props, "latitude", p.latitude),
     longitude |-> Inline(props, "longitude", p.longitude)]
    @@ Read(RadarMembers, props, p)


\* Without an inline latitude the geometry's point gives both coordinates.
populate_radar_station_feature(root, r) ==
    LET feature == Feature(root, r, populate_radar_station_properties)
        props == find_object(root, "properties")
        point == feature.geometry
    IN  IF props # Missing /\ point.holds = "GeoPoint"
            /\ get_optional_double(props, "latitude") = None
        THEN [feature EXCEPT !.properties.latitude = point.latitude,
                             !.properties.longitude = point.longitude]
        ELSE feature

RadarServerMembers == [NoMembers EXCEPT !.string = [id |-> "id", host |-> "host"]]
-----------------------------------------------------------------------------
(* Points, gridpoints and forecasts.                                       *)

PointMembers ==
    [NoMembers EXCEPT
        !.string = [id |-> "@id", grid_id |-> "gridId", forecast_url |-> "forecast",
                    forecast_hourly_url |-> "forecastHourly",
                    forecast_grid_data_url |-> "forecastGridData",
                    observation_stations_url |-> "observationStations",
                    forecast_zone_url |-> "forecastZone", county_url |-> "county",
                    fire_weather_zone_url |-> "fireWeatherZone", time_zone |-> "timeZone",
                    radar_station |-> "radarStation"],
        !.int = [grid_x |-> "gridX", grid_y |-> "gridY"]]

LocationMembers ==
    [NoMembers EXCEPT !.string = [city |-> "city", state |-> "state"],
                      !.quantity = [distance |-> "distance", bearing |-> "bearing"]]

RelativeLocation == [geometry |-> NoGeometry, properties |-> Fresh(LocationMembers)]

PointProperties == [relative_location |-> RelativeLocation] @@ Fresh(PointMembers)

ReadLocation(node, r) ==
    LET geometry == find_object(node, "geometry")
        properties == find_object(node, "properties")
    IN  [geometry |-> IF geometry = Missing THEN r.geometry ELSE parse_geometry(geometry),
         properties |-> IF properties = Missing THEN r.properties
                        ELSE Read(LocationMembers, properties, r.properties)]

\* In an absent location every key is missing.
populate_point_properties(props, p) ==
    [relative_location |-> ReadLocation(find_object(props, "relativeLocation"), p.relative_location)]
    @@ Read(PointMembers, props, p)

populate_point_response(root, r) == Feature(root, r, populate_point_properties)

GridpointMembers ==
    [NoMembers EXCEPT
        !.string = [update_time |-> "updateTime", valid_times |-> "validTimes",
                    grid_id |-> "gridId"],
        !.int = [grid_x |-> "gridX", grid_y |-> "gridY"],
        !.quantity = [elevation |-> "elevation"],
        !.layer = [temperature |-> "temperature", dewpoint |-> "dewpoint",
                   max_temperature |-> "maxTemperature", min_temperature |-> "minTemperature",
                   relative_humidity |-> "relativeHumidity",
                   apparent_temperature |-> "apparentTemperature", heat_index |-> "heatIndex",
                   wind_chill |-> "windChill", sky_cover |-> "skyCover",
                   wind_direction |-> "windDirection", wind_speed |-> "windSpeed",
                   wind_gust |-> "windGust",
                   probability_of_precipitation |-> "probabilityOfPrecipitation",
                   quantitative_precipitation |-> "quantitativePrecipitation",
                   ice_accumulation |-> "iceAccumulation", snowfall_amount |-> "snowfallAmount",
                   ceiling_height |-> "ceilingHeight", visibility |-> "visibility",
                   pressure |-> "pressure"]]

populate_gridpoint_properties(props, p) == Read(GridpointMembers, props, p)

populate_gridpoint_response(root, r) == Feature(root, r, populate_gridpoint_properties)

PeriodMembers ==
    [NoMembers EXCEPT
        !.string = [name |-> "name", start_time |-> "startTime", end_time |-> "endTime",
                    temperature_unit |-> "temperatureUnit", wind_direction |-> "windDirection",
                    icon |-> "icon", short_forecast |-> "shortForecast",
                    detailed_forecast |-> "detailedForecast"],
        !.optional = [temperature_trend |-> "temperatureTrend"],
        !.int = [number |-> "number", temperature |-> "temperature"],
        !.quantity = [probability_of_precipitation |-> "probabilityOfPrecipitation"]]

ForecastPeriod == [is_daytime |-> TRUE, wind_speed |-> <<>>] @@ Fresh(PeriodMembers)

\* windSpeed is a text, or a quantity that is rendered as one.
WindSpeed(node, wind_speed) ==
    LET ws == lookup(node, "windSpeed")
        v == get_optional_double(ws, "value")
        unit == get_string(ws, "unitCode")
    IN  CASE Is(ws, "str") -> ws.str
          [] Is(ws, "obj") /\ v # None ->
                <<ToString(v)>> \o (IF unit = <<>> THEN <<>> ELSE <<" ">> \o unit)
          [] OTHER -> wind_speed

populate_forecast_period(node, p) ==
    [is_daytime |-> get_bool(node, "isDaytime", TRUE),
     wind_speed |-> WindSpeed(node, p.wind_speed)]
    @@ Read(PeriodMembers, node, p)

ForecastMembers ==
    [NoMembers EXCEPT
        !.string = [update_time |-> "updateTime", generated_at |-> "generatedAt"],
        !.quantity = [elevation |-> "elevation"]]

ForecastProperties == [periods |-> <<>>] @@ Fresh(ForecastMembers)

\* The periods are replaced when the body has a list of them.
ReadPeriods(node, periods, ReadPeriod(_, _), fresh) ==
    IF find_array(node, "periods") = Missing THEN periods
    ELSE Each(Elements(node, "periods"), ReadPeriod, fresh)

populate_forecast_properties(props, p) ==
    [periods |-> ReadPeriods(props, p.periods, populate_forecast_period, ForecastPeriod)]
    @@ Read(ForecastMembers, props, p)

populate_forecast_response(root, r) == Feature(root, r, populate_forecast_properties)

ZonePeriodMembers ==
    [NoMembers EXCEPT !.int = [number |-> "number"],
                      !.string = [name |-> "name", detailed_forecast |-> "detailedForecast"]]

populate_zone_forecast_period(node, p) == Read(ZonePeriodMembers, node, p)

ZoneForecastProperties == [zone |-> <<>>, periods |-> <<>>]

\* The properties of the body, or the body itself.
populate_zone_forecast(root, out) ==
    LET props == find_object(root, "properties")
        node == IF props = Missing THEN root ELSE props
    IN  [zone |-> get_string_array(node, "zone"),
         periods |-> ReadPeriods(node, out.periods, populate_zone_forecast_period,
                                 Fresh(ZonePeriodMembers))]
-----------------------------------------------------------------------------
(* Offices, products, the glossary, climate reports of another service.    *)

OfficeMembers ==
    [NoMembers EXCEPT
        !.string = [id |-> "id", name |-> "name", address |-> "address",
                    telephone |-> "telephone", fax_number |-> "faxNumber", email |-> "email",
                    nws_region |-> "nwsRegion", parent_org |-> "parentOrganization"],
        !.strings = [responsible_counties |-> "responsibleCounties"]]

HeadlineMembers ==
    [NoMembers EXCEPT
        !.string = [id |-> "id", office_id |-> "office", title |-> "title",
                    summary |-> "summary", content |-> "content", link |-> "link",
                    issuance_time |-> "issuanceTime"]]

ProductMembers ==
    [NoMembers EXCEPT
        !.string = [id |-> "id", wmo_collective_id |-> "wmoCollectiveId",
                    issuing_office |-> "issuingOffice", issuance_time |-> "issuanceTime",
                    product_code |-> "productCode", product_name |-> "productName",
                    product_text |-> "productText"]]

ProductTypeMembers ==
    [NoMembers EXCEPT !.string = [type_id |-> "productCode", type_name |-> "productName"]]

TermMembers == [NoMembers EXCEPT !.string = [term |-> "term", definition |-> "definition"]]

ReadTerm(node, term) == Read(TermMembers, node, term)

populate_glossary(root, out) ==
    [glossary |-> IF find_array(root, "glossary") = Missing THEN out.glossary
                  ELSE Each(Elements(root, "glossary"), ReadTerm, Fresh(TermMembers))]

CliReport ==
    [station |-> <<>>, date |-> <<>>, tmax_f |-> None, tmin_f |-> None,
     is_preliminary |-> TRUE, is_corrected |-> FALSE, source |-> <<>>, issuance_time |-> <<>>]

IemRow(row, r) ==
    [r EXCEPT !.source = <<"iem_json">>,
              !.station = get_string(row, "station"),
              !.date = OrDefault(get_string(row, "valid"), get_string(row, "date")),
              !.tmax_f = get_optional_double(row, "high"),
              !.tmin_f = get_optional_double(row, "low")]

\* The rows are under either of two keys; without a list the call fails.
IemRows(root) ==
    LET results == find_array(root, "results")
    IN  IF results = Missing THEN find_array(root, "data") ELSE results

\* parse_iem_cli_json: rows without a date are left out.
parse_iem_cli_json(root) ==
    SelectSeq(Each(IemRows(root).arr, IemRow, CliReport), LAMBDA r : r.date # <<>>)
-----------------------------------------------------------------------------
(* Problem details of an answer that is not a success.                     *)

ProblemDetails == [message |-> <<>>, detail |-> <<>>, correlation_id |-> <<>>]

IsJson(body) == body \notin {Malformed, NoText}

\* The body itself, of which the message is cut after 256 bytes.
RawBody(body) == IF body = NoText THEN <<>> ELSE <<"body">>

\* The texts of Error::from_response.  header is the X-Correlation-Id of the
\* response, or the empty text; it goes before that of the body.
problem_details(body, header) ==
    LET object == IsJson(body) /\ Is(body, "obj")
        Text(key) == IF object THEN get_string(body, key) ELSE <<>>
    IN  [message |-> OrDefault(IF object THEN Text("title") ELSE RawBody(body), <<"HTTP">>),
         detail |-> Text("detail"),
         correlation_id |-> OrDefault(header, Text("correlationId"))]
-----------------------------------------------------------------------------
(***************************************************************************)
(* The deserializers.  Each kind of object is a feature, a collection of   *)
(* features or a plain object.                                             *)
(***************************************************************************)
Properties(of) ==
    CASE of = "alert" -> AlertProperties
      [] of = "observation" -> ObservationProperties
      [] of = "station" -> Fresh(StationMembers)
      [] of = "zone" -> Fresh(ZoneMembers)
      [] of = "sigmet" -> Fresh(SigmetMembers)
      [] of = "cwa" -> Fresh(CWAMembers)
      [] of = "radar_station" -> RadarStationProperties
      [] of = "point" -> PointProperties
      [] of = "gridpoint" -> Fresh(GridpointMembers)
      [] of = "forecast" -> ForecastProperties

ReadFeature(of, root, r) ==
    CASE of = "alert" -> populate_alert_feature(root, r)
      [] of = "observation" -> populate_observation_response(root, r)
      [] of = "station" -> populate_station_response(root, r)
      [] of = "zone" -> populate_zone_feature(root, r)
      [] of = "sigmet" -> populate_sigmet_feature(root, r)
      [] of = "cwa" -> populate_cwa_feature(root, r)
      [] of = "radar_station" -> populate_radar_station_feature(root, r)
      [] of = "point" -> populate_point_response(root, r)
      [] of = "gridpoint" -> populate_gridpoint_response(root, r)
      [] of = "forecast" -> populate_forecast_response(root, r)

PlainMembers ==
    [office |-> OfficeMembers, headline |-> HeadlineMembers, product |-> ProductMembers,
     product_type |-> ProductTypeMembers, radar_server |-> RadarServerMembers]

\* A problem, without and with a header that identifies the exchange.
Problems == {"problem", "traced_problem"}

Plain(of) ==
    CASE of \in DOMAIN PlainMembers -> Fresh(PlainMembers[of])
      [] of = "active_count" -> AlertActiveCount
      [] of = "alert_types" -> <<>>
      [] of = "zone_forecast" -> ZoneForecastProperties
      [] of = "glossary" -> [glossary |-> <<>>]
      [] of = "iem_cli" -> <<>>
      [] of = "quantity" -> QuantitativeValue
      [] of \in Problems -> ProblemDetails

ReadPlain(of, root, out) ==
    CASE of \in DOMAIN PlainMembers -> Read(PlainMembers[of], root, out)
      [] of = "active_count" -> populate_active_count(root, out)
      [] of = "alert_types" -> alert_types(root, out)
      [] of = "zone_forecast" -> populate_zone_forecast(root, out)
      [] of = "glossary" -> populate_glossary(root, out)
      [] of = "iem_cli" -> parse_iem_cli_json(root)
      [] of = "quantity" -> parse_quantitative_value(root, out)
      [] of = "problem" -> problem_details(root, <<>>)
      [] of = "traced_problem" -> problem_details(root, <<"traced">>)

\* A default-constructed object.
New(kind) ==
    CASE kind.shape = "feature" -> GeoJsonFeature(Properties(kind.of))
      [] kind.shape = "collection" -> GeoJsonFeatureCollection
      [] kind.shape = "plain" -> Plain(kind.of)

\* What the tree root makes of the object out.
populate(kind, root, out) ==
    CASE kind.shape = "feature" -> ReadFeature(kind.of, root, out)
      [] kind.shape = "collection" ->
            Collection(root, LAMBDA n, r : ReadFeature(kind.of, n, r),
                       GeoJsonFeature(Properties(kind.of)))
      [] kind.shape = "plain" -> ReadPlain(kind.of, root, out)

\* The body is not JSON, or has not the one list the caller came for.  The
\* description of a problem is read from any body.
Rejected(kind, body) ==
    \/ ~IsJson(body) /\ kind.of \notin Problems
    \/ kind.of = "iem_cli" /\ IemRows(body) = Missing

\* Mutant of deserialize: the object is not reset.
DeserializeOver(kind, body, out) ==
    IF Rejected(kind, body) THEN out ELSE populate(kind, body, out)

\* A body that is rejected leaves the object alone; any other resets it first.
deserialize(kind, body, out) ==
    IF Rejected(kind, body) THEN out ELSE populate(kind, body, New(kind))
=============================================================================
