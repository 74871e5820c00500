SPECIFICATION ExchangeSpec
CONSTANTS
    None = None
    Missing = Missing
    Malformed = Malformed
    NoText = NoText
    NoRequest = NoRequest
    NoBody = NoBody
    INT32_MAX = 3
    MaxConversions = 3
    EachFeature = {"alert", "observation", "station", "zone", "sigmet", "cwa",
                   "radar_station", "point", "gridpoint", "forecast"}
    EachCollection = {"alert", "observation", "station", "zone", "sigmet", "cwa",
                      "radar_station"}
    EachPlain = {"office", "headline", "product", "product_type", "radar_server",
                 "active_count", "alert_types", "zone_forecast", "glossary", "iem_cli",
                 "quantity", "problem", "traced_problem"}
    Kinds <- MCKinds
    Bodies <- MCBodies
    Calls <- MCCalls
INVARIANTS
    RequestAsRead
    ReplacesDestination
    ConversionsAgree
    
PROPERTIES
    DamageContained
