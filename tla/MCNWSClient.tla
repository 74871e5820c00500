---------------------------- MODULE MCNWSClient ----------------------------
(* Small instances of NWSClient for TLC.                                   *)
EXTENDS NWSClient

MCPolicy(n, flags) ==
    [initial_delay |-> 0, max_delay |-> 0, backoff_multiplier |-> 1,
     jitter_factor |-> 0, max_attempts |-> n,
     retry_on_network_error |-> flags[1], retry_on_rate_limit |-> flags[2],
     retry_on_server_error |-> flags[3]]

\* Retry all but server errors, or only these, or make no attempt at all.
MCPolicies ==
    {MCPolicy(2, <<TRUE, TRUE, FALSE>>), MCPolicy(2, <<FALSE, FALSE, TRUE>>),
     MCPolicy(0, <<TRUE, TRUE, TRUE>>)}

\* Room for two tokens, one at the start.
MCBuckets == {[capacity |-> 2, interval |-> 1, initial |-> 1]}

\* One place under two names, a second place, and two that do not exist.
MCLocations ==
    {[latitude |-> 0, longitude |-> 10], [latitude |-> NegZero, longitude |-> 10],
     [latitude |-> 0, longitude |-> 20], [latitude |-> 91, longitude |-> 10],
     [latitude |-> 0, longitude |-> NaN]}

\* The shortest and the longest of the methods that take a location, and one
\* of the others.
MCCalled == {"get_point", "get_current_weather", "get_alerts"}
=============================================================================
