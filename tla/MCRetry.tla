------------------------------ MODULE MCRetry ------------------------------
(* Small instances of Retry for TLC.                                       *)
EXTENDS Retry

MCOutcomes ==
    [kind : {"response"}, status : {200, 404, 429, 500, 503, 600}]
        \cup [kind : {"error"}, code : {"NetworkError", "RateLimited"}]

MCPolicy(init, max, mult, jitter, n, flags) ==
    [initial_delay |-> init, max_delay |-> max, backoff_multiplier |-> mult,
     jitter_factor |-> jitter, max_attempts |-> n,
     retry_on_network_error |-> flags[1], retry_on_rate_limit |-> flags[2],
     retry_on_server_error |-> flags[3]]

\* Doubling up to the cap, shrinking from it, a multiplier and a jitter that
\* are not numbers, and every field out of range; from no attempt at all to
\* the largest count the type holds.
MCPolicies ==
    {MCPolicy(3, 4, 4, 1, 3, <<TRUE, TRUE, TRUE>>),
     MCPolicy(9, 4, 1, 0, 3, <<TRUE, FALSE, TRUE>>),
     MCPolicy(2, 4, NonFinite, NonFinite, 3, <<FALSE, TRUE, FALSE>>),
     MCPolicy(-1, -3, -2, 9, 3, <<TRUE, TRUE, FALSE>>),
     MCPolicy(1, 100, 6, 4, 3, <<FALSE, FALSE, TRUE>>),
     MCPolicy(1, 9, 2, -1, 0, <<TRUE, TRUE, TRUE>>)}
=============================================================================
