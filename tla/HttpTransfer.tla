---------------------------- MODULE HttpTransfer ----------------------------
(***************************************************************************)
(* HttpClient::get on a client with an open handle: the checks before the  *)
(* transfer, the callbacks libcurl makes during it, and the outcome.       *)
(*                                                                         *)
(* libcurl and the server are the environment.  A transfer is a series of  *)
(* responses: informational ones and redirects, at most MaxRedirs of       *)
(* these, then a final one with a body; libcurl discards a redirect's      *)
(* body.  A callback that does not accept its input ends the transfer.     *)
(***************************************************************************)
EXTENDS Integers, Sequences, FiniteSets

CONSTANTS
    SIZE_MAX,       \* largest std::size_t
    Limits,         \* values of max_response_bytes
    Sizes, Counts,  \* arguments of the callbacks
    FieldNames,     \* names of header fields
    MaxRedirs,      \* CURLOPT_MAXREDIRS
    MaxInfos,       \* bound: informational responses per transfer
    MaxFields,      \* bound: header fields per response
    MaxBytes,       \* bound: bytes of body offered per transfer
    MaxGets         \* bound: calls of get

ASSUME TransferAssumption ==
    /\ SIZE_MAX \in Nat \ {0}
    /\ Limits \subseteq 0..SIZE_MAX
    /\ Sizes \subseteq 0..SIZE_MAX
    /\ Counts \subseteq 0..SIZE_MAX
    /\ MaxRedirs \in Nat
    /\ MaxInfos \in Nat
    /\ MaxFields \in Nat
    /\ MaxBytes \in Nat
    /\ MaxGets \in Nat

VARIABLES
    config,     \* the ClientConfig: the limit, and is it well-formed
    pc,         \* "idle" or "perform": inside curl_easy_perform
    sink,       \* the ResponseSink of the current or latest get
    stage,      \* what libcurl reads next: "status", "fields" or "body"
    kind,       \* "info", "redirect" or "final": the response being read
    infos, redirects, \* responses read so far, by kind
    log,        \* history: the header fields received, tagged by response
    offered,    \* history: bytes of the body libcurl has offered
    result,     \* what the latest get returned, or "none"
    gets        \* calls of get

curl == <<stage, kind, infos, redirects, log, offered>>
vars == <<config, pc, sink, curl, result, gets>>

EmptySink(limit) ==
    [headers |-> <<>>, body |-> 0, limit |-> limit, overflowed |-> FALSE]

Init ==
    /\ config \in [limit : Limits, well_formed : BOOLEAN]
    /\ pc = "idle"
    /\ sink = EmptySink(config.limit)
    /\ stage = "status"
    /\ kind = "info"
    /\ infos = 0
    /\ redirects = 0
    /\ log = <<>>
    /\ offered = 0
    /\ result = "none"
    /\ gets = 0
-----------------------------------------------------------------------------
(* The callbacks.                                                          *)

\* std::size_t arithmetic.
Sized(n) == n % (SIZE_MAX + 1)

\* Mutant of BadProduct: the product is not checked.
BadProductNever(size, count) == FALSE

\* size * count does not fit.
BadProduct(size, count) == size # 0 /\ count > SIZE_MAX \div size

\* Mutants of TooLong: the limit is applied to each chunk; the limit itself
\* is refused.
TooLongPerChunk(bytes) == sink.limit > 0 /\ bytes > sink.limit
TooLongAtLimit(bytes) == sink.limit > 0 /\ bytes >= Sized(sink.limit - sink.body)

TooLong(bytes) == sink.limit > 0 /\ bytes > Sized(sink.limit - sink.body)

\* write_callback: does it accept the chunk, and what becomes of the sink.
\* append may fail to allocate, and does when no string is that long.
write_callback(size, count, fails) ==
    LET bytes == Sized(size * count)
    IN  IF BadProduct(size, count) THEN [accepted |-> FALSE, sink |-> sink]
        ELSE IF TooLong(bytes)
        THEN [accepted |-> FALSE, sink |-> [sink EXCEPT !.overflowed = TRUE]]
        ELSE IF fails \/ sink.body + bytes > SIZE_MAX
        THEN [accepted |-> FALSE, sink |-> sink]
        ELSE [accepted |-> TRUE, sink |-> [sink EXCEPT !.body = @ + bytes]]

\* Header lines as the callback tells them apart.  A status line may have a
\* colon in its reason phrase.
IsStatus(line) == line.type = "status"
HasColon(line) == line.colon

\* Mutant of header_callback: headers of earlier responses stay.
HeaderCallbackKeeps(line) ==
    IF HasColon(line) THEN [sink EXCEPT !.headers = Append(@, line)] ELSE sink

header_callback(line) ==
    LET kept == IF IsStatus(line) THEN <<>> ELSE sink.headers
    IN  [sink EXCEPT !.headers = IF HasColon(line) THEN Append(kept, line) ELSE kept]
-----------------------------------------------------------------------------
(* get.                                                                    *)

\* A fresh sink, and the history of a new transfer.
NewTransfer ==
    /\ pc = "idle"
    /\ gets < MaxGets
    /\ gets' = gets + 1
    /\ sink' = EmptySink(config.limit)
    /\ stage' = "status"
    /\ kind' = "info"
    /\ infos' = 0
    /\ redirects' = 0
    /\ log' = <<>>
    /\ offered' = 0
    /\ UNCHANGED config

\* An error before the transfer: a malformed configuration, or libcurl
\* cannot allocate the header list or rejects an option.
GetRejected ==
    /\ NewTransfer
    /\ result' = IF config.well_formed THEN "NetworkError" ELSE "InvalidRequest"
    /\ UNCHANGED pc

Get ==
    /\ NewTransfer
    /\ config.well_formed
    /\ pc' = "perform"
    /\ result' = "none"

\* What get makes of the end of a transfer.
Outcome(ok, s) ==
    IF s.overflowed THEN "InvalidRequest"
    ELSE IF ~ok THEN "NetworkError" ELSE "response"

\* curl_easy_perform returns.
Finish(ok, s) ==
    /\ pc' = "idle"
    /\ result' = Outcome(ok, s)

GoOn == UNCHANGED <<pc, result>>

\* libcurl passes a header line on; storing it may fail to allocate.
Deliver(line) ==
    \/ /\ sink' = header_callback(line)
       /\ log' = IF line.colon THEN Append(log, line) ELSE log
       /\ GoOn
    \/ /\ Finish(FALSE, sink)
       /\ UNCHANGED <<sink, log>>
-----------------------------------------------------------------------------
(* libcurl and the server.                                                 *)

ResponseNumber == infos + redirects + 1

Status(k, colon) ==
    /\ pc = "perform"
    /\ stage = "status"
    /\ k = "info" => infos < MaxInfos
    /\ k = "redirect" => redirects < MaxRedirs
    /\ stage' = "fields"
    /\ kind' = k
    /\ Deliver([type |-> "status", colon |-> colon, name |-> "HTTP/",
                from |-> ResponseNumber])
    /\ UNCHANGED <<config, infos, redirects, offered, gets>>

Fields == {i \in DOMAIN log : log[i].type = "field" /\ log[i].from = ResponseNumber}

\* A header field, or a trailer after the body.
Field(name) ==
    /\ pc = "perform"
    /\ stage \in {"fields", "body"}
    /\ Cardinality(Fields) < MaxFields
    /\ Deliver([type |-> "field", colon |-> TRUE, name |-> name,
                from |-> ResponseNumber])
    /\ UNCHANGED <<config, stage, kind, infos, redirects, offered, gets>>

\* The empty line after the header fields.
Blank ==
    /\ pc = "perform"
    /\ stage = "fields"
    /\ stage' = IF kind = "final" THEN "body" ELSE "status"
    /\ infos' = IF kind = "info" THEN infos + 1 ELSE infos
    /\ redirects' = IF kind = "redirect" THEN redirects + 1 ELSE redirects
    /\ Deliver([type |-> "blank", colon |-> FALSE, name |-> "",
                from |-> ResponseNumber])
    /\ UNCHANGED <<config, kind, offered, gets>>

\* A chunk of the body.
Chunk(size, count, fails) ==
    /\ pc = "perform"
    /\ stage = "body"
    /\ offered + size * count <= MaxBytes
    /\ fails => size * count > 0
    /\ offered' = offered + size * count
    /\ LET r == write_callback(size, count, fails)
       IN  /\ sink' = r.sink
           /\ IF r.accepted THEN GoOn ELSE Finish(FALSE, r.sink)
    /\ UNCHANGED <<config, stage, kind, infos, redirects, log, gets>>

Complete ==
    /\ pc = "perform"
    /\ stage = "body"
    /\ Finish(TRUE, sink)
    /\ UNCHANGED <<config, sink, curl, gets>>

\* The connection breaks, there is one redirect too many, the time the
\* configuration allows is up, ...
Break ==
    /\ pc = "perform"
    /\ Finish(FALSE, sink)
    /\ UNCHANGED <<config, sink, curl, gets>>

Next ==
    \/ GetRejected
    \/ Get
    \/ \E k \in {"info", "redirect", "final"}, colon \in BOOLEAN : Status(k, colon)
    \/ \E name \in FieldNames : Field(name)
    \/ Blank
    \/ \E size \in Sizes, count \in Counts, fails \in BOOLEAN : Chunk(size, count, fails)
    \/ Complete
    \/ Break
    \/ pc = "idle" /\ gets = MaxGets /\ UNCHANGED vars

Spec == Init /\ [][Next]_vars
-----------------------------------------------------------------------------
(* Properties.                                                             *)

\* At no time does the body hold more than max_response_bytes, however the
\* chunks are cut and although the subtraction is unsigned.
BodyWithinLimit == config.limit > 0 => sink.body <= config.limit

\* A response that get returns has every byte of the body: a chunk that was
\* refused, or a transfer that broke off, is never a success.
ResponseComplete == result = "response" => sink.body = offered

\* The headers of a response are those of the last response of the
\* transfer, in the order received: none of an informational response or
\* of a redirect before it.
HeadersOfLastResponse ==
    result = "response" =>
        \E n \in 0..Len(log) :
            /\ sink.headers = SubSeq(log, n + 1, Len(log))
            /\ \A i \in 1..Len(log) : log[i].from = ResponseNumber <=> i > n

\* Exceeding the limit is reported as InvalidRequest, which is not retried,
\* and nothing else is once the transfer has started; a body of exactly the
\* limit is within it.
LimitReported ==
    pc = "idle" /\ config.well_formed =>
        /\ result = "InvalidRequest" => offered > config.limit /\ config.limit > 0
        /\ offered > config.limit /\ config.limit > 0 /\ offered <= SIZE_MAX
               => result = "InvalidRequest"
=============================================================================
