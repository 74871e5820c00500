----------------------------- MODULE HttpProofs -----------------------------
(***************************************************************************)
(* What get makes of a transfer, for every limit, every way of cutting the *)
(* body into chunks, every series of header lines and every width of       *)
(* std::size_t; and the lifetime of clients, of their handles and of       *)
(* libcurl's runtime, for any number of objects.                           *)
(***************************************************************************)
EXTENDS HttpTransfer, HttpClient, SequenceTheorems, FiniteSetTheorems, TLAPS

Line == [type : {"status", "field", "blank"}, colon : BOOLEAN,
         name : FieldNames \cup {"HTTP/", ""}, from : Nat]

TypeInv ==
    /\ config \in [limit : Limits, well_formed : BOOLEAN]
    /\ pc \in {"idle", "perform"}
    /\ sink \in [headers : Seq(Line), body : Nat, limit : Limits, overflowed : BOOLEAN]
    /\ sink.limit = config.limit
    /\ stage \in {"status", "fields", "body"}
    /\ kind \in {"info", "redirect", "final"}
    /\ infos \in Nat
    /\ redirects \in Nat
    /\ log \in Seq(Line)
    /\ offered \in Nat

\* As long as the transfer runs, every byte offered has been stored.
Running ==
    pc = "perform" =>
        /\ config.well_formed
        /\ result = "none"
        /\ ~sink.overflowed
        /\ sink.body = offered

\* headers holds the lines of the response being read, which come last in
\* the log.
LastLines ==
    \E n \in 0..Len(log) :
        /\ sink.headers = SubSeq(log, n + 1, Len(log))
        /\ \A i \in 1..Len(log) : log[i].from = ResponseNumber <=> i > n

Reading ==
    pc = "perform" =>
        /\ \A i \in 1..Len(log) : log[i].from <= ResponseNumber
        /\ stage = "status" => \A i \in 1..Len(log) : log[i].from < ResponseNumber
        /\ stage # "status" => LastLines

BodyInv == TypeInv /\ Running /\ BodyWithinLimit /\ ResponseComplete /\ LimitReported
HeaderInv == Reading /\ HeadersOfLastResponse
IInv == BodyInv /\ HeaderInv
-----------------------------------------------------------------------------
(* std::size_t arithmetic.                                                 *)

\* A number that fits is not changed by the arithmetic.
LEMMA SizedFits == ASSUME NEW n \in 0..SIZE_MAX PROVE Sized(n) = n
BY TransferAssumption DEF Sized

\* The division that looks for overflow is exact.
LEMMA BadProductExact ==
    ASSUME NEW size \in Nat, NEW count \in Nat
    PROVE  BadProduct(size, count) <=> size * count > SIZE_MAX
<1> DEFINE M == SIZE_MAX
<1>1. M \in Nat
  BY TransferAssumption
<1>2. CASE size = 0
  BY <1>1, <1>2 DEF BadProduct
<1>3. CASE size # 0
  <2> DEFINE q == M \div size
  <2>1. q \in Nat /\ q * size <= M /\ M < (q + 1) * size
    BY <1>1, <1>3
  <2> HIDE DEF q, M
  <2>2. ASSUME count <= q PROVE size * count <= M
    <3>1. count * size <= q * size
      BY <2>1, <2>2
    <3>2. count * size = size * count
      OBVIOUS
    <3> DEFINE x == size * count
               y == q * size
    <3>3. x \in Nat /\ y \in Nat /\ x <= y /\ y <= M
      BY <2>1, <3>1, <3>2
    <3> HIDE DEF x, y
    <3>4. x <= M
      BY <1>1, <3>3
    <3> QED BY <3>4 DEF x
  <2>3. ASSUME count > q PROVE size * count > M
    <3>1. (q + 1) * size <= count * size
      BY <2>1, <2>3
    <3>2. count * size = size * count
      OBVIOUS
    <3> DEFINE x == size * count
               y == (q + 1) * size
    <3>3. x \in Nat /\ y \in Nat /\ y <= x /\ M < y
      BY <2>1, <3>1, <3>2
    <3> HIDE DEF x, y
    <3>4. x > M
      BY <1>1, <3>3
    <3> QED BY <3>4 DEF x
  <2>4. (size * count > M) <=> count > q
    <3>1. size * count \in Nat
      OBVIOUS
    <3> DEFINE x == size * count
    <3> HIDE DEF x
    <3> QED BY <1>1, <2>1, <2>2, <2>3, <3>1 DEF x
  <2> QED BY <1>3, <2>4 DEF BadProduct, M, q
<1> QED BY <1>2, <1>3
-----------------------------------------------------------------------------
(* The body and the outcome.                                               *)

\* The fields of the configuration and of the sink.
LEMMA Fieldwise ==
    ASSUME TypeInv
    PROVE  /\ config.limit \in Limits /\ config.limit \in Nat /\ config.limit <= SIZE_MAX
           /\ config.well_formed \in BOOLEAN
           /\ sink.headers \in Seq(Line) /\ sink.body \in Nat
           /\ sink.overflowed \in BOOLEAN
           /\ SIZE_MAX \in Nat
<1>1. config.limit \in Limits /\ config.well_formed \in BOOLEAN
  BY DEF TypeInv
<1>2. SIZE_MAX \in Nat /\ \A l \in Limits : l \in Nat /\ l <= SIZE_MAX
  BY TransferAssumption
<1>3. sink.headers \in Seq(Line) /\ sink.body \in Nat /\ sink.overflowed \in BOOLEAN
  BY DEF TypeInv
<1> QED BY <1>1, <1>2, <1>3

\* The initial state: no transfer, an empty sink.
LEMMA InitBody == Init => BodyInv
<1> SUFFICES ASSUME Init PROVE BodyInv
  OBVIOUS
<1> USE DEF Init
<1>1. config.limit \in Limits /\ config.limit \in Nat
  <2>1. config.limit \in Limits
    OBVIOUS
  <2>2. \A l \in Limits : l \in Nat
    BY TransferAssumption
  <2> QED BY <2>1, <2>2
<1>2. /\ sink.body = 0 /\ sink.limit = config.limit
      /\ sink \in [headers : Seq(Line), body : Nat, limit : Limits, overflowed : BOOLEAN]
  BY <1>1 DEF EmptySink
<1>3. log \in Seq(Line)
  OBVIOUS
<1>4. TypeInv
  BY <1>1, <1>2, <1>3 DEF TypeInv
<1>5. Running /\ BodyWithinLimit /\ ResponseComplete /\ LimitReported
  BY <1>1, <1>2 DEF Running, BodyWithinLimit, ResponseComplete, LimitReported
<1> QED BY <1>4, <1>5 DEF BodyInv

\* A call of get starts with an empty sink.
LEMMA NewTransferBody ==
    ASSUME BodyInv, NewTransfer,
           \/ /\ pc' = pc
              /\ result' = IF config.well_formed THEN "NetworkError" ELSE "InvalidRequest"
           \/ pc' = "perform" /\ result' = "none" /\ config.well_formed
    PROVE  BodyInv'
<1> USE DEF NewTransfer
<1>1. /\ config' = config /\ config.limit \in Limits /\ config.limit \in Nat
      /\ config.well_formed \in BOOLEAN
  BY Fieldwise DEF BodyInv
<1>2. /\ sink'.body = 0 /\ sink'.limit = config.limit /\ sink'.overflowed = FALSE
      /\ sink' \in [headers : Seq(Line), body : Nat, limit : Limits, overflowed : BOOLEAN]
  BY <1>1 DEF EmptySink
<1>3. log' \in Seq(Line) /\ offered' = 0
  OBVIOUS
<1>4. TypeInv'
  BY <1>1, <1>2, <1>3 DEF BodyInv, TypeInv
<1>5. Running' /\ BodyWithinLimit' /\ ResponseComplete' /\ LimitReported'
  BY <1>1, <1>2, <1>3 DEF Running, BodyWithinLimit, ResponseComplete, LimitReported
<1> QED BY <1>4, <1>5 DEF BodyInv

\* The end of a transfer that stored all it was offered.
LEMMA FinishBody ==
    ASSUME BodyInv, pc = "perform", NEW ok \in BOOLEAN, Finish(ok, sink),
           config' = config, sink' = sink, offered' = offered, TypeInv'
    PROVE  BodyInv'
<1>1. /\ ~sink.overflowed /\ sink.body = offered /\ config.well_formed
      /\ config.limit > 0 => sink.body <= config.limit
      /\ config.limit \in Nat /\ offered \in Nat
  BY Fieldwise DEF BodyInv, Running, BodyWithinLimit, TypeInv
<1>2. pc' = "idle" /\ result' \in {"NetworkError", "response"}
  BY <1>1 DEF Finish, Outcome
<1>3. Running' /\ BodyWithinLimit' /\ ResponseComplete'
  BY <1>1, <1>2 DEF Running, BodyWithinLimit, ResponseComplete
<1>4. LimitReported'
  BY <1>1, <1>2 DEF LimitReported
<1> QED BY <1>3, <1>4 DEF BodyInv

\* header_callback changes the headers only.
LEMMA HeaderCallbackFields ==
    ASSUME TypeInv, NEW line \in Line
    PROVE  /\ header_callback(line) \in
                  [headers : Seq(Line), body : Nat, limit : Limits, overflowed : BOOLEAN]
           /\ header_callback(line).body = sink.body
           /\ header_callback(line).limit = sink.limit
           /\ header_callback(line).overflowed = sink.overflowed
           /\ header_callback(line).headers =
                  LET kept == IF line.type = "status" THEN <<>> ELSE sink.headers
                  IN  IF line.colon THEN Append(kept, line) ELSE kept
<1> DEFINE kept == IF line.type = "status" THEN <<>> ELSE sink.headers
           h == IF line.colon THEN Append(kept, line) ELSE kept
<1>1. header_callback(line) = [sink EXCEPT !.headers = h]
  BY DEF header_callback, IsStatus, HasColon
<1>2. kept \in Seq(Line)
  BY Fieldwise
<1>3. h \in Seq(Line)
  <2> HIDE DEF kept
  <2> QED BY <1>2
<1> HIDE DEF h
<1>4. sink \in [headers : Seq(Line), body : Nat, limit : Limits, overflowed : BOOLEAN]
  BY DEF TypeInv
<1> HIDE DEF Line
<1>5. /\ header_callback(line) \in
             [headers : Seq(Line), body : Nat, limit : Limits, overflowed : BOOLEAN]
      /\ header_callback(line).body = sink.body
      /\ header_callback(line).limit = sink.limit
      /\ header_callback(line).overflowed = sink.overflowed
      /\ header_callback(line).headers = h
  BY <1>1, <1>3, <1>4
<1> QED BY <1>5 DEF h

\* A header line leaves the body alone, and its outcome too when it is
\* refused.
LEMMA DeliverBody ==
    ASSUME BodyInv, pc = "perform", NEW line \in Line, Deliver(line),
           UNCHANGED <<config, offered>>,
           stage' \in {"status", "fields", "body"},
           kind' \in {"info", "redirect", "final"},
           infos' \in Nat, redirects' \in Nat
    PROVE  BodyInv'
<1>1. TypeInv
  BY DEF BodyInv
<1>2. CASE sink' = header_callback(line) /\ GoOn
           /\ log' = IF line.colon THEN Append(log, line) ELSE log
  <2>1. /\ sink' \in [headers : Seq(Line), body : Nat, limit : Limits, overflowed : BOOLEAN]
        /\ sink'.body = sink.body /\ sink'.limit = sink.limit
        /\ sink'.overflowed = sink.overflowed
    BY <1>1, <1>2, HeaderCallbackFields
  <2>2. log' \in Seq(Line)
    <3>1. log \in Seq(Line)
      BY <1>1 DEF TypeInv
    <3> HIDE DEF Line
    <3> QED BY <1>2, <3>1
  <2>3. pc' = pc /\ result' = result
    BY <1>2 DEF GoOn
  <2>4. TypeInv'
    BY <1>1, <2>1, <2>2, <2>3 DEF TypeInv
  <2>5. Running' /\ BodyWithinLimit' /\ ResponseComplete' /\ LimitReported'
    BY <2>1, <2>3 DEF BodyInv, Running, BodyWithinLimit, ResponseComplete, LimitReported
  <2> QED BY <2>4, <2>5 DEF BodyInv
<1>3. CASE Finish(FALSE, sink) /\ UNCHANGED <<sink, log>>
  <2>1. TypeInv'
    BY <1>1, <1>3 DEF TypeInv, Finish
  <2> QED BY <1>3, <2>1, FinishBody
<1> QED BY <1>2, <1>3 DEF Deliver

\* A chunk is stored whole or ends the transfer, and then the outcome says
\* whether the limit was the reason.
LEMMA ChunkBody ==
    ASSUME BodyInv, NEW size \in Sizes, NEW count \in Counts, NEW fails \in BOOLEAN,
           Chunk(size, count, fails)
    PROVE  BodyInv'
<1> DEFINE bytes == size * count
           limit == config.limit
           SinkType == [headers : Seq(Line), body : Nat, limit : Limits, overflowed : BOOLEAN]
<1>1. size \in Nat /\ count \in Nat /\ bytes \in Nat
  BY TransferAssumption
<1>2. /\ pc = "perform" /\ offered' = offered + bytes
      /\ UNCHANGED <<config, stage, kind, infos, redirects, log>>
      /\ sink' = write_callback(size, count, fails).sink
      /\ IF write_callback(size, count, fails).accepted THEN GoOn
         ELSE pc' = "idle" /\ result' = Outcome(FALSE, sink')
  BY DEF Chunk, Finish
<1>3. /\ TypeInv /\ limit \in Nat /\ limit <= SIZE_MAX /\ SIZE_MAX \in Nat
      /\ sink \in SinkType /\ sink.body \in Nat /\ sink.limit = limit
      /\ offered \in Nat /\ ~sink.overflowed /\ sink.body = offered
      /\ config.well_formed /\ result = "none"
      /\ limit > 0 => sink.body <= limit
  BY <1>2, Fieldwise DEF BodyInv, TypeInv, Running, BodyWithinLimit
<1>4. BadProduct(size, count) <=> bytes > SIZE_MAX
  BY <1>1, BadProductExact
<1> HIDE DEF bytes, limit, SinkType
<1>5. ASSUME ~BadProduct(size, count)
      PROVE  /\ Sized(size * count) = bytes
             /\ TooLong(bytes) <=> limit > 0 /\ bytes > limit - sink.body
  <2>1. bytes \in 0..SIZE_MAX
    BY <1>1, <1>3, <1>4, <1>5
  <2>2. Sized(bytes) = bytes
    BY <2>1, SizedFits
  <2>3. limit > 0 => Sized(limit - sink.body) = limit - sink.body
    <3>1. limit > 0 => limit - sink.body \in 0..SIZE_MAX
      BY <1>3
    <3> QED BY <3>1, SizedFits
  <2> QED BY <1>3, <2>2, <2>3 DEF TooLong, bytes
<1>6. ASSUME sink' \in SinkType, sink'.limit = limit, pc' \in {"idle", "perform"}
      PROVE  TypeInv'
  <2>1. offered' \in Nat
    BY <1>1, <1>2, <1>3
  <2> QED BY <1>2, <1>3, <1>6, <2>1 DEF TypeInv, SinkType, limit
<1>7. ASSUME sink' = sink, pc' = "idle", result' = Outcome(FALSE, sink'),
             limit > 0 => offered' > SIZE_MAX \/ offered' <= limit
      PROVE  BodyInv'
  <2>1. pc' = "idle" /\ result' = "NetworkError"
    BY <1>3, <1>7 DEF Outcome
  <2>2. TypeInv'
    BY <1>3, <1>6, <1>7, <2>1
  <2>3. offered' \in Nat
    BY <1>1, <1>2, <1>3
  <2>4. Running' /\ BodyWithinLimit' /\ ResponseComplete'
    BY <1>2, <1>3, <1>7, <2>1 DEF Running, BodyWithinLimit, ResponseComplete, limit
  <2>5. ~(offered' > limit /\ limit > 0 /\ offered' <= SIZE_MAX)
    <3> DEFINE o == offered'
    <3> HIDE DEF o
    <3>1. o \in Nat /\ (limit > 0 => o > SIZE_MAX \/ o <= limit)
      BY <1>7, <2>3 DEF o
    <3>2. ~(o > limit /\ limit > 0 /\ o <= SIZE_MAX)
      BY <1>3, <3>1
    <3> QED BY <3>2 DEF o
  <2>6. LimitReported'
    BY <1>2, <2>1, <2>5 DEF LimitReported, limit
  <2> QED BY <2>2, <2>4, <2>6 DEF BodyInv
<1>8. CASE BadProduct(size, count)
  <2>1. write_callback(size, count, fails) = [accepted |-> FALSE, sink |-> sink]
    BY <1>8 DEF write_callback
  <2>2. sink' = sink /\ pc' = "idle" /\ result' = Outcome(FALSE, sink')
    BY <1>2, <2>1
  <2>3. offered' > SIZE_MAX
    BY <1>1, <1>2, <1>3, <1>4, <1>8
  <2> QED BY <1>7, <2>2, <2>3
<1>9. CASE ~BadProduct(size, count) /\ TooLong(bytes)
  <2> DEFINE s == [sink EXCEPT !.overflowed = TRUE]
  <2>1. write_callback(size, count, fails) = [accepted |-> FALSE, sink |-> s]
    BY <1>5, <1>9 DEF write_callback
  <2>2. s \in SinkType /\ s.body = sink.body /\ s.limit = limit /\ s.overflowed
    BY <1>3 DEF SinkType
  <2> HIDE DEF s
  <2>3. sink' = s /\ pc' = "idle" /\ result' = Outcome(FALSE, sink')
    BY <1>2, <2>1
  <2>4. pc' = "idle" /\ result' = "InvalidRequest"
    BY <2>2, <2>3 DEF Outcome
  <2>5. TypeInv'
    BY <1>6, <2>2, <2>3, <2>4
  <2>6. offered' \in Nat /\ limit > 0 /\ offered' > limit
    BY <1>1, <1>2, <1>3, <1>5, <1>9
  <2>7. Running' /\ BodyWithinLimit' /\ ResponseComplete'
    BY <1>2, <1>3, <2>2, <2>3, <2>4 DEF Running, BodyWithinLimit, ResponseComplete, limit
  <2>8. LimitReported'
    BY <1>2, <2>4, <2>6 DEF LimitReported, limit
  <2> QED BY <2>5, <2>7, <2>8 DEF BodyInv
<1>10. CASE ~BadProduct(size, count) /\ ~TooLong(bytes)
            /\ (fails \/ sink.body + bytes > SIZE_MAX)
  <2>1. write_callback(size, count, fails) = [accepted |-> FALSE, sink |-> sink]
    BY <1>5, <1>10 DEF write_callback
  <2>2. sink' = sink /\ pc' = "idle" /\ result' = Outcome(FALSE, sink')
    BY <1>2, <2>1
  <2>3. limit > 0 => offered' <= limit
    BY <1>1, <1>2, <1>3, <1>5, <1>10
  <2> QED BY <1>7, <2>2, <2>3
<1>11. CASE ~BadProduct(size, count) /\ ~TooLong(bytes)
            /\ ~(fails \/ sink.body + bytes > SIZE_MAX)
  <2> DEFINE s == [sink EXCEPT !.body = @ + bytes]
  <2>1. write_callback(size, count, fails) = [accepted |-> TRUE, sink |-> s]
    BY <1>5, <1>11 DEF write_callback
  <2>2. s \in SinkType /\ s.body = sink.body + bytes /\ s.limit = limit /\ ~s.overflowed
    BY <1>1, <1>3 DEF SinkType
  <2> HIDE DEF s
  <2>3. sink' = s /\ pc' = "perform" /\ result' = "none"
    BY <1>2, <1>3, <2>1 DEF GoOn
  <2>4. TypeInv'
    BY <1>6, <2>2, <2>3
  <2>5. limit > 0 => sink'.body <= limit
    BY <1>1, <1>3, <1>5, <1>11, <2>2, <2>3
  <2>6. Running' /\ BodyWithinLimit' /\ ResponseComplete' /\ LimitReported'
    BY <1>2, <1>3, <2>2, <2>3, <2>5
       DEF Running, BodyWithinLimit, ResponseComplete, LimitReported, limit
  <2> QED BY <2>4, <2>6 DEF BodyInv
<1> QED BY <1>8, <1>9, <1>10, <1>11
-----------------------------------------------------------------------------
(* The headers.                                                            *)

\* What Append and SubSeq return.
LEMMA AppendFacts ==
    ASSUME NEW S, NEW s \in Seq(S), NEW e \in S
    PROVE  /\ Append(s, e) \in Seq(S)
           /\ Len(s) \in Nat
           /\ Len(Append(s, e)) = Len(s) + 1
           /\ \A i \in 1..Len(s) : Append(s, e)[i] = s[i]
           /\ Append(s, e)[Len(s) + 1] = e
OBVIOUS

LEMMA SubSeqAppend ==
    ASSUME NEW S, NEW s \in Seq(S), NEW e \in S, NEW n \in 0..Len(s)
    PROVE  SubSeq(Append(s, e), n + 1, Len(s) + 1) = Append(SubSeq(s, n + 1, Len(s)), e)
<1> DEFINE m == Len(s)
           t == Append(s, e)
           l == SubSeq(t, n + 1, m + 1)
           r == SubSeq(s, n + 1, m)
<1>1. m \in Nat /\ n \in Nat /\ n <= m
  OBVIOUS
<1>2. /\ t \in Seq(S) /\ Len(t) = m + 1
      /\ \A i \in 1..m : t[i] = s[i]
      /\ t[m + 1] = e
  BY AppendFacts
<1>3. /\ \A i \in (n + 1)..(m + 1) : t[i] \in S
      /\ \A i \in (n + 1)..m : s[i] \in S
  BY <1>1, <1>2
<1> HIDE DEF m, t
<1>4. l \in Seq(S) /\ Len(l) = m - n + 1 /\ \A i \in 1..(m - n + 1) : l[i] = t[n + i]
  <2>1. n + 1 \in Int /\ m + 1 \in Int /\ (m + 1) - (n + 1) + 1 = m - n + 1
    BY <1>1
  <2>2. /\ l \in Seq(S)
        /\ Len(l) = IF n + 1 <= m + 1 THEN (m + 1) - (n + 1) + 1 ELSE 0
        /\ \A i \in 1..((m + 1) - (n + 1) + 1) : l[i] = t[(n + 1) + i - 1]
    BY <1>3, <2>1, SubSeqProperties
  <2>3. \A i \in 1..(m - n + 1) : (n + 1) + i - 1 = n + i
    BY <1>1
  <2> HIDE DEF l
  <2>4. n + 1 <= m + 1
    BY <1>1
  <2>5. Len(l) = m - n + 1
    BY <2>1, <2>2, <2>4
  <2>6. ASSUME NEW i \in 1..(m - n + 1) PROVE l[i] = t[n + i]
    <3>1. i \in 1..((m + 1) - (n + 1) + 1)
      BY <2>1
    <3>2. l[i] = t[(n + 1) + i - 1]
      BY <2>2, <3>1, Zenon
    <3>3. (n + 1) + i - 1 = n + i
      BY <2>3, Zenon
    <3> QED BY <3>2, <3>3, Zenon
  <2> QED BY <2>2, <2>5, <2>6, Zenon
<1>5. r \in Seq(S) /\ Len(r) = m - n /\ \A i \in 1..(m - n) : r[i] = s[n + i]
  <2>1. n + 1 \in Int /\ m \in Int /\ m - (n + 1) + 1 = m - n
    BY <1>1
  <2>2. /\ r \in Seq(S)
        /\ Len(r) = IF n + 1 <= m THEN m - (n + 1) + 1 ELSE 0
        /\ \A i \in 1..(m - (n + 1) + 1) : r[i] = s[(n + 1) + i - 1]
    BY <1>3, <2>1, SubSeqProperties
  <2>3. \A i \in 1..(m - n) : (n + 1) + i - 1 = n + i
    BY <1>1
  <2> HIDE DEF r
  <2>4. IF n + 1 <= m THEN TRUE ELSE m - n = 0
    BY <1>1
  <2>5. Len(r) = m - n
    BY <2>1, <2>2, <2>4
  <2>6. ASSUME NEW i \in 1..(m - n) PROVE r[i] = s[n + i]
    <3>1. i \in 1..(m - (n + 1) + 1)
      BY <2>1
    <3>2. r[i] = s[(n + 1) + i - 1]
      BY <2>2, <3>1, Zenon
    <3>3. (n + 1) + i - 1 = n + i
      BY <2>3, Zenon
    <3> QED BY <3>2, <3>3, Zenon
  <2> QED BY <2>2, <2>5, <2>6, Zenon
<1> HIDE DEF l, r
<1> DEFINE a == Append(r, e)
<1>6. /\ a \in Seq(S) /\ Len(a) = (m - n) + 1
      /\ \A i \in 1..(m - n) : a[i] = r[i]
      /\ a[(m - n) + 1] = e
  BY <1>5, AppendFacts
<1> HIDE DEF a
<1>7. \A i \in 1..Len(l) : l[i] = a[i]
  <2> SUFFICES ASSUME NEW i \in 1..(m - n + 1) PROVE l[i] = a[i]
    BY <1>4
  <2>1. CASE i = m - n + 1
    <3>1. n + i = m + 1
      BY <1>1, <2>1
    <3> QED BY <1>2, <1>4, <1>6, <2>1, <3>1
  <2>2. CASE i \in 1..(m - n)
    <3>1. n + i \in 1..m
      BY <1>1, <2>2
    <3> QED BY <1>2, <1>4, <1>5, <1>6, <2>2, <3>1
  <2> QED BY <1>1, <2>1, <2>2
<1>8. l = a
  BY <1>1, <1>4, <1>6, <1>7, SeqEqual
<1> QED BY <1>8 DEF a, l, r, t, m

LEMMA SubSeqAfterLast ==
    ASSUME NEW S, NEW s \in Seq(S)
    PROVE  SubSeq(s, Len(s) + 1, Len(s)) = <<>>
OBVIOUS

\* The types of the log and of the number of the response.
LEMMA LogTypes ==
    ASSUME TypeInv
    PROVE  /\ log \in Seq(Line) /\ Len(log) \in Nat /\ ResponseNumber \in Nat
           /\ infos \in Nat /\ redirects \in Nat /\ kind \in {"info", "redirect", "final"}
           /\ \A i \in 1..Len(log) : log[i] \in Line /\ log[i].from \in Nat
<1>1. /\ log \in Seq(Line) /\ infos \in Nat /\ redirects \in Nat
      /\ kind \in {"info", "redirect", "final"}
  BY DEF TypeInv
<1>2. ResponseNumber \in Nat
  BY <1>1 DEF ResponseNumber
<1>3. Len(log) \in Nat /\ \A i \in 1..Len(log) : log[i] \in Line
  <2> HIDE DEF Line
  <2> QED BY <1>1
<1>4. \A i \in 1..Len(log) : log[i].from \in Nat
  BY <1>3 DEF Line
<1> QED BY <1>1, <1>2, <1>3, <1>4

\* A step outside the transfer that does not touch what was received.
LEMMA OutsideHeaders ==
    ASSUME pc' = "idle", result' # "response"
    PROVE  HeaderInv'
BY DEF HeaderInv, Reading, HeadersOfLastResponse

\* A header line goes to the headers of its response: the first line of a
\* response drops the ones before it.
LEMMA StatusHeaders ==
    ASSUME IInv, NEW k \in {"info", "redirect", "final"}, NEW colon \in BOOLEAN,
           Status(k, colon)
    PROVE  HeaderInv'
<1> DEFINE line == [type |-> "status", colon |-> colon, name |-> "HTTP/",
                    from |-> ResponseNumber]
<1>1. /\ pc = "perform" /\ stage = "status" /\ stage' = "fields"
      /\ Deliver(line)
      /\ UNCHANGED <<infos, redirects>>
  BY DEF Status
<1>2. /\ TypeInv /\ log \in Seq(Line) /\ ResponseNumber \in Nat /\ line \in Line
      /\ Len(log) \in Nat
  <2>1. TypeInv /\ ResponseNumber \in Nat
    BY LogTypes DEF IInv, BodyInv
  <2>2. line \in Line
    BY <2>1 DEF Line
  <2> QED BY <2>1, <2>2, LogTypes
<1>3. ResponseNumber' = ResponseNumber
  BY <1>1 DEF ResponseNumber
<1>4. \A i \in 1..Len(log) : log[i].from < ResponseNumber /\ log[i].from \in Nat
  BY <1>1, <1>2, LogTypes DEF IInv, HeaderInv, Reading
<1>5. line.type = "status" /\ line.colon = colon /\ line.from = ResponseNumber
  OBVIOUS
<1>6. CASE Finish(FALSE, sink)
  <2>1. pc' = "idle" /\ result' # "response"
    BY <1>6 DEF Finish, Outcome
  <2> QED BY <2>1, OutsideHeaders
<1>7. CASE sink' = header_callback(line) /\ GoOn
           /\ log' = IF line.colon THEN Append(log, line) ELSE log
  <2>1. pc' = "perform" /\ result' = "none"
    BY <1>1, <1>7 DEF GoOn, IInv, BodyInv, Running
  <2> HIDE DEF line, Line
  <2>2. sink'.headers = IF colon THEN Append(<<>>, line) ELSE <<>>
    BY <1>2, <1>5, <1>7, HeaderCallbackFields
  <2>3. LastLines' /\ \A i \in 1..Len(log') : log'[i].from <= ResponseNumber
    <3>1. CASE colon
      <4>1. /\ log' = Append(log, line) /\ Len(log') = Len(log) + 1
            /\ \A i \in 1..Len(log) : log'[i] = log[i]
            /\ log'[Len(log) + 1] = line
        BY <1>2, <1>5, <1>7, <3>1, AppendFacts
      <4>2. Len(log) \in 0..Len(log') /\ Len(log) \in 0..Len(log)
        BY <1>2, <4>1
      <4>3. sink'.headers = SubSeq(log', Len(log) + 1, Len(log'))
        <5>1. SubSeq(log', Len(log) + 1, Len(log'))
                  = Append(SubSeq(log, Len(log) + 1, Len(log)), line)
          BY <1>2, <4>1, <4>2, SubSeqAppend
        <5>2. SubSeq(log, Len(log) + 1, Len(log)) = <<>>
          BY <1>2, SubSeqAfterLast
        <5> QED BY <2>2, <3>1, <5>1, <5>2
      <4>4. \A i \in 1..(Len(log) + 1) : i \in 1..Len(log) \/ i = Len(log) + 1
        BY <1>2
      <4>5. \A i \in 1..Len(log') : /\ log'[i].from = ResponseNumber <=> i > Len(log)
                                    /\ log'[i].from <= ResponseNumber
        BY <1>2, <1>4, <1>5, <4>1, <4>4
      <4> QED BY <1>3, <4>2, <4>3, <4>5 DEF LastLines
    <3>2. CASE ~colon
      <4>1. log' = log /\ sink'.headers = <<>>
        BY <1>5, <1>7, <2>2, <3>2
      <4>2. SubSeq(log, Len(log) + 1, Len(log)) = <<>>
        BY <1>2, SubSeqAfterLast
      <4>3. Len(log) \in 0..Len(log)
        BY <1>2
      <4>4. \A i \in 1..Len(log) : /\ log[i].from = ResponseNumber <=> i > Len(log)
                                   /\ log[i].from <= ResponseNumber
        BY <1>2, <1>4
      <4> QED BY <1>3, <4>1, <4>2, <4>3, <4>4 DEF LastLines
    <3> QED BY <3>1, <3>2
  <2> QED BY <1>1, <1>3, <2>1, <2>3 DEF HeaderInv, Reading, HeadersOfLastResponse
<1> QED BY <1>1, <1>6, <1>7 DEF Deliver

\* A field, or a trailer, is added to the headers of its response.
LEMMA FieldHeaders ==
    ASSUME IInv, NEW name \in FieldNames, Field(name)
    PROVE  HeaderInv'
<1> DEFINE line == [type |-> "field", colon |-> TRUE, name |-> name,
                    from |-> ResponseNumber]
<1>1. /\ pc = "perform" /\ stage # "status" /\ stage' = stage
      /\ Deliver(line)
      /\ UNCHANGED <<infos, redirects>>
  BY DEF Field
<1>2. /\ TypeInv /\ log \in Seq(Line) /\ ResponseNumber \in Nat /\ line \in Line
      /\ Len(log) \in Nat
  <2>1. TypeInv /\ ResponseNumber \in Nat
    BY LogTypes DEF IInv, BodyInv
  <2>2. line \in Line
    BY <2>1 DEF Line
  <2> QED BY <2>1, <2>2, LogTypes
<1>3. ResponseNumber' = ResponseNumber
  BY <1>1 DEF ResponseNumber
<1>4. /\ \A i \in 1..Len(log) : log[i].from <= ResponseNumber
      /\ LastLines
  BY <1>1 DEF IInv, HeaderInv, Reading
<1>5. line.type # "status" /\ line.colon /\ line.from = ResponseNumber
  OBVIOUS
<1>6. CASE Finish(FALSE, sink)
  <2>1. pc' = "idle" /\ result' # "response"
    BY <1>6 DEF Finish, Outcome
  <2> QED BY <2>1, OutsideHeaders
<1>7. CASE sink' = header_callback(line) /\ GoOn
           /\ log' = IF line.colon THEN Append(log, line) ELSE log
  <2>1. pc' = "perform" /\ result' = "none"
    BY <1>1, <1>7 DEF GoOn, IInv, BodyInv, Running
  <2> HIDE DEF line, Line
  <2>2. sink'.headers = Append(sink.headers, line)
    BY <1>2, <1>5, <1>7, HeaderCallbackFields
  <2>3. /\ log' = Append(log, line) /\ Len(log') = Len(log) + 1
        /\ \A i \in 1..Len(log) : log'[i] = log[i]
        /\ log'[Len(log) + 1] = line
    BY <1>2, <1>5, <1>7, AppendFacts
  <2>4. PICK n \in 0..Len(log) :
            /\ sink.headers = SubSeq(log, n + 1, Len(log))
            /\ \A i \in 1..Len(log) : log[i].from = ResponseNumber <=> i > n
    BY <1>4 DEF LastLines
  <2>5. n \in 0..Len(log') /\ \A i \in 1..(Len(log) + 1) : i \in 1..Len(log) \/ i = Len(log) + 1
    BY <1>2, <2>3
  <2>6. sink'.headers = SubSeq(log', n + 1, Len(log'))
    <3>1. SubSeq(Append(log, line), n + 1, Len(log) + 1)
              = Append(SubSeq(log, n + 1, Len(log)), line)
      BY <1>2, <2>4, SubSeqAppend, Zenon
    <3> QED BY <2>2, <2>3, <2>4, <3>1, Zenon
  <2>7. \A i \in 1..Len(log') : /\ log'[i].from = ResponseNumber <=> i > n
                                /\ log'[i].from <= ResponseNumber
    BY <1>2, <1>4, <1>5, <2>3, <2>4, <2>5
  <2>8. LastLines'
    BY <1>3, <2>5, <2>6, <2>7 DEF LastLines
  <2> QED BY <1>1, <1>3, <2>1, <2>7, <2>8 DEF HeaderInv, Reading, HeadersOfLastResponse
<1> QED BY <1>1, <1>6, <1>7 DEF Deliver

\* The empty line ends the fields of a response; after an informational one
\* or a redirect another response follows.
LEMMA BlankHeaders == ASSUME IInv, Blank PROVE HeaderInv'
<1> DEFINE line == [type |-> "blank", colon |-> FALSE, name |-> "",
                    from |-> ResponseNumber]
<1>1. /\ pc = "perform" /\ stage = "fields"
      /\ stage' = IF kind = "final" THEN "body" ELSE "status"
      /\ infos' = IF kind = "info" THEN infos + 1 ELSE infos
      /\ redirects' = IF kind = "redirect" THEN redirects + 1 ELSE redirects
      /\ Deliver(line)
  BY DEF Blank
<1>2. /\ TypeInv /\ log \in Seq(Line) /\ ResponseNumber \in Nat /\ line \in Line
      /\ kind \in {"info", "redirect", "final"} /\ infos \in Nat /\ redirects \in Nat
  <2>1. TypeInv /\ ResponseNumber \in Nat
    BY LogTypes DEF IInv, BodyInv
  <2>2. line \in Line
    BY <2>1 DEF Line
  <2> QED BY <2>1, <2>2, LogTypes
<1>3. ResponseNumber' = IF kind = "final" THEN ResponseNumber ELSE ResponseNumber + 1
  <2> infos \in Nat /\ redirects \in Nat
    BY <1>2
  <2>1. CASE kind = "info"
    <3>1. infos' = infos + 1 /\ redirects' = redirects
      BY <1>1, <2>1
    <3>2. ResponseNumber' = infos + 1 + redirects + 1
      BY <3>1 DEF ResponseNumber
    <3>3. infos + 1 + redirects + 1 = (infos + redirects + 1) + 1
      OBVIOUS
    <3> QED BY <2>1, <3>2, <3>3 DEF ResponseNumber
  <2>2. CASE kind = "redirect"
    <3>1. infos' = infos /\ redirects' = redirects + 1
      BY <1>1, <2>2
    <3>2. ResponseNumber' = infos + (redirects + 1) + 1
      BY <3>1 DEF ResponseNumber
    <3>3. infos + (redirects + 1) + 1 = (infos + redirects + 1) + 1
      OBVIOUS
    <3> QED BY <2>2, <3>2, <3>3 DEF ResponseNumber
  <2>3. CASE kind = "final"
    BY <1>1, <1>2, <2>3 DEF ResponseNumber
  <2> QED BY <1>2, <2>1, <2>2, <2>3
<1>4. /\ \A i \in 1..Len(log) : log[i].from <= ResponseNumber /\ log[i].from \in Nat
      /\ LastLines
  BY <1>1, <1>2, LogTypes DEF IInv, HeaderInv, Reading
<1>5. line.type # "status" /\ ~line.colon
  OBVIOUS
<1>6. CASE Finish(FALSE, sink)
  <2>1. pc' = "idle" /\ result' # "response"
    BY <1>6 DEF Finish, Outcome
  <2> QED BY <2>1, OutsideHeaders
<1>7. CASE sink' = header_callback(line) /\ GoOn
           /\ log' = IF line.colon THEN Append(log, line) ELSE log
  <2>1. pc' = "perform" /\ result' = "none"
    BY <1>1, <1>7 DEF GoOn, IInv, BodyInv, Running
  <2> HIDE DEF line, Line
  <2>2. sink'.headers = sink.headers /\ log' = log
    BY <1>2, <1>5, <1>7, HeaderCallbackFields
  <2>3. CASE kind = "final"
    <3>1. ResponseNumber' = ResponseNumber /\ stage' = "body"
      BY <1>1, <1>3, <2>3
    <3>2. LastLines'
      BY <1>4, <2>2, <3>1 DEF LastLines
    <3> QED BY <1>4, <2>1, <2>2, <3>1, <3>2 DEF HeaderInv, Reading, HeadersOfLastResponse
  <2>4. CASE kind # "final"
    <3>1. ResponseNumber' = ResponseNumber + 1 /\ stage' = "status"
      BY <1>1, <1>3, <2>4
    <3>2. \A i \in 1..Len(log) : log[i].from < ResponseNumber + 1
      BY <1>2, <1>4
    <3>3. \A i \in 1..Len(log) : log[i].from <= ResponseNumber + 1
      BY <1>2, <1>4
    <3> QED BY <2>1, <2>2, <3>1, <3>2, <3>3 DEF HeaderInv, Reading, HeadersOfLastResponse
  <2> QED BY <2>3, <2>4
<1> QED BY <1>1, <1>6, <1>7 DEF Deliver

\* A step that receives no header line and goes on, or ends the transfer.
LEMMA NoLineHeaders ==
    ASSUME IInv, pc = "perform", sink'.headers = sink.headers,
           UNCHANGED <<stage, infos, redirects, log>>,
           \/ GoOn
           \/ pc' = "idle" /\ (result' = "response" => stage = "body")
    PROVE  HeaderInv'
<1>1. ResponseNumber' = ResponseNumber
  BY DEF ResponseNumber
<1>2. LastLines' <=> LastLines
  BY <1>1 DEF LastLines
<1>3. CASE GoOn
  <2>1. pc' = "perform" /\ result' = "none"
    BY <1>3 DEF GoOn, IInv, BodyInv, Running
  <2> QED BY <1>1, <1>2, <2>1 DEF IInv, HeaderInv, Reading, HeadersOfLastResponse
<1>4. CASE pc' = "idle" /\ (result' = "response" => stage = "body")
  <2>1. result' = "response" => LastLines'
    BY <1>2, <1>4 DEF IInv, HeaderInv, Reading
  <2> QED BY <1>4, <2>1 DEF HeaderInv, Reading, HeadersOfLastResponse, LastLines
<1> QED BY <1>3, <1>4
-----------------------------------------------------------------------------
(* All steps.                                                              *)

\* The initial state has received nothing.
LEMMA InitIInv == Init => IInv
<1>1. Init => HeaderInv
  BY DEF Init, HeaderInv, Reading, HeadersOfLastResponse
<1> QED BY <1>1, InitBody DEF IInv

\* get and every callback keep the invariant.
LEMMA NextIInv == IInv /\ [Next]_vars => IInv'
<1> SUFFICES ASSUME IInv, [Next]_vars PROVE IInv'
  OBVIOUS
<1>1. BodyInv /\ HeaderInv /\ TypeInv
  BY DEF IInv, BodyInv
<1>2. CASE GetRejected
  <2>1. BodyInv'
    BY <1>1, <1>2, NewTransferBody DEF GetRejected
  <2>2. pc' = "idle" /\ result' # "response"
    BY <1>2 DEF GetRejected, NewTransfer
  <2> QED BY <2>1, <2>2, OutsideHeaders DEF IInv
<1>3. CASE Get
  <2>1. BodyInv'
    BY <1>1, <1>3, NewTransferBody DEF Get
  <2>2. pc' = "perform" /\ result' = "none" /\ log' = <<>> /\ stage' = "status"
    BY <1>3 DEF Get, NewTransfer
  <2>3. Len(log') = 0 /\ 1..Len(log') = {}
    BY <2>2
  <2>4. HeaderInv'
    BY <2>2, <2>3 DEF HeaderInv, Reading, HeadersOfLastResponse
  <2> QED BY <2>1, <2>4 DEF IInv
<1>4. ASSUME NEW k \in {"info", "redirect", "final"}, NEW colon \in BOOLEAN, Status(k, colon)
      PROVE  IInv'
  <2> DEFINE line == [type |-> "status", colon |-> colon, name |-> "HTTP/",
                      from |-> ResponseNumber]
  <2>1. line \in Line
    BY <1>1, LogTypes DEF Line
  <2>2. /\ pc = "perform" /\ Deliver(line) /\ UNCHANGED <<config, offered>>
        /\ stage' = "fields" /\ kind' = k /\ infos' \in Nat /\ redirects' \in Nat
    BY <1>1, <1>4, LogTypes DEF Status
  <2> HIDE DEF line, Line
  <2>3. BodyInv'
    BY <1>1, <2>1, <2>2, DeliverBody
  <2> QED BY <1>4, <2>3, StatusHeaders DEF IInv
<1>5. ASSUME NEW name \in FieldNames, Field(name)
      PROVE  IInv'
  <2> DEFINE line == [type |-> "field", colon |-> TRUE, name |-> name,
                      from |-> ResponseNumber]
  <2>1. line \in Line
    BY <1>1, LogTypes DEF Line
  <2>2. /\ pc = "perform" /\ Deliver(line) /\ UNCHANGED <<config, offered, stage, kind>>
        /\ infos' \in Nat /\ redirects' \in Nat
    BY <1>1, <1>5, LogTypes DEF Field
  <2>3. stage' \in {"status", "fields", "body"} /\ kind' \in {"info", "redirect", "final"}
    BY <1>1, <2>2 DEF TypeInv
  <2> HIDE DEF line, Line
  <2>4. BodyInv'
    BY <1>1, <2>1, <2>2, <2>3, DeliverBody
  <2> QED BY <1>5, <2>4, FieldHeaders DEF IInv
<1>6. CASE Blank
  <2> DEFINE line == [type |-> "blank", colon |-> FALSE, name |-> "",
                      from |-> ResponseNumber]
  <2>1. line \in Line
    BY <1>1, LogTypes DEF Line
  <2>2. /\ pc = "perform" /\ Deliver(line) /\ UNCHANGED <<config, offered, kind>>
        /\ stage' \in {"status", "fields", "body"}
        /\ infos' \in {infos, infos + 1} /\ redirects' \in {redirects, redirects + 1}
    BY <1>6 DEF Blank
  <2>3. infos' \in Nat /\ redirects' \in Nat /\ kind' \in {"info", "redirect", "final"}
    <3>1. {infos, infos + 1} \subseteq Nat /\ {redirects, redirects + 1} \subseteq Nat
      BY <1>1, LogTypes
    <3> QED BY <1>1, <2>2, <3>1, LogTypes
  <2> HIDE DEF line, Line
  <2>4. BodyInv'
    BY <1>1, <2>1, <2>2, <2>3, DeliverBody
  <2> QED BY <1>6, <2>4, BlankHeaders DEF IInv
<1>7. ASSUME NEW size \in Sizes, NEW count \in Counts, NEW fails \in BOOLEAN,
             Chunk(size, count, fails)
      PROVE  IInv'
  <2>1. BodyInv'
    BY <1>1, <1>7, ChunkBody
  <2> DEFINE w == write_callback(size, count, fails)
  <2>2. w.sink.headers = sink.headers
    <3>1. w.sink \in {sink, [sink EXCEPT !.overflowed = TRUE],
                      [sink EXCEPT !.body = @ + Sized(size * count)]}
      BY DEF write_callback
    <3> QED BY <1>1, <3>1 DEF TypeInv
  <2> HIDE DEF w
  <2>3. /\ pc = "perform" /\ stage = "body" /\ sink' = w.sink
        /\ UNCHANGED <<stage, infos, redirects, log>>
        /\ GoOn \/ pc' = "idle"
    BY <1>7 DEF Chunk, Finish, w
  <2> QED BY <2>1, <2>2, <2>3, NoLineHeaders DEF IInv
<1>8. ASSUME NEW ok \in BOOLEAN, pc = "perform", ok => stage = "body",
             Finish(ok, sink), UNCHANGED <<config, sink, curl>>
      PROVE  IInv'
  <2>1. pc' = "idle" /\ (result' = "response" => ok)
    BY <1>8 DEF Finish, Outcome
  <2>2. TypeInv'
    BY <1>1, <1>8, <2>1 DEF TypeInv, curl
  <2>3. BodyInv'
    BY <1>1, <1>8, <2>2, FinishBody DEF curl
  <2>4. HeaderInv'
    BY <1>8, <2>1, NoLineHeaders DEF curl
  <2> QED BY <2>3, <2>4 DEF IInv
<1>9. CASE Complete
  BY <1>8, <1>9 DEF Complete
<1>10. CASE Break
  BY <1>8, <1>10 DEF Break
<1>11. CASE UNCHANGED vars
  <2>1. BodyInv'
    BY <1>1, <1>11 DEF vars, curl, BodyInv, TypeInv, Running, BodyWithinLimit,
                       ResponseComplete, LimitReported
  <2>2. HeaderInv'
    BY <1>1, <1>11 DEF vars, curl, HeaderInv, Reading, HeadersOfLastResponse, LastLines,
                       ResponseNumber
  <2> QED BY <2>1, <2>2 DEF IInv
<1> QED BY <1>2, <1>3, <1>4, <1>5, <1>6, <1>7, <1>9, <1>10, <1>11 DEF Next

\* The inductive invariant holds in every reachable state.
LEMMA Invariance == Spec => []IInv
BY InitIInv, NextIInv, PTL DEF Spec
-----------------------------------------------------------------------------
\* write_callback never lets the body grow past max_response_bytes.
THEOREM BodyWithinLimitTheorem == Spec => []BodyWithinLimit
<1>1. IInv => BodyWithinLimit
  BY DEF IInv, BodyInv
<1> QED BY <1>1, Invariance, PTL

\* get returns a response only with every byte libcurl offered.
THEOREM ResponseCompleteTheorem == Spec => []ResponseComplete
<1>1. IInv => ResponseComplete
  BY DEF IInv, BodyInv
<1> QED BY <1>1, Invariance, PTL

\* header_callback leaves exactly the lines of the last response.
THEOREM HeadersOfLastResponseTheorem == Spec => []HeadersOfLastResponse
<1>1. IInv => HeadersOfLastResponse
  BY DEF IInv, HeaderInv
<1> QED BY <1>1, Invariance, PTL

\* get reports InvalidRequest for a body beyond the limit, and for nothing
\* else that happens during a transfer.
THEOREM LimitReportedTheorem == Spec => []LimitReported
<1>1. IInv => LimitReported
  BY DEF IInv, BodyInv
<1> QED BY <1>1, Invariance, PTL
-----------------------------------------------------------------------------
(* The life of HttpClient objects: ownership of the Impls and the libcurl  *)
(* runtime, for any number of objects and Impls.                           *)

ClientTypeInv ==
    /\ runtime \in {"unborn", "up", "failed", "down"}
    /\ cleanups = IF runtime = "down" THEN 1 ELSE 0
    /\ static_ref \in BOOLEAN
    /\ impl \in [Alive -> Impls \cup {null}]
    /\ state \in [Impls -> {"unused", "live", "closing", "gone"}]
    /\ handle \in [Impls -> {"null", "open", "closed"}]

\* Who points to which Impl.
Owned == \A i \in Impls : state[i] = "live" => \E o \in Alive : impl[o] = i
Unshared == \A o, p \in Alive : impl[o] = impl[p] /\ impl[o] # null => o = p
NoDangling == \A o \in Alive : impl[o] # null => state[impl[o]] = "live"

\* An open handle belongs to an Impl that still holds the runtime.
OpenIsLive == \A i \in Impls : handle[i] = "open" => state[i] = "live" /\ runtime = "up"

\* The runtime is up exactly as long as someone holds it.
Counted ==
    /\ runtime = "unborn" => ~static_ref /\ \A i \in Impls : state[i] = "unused"
    /\ runtime = "up" => static_ref \/ \E i \in Impls : Holds(i)
    /\ runtime = "down" => ~static_ref /\ \A i \in Impls : ~Holds(i)

OwnershipInv == ClientTypeInv /\ Owned /\ Unshared /\ NoDangling /\ OpenIsLive /\ Counted
-----------------------------------------------------------------------------
\* The initial state: no object, no Impl in use, libcurl not initialised.
LEMMA InitOwnership == LifeInit => OwnershipInv
<1> SUFFICES ASSUME LifeInit PROVE OwnershipInv
  OBVIOUS
<1>1. Alive = {}
  BY DEF LifeInit, Alive
<1>2. ClientTypeInv
  BY <1>1 DEF LifeInit, ClientTypeInv, Alive
<1>3. Owned /\ Unshared /\ NoDangling /\ OpenIsLive /\ Counted
  BY <1>1 DEF LifeInit, Owned, Unshared, NoDangling, OpenIsLive, Counted
<1> QED BY <1>2, <1>3 DEF OwnershipInv

\* A constructor takes an unused Impl, and a reference to the runtime.
LEMMA ConstructStep ==
    ASSUME OwnershipInv, NEW o \in Objects, NEW i \in Impls, Construct(o, i)
    PROVE  OwnershipInv'
<1> USE DEF OwnershipInv
<1>1. /\ o \notin Alive
      /\ state[i] = "unused"
      /\ state' = [state EXCEPT ![i] = "live"]
      /\ impl' = [p \in Alive \cup {o} |-> IF p = o THEN i ELSE impl[p]]
      /\ cleanups' = cleanups
      /\ static_ref' = TRUE
      /\ runtime # "unborn" => static_ref /\ runtime' = runtime
      /\ runtime = "unborn" => runtime' \in {"up", "failed"}
  BY DEF Construct, Runtime
<1>2. PICK h \in {"open", "null"} : /\ handle' = [handle EXCEPT ![i] = h]
                                    /\ h = "open" => runtime' = "up"
  BY DEF Construct
<1>3. /\ Alive' = Alive \cup {o}
      /\ impl'[o] = i
      /\ \A p \in Alive : p # o /\ impl'[p] = impl[p]
      /\ \A p \in Alive : impl[p] \in Impls \cup {null}
  BY <1>1 DEF Alive, ClientTypeInv
<1>4. /\ state'[i] = "live"
      /\ \A j \in Impls : j # i => state'[j] = state[j]
      /\ handle'[i] = h
      /\ \A j \in Impls : j # i => handle'[j] = handle[j]
  BY <1>1, <1>2 DEF ClientTypeInv
<1>5. runtime # "down" /\ runtime' # "down" /\ runtime' # "unborn"
  BY <1>1 DEF Counted, ClientTypeInv
<1>6. ClientTypeInv'
  <2>1. impl' \in [Alive' -> Impls \cup {null}]
    BY <1>1, <1>3
  <2> QED BY <1>1, <1>2, <1>5, <2>1 DEF ClientTypeInv
<1>7. Owned'
  BY <1>3, <1>4 DEF Owned
<1>8. \A p \in Alive : impl[p] # i
  BY <1>1, NullAssumption DEF NoDangling
<1>9. Unshared'
  BY <1>3, <1>8 DEF Unshared
<1>10. NoDangling'
  BY <1>3, <1>4, <1>8 DEF NoDangling
<1>11. OpenIsLive'
  BY <1>1, <1>2, <1>4 DEF OpenIsLive
<1>12. Counted'
  BY <1>1, <1>5 DEF Counted
<1> QED BY <1>6, <1>7, <1>9, <1>10, <1>11, <1>12

\* Moving an Impl to a new object leaves null behind.
LEMMA MoveConstructStep ==
    ASSUME OwnershipInv, NEW o \in Objects, NEW from \in Objects, MoveConstruct(o, from)
    PROVE  OwnershipInv'
<1> USE DEF OwnershipInv
<1>1. /\ o \notin Alive /\ from \in Alive
      /\ impl' = [p \in Alive \cup {o} |->
                     IF p = o THEN impl[from] ELSE IF p = from THEN null ELSE impl[p]]
      /\ UNCHANGED <<runtime, cleanups, static_ref, state, handle>>
  BY DEF MoveConstruct
<1>2. /\ Alive' = Alive \cup {o}
      /\ impl'[o] = impl[from]
      /\ impl'[from] = null
      /\ \A p \in Alive : p # o /\ (p # from => impl'[p] = impl[p])
      /\ \A p \in Alive : impl[p] \in Impls \cup {null}
  BY <1>1 DEF Alive, ClientTypeInv
<1>3. impl' \in [Alive' -> Impls \cup {null}]
  BY <1>1, <1>2
<1>4. ClientTypeInv'
  BY <1>1, <1>3 DEF ClientTypeInv
<1>5. Owned'
  <2> SUFFICES ASSUME NEW i \in Impls, state[i] = "live"
               PROVE  \E p \in Alive' : impl'[p] = i
    BY <1>1 DEF Owned
  <2>1. PICK p \in Alive : impl[p] = i
    BY DEF Owned
  <2> QED BY <1>1, <1>2, <2>1
<1>6. Unshared'
  BY <1>1, <1>2 DEF Unshared
<1>7. NoDangling'
  BY <1>1, <1>2 DEF NoDangling
<1>8. OpenIsLive' /\ Counted'
  BY <1>1 DEF OpenIsLive, Counted, Holds
<1> QED BY <1>4, <1>5, <1>6, <1>7, <1>8

\* The body of ~Impl runs for the Impl an object gives up: when its owner
\* and only its owner lets go of it, the rest of the invariant is kept.
LEMMA CloseImplStep ==
    ASSUME OwnershipInv, NEW i \in Impls \cup {null}, CloseImpl(i),
           i # null => state[i] = "live",
           UNCHANGED <<runtime, cleanups, static_ref>>
    PROVE  /\ state' \in [Impls -> {"unused", "live", "closing", "gone"}]
           /\ handle' \in [Impls -> {"null", "open", "closed"}]
           /\ \A j \in Impls : j # i => state'[j] = state[j]
           /\ i # null => state'[i] = "closing"
           /\ OpenIsLive'
           /\ Counted'
<1> USE DEF OwnershipInv
<1>1. CASE i = null
  <2>1. UNCHANGED <<state, handle>>
    BY <1>1 DEF CloseImpl
  <2> QED BY <1>1, <2>1 DEF ClientTypeInv, OpenIsLive, Counted, Holds
<1>2. CASE i # null
  <2>1. /\ i \in Impls
        /\ state' = [state EXCEPT ![i] = "closing"]
        /\ handle' = [handle EXCEPT ![i] = IF @ = "open" THEN "closed" ELSE @]
    BY <1>2 DEF CloseImpl
  <2>2. /\ state' \in [Impls -> {"unused", "live", "closing", "gone"}]
        /\ handle' \in [Impls -> {"null", "open", "closed"}]
        /\ \A j \in Impls : j # i => state'[j] = state[j] /\ handle'[j] = handle[j]
        /\ state'[i] = "closing" /\ handle'[i] # "open"
    BY <2>1 DEF ClientTypeInv
  <2>3. OpenIsLive'
    BY <2>2 DEF OpenIsLive
  <2>4. Holds(i) /\ \A j \in Impls : Holds(j)' <=> Holds(j)
    BY <1>2, <2>1, <2>2 DEF Holds
  <2>5. runtime # "unborn" /\ runtime # "down"
    BY <1>2, <2>1, <2>4 DEF Counted
  <2>6. Counted'
    BY <2>4, <2>5 DEF Counted
  <2> QED BY <2>2, <2>3, <2>6
<1> QED BY <1>1, <1>2

\* Move assignment destroys the Impl of the target and moves the other one.
LEMMA MoveAssignStep ==
    ASSUME OwnershipInv, NEW o \in Objects, NEW from \in Objects, MoveAssign(o, from)
    PROVE  OwnershipInv'
<1> USE DEF OwnershipInv
<1>1. /\ o \in Alive /\ from \in Alive /\ o # from
      /\ impl' = [impl EXCEPT ![o] = impl[from], ![from] = null]
      /\ CloseImpl(impl[o])
      /\ UNCHANGED <<runtime, cleanups, static_ref>>
  BY DEF MoveAssign
<1>2. /\ Alive' = Alive
      /\ impl' \in [Alive' -> Impls \cup {null}]
      /\ impl'[o] = impl[from]
      /\ impl'[from] = null
      /\ \A p \in Alive : p # o /\ p # from => impl'[p] = impl[p]
      /\ impl[o] \in Impls \cup {null}
  BY <1>1 DEF Alive, ClientTypeInv
<1>3. impl[o] # null => state[impl[o]] = "live"
  BY <1>1 DEF NoDangling
<1>4. /\ state' \in [Impls -> {"unused", "live", "closing", "gone"}]
      /\ handle' \in [Impls -> {"null", "open", "closed"}]
      /\ \A j \in Impls : j # impl[o] => state'[j] = state[j]
      /\ impl[o] # null => state'[impl[o]] = "closing"
      /\ OpenIsLive'
      /\ Counted'
  BY <1>1, <1>2, <1>3, CloseImplStep
<1>5. ClientTypeInv'
  BY <1>1, <1>2, <1>4 DEF ClientTypeInv
<1>6. Owned'
  <2> SUFFICES ASSUME NEW i \in Impls, state'[i] = "live"
               PROVE  \E p \in Alive : impl'[p] = i
    BY <1>2 DEF Owned
  <2>1. i # impl[o] /\ state[i] = "live"
    BY <1>2, <1>4, NullAssumption
  <2>2. PICK p \in Alive : impl[p] = i
    BY <2>1 DEF Owned
  <2> QED BY <1>1, <1>2, <2>1, <2>2
<1>7. Unshared'
  BY <1>1, <1>2 DEF Unshared
<1>8. NoDangling'
  <2> SUFFICES ASSUME NEW p \in Alive, impl'[p] # null
               PROVE  state'[impl'[p]] = "live"
    BY <1>2 DEF NoDangling
  <2>1. PICK q \in Alive : q # o /\ impl'[p] = impl[q]
    BY <1>1, <1>2
  <2>2. impl[q] \in Impls /\ impl[q] # impl[o] /\ state[impl[q]] = "live"
    BY <1>1, <2>1 DEF ClientTypeInv, Unshared, NoDangling
  <2> QED BY <1>4, <2>1, <2>2
<1> QED BY <1>4, <1>5, <1>6, <1>7, <1>8

\* A destructor destroys the Impl its object owns.
LEMMA DestroyStep ==
    ASSUME OwnershipInv, NEW o \in Objects, Destroy(o)
    PROVE  OwnershipInv'
<1> USE DEF OwnershipInv
<1>1. /\ o \in Alive
      /\ impl' = [p \in Alive \ {o} |-> impl[p]]
      /\ CloseImpl(impl[o])
      /\ UNCHANGED <<runtime, cleanups, static_ref>>
  BY DEF Destroy
<1>2. /\ Alive' = Alive \ {o}
      /\ impl' \in [Alive' -> Impls \cup {null}]
      /\ \A p \in Alive' : p \in Alive /\ impl'[p] = impl[p]
      /\ impl[o] \in Impls \cup {null}
  BY <1>1 DEF Alive, ClientTypeInv
<1>3. impl[o] # null => state[impl[o]] = "live"
  BY <1>1 DEF NoDangling
<1>4. /\ state' \in [Impls -> {"unused", "live", "closing", "gone"}]
      /\ handle' \in [Impls -> {"null", "open", "closed"}]
      /\ \A j \in Impls : j # impl[o] => state'[j] = state[j]
      /\ impl[o] # null => state'[impl[o]] = "closing"
      /\ OpenIsLive'
      /\ Counted'
  BY <1>1, <1>2, <1>3, CloseImplStep
<1>5. ClientTypeInv'
  BY <1>1, <1>2, <1>4 DEF ClientTypeInv
<1>6. Owned'
  <2> SUFFICES ASSUME NEW i \in Impls, state'[i] = "live"
               PROVE  \E p \in Alive' : impl'[p] = i
    BY DEF Owned
  <2>1. i # impl[o] /\ state[i] = "live"
    BY <1>2, <1>4, NullAssumption
  <2>2. PICK p \in Alive : impl[p] = i
    BY <2>1 DEF Owned
  <2> QED BY <1>2, <2>1, <2>2
<1>7. Unshared'
  BY <1>2 DEF Unshared
<1>8. NoDangling'
  <2> SUFFICES ASSUME NEW p \in Alive', impl[p] # null
               PROVE  state'[impl[p]] = "live"
    BY <1>2 DEF NoDangling
  <2>1. impl[p] \in Impls /\ impl[p] # impl[o] /\ state[impl[p]] = "live"
    BY <1>1, <1>2 DEF ClientTypeInv, Unshared, NoDangling
  <2> QED BY <1>4, <2>1
<1> QED BY <1>4, <1>5, <1>6, <1>7, <1>8

\* Dropping a reference cleans libcurl up exactly when it was the last one.
LEMMA DropRuntimeStep ==
    ASSUME ClientTypeInv, NEW last \in BOOLEAN, DropRuntime(last)
    PROVE  /\ runtime' \in {"unborn", "up", "failed", "down"}
           /\ runtime = "down" \/ cleanups' = IF runtime' = "down" THEN 1 ELSE 0
           /\ last /\ runtime = "up" => runtime' = "down"
           /\ ~last \/ runtime # "up" => runtime' = runtime /\ cleanups' = cleanups
BY DEF ClientTypeInv, DropRuntime

\* The members of an Impl go after its handle.
LEMMA ReleaseGlobalStep ==
    ASSUME OwnershipInv, NEW i \in Impls, ReleaseGlobal(i)
    PROVE  OwnershipInv'
<1> USE DEF OwnershipInv
<1> DEFINE last == ~static_ref /\ \A j \in Impls \ {i} : ~Holds(j)
<1>1. /\ state[i] = "closing"
      /\ state' = [state EXCEPT ![i] = "gone"]
      /\ DropRuntime(last)
      /\ UNCHANGED <<static_ref, impl, handle>>
  BY DEF ReleaseGlobal
<1>2. last \in BOOLEAN
  BY DEF ClientTypeInv
<1>3. /\ runtime' \in {"unborn", "up", "failed", "down"}
      /\ runtime = "down" \/ cleanups' = IF runtime' = "down" THEN 1 ELSE 0
      /\ last /\ runtime = "up" => runtime' = "down"
      /\ ~last \/ runtime # "up" => runtime' = runtime /\ cleanups' = cleanups
  BY <1>1, <1>2, DropRuntimeStep
<1>4. /\ state' \in [Impls -> {"unused", "live", "closing", "gone"}]
      /\ state'[i] = "gone"
      /\ \A j \in Impls : j # i => state'[j] = state[j]
  BY <1>1 DEF ClientTypeInv
<1>5. Alive' = Alive /\ impl' = impl
  BY <1>1 DEF Alive
<1>6. Holds(i) /\ ~Holds(i)' /\ \A j \in Impls : j # i => (Holds(j)' <=> Holds(j))
  BY <1>1, <1>4 DEF Holds
<1>7. runtime # "unborn" /\ runtime # "down"
  BY <1>1, <1>6 DEF Counted
<1>8. ClientTypeInv'
  BY <1>1, <1>3, <1>4, <1>5, <1>7 DEF ClientTypeInv
<1>9. Owned'
  BY <1>4, <1>5 DEF Owned
<1>10. Unshared'
  BY <1>5 DEF Unshared
<1>11. NoDangling'
  <2>1. \A o \in Alive : impl[o] \in Impls \cup {null} /\ impl[o] # i
    BY <1>1, NullAssumption DEF ClientTypeInv, NoDangling
  <2> QED BY <1>4, <1>5, <2>1 DEF NoDangling
<1>12. OpenIsLive'
  <2> SUFFICES ASSUME NEW j \in Impls, handle[j] = "open"
               PROVE  state'[j] = "live" /\ runtime' = "up"
    BY <1>1 DEF OpenIsLive
  <2>1. state[j] = "live" /\ runtime = "up" /\ j # i
    BY <1>1 DEF OpenIsLive
  <2>2. Holds(j)
    BY <2>1 DEF Holds
  <2> QED BY <1>3, <1>4, <2>1, <2>2
<1>13. Counted'
  <2>1. CASE last /\ runtime = "up"
    <3>1. runtime' = "down" /\ ~static_ref'
      BY <1>1, <1>3, <2>1
    <3>2. \A j \in Impls : ~Holds(j)'
      BY <1>6, <2>1
    <3> QED BY <3>1, <3>2 DEF Counted
  <2>2. CASE ~last \/ runtime # "up"
    <3>1. runtime' = runtime
      BY <1>3, <2>2
    <3>2. runtime = "up" => static_ref' \/ \E j \in Impls : Holds(j)'
      BY <1>1, <1>6, <2>2 DEF ClientTypeInv
    <3> QED BY <1>7, <3>1, <3>2 DEF Counted
  <2> QED BY <2>1, <2>2
<1> QED BY <1>8, <1>9, <1>10, <1>11, <1>12, <1>13

\* The end of the process drops the static reference.
LEMMA ExitStep == ASSUME OwnershipInv, Exit PROVE OwnershipInv'
<1> USE DEF OwnershipInv
<1> DEFINE last == \A j \in Impls : ~Holds(j)
<1>1. /\ static_ref /\ static_ref' = FALSE
      /\ DropRuntime(last)
      /\ UNCHANGED <<impl, state, handle>>
  BY DEF Exit
<1>2. /\ runtime' \in {"unborn", "up", "failed", "down"}
      /\ runtime = "down" \/ cleanups' = IF runtime' = "down" THEN 1 ELSE 0
      /\ last /\ runtime = "up" => runtime' = "down"
      /\ ~last \/ runtime # "up" => runtime' = runtime /\ cleanups' = cleanups
  BY <1>1, DropRuntimeStep
<1>3. runtime # "unborn" /\ runtime # "down"
  BY <1>1 DEF Counted
<1>4. Alive' = Alive /\ \A j \in Impls : Holds(j)' <=> Holds(j)
  BY <1>1 DEF Alive, Holds
<1>5. ClientTypeInv' /\ Owned' /\ Unshared' /\ NoDangling'
  <2>1. ClientTypeInv'
    BY <1>1, <1>2, <1>3, <1>4 DEF ClientTypeInv
  <2>2. Owned'
    BY <1>1, <1>4 DEF Owned
  <2>3. Unshared' /\ NoDangling'
    BY <1>1, <1>4 DEF Unshared, NoDangling
  <2> QED BY <2>1, <2>2, <2>3
<1>6. OpenIsLive'
  <2> SUFFICES ASSUME NEW j \in Impls, handle[j] = "open"
               PROVE  state[j] = "live" /\ runtime' = "up"
    BY <1>1 DEF OpenIsLive
  <2>1. state[j] = "live" /\ runtime = "up" /\ Holds(j)
    BY DEF OpenIsLive, Holds
  <2> QED BY <1>2, <2>1
<1>7. Counted'
  BY <1>1, <1>2, <1>3, <1>4 DEF Counted
<1> QED BY <1>5, <1>6, <1>7

\* Ownership and the reference count of the runtime are inductive.
LEMMA NextOwnership == OwnershipInv /\ [LifeNext]_life_vars => OwnershipInv'
<1> SUFFICES ASSUME OwnershipInv, [LifeNext]_life_vars PROVE OwnershipInv'
  OBVIOUS
<1>1. ASSUME NEW o \in Objects, NEW i \in Impls, Construct(o, i) PROVE OwnershipInv'
  BY <1>1, ConstructStep
<1>2. ASSUME NEW o \in Objects, NEW from \in Objects, MoveConstruct(o, from) PROVE OwnershipInv'
  BY <1>2, MoveConstructStep
<1>3. ASSUME NEW o \in Objects, NEW from \in Objects, MoveAssign(o, from) PROVE OwnershipInv'
  BY <1>3, MoveAssignStep
<1>4. ASSUME NEW o \in Objects, Destroy(o) PROVE OwnershipInv'
  BY <1>4, DestroyStep
<1>5. ASSUME UNCHANGED <<runtime, cleanups, static_ref, impl, state, handle>> PROVE OwnershipInv'
  BY <1>5 DEF OwnershipInv, ClientTypeInv, Owned, Unshared, NoDangling, OpenIsLive, Counted, Alive, Holds
<1>6. ASSUME NEW o \in Objects, CheckHandle(o) PROVE OwnershipInv'
  BY <1>5, <1>6 DEF CheckHandle
<1>7. ASSUME NEW i \in Impls, ReleaseGlobal(i) PROVE OwnershipInv'
  BY <1>7, ReleaseGlobalStep
<1>8. CASE Exit
  BY <1>8, ExitStep
<1>9. CASE UNCHANGED life_vars
  BY <1>5, <1>9 DEF life_vars
<1> QED BY <1>1, <1>2, <1>3, <1>4, <1>6, <1>7, <1>8, <1>9 DEF LifeNext

\* The inductive invariant holds in every reachable state.
LEMMA OwnershipInvariance == LifeSpec => []OwnershipInv
BY InitOwnership, NextOwnership, PTL DEF LifeSpec
-----------------------------------------------------------------------------
\* Impl keeps its shared_ptr to the runtime behind the handle it closes:
\* libcurl is up while any easy handle is open, in whatever order objects
\* and the process end.
THEOREM RuntimeOutlivesHandlesTheorem == LifeSpec => []RuntimeOutlivesHandles
<1>1. OwnershipInv => RuntimeOutlivesHandles
  BY DEF OwnershipInv, OpenIsLive, RuntimeOutlivesHandles
<1> QED BY <1>1, OwnershipInvariance, PTL

\* Construction, moves and destruction pass the unique_ptr on: a live Impl
\* has exactly one owner, any other has none.
THEOREM OneOwnerTheorem == LifeSpec => []OneOwner
<1>1. OwnershipInv => OneOwner
  <2> SUFFICES ASSUME OwnershipInv
               PROVE  \A i \in Impls :
                          Cardinality({o \in Alive : impl[o] = i})
                              = IF state[i] = "live" THEN 1 ELSE 0
    BY DEF OneOwner
  <2> TAKE i \in Impls
  <2>1. CASE state[i] = "live"
    <3>1. PICK o \in Alive : impl[o] = i
      BY <2>1 DEF OwnershipInv, Owned
    <3>2. {p \in Alive : impl[p] = i} = {o}
      BY <3>1, NullAssumption DEF OwnershipInv, Unshared
    <3> QED BY <2>1, <3>2, FS_Singleton
  <2>2. CASE state[i] # "live"
    <3>1. {p \in Alive : impl[p] = i} = {}
      BY <2>2, NullAssumption DEF OwnershipInv, NoDangling
    <3> QED BY <2>2, <3>1, FS_EmptySet
  <2> QED BY <2>1, <2>2
<1> QED BY <1>1, OwnershipInvariance, PTL

\* ~CurlRuntime runs once, when the static reference and every Impl are
\* gone, and finds every handle closed.
THEOREM CleanedUpTheorem == LifeSpec => []CleanedUp
<1>1. OwnershipInv => CleanedUp
  <2> SUFFICES ASSUME OwnershipInv, ~static_ref, runtime # "unborn",
                      \A i \in Impls : ~Holds(i)
               PROVE  /\ runtime \in {"down", "failed"}
                      /\ cleanups = IF runtime = "down" THEN 1 ELSE 0
                      /\ \A i \in Impls : handle[i] # "open"
    BY DEF CleanedUp
  <2>1. runtime \in {"down", "failed"}
    BY DEF OwnershipInv, ClientTypeInv, Counted
  <2>2. \A i \in Impls : handle[i] # "open"
    BY <2>1 DEF OwnershipInv, OpenIsLive
  <2> QED BY <2>1, <2>2 DEF OwnershipInv, ClientTypeInv
<1> QED BY <1>1, OwnershipInvariance, PTL
=============================================================================
