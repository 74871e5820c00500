----------------------- MODULE PaginatedIteratorProofs -----------------------
(***************************************************************************)
(* The pages an iterator fetches and delivers, for every set of cursors    *)
(* and limits and for collections of any length.                           *)
(***************************************************************************)
EXTENDS PaginatedIterator, TLAPS

\* What seen_cursors_ stands for: the cursor of every page fetched and the
\* cursor of the next one, where they are not empty.
Remembered ==
    /\ params.cursor \in Cursors => params.cursor \in seen_cursors
    /\ \A i \in Pages : fetched[i].at.cursor \in Cursors => fetched[i].at.cursor \in seen_cursors
    /\ \A c \in seen_cursors : c = params.cursor \/ \E i \in Pages : fetched[i].at.cursor = c

\* Only the first page is fetched without a cursor; no cursor is used twice.
Distinct ==
    /\ \A i \in Pages : i # 1 => fetched[i].at.cursor \in Cursors
    /\ \A i, j \in Pages : i # j => fetched[i].at.cursor # fetched[j].at.cursor

\* The cursor of the next fetch is a new one.
Ahead ==
    ~exhausted =>
        /\ fetched # <<>> => params.cursor \in Cursors
        /\ \A i \in Pages : fetched[i].at.cursor # params.cursor

Walk == TypeOK /\ Remembered /\ Distinct /\ Ahead /\ FollowsCursors /\ ExhaustedAtEnd

\* The pages the caller has and collect_all holds for it.
Given == delivered \o all

InOrder ==
    /\ \A i \in 1..Len(Given) : Given[i] \in Pages
    /\ \A i, j \in 1..Len(Given) : i < j => Given[i] < Given[j]
    /\ pc = "idle" => all = <<>>
    /\ ~failed => Given = [i \in Pages |-> i]

IInv == Walk /\ InOrder
-----------------------------------------------------------------------------
(* The operators of the sequences used.                                    *)

\* What Append returns.
LEMMA AppendFacts ==
    ASSUME NEW S, NEW s \in Seq(S), NEW e \in S
    PROVE  /\ Append(s, e) \in Seq(S)
           /\ Append(s, e) # <<>>
           /\ Len(s) \in Nat
           /\ Len(Append(s, e)) = Len(s) + 1
           /\ 1..(Len(s) + 1) = (1..Len(s)) \cup {Len(s) + 1}
           /\ Len(s) + 1 \notin 1..Len(s)
           /\ \A i \in 1..Len(s) : Append(s, e)[i] = s[i]
           /\ Append(s, e)[Len(s) + 1] = e
OBVIOUS

\* Every page was fetched with parameters of their type.
LEMMA PageParams ==
    ASSUME TypeOK, NEW i \in Pages
    PROVE  fetched[i].at \in PaginationParams
<1> DEFINE PageType == [at : PaginationParams, next : OptionalCursor]
<1>1. fetched \in Seq(PageType)
  BY DEF TypeOK
<1>2. fetched[i] \in PageType
  <2> HIDE DEF PageType
  <2> QED BY <1>1 DEF Pages
<1> QED BY <1>2

\* A page's query names its cursor: two pages at different cursors, one of
\* them a cursor proper, have different queries.
LEMMA QueryNamesCursor ==
    ASSUME NEW p \in PaginationParams, NEW q \in PaginationParams,
           p.cursor \in Cursors, p.cursor # q.cursor
    PROVE  build_paginated_query(p) # build_paginated_query(q)
<1> DEFINE x == <<"cursor", encode_query_value(p.cursor)>>
<1>1. x \in build_paginated_query(p)
  BY DEF build_paginated_query
<1>2. \A c : c # p.cursor => x # <<"cursor", encode_query_value(c)>>
  <2> SUFFICES ASSUME NEW c, encode_query_value(p.cursor) = encode_query_value(c)
               PROVE  c = p.cursor
    OBVIOUS
  <2>1. encode_query_value(p.cursor).encoded = encode_query_value(c).encoded
    OBVIOUS
  <2> QED BY <2>1 DEF encode_query_value
<1>3. \A l : x # <<"limit", l>>
  OBVIOUS
<1>4. x \notin build_paginated_query(q)
  <2> HIDE DEF x
  <2> QED BY <1>2, <1>3 DEF build_paginated_query
<1> QED BY <1>1, <1>4
-----------------------------------------------------------------------------
(* One call of next.                                                       *)

\* The initial state: no page yet, the first cursor remembered.
LEMMA InitIInv == Init => IInv
<1> SUFFICES ASSUME Init PROVE IInv
  OBVIOUS
<1> USE DEF Init
<1>1. Len(fetched) = 0 /\ Pages = {}
  BY DEF Pages
<1>2. TypeOK
  <2>1. /\ fetched \in Seq([at : PaginationParams, next : OptionalCursor])
        /\ all \in Seq(Nat) /\ delivered \in Seq(Nat)
    OBVIOUS
  <2>2. seen_cursors \subseteq Cursors /\ params \in PaginationParams
    OBVIOUS
  <2>3. exhausted \in BOOLEAN /\ pc \in {"idle", "collect"} /\ failed \in BOOLEAN
    OBVIOUS
  <2> QED BY <2>1, <2>2, <2>3 DEF TypeOK
<1>3. Remembered /\ Distinct /\ Ahead /\ FollowsCursors /\ ExhaustedAtEnd
  BY <1>1 DEF Remembered, Distinct, Ahead, FollowsCursors, ExhaustedAtEnd
<1>4. Given = <<>> /\ Len(Given) = 0
  BY DEF Given
<1>5. [i \in Pages |-> i] = <<>>
  BY <1>1
<1>6. InOrder
  BY <1>1, <1>4, <1>5 DEF InOrder
<1> QED BY <1>2, <1>3, <1>6 DEF IInv, Walk

\* A fetched page, good or a repetition, keeps the walk straight: it was
\* fetched at the new cursor, and a page that continues at a cursor seen
\* before ends the walk.
LEMMA FetchStep ==
    ASSUME Walk, ~exhausted, NEW next \in OptionalCursor,
           Advance(next) \/ Repeated(next),
           pc' \in {"idle", "collect"}, all' \in Seq(Nat), delivered' \in Seq(Nat),
           failed' \in BOOLEAN
    PROVE  Walk'
<1> USE DEF Walk
<1> DEFINE n == Len(fetched)
           page == [at |-> params, next |-> next]
           PageType == [at : PaginationParams, next : OptionalCursor]
<1>1. fetched \in Seq(PageType) /\ page \in PageType /\ fetched' = Append(fetched, page)
  BY DEF TypeOK, Advance, Repeated, Page
<1>2. /\ fetched' \in Seq(PageType) /\ fetched' # <<>>
      /\ n \in Nat /\ Len(fetched') = n + 1
      /\ Pages' = Pages \cup {n + 1} /\ n + 1 \notin Pages
      /\ \A i \in Pages : fetched'[i] = fetched[i]
      /\ fetched'[n + 1] = page
  <2> HIDE DEF page, PageType
  <2> QED BY <1>1, AppendFacts DEF Pages
<1>3. /\ has_more(next) <=> next \in Cursors
      /\ params.cursor \in OptionalCursor
      /\ page.at = params /\ page.next = next
  BY CursorAssumption DEF has_more, OptionalCursor, TypeOK, PaginationParams
<1> HIDE DEF page, PageType
<1>5. \/ /\ next \in Cursors /\ next \notin seen_cursors
         /\ seen_cursors' = seen_cursors \cup {next}
         /\ params' = [params EXCEPT !.cursor = next]
         /\ exhausted' = FALSE
      \/ /\ next \notin Cursors
         /\ UNCHANGED <<seen_cursors, params>>
         /\ exhausted' = TRUE
      \/ /\ next \in seen_cursors
         /\ UNCHANGED <<seen_cursors, params>>
         /\ exhausted' = TRUE
  BY <1>3 DEF Advance, Repeated
<1>6. params' \in PaginationParams /\ (~exhausted' => params'.cursor = next)
  BY <1>5 DEF TypeOK, PaginationParams, OptionalCursor
<1>7. TypeOK'
  <2>1. fetched' \in Seq([at : PaginationParams, next : OptionalCursor])
    BY <1>2 DEF PageType
  <2> QED BY <1>5, <1>6, <2>1 DEF TypeOK
<1>8. Remembered'
  <2>1. params'.cursor \in Cursors => params'.cursor \in seen_cursors'
    BY <1>5, <1>6 DEF Remembered
  <2>2. seen_cursors \subseteq seen_cursors'
    BY <1>5
  <2>3. \A i \in Pages' : fetched'[i].at.cursor \in Cursors =>
                              fetched'[i].at.cursor \in seen_cursors'
    BY <1>2, <1>3, <2>2 DEF Remembered
  <2>4. ASSUME NEW c \in seen_cursors'
        PROVE  c = params'.cursor \/ \E i \in Pages' : fetched'[i].at.cursor = c
    <3>1. CASE c \in seen_cursors
      BY <1>2, <1>3, <3>1 DEF Remembered
    <3>2. CASE c \notin seen_cursors
      BY <1>5, <1>6, <3>2
    <3> QED BY <3>1, <3>2
  <2> QED BY <2>1, <2>3, <2>4 DEF Remembered
<1>9. Distinct'
  <2>1. n + 1 # 1 => params.cursor \in Cursors
    <3>1. n + 1 # 1 => fetched # <<>>
      BY <1>1
    <3> QED BY <3>1 DEF Ahead
  <2>2. \A i \in Pages : fetched[i].at.cursor # params.cursor
    BY DEF Ahead
  <2>3. \A i \in Pages' : i # 1 => fetched'[i].at.cursor \in Cursors
    BY <1>2, <1>3, <2>1 DEF Distinct
  <2>4. ASSUME NEW i \in Pages', NEW j \in Pages', i # j
        PROVE  fetched'[i].at.cursor # fetched'[j].at.cursor
    <3>1. CASE i \in Pages /\ j \in Pages
      BY <1>2, <2>4, <3>1 DEF Distinct
    <3>2. CASE i = n + 1 /\ j \in Pages
      BY <1>2, <1>3, <2>2, <3>2
    <3>3. CASE i \in Pages /\ j = n + 1
      BY <1>2, <1>3, <2>2, <3>3
    <3> QED BY <1>2, <2>4, <3>1, <3>2, <3>3
  <2> QED BY <2>3, <2>4 DEF Distinct
<1>10. Ahead'
  <2> SUFFICES ASSUME ~exhausted'
               PROVE  /\ params'.cursor \in Cursors
                      /\ \A i \in Pages' : fetched'[i].at.cursor # params'.cursor
    BY DEF Ahead
  <2>1. next \in Cursors /\ next \notin seen_cursors /\ params'.cursor = next
    BY <1>5, <1>6
  <2>2. next # params.cursor /\ \A i \in Pages : fetched[i].at.cursor # next
    BY <2>1 DEF Remembered
  <2> QED BY <1>2, <1>3, <2>1, <2>2
<1>11. FollowsCursors'
  <2> SUFFICES ASSUME NEW i \in Pages', i = n + 1 => ~exhausted'
               PROVE  (IF i = n + 1 THEN params' ELSE fetched'[i + 1].at).cursor
                          = fetched'[i].next
    BY <1>2 DEF FollowsCursors
  <2>1. CASE i = n + 1
    BY <1>2, <1>3, <1>6, <2>1
  <2>2. CASE i = n /\ i \in Pages
    <3>1. params.cursor = fetched[i].next
      BY <2>2 DEF FollowsCursors
    <3> QED BY <1>2, <1>3, <2>2, <3>1
  <2>3. CASE i \in Pages /\ i # n
    <3>1. i + 1 \in Pages /\ i # n + 1
      BY <1>2, <2>3 DEF Pages
    <3>2. fetched[i + 1].at.cursor = fetched[i].next
      BY <2>3 DEF FollowsCursors
    <3> QED BY <1>2, <2>3, <3>1, <3>2
  <2> QED BY <1>2, <2>1, <2>2, <2>3
<1>12. ExhaustedAtEnd'
  <2> SUFFICES ASSUME exhausted', next \in Cursors
               PROVE  \E i \in Pages' : fetched'[i].at.cursor = next
    BY <1>2, <1>3, CursorAssumption DEF ExhaustedAtEnd, has_more
  <2>1. next \in seen_cursors
    BY <1>5
  <2> QED BY <1>2, <1>3, <2>1 DEF Remembered
<1> QED BY <1>7, <1>8, <1>9, <1>10, <1>11, <1>12

\* A step that fetches nothing, a failed fetch included, leaves the walk
\* where it was.
LEMMA NoFetchStep ==
    ASSUME Walk, UNCHANGED <<seen_cursors, params, exhausted, fetched>>,
           pc' \in {"idle", "collect"}, all' \in Seq(Nat), delivered' \in Seq(Nat),
           failed' \in BOOLEAN
    PROVE  Walk'
BY DEF Walk, TypeOK, Remembered, Distinct, Ahead, FollowsCursors, ExhaustedAtEnd, Pages
-----------------------------------------------------------------------------
(* The pages handed on.                                                    *)

\* A page is handed on as soon as it is fetched.
LEMMA HandOnStep ==
    ASSUME IInv, NEW next \in OptionalCursor, Advance(next),
           Given' = Append(Given, Len(fetched) + 1), failed' = failed,
           pc' = "idle" => all' = <<>>
    PROVE  InOrder'
<1> DEFINE n == Len(fetched)
           g == Given
           page == Page(next)
           PageType == [at : PaginationParams, next : OptionalCursor]
<1>1. fetched \in Seq(PageType) /\ page \in PageType /\ fetched' = Append(fetched, page)
  BY DEF IInv, Walk, TypeOK, Advance, Page
<1>2. n \in Nat /\ Len(fetched') = n + 1 /\ Pages = 1..n /\ Pages' = 1..(n + 1)
  <2> HIDE DEF page, PageType
  <2> QED BY <1>1, AppendFacts DEF Pages
<1>3. g \in Seq(Nat)
  BY DEF IInv, Walk, TypeOK, Given
<1>4. /\ \A i \in 1..Len(g) : g[i] \in 1..n
      /\ \A i, j \in 1..Len(g) : i < j => g[i] < g[j]
      /\ ~failed => g = [i \in 1..n |-> i]
  BY <1>2 DEF IInv, InOrder
<1> HIDE DEF n, g
<1>5. /\ Len(g) \in Nat /\ Len(Given') = Len(g) + 1
      /\ \A i \in 1..Len(g) : Given'[i] = g[i]
      /\ Given'[Len(g) + 1] = n + 1
      /\ Given' = Append(g, n + 1)
  BY <1>2, <1>3 DEF n, g
<1>6. \A i \in 1..Len(Given') : Given'[i] \in Pages'
  BY <1>2, <1>4, <1>5
<1>7. \A i, j \in 1..Len(Given') : i < j => Given'[i] < Given'[j]
  <2> SUFFICES ASSUME NEW i \in 1..(Len(g) + 1), NEW j \in 1..(Len(g) + 1), i < j
               PROVE  Given'[i] < Given'[j]
    BY <1>5
  <2>1. i \in 1..Len(g) /\ Given'[i] = g[i] /\ g[i] \in 1..n
    BY <1>4, <1>5
  <2>2. CASE j = Len(g) + 1
    BY <1>2, <1>5, <2>1, <2>2
  <2>3. CASE j \in 1..Len(g)
    BY <1>4, <1>5, <2>1, <2>3
  <2> QED BY <1>5, <2>2, <2>3
<1>8. ~failed => Given' = [i \in Pages' |-> i]
  <2> SUFFICES ASSUME ~failed PROVE Append(g, n + 1) = [i \in 1..(n + 1) |-> i]
    BY <1>2, <1>5
  <2>1. g = [i \in 1..n |-> i] /\ Len(g) = n
    BY <1>2, <1>4
  <2> QED BY <1>2, <1>3, <2>1
<1> QED BY <1>6, <1>7, <1>8 DEF InOrder

\* An error drops what collect_all holds and hands nothing on.
LEMMA DropStep ==
    ASSUME IInv, failed' = TRUE, delivered' = delivered, all' = <<>>,
           Pages \subseteq Pages'
    PROVE  InOrder'
<1>1. delivered \in Seq(Nat) /\ all \in Seq(Nat)
  BY DEF IInv, Walk, TypeOK
<1>2. /\ Len(delivered) \in Nat /\ Len(Given) \in Nat /\ Len(delivered) <= Len(Given)
      /\ \A i \in 1..Len(delivered) : Given[i] = delivered[i]
  BY <1>1 DEF Given
<1>3. Given' = delivered
  BY <1>1 DEF Given
<1>4. \A i \in 1..Len(delivered) : i \in 1..Len(Given)
  BY <1>2
<1>5. /\ \A i \in 1..Len(delivered) : delivered[i] \in Pages
      /\ \A i, j \in 1..Len(delivered) : i < j => delivered[i] < delivered[j]
  BY <1>2, <1>4 DEF IInv, InOrder
<1> QED BY <1>3, <1>5 DEF InOrder

\* Each step of an iterator keeps the invariant.
LEMMA NextIInv == IInv /\ [Next]_vars => IInv'
<1> SUFFICES ASSUME IInv, [Next]_vars PROVE IInv'
  OBVIOUS
<1>1. /\ Walk /\ InOrder /\ pc \in {"idle", "collect"} /\ failed \in BOOLEAN
      /\ delivered \in Seq(Nat) /\ all \in Seq(Nat) /\ Len(fetched) + 1 \in Nat
      /\ fetched \in Seq([at : PaginationParams, next : OptionalCursor])
  BY DEF IInv, Walk, TypeOK
<1>2. ASSUME NEW next \in OptionalCursor, NextReturns(next) PROVE IInv'
  <2> USE DEF NextReturns
  <2>1. all = <<>> /\ all' = <<>> /\ delivered' \in Seq(Nat)
    BY <1>1, <1>2 DEF InOrder
  <2>2. Walk'
    BY <1>1, <1>2, <2>1, FetchStep
  <2>3. Given' = Append(Given, Len(fetched) + 1)
    BY <1>1, <1>2, <2>1 DEF Given
  <2> QED BY <1>2, <2>1, <2>2, <2>3, HandOnStep DEF IInv
<1>3. ASSUME ~exhausted, FetchFails \/ \E next \in OptionalCursor : Repeated(next),
             pc' = "idle", all' = <<>>, failed' = TRUE, delivered' = delivered
      PROVE  IInv'
  <2>1. CASE FetchFails
    <3>1. Walk'
      BY <1>1, <1>3, <2>1, NoFetchStep DEF FetchFails
    <3>2. Pages' = Pages
      BY <2>1 DEF FetchFails, Pages
    <3> QED BY <1>3, <3>1, <3>2, DropStep DEF IInv
  <2>2. ASSUME NEW next \in OptionalCursor, Repeated(next) PROVE IInv'
    <3>1. Walk'
      BY <1>1, <1>3, <2>2, FetchStep
    <3>2. Pages \subseteq Pages'
      <4>1. Page(next) \in [at : PaginationParams, next : OptionalCursor]
        BY <1>1 DEF Page, Walk, TypeOK
      <4>2. Len(fetched) \in Nat /\ Len(fetched') = Len(fetched) + 1
        BY <1>1, <2>2, <4>1 DEF Repeated
      <4> QED BY <4>2 DEF Pages
    <3> QED BY <1>3, <3>1, <3>2, DropStep DEF IInv
  <2> QED BY <1>3, <2>1, <2>2
<1>4. CASE NextFails
  <2>1. all' = <<>> /\ pc' = "idle"
    BY <1>1, <1>4 DEF NextFails, InOrder
  <2> QED BY <1>3, <1>4, <2>1 DEF NextFails
<1>5. CASE UNCHANGED vars
  <2>1. Walk'
    BY <1>1, <1>5, NoFetchStep DEF vars
  <2>2. InOrder'
    BY <1>1, <1>5 DEF vars, InOrder, Given, Pages
  <2> QED BY <2>1, <2>2 DEF IInv
<1>6. CASE Collect
  <2> USE DEF Collect
  <2>1. Walk'
    BY <1>1, <1>6, NoFetchStep
  <2>2. Given' = Given /\ Pages' = Pages
    BY <1>1, <1>6 DEF InOrder, Given, Pages
  <2>3. InOrder'
    BY <1>1, <1>6, <2>2 DEF InOrder
  <2> QED BY <2>1, <2>3 DEF IInv
<1>7. ASSUME NEW next \in OptionalCursor, CollectPage(next) PROVE IInv'
  <2> USE DEF CollectPage
  <2>1. all' \in Seq(Nat) /\ delivered' \in Seq(Nat) /\ pc' = "collect"
    BY <1>1, <1>7
  <2>2. Walk'
    BY <1>1, <1>7, <2>1, FetchStep
  <2>3. Given' = Append(Given, Len(fetched) + 1)
    BY <1>1, <1>7 DEF Given
  <2> QED BY <1>7, <2>1, <2>2, <2>3, HandOnStep DEF IInv
<1>8. CASE CollectFails
  BY <1>3, <1>8 DEF CollectFails
<1>9. CASE CollectReturns
  <2> USE DEF CollectReturns
  <2>1. all' \in Seq(Nat) /\ delivered' \in Seq(Nat)
    BY <1>1, <1>9
  <2>2. Walk'
    BY <1>1, <1>9, <2>1, NoFetchStep
  <2>3. Given' = Given /\ Pages' = Pages
    BY <1>1, <1>9 DEF Given, Pages
  <2>4. InOrder'
    BY <1>1, <1>9, <2>3 DEF InOrder
  <2> QED BY <2>2, <2>4 DEF IInv
<1>10. CASE NextExhausted
  BY <1>5, <1>10 DEF NextExhausted
<1> QED BY <1>2, <1>4, <1>5, <1>6, <1>7, <1>8, <1>9, <1>10 DEF Next, CollectStep

\* The inductive invariant holds in every reachable state.
LEMMA Invariance == Spec => []IInv
BY InitIInv, NextIInv, PTL DEF Spec
-----------------------------------------------------------------------------
\* The variables of the iterator keep their types.
THEOREM TypeCorrect == Spec => []TypeOK
<1>1. IInv => TypeOK
  BY DEF IInv, Walk
<1> QED BY <1>1, Invariance, PTL

\* next never sends a query it has sent for an earlier page, however the
\* server's cursors loop and whatever the caller retries after an error.
THEOREM NoPageTwiceTheorem == Spec => []NoPageTwice
<1>1. IInv => NoPageTwice
  <2> SUFFICES ASSUME IInv, NEW i \in Pages, NEW j \in Pages, i # j
               PROVE  build_paginated_query(fetched[i].at)
                          # build_paginated_query(fetched[j].at)
    BY DEF NoPageTwice
  <2>1. fetched[i].at \in PaginationParams /\ fetched[j].at \in PaginationParams
    BY PageParams DEF IInv, Walk
  <2>2. fetched[i].at.cursor # fetched[j].at.cursor
    BY DEF IInv, Walk, Distinct
  <2>3. fetched[i].at.cursor \in Cursors \/ fetched[j].at.cursor \in Cursors
    BY DEF IInv, Walk, Distinct
  <2> QED BY <2>1, <2>2, <2>3, QueryNamesCursor
<1> QED BY <1>1, Invariance, PTL

\* next goes on at the cursor the last page named: no page is skipped.
THEOREM FollowsCursorsTheorem == Spec => []FollowsCursors
<1>1. IInv => FollowsCursors
  BY DEF IInv, Walk
<1> QED BY <1>1, Invariance, PTL

\* exhausted_ is set only by a page without a next cursor or by one that
\* leads back, never by an error of the fetch function.
THEOREM ExhaustedAtEndTheorem == Spec => []ExhaustedAtEnd
<1>1. IInv => ExhaustedAtEnd
  BY DEF IInv, Walk
<1> QED BY <1>1, Invariance, PTL

\* next and collect_all deliver the pages in the order of the fetches, each
\* at most once, and all of them as long as no call has failed.
THEOREM DeliveredInOrderTheorem == Spec => []DeliveredInOrder
<1>1. IInv => DeliveredInOrder
  <2> SUFFICES ASSUME IInv PROVE DeliveredInOrder
    OBVIOUS
  <2>1. delivered \in Seq(Nat) /\ all \in Seq(Nat)
    BY DEF IInv, Walk, TypeOK
  <2>2. /\ DOMAIN delivered = 1..Len(delivered)
        /\ \A i \in 1..Len(delivered) : i \in 1..Len(Given) /\ Given[i] = delivered[i]
    BY <2>1 DEF Given
  <2>3. \A i, j \in DOMAIN delivered : i < j => delivered[i] < delivered[j]
    BY <2>2 DEF IInv, InOrder
  <2> QED BY <2>3 DEF DeliveredInOrder, IInv, InOrder, Given
<1> QED BY <1>1, Invariance, PTL
=============================================================================
