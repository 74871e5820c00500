------------------------- MODULE PaginatedIterator -------------------------
(***************************************************************************)
(* nws::PaginatedIterator: one caller walks the pages of a collection with *)
(* next and collect_all.  The fetch function is the caller's: every fetch  *)
(* may fail, end the collection or continue at any cursor, an empty or an  *)
(* earlier one included.  A page's data is named by the page's number, its *)
(* position among the pages fetched.                                       *)
(***************************************************************************)
EXTENDS Integers, Sequences

CONSTANTS
    Cursors,        \* non-empty cursor values
    EmptyCursor,    \* a Cursor whose value is ""
    NoCursor,       \* std::nullopt
    Limits,         \* page size limits a caller may set
    NoLimit         \* std::nullopt

ASSUME CursorAssumption ==
    /\ EmptyCursor \notin Cursors
    /\ NoCursor \notin Cursors
    /\ EmptyCursor # NoCursor
    /\ NoLimit \notin Limits

OptionalCursor == Cursors \cup {EmptyCursor, NoCursor}
PaginationParams == [cursor : OptionalCursor, limit : Limits \cup {NoLimit}]

VARIABLES
    seen_cursors,   \* seen_cursors_
    params,         \* params_
    exhausted,      \* exhausted_
    pc,             \* "idle", or "collect": inside the loop of collect_all
    all,            \* the pages collect_all holds
    fetched,        \* history: the pages fetched: at which cursor, and their
                    \* next_cursor
    delivered,      \* history: the pages the caller was given, in order
    failed          \* history: a call has returned an error

vars == <<seen_cursors, params, exhausted, pc, all, fetched, delivered, failed>>

has_more(next) == next \notin {EmptyCursor, NoCursor}

\* encode_query_value: percent-encoding, different for different cursors.
encode_query_value(cursor) == [encoded |-> cursor]

\* The name=value pairs of the query string.
build_paginated_query(p) ==
    {<<"cursor", encode_query_value(c)>> : c \in {p.cursor} \cap Cursors}
        \cup {<<"limit", l>> : l \in {p.limit} \cap Limits}
-----------------------------------------------------------------------------
Init ==
    /\ params \in PaginationParams
    /\ seen_cursors = {params.cursor} \cap Cursors
    /\ exhausted = FALSE
    /\ pc = "idle"
    /\ all = <<>>
    /\ fetched = <<>>
    /\ delivered = <<>>
    /\ failed = FALSE

Page(next) == [at |-> params, next |-> next]

\* Mutant of FetchFails: an error ends the collection.
FetchFailsExhausts ==
    /\ exhausted' = TRUE
    /\ UNCHANGED <<seen_cursors, params, fetched>>

\* fetch_fn_ returned an error, which next passes on: nothing has changed.
FetchFails == UNCHANGED <<seen_cursors, params, exhausted, fetched>>

\* The page continues at a cursor seen before: it is dropped.
Repeated(next) ==
    /\ has_more(next)
    /\ next \in seen_cursors
    /\ exhausted' = TRUE
    /\ fetched' = Append(fetched, Page(next))
    /\ UNCHANGED <<seen_cursors, params>>

\* Mutants of Advance: the cursor is not remembered; params_ keeps the old
\* cursor.
AdvanceUnseen(next) ==
    /\ has_more(next) => next \notin seen_cursors
    /\ params' = IF has_more(next) THEN [params EXCEPT !.cursor = next] ELSE params
    /\ exhausted' = ~has_more(next)
    /\ fetched' = Append(fetched, Page(next))
    /\ UNCHANGED seen_cursors

AdvanceNotMoved(next) ==
    /\ has_more(next) => next \notin seen_cursors
    /\ seen_cursors' = IF has_more(next) THEN seen_cursors \cup {next} ELSE seen_cursors
    /\ exhausted' = ~has_more(next)
    /\ fetched' = Append(fetched, Page(next))
    /\ UNCHANGED params

\* The page is good: move on to the cursor it names, if any.
Advance(next) ==
    /\ has_more(next) => next \notin seen_cursors
    /\ seen_cursors' = IF has_more(next) THEN seen_cursors \cup {next} ELSE seen_cursors
    /\ params' = IF has_more(next) THEN [params EXCEPT !.cursor = next] ELSE params
    /\ exhausted' = ~has_more(next)
    /\ fetched' = Append(fetched, Page(next))
-----------------------------------------------------------------------------
(* next, called by the user of the iterator.                               *)

NextReturns(next) ==
    /\ pc = "idle"
    /\ ~exhausted
    /\ Advance(next)
    /\ delivered' = Append(delivered, Len(fetched) + 1)
    /\ UNCHANGED <<pc, all, failed>>

NextFails ==
    /\ pc = "idle"
    /\ ~exhausted
    /\ FetchFails \/ \E next \in OptionalCursor : Repeated(next)
    /\ failed' = TRUE
    /\ UNCHANGED <<pc, all, delivered>>

\* An exhausted iterator returns an empty page without fetching.
NextExhausted ==
    /\ pc = "idle"
    /\ exhausted
    /\ UNCHANGED vars
-----------------------------------------------------------------------------
(* collect_all: a loop around next.                                        *)

Collect ==
    /\ pc = "idle"
    /\ pc' = "collect"
    /\ all' = <<>>
    /\ UNCHANGED <<seen_cursors, params, exhausted, fetched, delivered, failed>>

CollectPage(next) ==
    /\ pc = "collect"
    /\ ~exhausted
    /\ Advance(next)
    /\ all' = Append(all, Len(fetched) + 1)
    /\ UNCHANGED <<pc, delivered, failed>>

\* Mutant of CollectFails: the pages so far are returned, the error is not.
CollectFailsQuietly ==
    /\ pc = "collect"
    /\ ~exhausted
    /\ FetchFails \/ \E next \in OptionalCursor : Repeated(next)
    /\ pc' = "idle"
    /\ delivered' = delivered \o all
    /\ all' = <<>>
    /\ UNCHANGED failed

\* An error ends the call; the pages it holds are dropped with it.
CollectFails ==
    /\ pc = "collect"
    /\ ~exhausted
    /\ FetchFails \/ \E next \in OptionalCursor : Repeated(next)
    /\ pc' = "idle"
    /\ all' = <<>>
    /\ failed' = TRUE
    /\ UNCHANGED delivered

\* Mutant of CollectReturns: the loop does not look at exhausted_.
CollectReturnsNever ==
    /\ pc = "collect"
    /\ exhausted
    /\ UNCHANGED vars

CollectReturns ==
    /\ pc = "collect"
    /\ exhausted
    /\ pc' = "idle"
    /\ all' = <<>>
    /\ delivered' = delivered \o all
    /\ UNCHANGED <<seen_cursors, params, exhausted, fetched, failed>>

CollectStep ==
    \/ CollectFails
    \/ CollectReturns
    \/ \E next \in OptionalCursor : CollectPage(next)

Next ==
    \/ \E next \in OptionalCursor : NextReturns(next)
    \/ NextFails
    \/ NextExhausted
    \/ Collect
    \/ CollectStep

Spec == Init /\ [][Next]_vars

\* The fetch function returns, so the loop of collect_all goes on.
FairSpec == Spec /\ WF_vars(CollectStep)
-----------------------------------------------------------------------------
(* Properties.                                                             *)

Pages == 1..Len(fetched)

\* Type correctness.
TypeOK ==
    /\ seen_cursors \subseteq Cursors
    /\ params \in PaginationParams
    /\ exhausted \in BOOLEAN
    /\ pc \in {"idle", "collect"}
    /\ all \in Seq(Nat)
    /\ fetched \in Seq([at : PaginationParams, next : OptionalCursor])
    /\ delivered \in Seq(Nat)
    /\ failed \in BOOLEAN

\* However the cursors loop, and whatever is retried after an error, no two
\* pages are fetched with the same query: the caller never gets the same
\* page twice.
NoPageTwice ==
    \A i, j \in Pages :
        i # j => build_paginated_query(fetched[i].at) # build_paginated_query(fetched[j].at)

\* No page is skipped: each is fetched at the cursor the page before it
\* names, also when fetches failed in between, and the next one will be.
FollowsCursors ==
    \A i \in Pages :
        LET after == IF i = Len(fetched) THEN params ELSE fetched[i + 1].at
        IN  (i = Len(fetched) => ~exhausted) => after.cursor = fetched[i].next

\* The iterator claims to be exhausted only when the last page named no
\* cursor, or one that was used before: an error of the fetch function never
\* passes for the end of the collection.
ExhaustedAtEnd ==
    exhausted =>
        /\ fetched # <<>>
        /\ LET last == fetched[Len(fetched)].next
           IN  has_more(last) => \E i \in Pages : fetched[i].at.cursor = last

\* Pages reach the caller in order, each once; as long as no call has
\* returned an error, none is missing.
DeliveredInOrder ==
    /\ \A i, j \in DOMAIN delivered : i < j => delivered[i] < delivered[j]
    /\ ~failed => delivered \o all = [i \in Pages |-> i]

\* collect_all returns, also when the cursors form a cycle.
CollectAllReturns == pc = "collect" ~> pc = "idle"
=============================================================================
