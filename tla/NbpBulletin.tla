---------------------------- MODULE NbpBulletin ----------------------------
(***************************************************************************)
(* parse_nbp_bulletin: splitting an NBP text bulletin into station blocks, *)
(* each with its forecast columns and its labelled rows.  The bulletin is  *)
(* read one line at a time.  A line is a station header, the end of a      *)
(* block, or a label followed by the cells of a fixed-width table, some of *)
(* which may be blank; a blank line has no label.                          *)
(***************************************************************************)
EXTENDS Optional, Integers, Sequences, FiniteSets, Functions, FiniteSetsExt

CONSTANTS
    Stations,   \* station identifiers
    Rows,       \* label and cells of the labelled lines
    Blank,      \* an empty cell
    Markers,    \* tokens that are not numbers: "NG", "**", and anything else
    MaxLines    \* bound: lines of a bulletin

ASSUME StationsAssumption == None \notin Stations
ASSUME RowsAssumption == \A row \in Rows : row.cells \in Seq(Range(row.cells))

ColumnLabels == {"UTC", "FHR", "DT"}

Header(s) == [kind |-> "header", station |-> s]
End == [kind |-> "end"]
EmptyLine == [kind |-> "blank"]
Row(row) == [kind |-> "row", label |-> row.label, cells |-> row.cells]

Lines == {Header(s) : s \in Stations} \cup {Row(row) : row \in Rows} \cup {End, EmptyLine}

VARIABLES
    bulletin,      \* the lines read so far
    stations,      \* the finished blocks
    cur,           \* the block being read
    in_block,
    have_columns,
    verdict        \* "reading", "ok" or "parse_error"

bulletin_vars == <<bulletin, stations, cur, in_block, have_columns, verdict>>

NoStation == [station |-> None, columns |-> <<>>, rows |-> <<>>]

\* The i-th of a set of positions, and the elements of s at the positions in P,
\* both in ascending order.
Nth(P, i) == CHOOSE k \in P : Cardinality({j \in P : j < k}) = i - 1
Listed(s, P) == [i \in 1..Cardinality(P) |-> s[Nth(P, i)]]

\* The tokens of a line's cells: white space separates them, so that a blank
\* cell leaves no token.
tokens(cells) == Listed(cells, {i \in DOMAIN cells : cells[i] # Blank})

as_value(t) == IF t \in {999, -99} \cup Markers THEN None ELSE t

NbpRow(ln) ==
    [label |-> ln.label,
     values |-> [i \in DOMAIN tokens(ln.cells) |-> as_value(tokens(ln.cells)[i])]]

\* The stations with the block in progress moved to their end.
Flushed == IF in_block /\ cur.station # None THEN Append(stations, cur) ELSE stations

BulletinInit ==
    /\ bulletin = <<>>
    /\ stations = <<>>
    /\ cur = NoStation
    /\ in_block = FALSE
    /\ have_columns = FALSE
    /\ verdict = "reading"

ReadLine(ln) ==
    /\ verdict = "reading"
    /\ Len(bulletin) < MaxLines
    /\ bulletin' = Append(bulletin, ln)
    /\ UNCHANGED verdict

StationHeader ==
    \E s \in Stations :
        /\ ReadLine(Header(s))
        /\ stations' = Flushed
        /\ cur' = [NoStation EXCEPT !.station = s]
        /\ in_block' = TRUE
        /\ have_columns' = FALSE

\* Lines outside every block, and lines without tokens, are passed over.
Skip ==
    \E ln \in Lines :
        /\ ln.kind # "header"
        /\ ~in_block \/ ln.kind = "blank"
        /\ ReadLine(ln)
        /\ UNCHANGED <<stations, cur, in_block, have_columns>>

EndOfBlock ==
    /\ in_block
    /\ ReadLine(End)
    /\ stations' = Flushed
    /\ cur' = NoStation
    /\ in_block' = FALSE
    /\ have_columns' = FALSE

Columns ==
    \E row \in Rows :
        /\ in_block /\ ~have_columns
        /\ row.label \in ColumnLabels
        /\ ReadLine(Row(row))
        /\ cur' = [cur EXCEPT !.columns = @ \o tokens(row.cells)]
        /\ have_columns' = TRUE
        /\ UNCHANGED <<stations, in_block>>

DataRow ==
    \E row \in Rows :
        /\ in_block
        /\ have_columns \/ row.label \notin ColumnLabels
        /\ ReadLine(Row(row))
        /\ cur' = [cur EXCEPT !.rows = Append(@, NbpRow(row))]
        /\ UNCHANGED <<stations, in_block, have_columns>>

\* Mutant of Finish: a block without "$$" at the end of the text is dropped.
FinishUnflushed ==
    /\ verdict = "reading"
    /\ verdict' = IF stations = <<>> THEN "parse_error" ELSE "ok"
    /\ UNCHANGED <<bulletin, stations, cur, in_block, have_columns>>

Finish ==
    /\ verdict = "reading"
    /\ stations' = IF bulletin = <<>> THEN stations ELSE Flushed
    /\ verdict' = IF stations' = <<>> THEN "parse_error" ELSE "ok"
    /\ UNCHANGED <<bulletin, cur, in_block, have_columns>>

BulletinDone == verdict # "reading" /\ UNCHANGED bulletin_vars

BulletinNext == StationHeader \/ Skip \/ EndOfBlock \/ Columns \/ DataRow \/ Finish \/ BulletinDone

BulletinSpec == BulletinInit /\ [][BulletinNext]_bulletin_vars
-----------------------------------------------------------------------------
(* Properties.                                                             *)

Headers == {i \in DOMAIN bulletin : bulletin[i].kind = "header"}

\* The labelled lines of the block that the header at h opens.
BlockOf(h) ==
    {k \in (h + 1)..Len(bulletin) :
        /\ bulletin[k].kind = "row"
        /\ \A j \in (h + 1)..k : bulletin[j].kind \notin {"header", "end"}}

ColumnRows(h) == {k \in BlockOf(h) : bulletin[k].label \in ColumnLabels}

\* The labelled lines but for the first one of the columns.
DataRows(h) == {k \in BlockOf(h) : k \in ColumnRows(h) => \E j \in ColumnRows(h) : j < k}

\* The station that the header at h stands for.
StationOf(h) ==
    [station |-> bulletin[h].station,
     columns |-> IF ColumnRows(h) = {} THEN <<>> ELSE tokens(bulletin[Min(ColumnRows(h))].cells),
     rows |-> Listed([k \in DataRows(h) |-> NbpRow(bulletin[k])], DataRows(h))]

\* Every station header yields one station, in file order, with the columns of
\* its own block's first column row and the other rows of its own block: no
\* block is lost at a missing "$$" or at the end of the text, and no row goes
\* to the wrong station.
BlocksAsRead ==
    /\ verdict = "parse_error" => Headers = {}
    /\ verdict = "ok" => stations = Listed([h \in Headers |-> StationOf(h)], Headers)

\* A value stands at the position of its column: as the comments on NbpRow say,
\* a row has one value per forecast column, aligned to NbpStation::columns.
RowsAligned ==
    verdict = "ok" =>
        \A n \in DOMAIN stations : \A k \in DOMAIN stations[n].rows :
            stations[n].columns # <<>> =>
                Len(stations[n].rows[k].values) = Len(stations[n].columns)
=============================================================================
