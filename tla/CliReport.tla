----------------------------- MODULE CliReport -----------------------------
(***************************************************************************)
(* parse_cli_product_text: reading a daily climate report (CLI) or an F-6  *)
(* monthly table (CF6) into one CliReport, line by line.  A line is the    *)
(* sequence of its tokens and begins in the first column; a token is a     *)
(* number of type int or a word, and a word stands for the label found in  *)
(* it.  What the code reads off the letters of a word (a month, an ICAO    *)
(* identifier, a product identifier) is given by constant functions.       *)
(***************************************************************************)
EXTENDS Optional, Integers, Sequences, FiniteSets, SequencesExt, FiniteSetsExt

CONSTANTS
    Texts,       \* the product texts: sequences of lines
    MonthWords,  \* word -> month, for words that begin with a month's three letters
    KWords,      \* word that begins with K -> its first four letters, "" if not an ICAO
    Cf6Words,    \* word that begins with CF6 -> the next three letters, "" if not capitals
    CliWords     \* "CLIxyz" -> "xyz", the product identifier of a CLI

\* A token is a word or a number.
Token == [word : STRING, num : Int \cup {None}]

ASSUME TextsAssumption == Texts \subseteq Seq(Seq(Token))

VARIABLES
    text,            \* the product
    pos,             \* the line about to be read
    outcome,         \* "reading", "ok" or "parse_error"
    r,               \* the CliReport
    in_temperature,  \* CLI: inside the TEMPERATURE section?
    cf6              \* CF6: the locals of parse_cf6_product_text

vars == <<text, pos, outcome, r, in_temperature, cf6>>

Word(w) == [word |-> w, num |-> None]
Number(n) == [word |-> "", num |-> n]
IsNum(t) == t.num # None
-----------------------------------------------------------------------------
(* Reading one line.                                                       *)

Has(ln, w) == \E i \in DOMAIN ln : ln[i].word = w
HasAny(ln, ws) == \E w \in ws : Has(ln, w)
Mentions(w) == \E i \in DOMAIN text : Has(text[i], w)

\* The tokens after the first occurrence of a token in the set S of positions.
After(ln, S) == SubSeq(ln, Min(S) + 1, Len(ln))
Positions(ln, w) == {i \in DOMAIN ln : ln[i].word = w}

\* The first number of a token sequence that lies in the set S.
FirstIn(ts, S) ==
    LET found == {i \in DOMAIN ts : IsNum(ts[i]) /\ ts[i].num \in S}
    IN  IF found = {} THEN None ELSE ts[Min(found)].num

first_int(ts) == FirstIn(ts, Int)

MonthPositions(ln) == {i \in DOMAIN ln : ln[i].word \in DOMAIN MonthWords}

month_num(ln) ==
    IF MonthPositions(ln) = {} THEN 0 ELSE MonthWords[ln[Min(MonthPositions(ln))].word]

\* The first word that begins with K and is not the first of its line, if its
\* first four letters are an ICAO identifier.
StationOn(ln) ==
    LET ks == {i \in 2..Len(ln) : ln[i].word \in DOMAIN KWords}
        icao == IF ks = {} THEN "" ELSE KWords[ln[Min(ks)].word]
    IN  IF icao = "" THEN None ELSE icao

\* "... FOR <month> <day> <year>": the numbers after the month's name.
DateOn(ln) ==
    IF ~Has(ln, "FOR") \/ month_num(ln) = 0 THEN None
    ELSE LET rest == After(ln, MonthPositions(ln))
             day == FirstIn(rest, 1..31)
             year == FirstIn(rest, 1900..2200)
         IN  IF day = None \/ year = None THEN None
             ELSE <<year, month_num(ln), day>>

\* The number after a label, if the line has the label.
Labelled(ln, label) ==
    IF Has(ln, label) THEN first_int(After(ln, Positions(ln, label))) ELSE None

MaximumOn(ln) == Labelled(ln, "MAXIMUM")
MinimumOn(ln) == Labelled(ln, "MINIMUM")

OrElse(value, new) == IF value # None THEN value ELSE new
-----------------------------------------------------------------------------
IsCf6 == Mentions("F-6")

\* The CliReport, as far as the whole text decides it.
NewReport ==
    [source |-> IF IsCf6 THEN "nws_api_cf6" ELSE "nws_api_cli",
     station |-> None, date |-> None, tmax_f |-> None, tmin_f |-> None,
     is_preliminary |-> IsCf6 => Mentions("PRELIMINARY"),
     is_corrected |-> Mentions("CORRECTED") \/ Mentions("...COR")]

\* The locals of parse_cf6_product_text.
NewCf6 ==
    [station |-> None, month |-> 0, year |-> 0, past_data_header |-> FALSE,
     best_day |-> 0, tmax |-> None, tmin |-> None]

Init ==
    /\ text \in Texts
    /\ pos = 1
    /\ outcome = "reading"
    /\ r = NewReport
    /\ in_temperature = FALSE
    /\ cf6 = NewCf6

Empty ==
    /\ text = <<>>
    /\ outcome = "reading"
    /\ outcome' = "parse_error"
    /\ UNCHANGED <<text, pos, r, in_temperature, cf6>>
-----------------------------------------------------------------------------
(* CLI.                                                                    *)

OtherSections == {"PRECIPITATION", "WIND", "RELATIVE"}

\* Mutant of Section: the section has no end.
SectionOpen(ln) == in_temperature \/ Has(ln, "TEMPERATURE")

\* Does the line belong to, or open, the temperature section?
Section(ln) ==
    Has(ln, "TEMPERATURE") \/ (in_temperature /\ ~HasAny(ln, OtherSections))

CliLine ==
    /\ outcome = "reading" /\ ~IsCf6 /\ pos \in DOMAIN text
    /\ LET ln == text[pos]
           reads == Section(ln) /\ ~Has(ln, "TEMPERATURE")
       IN  /\ r' = [r EXCEPT !.station = OrElse(@, StationOn(ln)),
                             !.date = OrElse(@, DateOn(ln)),
                             !.tmax_f = IF reads THEN OrElse(@, MaximumOn(ln)) ELSE @,
                             !.tmin_f = IF reads THEN OrElse(@, MinimumOn(ln)) ELSE @]
           /\ in_temperature' = Section(ln)
    /\ pos' = pos + 1
    /\ UNCHANGED <<text, outcome, cf6>>

CliEnd ==
    /\ outcome = "reading" /\ ~IsCf6 /\ text # <<>> /\ pos = Len(text) + 1
    /\ outcome' = IF <<r.station, r.date, r.tmax_f, r.tmin_f>> = <<None, None, None, None>>
                  THEN "parse_error" ELSE "ok"
    /\ UNCHANGED <<text, pos, r, in_temperature, cf6>>
-----------------------------------------------------------------------------
(* CF6.                                                                    *)

SummaryWords == {"SM", "AV", "NOTES", "$$", "MAX(", "MISC"}

DataHeader(ln) == ln # <<>> /\ ln[1].word = "DY" /\ Has(ln, "MAX") /\ Has(ln, "MIN")

Summary(ln) == ln # <<>> /\ ln[1].word \in SummaryWords

Cf6StationOn(ln) ==
    LET found == {i \in DOMAIN ln : ln[i].word \in DOMAIN Cf6Words}
        id == IF found = {} THEN "" ELSE Cf6Words[ln[Min(found)].word]
    IN  IF id = "" THEN None ELSE id

\* The identification lines, read until each is found: station, month, year.
Identified(ln) ==
    [cf6 EXCEPT
        !.station = OrElse(@, Cf6StationOn(ln)),
        !.month = IF @ = 0 /\ Has(ln, "MONTH:") THEN month_num(ln) ELSE @,
        !.year = IF @ = 0 /\ Has(ln, "YEAR:") /\ FirstIn(ln, 1900..2200) # None
                 THEN FirstIn(ln, 1900..2200) ELSE @]

\* A row for a day of the month, with both temperatures present.
CompleteRow(ln) ==
    /\ Len(ln) >= 3
    /\ IsNum(ln[1]) /\ ln[1].num \in 1..31
    /\ IsNum(ln[2]) /\ IsNum(ln[3])

\* Mutant of BetterRow: the last row wins.
BetterRowLast(ln) == CompleteRow(ln)

BetterRow(ln) == CompleteRow(ln) /\ ln[1].num > cf6.best_day

Cf6Line ==
    /\ outcome = "reading" /\ IsCf6 /\ pos \in DOMAIN text
    /\ LET ln == text[pos]
           found == Identified(ln)
       IN  \/ /\ ~cf6.past_data_header
              /\ cf6' = [found EXCEPT !.past_data_header = DataHeader(ln)]
           \/ /\ cf6.past_data_header /\ ~Summary(ln)
              /\ cf6' = IF BetterRow(ln)
                        THEN [found EXCEPT !.best_day = ln[1].num, !.tmax = ln[2].num,
                                           !.tmin = ln[3].num]
                        ELSE found
    /\ pos' = pos + 1
    /\ UNCHANGED <<text, outcome, r, in_temperature>>

\* A summary row ends the table; what follows is not read.
Cf6Break ==
    /\ outcome = "reading" /\ IsCf6 /\ pos \in DOMAIN text
    /\ cf6.past_data_header /\ Summary(text[pos])
    /\ cf6' = Identified(text[pos])
    /\ pos' = Len(text) + 1
    /\ UNCHANGED <<text, outcome, r, in_temperature>>

Cf6End ==
    /\ outcome = "reading" /\ IsCf6 /\ pos = Len(text) + 1
    /\ \/ /\ cf6.month = 0 \/ cf6.year = 0 \/ cf6.best_day = 0
          /\ outcome' = "parse_error"
          /\ UNCHANGED r
       \/ /\ cf6.month # 0 /\ cf6.year # 0 /\ cf6.best_day # 0
          /\ outcome' = "ok"
          /\ r' = [r EXCEPT
                !.date = <<cf6.year, cf6.month, cf6.best_day>>,
                !.station = IF cf6.station = None THEN None ELSE "K" \o cf6.station,
                !.tmax_f = cf6.tmax,
                !.tmin_f = cf6.tmin]
    /\ UNCHANGED <<text, pos, in_temperature, cf6>>
-----------------------------------------------------------------------------
Done == outcome # "reading" /\ UNCHANGED vars

Next == Empty \/ CliLine \/ CliEnd \/ Cf6Line \/ Cf6Break \/ Cf6End \/ Done

Spec == Init /\ [][Next]_vars
-----------------------------------------------------------------------------
(* Properties.                                                             *)

\* The value read off the first line in S, a set of positions, that has one.
FirstValue(S, Value(_)) ==
    LET found == {i \in S : Value(text[i]) # None}
    IN  IF found = {} THEN None ELSE Value(text[Min(found)])

\* The lines between a TEMPERATURE line and the next section.
TemperatureLines ==
    {i \in DOMAIN text :
        /\ ~Has(text[i], "TEMPERATURE")
        /\ \E s \in 1..(i - 1) :
              /\ Has(text[s], "TEMPERATURE")
              /\ \A k \in (s + 1)..i : ~HasAny(text[k], OtherSections)}

\* A CLI report has the first station, the first date, and the first maximum and
\* minimum of its temperature sections, wherever in the text they come: sections
\* left and entered again, a first mention without a number and the same labels
\* in other sections do not disturb it.
CliFirstMentions ==
    outcome = "ok" /\ ~IsCf6 =>
        /\ r.station = FirstValue(DOMAIN text, StationOn)
        /\ r.date = FirstValue(DOMAIN text, DateOn)
        /\ r.tmax_f = FirstValue(TemperatureLines, MaximumOn)
        /\ r.tmin_f = FirstValue(TemperatureLines, MinimumOn)

\* The rows of the F-6 table: after its header, before its first summary row.
TableRows ==
    LET headers == {h \in DOMAIN text : DataHeader(text[h])}
        body == {i \in DOMAIN text : headers # {} /\ i > Min(headers)}
    IN  {i \in body : \A k \in body :
            k <= i /\ text[k] # <<>> => text[k][1].word \notin SummaryWords}

\* A CF6 report is for the most recent day with both temperatures present, and
\* its date and its two temperatures are those of one and the same row, in
\* whatever order the rows come; without such a row there is no report.
MostRecentCompleteDay ==
    LET complete == {i \in TableRows : CompleteRow(text[i])}
        Day(i) == text[i][1].num
        latest == {i \in complete : \A k \in complete : Day(k) <= Day(i)}
    IN  /\ outcome = "ok" /\ IsCf6 =>
              \E i \in latest : /\ r.date[3] = Day(i)
                                /\ r.tmax_f = text[i][2].num
                                /\ r.tmin_f = text[i][3].num
        /\ outcome = "parse_error" /\ IsCf6 /\ cf6.month # 0 /\ cf6.year # 0 =>
              complete = {}

\* The station of a report is the site it is about, not the office that issued
\* it: "CLINYC" is about KNYC, as the comment on CliReport::station says.
StationIsSite ==
    outcome = "ok" /\ ~IsCf6 =>
        \A i \in DOMAIN text : \A w \in DOMAIN CliWords :
            Has(text[i], w) => r.station = "K" \o CliWords[w]
=============================================================================
