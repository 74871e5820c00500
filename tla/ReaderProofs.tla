---------------------------- MODULE ReaderProofs ----------------------------
(***************************************************************************)
(* What the readers of the service's answers make of them: climate reports *)
(* and NBP bulletins for every text, JSON bodies for every series of them. *)
(***************************************************************************)
EXTENDS CliReport, NbpBulletin, Exchange, FiniteSetTheorems, WellFoundedInduction, TLAPS

\* A set of naturals with an element has a least one, which is its Min.
LEMMA MinFacts ==
    ASSUME NEW S \in SUBSET Nat, S # {}
    PROVE  Min(S) \in S /\ \A y \in S : Min(S) <= y
<1>1. PICK x \in S : \A y \in S : ~(<<y, x>> \in OpToRel(<, Nat))
  BY NatLessThanWellFounded, WFMin
<1>2. ASSUME NEW y \in S PROVE x <= y
  <2>1. ~(y < x)
    BY <1>1 DEF OpToRel
  <2> QED BY <2>1
<1> QED BY <1>2 DEF Min

\* The least element is the only one of its kind.
LEMMA MinUnique ==
    ASSUME NEW S \in SUBSET Nat, NEW x \in S, \A y \in S : x <= y
    PROVE  Min(S) = x
<1> DEFINE m == Min(S)
<1>1. m \in S /\ \A y \in S : m <= y
  BY MinFacts
<1> HIDE DEF m
<1>2. m = x
  BY <1>1
<1> QED BY <1>2 DEF m
-----------------------------------------------------------------------------
(* Climate reports: the values of a CLI.                                   *)

\* The value at the first position in S that has one.
First(S, v) ==
    LET found == {i \in S : v[i] # None}
    IN  IF found = {} THEN None ELSE v[Min(found)]

\* A later position counts only when none before it has a value.
LEMMA FirstExtends ==
    ASSUME NEW S \in SUBSET Nat, NEW n \in Nat, \A i \in S : i < n, NEW v
    PROVE  First(S \cup {n}, v) = OrElse(First(S, v), v[n])
<1> DEFINE found == {i \in S : v[i] # None}
           more == {i \in S \cup {n} : v[i] # None}
<1>1. found \in SUBSET Nat /\ \A i \in found : i < n
  OBVIOUS
<1>2. CASE found = {}
  <2>1. First(S, v) = None
    BY <1>2 DEF First
  <2>2. CASE v[n] = None
    <3>1. more = {}
      BY <1>2, <2>2
    <3> QED BY <2>1, <2>2, <3>1 DEF First, OrElse
  <2>3. CASE v[n] # None
    <3>1. more = {n}
      BY <1>2, <2>3
    <3>2. Min({n}) = n
      BY MinUnique
    <3> QED BY <2>1, <3>1, <3>2 DEF First, OrElse
  <2> QED BY <2>2, <2>3
<1>3. CASE found # {}
  <2> DEFINE m == Min(found)
  <2>1. m \in found /\ \A i \in found : m <= i
    BY <1>1, <1>3, MinFacts
  <2>2. m \in more /\ more \in SUBSET Nat /\ \A i \in more : i \in found \/ i = n
    BY <2>1
  <2>3. \A i \in more : m <= i
    <3> HIDE DEF m, found, more
    <3> QED BY <1>1, <2>1, <2>2
  <2>4. Min(more) = m
    <3> HIDE DEF m, more
    <3> QED BY <2>2, <2>3, MinUnique
  <2>5. First(S, v) = v[m] /\ v[m] # None
    BY <1>3, <2>1 DEF First
  <2>6. First(S \cup {n}, v) = v[m]
    BY <2>2, <2>4 DEF First
  <2> QED BY <2>5, <2>6 DEF OrElse
<1> QED BY <1>2, <1>3

\* Types, and the members of the two records.
TypeInv ==
    /\ text \in Texts
    /\ pos \in 1..(Len(text) + 1)
    /\ outcome \in {"reading", "ok", "parse_error"}
    /\ r = [source |-> r.source, station |-> r.station, date |-> r.date,
            tmax_f |-> r.tmax_f, tmin_f |-> r.tmin_f,
            is_preliminary |-> r.is_preliminary, is_corrected |-> r.is_corrected]
    /\ cf6 = [station |-> cf6.station, month |-> cf6.month, year |-> cf6.year,
              past_data_header |-> cf6.past_data_header, best_day |-> cf6.best_day,
              tmax |-> cf6.tmax, tmin |-> cf6.tmin]

\* The lines read so far.
Seen == 1..(pos - 1)

\* Does line n belong to, or open, a temperature section?
Inside(n) ==
    \E s \in 1..n : /\ Has(text[s], "TEMPERATURE")
                    /\ \A k \in (s + 1)..n : ~HasAny(text[k], OtherSections)

\* The report so far has the first values of the lines read so far.
CliInv ==
    /\ in_temperature <=> Inside(pos - 1)
    /\ r.station = FirstValue(Seen, StationOn)
    /\ r.date = FirstValue(Seen, DateOn)
    /\ r.tmax_f = FirstValue(Seen \cap TemperatureLines, MaximumOn)
    /\ r.tmin_f = FirstValue(Seen \cap TemperatureLines, MinimumOn)
    /\ outcome = "ok" => pos = Len(text) + 1

LEMMA TextFacts ==
    ASSUME text \in Texts
    PROVE  Len(text) \in Nat /\ DOMAIN text = 1..Len(text)
BY TextsAssumption

\* The values that a line adds.
LEMMA ValuesExtend ==
    ASSUME text \in Texts, NEW n \in DOMAIN text, NEW S \in SUBSET (1..(n - 1))
    PROVE  /\ FirstValue(S \cup {n}, StationOn)
                  = OrElse(FirstValue(S, StationOn), StationOn(text[n]))
           /\ FirstValue(S \cup {n}, DateOn)
                  = OrElse(FirstValue(S, DateOn), DateOn(text[n]))
           /\ FirstValue(S \cup {n}, MaximumOn)
                  = OrElse(FirstValue(S, MaximumOn), MaximumOn(text[n]))
           /\ FirstValue(S \cup {n}, MinimumOn)
                  = OrElse(FirstValue(S, MinimumOn), MinimumOn(text[n]))
<1>1. /\ S \in SUBSET Nat /\ n \in Nat /\ \A i \in S : i < n
      /\ S \subseteq DOMAIN text /\ S \cup {n} \subseteq DOMAIN text
  <2> DEFINE m == Len(text)
  <2>1. m \in Nat /\ DOMAIN text = 1..m
    BY TextFacts
  <2> HIDE DEF m
  <2>2. n \in 1..m
    BY <2>1
  <2>3. \A i \in S : i \in Nat /\ i < n /\ i \in 1..m
    BY <2>1, <2>2
  <2>4. S \subseteq Nat /\ n \in Nat /\ \A i \in S : i < n
    BY <2>2, <2>3
  <2>5. S \subseteq 1..m /\ S \cup {n} \subseteq 1..m
    BY <2>2, <2>3, Zenon
  <2> QED BY <2>1, <2>4, <2>5, Zenon
<1>2. ASSUME NEW v PROVE First(S \cup {n}, v) = OrElse(First(S, v), v[n])
  BY <1>1, FirstExtends
<1> DEFINE station == [i \in DOMAIN text |-> StationOn(text[i])]
           date == [i \in DOMAIN text |-> DateOn(text[i])]
           maximum == [i \in DOMAIN text |-> MaximumOn(text[i])]
           minimum == [i \in DOMAIN text |-> MinimumOn(text[i])]
<1>3. ASSUME NEW T \in SUBSET DOMAIN text
      PROVE  /\ FirstValue(T, StationOn) = First(T, station)
             /\ FirstValue(T, DateOn) = First(T, date)
             /\ FirstValue(T, MaximumOn) = First(T, maximum)
             /\ FirstValue(T, MinimumOn) = First(T, minimum)
  <2>0. T # {} \/ T = {}
    OBVIOUS
  <2>1. {i \in T : StationOn(text[i]) # None} = {i \in T : station[i] # None}
    OBVIOUS
  <2>2. {i \in T : DateOn(text[i]) # None} = {i \in T : date[i] # None}
    OBVIOUS
  <2>3. {i \in T : MaximumOn(text[i]) # None} = {i \in T : maximum[i] # None}
    OBVIOUS
  <2>4. {i \in T : MinimumOn(text[i]) # None} = {i \in T : minimum[i] # None}
    OBVIOUS
  <2>5. T \in SUBSET Nat
    BY TextFacts
  <2>6. ASSUME NEW P \in SUBSET T, P # {} PROVE Min(P) \in DOMAIN text
    BY <2>5, <2>6, MinFacts
  <2>7. FirstValue(T, StationOn) = First(T, station)
    BY <2>1, <2>6 DEF FirstValue, First
  <2>8. FirstValue(T, DateOn) = First(T, date)
    BY <2>2, <2>6 DEF FirstValue, First
  <2>9. FirstValue(T, MaximumOn) = First(T, maximum)
    BY <2>3, <2>6 DEF FirstValue, First
  <2>10. FirstValue(T, MinimumOn) = First(T, minimum)
    BY <2>4, <2>6 DEF FirstValue, First
  <2> QED BY <2>7, <2>8, <2>9, <2>10
<1>4. /\ station[n] = StationOn(text[n]) /\ date[n] = DateOn(text[n])
      /\ maximum[n] = MaximumOn(text[n]) /\ minimum[n] = MinimumOn(text[n])
  OBVIOUS
<1> HIDE DEF station, date, maximum, minimum
<1> QED BY <1>1, <1>2, <1>3, <1>4, Zenon

\* A line inside a section, after its opening, is one of the temperature lines.
LEMMA InsideFacts ==
    ASSUME text \in Texts, NEW n \in DOMAIN text
    PROVE  /\ Inside(n) <=> Has(text[n], "TEMPERATURE")
                            \/ (Inside(n - 1) /\ ~HasAny(text[n], OtherSections))
           /\ n \in TemperatureLines
                  <=> /\ Inside(n - 1) /\ ~HasAny(text[n], OtherSections)
                      /\ ~Has(text[n], "TEMPERATURE")
<1> DEFINE Opens(s) == Has(text[s], "TEMPERATURE")
           Ends(k) == HasAny(text[k], OtherSections)
<1>1. n \in Nat /\ n >= 1
  BY TextFacts
<1>2. ASSUME NEW s \in 1..(n - 1)
      PROVE  (\A k \in (s + 1)..n : ~Ends(k)) <=> (\A k \in (s + 1)..(n - 1) : ~Ends(k)) /\ ~Ends(n)
  <2> HIDE DEF Ends
  <2>1. \A k \in (s + 1)..n : k \in (s + 1)..(n - 1) \/ k = n
    BY <1>1
  <2>2. n \in (s + 1)..n /\ \A k \in (s + 1)..(n - 1) : k \in (s + 1)..n
    BY <1>1
  <2> QED BY <2>1, <2>2, Zenon
<1>3. (\E s \in 1..(n - 1) : Opens(s) /\ \A k \in (s + 1)..n : ~Ends(k))
        <=> Inside(n - 1) /\ ~Ends(n)
  <2> HIDE DEF Opens, Ends
  <2>1. (\E s \in 1..(n - 1) : Opens(s) /\ \A k \in (s + 1)..n : ~Ends(k))
          <=> (\E s \in 1..(n - 1) : Opens(s) /\ \A k \in (s + 1)..(n - 1) : ~Ends(k)) /\ ~Ends(n)
    BY <1>2, Zenon
  <2>2. Inside(n - 1) <=> \E s \in 1..(n - 1) : Opens(s) /\ \A k \in (s + 1)..(n - 1) : ~Ends(k)
    BY DEF Inside, Opens, Ends
  <2> QED BY <2>1, <2>2, Zenon
<1>4. Inside(n) <=> Opens(n) \/ \E s \in 1..(n - 1) : Opens(s) /\ \A k \in (s + 1)..n : ~Ends(k)
  <2> HIDE DEF Opens, Ends
  <2>1. Inside(n) <=> \E s \in 1..n : Opens(s) /\ \A k \in (s + 1)..n : ~Ends(k)
    BY DEF Inside, Opens, Ends
  <2>2. /\ \A s \in 1..n : s \in 1..(n - 1) \/ s = n
        /\ n \in 1..n
        /\ \A s \in 1..(n - 1) : s \in 1..n
        /\ \A k \in (n + 1)..n : FALSE
    BY <1>1
  <2> QED BY <2>1, <2>2, Zenon
<1>5. n \in TemperatureLines
        <=> ~Opens(n) /\ \E s \in 1..(n - 1) : Opens(s) /\ \A k \in (s + 1)..n : ~Ends(k)
  BY DEF TemperatureLines
<1> HIDE DEF Opens, Ends
<1>6. /\ Inside(n) <=> Opens(n) \/ (Inside(n - 1) /\ ~Ends(n))
      /\ n \in TemperatureLines <=> Inside(n - 1) /\ ~Ends(n) /\ ~Opens(n)
  BY <1>3, <1>4, <1>5, Zenon
<1> QED BY <1>6 DEF Opens, Ends

\* One more line is read.
LEMMA SeenExtends ==
    ASSUME TypeInv, pos \in DOMAIN text, NEW T
    PROVE  /\ 1..((pos + 1) - 1) = Seen \cup {pos}
           /\ Seen \in SUBSET (1..(pos - 1))
           /\ pos \in T => (Seen \cup {pos}) \cap T = (Seen \cap T) \cup {pos}
           /\ pos \notin T => (Seen \cup {pos}) \cap T = Seen \cap T
           /\ Seen \cap T \in SUBSET (1..(pos - 1))
           /\ pos + 1 \in 1..(Len(text) + 1)
<1>1. Len(text) \in Nat /\ pos \in 1..Len(text) /\ pos \in Nat /\ pos >= 1
  BY TextFacts DEF TypeInv
<1>2. pos + 1 \in 1..(Len(text) + 1)
  BY <1>1
<1>3. 1..((pos + 1) - 1) = Seen \cup {pos}
  BY <1>1 DEF Seen
<1>4. Seen \in SUBSET (1..(pos - 1)) /\ Seen \cap T \in SUBSET (1..(pos - 1))
  BY DEF Seen
<1>5. /\ pos \in T => (Seen \cup {pos}) \cap T = (Seen \cap T) \cup {pos}
      /\ pos \notin T => (Seen \cup {pos}) \cap T = Seen \cap T
  BY Zenon
<1> QED BY <1>2, <1>3, <1>4, <1>5

\* A line of a CLI keeps the first values, and the section it is in.
LEMMA CliLineStep == ASSUME TypeInv, CliInv, CliLine PROVE TypeInv' /\ CliInv'
<1> DEFINE ln == text[pos]
           reads == Section(ln) /\ ~Has(ln, "TEMPERATURE")
<1>1. /\ pos \in DOMAIN text /\ pos' = pos + 1
      /\ text' = text /\ outcome' = outcome /\ cf6' = cf6 /\ outcome = "reading"
      /\ r' = [r EXCEPT !.station = OrElse(@, StationOn(ln)),
                        !.date = OrElse(@, DateOn(ln)),
                        !.tmax_f = IF reads THEN OrElse(@, MaximumOn(ln)) ELSE @,
                        !.tmin_f = IF reads THEN OrElse(@, MinimumOn(ln)) ELSE @]
      /\ in_temperature' = Section(ln)
  BY DEF CliLine
<1>2. /\ r'.station = OrElse(r.station, StationOn(ln))
      /\ r'.date = OrElse(r.date, DateOn(ln))
      /\ r'.tmax_f = IF reads THEN OrElse(r.tmax_f, MaximumOn(ln)) ELSE r.tmax_f
      /\ r'.tmin_f = IF reads THEN OrElse(r.tmin_f, MinimumOn(ln)) ELSE r.tmin_f
      /\ r' = [source |-> r'.source, station |-> r'.station, date |-> r'.date,
               tmax_f |-> r'.tmax_f, tmin_f |-> r'.tmin_f,
               is_preliminary |-> r'.is_preliminary, is_corrected |-> r'.is_corrected]
  <2> DEFINE a == OrElse(r.station, StationOn(ln))
             b == OrElse(r.date, DateOn(ln))
             c == IF reads THEN OrElse(r.tmax_f, MaximumOn(ln)) ELSE r.tmax_f
             d == IF reads THEN OrElse(r.tmin_f, MinimumOn(ln)) ELSE r.tmin_f
  <2>1. r' = [r EXCEPT !.station = a, !.date = b, !.tmax_f = c, !.tmin_f = d]
    BY <1>1
  <2> HIDE DEF a, b, c, d
  <2>2. /\ r'.station = a /\ r'.date = b /\ r'.tmax_f = c /\ r'.tmin_f = d
        /\ r' = [source |-> r.source, station |-> a, date |-> b, tmax_f |-> c, tmin_f |-> d,
                 is_preliminary |-> r.is_preliminary, is_corrected |-> r.is_corrected]
    BY <2>1 DEF TypeInv
  <2>3. r' = [source |-> r'.source, station |-> r'.station, date |-> r'.date,
               tmax_f |-> r'.tmax_f, tmin_f |-> r'.tmin_f,
               is_preliminary |-> r'.is_preliminary, is_corrected |-> r'.is_corrected]
    BY <2>2
  <2> QED BY <2>2, <2>3 DEF a, b, c, d
<1>3. pos - 1 \in Int /\ (pos + 1) - 1 = pos /\ pos \in Nat
  BY <1>1, TextFacts DEF TypeInv
<1>4. /\ in_temperature' <=> Inside(pos)
      /\ reads <=> pos \in TemperatureLines
  <2>1. /\ Inside(pos) <=> Has(ln, "TEMPERATURE")
                           \/ (Inside(pos - 1) /\ ~HasAny(ln, OtherSections))
        /\ pos \in TemperatureLines
                <=> /\ Inside(pos - 1) /\ ~HasAny(ln, OtherSections)
                    /\ ~Has(ln, "TEMPERATURE")
    BY <1>1, InsideFacts DEF TypeInv
  <2>2. Section(ln) <=> Has(ln, "TEMPERATURE")
                        \/ (Inside(pos - 1) /\ ~HasAny(ln, OtherSections))
    BY DEF Section, CliInv
  <2> HIDE DEF ln
  <2> QED BY <1>1, <2>1, <2>2, Zenon
<1> DEFINE old == Seen \cap TemperatureLines
           new == Seen' \cap TemperatureLines'
<1>5. /\ Seen' = Seen \cup {pos}
      /\ Seen \in SUBSET (1..(pos - 1)) /\ old \in SUBSET (1..(pos - 1))
      /\ reads => new = old \cup {pos}
      /\ ~reads => new = old
      /\ pos' \in 1..(Len(text) + 1)
  <2>1. Seen' = 1..((pos + 1) - 1)
    BY <1>1 DEF Seen
  <2>2. TemperatureLines' = TemperatureLines
    BY <1>1 DEF TemperatureLines
  <2> DEFINE T == TemperatureLines
  <2> HIDE DEF T, reads
  <2>3. /\ 1..((pos + 1) - 1) = Seen \cup {pos}
        /\ Seen \in SUBSET (1..(pos - 1)) /\ Seen \cap T \in SUBSET (1..(pos - 1))
        /\ pos \in T => (Seen \cup {pos}) \cap T = (Seen \cap T) \cup {pos}
        /\ pos \notin T => (Seen \cup {pos}) \cap T = Seen \cap T
        /\ pos + 1 \in 1..(Len(text) + 1)
    BY <1>1, SeenExtends
  <2> QED BY <1>1, <1>4, <2>1, <2>2, <2>3 DEF T
<1>6. TypeInv'
  BY <1>1, <1>2, <1>5 DEF TypeInv
<1>7. (in_temperature <=> Inside(pos - 1))'
  BY <1>1, <1>3, <1>4 DEF Inside
<1>8. /\ FirstValue(Seen', StationOn) = OrElse(r.station, StationOn(ln))
      /\ FirstValue(Seen', DateOn) = OrElse(r.date, DateOn(ln))
  BY <1>1, <1>5, ValuesExtend DEF CliInv, TypeInv
<1>9. /\ FirstValue(new, MaximumOn) = r'.tmax_f
      /\ FirstValue(new, MinimumOn) = r'.tmin_f
  <2> HIDE DEF reads, new
  <2>1. CASE reads
    <3>1. /\ FirstValue(new, MaximumOn) = OrElse(FirstValue(old, MaximumOn), MaximumOn(ln))
          /\ FirstValue(new, MinimumOn) = OrElse(FirstValue(old, MinimumOn), MinimumOn(ln))
      BY <1>1, <1>5, <2>1, ValuesExtend DEF TypeInv
    <3> QED BY <1>2, <2>1, <3>1 DEF CliInv
  <2>2. CASE ~reads
    BY <1>2, <1>5, <2>2 DEF CliInv
  <2> QED BY <2>1, <2>2
<1>10. /\ (r.station = FirstValue(Seen, StationOn))'
       /\ (r.date = FirstValue(Seen, DateOn))'
       /\ (r.tmax_f = FirstValue(Seen \cap TemperatureLines, MaximumOn))'
       /\ (r.tmin_f = FirstValue(Seen \cap TemperatureLines, MinimumOn))'
  BY <1>1, <1>2, <1>8, <1>9 DEF FirstValue
<1> QED BY <1>1, <1>6, <1>7, <1>10 DEF CliInv
-----------------------------------------------------------------------------
(* Climate reports: the row of a CF6.                                      *)

\* Is line n below a header of the table?
Below(n) == \E h \in 1..(n - 1) : DataHeader(text[h])

Complete == {i \in TableRows : CompleteRow(text[i])}
Day(i) == text[i][1].num

\* The best row so far is the most recent of the rows in S.
BestOf(S) ==
    /\ S = {} => cf6.best_day = 0
    /\ S # {} => \E i \in S : /\ \A k \in S : Day(k) <= Day(i)
                              /\ cf6.best_day = Day(i)
                              /\ cf6.tmax = text[i][2].num
                              /\ cf6.tmin = text[i][3].num

Cf6Inv ==
    /\ BestOf(Seen \cap Complete)
    /\ outcome = "reading" /\ pos \in DOMAIN text =>
           /\ cf6.past_data_header <=> Below(pos)
           /\ \A k \in Seen : Below(k) => ~Summary(text[k])
    /\ outcome # "reading" => pos = Len(text) + 1
    /\ outcome = "ok" => /\ r.date = <<cf6.year, cf6.month, cf6.best_day>>
                         /\ r.tmax_f = cf6.tmax /\ r.tmin_f = cf6.tmin
                         /\ cf6.best_day # 0
    /\ outcome = "parse_error" => cf6.month = 0 \/ cf6.year = 0 \/ cf6.best_day = 0

\* A line is a row of the table when it is below a header and no line from
\* there on to it is a summary.
LEMMA RowFacts ==
    ASSUME text \in Texts, NEW i \in DOMAIN text
    PROVE  i \in TableRows
               <=> Below(i) /\ \A k \in 1..i : Below(k) => ~Summary(text[k])
<1> DEFINE headers == {h \in DOMAIN text : DataHeader(text[h])}
           body == {k \in DOMAIN text : headers # {} /\ k > Min(headers)}
<1>1. DOMAIN text = 1..Len(text) /\ Len(text) \in Nat /\ headers \in SUBSET Nat
  BY TextFacts
<1>2. ASSUME NEW k \in DOMAIN text PROVE k \in body <=> Below(k)
  <2>1. k \in 1..Len(text) /\ \A h \in 1..(k - 1) : h \in DOMAIN text
    BY <1>1
  <2>2. ASSUME k \in body PROVE Below(k)
    <3> DEFINE m == Min(headers)
    <3>1. m \in headers /\ k > m
      BY <1>1, <2>2, MinFacts
    <3> HIDE DEF m
    <3>2. m \in 1..(k - 1)
      BY <1>1, <2>1, <3>1
    <3> QED BY <3>1, <3>2 DEF Below
  <2>3. ASSUME Below(k) PROVE k \in body
    <3>1. PICK h \in 1..(k - 1) : DataHeader(text[h])
      BY <2>3 DEF Below
    <3>2. h \in headers
      BY <2>1, <3>1
    <3> DEFINE m == Min(headers)
    <3>3. m \in headers /\ m <= h
      BY <1>1, <3>2, MinFacts
    <3>4. k > m
      <4> HIDE DEF m
      <4> QED BY <1>1, <2>1, <3>3
    <3> QED BY <3>2, <3>4
  <2> QED BY <2>2, <2>3
<1>3. i \in TableRows
        <=> i \in body /\ \A k \in body : k <= i /\ text[k] # <<>>
                                              => text[k][1].word \notin SummaryWords
  BY DEF TableRows
<1>4. \A k \in DOMAIN text : k \in 1..i <=> k <= i
  BY <1>1
<1>5. \A k \in 1..i : k \in DOMAIN text
  BY <1>1
<1>6. \A k \in body : k \in DOMAIN text
  OBVIOUS
<1> HIDE DEF body
<1> QED BY <1>2, <1>3, <1>4, <1>5, <1>6 DEF Summary

\* What a line says of the place and the time leaves the best row alone.
LEMMA IdentifiedFacts ==
    ASSUME TypeInv, NEW ln
    PROVE  Identified(ln) =
               [station |-> Identified(ln).station, month |-> Identified(ln).month,
                year |-> Identified(ln).year,
                past_data_header |-> cf6.past_data_header, best_day |-> cf6.best_day,
                tmax |-> cf6.tmax, tmin |-> cf6.tmin]
<1> DEFINE a == OrElse(cf6.station, Cf6StationOn(ln))
           b == IF cf6.month = 0 /\ Has(ln, "MONTH:") THEN month_num(ln) ELSE cf6.month
           c == IF cf6.year = 0 /\ Has(ln, "YEAR:") /\ FirstIn(ln, 1900..2200) # None
                THEN FirstIn(ln, 1900..2200) ELSE cf6.year
<1>1. Identified(ln) = [cf6 EXCEPT !.station = a, !.month = b, !.year = c]
  BY DEF Identified
<1> HIDE DEF a, b, c
<1>2. Identified(ln) = [station |-> a, month |-> b, year |-> c,
                   past_data_header |-> cf6.past_data_header, best_day |-> cf6.best_day,
                   tmax |-> cf6.tmax, tmin |-> cf6.tmin]
  BY <1>1 DEF TypeInv
<1> QED BY <1>2

IInv ==
    /\ TypeInv
    /\ ~IsCf6 => CliInv
    /\ IsCf6 => Cf6Inv

\* What TableRows and the rest of the text depend on does not change.
LEMMA SameText ==
    ASSUME text' = text
    PROVE  /\ Complete' = Complete /\ TemperatureLines' = TemperatureLines
           /\ IsCf6' <=> IsCf6
           /\ \A n : Below(n)' <=> Below(n)
           /\ \A i : Day(i)' = Day(i)
BY DEF Complete, TableRows, TemperatureLines, IsCf6, Mentions, Below, Day

\* The day of a complete row.
LEMMA DayRange == \A i \in Complete : Day(i) \in 1..31
BY DEF Complete, CompleteRow, Day

\* The best row is kept when the rows read are the same.
LEMMA BestKept ==
    ASSUME NEW S, BestOf(S), text' = text,
           cf6'.best_day = cf6.best_day, cf6'.tmax = cf6.tmax, cf6'.tmin = cf6.tmin
    PROVE  BestOf(S)'
BY DEF BestOf, Day

\* The record of the CF6 reader's locals.
Locals(i, j, k, h, d, x, y) ==
    [station |-> i, month |-> j, year |-> k, past_data_header |-> h,
     best_day |-> d, tmax |-> x, tmin |-> y]

\* The locals of the CF6 reader after a line.
LEMMA Cf6LineCases ==
    ASSUME TypeInv, Cf6Line, NEW ln, ln = text[pos]
    PROVE  /\ cf6' = [station |-> cf6'.station, month |-> cf6'.month, year |-> cf6'.year,
                      past_data_header |-> cf6'.past_data_header,
                      best_day |-> cf6'.best_day, tmax |-> cf6'.tmax, tmin |-> cf6'.tmin]
           /\ cf6.past_data_header /\ BetterRow(ln) =>
                 /\ cf6'.best_day = ln[1].num /\ cf6'.tmax = ln[2].num
                 /\ cf6'.tmin = ln[3].num
           /\ ~(cf6.past_data_header /\ BetterRow(ln)) =>
                 /\ cf6'.best_day = cf6.best_day /\ cf6'.tmax = cf6.tmax
                 /\ cf6'.tmin = cf6.tmin
           /\ ~cf6.past_data_header => cf6'.past_data_header = DataHeader(ln)
           /\ cf6.past_data_header =>
                 cf6'.past_data_header = cf6.past_data_header /\ ~Summary(ln)
<1> DEFINE f == Identified(ln)
           Record(h, d, x, y) == Locals(f.station, f.month, f.year, h, d, x, y)
<1>1. f = Record(cf6.past_data_header, cf6.best_day, cf6.tmax, cf6.tmin)
  BY IdentifiedFacts DEF Locals
<1>2. \/ /\ ~cf6.past_data_header
         /\ cf6' = [f EXCEPT !.past_data_header = DataHeader(ln)]
      \/ /\ cf6.past_data_header /\ ~Summary(ln)
         /\ cf6' = IF BetterRow(ln)
                   THEN [f EXCEPT !.best_day = ln[1].num, !.tmax = ln[2].num,
                                  !.tmin = ln[3].num]
                   ELSE f
  BY DEF Cf6Line
<1> HIDE DEF f
<1>3. ASSUME NEW h, NEW d, NEW x, NEW y, cf6' = Record(h, d, x, y)
      PROVE  /\ cf6'.past_data_header = h
             /\ cf6'.best_day = d /\ cf6'.tmax = x /\ cf6'.tmin = y
             /\ cf6' = [station |-> cf6'.station, month |-> cf6'.month, year |-> cf6'.year,
                        past_data_header |-> cf6'.past_data_header,
                        best_day |-> cf6'.best_day, tmax |-> cf6'.tmax, tmin |-> cf6'.tmin]
  BY <1>3 DEF Locals
<1>4. CASE ~cf6.past_data_header /\ cf6' = [f EXCEPT !.past_data_header = DataHeader(ln)]
  <2> DEFINE h == DataHeader(ln)
  <2> HIDE DEF h
  <2>1. cf6' = [f EXCEPT !.past_data_header = h]
    BY <1>4 DEF h
  <2>2. cf6' = Record(h, cf6.best_day, cf6.tmax, cf6.tmin)
    BY <1>1, <2>1 DEF Locals
  <2> HIDE DEF Record
  <2> QED BY <1>3, <1>4, <2>2 DEF h
<1>5. CASE /\ cf6.past_data_header /\ ~Summary(ln) /\ BetterRow(ln)
           /\ cf6' = [f EXCEPT !.best_day = ln[1].num, !.tmax = ln[2].num,
                               !.tmin = ln[3].num]
  <2> DEFINE d == ln[1].num
             x == ln[2].num
             y == ln[3].num
             h == cf6.past_data_header
  <2> HIDE DEF d, x, y, h
  <2>1. cf6' = [f EXCEPT !.best_day = d, !.tmax = x, !.tmin = y]
    BY <1>5 DEF d, x, y
  <2>2. /\ f = Locals(f.station, f.month, f.year, f.past_data_header, f.best_day,
                      f.tmax, f.tmin)
        /\ f.past_data_header = h
    BY <1>1 DEF h, Locals
  <2>3. cf6' = Record(h, d, x, y)
    BY <2>1, <2>2 DEF Locals
  <2> HIDE DEF Record
  <2>4. /\ cf6'.past_data_header = h
        /\ cf6'.best_day = d /\ cf6'.tmax = x /\ cf6'.tmin = y
        /\ cf6' = [station |-> cf6'.station, month |-> cf6'.month, year |-> cf6'.year,
                   past_data_header |-> cf6'.past_data_header,
                   best_day |-> cf6'.best_day, tmax |-> cf6'.tmax, tmin |-> cf6'.tmin]
    BY <1>3, <2>3
  <2> QED BY <1>5, <2>4, Zenon DEF d, x, y, h
<1>6. CASE /\ cf6.past_data_header /\ ~Summary(ln) /\ ~BetterRow(ln)
           /\ cf6' = f
  <2> DEFINE h == cf6.past_data_header
  <2> HIDE DEF h
  <2>1. cf6' = Record(h, cf6.best_day, cf6.tmax, cf6.tmin)
    BY <1>1, <1>6 DEF h
  <2> HIDE DEF Record
  <2>2. /\ cf6'.past_data_header = h
        /\ cf6'.best_day = cf6.best_day /\ cf6'.tmax = cf6.tmax /\ cf6'.tmin = cf6.tmin
        /\ cf6' = [station |-> cf6'.station, month |-> cf6'.month, year |-> cf6'.year,
                   past_data_header |-> cf6'.past_data_header,
                   best_day |-> cf6'.best_day, tmax |-> cf6'.tmax, tmin |-> cf6'.tmin]
    BY <1>3, <2>1
  <2> QED BY <1>6, <2>2, Zenon DEF h
<1> QED BY <1>2, <1>4, <1>5, <1>6

\* A line of a CF6 keeps the most recent row.
LEMMA Cf6LineStep == ASSUME TypeInv, Cf6Inv, Cf6Line PROVE TypeInv' /\ Cf6Inv'
<1> DEFINE ln == text[pos]
           old == Seen \cap Complete
           new == Seen' \cap Complete'
           past == cf6.past_data_header
<1>1. /\ pos \in DOMAIN text /\ pos' = pos + 1
      /\ text' = text /\ outcome' = outcome /\ r' = r /\ outcome = "reading"
  BY DEF Cf6Line
<1>2. /\ cf6' = [station |-> cf6'.station, month |-> cf6'.month, year |-> cf6'.year,
                 past_data_header |-> cf6'.past_data_header,
                 best_day |-> cf6'.best_day, tmax |-> cf6'.tmax, tmin |-> cf6'.tmin]
      /\ past /\ BetterRow(ln) =>
            cf6'.best_day = ln[1].num /\ cf6'.tmax = ln[2].num /\ cf6'.tmin = ln[3].num
      /\ ~(past /\ BetterRow(ln)) =>
            cf6'.best_day = cf6.best_day /\ cf6'.tmax = cf6.tmax /\ cf6'.tmin = cf6.tmin
      /\ ~past => cf6'.past_data_header = DataHeader(ln)
      /\ past => cf6'.past_data_header = past /\ ~Summary(ln)
  <2> HIDE DEF ln
  <2>1. ln = text[pos]
    BY DEF ln
  <2> QED BY <2>1, Cf6LineCases
<1>3. /\ Len(text) \in Nat /\ DOMAIN text = 1..Len(text) /\ pos \in Nat /\ pos >= 1
  BY <1>1, TextFacts DEF TypeInv
<1>4. /\ Seen' = Seen \cup {pos} /\ pos' \in 1..(Len(text) + 1)
      /\ pos \in Complete => new = old \cup {pos}
      /\ pos \notin Complete => new = old
  <2>1. Seen' = 1..((pos + 1) - 1) /\ Complete' = Complete
    BY <1>1, SameText DEF Seen
  <2> HIDE DEF Complete
  <2> QED BY <1>1, <2>1, SeenExtends
<1>5. TypeInv'
  BY <1>1, <1>2, <1>4 DEF TypeInv
<1>6. /\ past <=> Below(pos)
      /\ \A k \in Seen : Below(k) => ~Summary(text[k])
  BY <1>1 DEF Cf6Inv
<1>7. past <=> pos \in TableRows
  <2>1. \A k \in 1..pos : k \in Seen \/ k = pos
    BY <1>3 DEF Seen
  <2>2. pos \in TableRows => Below(pos)
    BY <1>1, RowFacts DEF TypeInv
  <2>3. ASSUME past PROVE pos \in TableRows
    <3>1. \A k \in 1..pos : Below(k) => ~Summary(text[k])
      BY <1>2, <1>6, <2>1, <2>3
    <3> QED BY <1>1, <1>6, <2>3, <3>1, RowFacts DEF TypeInv
  <2> QED BY <1>6, <2>2, <2>3
<1>8. (cf6.past_data_header <=> Below(pos))'
  <2>1. Below(pos + 1) <=> Below(pos) \/ DataHeader(ln)
    <3>1. \A h : h \in 1..((pos + 1) - 1) <=> h \in 1..(pos - 1) \/ h = pos
      BY <1>3
    <3> QED BY <3>1 DEF Below
  <2>2. Below(pos)' <=> Below(pos + 1)
    BY <1>1 DEF Below
  <2> QED BY <1>2, <1>6, <2>1, <2>2
<1>9. (\A k \in Seen : Below(k) => ~Summary(text[k]))'
  <2>1. \A k \in Seen \cup {pos} : Below(k) => ~Summary(text[k])
    BY <1>2, <1>6
  <2> QED BY <1>1, <1>4, <2>1, SameText
<1>10. BestOf(Seen \cap Complete)'
  <2>1. BestOf(old)
    BY DEF Cf6Inv
  <2>2. CASE pos \notin Complete
    <3>1. ~(past /\ BetterRow(ln))
      BY <1>7, <2>2 DEF Complete, BetterRow
    <3>2. BestOf(old)'
      BY <1>1, <1>2, <1>4, <2>1, <2>2, <3>1, BestKept
    <3> QED BY <1>4, <2>2, <3>2
  <2>3. CASE pos \in Complete /\ ~BetterRow(ln)
    <3>1. Day(pos) \in 1..31 /\ Day(pos) = ln[1].num /\ ~(Day(pos) > cf6.best_day)
      BY <2>3, DayRange DEF Day, Complete, BetterRow
    <3>2. old # {}
      BY <2>1, <3>1 DEF BestOf
    <3>3. PICK i \in old : /\ \A k \in old : Day(k) <= Day(i)
                           /\ cf6.best_day = Day(i)
                           /\ cf6.tmax = text[i][2].num
                           /\ cf6.tmin = text[i][3].num
      BY <2>1, <3>2 DEF BestOf
    <3>4. i \in new /\ Day(i) \in 1..31 /\ \A k \in new : k \in old \/ k = pos
      BY <1>4, <2>3, DayRange
    <3>5. \A k \in new : Day(k) <= Day(i)
      BY <3>1, <3>3, <3>4
    <3>6. cf6'.best_day = Day(i) /\ cf6'.tmax = text[i][2].num /\ cf6'.tmin = text[i][3].num
      BY <1>2, <2>3, <3>3
    <3> QED BY <1>1, <3>4, <3>5, <3>6 DEF BestOf, Day
  <2>4. CASE pos \in Complete /\ BetterRow(ln)
    <3>1. /\ Day(pos) \in 1..31 /\ Day(pos) = ln[1].num /\ Day(pos) > cf6.best_day
          /\ past
      BY <1>7, <2>4, DayRange DEF Day, Complete, BetterRow
    <3>2. \A k \in new : k \in old \/ k = pos
      BY <1>4, <2>4
    <3>3. \A k \in old : Day(k) <= cf6.best_day /\ Day(k) \in 1..31 /\ cf6.best_day \in 1..31
      BY <2>1, DayRange DEF BestOf
    <3>4. \A k \in new : Day(k) <= Day(pos)
      BY <3>1, <3>2, <3>3
    <3>5. pos \in new
      BY <1>4, <2>4
    <3>6. cf6'.best_day = Day(pos) /\ cf6'.tmax = text[pos][2].num /\ cf6'.tmin = text[pos][3].num
      BY <1>2, <2>4, <3>1
    <3> QED BY <1>1, <3>4, <3>5, <3>6 DEF BestOf, Day
  <2> QED BY <2>2, <2>3, <2>4
<1> QED BY <1>1, <1>5, <1>8, <1>9, <1>10 DEF Cf6Inv

\* The summary ends the table: no row follows it.
LEMMA Cf6BreakStep == ASSUME TypeInv, Cf6Inv, Cf6Break PROVE TypeInv' /\ Cf6Inv'
<1> DEFINE f == Identified(text[pos])
<1>1. /\ pos \in DOMAIN text /\ cf6.past_data_header /\ Summary(text[pos])
      /\ cf6' = f /\ pos' = Len(text) + 1 /\ outcome = "reading"
      /\ text' = text /\ outcome' = outcome /\ r' = r
  BY DEF Cf6Break
<1>2. f = Locals(f.station, f.month, f.year, cf6.past_data_header, cf6.best_day,
                 cf6.tmax, cf6.tmin)
  BY IdentifiedFacts DEF Locals
<1> HIDE DEF f
<1>3. /\ cf6' = [station |-> cf6'.station, month |-> cf6'.month, year |-> cf6'.year,
                 past_data_header |-> cf6'.past_data_header,
                 best_day |-> cf6'.best_day, tmax |-> cf6'.tmax, tmin |-> cf6'.tmin]
      /\ cf6'.best_day = cf6.best_day /\ cf6'.tmax = cf6.tmax /\ cf6'.tmin = cf6.tmin
  BY <1>1, <1>2 DEF Locals
<1>4. Len(text) \in Nat /\ DOMAIN text = 1..Len(text) /\ pos \in 1..Len(text)
  BY <1>1, TextFacts DEF TypeInv
<1>5. pos' \in 1..(Len(text) + 1) /\ pos' \notin DOMAIN text
  BY <1>1, <1>4
<1>6. TypeInv'
  BY <1>1, <1>3, <1>5 DEF TypeInv
<1>7. Seen' \cap Complete' = Seen \cap Complete
  <2>1. Complete' = Complete /\ Seen' = 1..Len(text)
    <3>1. (Len(text) + 1) - 1 = Len(text)
      BY <1>4
    <3> QED BY <1>1, <3>1, SameText DEF Seen
  <2>2. ASSUME NEW i \in 1..Len(text), i \in Complete PROVE i \in Seen
    <3>1. \A k \in 1..i : Below(k) => ~Summary(text[k])
      BY <1>4, <2>2, RowFacts DEF TypeInv, Complete
    <3>2. Below(pos)
      BY <1>1 DEF Cf6Inv
    <3>3. pos \notin 1..i
      BY <1>1, <3>1, <3>2
    <3> QED BY <1>4, <3>3 DEF Seen
  <2>3. \A i \in Seen : i \in 1..Len(text)
    BY <1>4 DEF Seen
  <2> QED BY <2>1, <2>2, <2>3, Zenon
<1>8. BestOf(Seen \cap Complete)'
  <2>1. BestOf(Seen \cap Complete)
    BY DEF Cf6Inv
  <2> DEFINE S == Seen \cap Complete
  <2>2. S' = S
    BY <1>7
  <2> QED BY <1>1, <1>3, <2>1, <2>2 DEF BestOf, Day
<1> QED BY <1>1, <1>5, <1>6, <1>8 DEF Cf6Inv

\* The best row becomes the report.
LEMMA Cf6EndStep == ASSUME TypeInv, Cf6Inv, Cf6End PROVE TypeInv' /\ Cf6Inv'
<1>1. /\ outcome = "reading" /\ pos = Len(text) + 1
      /\ text' = text /\ pos' = pos /\ cf6' = cf6
  BY DEF Cf6End
<1>2. Len(text) \in Nat /\ DOMAIN text = 1..Len(text)
  BY TextFacts DEF TypeInv
<1>3. pos' \notin DOMAIN text
  BY <1>1, <1>2
<1>4. BestOf(Seen \cap Complete)'
  <2>1. Complete' = Complete /\ Seen' = Seen
    BY <1>1, SameText DEF Seen
  <2>2. BestOf(Seen \cap Complete)
    BY DEF Cf6Inv
  <2> QED BY <1>1, <2>1, <2>2 DEF BestOf, Day
<1>5. CASE /\ cf6.month = 0 \/ cf6.year = 0 \/ cf6.best_day = 0
           /\ outcome' = "parse_error"
           /\ r' = r
  <2>1. TypeInv'
    BY <1>1, <1>5 DEF TypeInv
  <2> QED BY <1>1, <1>3, <1>4, <1>5, <2>1 DEF Cf6Inv
<1>6. CASE /\ cf6.month # 0 /\ cf6.year # 0 /\ cf6.best_day # 0
           /\ outcome' = "ok"
           /\ r' = [r EXCEPT
                 !.date = <<cf6.year, cf6.month, cf6.best_day>>,
                 !.station = IF cf6.station = None THEN None ELSE "K" \o cf6.station,
                 !.tmax_f = cf6.tmax,
                 !.tmin_f = cf6.tmin]
  <2> DEFINE a == <<cf6.year, cf6.month, cf6.best_day>>
             b == IF cf6.station = None THEN None ELSE "K" \o cf6.station
  <2>1. r' = [r EXCEPT !.date = a, !.station = b, !.tmax_f = cf6.tmax, !.tmin_f = cf6.tmin]
    BY <1>6
  <2> HIDE DEF a, b
  <2>2. /\ r'.date = a /\ r'.tmax_f = cf6.tmax /\ r'.tmin_f = cf6.tmin
        /\ r' = [source |-> r.source, station |-> b, date |-> a,
                 tmax_f |-> cf6.tmax, tmin_f |-> cf6.tmin,
                 is_preliminary |-> r.is_preliminary, is_corrected |-> r.is_corrected]
    BY <2>1 DEF TypeInv
  <2>3. r' = [source |-> r'.source, station |-> r'.station, date |-> r'.date,
               tmax_f |-> r'.tmax_f, tmin_f |-> r'.tmin_f,
               is_preliminary |-> r'.is_preliminary, is_corrected |-> r'.is_corrected]
    BY <2>2
  <2>4. TypeInv'
    BY <1>1, <1>6, <2>3 DEF TypeInv
  <2>5. r'.date = <<cf6.year, cf6.month, cf6.best_day>>
    BY <2>2 DEF a
  <2> QED BY <1>1, <1>3, <1>4, <1>6, <2>2, <2>4, <2>5 DEF Cf6Inv
<1> QED BY <1>5, <1>6 DEF Cf6End

\* The end of a CLI, and a text without lines.
LEMMA CliEndStep ==
    ASSUME TypeInv, CliInv, CliEnd \/ Empty PROVE TypeInv' /\ CliInv'
<1>1. /\ text' = text /\ pos' = pos /\ r' = r /\ cf6' = cf6
      /\ in_temperature' = in_temperature
      /\ outcome' \in {"ok", "parse_error"}
      /\ outcome' = "ok" => pos = Len(text) + 1
  BY DEF CliEnd, Empty
<1>2. TypeInv'
  BY <1>1 DEF TypeInv
<1>3. /\ Seen' = Seen /\ TemperatureLines' = TemperatureLines
      /\ Inside(pos - 1)' <=> Inside(pos - 1)
  BY <1>1, SameText DEF Seen, Inside
<1> QED BY <1>1, <1>2, <1>3 DEF CliInv, FirstValue

\* Nothing has been read.
LEMMA InitIInv == Init => IInv
<1> SUFFICES ASSUME Init PROVE IInv
  OBVIOUS
<1>1. Len(text) \in Nat /\ text \in Texts /\ pos = 1 /\ outcome = "reading"
  BY TextFacts DEF Init
<1>2. Seen = {} /\ ~Inside(pos - 1) /\ ~Below(pos)
  BY <1>1 DEF Seen, Inside, Below
<1>3. TypeInv
  BY <1>1 DEF Init, TypeInv, NewReport, NewCf6
<1>4. CliInv
  BY <1>1, <1>2 DEF Init, CliInv, FirstValue, NewReport
<1>5. Cf6Inv
  BY <1>1, <1>2 DEF Init, Cf6Inv, BestOf, NewCf6
<1> QED BY <1>3, <1>4, <1>5 DEF IInv

\* The first values and the best row are inductive.
LEMMA NextIInv == IInv /\ [Next]_vars => IInv'
<1> SUFFICES ASSUME IInv, [Next]_vars PROVE IInv'
  OBVIOUS
<1>1. text' = text /\ (IsCf6' <=> IsCf6)
  <2>1. text' = text
    BY DEF Next, vars, Empty, CliLine, CliEnd, Cf6Line, Cf6Break, Cf6End, Done
  <2> QED BY <2>1, SameText
<1>2. CASE CliLine
  BY <1>1, <1>2, CliLineStep DEF IInv, CliLine
<1>3. CASE CliEnd
  BY <1>1, <1>3, CliEndStep DEF IInv, CliEnd
<1>4. CASE Empty
  <2>1. ~IsCf6
    BY <1>4 DEF Empty, IsCf6, Mentions
  <2> QED BY <1>1, <1>4, <2>1, CliEndStep DEF IInv
<1>5. CASE Cf6Line
  BY <1>1, <1>5, Cf6LineStep DEF IInv, Cf6Line
<1>6. CASE Cf6Break
  BY <1>1, <1>6, Cf6BreakStep DEF IInv, Cf6Break
<1>7. CASE Cf6End
  BY <1>1, <1>7, Cf6EndStep DEF IInv, Cf6End
<1>8. CASE UNCHANGED vars
  <2>1. UNCHANGED <<text, pos, outcome, r, in_temperature, cf6>>
    BY <1>8 DEF vars
  <2>2. Seen' = Seen /\ Complete' = Complete /\ TemperatureLines' = TemperatureLines
        /\ (Inside(pos - 1)' <=> Inside(pos - 1)) /\ (Below(pos)' <=> Below(pos))
        /\ \A k : Below(k)' <=> Below(k)
    BY <2>1, SameText DEF Seen, Inside, Below
  <2>3. TypeInv'
    BY <2>1 DEF IInv, TypeInv
  <2>4. CliInv => CliInv'
    BY <2>1, <2>2 DEF CliInv, FirstValue
  <2>5. Cf6Inv => Cf6Inv'
    BY <2>1, <2>2 DEF Cf6Inv, BestOf, Day
  <2> QED BY <1>1, <2>3, <2>4, <2>5 DEF IInv
<1> QED BY <1>2, <1>3, <1>4, <1>5, <1>6, <1>7, <1>8 DEF Next, Done

LEMMA Invariant == Spec => []IInv
BY InitIInv, NextIInv, PTL DEF Spec

\* Whatever the text, a climate report has the first station and the first
\* date of it, and the first temperatures of its temperature sections
\* (parse_cli_product_text).
THEOREM CliFirstMentionsTheorem == Spec => []CliFirstMentions
<1>1. IInv => CliFirstMentions
  <2> SUFFICES ASSUME IInv, outcome = "ok", ~IsCf6 PROVE CliFirstMentions
    BY DEF CliFirstMentions
  <2>1. CliInv /\ pos = Len(text) + 1 /\ Len(text) \in Nat /\ DOMAIN text = 1..Len(text)
    BY TextFacts DEF IInv, TypeInv, CliInv
  <2>2. Seen = DOMAIN text
    <3>1. (Len(text) + 1) - 1 = Len(text)
      BY <2>1
    <3> QED BY <2>1, <3>1 DEF Seen
  <2>3. Seen \cap TemperatureLines = TemperatureLines
    BY <2>2 DEF TemperatureLines
  <2> QED BY <2>1, <2>2, <2>3 DEF CliInv, CliFirstMentions
<1> QED BY <1>1, Invariant, PTL

\* Whatever the text, a report read from an F-6 table is for the most recent
\* of the days that have both temperatures, and has that day's temperatures;
\* there is none only when no day has both (parse_cf6_product_text).
THEOREM MostRecentCompleteDayTheorem == Spec => []MostRecentCompleteDay
<1>1. IInv => MostRecentCompleteDay
  <2> SUFFICES ASSUME IInv, IsCf6, outcome # "reading" PROVE MostRecentCompleteDay
    <3>1. outcome = "reading" \/ ~IsCf6 => MostRecentCompleteDay
      BY DEF MostRecentCompleteDay
    <3> QED BY <3>1
  <2>1. Cf6Inv /\ pos = Len(text) + 1 /\ Len(text) \in Nat /\ DOMAIN text = 1..Len(text)
    BY TextFacts DEF IInv, TypeInv, Cf6Inv
  <2>2. Seen \cap Complete = Complete
    <3>1. Seen = DOMAIN text
      <4>1. (Len(text) + 1) - 1 = Len(text)
        BY <2>1
      <4> QED BY <2>1, <4>1 DEF Seen
    <3> QED BY <3>1 DEF Complete, TableRows
  <2>3. BestOf(Complete)
    BY <2>1, <2>2 DEF Cf6Inv
  <2>4. ASSUME outcome = "ok"
        PROVE  \E i \in Complete : /\ \A k \in Complete : Day(k) <= Day(i)
                                   /\ r.date[3] = Day(i)
                                   /\ r.tmax_f = text[i][2].num
                                   /\ r.tmin_f = text[i][3].num
    <3>1. /\ r.date[3] = cf6.best_day /\ r.tmax_f = cf6.tmax /\ r.tmin_f = cf6.tmin
          /\ cf6.best_day # 0
      BY <2>1, <2>4 DEF Cf6Inv
    <3> QED BY <2>3, <3>1 DEF BestOf
  <2>5. ASSUME outcome = "parse_error", cf6.month # 0, cf6.year # 0
        PROVE  Complete = {}
    <3>1. cf6.best_day = 0
      BY <2>1, <2>5 DEF Cf6Inv
    <3>2. \A i \in Complete : Day(i) # 0
      BY DayRange
    <3> QED BY <2>3, <3>1, <3>2 DEF BestOf
  <2> QED BY <2>4, <2>5 DEF MostRecentCompleteDay, Complete, Day
<1> QED BY <1>1, Invariant, PTL
-----------------------------------------------------------------------------
(* NBP bulletins: listing the elements of a sequence at some positions.    *)

\* A set that holds 0 and the successor of each of its numbers holds them all.
LEMMA NatSetInduction ==
    ASSUME NEW S, 0 \in S, \A n \in Nat : n \in S => n + 1 \in S
    PROVE  Nat \subseteq S
<1> SUFFICES ASSUME Nat \ S # {} PROVE FALSE
  OBVIOUS
<1> DEFINE x == Min(Nat \ S)
<1>1. x \in Nat \ S /\ \A y \in Nat \ S : x <= y
  BY MinFacts
<1> HIDE DEF x
<1>2. x # 0 /\ x - 1 \in Nat /\ x - 1 \notin S
  BY <1>1
<1> QED BY <1>1, <1>2

\* The numbers of P before k.
Before(P, k) == {j \in P : j < k}

\* Sets of positions are finite.
LEMMA FinitePositions ==
    ASSUME NEW m \in Nat, NEW P \in SUBSET (1..m)
    PROVE  IsFiniteSet(P) /\ Cardinality(P) \in Nat
<1>1. IsFiniteSet(1..m)
  BY FS_Interval
<1>2. IsFiniteSet(P)
  BY <1>1, FS_Subset
<1> QED BY <1>2, FS_CardinalityType

\* A new last position counts all the others before it, and changes nothing
\* for them.
LEMMA BeforeExtends ==
    ASSUME NEW m \in Nat, NEW P \in SUBSET (1..m)
    PROVE  /\ P \cup {m + 1} \in SUBSET (1..(m + 1))
           /\ Cardinality(P \cup {m + 1}) = Cardinality(P) + 1
           /\ Before(P \cup {m + 1}, m + 1) = P
           /\ \A k \in P : Before(P \cup {m + 1}, k) = Before(P, k)
<1>1. m + 1 \notin P
  OBVIOUS
<1>2. Cardinality(P \cup {m + 1}) = Cardinality(P) + 1
  BY <1>1, FinitePositions, FS_AddElement
<1>3. P \cup {m + 1} \in SUBSET (1..(m + 1))
  OBVIOUS
<1>4. Before(P \cup {m + 1}, m + 1) = P
  <2>1. \A j \in P : j < m + 1
    OBVIOUS
  <2>2. ~(m + 1 < m + 1)
    OBVIOUS
  <2> QED BY <2>1, <2>2, Zenon DEF Before
<1>5. ASSUME NEW k \in P PROVE Before(P \cup {m + 1}, k) = Before(P, k)
  BY DEF Before
<1> QED BY <1>2, <1>3, <1>4, <1>5

\* Of two positions the later one has more before it.
LEMMA BeforeGrows ==
    ASSUME NEW m \in Nat, NEW P \in SUBSET (1..m), NEW j \in P, NEW k \in P, j < k
    PROVE  Cardinality(Before(P, j)) < Cardinality(Before(P, k))
<1> DEFINE J == Before(P, j)
           K == Before(P, k)
<1>1. J \in SUBSET K /\ K \in SUBSET (1..m) /\ J \in SUBSET (1..m)
  <2>1. ASSUME NEW x \in J PROVE x \in K
    BY DEF Before
  <2>2. J \subseteq P /\ K \subseteq P
    BY DEF Before
  <2> HIDE DEF J, K
  <2> QED BY <2>1, <2>2
<1>2. j \in K /\ j \notin J
  BY DEF Before
<1>3. IsFiniteSet(K) /\ Cardinality(K) \in Nat /\ Cardinality(J) \in Nat
  BY <1>1, FinitePositions
<1>4. Cardinality(J) <= Cardinality(K) /\ (Cardinality(K) = Cardinality(J) => K = J)
  BY <1>1, <1>3, FS_Subset
<1>5. K # J
  BY <1>2
<1> HIDE DEF J, K
<1> QED BY <1>3, <1>4, <1>5 DEF J, K

\* For each number up to the size of P there is a position with that many
\* before it.
LEMMA NthExists ==
    ASSUME NEW m \in Nat, NEW P \in SUBSET (1..m), NEW i \in 1..Cardinality(P)
    PROVE  \E k \in P : Cardinality(Before(P, k)) = i - 1
<1> DEFINE Held(U) == \A n \in 1..Cardinality(U) : \E k \in U : Cardinality(Before(U, k)) = n - 1
           S == {n \in Nat : \A U \in SUBSET (1..n) : Held(U)}
<1>1. 0 \in S
  <2> SUFFICES ASSUME NEW U \in SUBSET (1..0) PROVE Held(U)
    OBVIOUS
  <2>1. U = {}
    OBVIOUS
  <2>2. Cardinality(U) = 0
    BY <2>1, FS_EmptySet
  <2> QED BY <2>2
<1>2. ASSUME NEW n \in Nat, n \in S PROVE n + 1 \in S
  <2> SUFFICES ASSUME NEW U \in SUBSET (1..(n + 1)) PROVE Held(U)
    OBVIOUS
  <2> DEFINE R == U \ {n + 1}
  <2>1. R \in SUBSET (1..n)
    OBVIOUS
  <2>2. Held(R)
    BY <1>2, <2>1
  <2>3. CASE n + 1 \notin U
    <3>1. U = R
      BY <2>3
    <3> QED BY <2>2, <3>1
  <2>4. CASE n + 1 \in U
    <3>1. U = R \cup {n + 1}
      BY <2>4
    <3> HIDE DEF R
    <3>2. /\ Cardinality(U) = Cardinality(R) + 1
          /\ Before(U, n + 1) = R
          /\ \A k \in R : Before(U, k) = Before(R, k)
      BY <2>1, <3>1, BeforeExtends
    <3>3. Cardinality(R) \in Nat
      BY <2>1, FinitePositions
    <3>4. ASSUME NEW j \in 1..Cardinality(U)
          PROVE  \E k \in U : Cardinality(Before(U, k)) = j - 1
      <4>1. CASE j = Cardinality(R) + 1
        <5>1. Cardinality(Before(U, n + 1)) = j - 1
          BY <3>2, <3>3, <4>1
        <5> QED BY <2>4, <5>1
      <4>2. CASE j # Cardinality(R) + 1
        <5>1. j \in 1..Cardinality(R)
          BY <3>2, <3>3, <4>2
        <5>2. PICK k \in R : Cardinality(Before(R, k)) = j - 1
          BY <2>2, <5>1
        <5>3. k \in U /\ Cardinality(Before(U, k)) = j - 1
          BY <3>1, <3>2, <5>2
        <5> QED BY <5>3
      <4> QED BY <4>1, <4>2
    <3> QED BY <3>4
  <2> HIDE DEF Held
  <2> QED BY <2>3, <2>4
<1>3. Nat \subseteq S
  <2> HIDE DEF S
  <2> QED BY <1>1, <1>2, NatSetInduction
<1>4. Held(P)
  BY <1>3
<1> QED BY <1>4

\* The i-th position is the one with i - 1 before it.
LEMMA NthIs ==
    ASSUME NEW m \in Nat, NEW P \in SUBSET (1..m), NEW i \in Nat, NEW k \in P,
           Cardinality(Before(P, k)) = i - 1
    PROVE  Nth(P, i) = k
<1> DEFINE Chosen(x) == Cardinality(Before(P, x)) = i - 1
<1>1. ASSUME NEW x \in P, Chosen(x) PROVE x = k
  <2>1. x \in Nat /\ k \in Nat
    OBVIOUS
  <2>2. ~(x < k) /\ ~(k < x)
    BY <1>1, BeforeGrows
  <2> QED BY <2>1, <2>2
<1>2. Nth(P, i) = CHOOSE x \in P : Chosen(x)
  BY DEF Nth, Before
<1>3. Chosen(k)
  OBVIOUS
<1> HIDE DEF Chosen
<1> QED BY <1>1, <1>2, <1>3

\* The positions up to the size of the set are taken in turn, and a new last
\* one comes last.
LEMMA NthExtends ==
    ASSUME NEW m \in Nat, NEW P \in SUBSET (1..m)
    PROVE  /\ \A i \in 1..Cardinality(P) :
                  Nth(P, i) \in P /\ Nth(P \cup {m + 1}, i) = Nth(P, i)
           /\ Nth(P \cup {m + 1}, Cardinality(P) + 1) = m + 1
<1> DEFINE U == P \cup {m + 1}
<1>1. Cardinality(P) \in Nat
  BY FinitePositions
<1>2. /\ U \in SUBSET (1..(m + 1))
      /\ Before(U, m + 1) = P
      /\ \A k \in P : Before(U, k) = Before(P, k)
  BY BeforeExtends
<1>3. P \subseteq U /\ m + 1 \in U /\ m + 1 \in Nat
  OBVIOUS
<1> HIDE DEF U
<1>4. ASSUME NEW i \in 1..Cardinality(P)
      PROVE  Nth(P, i) \in P /\ Nth(U, i) = Nth(P, i)
  <2>1. i \in Nat
    BY <1>1
  <2>2. PICK k \in P : Cardinality(Before(P, k)) = i - 1
    BY NthExists
  <2>3. Nth(P, i) = k
    BY <2>1, <2>2, NthIs
  <2>4. Nth(U, i) = k
    BY <1>2, <1>3, <2>1, <2>2, NthIs
  <2> QED BY <2>3, <2>4
<1>5. Nth(U, Cardinality(P) + 1) = m + 1
  <2>1. Cardinality(Before(U, m + 1)) = (Cardinality(P) + 1) - 1
    BY <1>1, <1>2
  <2>2. Cardinality(P) + 1 \in Nat
    BY <1>1
  <2> QED BY <1>2, <1>3, <2>1, <2>2, NthIs
<1> QED BY <1>4, <1>5 DEF U

\* What is listed depends on the elements at the positions only.
LEMMA ListedSame ==
    ASSUME NEW m \in Nat, NEW P \in SUBSET (1..m), NEW f, NEW g,
           \A k \in P : f[k] = g[k]
    PROVE  Listed(f, P) = Listed(g, P)
<1>1. \A i \in 1..Cardinality(P) : f[Nth(P, i)] = g[Nth(P, i)]
  BY NthExtends
<1> QED BY <1>1, Zenon DEF Listed

\* The elements listed form a sequence, one for each position.
LEMMA ListedSeq ==
    ASSUME NEW m \in Nat, NEW P \in SUBSET (1..m), NEW f, NEW V, \A k \in P : f[k] \in V
    PROVE  /\ Listed(f, P) \in Seq(V)
           /\ Len(Listed(f, P)) = Cardinality(P)
<1>1. \A i \in 1..Cardinality(P) : f[Nth(P, i)] \in V
  BY NthExtends
<1>2. Cardinality(P) \in Nat
  BY FinitePositions
<1>3. Listed(f, P) = [i \in 1..Cardinality(P) |-> f[Nth(P, i)]]
  BY Zenon DEF Listed
<1> QED BY <1>1, <1>2, <1>3

\* A new last position appends its element.
LEMMA ListedExtends ==
    ASSUME NEW m \in Nat, NEW P \in SUBSET (1..m), NEW f, NEW g,
           \A k \in P : f[k] = g[k]
    PROVE  Listed(g, P \cup {m + 1}) = Append(Listed(f, P), g[m + 1])
<1> DEFINE U == P \cup {m + 1}
           V == {f[k] : k \in P} \cup {g[m + 1]}
           s == Listed(f, P)
           t == Listed(g, U)
           N == Cardinality(P)
<1>1. N \in Nat /\ Cardinality(U) = N + 1
  BY FinitePositions, BeforeExtends
<1>2. s \in Seq(V) /\ Len(s) = N
  <2>1. \A k \in P : f[k] \in V
    OBVIOUS
  <2> HIDE DEF V
  <2> QED BY <2>1, ListedSeq
<1>3. \A k \in U : g[k] \in V
  OBVIOUS
<1>4. t \in Seq(V) /\ Len(t) = N + 1
  <2>1. U \in SUBSET (1..(m + 1))
    BY BeforeExtends
  <2>2. m + 1 \in Nat
    OBVIOUS
  <2> HIDE DEF U, V
  <2> QED BY <1>1, <1>3, <2>1, <2>2, ListedSeq
<1>5. /\ s = [i \in 1..N |-> f[Nth(P, i)]]
      /\ t = [i \in 1..(N + 1) |-> g[Nth(U, i)]]
  BY <1>1, Zenon DEF Listed
<1>6. \A i \in 1..N : t[i] = s[i]
  <2> SUFFICES ASSUME NEW i \in 1..N PROVE t[i] = s[i]
    OBVIOUS
  <2>1. Nth(P, i) \in P /\ Nth(U, i) = Nth(P, i)
    BY NthExtends
  <2>2. i \in 1..(N + 1)
    BY <1>1
  <2>3. s[i] = f[Nth(P, i)] /\ t[i] = g[Nth(U, i)]
    <3> HIDE DEF s, t, N, U
    <3> QED BY <1>5, <2>2
  <2> QED BY <2>1, <2>3
<1>7. t[N + 1] = g[m + 1]
  <2>1. Nth(U, N + 1) = m + 1
    BY NthExtends
  <2>2. N + 1 \in 1..(N + 1)
    BY <1>1
  <2> HIDE DEF s, t, N, U
  <2> QED BY <1>5, <2>1, <2>2
<1>8. g[m + 1] \in V
  OBVIOUS
<1> DEFINE e == g[m + 1]
<1> HIDE DEF s, t, N, U, V, e
<1>9. t = Append(s, e)
  BY <1>1, <1>2, <1>4, <1>6, <1>7, <1>8 DEF e
<1> QED BY <1>9 DEF s, t, U, e
-----------------------------------------------------------------------------
(* NBP bulletins: the stations of a bulletin.                              *)

\* No header and no "$$" follows the header at h.
Open(h) == \A j \in (h + 1)..Len(bulletin) : bulletin[j].kind \notin {"header", "end"}

Closed == {h \in Headers : ~Open(h)}

\* The stations that the headers in a set stand for.
StationsAt(H) == Listed([h \in H |-> StationOf(h)], H)

BulletinTypes ==
    /\ bulletin \in Seq(Lines)
    /\ in_block \in BOOLEAN
    /\ have_columns \in BOOLEAN
    /\ verdict \in {"reading", "ok", "parse_error"}

\* cur is what the lines since the header at h amount to.
Current(h) ==
    /\ h \in Headers
    /\ Open(h)
    /\ cur = StationOf(h)
    /\ have_columns <=> ColumnRows(h) # {}

Blocks ==
    verdict = "reading" =>
        /\ stations = StationsAt(Closed)
        /\ in_block => \E h \in 1..Len(bulletin) : Current(h)
        /\ ~in_block => Closed = Headers

BulletinInv == BulletinTypes /\ Blocks /\ BlocksAsRead
-----------------------------------------------------------------------------
\* What the lines are.
LEMMA LineKinds ==
    ASSUME NEW ln \in Lines
    PROVE  ln.kind = "header" => ln.station \in Stations
BY DEF Lines, Header, End, EmptyLine, Row

\* A line is read after the others.
LEMMA TextExtends ==
    ASSUME bulletin \in Seq(Lines), NEW ln \in Lines, bulletin' = Append(bulletin, ln)
    PROVE  /\ bulletin' \in Seq(Lines)
           /\ Len(bulletin) \in Nat
           /\ Len(bulletin') = Len(bulletin) + 1
           /\ bulletin'[Len(bulletin) + 1] = ln
           /\ \A k \in 1..Len(bulletin) : bulletin'[k] = bulletin[k]
OBVIOUS

\* The headers read so far are positions of the text.
LEMMA HeaderFacts ==
    ASSUME bulletin \in Seq(Lines)
    PROVE  /\ Len(bulletin) \in Nat
           /\ Headers \in SUBSET (1..Len(bulletin))
           /\ Closed \in SUBSET (1..Len(bulletin))
           /\ \A h \in Headers : bulletin[h].station \in Stations
<1>1. /\ Len(bulletin) \in Nat
      /\ DOMAIN bulletin = 1..Len(bulletin)
      /\ \A k \in 1..Len(bulletin) : bulletin[k] \in Lines
  OBVIOUS
<1>2. Headers \in SUBSET (1..Len(bulletin)) /\ Closed \in SUBSET (1..Len(bulletin))
  BY <1>1, Zenon DEF Headers, Closed
<1>3. ASSUME NEW h \in Headers PROVE bulletin[h].station \in Stations
  <2>1. bulletin[h] \in Lines /\ bulletin[h].kind = "header"
    BY <1>1 DEF Headers
  <2> QED BY <2>1, LineKinds
<1> QED BY <1>1, <1>2, <1>3

\* The header of the block being read is the last one, and the only one
\* that is not closed.
LEMMA OpenIsLast ==
    ASSUME bulletin \in Seq(Lines), NEW h \in Headers, Open(h)
    PROVE  /\ Headers = Closed \cup {h}
           /\ h - 1 \in Nat
           /\ Closed \in SUBSET (1..(h - 1))
<1>1. Len(bulletin) \in Nat /\ Headers \in SUBSET (1..Len(bulletin)) /\ DOMAIN bulletin = 1..Len(bulletin)
  BY HeaderFacts
<1>2. ASSUME NEW g \in Headers, g # h PROVE g < h /\ ~Open(g)
  <2>1. /\ g \in 1..Len(bulletin) /\ bulletin[g].kind = "header"
        /\ h \in 1..Len(bulletin) /\ bulletin[h].kind = "header"
    BY <1>1 DEF Headers
  <2>2. ~(h < g)
    <3> SUFFICES ASSUME h < g PROVE FALSE
      OBVIOUS
    <3>1. g \in (h + 1)..Len(bulletin)
      BY <1>1, <2>1
    <3> QED BY <2>1, <3>1 DEF Open
  <2>3. g < h
    BY <1>2, <2>1, <2>2
  <2>4. h \in (g + 1)..Len(bulletin)
    BY <1>1, <2>1, <2>3
  <2> QED BY <2>1, <2>3, <2>4 DEF Open
<1>3. Headers = Closed \cup {h}
  BY <1>2, Zenon DEF Closed
<1>4. h \in 1..Len(bulletin)
  BY <1>1
<1>5. ASSUME NEW g \in Closed PROVE g \in 1..(h - 1)
  <2>1. g \in Headers /\ g # h
    BY DEF Closed
  <2>2. g < h /\ g \in 1..Len(bulletin)
    BY <1>1, <1>2, <2>1
  <2> QED BY <1>1, <1>4, <2>2
<1> QED BY <1>1, <1>3, <1>4, <1>5

\* The line after the text read so far: which headers there are, which are
\* open, and which lines belong to their blocks.
LEMMA BlockExtends ==
    ASSUME bulletin \in Seq(Lines), NEW ln \in Lines, bulletin' = Append(bulletin, ln),
           NEW n, n = Len(bulletin) + 1
    PROVE  /\ Headers' = Headers \cup (IF ln.kind = "header" THEN {n} ELSE {})
           /\ \A h \in Headers :
                 /\ Open(h)' <=> Open(h) /\ ln.kind \notin {"header", "end"}
                 /\ BlockOf(h)' = BlockOf(h) \cup
                        (IF ln.kind = "row" /\ Open(h) THEN {n} ELSE {})
           /\ Open(n)'
           /\ BlockOf(n)' = {}
<1>1. /\ Len(bulletin) \in Nat
      /\ Len(bulletin') = n
      /\ bulletin'[n] = ln
      /\ \A k \in 1..Len(bulletin) : bulletin'[k] = bulletin[k]
      /\ DOMAIN bulletin = 1..Len(bulletin)
      /\ DOMAIN bulletin' = 1..n
  BY TextExtends
<1>2. 1..n = 1..Len(bulletin) \cup {n} /\ n \notin 1..Len(bulletin) /\ n \in Nat
  BY <1>1
<1>3. Headers' = Headers \cup (IF ln.kind = "header" THEN {n} ELSE {})
  BY <1>1, <1>2, Zenon DEF Headers
<1>4. (n + 1)..n = {}
  BY <1>2
<1>5. Open(n)'
  BY <1>1, <1>4 DEF Open
<1>6. BlockOf(n)' = {}
  BY <1>1, <1>4, Zenon DEF BlockOf
<1>7. ASSUME NEW h \in Headers
      PROVE  /\ Open(h)' <=> Open(h) /\ ln.kind \notin {"header", "end"}
             /\ BlockOf(h)' = BlockOf(h) \cup
                    (IF ln.kind = "row" /\ Open(h) THEN {n} ELSE {})
  <2>1. h \in 1..Len(bulletin)
    BY <1>1 DEF Headers
  <2>2. /\ (h + 1)..n = (h + 1)..Len(bulletin) \cup {n}
        /\ (h + 1)..Len(bulletin) \subseteq 1..Len(bulletin)
        /\ n \notin (h + 1)..Len(bulletin)
        /\ \A k \in (h + 1)..Len(bulletin) : (h + 1)..k \subseteq (h + 1)..Len(bulletin)
    BY <1>1, <2>1
  <2>3. Open(h)' <=> Open(h) /\ ln.kind \notin {"header", "end"}
    BY <1>1, <2>2, Zenon DEF Open
  <2>4. ASSUME NEW k \in (h + 1)..Len(bulletin)
        PROVE  k \in BlockOf(h)' <=> k \in BlockOf(h)
    <3>1. \A j \in (h + 1)..k : bulletin'[j] = bulletin[j]
      BY <1>1, <2>2, Zenon
    <3>2. k \in (h + 1)..n /\ bulletin'[k] = bulletin[k]
      BY <1>1, <2>2, Zenon
    <3> QED BY <1>1, <3>1, <3>2, Zenon DEF BlockOf
  <2>5. n \in BlockOf(h)' <=> ln.kind = "row" /\ Open(h)
    <3>1. ln.kind = "row" => ln.kind \notin {"header", "end"}
      OBVIOUS
    <3>2. n \in (h + 1)..n
      BY <2>2
    <3>3. n \in BlockOf(h)' <=>
              ln.kind = "row" /\ \A j \in (h + 1)..n : bulletin'[j].kind \notin {"header", "end"}
      BY <1>1, <3>2, Zenon DEF BlockOf
    <3>4. (\A j \in (h + 1)..n : bulletin'[j].kind \notin {"header", "end"}) <=> Open(h)'
      BY <1>1, Zenon DEF Open
    <3> QED BY <2>3, <3>1, <3>3, <3>4, Zenon
  <2>6. BlockOf(h) \subseteq (h + 1)..Len(bulletin) /\ BlockOf(h)' \subseteq (h + 1)..n
    BY <1>1, Zenon DEF BlockOf
  <2>7. BlockOf(h)' = BlockOf(h) \cup (IF ln.kind = "row" /\ Open(h) THEN {n} ELSE {})
    BY <2>2, <2>4, <2>5, <2>6, Zenon
  <2> QED BY <2>3, <2>7
<1> QED BY <1>3, <1>5, <1>6, <1>7

\* The lines of a block, its rows of columns and its rows of data, are
\* positions of the text.
LEMMA BlockFacts ==
    ASSUME bulletin \in Seq(Lines), NEW h \in Headers
    PROVE  /\ BlockOf(h) \in SUBSET (1..Len(bulletin))
           /\ ColumnRows(h) \in SUBSET BlockOf(h)
           /\ DataRows(h) \in SUBSET BlockOf(h)
<1>1. h \in 1..Len(bulletin)
  BY HeaderFacts
<1>2. (h + 1)..Len(bulletin) \subseteq 1..Len(bulletin)
  BY <1>1
<1> QED BY <1>2, Zenon DEF BlockOf, ColumnRows, DataRows

\* A station stays as it is while its block does.
LEMMA StationKept ==
    ASSUME bulletin \in Seq(Lines), NEW ln \in Lines, bulletin' = Append(bulletin, ln),
           NEW h \in Headers, BlockOf(h)' = BlockOf(h)
    PROVE  /\ StationOf(h)' = StationOf(h)
           /\ ColumnRows(h)' = ColumnRows(h)
<1>1. Len(bulletin) \in Nat /\ h \in 1..Len(bulletin) /\ \A k \in 1..Len(bulletin) : bulletin'[k] = bulletin[k]
  BY TextExtends, HeaderFacts
<1>2. /\ BlockOf(h) \in SUBSET (1..Len(bulletin))
      /\ ColumnRows(h) \in SUBSET (1..Len(bulletin))
      /\ DataRows(h) \in SUBSET (1..Len(bulletin))
  BY BlockFacts
<1>3. ColumnRows(h)' = ColumnRows(h)
  BY <1>1, <1>2, Zenon DEF ColumnRows
<1>4. DataRows(h)' = DataRows(h)
  BY <1>3, Zenon DEF DataRows
<1> DEFINE C == ColumnRows(h)
           D == DataRows(h)
           f == [k \in D |-> NbpRow(bulletin[k])]
           g == [k \in D |-> NbpRow(bulletin'[k])]
<1>5. C # {} => bulletin'[Min(C)] = bulletin[Min(C)]
  <2> SUFFICES ASSUME C # {} PROVE bulletin'[Min(C)] = bulletin[Min(C)]
    OBVIOUS
  <2>1. C \in SUBSET Nat /\ C \in SUBSET (1..Len(bulletin))
    BY <1>1, <1>2
  <2>2. Min(C) \in C
    <3> HIDE DEF C
    <3> QED BY <2>1, MinFacts
  <2>3. Min(C) \in 1..Len(bulletin)
    BY <2>1, <2>2, Zenon
  <2> QED BY <1>1, <2>3, Zenon
<1>6. Listed(g, D) = Listed(f, D)
  <2>1. \A k \in D : g[k] = f[k]
    BY <1>1, <1>2, Zenon
  <2> HIDE DEF D, f, g
  <2> QED BY <1>1, <1>2, <2>1, ListedSame DEF D
<1>7. bulletin'[h].station = bulletin[h].station
  BY <1>1, Zenon
<1> DEFINE co == IF C = {} THEN <<>> ELSE tokens(bulletin[Min(C)].cells)
           cn == IF C = {} THEN <<>> ELSE tokens(bulletin'[Min(C)].cells)
<1>8. cn = co
  BY <1>5, Zenon
<1>9. /\ StationOf(h) = [station |-> bulletin[h].station, columns |-> co,
                             rows |-> Listed(f, D)]
      /\ StationOf(h)' = [station |-> bulletin'[h].station, columns |-> cn,
                              rows |-> Listed(g, D)]
  BY <1>3, <1>4, Zenon DEF StationOf
<1> HIDE DEF co, cn, f, g, C, D
<1> QED BY <1>3, <1>6, <1>7, <1>8, <1>9, Zenon DEF C

\* The rows of an open block when one more labelled line is read: the first
\* one of the columns is kept apart, any other goes to the data.
LEMMA RowsExtend ==
    ASSUME bulletin \in Seq(Lines), NEW ln \in Lines, bulletin' = Append(bulletin, ln),
           NEW h \in Headers, ln.kind = "row", Open(h), NEW n, n = Len(bulletin) + 1
    PROVE  /\ ColumnRows(h)' = ColumnRows(h) \cup
                  (IF ln.label \in ColumnLabels THEN {n} ELSE {})
           /\ DataRows(h)' = DataRows(h) \cup
                  (IF ln.label \in ColumnLabels /\ ColumnRows(h) = {} THEN {} ELSE {n})
<1> DEFINE B == BlockOf(h)
           C == ColumnRows(h)
<1>1. /\ Len(bulletin) \in Nat
      /\ bulletin'[n] = ln
      /\ \A k \in 1..Len(bulletin) : bulletin'[k] = bulletin[k]
  BY TextExtends
<1>2. /\ B \in SUBSET (1..Len(bulletin))
      /\ C \in SUBSET B
  BY BlockFacts
<1>3. B' = B \cup {n}
  <2>1. BlockOf(h)' = BlockOf(h) \cup
            (IF ln.kind = "row" /\ Open(h) THEN {n} ELSE {})
    BY BlockExtends
  <2> QED BY <2>1
<1>4. \A k \in B : bulletin'[k] = bulletin[k] /\ k < n /\ ~(n < k)
  BY <1>1, <1>2
<1>5. ~(n < n) /\ n \notin B
  BY <1>1, <1>2
<1>6. C' = C \cup (IF ln.label \in ColumnLabels THEN {n} ELSE {})
  BY <1>1, <1>3, <1>4, Zenon DEF ColumnRows
<1>7. ASSUME NEW k \in B PROVE k \in DataRows(h)' <=> k \in DataRows(h)
  <2>1. k \in C' <=> k \in C
    BY <1>5, <1>6, Zenon
  <2>2. (\E j \in C' : j < k) <=> (\E j \in C : j < k)
    BY <1>4, <1>6, Zenon
  <2> QED BY <1>3, <2>1, <2>2, Zenon DEF DataRows
<1>8. n \in DataRows(h)' <=> ~(ln.label \in ColumnLabels /\ C = {})
  <2>1. n \in C' <=> ln.label \in ColumnLabels
    BY <1>2, <1>5, <1>6, Zenon
  <2>2. (\E j \in C' : j < n) <=> C # {}
    BY <1>2, <1>4, <1>5, <1>6, Zenon
  <2> QED BY <1>3, <2>1, <2>2, Zenon DEF DataRows
<1>9. DataRows(h) \subseteq B /\ DataRows(h)' \subseteq B \cup {n}
  BY <1>3, Zenon DEF DataRows
<1>10. DataRows(h)' = DataRows(h) \cup
           (IF ln.label \in ColumnLabels /\ C = {} THEN {} ELSE {n})
  BY <1>5, <1>7, <1>8, <1>9, Zenon
<1> QED BY <1>6, <1>10

\* The first row of the columns sets the columns of the station.
LEMMA ColumnsRead ==
    ASSUME bulletin \in Seq(Lines), NEW ln \in Lines, bulletin' = Append(bulletin, ln),
           NEW h \in Headers, ln.kind = "row", Open(h),
           ln.label \in ColumnLabels, ColumnRows(h) = {}
    PROVE  /\ StationOf(h).columns = <<>>
           /\ StationOf(h)' = [StationOf(h) EXCEPT !.columns = tokens(ln.cells)]
           /\ ColumnRows(h)' # {}
<1>0. PICK n \in Nat : n = Len(bulletin) + 1
  BY HeaderFacts
<1> DEFINE D == DataRows(h)
           f == [k \in D |-> NbpRow(bulletin[k])]
           g == [k \in D |-> NbpRow(bulletin'[k])]
<1>1. /\ Len(bulletin) \in Nat /\ h \in 1..Len(bulletin)
      /\ bulletin'[n] = ln
      /\ \A k \in 1..Len(bulletin) : bulletin'[k] = bulletin[k]
  BY <1>0, TextExtends, HeaderFacts
<1>2. D \in SUBSET (1..Len(bulletin))
  BY BlockFacts
<1>4. ColumnRows(h)' = {n} /\ DataRows(h)' = D
  <2>1. /\ ColumnRows(h)' = ColumnRows(h) \cup
               (IF ln.label \in ColumnLabels THEN {n} ELSE {})
        /\ DataRows(h)' = DataRows(h) \cup
               (IF ln.label \in ColumnLabels /\ ColumnRows(h) = {} THEN {} ELSE {n})
    BY <1>0, RowsExtend
  <2> QED BY <2>1
<1>5. Min({n}) = n
  <2>1. n \in Nat
    BY <1>1
  <2>2. {n} \in SUBSET Nat /\ n \in {n} /\ \A y \in {n} : n <= y
    BY <2>1
  <2>3. Min({n}) = n
    BY <2>2, MinUnique
  <2> QED BY <2>3
<1>6. Listed(g, D) = Listed(f, D)
  <2>1. \A k \in D : g[k] = f[k]
    BY <1>1, <1>2, Zenon
  <2> HIDE DEF D, f, g
  <2> QED BY <1>1, <1>2, <2>1, ListedSame DEF D
<1>7. bulletin'[h].station = bulletin[h].station
  BY <1>1, Zenon
<1>8. StationOf(h) = [station |-> bulletin[h].station, columns |-> <<>>,
                          rows |-> Listed(f, D)]
  BY Zenon DEF StationOf
<1>9. StationOf(h)' = [station |-> bulletin'[h].station, columns |-> tokens(bulletin'[n].cells),
                           rows |-> Listed(g, D)]
  <2>1. {n} # {}
    OBVIOUS
  <2> QED BY <1>4, <1>5, <2>1, Zenon DEF StationOf
<1> DEFINE s == bulletin[h].station
           rs == Listed(f, D)
           t == tokens(ln.cells)
<1>10. /\ StationOf(h) = [station |-> s, columns |-> <<>>, rows |-> rs]
       /\ StationOf(h)' = [station |-> s, columns |-> t, rows |-> rs]
  BY <1>1, <1>6, <1>7, <1>8, <1>9, Zenon
<1> HIDE DEF s, rs, t
<1>11. /\ StationOf(h).columns = <<>>
       /\ StationOf(h)' = [StationOf(h) EXCEPT !.columns = t]
  BY <1>10
<1>12. ColumnRows(h)' # {}
  BY <1>4
<1> QED BY <1>11, <1>12 DEF t

\* Any other row is appended to the rows of the station.
LEMMA RowRead ==
    ASSUME bulletin \in Seq(Lines), NEW ln \in Lines, bulletin' = Append(bulletin, ln),
           NEW h \in Headers, ln.kind = "row", Open(h),
           ln.label \notin ColumnLabels \/ ColumnRows(h) # {}
    PROVE  /\ StationOf(h)' = [StationOf(h) EXCEPT !.rows = Append(@, NbpRow(ln))]
           /\ ColumnRows(h)' # {} <=> ColumnRows(h) # {}
<1>0. PICK n \in Nat : n = Len(bulletin) + 1
  BY HeaderFacts
<1> DEFINE D == DataRows(h)
           C == ColumnRows(h)
           E == D \cup {n}
           f == [k \in D |-> NbpRow(bulletin[k])]
           g == [k \in E |-> NbpRow(bulletin'[k])]
<1>1. /\ Len(bulletin) \in Nat /\ h \in 1..Len(bulletin)
      /\ bulletin'[n] = ln
      /\ \A k \in 1..Len(bulletin) : bulletin'[k] = bulletin[k]
  BY <1>0, TextExtends, HeaderFacts
<1>2. D \in SUBSET (1..Len(bulletin)) /\ C \in SUBSET (1..Len(bulletin))
  BY BlockFacts
<1>3. /\ C' = C \cup (IF ln.label \in ColumnLabels THEN {n} ELSE {})
      /\ DataRows(h)' = E
  <2>1. /\ ColumnRows(h)' = ColumnRows(h) \cup
               (IF ln.label \in ColumnLabels THEN {n} ELSE {})
        /\ DataRows(h)' = DataRows(h) \cup
               (IF ln.label \in ColumnLabels /\ ColumnRows(h) = {} THEN {} ELSE {n})
    BY <1>0, RowsExtend
  <2> QED BY <2>1
<1>4. C' # {} <=> C # {}
  BY <1>3, Zenon
<1>5. ASSUME C # {}
      PROVE  Min(C') = Min(C) /\ bulletin'[Min(C)] = bulletin[Min(C)]
  <2> DEFINE m == Min(C)
             K == C'
  <2>1. C \in SUBSET Nat /\ K \in SUBSET Nat /\ C \subseteq K
    BY <1>0, <1>1, <1>2, <1>3
  <2>2. m \in C /\ \A y \in C : m <= y
    <3> HIDE DEF C, K
    <3> QED BY <1>5, <2>1, MinFacts
  <2>3. m \in 1..Len(bulletin)
    BY <1>2, <2>2, Zenon
  <2>4. m <= n
    BY <1>0, <1>1, <2>3
  <2>5. \A y \in K : m <= y
    BY <1>3, <2>2, <2>4, Zenon
  <2>6. Min(K) = m
    <3> HIDE DEF m, K
    <3> QED BY <2>1, <2>2, <2>5, MinUnique
  <2>7. Min(C) = m /\ Min(C)' = Min(K)
    BY Zenon
  <2> QED BY <1>1, <2>3, <2>6, <2>7, Zenon
<1>6. Listed(g, E) = Append(Listed(f, D), NbpRow(ln))
  <2>1. \A k \in D : f[k] = g[k]
    BY <1>1, <1>2, Zenon
  <2>2. g[n] = NbpRow(ln)
    BY <1>1, Zenon
  <2> HIDE DEF D, f, g
  <2>3. D \in SUBSET (1..Len(bulletin))
    BY <1>2
  <2>4. Listed(g, D \cup {Len(bulletin) + 1}) = Append(Listed(f, D), g[Len(bulletin) + 1])
    BY <1>1, <2>1, <2>3, ListedExtends
  <2> QED BY <1>0, <2>2, <2>4
<1>7. bulletin'[h].station = bulletin[h].station
  BY <1>1, Zenon
<1> DEFINE co == IF C = {} THEN <<>> ELSE tokens(bulletin[Min(C)].cells)
           cn == IF C' = {} THEN <<>> ELSE tokens(bulletin'[Min(C')].cells)
<1>8. cn = co
  BY <1>4, <1>5, Zenon
<1>9. /\ StationOf(h) = [station |-> bulletin[h].station, columns |-> co,
                             rows |-> Listed(f, D)]
      /\ StationOf(h)' = [station |-> bulletin'[h].station, columns |-> cn,
                              rows |-> Listed(g, E)]
  BY <1>3, Zenon DEF StationOf
<1> DEFINE s == bulletin[h].station
           rs == Listed(f, D)
           e == NbpRow(ln)
<1> DEFINE u == Append(rs, e)
<1>10. /\ StationOf(h) = [station |-> s, columns |-> co, rows |-> rs]
       /\ StationOf(h)' = [station |-> s, columns |-> co, rows |-> u]
  BY <1>6, <1>7, <1>8, <1>9, Zenon
<1> HIDE DEF s, rs, e, co, u
<1>11. StationOf(h)' = [StationOf(h) EXCEPT !.rows = u] /\ StationOf(h).rows = rs
  BY <1>10
<1>12. StationOf(h)' = [StationOf(h) EXCEPT !.rows = Append(@, e)]
  BY <1>11, Zenon DEF u
<1> QED BY <1>4, <1>12 DEF e

\* The tokens of a row of cells form a sequence.
LEMMA TokensSeq ==
    ASSUME NEW c, c \in Seq(Range(c))
    PROVE  <<>> \o tokens(c) = tokens(c)
<1> DEFINE P == {i \in DOMAIN c : c[i] # Blank}
           V == Range(c)
           t == Listed(c, P)
<1>1. Len(c) \in Nat /\ P \in SUBSET (1..Len(c)) /\ \A k \in P : c[k] \in V
  <2> HIDE DEF V
  <2> QED BY DEF V
<1>2. t \in Seq(V)
  <2> HIDE DEF P, V
  <2> QED BY <1>1, ListedSeq
<1>3. <<>> \o t = t
  <2> HIDE DEF t, V
  <2> QED BY <1>2
<1> QED BY <1>3 DEF tokens

\* Flushing adds the block being read to those before it: all stations so far.
LEMMA FlushedAll ==
    ASSUME BulletinTypes, Blocks, verdict = "reading"
    PROVE  Flushed = StationsAt(Headers)
<1>1. stations = StationsAt(Closed) /\ bulletin \in Seq(Lines)
  BY DEF Blocks, BulletinTypes
<1>2. CASE ~in_block
  BY <1>1, <1>2, Zenon DEF Blocks, Flushed
<1>3. CASE in_block
  <2>1. PICK h \in 1..Len(bulletin) : Current(h)
    BY <1>3 DEF Blocks
  <2>2. h \in Headers /\ Open(h) /\ cur = StationOf(h)
    BY <2>1 DEF Current
  <2>3. /\ Headers = Closed \cup {h}
        /\ h - 1 \in Nat
        /\ Closed \in SUBSET (1..(h - 1))
    BY <1>1, <2>2, OpenIsLast
  <2>4. cur.station # None
    <3>1. cur.station = bulletin[h].station
      BY <2>2 DEF StationOf
    <3>2. bulletin[h].station \in Stations
      BY <1>1, <2>2, HeaderFacts
    <3> QED BY <3>1, <3>2, StationsAssumption
  <2> DEFINE f == [g \in Closed |-> StationOf(g)]
             e == [g \in Headers |-> StationOf(g)]
  <2>5. \A g \in Closed : f[g] = e[g]
    BY <2>3, Zenon
  <2>6. e[h] = cur
    BY <2>2, Zenon
  <2>7. (h - 1) + 1 = h
    OBVIOUS
  <2>8. Listed(e, Closed \cup {(h - 1) + 1}) = Append(Listed(f, Closed), e[(h - 1) + 1])
    <3> HIDE DEF f, e
    <3> QED BY <2>3, <2>5, ListedExtends
  <2>9. Listed(e, Headers) = Append(stations, cur)
    <3> HIDE DEF e
    <3> QED BY <1>1, <2>3, <2>6, <2>7, <2>8 DEF StationsAt
  <2> QED BY <1>3, <2>4, <2>9, Zenon DEF Flushed, StationsAt
<1>4. in_block \in BOOLEAN
  BY DEF BulletinTypes
<1> QED BY <1>2, <1>3, <1>4

\* What one more line leaves of the blocks before it: those that are closed
\* stay as they are, and a header or a "$$" closes them all.
LEMMA ClosedKept ==
    ASSUME bulletin \in Seq(Lines), NEW ln \in Lines, bulletin' = Append(bulletin, ln)
    PROVE  /\ ln.kind \notin {"header", "end"} =>
                 /\ Headers' = Headers
                 /\ Closed' = Closed
                 /\ StationsAt(Closed)' = StationsAt(Closed)
           /\ ln.kind \in {"header", "end"} =>
                 /\ Closed' = Headers
                 /\ StationsAt(Closed)' = StationsAt(Headers)
<1>1. PICK n \in Nat : n = Len(bulletin) + 1
  BY HeaderFacts
<1>2. /\ Headers' = Headers \cup (IF ln.kind = "header" THEN {n} ELSE {})
      /\ \A h \in Headers :
            /\ Open(h)' <=> Open(h) /\ ln.kind \notin {"header", "end"}
            /\ BlockOf(h)' = BlockOf(h) \cup
                   (IF ln.kind = "row" /\ Open(h) THEN {n} ELSE {})
      /\ Open(n)'
  BY <1>1, BlockExtends
<1>3. ASSUME NEW H \in SUBSET Headers,
             \A h \in H : ln.kind = "row" => ~Open(h),
             Closed' = H
      PROVE  StationsAt(Closed)' = StationsAt(H)
  <2>1. ASSUME NEW h \in H PROVE StationOf(h)' = StationOf(h)
    <3>1. BlockOf(h)' = BlockOf(h)
      BY <1>2, <1>3
    <3> QED BY <3>1, StationKept
  <2>2. H \in SUBSET (1..Len(bulletin)) /\ Len(bulletin) \in Nat
    BY HeaderFacts
  <2> DEFINE f == [h \in H |-> StationOf(h)]
             g == [h \in H |-> StationOf(h)']
  <2>3. f = g
    BY <2>1, Zenon
  <2>4. StationsAt(Closed)' = Listed(g, H)
    BY <1>3, Zenon DEF StationsAt
  <2> QED BY <2>3, <2>4, Zenon DEF StationsAt
<1>4. ASSUME ln.kind \notin {"header", "end"}
      PROVE  /\ Headers' = Headers
             /\ Closed' = Closed
             /\ StationsAt(Closed)' = StationsAt(Closed)
  <2>1. Headers' = Headers
    BY <1>2, <1>4
  <2>2. Closed' = Closed
    BY <1>2, <1>4, <2>1, Zenon DEF Closed
  <2>3. Closed \in SUBSET Headers /\ \A h \in Closed : ~Open(h)
    BY DEF Closed
  <2> QED BY <1>3, <2>1, <2>2, <2>3
<1>5. ASSUME ln.kind \in {"header", "end"}
      PROVE  /\ Closed' = Headers
             /\ StationsAt(Closed)' = StationsAt(Headers)
  <2>1. Closed' = Headers
    BY <1>2, <1>5, Zenon DEF Closed
  <2>2. ln.kind # "row"
    BY <1>5
  <2> QED BY <1>3, <2>1, <2>2
<1> QED BY <1>4, <1>5

\* A station header: the blocks before it are flushed, its own is empty.
LEMMA StationHeaderStep ==
    ASSUME BulletinInv, StationHeader
    PROVE  BulletinInv'
<1>1. BulletinTypes /\ Blocks
  BY DEF BulletinInv
<1>2. PICK s \in Stations :
          /\ ReadLine(Header(s))
          /\ stations' = Flushed
          /\ cur' = [NoStation EXCEPT !.station = s]
          /\ in_block' = TRUE
          /\ have_columns' = FALSE
  BY DEF StationHeader
<1> DEFINE ln == Header(s)
<1>3. ln \in Lines /\ ln.kind = "header" /\ ln.station = s
  <2>1. ln \in Lines
    BY Zenon DEF Lines
  <2> QED BY <2>1 DEF Header
<1>4. verdict = "reading" /\ verdict' = "reading" /\ bulletin' = Append(bulletin, ln)
  BY <1>2 DEF ReadLine
<1>5. bulletin \in Seq(Lines)
  BY <1>1 DEF BulletinTypes
<1> HIDE DEF ln
<1>6. PICK n \in Nat : n = Len(bulletin) + 1
  BY <1>5, HeaderFacts
<1>7. /\ bulletin' \in Seq(Lines)
      /\ n \in 1..Len(bulletin')
      /\ bulletin'[n] = ln
  BY <1>3, <1>4, <1>5, <1>6, TextExtends
<1>8. n \in Headers' /\ Open(n)' /\ BlockOf(n)' = {}
  <2>1. /\ Headers' = Headers \cup (IF ln.kind = "header" THEN {n} ELSE {})
        /\ Open(n)'
        /\ BlockOf(n)' = {}
    BY <1>3, <1>4, <1>5, <1>6, BlockExtends
  <2> QED BY <1>3, <2>1
<1>9. stations' = StationsAt(Closed)'
  <2>1. StationsAt(Closed)' = StationsAt(Headers)
    BY <1>3, <1>4, <1>5, ClosedKept
  <2> QED BY <1>1, <1>2, <1>4, <2>1, FlushedAll
<1>10. ColumnRows(n)' = {} /\ DataRows(n)' = {}
  BY <1>8, Zenon DEF ColumnRows, DataRows
<1>11. cur' = StationOf(n)'
  <2> DEFINE f == [k \in {} |-> NbpRow(bulletin'[k])]
             rs == Listed(f, {})
             V == {}
  <2>1. StationOf(n)' = [station |-> bulletin'[n].station, columns |-> <<>>, rows |-> rs]
    BY <1>10, Zenon DEF StationOf
  <2>2. rs = <<>>
    <3>1. rs \in Seq(V) /\ Len(rs) = Cardinality({})
      <4>1. {} \in SUBSET (1..0) /\ 0 \in Nat /\ \A k \in {} : f[k] \in V
        OBVIOUS
      <4> HIDE DEF f
      <4> QED BY <4>1, ListedSeq
    <3>2. Len(rs) = 0
      BY <3>1, FS_EmptySet
    <3> HIDE DEF rs, V
    <3> QED BY <3>1, <3>2
  <2>3. bulletin'[n].station = s
    BY <1>3, <1>7
  <2> HIDE DEF rs
  <2> QED BY <1>2, <2>1, <2>2, <2>3 DEF NoStation
<1>12. Current(n)'
  BY <1>2, <1>8, <1>10, <1>11, Zenon DEF Current
<1>13. Blocks'
  BY <1>2, <1>7, <1>9, <1>12, Zenon DEF Blocks
<1>14. BulletinTypes'
  BY <1>2, <1>4, <1>7 DEF BulletinTypes
<1>15. BlocksAsRead'
  BY <1>4 DEF BlocksAsRead
<1> QED BY <1>13, <1>14, <1>15 DEF BulletinInv

\* "$$": the block is flushed and none is being read.
LEMMA EndOfBlockStep ==
    ASSUME BulletinInv, EndOfBlock
    PROVE  BulletinInv'
<1>1. BulletinTypes /\ Blocks
  BY DEF BulletinInv
<1>2. /\ ReadLine(End)
      /\ stations' = Flushed
      /\ in_block' = FALSE
      /\ have_columns' = FALSE
  BY DEF EndOfBlock
<1> DEFINE ln == End
<1>3. ln \in Lines /\ ln.kind = "end"
  BY DEF Lines, End
<1>4. verdict = "reading" /\ verdict' = "reading" /\ bulletin' = Append(bulletin, ln)
  BY <1>2 DEF ReadLine
<1>5. bulletin \in Seq(Lines)
  BY <1>1 DEF BulletinTypes
<1> HIDE DEF ln
<1>6. PICK n \in Nat : n = Len(bulletin) + 1
  BY <1>5, HeaderFacts
<1>7. bulletin' \in Seq(Lines)
  BY <1>3, <1>4, <1>5, TextExtends
<1>8. Headers' = Headers
  <2>1. Headers' = Headers \cup (IF ln.kind = "header" THEN {n} ELSE {})
    BY <1>3, <1>4, <1>5, <1>6, BlockExtends
  <2> QED BY <1>3, <2>1
<1>9. Closed' = Headers' /\ stations' = StationsAt(Closed)'
  <2>1. Closed' = Headers /\ StationsAt(Closed)' = StationsAt(Headers)
    BY <1>3, <1>4, <1>5, ClosedKept
  <2> QED BY <1>1, <1>2, <1>4, <1>8, <2>1, FlushedAll
<1>10. Blocks'
  BY <1>2, <1>9 DEF Blocks
<1>11. BulletinTypes'
  BY <1>2, <1>4, <1>7 DEF BulletinTypes
<1>12. BlocksAsRead'
  BY <1>4 DEF BlocksAsRead
<1> QED BY <1>10, <1>11, <1>12 DEF BulletinInv

\* A line that neither opens nor ends a block leaves the finished blocks.
LEMMA InsideBlock ==
    ASSUME BulletinInv, NEW ln \in Lines, ln.kind \notin {"header", "end"},
           ReadLine(ln), stations' = stations, in_block' = in_block,
           have_columns' \in BOOLEAN,
           in_block => \E h \in 1..Len(bulletin)' : Current(h)'
    PROVE  BulletinInv'
<1>1. BulletinTypes /\ Blocks
  BY DEF BulletinInv
<1>2. verdict = "reading" /\ verdict' = "reading" /\ bulletin' = Append(bulletin, ln)
  BY DEF ReadLine
<1>3. bulletin \in Seq(Lines) /\ bulletin' \in Seq(Lines)
  BY <1>1, <1>2, TextExtends DEF BulletinTypes
<1>4. /\ Headers' = Headers
      /\ Closed' = Closed
      /\ StationsAt(Closed)' = StationsAt(Closed)
  BY <1>2, <1>3, ClosedKept
<1>5. Blocks'
  BY <1>1, <1>2, <1>4, Zenon DEF Blocks
<1>6. BulletinTypes'
  BY <1>1, <1>2, <1>3 DEF BulletinTypes
<1>7. BlocksAsRead'
  BY <1>2 DEF BlocksAsRead
<1> QED BY <1>5, <1>6, <1>7 DEF BulletinInv

\* The block being read when one more of its lines is read.
LEMMA CurrentBlock ==
    ASSUME BulletinInv, NEW ln \in Lines, ln.kind \notin {"header", "end"},
           ReadLine(ln), NEW h \in 1..Len(bulletin), Current(h)
    PROVE  /\ bulletin \in Seq(Lines)
           /\ bulletin' = Append(bulletin, ln)
           /\ h \in Headers /\ Open(h)
           /\ h \in 1..Len(bulletin)' /\ h \in Headers' /\ Open(h)'
           /\ ln.kind # "row" => BlockOf(h)' = BlockOf(h)
<1>1. bulletin \in Seq(Lines) /\ bulletin' = Append(bulletin, ln)
  BY DEF BulletinInv, BulletinTypes, ReadLine
<1>2. PICK n \in Nat : n = Len(bulletin) + 1
  BY <1>1, HeaderFacts
<1>3. h \in Headers /\ Open(h)
  BY DEF Current
<1>4. /\ Headers' = Headers \cup (IF ln.kind = "header" THEN {n} ELSE {})
      /\ Open(h)' <=> Open(h) /\ ln.kind \notin {"header", "end"}
      /\ BlockOf(h)' = BlockOf(h) \cup
             (IF ln.kind = "row" /\ Open(h) THEN {n} ELSE {})
  BY <1>1, <1>2, <1>3, BlockExtends
<1>5. h \in 1..Len(bulletin)'
  BY <1>1
<1> QED BY <1>1, <1>3, <1>4, <1>5

\* Lines that are passed over.
LEMMA SkipStep == ASSUME BulletinInv, Skip PROVE BulletinInv'
<1>1. PICK ln \in Lines :
          /\ ln.kind # "header"
          /\ ~in_block \/ ln.kind = "blank"
          /\ ReadLine(ln)
          /\ UNCHANGED <<stations, cur, in_block, have_columns>>
  BY DEF Skip
<1>2. /\ stations' = stations /\ cur' = cur /\ in_block' = in_block
      /\ have_columns' = have_columns /\ have_columns' \in BOOLEAN
  BY <1>1 DEF BulletinInv, BulletinTypes
<1>3. CASE ln.kind # "end"
  <2>1. ASSUME in_block PROVE \E h \in 1..Len(bulletin)' : Current(h)'
    <3>1. ln.kind # "row"
      BY <1>1, <2>1
    <3>2. PICK h \in 1..Len(bulletin) : Current(h)
      BY <1>1, <2>1 DEF BulletinInv, Blocks, ReadLine
    <3>3. /\ bulletin \in Seq(Lines)
          /\ bulletin' = Append(bulletin, ln)
          /\ h \in Headers
          /\ h \in 1..Len(bulletin)' /\ h \in Headers' /\ Open(h)'
          /\ BlockOf(h)' = BlockOf(h)
      BY <1>1, <1>3, <3>1, <3>2, CurrentBlock
    <3>4. StationOf(h)' = StationOf(h) /\ ColumnRows(h)' = ColumnRows(h)
      BY <3>3, StationKept
    <3>5. Current(h)'
      BY <1>2, <3>2, <3>3, <3>4, Zenon DEF Current
    <3> QED BY <3>3, <3>5
  <2> QED BY <1>1, <1>2, <1>3, <2>1, InsideBlock
<1>4. CASE ln.kind = "end"
  <2>1. ~in_block /\ BulletinTypes /\ Blocks
    BY <1>1, <1>4 DEF BulletinInv
  <2>2. verdict = "reading" /\ verdict' = "reading" /\ bulletin' = Append(bulletin, ln)
    BY <1>1 DEF ReadLine
  <2>3. bulletin \in Seq(Lines) /\ bulletin' \in Seq(Lines)
    BY <2>1, <2>2, TextExtends DEF BulletinTypes
  <2>4. PICK n \in Nat : n = Len(bulletin) + 1
    BY <2>3, HeaderFacts
  <2>5. Headers' = Headers
    <3>1. Headers' = Headers \cup (IF ln.kind = "header" THEN {n} ELSE {})
      BY <2>2, <2>3, <2>4, BlockExtends
    <3> QED BY <1>1, <3>1
  <2>6. Closed' = Headers /\ StationsAt(Closed)' = StationsAt(Headers)
    BY <1>4, <2>2, <2>3, ClosedKept
  <2>7. Blocks'
    BY <1>2, <2>1, <2>2, <2>5, <2>6, Zenon DEF Blocks
  <2>8. BulletinTypes'
    BY <1>2, <2>1, <2>2, <2>3 DEF BulletinTypes
  <2>9. BlocksAsRead'
    BY <2>2 DEF BlocksAsRead
  <2> QED BY <2>7, <2>8, <2>9 DEF BulletinInv
<1> QED BY <1>3, <1>4

\* The first row of the columns.
LEMMA ColumnsStep ==
    ASSUME BulletinInv, Columns
    PROVE  BulletinInv'
<1>1. PICK row \in Rows :
          /\ in_block /\ ~have_columns
          /\ row.label \in ColumnLabels
          /\ ReadLine(Row(row))
          /\ cur' = [cur EXCEPT !.columns = @ \o tokens(row.cells)]
          /\ have_columns' = TRUE
          /\ stations' = stations
          /\ in_block' = in_block
  BY DEF Columns
<1> DEFINE ln == Row(row)
<1>2. ln \in Lines /\ ln.kind = "row" /\ ln.label = row.label /\ ln.cells = row.cells
  <2>1. ln \in Lines
    BY Zenon DEF Lines
  <2> QED BY <2>1 DEF Row
<1> HIDE DEF ln
<1>3. PICK h \in 1..Len(bulletin) : Current(h)
  BY <1>1 DEF BulletinInv, Blocks, ReadLine
<1>4. /\ bulletin \in Seq(Lines)
      /\ bulletin' = Append(bulletin, ln)
      /\ h \in Headers /\ Open(h)
      /\ h \in 1..Len(bulletin)' /\ h \in Headers' /\ Open(h)'
  BY <1>1, <1>2, <1>3, CurrentBlock DEF ln
<1>5. cur = StationOf(h) /\ ColumnRows(h) = {}
  BY <1>1, <1>3 DEF Current
<1>6. /\ StationOf(h).columns = <<>>
      /\ StationOf(h)' = [StationOf(h) EXCEPT !.columns = tokens(ln.cells)]
      /\ ColumnRows(h)' # {}
  BY <1>1, <1>2, <1>4, <1>5, ColumnsRead
<1>7. cur.columns \o tokens(row.cells) = tokens(ln.cells)
  <2>1. <<>> \o tokens(row.cells) = tokens(row.cells)
    BY TokensSeq, RowsAssumption
  <2> QED BY <1>2, <1>5, <1>6, <2>1, Zenon
<1>8. cur' = StationOf(h)'
  BY <1>1, <1>5, <1>6, <1>7, Zenon
<1>9. Current(h)'
  BY <1>1, <1>4, <1>6, <1>8, Zenon DEF Current
<1>10. ln.kind \notin {"header", "end"} /\ have_columns' \in BOOLEAN
  BY <1>1, <1>2
<1> QED BY <1>1, <1>2, <1>4, <1>9, <1>10, InsideBlock DEF ln

\* Any other row of the block.
LEMMA DataRowStep == ASSUME BulletinInv, DataRow PROVE BulletinInv'
<1>1. PICK row \in Rows :
          /\ in_block
          /\ have_columns \/ row.label \notin ColumnLabels
          /\ ReadLine(Row(row))
          /\ cur' = [cur EXCEPT !.rows = Append(@, NbpRow(row))]
          /\ stations' = stations
          /\ in_block' = in_block
          /\ have_columns' = have_columns
  BY DEF DataRow
<1> DEFINE ln == Row(row)
<1>2. /\ ln \in Lines /\ ln.kind = "row"
      /\ ln.label = row.label /\ ln.cells = row.cells
  <2>1. ln \in Lines
    BY Zenon DEF Lines
  <2> QED BY <2>1 DEF Row
<1> HIDE DEF ln
<1>3. PICK h \in 1..Len(bulletin) : Current(h)
  BY <1>1 DEF BulletinInv, Blocks, ReadLine
<1>4. /\ bulletin \in Seq(Lines)
      /\ bulletin' = Append(bulletin, ln)
      /\ h \in Headers /\ Open(h)
      /\ h \in 1..Len(bulletin)' /\ h \in Headers' /\ Open(h)'
  BY <1>1, <1>2, <1>3, CurrentBlock DEF ln
<1>5. cur = StationOf(h) /\ (have_columns <=> ColumnRows(h) # {})
  BY <1>3 DEF Current
<1>6. /\ StationOf(h)' = [StationOf(h) EXCEPT !.rows = Append(@, NbpRow(ln))]
      /\ ColumnRows(h)' # {} <=> ColumnRows(h) # {}
  BY <1>1, <1>2, <1>4, <1>5, RowRead
<1>7. NbpRow(ln) = NbpRow(row)
  BY <1>2, Zenon DEF NbpRow
<1>8. cur' = StationOf(h)'
  BY <1>1, <1>5, <1>6, <1>7, Zenon
<1>9. Current(h)'
  BY <1>1, <1>4, <1>5, <1>6, <1>8, Zenon DEF Current
<1>10. ln.kind \notin {"header", "end"} /\ have_columns' \in BOOLEAN
  BY <1>1, <1>2 DEF BulletinInv, BulletinTypes
<1> QED BY <1>1, <1>2, <1>4, <1>9, <1>10, InsideBlock DEF ln

\* The end of the text: the last block is flushed, and a bulletin without a
\* station is an error.
LEMMA FinishStep ==
    ASSUME BulletinInv, Finish
    PROVE  BulletinInv'
<1>1. BulletinTypes /\ Blocks
  BY DEF BulletinInv
<1>2. /\ verdict = "reading"
      /\ stations' = IF bulletin = <<>> THEN stations ELSE Flushed
      /\ verdict' = IF stations' = <<>> THEN "parse_error" ELSE "ok"
      /\ bulletin' = bulletin /\ in_block' = in_block /\ have_columns' = have_columns
  BY DEF Finish
<1>3. bulletin \in Seq(Lines) /\ in_block \in BOOLEAN
  BY <1>1 DEF BulletinTypes
<1>4. Len(bulletin) \in Nat /\ Headers \in SUBSET (1..Len(bulletin))
  BY <1>3, HeaderFacts
<1>5. stations' = StationsAt(Headers)
  <2>1. Flushed = StationsAt(Headers)
    BY <1>1, <1>2, FlushedAll
  <2>2. CASE bulletin = <<>>
    <3>1. 1..Len(bulletin) = {}
      BY <2>2
    <3>2. ~in_block
      BY <1>1, <1>2, <3>1 DEF Blocks
    <3> QED BY <1>2, <2>1, <2>2, <3>2 DEF Flushed
  <2> QED BY <1>2, <2>1, <2>2
<1>6. Headers' = Headers /\ StationsAt(Headers)' = StationsAt(Headers)
  <2>1. Headers' = Headers
    BY <1>2 DEF Headers
  <2>2. ASSUME NEW h \in Headers PROVE StationOf(h)' = StationOf(h)
    BY <1>2 DEF StationOf, ColumnRows, DataRows, BlockOf
  <2> QED BY <2>1, <2>2, Zenon DEF StationsAt
<1>7. stations' = <<>> => Headers = {}
  <2> DEFINE f == [h \in Headers |-> StationOf(h)]
             V == {f[h] : h \in Headers}
  <2>1. \A h \in Headers : f[h] \in V
    BY Zenon
  <2> HIDE DEF f, V
  <2>2. Len(Listed(f, Headers)) = Cardinality(Headers)
    BY <1>4, <2>1, ListedSeq
  <2>3. stations' = Listed(f, Headers)
    BY <1>5, Zenon DEF f, StationsAt
  <2>4. IsFiniteSet(Headers)
    BY <1>4, FinitePositions
  <2>5. stations' = <<>> => Cardinality(Headers) = 0
    BY <2>2, <2>3
  <2> QED BY <2>4, <2>5, FS_EmptySet
<1>8. BlocksAsRead'
  <2>1. verdict' = "parse_error" => Headers' = {}
    BY <1>2, <1>6, <1>7
  <2>2. stations' = StationsAt(Headers)'
    BY <1>5, <1>6
  <2> QED BY <2>1, <2>2, Zenon DEF BlocksAsRead, StationsAt
<1>9. verdict' # "reading" /\ verdict' \in {"reading", "ok", "parse_error"}
  BY <1>2
<1>10. Blocks'
  BY <1>9 DEF Blocks
<1>11. BulletinTypes'
  BY <1>1, <1>2, <1>9 DEF BulletinTypes
<1> QED BY <1>8, <1>10, <1>11 DEF BulletinInv

\* No line has been read.
LEMMA InitBulletin == BulletinInit => BulletinInv
<1> SUFFICES ASSUME BulletinInit PROVE BulletinInv
  OBVIOUS
<1>1. /\ bulletin = <<>> /\ stations = <<>> /\ in_block = FALSE
      /\ have_columns = FALSE /\ verdict = "reading"
  BY DEF BulletinInit
<1>2. BulletinTypes
  <2>1. bulletin \in Seq(Lines) /\ verdict \in {"reading", "ok", "parse_error"}
    BY <1>1
  <2> QED BY <1>1, <2>1, Zenon DEF BulletinTypes
<1>3. Headers = {} /\ Closed = {}
  <2>1. DOMAIN bulletin = {}
    BY <1>1
  <2> QED BY <2>1 DEF Headers, Closed
<1>4. stations = StationsAt(Closed)
  <2> DEFINE f == [h \in {} |-> StationOf(h)]
             rs == Listed(f, {})
  <2>1. rs = <<>>
    <3>1. rs \in Seq({}) /\ Len(rs) = Cardinality({})
      <4>1. {} \in SUBSET (1..0) /\ 0 \in Nat /\ \A k \in {} : f[k] \in {}
        OBVIOUS
      <4> HIDE DEF f
      <4> QED BY <4>1, ListedSeq
    <3>2. Len(rs) = 0
      BY <3>1, FS_EmptySet
    <3> HIDE DEF rs
    <3> QED BY <3>1, <3>2
  <2>2. StationsAt(Closed) = rs
    BY <1>3, Zenon DEF StationsAt
  <2> QED BY <1>1, <2>1, <2>2
<1>5. Blocks
  BY <1>1, <1>3, <1>4 DEF Blocks
<1>6. BlocksAsRead
  BY <1>1 DEF BlocksAsRead
<1> QED BY <1>2, <1>5, <1>6 DEF BulletinInv

\* What has been read of a bulletin is inductive.
LEMMA NextBulletin == BulletinInv /\ [BulletinNext]_bulletin_vars => BulletinInv'
<1> SUFFICES ASSUME BulletinInv, [BulletinNext]_bulletin_vars PROVE BulletinInv'
  OBVIOUS
<1>1. CASE StationHeader
  BY <1>1, StationHeaderStep
<1>2. CASE Skip
  BY <1>2, SkipStep
<1>3. CASE EndOfBlock
  BY <1>3, EndOfBlockStep
<1>4. CASE Columns
  BY <1>4, ColumnsStep
<1>5. CASE DataRow
  BY <1>5, DataRowStep
<1>6. CASE Finish
  BY <1>6, FinishStep
<1>7. CASE UNCHANGED bulletin_vars
  <2>1. /\ bulletin' = bulletin /\ stations' = stations /\ cur' = cur /\ in_block' = in_block
        /\ have_columns' = have_columns /\ verdict' = verdict
    BY <1>7 DEF bulletin_vars
  <2>2. Headers' = Headers
    BY <2>1 DEF Headers
  <2>3. \A h : StationOf(h)' = StationOf(h) /\ (ColumnRows(h)' = ColumnRows(h))
    BY <2>1 DEF StationOf, ColumnRows, DataRows, BlockOf
  <2>4. Closed' = Closed /\ \A h : Open(h)' <=> Open(h)
    BY <2>1, <2>2 DEF Closed, Open
  <2>5. StationsAt(Closed)' = StationsAt(Closed)
    BY <2>3, <2>4, Zenon DEF StationsAt
  <2>6. \A h : Current(h)' <=> Current(h)
    BY <2>1, <2>2, <2>3, <2>4, Zenon DEF Current
  <2>7. Blocks'
    BY <2>1, <2>2, <2>4, <2>5, <2>6, Zenon DEF BulletinInv, Blocks
  <2>8. BulletinTypes'
    BY <2>1 DEF BulletinInv, BulletinTypes
  <2>9. BlocksAsRead'
    BY <2>1, <2>2, <2>3, Zenon DEF BulletinInv, BlocksAsRead
  <2> QED BY <2>7, <2>8, <2>9 DEF BulletinInv
<1> QED BY <1>1, <1>2, <1>3, <1>4, <1>5, <1>6, <1>7 DEF BulletinNext, BulletinDone

\* parse_nbp_bulletin makes one station of every header, with the columns and
\* the rows of its own block and in file order, for every text, every set of
\* stations and every table of rows: no block is lost, split or mixed up with
\* its neighbours, with or without the "$$" that should end it.
THEOREM BlocksAsReadTheorem == BulletinSpec => []BlocksAsRead
<1>1. BulletinInv => BlocksAsRead
  BY DEF BulletinInv
<1> QED BY <1>1, InitBulletin, NextBulletin, PTL DEF BulletinSpec
-----------------------------------------------------------------------------
(* JSON models: the caller's object.                                       *)

DestinationInv == conversions \in Nat /\ ReplacesDestination

\* A new object holds no body yet.
LEMMA DestinationInit == ExchangeInit => DestinationInv
BY DEF ExchangeInit, DestinationInv, ReplacesDestination

\* A body that is rejected leaves object and history alone; one that is
\* accepted is read into a new object, whatever the object held.
LEMMA AnswerStep ==
    ASSUME DestinationInv, NEW body, Answer(body)
    PROVE  DestinationInv'
<1> DEFINE rejected == Rejected(kind, body)
           fresh == New(kind)
<1>1. /\ out' = deserialize(kind, body, out)
      /\ last' = IF rejected THEN last ELSE body
      /\ conversions' = IF rejected THEN conversions ELSE 0
      /\ kind' = kind
  BY DEF Answer
<1>2. CASE rejected
  <2>1. out' = out
    BY <1>1, <1>2, Zenon DEF deserialize
  <2>2. last' = last /\ conversions' = conversions
    BY <1>1, <1>2
  <2> QED BY <1>1, <2>1, <2>2, Zenon DEF DestinationInv, ReplacesDestination
<1>3. CASE ~rejected
  <2>1. \A o : deserialize(kind, body, o) = populate(kind, body, fresh)
    BY <1>3, Zenon DEF deserialize
  <2>2. out' = deserialize(kind, body, fresh)
    BY <1>1, <2>1, Zenon
  <2>3. last' = body /\ conversions' = 0
    BY <1>1, <1>3
  <2>4. conversions' \in Nat
    BY <2>3
  <2> QED BY <1>1, <2>2, <2>3, <2>4, Zenon DEF DestinationInv, ReplacesDestination
<1> QED BY <1>2, <1>3

\* Requests leave the object alone; conversions of it are counted.
LEMMA DestinationNext == DestinationInv /\ [ExchangeNext]_exchange_vars => DestinationInv'
<1> SUFFICES ASSUME DestinationInv, [ExchangeNext]_exchange_vars PROVE DestinationInv'
  OBVIOUS
<1>1. ASSUME UNCHANGED <<kind, out, last, conversions>> PROVE DestinationInv'
  BY <1>1 DEF DestinationInv, ReplacesDestination
<1>2. ASSUME NEW m, NEW a, NEW q, Send(m, a, q) PROVE DestinationInv'
  BY <1>1, <1>2 DEF Send
<1>3. ASSUME NEW c \in Calls, Call(c) PROVE DestinationInv'
  BY <1>2, <1>3, Zenon DEF Call
<1>4. ASSUME NEW m, NEW u, FollowPoint(m, u) PROVE DestinationInv'
  BY <1>2, <1>4, Zenon DEF FollowPoint
<1>5. CASE FollowStations
  BY <1>2, <1>5, Zenon DEF FollowStations
<1>6. ASSUME NEW b \in Bodies(kind), Answer(b) PROVE DestinationInv'
  BY <1>6, AnswerStep
<1>7. ASSUME NEW u, Convert(u) PROVE DestinationInv'
  <2>1. conversions' = conversions + 1
    BY <1>7 DEF Convert
  <2>2. conversions' \in Nat /\ conversions' # 0
    BY <2>1 DEF DestinationInv
  <2> QED BY <2>2 DEF DestinationInv, ReplacesDestination
<1>8. CASE UNCHANGED exchange_vars
  BY <1>1, <1>8 DEF exchange_vars
<1> QED BY <1>3, <1>4, <1>5, <1>6, <1>7, <1>8, Zenon DEF ExchangeNext

\* deserialize resets the object before it fills it: for every kind of
\* object and every series of bodies, good and bad ones, the object is what
\* the last accepted body makes of a new one.
THEOREM ReplacesDestinationTheorem == ExchangeSpec => []ReplacesDestination
<1>1. DestinationInv => ReplacesDestination
  BY DEF DestinationInv
<1> QED BY <1>1, DestinationInit, DestinationNext, PTL DEF ExchangeSpec
=============================================================================
