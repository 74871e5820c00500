------------------------------- MODULE Units -------------------------------
(***************************************************************************)
(* Units of measurement: unit codes, convert, Measurement::to and          *)
(* QuantitativeValue::converted_to.  A double is a whole number of         *)
(* 1/Scale; products and quotients are cut to that.                        *)
(***************************************************************************)
EXTENDS Optional, Integers, Sequences, TLC

Scale == 10000

\* The codes parse_unit_code knows, hPa being another name of mbar.
UnitCodes ==
    ("wmoUnit:degC" :> "DegC") @@ ("wmoUnit:degF" :> "DegF")
    @@ ("wmoUnit:K" :> "Kelvin")
    @@ ("wmoUnit:km_h-1" :> "Km_h") @@ ("wmoUnit:m_s-1" :> "M_s")
    @@ ("wmoUnit:kt" :> "Knot") @@ ("wmoUnit:mi_h-1" :> "Mi_h")
    @@ ("wmoUnit:m" :> "Meter") @@ ("wmoUnit:km" :> "Kilometer") @@ ("unit:mi" :> "Mile")
    @@ ("wmoUnit:Pa" :> "Pascal") @@ ("wmoUnit:mbar" :> "Millibar")
    @@ ("wmoUnit:hPa" :> "Millibar")
    @@ ("wmoUnit:mm" :> "Millimeter") @@ ("unit:in" :> "Inch") @@ ("wmoUnit:cm" :> "Centimeter")
    @@ ("wmoUnit:degree_(angle)" :> "DegreeAngle") @@ ("wmoUnit:percent" :> "Percent")

Unit == {UnitCodes[c] : c \in DOMAIN UnitCodes} \cup {"Unknown"}

\* The code is a text of one word, or the empty text.
parse_unit_code(code) ==
    IF Len(code) = 1 /\ code[1] \in DOMAIN UnitCodes THEN UnitCodes[code[1]] ELSE "Unknown"
-----------------------------------------------------------------------------
(* Conversion.                                                             *)

\* m * n / d for m >= 0, one binary digit of m at a time, so that no
\* intermediate result is much larger than m and the final one.
MulDiv(m, n, d) ==
    LET Digits[k \in Nat] ==
            IF k = 0 THEN [quotient |-> 0, remainder |-> 0]
            ELSE LET high == Digits[k \div 2]
                     rest == 2 * high.remainder + (k % 2) * n
                 IN  [quotient |-> 2 * high.quotient + rest \div d, remainder |-> rest % d]
    IN  Digits[m].quotient

\* v * n / d
Times(v, n, d) == IF v < 0 THEN -MulDiv(-v, n, d) ELSE MulDiv(v, n, d)

celsius_to_fahrenheit(c) == Times(c, 9, 5) + 32 * Scale
fahrenheit_to_celsius(f) == Times(f - 32 * Scale, 5, 9)
Zero == 27315 * (Scale \div 100)

\* The temperatures, which do not share their zero.
Temperature(v, from, to) ==
    CASE <<from, to>> = <<"DegC", "DegF">> -> celsius_to_fahrenheit(v)
      [] <<from, to>> = <<"DegF", "DegC">> -> fahrenheit_to_celsius(v)
      [] <<from, to>> = <<"Kelvin", "DegC">> -> v - Zero
      [] <<from, to>> = <<"DegC", "Kelvin">> -> v + Zero
      [] <<from, to>> = <<"Kelvin", "DegF">> -> celsius_to_fahrenheit(v - Zero)
      [] <<from, to>> = <<"DegF", "Kelvin">> -> fahrenheit_to_celsius(v) + Zero

Temperatures == {"DegC", "DegF", "Kelvin"}

\* The factors of the other conversions, as a numerator and a denominator.
SpeedFactors ==
    (<<"Km_h", "Mi_h">> :> <<621371, 1000000>>) @@ (<<"Mi_h", "Km_h">> :> <<1000000, 621371>>)
    @@ (<<"M_s", "Mi_h">> :> <<223694, 100000>>) @@ (<<"Mi_h", "M_s">> :> <<100000, 223694>>)
    @@ (<<"M_s", "Km_h">> :> <<36, 10>>) @@ (<<"Km_h", "M_s">> :> <<10, 36>>)
    @@ (<<"Knot", "Mi_h">> :> <<115078, 100000>>) @@ (<<"Mi_h", "Knot">> :> <<100000, 115078>>)
    @@ (<<"Knot", "Km_h">> :> <<1852, 1000>>) @@ (<<"Km_h", "Knot">> :> <<1000, 1852>>)
    @@ (<<"Knot", "M_s">> :> <<514444, 1000000>>) @@ (<<"M_s", "Knot">> :> <<1000000, 514444>>)

\* Mutant of PressureFactors: both directions divide.
PressureFactorsDivide ==
    (<<"Pascal", "Millibar">> :> <<1, 100>>) @@ (<<"Millibar", "Pascal">> :> <<1, 100>>)

PressureFactors ==
    (<<"Pascal", "Millibar">> :> <<1, 100>>) @@ (<<"Millibar", "Pascal">> :> <<100, 1>>)

LengthFactors ==
    (<<"Millimeter", "Inch">> :> <<10, 254>>) @@ (<<"Inch", "Millimeter">> :> <<254, 10>>)
    @@ (<<"Meter", "Mile">> :> <<1000, 1609344>>) @@ (<<"Mile", "Meter">> :> <<1609344, 1000>>)
    @@ (<<"Kilometer", "Mile">> :> <<621371, 1000000>>)
    @@ (<<"Mile", "Kilometer">> :> <<1000000, 621371>>)
    @@ (<<"Meter", "Kilometer">> :> <<1, 1000>>) @@ (<<"Kilometer", "Meter">> :> <<1000, 1>>)
    @@ (<<"Centimeter", "Inch">> :> <<100, 254>>) @@ (<<"Inch", "Centimeter">> :> <<254, 100>>)
    @@ (<<"Centimeter", "Millimeter">> :> <<10, 1>>) @@ (<<"Millimeter", "Centimeter">> :> <<1, 10>>)

Factors == SpeedFactors @@ PressureFactors @@ LengthFactors

convert(v, from, to) ==
    CASE from = to -> v
      [] from # to /\ {from, to} \subseteq Temperatures -> Temperature(v, from, to)
      [] <<from, to>> \in DOMAIN Factors ->
            Times(v, Factors[<<from, to>>][1], Factors[<<from, to>>][2])
      [] OTHER -> None

convert_optional(v, from, to) == IF v = None THEN None ELSE convert(v, from, to)

\* Measurement::to
to(m, unit) == [value |-> convert_optional(m.value, m.unit, unit), unit |-> unit]

as_measurement(qv) == [value |-> qv.value, unit |-> qv.unit]

\* QuantitativeValue::converted_to.  unit_code stays that of the response.
converted_to(qv, unit) ==
    [qv EXCEPT !.unit = unit,
               !.value = convert_optional(@, qv.unit, unit),
               !.min_value = convert_optional(@, qv.unit, unit),
               !.max_value = convert_optional(@, qv.unit, unit)]
=============================================================================
