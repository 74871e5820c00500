---------------------------- MODULE MCCliReport ----------------------------
(* Product texts for the CLI and CF6 parsers.                              *)
EXTENDS CliReport

CONSTANTS MaxCliLines, MaxCf6Lines  \* bounds: lines of a text

W(ws) == [i \in DOMAIN ws |-> Word(ws[i])]

MCMonthWords == [MAY |-> 5, MARCH |-> 3, JUN |-> 6]
MCKWords == [KOKX |-> "KOKX", KANSAS |-> "KANS", Kent |-> ""]
MCCf6Words == [CF6ATL |-> "ATL", CF6 |-> ""]
MCCliWords == [CLINYC |-> "NYC"]

CliLines ==
    { W(<<"CDUS41", "KOKX">>),
      W(<<"COUNTY", "Kent", "KOKX">>),
      <<Word("FOR"), Number(24), Word("HOURS"), Word("MAY"), Number(16), Number(2026)>>,
      <<Word("KANSAS"), Word("FOR"), Word("MARCH"), Number(2026)>>,
      W(<<"TEMPERATURE">>),
      <<Word("TEMPERATURE"), Word("MAXIMUM"), Number(99)>>,
      <<Word("MAXIMUM"), Number(72)>>,
      W(<<"MAXIMUM">>),
      <<Word("MAXIMUM"), Number(88), Word("MINIMUM"), Number(55)>>,
      W(<<"PRECIPITATION">>) }

Banner == W(<<"CF6", "PRELIMINARY", "F-6">>)
DateLine == <<Word("CF6ATL"), Word("MONTH:"), Word("MAY"), Word("YEAR:"), Number(2026)>>

Cf6Lines ==
    { <<Word("MONTH:"), Word("JUN"), Word("YEAR:"), Number(30)>>,
      W(<<"DY", "MAX", "MIN">>),
      <<>>,
      <<Number(5), Number(66), Number(57)>>,
      <<Number(7), Number(70), Number(60)>>,
      <<Number(7), Number(71), Number(61), Number(66)>>,
      <<Number(9), Word("M"), Number(50)>>,
      <<Number(32), Number(1), Number(1)>>,
      <<Word("SM"), Number(1848), Number(1400)>> }

MCTexts ==
    BoundedSeq(CliLines, MaxCliLines)
        \cup {<<Banner, DateLine>> \o t : t \in BoundedSeq(Cf6Lines, MaxCf6Lines)}
        \cup {<<Banner>> \o t : t \in BoundedSeq(Cf6Lines, 2)}

\* The climate report of the unit tests.
MCTestProduct ==
    { << W(<<"CDUS41", "KOKX">>), W(<<"CLINYC">>), <<>>,
         <<Word("FOR"), Word("MAY"), Number(16), Number(2026)>>,
         W(<<"TEMPERATURE">>),
         <<Word("MAXIMUM"), Number(72), Number(320), Word("PM")>>,
         <<Word("MINIMUM"), Number(55), Number(500), Word("AM")>>,
         W(<<"PRECIPITATION">>) >> }
=============================================================================
