------------------------------ MODULE MCRecoder ------------------------------
(* A small instance of the recoder for TLC: bytes of three bits, so that    *)
(* codes of one, three and six bits fill no byte, one and two, and two      *)
(* files of one to three MCUs with a few coefficients.                        *)
EXTENDS RecodedFile

MCOneSizeMax == <<1, 0, 1, 0, 0, 8>>

\* also 16 zeros, and 14 zeros before a magnitude of one bit
MCSymbols == {0, 1, 2, 17, 225, 240}

U(c, class, symbol, bits) ==
  [component |-> c, class |-> class, symbol |-> symbol, bits |-> bits]

\* data units: a DC coefficient, perhaps an AC coefficient, and the end
Flat(c)  == <<U(c, "DC", 0, <<>>), U(c, "AC", 0, <<>>)>>
Dark(c)  == <<U(c, "DC", 2, <<0, 0>>), U(c, "AC", 0, <<>>)>>
Light(c) == <<U(c, "DC", 1, <<1>>), U(c, "AC", 2, <<1, 1>>), U(c, "AC", 0, <<>>)>>
Rough(c) == <<U(c, "DC", 2, <<1, 1>>), U(c, "AC", 17, <<0>>), U(c, "AC", 1, <<1>>),
              U(c, "AC", 0, <<>>)>>

\* its last coefficient is not zero: no end follows
Edge(c)  == <<U(c, "DC", 1, <<0>>), U(c, "AC", 240, <<>>), U(c, "AC", 240, <<>>),
              U(c, "AC", 240, <<>>), U(c, "AC", 225, <<1>>)>>

M1 == Flat(0) \o Flat(1) \o Flat(2)
M2 == Light(0) \o Flat(1) \o Dark(2)
M3 == Rough(0) \o Dark(1) \o Light(2)
M4 == Dark(0) \o Rough(1) \o Edge(2)
MCUs == {M1, M2, M3, M4}

Image(mcus, interval, aligned) ==
  [mcus |-> mcus, interval |-> interval, aligned |-> aligned]

\* without restarts, with one behind every MCU and behind every second one, and
\* read beyond their end
MCImages ==
  {Image(<<m>>, 0, FALSE) : m \in MCUs}
    \cup {Image(<<m, n>>, 1, FALSE) : m, n \in MCUs}
    \cup {Image(<<M4, m, M2>>, 2, FALSE) : m \in {M1, M3}}
    \cup {Image(<<m>>, 0, TRUE) : m \in {M2, M3}}
=============================================================================
