----------------------------- MODULE MCDirectory -----------------------------
(* A small instance of Directory for TLC: pictures under two names, with the *)
(* segments of their headers in the orders cameras and libraries write them. *)
EXTENDS Directory

CONSTANTS a, b, dc, ac

MCSymmetry == Permutations({a, b})

Shape(head, met, marked, subsampled, first) ==
  [head |-> head, codes |-> {dc, ac}, met |-> met, marked |-> marked,
   subsampled |-> subsampled, first |-> first]

Plain    == Shape(<<"DQT", "SOF", "DHT", "SOS">>, {dc}, FALSE, FALSE, 0)
\* as src/LJC_8918.jpg
Camera   == Shape(<<"DQT", "DRI", "SOF", "DHT", "SOS">>, {ac}, TRUE, FALSE, 0)
\* as libjpeg writes it
Library  == Shape(<<"DQT", "SOF", "DHT", "DRI", "SOS">>, {dc}, TRUE, FALSE, 1)
LateSof  == Shape(<<"DHT", "SOF", "SOS">>, {ac}, FALSE, FALSE, 0)
Halved   == Shape(<<"SOF", "DHT", "SOS">>, {dc}, FALSE, TRUE, 1)

MCShapes == {Plain, Camera, Library, LateSof, Halved}
\* at most two files, at most one of them with a DRI segment behind its tables
MCGivens ==
  LET two(m, s, n, t) ==
        [x \in Names |-> IF x = m THEN s ELSE IF x = n THEN t ELSE NoFile]
  IN  {two(m, s, n, t) : m, n \in Bases \X {0, 1}, s \in MCShapes,
                         t \in MCShapes \ {Library}}

\* one file that the program supports, of two codes
FitGivens == {[n \in Names |-> IF n = <<a, 0>> THEN Plain ELSE NoFile]}
=============================================================================
