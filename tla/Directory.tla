------------------------------ MODULE Directory ------------------------------
(***************************************************************************)
(* The files the recoder works on, src/main.cpp: getFilelist takes every   *)
(* *.jpg of a directory, the first loop of main counts the codes the       *)
(* images need, the second one writes x.jpg as x.jpg.jpg under tables made *)
(* for all of them.  The output is a *.jpg too, so the next run takes it,  *)
(* and writes it again, while the run may still have to read it.           *)
(*                                                                         *)
(* A name <<b, k>> is that of "b" with k + 1 times ".jpg" behind it, a     *)
(* file the sequence of its segments.  Of the scan is kept whose picture   *)
(* it is and which codes it needs; how it is coded is in module Recoder.   *)
(***************************************************************************)
EXTENDS Integers, FiniteSets, SequencesExt

CONSTANTS
  Bases,       \* the names of pictures
  Codes,       \* the codes a scan may need
  Shapes,      \* what the files of the user look like
  HeadBytes,   \* the bytes of a DHT segment that are not values
  ByteValues,  \* the number of values of a byte
  MaxRuns,     \* bound: how often the program is started
  Givens,      \* which of his files have which shape
  NoFile, Noise

Names == Bases \X (0 .. MaxRuns + 1)
Output(n) == <<n[1], n[2] + 1>>

\* head: the markers of its segments, the last one SOS; codes: of its tables;
\* met: of its scan; marked: it has restart markers; subsampled: its SOF says so,
\* which numbers the components from first on
ASSUME ShapesAssumption ==
  \A s \in Shapes :
    /\ s.head \in Seq({"APP", "DQT", "SOF", "DRI", "DHT", "SOS"})
    /\ s.head # <<>> /\ Last(s.head) = "SOS"
    /\ \E d \in DOMAIN s.head : /\ s.head[d] = "DHT"
                              /\ \A i \in 1 .. d - 1 : s.head[i] # "DHT"
    /\ s.met \subseteq s.codes /\ s.codes \subseteq Codes
    /\ s.marked \in BOOLEAN /\ (s.marked <=> "DRI" \in Range(s.head))
    /\ s.subsampled \in BOOLEAN /\ s.first \in {0, 1}

ASSUME GivensAssumption ==
  \A g \in Givens : /\ g \in [Names -> Shapes \cup {NoFile}]
                    /\ \A n \in Names : n[2] > 1 => g[n] = NoFile

ASSUME BytesAssumption ==
  /\ HeadBytes \in Nat \ {0} /\ ByteValues \in Nat \ {0}
  /\ IsFiniteSet(Codes) /\ MaxRuns \in Nat

\* the segments, scans and ends a file is made of
Item ==
  [marker : {"APP", "DQT", "DRI", "EOI"}]
    \cup [marker : {"SOF"}, first : {0, 1}, subsampled : BOOLEAN]
    \cup [marker : {"SOS"}, first : {0, 1}]
    \cup [marker : {"DHT"}, codes : SUBSET Codes, announced : Nat, bytes : Nat]
    \cup [marker : {"scan"}, picture : Names \cup {Noise}, met : SUBSET Codes,
          marked : BOOLEAN, whole : BOOLEAN]

ASSUME NoFileAssumption == NoFile \notin Shapes /\ NoFile \notin Seq(Item)

VARIABLES
  given,   \* history: the shapes of the user's files
  dir,     \* the files of the directory
  phase,   \* "count", "write", "ended", "exited" or "crashed"
  files,   \* Dir_Record: the names listed
  toDo,    \* those from workon, then from WriteNewData_workon on
  found,   \* huff_val_useful: the codes the tables have
  runs,    \* the number of runs started
  clean    \* history: the runs that ended since the last crash, MaxRuns more
           \* before the first one

dirVars == <<given, dir, phase, files, toDo, found, runs, clean>>

-----------------------------------------------------------------------------
(* What a file holds, and what the decoder makes of it.                    *)

Segment(marker, s) ==
  CASE marker = "SOF" -> [marker |-> marker, first |-> s.first,
                          subsampled |-> s.subsampled]
    [] marker = "SOS" -> [marker |-> marker, first |-> s.first]
    [] marker = "DHT" -> [marker |-> marker, codes |-> s.codes,
                          announced |-> HeadBytes, bytes |-> HeadBytes]
    [] OTHER          -> [marker |-> marker]

Scan(picture, met, marked, whole) ==
  [marker |-> "scan", picture |-> picture, met |-> met, marked |-> marked,
   whole |-> whole]

EOI == [marker |-> "EOI"]

Original(n, s) ==
  [i \in DOMAIN s.head |-> Segment(s.head[i], s)]
    \o <<Scan(n, s.met, s.marked, TRUE), EOI>>

Has(f, marker) == \E i \in DOMAIN f : f[i].marker = marker
Of(f, marker) == f[CHOOSE i \in DOMAIN f : f[i].marker = marker]

\* parse_JFIF comes to the SOS segment: every DHT segment ends where its length
\* says.  Behind the end of a file it finds no 0xFF and exits.
ReadsHeader(f) ==
  /\ Has(f, "SOS")
  /\ \A i \in DOMAIN f : f[i].marker = "DHT" => f[i].announced = f[i].bytes

\* the codes of its tables
TablesOf(f) == UNION {f[i].codes : i \in {j \in DOMAIN f : f[j].marker = "DHT"}}

\* tinyjpeg_decode of the first pass exits on all but an image without
\* subsampling, and where no SOF segment gave it the sampling factors.
Countable(f) ==
  /\ ReadsHeader(f)
  /\ Has(f, "SOF") /\ ~Of(f, "SOF").subsampled

\* Its scan was coded with its tables, and the decoder looks for restart markers
\* where they are.
Coherent(f) ==
  /\ Of(f, "scan").met \subseteq TablesOf(f)
  /\ Of(f, "scan").marked <=> Has(f, "DRI")

\* What the decoder gets from a file whose header it read: the scan, as much of
\* it as there is; something else, of any of the codes, if the scan does not fit
\* the header; nothing of an image whose height it was not told.
Readings(f) ==
  IF ~Has(f, "SOF") THEN {Scan(Noise, {}, Has(f, "DRI"), FALSE)}
  ELSE IF Coherent(f) THEN {Of(f, "scan")}
  ELSE {Scan(Noise, met, Has(f, "DRI"), FALSE) : met \in SUBSET TablesOf(f)}

Complete(f) == f # <<>> /\ Last(f) = EOI

-----------------------------------------------------------------------------
(* One run: the list and the first pass.                                   *)

DirectoryInit ==
  /\ given \in Givens
  /\ dir = [n \in Names |->
              IF given[n] = NoFile THEN NoFile ELSE Original(n, given[n])]
  /\ phase = "ended"
  /\ files = {} /\ toDo = {} /\ found = {}
  /\ runs = 0 /\ clean = MaxRuns

\* getFilelist: every *.jpg.  The loops take them in the order of readdir, here in
\* any order: what the first pass counts does not depend on it.
ListFiles ==
  /\ phase \in {"ended", "exited", "crashed"}
  /\ runs < MaxRuns
  /\ files' = {n \in Names : dir[n] # NoFile}
  /\ toDo' = files'
  /\ phase' = "count"
  /\ runs' = runs + 1
  /\ UNCHANGED <<given, dir, found, clean>>

\* The memory of the process goes with it.
Stop(how) == phase' = how /\ files' = {} /\ toDo' = {} /\ found' = {}

\* What the image needs and, as the rows are read too far (see Recoder), any other
\* codes of its tables.
Counts(f) ==
  {met \in SUBSET TablesOf(f) : \E scan \in Readings(f) : scan.met \subseteq met}

\* Faulty variant: the counts are those of the last image.
CountLast(n) ==
  /\ phase = "count" /\ n \in toDo
  /\ Countable(dir[n])
  /\ \E met \in Counts(dir[n]) : found' = met
  /\ toDo' = toDo \ {n}
  /\ UNCHANGED <<given, dir, phase, files, runs, clean>>

\* convert_one_image
CountFile(n) ==
  /\ phase = "count" /\ n \in toDo
  /\ Countable(dir[n])
  /\ \E met \in Counts(dir[n]) : found' = found \cup met
  /\ toDo' = toDo \ {n}
  /\ UNCHANGED <<given, dir, phase, files, runs, clean>>

\* exit(0) on a file whose header cannot be read: the others are not recoded either.
RefuseFile(n) ==
  /\ phase \in {"count", "write"} /\ n \in toDo
  /\ ~ReadsHeader(dir[n])
  /\ Stop("exited")
  /\ UNCHANGED <<given, dir, runs, clean>>

\* exit(0) on an image tinyjpeg_decode has no function for
RefuseImage(n) ==
  /\ phase = "count" /\ n \in toDo
  /\ ReadsHeader(dir[n]) /\ ~Countable(dir[n])
  /\ Stop("exited")
  /\ UNCHANGED <<given, dir, runs, clean>>

\* build_huff_val_useful and the trees
BuildTables ==
  /\ phase = "count" /\ toDo = {}
  /\ phase' = "write" /\ toDo' = files
  /\ UNCHANGED <<given, dir, files, found, runs, clean>>

-----------------------------------------------------------------------------
(* The second pass.                                                        *)

\* write_head_data: the segments before the first DHT.
CopiedHead(f) ==
  SubSeq(f, 1, (CHOOSE i \in DOMAIN f :
                  /\ f[i].marker = "DHT"
                  /\ \A j \in 1 .. i - 1 : f[j].marker # "DHT") - 1)

\* Faulty variant: the bytes that are not values are left out of the length.
DhtSegmentValuesOnly ==
  LET bytes == HeadBytes + Cardinality(found)
  IN  [marker |-> "DHT", codes |-> found,
       announced |-> Cardinality(found) % ByteValues, bytes |-> bytes]

\* Write_Huffman_Table: one segment for all tables, the high byte of its length
\* is 0, the low one the length cut to a byte.
DhtSegment ==
  LET bytes == HeadBytes + Cardinality(found)
  IN  [marker |-> "DHT", codes |-> found, announced |-> bytes % ByteValues,
       bytes |-> bytes]

\* Write_New_Body numbers the components from 0 on, whatever the SOF segment says,
\* and writes the restart markers that a DRI segment asks for.
ScanSegment == [marker |-> "SOS", first |-> 0]

\* Faulty variant: the copy of the header starts at the frame.
RecodedFromSof(f, scan) ==
  SelectSeq(CopiedHead(f), LAMBDA g : g.marker = "SOF")
    \o <<DhtSegment, ScanSegment,
         [scan EXCEPT !.marked = Has(f, "DRI")], EOI>>

\* The new file
Recoded(f, scan) ==
  CopiedHead(f) \o <<DhtSegment, ScanSegment,
                     [scan EXCEPT !.marked = Has(f, "DRI")], EOI>>

\* the new file up to some place in its scan
CutInScan(new) ==
  LET scan == Of(new, "scan")
  IN  {Append(SubSeq(new, 1, Len(new) - 2), Scan(scan.picture, met, scan.marked, FALSE)) :
         met \in SUBSET (scan.met \cap found)}

\* WriteNewData_convert_one_image: the source is read, the output truncated and
\* written.
WriteOutput(n) ==
  /\ phase = "write" /\ n \in toDo
  /\ ReadsHeader(dir[n])
  /\ \E scan \in Readings(dir[n]) :
       /\ scan.met \subseteq found
       /\ dir' = [dir EXCEPT ![Output(n)] = Recoded(dir[n], scan)]
  /\ toDo' = toDo \ {n}
  /\ UNCHANGED <<given, phase, files, found, runs, clean>>

\* Find_New_code knows no code for a symbol: exit(0).
NoCode(n) ==
  /\ phase = "write" /\ n \in toDo
  /\ ReadsHeader(dir[n])
  /\ \E scan \in Readings(dir[n]) :
       /\ ~ scan.met \subseteq found
       /\ \E left \in CutInScan(Recoded(dir[n], scan)) :
            dir' = [dir EXCEPT ![Output(n)] = left]
  /\ Stop("exited")
  /\ UNCHANGED <<given, runs, clean>>

\* Faulty variant: the last file is not written.
EndRunEarly ==
  /\ phase = "write" /\ Cardinality(toDo) <= 1
  /\ Stop("ended")
  /\ clean' = clean + 1
  /\ UNCHANGED <<given, dir, runs>>

EndRun ==
  /\ phase = "write" /\ toDo = {}
  /\ Stop("ended")
  /\ clean' = clean + 1
  /\ UNCHANGED <<given, dir, runs>>

\* The process dies in the second pass, in a file or between two.  Of the file the
\* disk has some beginning: the empty one stands for all that end in the header,
\* which parse_JFIF refuses alike.  In the first pass a death leaves no trace.
DirectoryCrash ==
  /\ phase = "write"
  /\ \/ dir' = dir
     \/ \E n \in toDo :
          /\ ReadsHeader(dir[n])
          /\ \E scan \in Readings(dir[n]) :
               \E left \in {<<>>} \cup CutInScan(Recoded(dir[n], scan)) :
                 dir' = [dir EXCEPT ![Output(n)] = left]
  /\ Stop("crashed")
  /\ clean' = 0
  /\ UNCHANGED <<given, runs>>

DirectoryNext ==
  \/ ListFiles \/ BuildTables \/ EndRun \/ DirectoryCrash
  \/ \E n \in Names : \/ CountFile(n) \/ RefuseFile(n) \/ RefuseImage(n)
                      \/ WriteOutput(n) \/ NoCode(n)

DirectorySpec == DirectoryInit /\ [][DirectoryNext]_dirVars

-----------------------------------------------------------------------------
(* Properties                                                              *)

DirectoryTypeOK ==
  /\ given \in [Names -> Shapes \cup {NoFile}]
  /\ dir \in [Names -> Seq(Item) \cup {NoFile}]
  /\ phase \in {"count", "write", "ended", "exited", "crashed"}
  /\ toDo \subseteq files /\ files \subseteq Names
  /\ found \subseteq Codes
  /\ runs \in 0 .. MaxRuns /\ clean \in Nat

\* Not subsampled, its components numbered as Write_New_Body does, and no segment
\* behind a table that the copy of the header loses and a decoder needs.
Supported(s) ==
  /\ ~s.subsampled /\ s.first = 0
  /\ "SOF" \in Range(s.head)
  /\ \A i, j \in DOMAIN s.head :
       s.head[i] \in {"SOF", "DRI"} /\ s.head[j] = "DHT" => i < j

GivenOf(b) == {k \in 0 .. 1 : given[<<b, k>>] # NoFile}

\* All the user's files of this name are such.
SupportedBase(b) ==
  GivenOf(b) # {} /\ \A k \in GivenOf(b) : Supported(given[<<b, k>>])

\* the shortest name they have
First(b) == IF given[<<b, 0>>] # NoFile THEN 0 ELSE 1

\* dir[n] is a recoded picture of the user: all of it, that of a file whose name
\* is a beginning of n, under tables and with restarts a decoder can follow.
Right(n) ==
  LET f == dir[n]
  IN  /\ f # NoFile /\ Complete(f) /\ Countable(f) /\ Coherent(f)
      /\ Of(f, "scan").whole /\ Of(f, "SOS").first = Of(f, "SOF").first
      /\ Of(f, "scan").picture \in {<<n[1], k>> : k \in GivenOf(n[1])}

\* The second pass has a code for whatever it meets in a file that its decoder
\* can follow, though the files it comes to may have been written since the first
\* pass counted them.
TablesCover ==
  phase = "write" =>
    \A n \in toDo :
      Has(dir[n], "SOF") /\ Has(dir[n], "scan") /\ Coherent(dir[n]) =>
        Of(dir[n], "scan").met \subseteq found

\* If all the user's files are supported, no run refuses a file or lacks a code,
\* unless one before it crashed: the program can read what it wrote.
ReadsItsOwn ==
  phase = "exited" =>
    clean < runs \/ \E b \in Bases : GivenOf(b) # {} /\ ~SupportedBase(b)

\* Without a crash every file that was recoded is right, during the runs too; and
\* every run that ends after a crash repairs one more level of them, though it lists
\* and recodes what the crash left.
Repaired ==
  \A b \in Bases : SupportedBase(b) =>
    \A n \in {<<b, k>> : k \in 1 .. MaxRuns + 1} :
      /\ dir[n] # NoFile
      /\ n[2] - First(b) \in 1 .. clean
      => Right(n)

\* A run that ends well has recoded every picture the user gave, by the shortest of
\* its names, whatever crashes left in the directory.
RunDelivers ==
  [][phase = "write" /\ phase' = "ended" =>
       \A b \in Bases : SupportedBase(b) => Right(<<b, First(b) + 1>>)']_dirVars

\* What was written to its end can be parsed: the DHT segment is as long as it
\* says.
SegmentsFit ==
  \A n \in Names :
    dir[n] # NoFile /\ Complete(dir[n]) => ReadsHeader(dir[n])
=============================================================================
