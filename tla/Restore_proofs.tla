--------------------------- MODULE Restore_proofs ---------------------------
(***************************************************************************)
(* For every file length and batch size: the windows of RecvDecode::run    *)
(* stay inside the recipe, the chunks come out once and in order, and a    *)
(* restore that ends has written all of them but what the ofstream holds.  *)
(* Whatever lies behind the hashes, the key of an entry of fp2ChunkDB      *)
(* begins with the hash it was saved for, so that no chunk is taken for    *)
(* another, and a restore that finds a chunk finds the one its recipe      *)
(* lists.                                                                  *)
(***************************************************************************)
EXTENDS Restore, ChunkKeys, SequenceTheorems, TLAPS

\* restored and the window are always what the next batch needs; next is where
\* the reading stands.
Window ==
  /\ total \in Nat
  /\ startID \in Int /\ endID \in Int /\ restored \in Int /\ next \in Int
  /\ run \in {"test", "read", "done", "failed"}
  /\ BatchesInRecipe
  /\ startID <= total
  /\ restored = total => endID >= total - 1
  /\ run = "read" => restored # total
  /\ run = "test" => next = startID

LEMMA WindowInit == RestoreInit => Window
  BY BatchAssumption DEF RestoreInit, Window, BatchesInRecipe

LEMMA WindowStep == Window /\ [RestoreNext]_restoreVars => Window'
<1> SUFFICES ASSUME Window, [RestoreNext]_restoreVars
             PROVE  Window'
  OBVIOUS
<1> USE BatchAssumption DEF Window, BatchesInRecipe, input, reader, writer
<1>1. CASE BeginBatch
  BY <1>1 DEF BeginBatch
<1>2. CASE RestoreChunk
  BY <1>2 DEF RestoreChunk
<1>3. CASE RestoreFails
  BY <1>3 DEF RestoreFails
<1>4. CASE EndBatch
  BY <1>4 DEF EndBatch, NextWindow
<1>5. CASE DownloadDone
  BY <1>5 DEF DownloadDone
<1>6. CASE Receive
  BY <1>6 DEF Receive
<1>7. CASE Exit
  BY <1>7 DEF Exit
<1>8. CASE UNCHANGED restoreVars
  BY <1>8 DEF restoreVars
<1> QED
  BY <1>1, <1>2, <1>3, <1>4, <1>5, <1>6, <1>7, <1>8 DEF RestoreNext, Read

\* For every file length and batch size, the batches follow each other without gap
\* and never leave the entries the head counts.
THEOREM BatchesStayInRecipe == RestoreSpec => []BatchesInRecipe
<1>1. Window => BatchesInRecipe
  BY DEF Window
<1> QED
  BY <1>1, WindowInit, WindowStep, PTL DEF RestoreSpec

-----------------------------------------------------------------------------

\* Everything read so far is written, in the buffer of the ofstream or queued.
Stream == file \o buffer \o queue

\* ... and it is the chunks below next.
Streamed ==
  /\ next \in Nat
  /\ file \in Seq(Nat) /\ buffer \in Seq(Nat) /\ queue \in Seq(Nat)
  /\ exited \in BOOLEAN
  /\ run \in {"test", "read"} => ~exited
  /\ ~exited => Stream = Ids(next)

LEMMA IdsAre ==
  ASSUME NEW n \in Nat
  PROVE  Ids(n) \in Seq(Nat) /\ Len(Ids(n)) = n
<1>1. Ids(n) \in [1 .. n -> Nat]
  BY DEF Ids
<1> QED
  BY <1>1 DEF Ids

LEMMA IdsGrow ==
  ASSUME NEW n \in Nat
  PROVE  Append(Ids(n), n) = Ids(n + 1)
<1>1. Ids(n) \in Seq(Nat) /\ Len(Ids(n)) = n /\ Ids(n + 1) \in Seq(Nat) /\ Len(Ids(n + 1)) = n + 1
  BY IdsAre
<1>2. Append(Ids(n), n) \in Seq(Nat) /\ Len(Append(Ids(n), n)) = n + 1
  BY <1>1
<1>3. ASSUME NEW i \in 1 .. n + 1
      PROVE  Append(Ids(n), n)[i] = Ids(n + 1)[i]
  <2>1. CASE i = n + 1
    BY <1>1, <2>1 DEF Ids
  <2>2. CASE i \in 1 .. n
    <3>1. Append(Ids(n), n)[i] = Ids(n)[i]
      BY <1>1, <2>2, AppendProperties
    <3>2. Ids(n)[i] = i - 1 /\ Ids(n + 1)[i] = i - 1
      BY <2>2 DEF Ids
    <3> QED
      BY <3>1, <3>2, Zenon
  <2>3. i = n + 1 \/ i \in 1 .. n
    OBVIOUS
  <2> QED
    BY <2>1, <2>2, <2>3, Zenon
<1> QED
  BY <1>1, <1>2, <1>3, SeqEqual

\* Appending to a concatenation appends to its second part.
LEMMA AppendRight ==
  ASSUME NEW s \in Seq(Nat), NEW t \in Seq(Nat), NEW e \in Nat
  PROVE  s \o Append(t, e) = Append(s \o t, e)
<1>1. s \o t \in Seq(Nat) /\ <<e>> \in Seq(Nat)
  BY ConcatProperties
<1>2. Append(t, e) = t \o <<e>> /\ Append(s \o t, e) = (s \o t) \o <<e>>
  BY <1>1, AppendIsConcat, Zenon
<1>3. (s \o t) \o <<e>> = s \o (t \o <<e>>)
  BY <1>1, ConcatAssociative
<1> QED
  BY <1>2, <1>3, Zenon

\* Moving the head of the second part to the end of the first.
LEMMA MoveHead ==
  ASSUME NEW s \in Seq(Nat), NEW t \in Seq(Nat), t # <<>>
  PROVE  Append(s, Head(t)) \o Tail(t) = s \o t
<1>1. /\ Head(t) \in Nat /\ Tail(t) \in Seq(Nat)
      /\ Len(Tail(t)) = Len(t) - 1 /\ Len(t) \in Nat \ {0}
      /\ \A i \in 1 .. Len(Tail(t)) : Tail(t)[i] = t[i + 1]
  BY HeadTailProperties, EmptySeq
<1>2. <<Head(t)>> \in Seq(Nat) /\ Append(s, Head(t)) = s \o <<Head(t)>>
  BY <1>1, AppendIsConcat
<1>3. <<Head(t)>> \o Tail(t) = t
  <2>1. 1 \in 1 .. Len(t) /\ Len(t) \in 1 .. Len(t)
    BY <1>1
  <2>2. SubSeq(t, 1, Len(t)) = <<t[1]>> \o SubSeq(t, 1 + 1, Len(t))
    BY <2>1, SubSeqRecursiveFirst, Zenon
  <2>3. Tail(t) = SubSeq(t, 1 + 1, Len(t)) /\ SubSeq(t, 1, Len(t)) = t
    <3>1. Tail(t) = SubSeq(t, 2, Len(t)) /\ SubSeq(t, 1, Len(t)) = t
      BY TailIsSubSeq, SubSeqFull
    <3>2. 1 + 1 = 2
      OBVIOUS
    <3> QED
      BY <3>1, <3>2, Zenon
  <2>4. Head(t) = t[1]
    BY <1>1
  <2> QED
    BY <2>2, <2>3, <2>4, Zenon
<1>4. (s \o <<Head(t)>>) \o Tail(t) = s \o (<<Head(t)>> \o Tail(t))
  BY <1>1, <1>2, ConcatAssociative
<1> QED
  BY <1>2, <1>3, <1>4, Zenon

\* ofstream::write appends to what is written, wherever the chunk goes.
LEMMA WriteAppends ==
  ASSUME NEW c \in Nat, file \in Seq(Nat), buffer \in Seq(Nat), Write(c)
  PROVE  /\ file' \in Seq(Nat) /\ buffer' \in Seq(Nat)
         /\ file' \o buffer' = Append(file \o buffer, c)
<1>1. file \o buffer \in Seq(Nat)
  BY ConcatProperties
<1>2. CASE buffer' = Append(buffer, c) /\ file' = file
  BY <1>2, AppendRight
<1>3. CASE file' = Append(file \o buffer, c) /\ buffer' = <<>>
  BY <1>1, <1>3
<1> QED
  BY <1>2, <1>3 DEF Write

LEMMA StreamedInit == RestoreInit => Streamed
<1> SUFFICES ASSUME RestoreInit
             PROVE  Streamed
  OBVIOUS
<1>1. Ids(0) = <<>>
  BY IdsAre, EmptySeq
<1>2. <<>> \o <<>> \o <<>> = <<>>
  OBVIOUS
<1>3. Stream = Ids(0)
  BY <1>1, <1>2 DEF RestoreInit, Stream
<1>4. /\ next = 0 /\ exited = FALSE
      /\ file \in Seq(Nat) /\ buffer \in Seq(Nat) /\ queue \in Seq(Nat)
  BY DEF RestoreInit
<1> QED
  BY <1>3, <1>4 DEF Streamed

LEMMA StreamedStep ==
  Window /\ Window' /\ Streamed /\ [RestoreNext]_restoreVars => Streamed'
<1> SUFFICES ASSUME Window, Window', Streamed, [RestoreNext]_restoreVars
             PROVE  Streamed'
  OBVIOUS
<1> USE DEF input, reader, writer
<1>1. CASE BeginBatch
  BY <1>1 DEF BeginBatch, Window, BatchesInRecipe, Streamed, Stream
<1>2. CASE RestoreChunk
  <2>1. file \o buffer \in Seq(Nat)
    BY DEF Streamed
  <2>2. ~exited /\ (file \o buffer) \o queue = Ids(next)
    BY <1>2 DEF RestoreChunk, Streamed, Stream
  <2>3. (file \o buffer) \o Append(queue, next) = Ids(next + 1)
    <3>1. (file \o buffer) \o Append(queue, next) = Append((file \o buffer) \o queue, next)
      BY <2>1, AppendRight, Zenon DEF Streamed
    <3> QED
      BY <2>2, <3>1, IdsGrow, Zenon DEF Streamed
  <2> QED
    BY <1>2, <2>2, <2>3 DEF RestoreChunk, Streamed, Stream
<1>3. CASE RestoreFails
  BY <1>3 DEF RestoreFails, Streamed, Stream
<1>4. CASE EndBatch
  BY <1>4 DEF EndBatch, Streamed, Stream
<1>5. CASE DownloadDone
  BY <1>5 DEF DownloadDone, Streamed, Stream
<1>6. CASE Receive
  <2>1. queue # <<>> /\ queue \in Seq(Nat) /\ Head(queue) \in Nat /\ Tail(queue) \in Seq(Nat)
    BY <1>6, HeadTailProperties DEF Receive, Streamed
  <2>2. /\ file' \in Seq(Nat) /\ buffer' \in Seq(Nat)
        /\ file' \o buffer' = Append(file \o buffer, Head(queue))
    BY <1>6, <2>1, WriteAppends DEF Receive, Streamed
  <2>3. file \o buffer \in Seq(Nat)
    BY DEF Streamed
  <2>4. (file' \o buffer') \o Tail(queue) = (file \o buffer) \o queue
    BY <2>1, <2>2, <2>3, MoveHead
  <2> QED
    BY <1>6, <2>1, <2>2, <2>4 DEF Receive, Streamed, Stream
<1>7. CASE Exit
  BY <1>7 DEF Exit, Streamed
<1>8. CASE UNCHANGED restoreVars
  BY <1>8 DEF restoreVars, Streamed, Stream
<1> QED
  BY <1>1, <1>2, <1>3, <1>4, <1>5, <1>6, <1>7, <1>8 DEF RestoreNext, Read

\* Whatever the interleaving of the two threads, the file, the buffer of its
\* stream and the queue hold together the first chunks, each once and in order.
THEOREM OrderKept == RestoreSpec => []InOrder
<1>1. Streamed => InOrder
  <2> SUFFICES ASSUME Streamed, ~exited
               PROVE  Stream = Ids(Len(file) + Len(buffer) + Len(queue))
    BY DEF InOrder, Stream
  <2>1. Stream = Ids(next) /\ Len(Ids(next)) = next
    BY IdsAre DEF Streamed
  <2>2. Len(Stream) = Len(file) + Len(buffer) + Len(queue)
    BY DEF Streamed, Stream
  <2> QED
    BY <2>1, <2>2
<1> QED
  BY <1>1, WindowInit, WindowStep, StreamedInit, StreamedStep, PTL DEF RestoreSpec

-----------------------------------------------------------------------------

\* What has been read could be read; what has been received is in the file but,
\* possibly, a short last chunk; and main leaves when all of it has been received.
\* The short last chunk is all that can be in the buffer.
Counted ==
  /\ received = Len(file) + Len(buffer)
  /\ smallTail /\ received = total /\ total > 0 => Len(buffer) = 1
  /\ ~(smallTail /\ received = total /\ total > 0) => buffer = <<>>

Passed ==
  /\ found \in BOOLEAN /\ smallTail \in BOOLEAN
  /\ unreadable \subseteq 0 .. total - 1
  /\ received \in Nat
  /\ next <= total
  /\ next > 0 \/ run = "read" => found
  /\ \A k \in 0 .. next - 1 : k \notin unreadable
  /\ ~exited => Counted
  /\ EndsComplete

LEMMA PassedInit == RestoreInit => Passed
<1> SUFFICES ASSUME RestoreInit
             PROVE  Passed
  OBVIOUS
<1>1. /\ found \in BOOLEAN /\ smallTail \in BOOLEAN /\ unreadable \subseteq 0 .. total - 1
      /\ received = 0 /\ next = 0 /\ exited = FALSE /\ buffer = <<>> /\ file = <<>>
      /\ total \in Nat /\ run = "test"
  BY BatchAssumption DEF RestoreInit
<1>2. EndsComplete
  BY <1>1 DEF EndsComplete
<1>3. Counted
  BY <1>1 DEF Counted
<1> QED
  BY <1>1, <1>2, <1>3 DEF Passed

\* Where nothing is queued, what is received is what was read.
LEMMA StreamLength ==
  ASSUME Streamed, ~exited
  PROVE  Len(file) + Len(buffer) + Len(queue) = next
<1>1. Stream = Ids(next) /\ Len(Ids(next)) = next
  BY IdsAre DEF Streamed
<1>2. Len(Stream) = Len(file) + Len(buffer) + Len(queue)
  BY DEF Streamed, Stream
<1> QED
  BY <1>1, <1>2

\* The chunk that is received next is the one whose turn it is.
LEMMA HeadIsNext ==
  ASSUME Streamed, ~exited, queue # <<>>
  PROVE  Head(queue) = Len(file) + Len(buffer) /\ Len(file) + Len(buffer) < next
<1> DEFINE n == Len(file) + Len(buffer)
<1>1. /\ file \o buffer \in Seq(Nat) /\ Len(file \o buffer) = n /\ n \in Nat
      /\ Len(queue) \in Nat \ {0} /\ Head(queue) = queue[1]
  BY EmptySeq DEF Streamed
<1>2. Stream = Ids(next) /\ next = n + Len(queue)
  BY StreamLength DEF Streamed
<1>3. Stream[n + 1] = queue[1]
  <2>1. n + 1 \in 1 .. n + Len(queue) /\ ~(n + 1 <= n) /\ (n + 1) - n = 1
    BY <1>1
  <2> HIDE DEF n
  <2>2. Stream[n + 1] = queue[(n + 1) - n]
    BY <1>1, <2>1, ConcatProperties DEF Stream, Streamed
  <2> QED
    BY <2>1, <2>2
<1>4. Ids(next)[n + 1] = n
  BY <1>1, <1>2 DEF Ids
<1> QED
  BY <1>1, <1>2, <1>3, <1>4

\* ofstream::write of the chunk that is received next.
LEMMA WritePasses ==
  ASSUME Counted, received \in Nat, total \in Nat, file \in Seq(Nat), buffer \in Seq(Nat),
         received < total, received' = received + 1, Write(received),
         UNCHANGED <<smallTail, total>>
  PROVE  Counted'
<1>1. buffer = <<>> /\ received = Len(file)
  BY DEF Counted
<1>2. CASE smallTail /\ received = total - 1
  <2>1. buffer' = Append(buffer, received) /\ file' = file
    BY <1>2 DEF Write
  <2>2. Len(buffer') = 1
    BY <1>1, <2>1
  <2>3. received' = total' /\ smallTail' /\ total' > 0
    BY <1>2
  <2> QED
    BY <1>1, <2>1, <2>2, <2>3 DEF Counted
<1>3. CASE ~(smallTail /\ received = total - 1)
  <2>1. buffer' = <<>> /\ file' = Append(file \o buffer, received)
    BY <1>3 DEF Write
  <2>2. Len(file') = received + 1
    BY <1>1, <2>1
  <2>3. ~(smallTail' /\ received' = total' /\ total' > 0)
    BY <1>3
  <2> QED
    BY <2>1, <2>2, <2>3 DEF Counted
<1> QED
  BY <1>2, <1>3

\* What is in the file when everything has been received and the buffer is dropped.
LEMMA FileAtExit ==
  ASSUME Passed, Streamed, Window, ~exited, received >= total, total > 0
  PROVE  /\ next = total /\ received = total
         /\ file = Ids(IF smallTail THEN total - 1 ELSE total)
<1>1. /\ total \in Nat /\ next \in Nat /\ next <= total
      /\ file \in Seq(Nat) /\ buffer \in Seq(Nat) /\ queue \in Seq(Nat)
      /\ received = Len(file) + Len(buffer)
      /\ Len(file) + Len(buffer) + Len(queue) = next
  BY StreamLength DEF Passed, Streamed, Window, Counted
<1>2. next = total /\ received = total /\ Len(queue) = 0
  BY <1>1
<1>3. queue = <<>> /\ file \o buffer = Ids(total)
  <2>1. queue = <<>>
    BY <1>1, <1>2, EmptySeq
  <2>2. file \o buffer \in Seq(Nat) /\ (file \o buffer) \o <<>> = file \o buffer
    BY <1>1
  <2>3. (file \o buffer) \o queue = Ids(total)
    BY <1>2 DEF Streamed, Stream
  <2> QED
    BY <2>1, <2>2, <2>3
<1>4. CASE smallTail
  <2>1. Len(buffer) = 1 /\ Len(file) = total - 1 /\ total - 1 \in Nat
    <3>1. Len(buffer) = 1 /\ received = Len(file) + Len(buffer)
      BY <1>2, <1>4 DEF Passed, Counted
    <3>2. Len(file) \in Nat
      BY <1>1
    <3> QED
      BY <1>1, <1>2, <3>1, <3>2
  <2>2. Ids(total - 1) \in Seq(Nat) /\ Len(Ids(total - 1)) = total - 1
    BY <2>1, IdsAre
  <2>3. ASSUME NEW k \in 1 .. total - 1
        PROVE  file[k] = Ids(total - 1)[k]
    <3>1. (file \o buffer)[k] = file[k]
      BY <1>1, <2>1, <2>3, ConcatProperties
    <3>2. Ids(total)[k] = k - 1 /\ Ids(total - 1)[k] = k - 1
      BY <1>1, <2>3 DEF Ids
    <3> QED
      BY <1>3, <3>1, <3>2
  <2>4. file = Ids(total - 1)
    BY <1>1, <2>1, <2>2, <2>3, SeqEqual
  <2> QED
    BY <1>2, <1>4, <2>4
<1>5. CASE ~smallTail
  <2>1. buffer = <<>>
    BY <1>5 DEF Passed, Counted
  <2> QED
    BY <1>1, <1>2, <1>3, <1>5, <2>1
<1> QED
  BY <1>4, <1>5

LEMMA PassedStep ==
  Window /\ Window' /\ Streamed /\ Passed /\ [RestoreNext]_restoreVars => Passed'
<1> SUFFICES ASSUME Window, Window', Streamed, Passed, [RestoreNext]_restoreVars
             PROVE  Passed'
  OBVIOUS
<1> USE DEF input, reader, writer
<1>0. total \in Nat /\ next \in Nat /\ startID \in Nat /\ exited \in BOOLEAN
  BY DEF Window, BatchesInRecipe, Streamed
<1>1. CASE BeginBatch
  <2>1. next' = next /\ (run' = "read" => found)
    BY <1>1 DEF BeginBatch, Window
  <2> QED
    BY <1>1, <2>1 DEF BeginBatch, Passed, EndsComplete, Counted
<1>2. CASE RestoreChunk
  <2>1. found
    BY <1>2 DEF RestoreChunk, Passed
  <2>2. next' = next + 1 /\ next' <= total /\ next \notin unreadable
    BY <1>0, <1>2 DEF RestoreChunk, Window, BatchesInRecipe
  <2>3. ~exited
    BY <1>2 DEF RestoreChunk, Streamed
  <2>4. \A k \in 0 .. next' - 1 : k \notin unreadable
    BY <1>0, <2>2 DEF Passed
  <2> QED
    BY <1>0, <1>2, <2>1, <2>2, <2>3, <2>4 DEF RestoreChunk, Passed, EndsComplete, Counted
<1>3. CASE RestoreFails
  BY <1>3 DEF RestoreFails, Passed, EndsComplete, Counted
<1>4. CASE EndBatch
  BY <1>4 DEF EndBatch, Passed, EndsComplete, Counted
<1>5. CASE DownloadDone
  BY <1>5 DEF DownloadDone, Passed, EndsComplete, Counted
<1>6. CASE Receive
  <2>1. CASE ~exited
    <3>1. received = Len(file) + Len(buffer) /\ Counted
      BY <2>1 DEF Passed, Counted
    <3>2. Head(queue) = received /\ received < total
      BY <1>6, <2>1, <3>1, HeadIsNext DEF Receive
    <3>3. Counted'
      BY <1>0, <1>6, <3>1, <3>2, WritePasses DEF Receive, Passed, Streamed
    <3>4. EndsComplete'
      BY <1>6, <2>1 DEF Receive, EndsComplete
    <3>5. received' \in Nat /\ UNCHANGED <<input, reader, exited>>
      BY <1>6 DEF Receive, Passed
    <3> QED
      BY <3>3, <3>4, <3>5 DEF Passed
  <2>2. CASE exited
    <3>1. received' \in Nat /\ UNCHANGED <<input, reader, exited>>
      BY <1>6 DEF Receive, Passed
    <3>2. EndsComplete'
      BY <1>0, <1>6, <2>2 DEF Receive, Passed, EndsComplete
    <3> QED
      BY <2>2, <3>1, <3>2 DEF Passed
  <2> QED
    BY <2>1, <2>2
<1>7. CASE Exit
  <2>1. ~exited /\ received >= total /\ exited' = TRUE
        /\ UNCHANGED <<input, reader, received, file>>
    BY <1>7 DEF Exit
  <2>2. ASSUME total > 0
        PROVE  /\ next = total /\ received = total
               /\ file = Ids(IF smallTail THEN total - 1 ELSE total)
    BY <2>1, <2>2, FileAtExit
  <2>3. EndsComplete'
    BY <1>0, <2>1, <2>2 DEF Passed, EndsComplete
  <2> QED
    BY <2>1, <2>3 DEF Passed
<1>8. CASE UNCHANGED restoreVars
  BY <1>8 DEF restoreVars, Passed, EndsComplete, Counted
<1> QED
  BY <1>1, <1>2, <1>3, <1>4, <1>5, <1>6, <1>7, <1>8 DEF RestoreNext, Read

\* A restore that ends, whatever its chunks, batches and interleaving, was of a known
\* file without an unreadable chunk, and the file it leaves has all chunks in order
\* but, at most, a last one that was still buffered.
THEOREM EndsAreComplete == RestoreSpec => []EndsComplete
<1>1. Passed => EndsComplete
  BY DEF Passed
<1> QED
  BY <1>1, WindowInit, WindowStep, StreamedInit, StreamedStep, PassedInit, PassedStep,
     PTL DEF RestoreSpec

-----------------------------------------------------------------------------
(* The keys chunks are found under.                                        *)

LEMMA HashFacts ==
  ASSUME NEW h \in Hashes
  PROVE  /\ HashSize \in Nat /\ h \in Seq(Bytes) /\ Len(h) = HashSize
         /\ \A i \in 1 .. HashSize : h[i] # Nul
<1>1. PICK d \in Digests : h = Hash(d)
  BY DEF Hashes
<1>2. \A i \in 1 .. HashSize : d[i] \in Bytes
  BY <1>1 DEF Digests
<1>3. h = [i \in 1 .. HashSize |-> IF d[i] = Nul THEN High ELSE d[i]]
  BY <1>1 DEF Hash
<1>4. \A i \in 1 .. HashSize : h[i] \in Bytes /\ h[i] # Nul
  BY <1>2, <1>3, KeyAssumption DEF Nul, High
<1> QED
  BY <1>3, <1>4, KeyAssumption

\* generateHash leaves no NUL byte that could end a key before the hash ends.
LEMMA KeyBegins ==
  ASSUME NEW h \in Hashes, NEW k \in SaveKeys(h)
  PROVE  Len(k) >= HashSize /\ \A i \in 1 .. HashSize : k[i] = h[i]
<1>1. HashSize \in Nat /\ h \in Seq(Bytes) /\ Len(h) = HashSize
      /\ \A i \in 1 .. HashSize : h[i] # Nul
  BY HashFacts
<1>2. PICK t \in Behind : k \in CStrings(h \o t)
  BY DEF SaveKeys
<1>3. t \in Seq(Bytes) /\ Len(t) \in Nat
  <2>1. t \in Seq(Bytes \ {Nul}) /\ Bytes \ {Nul} \subseteq Bytes
    BY KeyAssumption
  <2>2. t \in Seq(Bytes)
    BY <2>1, SeqMonotonic
  <2> QED
    BY <2>2
<1> DEFINE s == h \o t
<1>4. /\ s \in Seq(Bytes) /\ Len(s) = HashSize + Len(t)
      /\ \A i \in 1 .. HashSize : s[i] = h[i]
  <2>1. s \in Seq(Bytes) /\ Len(s) = Len(h) + Len(t)
    BY <1>1, <1>3, ConcatProperties, Zenon
  <2>2. ASSUME NEW i \in 1 .. HashSize
        PROVE  s[i] = h[i]
    <3>1. i \in 1 .. Len(h) + Len(t) /\ i <= Len(h)
      BY <1>1, <1>3
    <3> QED
      BY <1>1, <1>3, <3>1, ConcatProperties, Zenon
  <2> QED
    BY <1>1, <2>1, <2>2
<1>5. PICK n \in 0 .. Len(s) : k = SubSeq(s, 1, n) /\ (n = Len(s) \/ s[n + 1] = Nul)
  BY <1>2 DEF CStrings
<1> HIDE DEF s
<1>6. n >= HashSize
  <2>1. CASE n < HashSize
    <3>1. n + 1 \in 1 .. HashSize /\ n # Len(s)
      BY <1>1, <1>3, <1>4, <2>1
    <3> QED
      BY <1>1, <1>4, <1>5, <3>1
  <2> QED
    BY <1>1, <1>5, <2>1
<1>7. \A i \in 1 .. n : s[i] \in Bytes
  BY <1>4, <1>5, ElementOfSeq
<1>8. Len(SubSeq(s, 1, n)) = n /\ \A i \in 1 .. n : SubSeq(s, 1, n)[i] = s[i]
  BY <1>1, <1>4, <1>5, <1>7
<1> QED
  BY <1>1, <1>4, <1>5, <1>6, <1>8

\* No key is that of two chunks.
LEMMA KeysApart ==
  ASSUME NEW g \in Hashes, NEW h \in Hashes, NEW k \in SaveKeys(g), k \in SaveKeys(h)
  PROVE  g = h
<1>1. \A i \in 1 .. HashSize : k[i] = g[i] /\ k[i] = h[i]
  BY KeyBegins
<1>2. g \in Seq(Bytes) /\ h \in Seq(Bytes) /\ Len(g) = HashSize /\ Len(h) = HashSize
  BY HashFacts
<1> QED
  BY <1>1, <1>2, SeqEqual

\* A key that is a hash is the hash it was saved for.
LEMMA FullKey ==
  ASSUME NEW g \in Hashes, NEW h \in Hashes, h \in SaveKeys(g)
  PROVE  g = h
<1>1. \A i \in 1 .. HashSize : h[i] = g[i]
  BY KeyBegins
<1>2. g \in Seq(Bytes) /\ h \in Seq(Bytes) /\ Len(g) = HashSize /\ Len(h) = HashSize
  BY HashFacts
<1> QED
  BY <1>1, <1>2, SeqEqual

\* Every entry was saved under a key the chunker may use for its chunk.
KeysSaved ==
  /\ listed \subseteq Hashes
  /\ \A e \in index : e.chunk \in Hashes /\ e.key \in SaveKeys(e.chunk)

LEMMA KeysSavedStep == KeysSaved /\ [KeyNext]_keyVars => KeysSaved'
<1> SUFFICES ASSUME KeysSaved, [KeyNext]_keyVars
             PROVE  KeysSaved'
  OBVIOUS
<1>1. CASE UNCHANGED keyVars
  BY <1>1 DEF keyVars, KeysSaved
<1>2. ASSUME NEW h \in Hashes, UploadChunk(h)
      PROVE  KeysSaved'
  <2>1. listed' = listed \cup {h}
    BY <1>2 DEF UploadChunk
  <2>2. PICK saved \in SaveKeys(h) :
          \/ index' = index
          \/ index' = {e \in index : e.key # saved} \cup {[key |-> saved, chunk |-> h]}
    BY <1>2 DEF UploadChunk
  <2> QED
    BY <2>1, <2>2 DEF KeysSaved
<1> QED
  BY <1>1, <1>2 DEF KeyNext

LEMMA ListedSavedStep == KeysSaved /\ ListedSaved /\ [KeyNext]_keyVars => ListedSaved'
<1> SUFFICES ASSUME KeysSaved, ListedSaved, [KeyNext]_keyVars
             PROVE  ListedSaved'
  OBVIOUS
<1>1. CASE UNCHANGED keyVars
  BY <1>1 DEF keyVars, ListedSaved
<1>2. ASSUME NEW h \in Hashes, UploadChunk(h)
      PROVE  ListedSaved'
  <2>1. listed' = listed \cup {h}
    BY <1>2 DEF UploadChunk
  <2>2. PICK queried \in SaveKeys(h), saved \in SaveKeys(h) :
          IF Knows(queried) THEN index' = index
          ELSE index' = {e \in index : e.key # saved} \cup {[key |-> saved, chunk |-> h]}
    BY <1>2 DEF UploadChunk
  <2>3. CASE Knows(queried)
    <3>1. PICK e \in index : e.key = queried
      BY <2>3 DEF Knows
    <3>2. e.chunk = h
      BY <1>2, <3>1, KeysApart DEF KeysSaved
    <3> QED
      BY <2>1, <2>2, <2>3, <3>1, <3>2 DEF ListedSaved
  <2>4. CASE ~Knows(queried)
    <3> DEFINE new == [key |-> saved, chunk |-> h]
    <3>1. new \in index' /\ new.chunk = h
      BY <2>2, <2>4
    <3>2. ASSUME NEW g \in listed, g # h
          PROVE  \E e \in index' : e.chunk = g
      <4>1. PICK e \in index : e.chunk = g
        BY DEF ListedSaved
      <4>2. e.key # saved
        BY <1>2, <3>2, <4>1, KeysApart DEF KeysSaved
      <4> QED
        BY <2>2, <2>4, <4>1, <4>2
    <3> QED
      BY <2>1, <3>1, <3>2 DEF ListedSaved
  <2> QED
    BY <2>3, <2>4
<1> QED
  BY <1>1, <1>2 DEF KeyNext

\* For every size of a hash and whatever lies behind one: no upload takes a chunk for
\* another one that is saved already, or saves it over one.
THEOREM ListedStaysSaved == KeySpec => []ListedSaved
<1>1. KeyInit => KeysSaved /\ ListedSaved
  BY DEF KeyInit, KeysSaved, ListedSaved
<1> QED
  BY <1>1, KeysSavedStep, ListedSavedStep, PTL DEF KeySpec

\* A chunk uploaded under the bytes of its hash has an entry under them.
WholeKnown == whole \subseteq Hashes /\ \A h \in whole : Knows(h)

LEMMA WholeKnownStep == WholeKnown /\ [KeyNext]_keyVars => WholeKnown'
<1> SUFFICES ASSUME WholeKnown, [KeyNext]_keyVars
             PROVE  WholeKnown'
  OBVIOUS
<1>1. CASE UNCHANGED keyVars
  BY <1>1 DEF keyVars, WholeKnown, Knows
<1>2. ASSUME NEW h \in Hashes, UploadChunk(h)
      PROVE  WholeKnown'
  <2>1. PICK queried \in SaveKeys(h), saved \in SaveKeys(h) :
          IF Knows(queried)
          THEN /\ UNCHANGED index
               /\ whole' = IF queried = h THEN whole \cup {h} ELSE whole
          ELSE /\ index' = {e \in index : e.key # saved}
                             \cup {[key |-> saved, chunk |-> h]}
               /\ whole' = IF saved = h THEN whole \cup {h} ELSE whole
    BY <1>2 DEF UploadChunk
  <2>2. CASE Knows(queried)
    BY <1>2, <2>1, <2>2 DEF WholeKnown, Knows
  <2>3. CASE ~Knows(queried)
    <3>0. [key |-> saved, chunk |-> h] \in index' /\ [key |-> saved, chunk |-> h].key = saved
      BY <2>1, <2>3
    <3>1. ASSUME NEW g \in whole
          PROVE  \E e \in index' : e.key = g
      <4>1. PICK e \in index : e.key = g
        BY DEF WholeKnown, Knows
      <4>2. CASE g = saved
        BY <3>0, <4>2
      <4>3. CASE g # saved
        BY <2>1, <2>3, <4>1, <4>3
      <4> QED
        BY <4>2, <4>3
    <3>2. saved = h => \E e \in index' : e.key = h
      BY <3>0
    <3> QED
      BY <1>2, <2>1, <2>3, <3>1, <3>2 DEF WholeKnown, Knows
  <2> QED
    BY <2>2, <2>3
<1> QED
  BY <1>1, <1>2 DEF KeyNext

\* A chunk once uploaded under the bytes of its hash can be restored for ever, whatever
\* keys that go on behind a hash it and others are uploaded under.
THEOREM WholeStaysFetched == KeySpec => []WholeFetched
<1>1. KeyInit => KeysSaved /\ WholeKnown
  BY DEF KeyInit, KeysSaved, WholeKnown
<1>2. KeysSaved /\ WholeKnown => WholeFetched
  <2> SUFFICES ASSUME KeysSaved, WholeKnown, NEW h \in whole
               PROVE  Fetched(h) = {h}
    BY DEF WholeFetched
  <2>1. h \in Hashes
    BY DEF WholeKnown
  <2>2. PICK e \in index : e.key = h
    BY DEF WholeKnown, Knows
  <2>3. \A f \in index : f.key = h => f.chunk = h
    BY <2>1, FullKey DEF KeysSaved
  <2> QED
    BY <2>2, <2>3 DEF Fetched, RestoreKey
<1> QED
  BY <1>1, <1>2, KeysSavedStep, WholeKnownStep, PTL DEF KeySpec

=============================================================================
