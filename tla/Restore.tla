------------------------------- MODULE Restore -------------------------------
(***************************************************************************)
(* A restore (client -r): the thread of RecvDecode::run asks StorageCore   *)
(* for the chunks of a file in batches; restoreRecipeAndChunk pushes every *)
(* chunk it reads into a lock-free queue; the thread of                    *)
(* Retriever::recvThread pops them and writes them to the restored file.   *)
(* main joins both threads, deletes StorageCore and returns.               *)
(*                                                                         *)
(* Chunks are the numbers of the recipe's entries, from 0.  The queue      *)
(* allocates a node per push, so a push never fails.  There is one thread  *)
(* of each kind (mutiThread in config.json).                               *)
(***************************************************************************)
EXTENDS Integers, Sequences

CONSTANTS
  Batch,      \* _sendChunkBatchSize
  MaxTotal    \* bound: chunks of a file

ASSUME BatchAssumption == Batch \in Nat \ {0} /\ MaxTotal \in Nat

VARIABLES
  total,      \* fileRecipeHead.totalChunkNumber
  found,      \* restoreRecipeHead found the head
  unreadable, \* the entries restoreChunk cannot restore
  smallTail,  \* the last chunk is shorter than what the ofstream writes through
  run,        \* RecvDecode::run: "test", "read", "done" or "failed"
  startID, endID, restored,
  next,       \* i + startID in the loop of restoreRecipeAndChunk
  queue,      \* outPutMQ_
  received,   \* totalRecvNumber_
  buffer,     \* the chunks in the buffer of retrieveFile_
  file,       \* the chunks in the restored file
  exited      \* main has returned

input      == <<total, found, unreadable, smallTail>>
reader     == <<run, startID, endID, restored, next>>
writer     == <<received, buffer, file>>
restoreVars == <<input, reader, queue, writer, exited>>

\* Without a head, the number of chunks is what memory happened to hold.
RestoreInit ==
  /\ total \in 0 .. MaxTotal
  /\ found \in BOOLEAN
  /\ unreadable \in SUBSET (0 .. total - 1)
  /\ smallTail \in BOOLEAN
  /\ run = "test"
  /\ startID = 0
  /\ endID = IF total < Batch THEN total - 1 ELSE 0
  /\ restored = 0
  /\ next = 0
  /\ queue = <<>>
  /\ received = 0
  /\ buffer = <<>> /\ file = <<>>
  /\ exited = FALSE

-----------------------------------------------------------------------------
(* RecvDecode::run and restoreRecipeAndChunk.                              *)

BeginBatch ==
  /\ run = "test"
  /\ restored # total
  /\ IF found
     THEN run' = "read" /\ next' = startID
     ELSE run' = "failed" /\ UNCHANGED next
  /\ UNCHANGED <<input, startID, endID, restored, queue, writer, exited>>

RestoreChunk ==
  /\ run = "read"
  /\ next < endID
  /\ next \notin unreadable
  /\ queue' = Append(queue, next)
  /\ next' = next + 1
  /\ UNCHANGED <<input, run, startID, endID, restored, writer, exited>>

\* Faulty variant: an unreadable chunk is skipped.
RestoreFailsSkips ==
  /\ run = "read"
  /\ next < endID
  /\ next \in unreadable
  /\ next' = next + 1
  /\ UNCHANGED <<input, run, startID, endID, restored, queue, writer, exited>>

\* "chunk not exist": run returns; what was pushed stays in the queue
RestoreFails ==
  /\ run = "read"
  /\ next < endID
  /\ next \in unreadable
  /\ run' = "failed"
  /\ UNCHANGED <<input, startID, endID, restored, next, queue, writer, exited>>

\* Faulty variants: the last batch is as long as the others; the rest of the file,
\* shorter than a batch, is never asked for.
NextWindowWhole ==
  startID' = endID /\ endID' = endID + Batch

NextWindowNoRest ==
  /\ startID' = endID
  /\ endID' = endID + (IF total - restored' < Batch THEN 0 ELSE Batch)

NextWindow ==
  /\ startID' = endID
  /\ endID' = endID + (IF total - restored' < Batch THEN total - restored' ELSE Batch)

EndBatch ==
  /\ run = "read"
  /\ next >= endID
  /\ restored' = restored + (endID - startID)
  /\ NextWindow
  /\ run' = "test"
  /\ UNCHANGED <<input, next, queue, writer, exited>>

DownloadDone ==
  /\ run = "test"
  /\ restored = total
  /\ run' = "done"
  /\ UNCHANGED <<input, startID, endID, restored, next, queue, writer, exited>>

Read == BeginBatch \/ RestoreChunk \/ RestoreFails \/ EndBatch \/ DownloadDone

-----------------------------------------------------------------------------
(* Retriever::recvThread.                                                  *)

\* ofstream::write: a short chunk stays in the buffer; another one is written to
\* the file behind what the buffer holds
Write(c) ==
  IF smallTail /\ c = total - 1
  THEN buffer' = Append(buffer, c) /\ UNCHANGED file
  ELSE file' = Append(file \o buffer, c) /\ buffer' = <<>>

Receive ==
  /\ received < total
  /\ queue # <<>>
  /\ Write(Head(queue))
  /\ queue' = Tail(queue)
  /\ received' = received + 1
  /\ UNCHANGED <<input, reader, exited>>

\* Faulty variant: main joins the thread of RecvDecode::run only.
ExitEarly ==
  /\ ~exited
  /\ run \in {"done", "failed"}
  /\ exited' = TRUE
  /\ buffer' = <<>>
  /\ UNCHANGED <<input, reader, queue, received, file>>

\* main: both threads are joined.  The Retriever is never deleted, so that its
\* ofstream is never closed and its buffer dies with the process.
Exit ==
  /\ ~exited
  /\ run \in {"done", "failed"}
  /\ received >= total
  /\ exited' = TRUE
  /\ buffer' = <<>>
  /\ UNCHANGED <<input, reader, queue, received, file>>

RestoreNext == Read \/ Receive \/ Exit

\* Both threads are scheduled; the receiving one spins on an empty queue.
RestoreFairness == WF_restoreVars(Read) /\ WF_restoreVars(Receive) /\ WF_restoreVars(Exit)

RestoreSpec == RestoreInit /\ [][RestoreNext]_restoreVars /\ RestoreFairness

-----------------------------------------------------------------------------
(* Properties                                                              *)

Ids(n) == [i \in 1 .. n |-> i - 1]

\* The batches follow each other without gap and stay inside the entries the head
\* counts: restoreRecipeAndChunk never reads before its start, twice, or beyond
\* them into entries a later upload appended.
BatchesInRecipe ==
  /\ 0 <= startID /\ restored = startID
  /\ restored # total => startID <= endID /\ endID <= total
  /\ run = "read" => startID <= next /\ next <= endID

\* Whatever the interleaving of the two threads, the written chunks followed by
\* the queued ones are the first chunks of the file, each once and in order.
InOrder ==
  ~exited => file \o buffer \o queue = Ids(Len(file) + Len(buffer) + Len(queue))

\* A restore that ends ("job done", retriever.cpp, 24) has passed every chunk to
\* the file, unless the file is unknown and memory held no chunk number; all that
\* can be missing from the file is a last chunk short enough to be buffered.
EndsComplete ==
  exited /\ total > 0 =>
    /\ found /\ unreadable = {} /\ received = total
    /\ file = Ids(IF smallTail THEN total - 1 ELSE total)

\* A restore both of whose threads report that they are done ("download job done",
\* recvDecode.cpp, 151; "job done", retriever.cpp, 24) leaves every chunk in the file.
FileWhole == exited /\ run = "done" => file = Ids(total)

\* A restore of a known file, all of whose chunks can be read, ends.
Terminates == found /\ unreadable = {} => <>exited
=============================================================================
