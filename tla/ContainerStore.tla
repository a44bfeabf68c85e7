--------------------------- MODULE ContainerStore ---------------------------
(***************************************************************************)
(* StorageCore (chunk_new/src/storageCore.cpp): the chunks of the uploaded *)
(* files are packed into a current container held in memory; a full        *)
(* container is saved to its file and the next one is opened.  fp2ChunkDB  *)
(* maps a chunk's hash to its place.  .StorageConfig remembers, between    *)
(* two runs of the program, which container is current and how much of it  *)
(* is used.                                                                *)
(*                                                                         *)
(* A byte is abstracted to a cell: <<c, i>> is byte i of chunk c, Zero is  *)
(* a byte of memory nobody wrote.  A hash is identified with its chunk.    *)
(* Container names are permutations of fifteen letters taken in            *)
(* lexicographic order (next_permutation); they are numbered here.         *)
(***************************************************************************)
EXTENDS Integers

CONSTANTS
  Chunks,            \* the distinct chunks uploads are cut into
  Size,              \* Size[c]: the number of bytes of chunk c
  Zero,              \* a byte of memory never written
  MaxContainerSize,  \* maxContainerSize_, from the configuration
  BodySize,          \* size of Container::body_
  LastContainer,     \* number of container names
  Faults,            \* the faults that may strike, a subset of FaultKinds
  MaxSessions,       \* bound: runs of the program
  NoEntry, NoFile, NoConfig, NoRead

\* crash:  the process dies between two writes to the disk
\* torn:   it may also die inside Container::saveTOFile
\* config: ... and between the two lines of .StorageConfig
\* save:   saveTOFile cannot open the file
\* insert: LevelDB refuses a Put
FaultKinds == {"crash", "torn", "config", "save", "insert"}

ASSUME SizesAssumption ==
  /\ BodySize \in Nat
  /\ MaxContainerSize \in 0 .. BodySize
  /\ Size \in [Chunks -> 1 .. BodySize]
  /\ LastContainer \in Nat \ {0}
  /\ MaxSessions \in Nat
  /\ Faults \subseteq FaultKinds

Names   == 1 .. LastContainer
Offsets == 0 .. BodySize - 1
Cells   == (Chunks \X Offsets) \cup {Zero}

\* A file is its sequence of bytes, indexed from 0 as the code does.
Files   == UNION {[0 .. n - 1 -> Cells] : n \in 0 .. BodySize}
Bodies  == [Offsets -> Cells]
Places  ==
  {p \in [container : Names, offset : 0 .. BodySize, length : 1 .. BodySize] :
     p.offset + p.length <= BodySize}
Placed  == [chunk : Chunks, place : Places]
Marks   == [name : Names, used : 0 .. BodySize]

ASSUME NoValuesAssumption ==
  /\ NoEntry \notin Places \cup Placed
  /\ NoFile \notin Files
  /\ NoConfig \notin Marks
  /\ NoRead \notin [chunk : Chunks, data : Files]

VARIABLES
  db,         \* fp2ChunkDB
  files,      \* the container files
  config,     \* .StorageConfig
  pc,         \* where the process is; "down" when none runs
  name,       \* lastContainerFileName_
  used,       \* currentContainer_.used_
  body,       \* currentContainer_.body_
  pending,    \* the chunk in saveChunk and the place writeContainer gave it
  cacheName,  \* currentReadContainerFileName_, 0 when empty
  cache,      \* currentReadContainer_.body_
  got,        \* the last chunk restoreChunk returned
  tainted,    \* history: some fault has struck
  sessions    \* bound: runs started

memory == <<name, used, body, pending, cacheName, cache, got>>
disk   == <<db, files, config>>
vars   == <<disk, memory, pc, tainted, sessions>>

Blank == [i \in Offsets |-> Zero]
Empty == [i \in 0 .. -1 |-> Zero]

\* memcpy of chunk c to offset o of a body
Put(b, o, c) ==
  [i \in Offsets |-> IF i \in o .. o + Size[c] - 1 THEN <<c, i - o>> ELSE b[i]]

\* Faulty variant: saveTOFile loses the last byte.
PrefixShort(b, n) == [i \in 0 .. n - 2 |-> b[i]]

\* the n bytes saveTOFile writes
Prefix(b, n) == [i \in 0 .. n - 1 |-> b[i]]

\* ifstream::read of at most n bytes of file f into body b
ReadInto(b, f, n) ==
  [i \in Offsets |-> IF f # NoFile /\ i < n /\ i \in DOMAIN f THEN f[i] ELSE b[i]]

\* Faulty variants: the constructor forgets how much was used; it forgets the
\* name and starts over at the first container.
ResumeUnused ==
  IF config = NoConfig THEN [name |-> 1, used |-> 0] ELSE [config EXCEPT !.used = 0]

ResumeFirst == [name |-> 1, used |-> 0]

\* where a new session resumes: .StorageConfig, or a fresh first container
Resume == IF config = NoConfig THEN [name |-> 1, used |-> 0] ELSE config

\* memory of a process that does not run
Forget ==
  /\ name' = 1 /\ used' = 0 /\ body' = Blank
  /\ pending' = NoEntry
  /\ cacheName' = 0 /\ cache' = Blank
  /\ got' = NoRead

Init ==
  /\ db = [c \in Chunks |-> NoEntry]
  /\ files = [n \in Names |-> NoFile]
  /\ config = NoConfig
  /\ pc = "down"
  /\ name = 1 /\ used = 0 /\ body = Blank
  /\ pending = NoEntry
  /\ cacheName = 0 /\ cache = Blank
  /\ got = NoRead
  /\ tainted = FALSE
  /\ sessions = 0

-----------------------------------------------------------------------------
(* A session: the constructor, then an upload (-s) or a restore (-r).      *)

\* StorageCore::StorageCore
Start(mode) ==
  /\ pc = "down"
  /\ sessions < MaxSessions
  /\ pc' = mode
  /\ name' = Resume.name
  /\ used' = Resume.used
  /\ body' = ReadInto(Blank, files[Resume.name], Resume.used)
  /\ sessions' = sessions + 1
  /\ UNCHANGED <<disk, pending, cacheName, cache, got, tainted>>

Pending(c, n, o) ==
  [chunk |-> c, place |-> [container |-> n, offset |-> o, length |-> Size[c]]]

Fits(c) == Size[c] + used < MaxContainerSize

\* writeContainer, the chunk fits.  The caller has found no entry for c.
AppendChunk(c) ==
  /\ pc = "store"
  /\ db[c] = NoEntry
  /\ Fits(c)
  /\ body' = Put(body, used, c)
  /\ pending' = Pending(c, name, used)
  /\ pc' = "insert"
  /\ UNCHANGED <<disk, name, used, cacheName, cache, got, tainted, sessions>>

\* writeContainer, it does not: saveTOFile opens, hence truncates, the file
RolloverOpen(c) ==
  /\ pc = "store"
  /\ db[c] = NoEntry
  /\ ~Fits(c)
  /\ name < LastContainer
  /\ files' = [files EXCEPT ![name] = Empty]
  /\ pending' = Pending(c, name + 1, 0)
  /\ pc' = "rollover"
  /\ UNCHANGED <<db, config, name, used, body, cacheName, cache, got, tainted, sessions>>

\* Faulty variant: used_ is not reset for the next container.
OpenNextKeepUsed(c) ==
  /\ name' = name + 1
  /\ body' = Put(body, 0, c)
  /\ pc' = "insert"
  /\ UNCHANGED used

\* next_permutation, used_ = 0, memcpy to the start of the body, whose other
\* bytes keep what the last container had there
OpenNext(c) ==
  /\ name' = name + 1
  /\ used' = 0
  /\ body' = Put(body, 0, c)
  /\ pc' = "insert"

\* Faulty variant: the full container is left empty in its file.
RolloverWriteNothing ==
  /\ pc = "rollover"
  /\ OpenNext(pending.chunk)
  /\ UNCHANGED <<disk, pending, cacheName, cache, got, tainted, sessions>>

RolloverWrite ==
  /\ pc = "rollover"
  /\ files' = [files EXCEPT ![name] = Prefix(body, used)]
  /\ OpenNext(pending.chunk)
  /\ UNCHANGED <<db, config, pending, cacheName, cache, got, tainted, sessions>>

\* the open failed: writeContainer ignores what saveTOFile returns
RolloverFails(c) ==
  /\ "save" \in Faults
  /\ pc = "store"
  /\ db[c] = NoEntry
  /\ ~Fits(c)
  /\ name < LastContainer
  /\ pending' = Pending(c, name + 1, 0)
  /\ OpenNext(c)
  /\ tainted' = TRUE
  /\ UNCHANGED <<disk, cacheName, cache, got, sessions>>

\* Faulty variant: used_ is not advanced past the chunk.
InsertKeyNoAdvance ==
  /\ pc = "insert"
  /\ db' = [db EXCEPT ![pending.chunk] = pending.place]
  /\ pending' = NoEntry
  /\ pc' = "store"
  /\ UNCHANGED <<files, config, name, used, body, cacheName, cache, got, tainted, sessions>>

\* saveChunk after writeContainer
InsertKey ==
  /\ pc = "insert"
  /\ db' = [db EXCEPT ![pending.chunk] = pending.place]
  /\ used' = used + pending.place.length
  /\ pending' = NoEntry
  /\ pc' = "store"
  /\ UNCHANGED <<files, config, name, body, cacheName, cache, got, tainted, sessions>>

\* saveChunk returns false, and varSizeChunking with it
InsertFails ==
  /\ "insert" \in Faults
  /\ pc = "insert"
  /\ pending' = NoEntry
  /\ pc' = "failed"
  /\ UNCHANGED <<disk, name, used, body, cacheName, cache, got, tainted, sessions>>

-----------------------------------------------------------------------------
(* restoreChunk and readContainer, for the chunks a recipe lists.          *)

Slice(b, p) == [i \in 0 .. p.length - 1 |-> b[p.offset + i]]

Return(c, b) == got' = [chunk |-> c, data |-> Slice(b, db[c])]

Reading(c) ==
  /\ pc = "restore"
  /\ db[c] # NoEntry

\* Faulty variant: the cached container is taken without comparing its name.
ReadCachedAny(c) ==
  /\ Reading(c)
  /\ cacheName # 0
  /\ Return(c, cache)
  /\ UNCHANGED <<disk, pc, name, used, body, pending, cacheName, cache, tainted, sessions>>

ReadCached(c) ==
  /\ Reading(c)
  /\ db[c].container = cacheName
  /\ Return(c, cache)
  /\ UNCHANGED <<disk, pc, name, used, body, pending, cacheName, cache, tainted, sessions>>

ReadCurrent(c) ==
  /\ Reading(c)
  /\ db[c].container # cacheName
  /\ db[c].container = name
  /\ Return(c, body)
  /\ UNCHANGED <<disk, pc, name, used, body, pending, cacheName, cache, tainted, sessions>>

\* the file is read over the cached body, which is not cleared first
ReadFile(c) ==
  /\ Reading(c)
  /\ db[c].container \notin {cacheName, name}
  /\ files[db[c].container] # NoFile
  /\ cacheName' = db[c].container
  /\ cache' = ReadInto(cache, files[db[c].container], BodySize)
  /\ Return(c, cache')
  /\ UNCHANGED <<disk, pc, name, used, body, pending, tainted, sessions>>

\* readContainer fails: RecvDecode::run returns, Retriever::recvThread spins
\* on and main's join never ends
ReadMissing(c) ==
  /\ Reading(c)
  /\ db[c].container \notin {cacheName, name}
  /\ files[db[c].container] = NoFile
  /\ pc' = "hung"
  /\ UNCHANGED <<disk, memory, tainted, sessions>>

-----------------------------------------------------------------------------
(* The destructor: .StorageConfig first, then the container, in every      *)
(* session, restores included.                                             *)

WriteConfig ==
  /\ pc \in {"store", "restore", "failed"}
  /\ config' = [name |-> name, used |-> used]
  /\ pc' = "closing"
  /\ UNCHANGED <<db, files, memory, tainted, sessions>>

FlushOpen ==
  /\ pc = "closing"
  /\ files' = [files EXCEPT ![name] = Empty]
  /\ pc' = "flushing"
  /\ UNCHANGED <<db, config, memory, tainted, sessions>>

FlushWrite ==
  /\ pc = "flushing"
  /\ files' = [files EXCEPT ![name] = Prefix(body, used)]
  /\ pc' = "down"
  /\ Forget
  /\ UNCHANGED <<db, config, tainted, sessions>>

FlushFails ==
  /\ "save" \in Faults
  /\ pc = "closing"
  /\ pc' = "down"
  /\ Forget
  /\ tainted' = TRUE
  /\ UNCHANGED <<disk, sessions>>

-----------------------------------------------------------------------------
(* The process dies.  What was written stays; LevelDB recovers by itself.  *)

Saving == pc \in {"rollover", "flushing"}

Crash ==
  /\ "crash" \in Faults
  /\ pc # "down"
  /\ ~Saving
  /\ pc' = "down"
  /\ Forget
  /\ tainted' = TRUE
  /\ UNCHANGED <<disk, sessions>>

\* inside saveTOFile: some first part of the bytes reached the file
TornCrash(k) ==
  /\ "torn" \in Faults
  /\ Saving
  /\ k <= used
  /\ files' = [files EXCEPT ![name] = Prefix(body, k)]
  /\ pc' = "down"
  /\ Forget
  /\ tainted' = TRUE
  /\ UNCHANGED <<db, config, sessions>>

\* inside ~StorageCore: each line of .StorageConfig is written by its endl.  With
\* the name alone, the next constructor resumes that container as an empty one.
TornConfig ==
  /\ "config" \in Faults
  /\ pc \in {"store", "restore", "failed"}
  /\ config' = [name |-> name, used |-> 0]
  /\ pc' = "down"
  /\ Forget
  /\ tainted' = TRUE
  /\ UNCHANGED <<db, files, sessions>>

TornWrite == (\E k \in 0 .. BodySize : TornCrash(k)) \/ TornConfig

SaveChunk(c) == AppendChunk(c) \/ RolloverOpen(c) \/ RolloverFails(c)

ReadChunk(c) == ReadCached(c) \/ ReadCurrent(c) \/ ReadFile(c) \/ ReadMissing(c)

Next ==
  \/ \E mode \in {"store", "restore"} : Start(mode)
  \/ \E c \in Chunks : SaveChunk(c) \/ ReadChunk(c)
  \/ RolloverWrite \/ InsertKey \/ InsertFails
  \/ WriteConfig \/ FlushOpen \/ FlushWrite \/ FlushFails
  \/ Crash \/ TornWrite

Spec == Init /\ [][Next]_vars

-----------------------------------------------------------------------------
(* Properties                                                              *)

PCs == {"down", "store", "restore", "insert", "rollover", "failed", "hung",
        "closing", "flushing"}

\* Every variable has its type.
TypeOK ==
  /\ db \in [Chunks -> Places \cup {NoEntry}]
  /\ files \in [Names -> Files \cup {NoFile}]
  /\ config \in Marks \cup {NoConfig}
  /\ pc \in PCs
  /\ name \in Names
  /\ used \in 0 .. BodySize
  /\ body \in Bodies
  /\ pending \in Placed \cup {NoEntry}
  /\ cacheName \in Names \cup {0}
  /\ cache \in Bodies
  /\ got \in [chunk : Chunks, data : Files] \cup {NoRead}
  /\ tainted \in BOOLEAN
  /\ sessions \in 0 .. MaxSessions

Running == pc # "down"

Known == {c \in Chunks : db[c] # NoEntry}

\* function f holds chunk c at place p
HoldsAt(f, c, p) ==
  \A i \in 0 .. Size[c] - 1 : p.offset + i \in DOMAIN f /\ f[p.offset + i] = <<c, i>>

\* The container in memory; when no process runs, as the next one will load it.
Current == IF Running THEN [name |-> name, used |-> used] ELSE Resume

CurrentBody ==
  IF Running THEN body ELSE ReadInto(Blank, files[Resume.name], Resume.used)

\* A restore of c would return the bytes that were uploaded.
Restorable(c) ==
  /\ db[c] # NoEntry
  /\ IF db[c].container = Current.name
     THEN HoldsAt(CurrentBody, c, db[c])
     ELSE files[db[c].container] # NoFile /\ HoldsAt(files[db[c].container], c, db[c])

\* .StorageConfig says the place of c has been saved.
BelowMark(c) ==
  /\ db[c] # NoEntry
  /\ config # NoConfig
  /\ \/ db[c].container < config.name
     \/ db[c].container = config.name /\ db[c].offset + db[c].length <= config.used

\* The container file as it is once a saveTOFile under way has ended.
SettledFile(n) == IF Saving /\ n = name THEN Prefix(body, used) ELSE files[n]

OnDisk(c) ==
  /\ db[c] # NoEntry
  /\ SettledFile(db[c].container) # NoFile
  /\ HoldsAt(SettledFile(db[c].container), c, db[c])

\* c has been saved, the saved state says so, and it is still restorable.
Durable(c) == BelowMark(c) /\ OnDisk(c) /\ Restorable(c)

DurableChunks == {c \in Chunks : Durable(c)}

\* As long as no fault has struck, what fp2ChunkDB knows can be given back, in
\* every state between two writes: deduplicating against it loses nothing.
\* (writeContainer's placing, used_, rollover, and reload by the constructor.)
Intact == ~tainted => \A c \in Known : Restorable(c)

\* Between two sessions, and as long as no fault has struck, everything known
\* is on the disk below the mark, and .StorageConfig gives the size of the file
\* of the current container: the destructor saved the two of one state.
CleanShutdown ==
  pc = "down" /\ ~tainted =>
    /\ \A c \in Known : Durable(c)
    /\ config # NoConfig => DOMAIN files[config.name] = 0 .. config.used - 1

\* restoreChunk returns the bytes that were uploaded, through the cached
\* container, the current one or a file, of every chunk of a store that no fault
\* has struck, and of the durable ones of any store.
ReadsBack ==
  got # NoRead /\ (tainted => Durable(got.chunk)) =>
    HoldsAt(got.data, got.chunk, [offset |-> 0])

\* What one session saved and the next ones found durable is never lost, even
\* when processes die between writes, containers cannot be saved, the bytes of
\* lost sessions linger in the files and new chunks are placed over them: only a
\* process that dies inside saveTOFile or ~StorageCore's write of .StorageConfig
\* can take any of it.
DurableKept ==
  [][~TornWrite => \A c \in Chunks : Durable(c) => Durable(c)']_vars

\* A container below the one .StorageConfig names is never written again: its
\* chunks survive even a process that dies inside one of these two writes, and
\* the sessions that then resume a container as shorter than it was.
Sealed(c) == OnDisk(c) /\ config # NoConfig /\ db[c].container < config.name

SealedKept == [][\A c \in Chunks : Sealed(c) => Sealed(c)']_vars

-----------------------------------------------------------------------------
(* The inductive invariant behind the theorems of StorageCore_proofs.      *)

\* Between writeContainer and the Put of saveChunk, the pending place is the next
\* free one, and the chunk's bytes are already there.
PendingOK ==
  /\ pc = "insert" =>
       /\ pending # NoEntry
       /\ pending.place.offset = used
       /\ pending.place.container = name
       /\ HoldsAt(body, pending.chunk, pending.place)
  /\ pc = "rollover" =>
       /\ pending # NoEntry
       /\ pending.place.offset = 0
       /\ pending.place.container = name + 1
       /\ name < LastContainer
  /\ pc \in {"insert", "rollover"} =>
       /\ pending.place.length = Size[pending.chunk]
       /\ db[pending.chunk] = NoEntry

\* An entry of fp2ChunkDB has the length of its chunk.
LengthsOK == \A c \in Known : db[c].length = Size[c]

\* A session never goes back behind the mark it started from; once the destructor
\* has written .StorageConfig, it is the state of the memory.
MarkOK ==
  /\ Running /\ config # NoConfig =>
       \/ config.name < name
       \/ config.name = name /\ config.used <= used
  /\ pc \in {"closing", "flushing"} => config = [name |-> name, used |-> used]

\* Without faults no place is beyond the current end.
PlacesOK ==
  ~tainted => \A c \in Known :
    \/ db[c].container < Current.name
    \/ db[c].container = Current.name /\ db[c].offset + Size[c] <= Current.used

IInv == TypeOK /\ PendingOK /\ LengthsOK /\ MarkOK /\ PlacesOK /\ Intact

\* The cached container is never the current one, whose file changes, and has all
\* the bytes of its file; what was read was right if the chunk was readable.
CacheOK ==
  cacheName # 0 =>
    /\ cacheName # name
    /\ files[cacheName] # NoFile
    /\ \A i \in DOMAIN files[cacheName] : cache[i] = files[cacheName][i]

GotOK ==
  got # NoRead =>
    /\ got.chunk \in Known
    /\ Restorable(got.chunk) => HoldsAt(got.data, got.chunk, [offset |-> 0])

ReadInv ==
  /\ cacheName # 0 \/ got # NoRead => pc \in {"restore", "hung", "closing", "flushing"}
  /\ CacheOK
  /\ GotOK

-----------------------------------------------------------------------------
\* StorageCore implements the abstract chunk store.
Abstract == INSTANCE ChunkStore WITH
  known   <- Known,
  saved   <- {c \in Chunks : Restorable(c)},
  durable <- DurableChunks,
  sealed  <- {c \in Chunks : Sealed(c)},
  open    <- Running,
  Torn    <- Faults \cap {"torn", "config"} # {}

Implements == Abstract!Spec
=============================================================================
