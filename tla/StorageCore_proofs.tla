------------------------- MODULE StorageCore_proofs -------------------------
(***************************************************************************)
(* Theorems about the two halves of StorageCore, each of its own.          *)
(* ContainerStore: for every number of chunks, containers, sessions and    *)
(* every size.  Recipes: what a restore of a path yields is read from the  *)
(* first items of its recipe, and recipes only grow at their end:          *)
(* PublishedStays, whatever the faults; without faults the first items     *)
(* always are one whole upload (Begun): WholeAlways.                       *)
(***************************************************************************)
EXTENDS ContainerStore, Recipes, SequenceTheorems, TLAPS

-----------------------------------------------------------------------------
(* What the operations on bodies and files return.                         *)

LEMMA BlankType == Blank \in Bodies
  BY DEF Blank, Bodies, Cells

LEMMA PutType ==
  ASSUME NEW b \in Bodies, NEW o \in Nat, NEW c \in Chunks
  PROVE  Put(b, o, c) \in Bodies
  <1>1. Size[c] \in 1 .. BodySize /\ BodySize \in Nat
    BY SizesAssumption
  <1>2. ASSUME NEW i \in Offsets
        PROVE  (IF i \in o .. o + Size[c] - 1 THEN <<c, i - o>> ELSE b[i]) \in Cells
    BY <1>1, <1>2 DEF Bodies, Cells, Offsets
  <1> QED
    BY <1>2 DEF Put, Bodies

LEMMA PrefixType ==
  ASSUME NEW b \in Bodies, NEW n \in 0 .. BodySize
  PROVE  Prefix(b, n) \in Files
  <1>1. \A i \in 0 .. n - 1 : b[i] \in Cells
    BY SizesAssumption DEF Bodies, Offsets
  <1> QED
    BY <1>1 DEF Prefix, Files

LEMMA EmptyType == Empty \in Files
  <1>1. 0 \in 0 .. BodySize /\ 0 - 1 = -1
    BY SizesAssumption
  <1>2. Empty \in [0 .. 0 - 1 -> Cells]
    BY <1>1 DEF Empty, Cells
  <1> QED
    BY <1>1, <1>2 DEF Files

LEMMA ReadIntoType ==
  ASSUME NEW b \in Bodies, NEW f \in Files \cup {NoFile}, NEW n \in Nat
  PROVE  ReadInto(b, f, n) \in Bodies
  <1>1. ASSUME NEW i \in Offsets, f # NoFile, i \in DOMAIN f
        PROVE  f[i] \in Cells
    <2>1. PICK m \in 0 .. BodySize : f \in [0 .. m - 1 -> Cells]
      BY <1>1 DEF Files
    <2> QED
      BY <1>1, <2>1
  <1> QED
    BY <1>1 DEF ReadInto, Bodies

LEMMA SliceType ==
  ASSUME NEW b \in Bodies, NEW p \in Places
  PROVE  Slice(b, p) \in Files
  <1>1. p.offset \in Nat /\ p.length \in 1 .. BodySize /\ p.offset + p.length <= BodySize
    BY SizesAssumption DEF Places
  <1>2. \A i \in 0 .. p.length - 1 : b[p.offset + i] \in Cells
    BY <1>1, SizesAssumption DEF Bodies, Offsets
  <1>3. p.length \in 0 .. BodySize
    BY <1>1
  <1> QED
    BY <1>2, <1>3 DEF Slice, Files

LEMMA ResumeType ==
  ASSUME config \in Marks \cup {NoConfig}
  PROVE  Resume \in Marks
  BY SizesAssumption DEF Resume, Marks, Names

-----------------------------------------------------------------------------
(* Type correctness.  The place writeContainer chose must fit the body once*)
(* saveChunk advances used_: PendingOK says where the pending place is.    *)

LEMMA PendingType ==
  ASSUME NEW c \in Chunks, NEW n \in Names, NEW o \in Nat, o + Size[c] <= BodySize
  PROVE  /\ Pending(c, n, o) \in Placed
         /\ Pending(c, n, o).chunk = c
         /\ Pending(c, n, o).place.offset = o
  <1>1. Size[c] \in 1 .. BodySize /\ BodySize \in Nat
    BY SizesAssumption
  <1>2. o \in 0 .. BodySize
    BY <1>1
  <1> QED
    BY <1>1, <1>2 DEF Pending, Places, Placed

LEMMA TypeInit == Init => TypeOK
  <1> SUFFICES ASSUME Init PROVE TypeOK
    OBVIOUS
  <1>1. 1 \in Names /\ 0 \in 0 .. BodySize
    BY SizesAssumption DEF Names
  <1>2. /\ db \in [Chunks -> Places \cup {NoEntry}]
        /\ files \in [Names -> Files \cup {NoFile}]
    BY DEF Init
  <1>3. pc \in PCs /\ sessions \in 0 .. MaxSessions
    BY SizesAssumption DEF Init, PCs
  <1>4. tainted \in BOOLEAN
    BY DEF Init
  <1> QED
    BY <1>1, <1>2, <1>3, <1>4, BlankType DEF Init, TypeOK

LEMMA ForgetType ==
  ASSUME Forget
  PROVE  /\ name' \in Names /\ used' \in 0 .. BodySize /\ body' \in Bodies
         /\ pending' \in Placed \cup {NoEntry}
         /\ cacheName' \in Names \cup {0} /\ cache' \in Bodies
         /\ got' \in [chunk : Chunks, data : Files] \cup {NoRead}
  BY BlankType, SizesAssumption DEF Forget, Names

\* No action but a fault touches the history variable, and a fault sets it.
LEMMA TaintedNext ==
  ASSUME TypeOK, [Next]_vars
  PROVE  tainted' \in BOOLEAN /\ (tainted => tainted')
  <1>1. tainted' = tainted \/ tainted' = TRUE
    BY DEF Next, Start, SaveChunk, AppendChunk, RolloverOpen, RolloverFails, RolloverWrite,
       InsertKey, InsertFails, ReadChunk, ReadCached, ReadCurrent, ReadFile, ReadMissing,
       WriteConfig, FlushOpen, FlushWrite, FlushFails, Crash, TornWrite, TornCrash, TornConfig,
       vars
  <1> QED
    BY <1>1 DEF TypeOK

LEMMA TypeNext == TypeOK /\ PendingOK /\ [Next]_vars => TypeOK'
  <1> SUFFICES ASSUME TypeOK, PendingOK, [Next]_vars PROVE TypeOK'
    OBVIOUS
  <1>0. TypeOK /\ tainted' \in BOOLEAN
    BY TaintedNext
  <1>1. ASSUME NEW mode \in {"store", "restore"}, Start(mode) PROVE TypeOK'
    <2>1. Resume \in Marks
      BY <1>0, ResumeType DEF TypeOK
    <2>2. name' \in Names /\ used' \in 0 .. BodySize /\ used' \in Nat
      BY <1>1, <2>1, SizesAssumption DEF Start, Marks
    <2>3. files[Resume.name] \in Files \cup {NoFile}
      BY <1>0, <2>1 DEF TypeOK, Marks
    <2>4. body' \in Bodies
      BY <1>1, <2>2, <2>3, BlankType, ReadIntoType DEF Start
    <2>5. sessions' \in 0 .. MaxSessions
      BY <1>0, <1>1, SizesAssumption DEF Start, TypeOK
    <2> QED
      BY <1>0, <1>1, <2>2, <2>4, <2>5 DEF Start, TypeOK, PCs, disk
  <1>2. ASSUME NEW c \in Chunks, AppendChunk(c) PROVE TypeOK'
    <2>1. used \in Nat /\ used + Size[c] <= BodySize
      BY <1>0, <1>2, SizesAssumption DEF AppendChunk, Fits, TypeOK
    <2>2. body' \in Bodies
      BY <1>0, <1>2, <2>1, PutType DEF AppendChunk, TypeOK
    <2>3. pending' \in Placed /\ pending'.place.offset = used
      BY <1>0, <1>2, <2>1, PendingType DEF AppendChunk, TypeOK
    <2> QED
      BY <1>0, <1>2, <2>2, <2>3, NoValuesAssumption
         DEF AppendChunk, TypeOK, PCs, disk
  <1>3. ASSUME NEW c \in Chunks, RolloverOpen(c) PROVE TypeOK'
    <2>1. name + 1 \in Names /\ 0 + Size[c] <= BodySize
      BY <1>0, <1>3, SizesAssumption DEF RolloverOpen, TypeOK, Names
    <2>2. pending' \in Placed /\ pending'.place.offset = 0
      BY <1>3, <2>1, PendingType DEF RolloverOpen
    <2>3. files' \in [Names -> Files \cup {NoFile}]
      BY <1>0, <1>3, EmptyType DEF RolloverOpen, TypeOK
    <2> QED
      BY <1>0, <1>3, <2>2, <2>3, NoValuesAssumption
         DEF RolloverOpen, TypeOK, PCs
  <1>4. ASSUME NEW c \in Chunks, RolloverFails(c) PROVE TypeOK'
    <2>1. name + 1 \in Names /\ 0 + Size[c] <= BodySize
      BY <1>0, <1>4, SizesAssumption DEF RolloverFails, TypeOK, Names
    <2>2. pending' \in Placed /\ pending'.place.offset = 0
      BY <1>4, <2>1, PendingType DEF RolloverFails
    <2>3. body' \in Bodies /\ used' = 0 /\ name' \in Names /\ 0 \in 0 .. BodySize
      BY <1>0, <1>4, <2>1, PutType, SizesAssumption DEF RolloverFails, OpenNext, TypeOK
    <2> QED
      BY <1>0, <1>4, <2>2, <2>3, NoValuesAssumption
         DEF RolloverFails, OpenNext, TypeOK, PCs, disk
  <1>5. CASE RolloverWrite
    <2>1. /\ pending \in Placed /\ pending.chunk \in Chunks
          /\ pending.place.offset = 0
          /\ name < LastContainer
      BY <1>0, <1>5 DEF RolloverWrite, PendingOK, TypeOK, Placed
    <2>2. name' \in Names
      BY <1>0, <1>5, <2>1, SizesAssumption DEF RolloverWrite, OpenNext, TypeOK, Names
    <2>3. body' \in Bodies /\ used' = 0 /\ 0 \in 0 .. BodySize
      BY <1>0, <1>5, <2>1, PutType, SizesAssumption DEF RolloverWrite, OpenNext, TypeOK
    <2>4. files' \in [Names -> Files \cup {NoFile}]
      BY <1>0, <1>5, PrefixType DEF RolloverWrite, TypeOK
    <2> QED
      BY <1>0, <1>5, <2>1, <2>2, <2>3, <2>4
         DEF RolloverWrite, OpenNext, TypeOK, PCs
  <1>6. CASE InsertKey
    <2>1. /\ pending.chunk \in Chunks /\ pending.place \in Places
          /\ pending.place.offset = used
      BY <1>0, <1>6 DEF InsertKey, PendingOK, TypeOK, Placed
    <2>2. used' \in 0 .. BodySize
      BY <1>0, <1>6, <2>1, SizesAssumption DEF InsertKey, TypeOK, Places
    <2>3. db' \in [Chunks -> Places \cup {NoEntry}]
      BY <1>0, <1>6, <2>1 DEF InsertKey, TypeOK
    <2> QED
      BY <1>0, <1>6, <2>2, <2>3 DEF InsertKey, TypeOK, PCs
  <1>7. CASE InsertFails
    BY <1>0, <1>7 DEF InsertFails, TypeOK, PCs, disk
  <1>8. ASSUME NEW c \in Chunks, ReadChunk(c) PROVE TypeOK'
    <2>1. db[c] \in Places \/ ReadMissing(c)
      BY <1>0, <1>8 DEF ReadChunk, ReadCached, ReadCurrent, ReadFile, Reading, TypeOK
    <2>2. ASSUME NEW b \in Bodies, db[c] \in Places, Return(c, b)
          PROVE  got' \in [chunk : Chunks, data : Files] \cup {NoRead}
      BY <2>2, SliceType DEF Return
    <2>3. CASE ReadCached(c)
      BY <1>0, <2>1, <2>2, <2>3
         DEF ReadCached, Reading, TypeOK, PCs, disk, ReadMissing
    <2>4. CASE ReadCurrent(c)
      BY <1>0, <2>1, <2>2, <2>4
         DEF ReadCurrent, Reading, TypeOK, PCs, disk, ReadMissing
    <2>5. CASE ReadFile(c)
      <3>1. db[c] \in Places /\ db[c].container \in Names
        BY <1>0, <2>5 DEF ReadFile, Reading, TypeOK, Places
      <3>2. cache' \in Bodies /\ cacheName' \in Names
        BY <1>0, <2>5, <3>1, ReadIntoType, SizesAssumption DEF ReadFile, TypeOK
      <3>3. got' \in [chunk : Chunks, data : Files] \cup {NoRead}
        BY <2>2, <2>5, <3>1, <3>2 DEF ReadFile
      <3> QED
        BY <1>0, <2>5, <3>2, <3>3
           DEF ReadFile, Reading, TypeOK, PCs, disk
    <2>6. CASE ReadMissing(c)
      BY <1>0, <2>6 DEF ReadMissing, TypeOK, PCs, disk, memory
    <2> QED
      BY <1>8, <2>3, <2>4, <2>5, <2>6 DEF ReadChunk
  <1>9. CASE WriteConfig
    <2>1. config' \in Marks
      BY <1>0, <1>9 DEF WriteConfig, TypeOK, Marks
    <2> QED
      BY <1>0, <1>9, <2>1 DEF WriteConfig, TypeOK, PCs, memory
  <1>10. CASE FlushOpen
    <2>1. files' \in [Names -> Files \cup {NoFile}]
      BY <1>0, <1>10, EmptyType DEF FlushOpen, TypeOK
    <2> QED
      BY <1>0, <1>10, <2>1 DEF FlushOpen, TypeOK, PCs, memory
  <1>11. ASSUME NEW n \in 0 .. BodySize,
                Forget, pc' = "down", UNCHANGED <<db, config, sessions>>,
                files' = files \/ files' = [files EXCEPT ![name] = Prefix(body, n)]
         PROVE  TypeOK'
    <2>1. files' \in [Names -> Files \cup {NoFile}]
      BY <1>0, <1>11, PrefixType DEF TypeOK
    <2> QED
      BY <1>0, <1>11, <2>1, ForgetType DEF TypeOK, PCs
  <1>12. CASE FlushWrite
    BY <1>0, <1>11, <1>12 DEF FlushWrite, TypeOK
  <1>13. CASE FlushFails \/ Crash
    BY <1>0, <1>11, <1>13, SizesAssumption DEF FlushFails, Crash, TypeOK, disk
  <1>14. ASSUME NEW k \in 0 .. BodySize, TornCrash(k) PROVE TypeOK'
    BY <1>11, <1>14 DEF TornCrash
  <1>15. CASE TornConfig
    <2>1. config' \in Marks
      BY <1>0, <1>15, SizesAssumption DEF TornConfig, TypeOK, Marks
    <2> QED
      BY <1>0, <1>15, <2>1, ForgetType DEF TornConfig, TypeOK, PCs
  <1>16. CASE UNCHANGED vars
    BY <1>0, <1>16 DEF vars, disk, memory, TypeOK
  <1> QED
    BY <1>1, <1>2, <1>3, <1>4, <1>5, <1>6, <1>7, <1>8, <1>9, <1>10, <1>12, <1>13, <1>14,
       <1>15, <1>16 DEF Next, SaveChunk, TornWrite

-----------------------------------------------------------------------------
(* A store that no fault has struck.  The bytes of a chunk stay where they *)
(* are because every write goes to a place beyond all the known ones.      *)

\* What is written beyond the end of a chunk does not touch it.
LEMMA PutKeeps ==
  ASSUME NEW b \in Bodies, NEW o \in Nat, NEW d \in Chunks,
         NEW c \in Chunks, NEW p \in Places, p.offset + Size[c] <= o, HoldsAt(b, c, p)
  PROVE  HoldsAt(Put(b, o, d), c, p)
  BY SizesAssumption DEF HoldsAt, Put, Places, Offsets, Bodies

\* memcpy puts the chunk where it is told to.
LEMMA PutHolds ==
  ASSUME NEW b \in Bodies, NEW o \in Nat, NEW c \in Chunks, NEW p,
         p.offset = o, o + Size[c] <= BodySize
  PROVE  HoldsAt(Put(b, o, c), c, p)
  <1>1. Size[c] \in 1 .. BodySize /\ BodySize \in Nat
    BY SizesAssumption
  <1>2. ASSUME NEW i \in 0 .. Size[c] - 1
        PROVE  o + i \in Offsets /\ o + i \in o .. o + Size[c] - 1 /\ (o + i) - o = i
    BY <1>1 DEF Offsets
  <1> QED
    BY <1>2 DEF HoldsAt, Put

\* Saving the used part of a body keeps the chunks in that part.
LEMMA PrefixHolds ==
  ASSUME NEW b \in Bodies, NEW n \in 0 .. BodySize,
         NEW c \in Chunks, NEW p \in Places, p.offset + Size[c] <= n, HoldsAt(b, c, p)
  PROVE  HoldsAt(Prefix(b, n), c, p)
  BY SizesAssumption DEF HoldsAt, Prefix, Places

\* The constructor reads back the chunks below the mark.
LEMMA ReadIntoHolds ==
  ASSUME NEW b \in Bodies, NEW f \in Files, f # NoFile, NEW n \in 0 .. BodySize,
         NEW c \in Chunks, NEW p \in Places, p.offset + Size[c] <= n, HoldsAt(f, c, p)
  PROVE  HoldsAt(ReadInto(b, f, n), c, p)
  BY SizesAssumption DEF HoldsAt, ReadInto, Places, Offsets

LEMMA PendingNext ==
  ASSUME TypeOK, PendingOK, [Next]_vars
  PROVE  PendingOK'
  <1>0. /\ BodySize \in Nat /\ MaxContainerSize <= BodySize /\ MaxContainerSize \in Nat
        /\ \A c \in Chunks : Size[c] \in 1 .. BodySize
        /\ used \in Nat /\ body \in Bodies
    BY SizesAssumption DEF TypeOK
  <1>1. ASSUME NEW c \in Chunks, AppendChunk(c) PROVE PendingOK'
    <2>1. used + Size[c] <= BodySize
      BY <1>0, <1>1 DEF AppendChunk, Fits
    <2>2. HoldsAt(body', c, Pending(c, name, used).place)
      BY <1>0, <1>1, <2>1, PutHolds DEF AppendChunk, Pending
    <2>3. Pending(c, name, used) # NoEntry
      BY <1>0, <2>1, PendingType, NoValuesAssumption DEF TypeOK
    <2> QED
      BY <1>1, <2>2, <2>3 DEF AppendChunk, PendingOK, Pending, disk
  <1>2. ASSUME NEW c \in Chunks, RolloverOpen(c) PROVE PendingOK'
    <2>1. name + 1 \in Names
      BY <1>2, SizesAssumption DEF RolloverOpen, TypeOK, Names
    <2>2. Pending(c, name + 1, 0) # NoEntry
      BY <1>0, <2>1, PendingType, NoValuesAssumption
    <2> QED
      BY <1>2, <2>2 DEF RolloverOpen, PendingOK, Pending
  <1>3. ASSUME NEW c \in Chunks, OpenNext(c), UNCHANGED db, db[c] = NoEntry,
               pending' # NoEntry, pending'.chunk = c, pending'.place.offset = 0,
               pending'.place.container = name + 1, pending'.place.length = Size[c]
        PROVE  PendingOK'
    <2>1. HoldsAt(body', c, pending'.place)
      BY <1>0, <1>3, PutHolds DEF OpenNext
    <2> QED
      BY <1>3, <2>1 DEF OpenNext, PendingOK
  <1>4. CASE RolloverWrite
    <2>1. pending.chunk \in Chunks
      BY <1>4 DEF RolloverWrite, PendingOK, TypeOK, Placed
    <2> QED
      BY <1>3, <1>4, <2>1 DEF RolloverWrite, PendingOK
  <1>5. ASSUME NEW c \in Chunks, RolloverFails(c) PROVE PendingOK'
    <2>1. name + 1 \in Names
      BY <1>5, SizesAssumption DEF RolloverFails, TypeOK, Names
    <2>2. Pending(c, name + 1, 0) # NoEntry
      BY <1>0, <2>1, PendingType, NoValuesAssumption
    <2> QED
      BY <1>3, <1>5, <2>2 DEF RolloverFails, Pending, disk
  <1>6. CASE pc' \notin {"insert", "rollover"}
    BY <1>6 DEF PendingOK
  <1>7. CASE UNCHANGED vars
    BY <1>7 DEF vars, disk, memory, PendingOK, HoldsAt
  <1>8. ASSUME NEW c \in Chunks, ReadChunk(c) PROVE pc' \notin {"insert", "rollover"}
    BY <1>8 DEF ReadChunk, ReadCached, ReadCurrent, ReadFile, ReadMissing, Reading
  <1>9. CASE \/ \E mode \in {"store", "restore"} : Start(mode)
             \/ InsertKey \/ InsertFails \/ WriteConfig \/ FlushOpen \/ FlushWrite
             \/ FlushFails \/ Crash \/ TornWrite
    BY <1>6, <1>9 DEF Start, InsertKey, InsertFails, WriteConfig, FlushOpen, FlushWrite,
       FlushFails, Crash, TornWrite, TornCrash, TornConfig
  <1> QED
    BY <1>1, <1>2, <1>4, <1>5, <1>6, <1>7, <1>8, <1>9 DEF Next, SaveChunk

\* Only saveChunk writes to fp2ChunkDB.
LEMMA DbNext ==
  ASSUME [Next]_vars
  PROVE  db' = db \/ InsertKey
  BY DEF Next, Start, SaveChunk, AppendChunk, RolloverOpen, RolloverFails, RolloverWrite,
     InsertFails, ReadChunk, ReadCached, ReadCurrent, ReadFile, ReadMissing,
     WriteConfig, FlushOpen, FlushWrite, FlushFails, Crash, TornWrite, TornCrash, TornConfig,
     vars, disk

LEMMA LengthsNext ==
  ASSUME TypeOK, PendingOK, LengthsOK, [Next]_vars
  PROVE  LengthsOK'
  <1>1. CASE db' = db
    BY <1>1 DEF LengthsOK, Known
  <1>2. CASE InsertKey
    BY <1>2 DEF InsertKey, LengthsOK, Known, PendingOK, TypeOK
  <1> QED
    BY <1>1, <1>2, DbNext

LEMMA MarkNext ==
  ASSUME TypeOK, PendingOK, MarkOK, [Next]_vars
  PROVE  MarkOK'
  <1>0. name \in Nat /\ used \in Nat /\ (config # NoConfig => config.name \in Nat /\ config.used \in Nat)
    BY SizesAssumption DEF TypeOK, Marks, Names
  <1>1. ASSUME NEW mode \in {"store", "restore"}, Start(mode) PROVE MarkOK'
    BY <1>0, <1>1 DEF Start, MarkOK, Resume, Running, disk
  <1>2. CASE /\ UNCHANGED config
             /\ pc # "down" /\ pc' \notin {"closing", "flushing"}
             /\ \/ name' = name /\ used' >= used /\ used' \in Nat
                \/ name' = name + 1
    BY <1>0, <1>2 DEF MarkOK, Running
  <1>3. ASSUME NEW c \in Chunks, SaveChunk(c) PROVE MarkOK'
    BY <1>0, <1>2, <1>3
       DEF SaveChunk, AppendChunk, RolloverOpen, RolloverFails, OpenNext, disk
  <1>4. CASE RolloverWrite \/ InsertFails
    BY <1>0, <1>2, <1>4 DEF RolloverWrite, OpenNext, InsertFails, disk
  <1>5. CASE InsertKey
    <2>1. pending.place.length \in Nat
      BY <1>5, SizesAssumption DEF InsertKey, PendingOK, TypeOK, Placed, Places
    <2> QED
      BY <1>0, <1>2, <1>5, <2>1 DEF InsertKey
  <1>6. ASSUME NEW c \in Chunks, ReadChunk(c) PROVE MarkOK'
    BY <1>0, <1>2, <1>6
       DEF ReadChunk, ReadCached, ReadCurrent, ReadFile, ReadMissing, Reading, disk, memory
  <1>7. CASE WriteConfig \/ FlushOpen
    BY <1>0, <1>7 DEF WriteConfig, FlushOpen, MarkOK, Running, memory
  <1>8. CASE pc' = "down"
    BY <1>8 DEF MarkOK, Running
  <1>9. CASE UNCHANGED vars
    BY <1>9 DEF vars, disk, memory, MarkOK, Running
  <1>10. CASE FlushWrite \/ FlushFails \/ Crash \/ TornWrite
    BY <1>8, <1>10 DEF FlushWrite, FlushFails, Crash, TornWrite, TornCrash, TornConfig
  <1> QED
    BY <1>1, <1>3, <1>4, <1>5, <1>6, <1>7, <1>9, <1>10 DEF Next

\* Chunk c can be given back and lies before the current end.
Safe(c) ==
  /\ Restorable(c)
  /\ \/ db[c].container < Current.name
     \/ db[c].container = Current.name /\ db[c].offset + Size[c] <= Current.used

\* A step that leaves the entry of c, the container it lies in and its order
\* against the current end as they are leaves c safe.
LEMMA SafeKept ==
  ASSUME TypeOK, NEW c \in Chunks, Safe(c), Running, Running',
         db'[c] = db[c],
         \/ name' = name /\ used' >= used /\ used' \in Nat
         \/ name' = name + 1,
         files'[db[c].container] = files[db[c].container],
         db[c].container # name,
         db[c].container # name'
  PROVE  Safe(c)'
  <1>1. /\ db[c] # NoEntry /\ db[c] \in Places
        /\ db[c].container \in Nat /\ name \in Nat /\ used \in Nat
    BY DEF Safe, Restorable, TypeOK, Places, Names
  <1> QED
    BY <1>1 DEF Safe, Restorable, Current, Running, HoldsAt

LEMMA SafeNext ==
  ASSUME IInv, [Next]_vars, ~tainted'
  PROVE  \A c \in Known' : Safe(c)'
  <1>0. /\ TypeOK /\ PendingOK /\ LengthsOK /\ MarkOK /\ ~tainted
        /\ \A c \in Known : Safe(c)
    BY TaintedNext DEF IInv, PlacesOK, Intact, Safe
  <1>a. SUFFICES ASSUME NEW c \in Chunks, db'[c] # NoEntry
                 PROVE  Safe(c)'
    BY DEF Known
  <1>b. ASSUME db'[c] = db[c]
        PROVE  /\ db[c] # NoEntry /\ Safe(c)
               /\ db[c] \in Places /\ db[c].container \in Names
               /\ db[c].offset + Size[c] <= BodySize
    BY <1>0, <1>a, <1>b DEF Known, TypeOK, Places, LengthsOK
  <1>c. /\ name \in Nat /\ used \in 0 .. BodySize /\ body \in Bodies /\ BodySize \in Nat
        /\ Names \subseteq Nat /\ NoFile \notin Files
    BY <1>0, SizesAssumption, NoValuesAssumption DEF TypeOK, Names
  <1>1. CASE UNCHANGED <<disk, pc, name, used, body>>
    BY <1>1, <1>b DEF disk, Safe, Restorable, Current, CurrentBody, Running, Resume, ReadInto,
       HoldsAt
  <1>2. ASSUME NEW mode \in {"store", "restore"}, Start(mode) PROVE Safe(c)'
    BY <1>2, <1>b DEF Start, disk, Safe, Restorable, Current, CurrentBody, Running, HoldsAt
  <1>3. ASSUME NEW d \in Chunks, AppendChunk(d) PROVE Safe(c)'
    <2>1. CASE db[c].container = name
      <3>1. HoldsAt(body', c, db[c])
        BY <1>3, <1>b, <1>c, <2>1, PutKeeps
           DEF AppendChunk, disk, Safe, Restorable, Current, CurrentBody, Running
      <3> QED
        BY <1>3, <1>b, <1>c, <2>1, <3>1
           DEF AppendChunk, disk, Safe, Restorable, Current, CurrentBody, Running, HoldsAt
    <2>2. CASE db[c].container # name
      BY <1>0, <1>3, <1>b, <1>c, <2>2, SafeKept DEF AppendChunk, disk, Running
    <2> QED
      BY <2>1, <2>2
  <1>4. ASSUME NEW d \in Chunks, RolloverOpen(d) PROVE Safe(c)'
    <2>1. CASE db[c].container = name
      BY <1>4, <1>b, <1>c, <2>1
         DEF RolloverOpen, Safe, Restorable, Current, CurrentBody, Running, HoldsAt
    <2>2. CASE db[c].container # name
      BY <1>0, <1>4, <1>b, <1>c, <2>2, SafeKept DEF RolloverOpen, Running, TypeOK
    <2> QED
      BY <2>1, <2>2
  <1>5. CASE RolloverWrite
    <2>1. CASE db[c].container = name
      <3>1. HoldsAt(Prefix(body, used), c, db[c]) /\ Prefix(body, used) \in Files
        BY <1>5, <1>b, <1>c, <2>1, PrefixHolds, PrefixType
           DEF RolloverWrite, Safe, Restorable, Current, CurrentBody, Running
      <3>2. files'[db[c].container] = Prefix(body, used)
        BY <1>0, <1>5, <2>1 DEF RolloverWrite, TypeOK
      <3> QED
        BY <1>5, <1>b, <1>c, <2>1, <3>1, <3>2
           DEF RolloverWrite, OpenNext, Safe, Restorable, Current, Running, HoldsAt
    <2>2. CASE db[c].container # name
      <3>1. db[c].container < name
        BY <1>5, <1>b, <1>c, <2>2 DEF RolloverWrite, Safe, Current, Running
      <3> QED
        BY <1>0, <1>5, <1>b, <1>c, <2>2, <3>1, SafeKept
           DEF RolloverWrite, OpenNext, Running, TypeOK
    <2> QED
      BY <2>1, <2>2
  <1>6. CASE InsertKey
    <2>1. /\ pending.chunk \in Chunks /\ pending.place \in Places
          /\ pending.place.length = Size[pending.chunk]
          /\ pending.place.offset = used /\ pending.place.container = name
          /\ HoldsAt(body, pending.chunk, pending.place)
      BY <1>0, <1>6 DEF InsertKey, PendingOK, TypeOK, Placed
    <2>2. /\ name' = name /\ files' = files /\ body' = body /\ Running /\ Running'
          /\ used' = used + Size[pending.chunk] /\ used' >= used /\ used' \in Nat
      BY <1>6, <1>c, <2>1, SizesAssumption DEF InsertKey, Running
    <2>3. CASE c = pending.chunk
      <3>1. db'[c] = pending.place
        BY <1>0, <1>6, <2>3 DEF InsertKey, TypeOK
      <3>2. Current'.name = name /\ Current'.used = used + Size[c] /\ CurrentBody' = body
        BY <2>2, <2>3 DEF Current, CurrentBody, Running
      <3> QED
        BY <1>c, <2>1, <2>3, <3>1, <3>2, NoValuesAssumption, SizesAssumption
           DEF Safe, Restorable, HoldsAt
    <2>4. CASE c # pending.chunk
      <3>1. db'[c] = db[c] /\ db[c] # NoEntry
        BY <1>0, <1>a, <1>6, <2>4 DEF InsertKey, TypeOK
      <3>2. CASE db[c].container = name
        BY <1>b, <1>c, <2>2, <3>1, <3>2, SizesAssumption
           DEF Safe, Restorable, Current, CurrentBody, Running, HoldsAt, Places
      <3>3. CASE db[c].container # name
        BY <1>0, <1>b, <1>c, <2>2, <3>1, <3>3, SafeKept
      <3> QED
        BY <3>2, <3>3
    <2> QED
      BY <2>3, <2>4
  <1>7. CASE InsertFails
    BY <1>7, <1>b DEF InsertFails, disk, Safe, Restorable, Current, CurrentBody, Running, HoldsAt
  <1>8. ASSUME NEW d \in Chunks, ReadChunk(d) PROVE Safe(c)'
    <2>1. UNCHANGED <<disk, name, used, body>> /\ Running /\ Running'
      BY <1>8 DEF ReadChunk, ReadCached, ReadCurrent, ReadFile, ReadMissing, Reading, Running,
         memory
    <2> QED
      BY <2>1, <1>b DEF disk, Safe, Restorable, Current, CurrentBody, HoldsAt
  <1>9. CASE WriteConfig
    BY <1>9, <1>b DEF WriteConfig, memory, Safe, Restorable, Current, CurrentBody, Running, HoldsAt
  <1>10. CASE FlushOpen
    <2>1. CASE db[c].container = name
      BY <1>10, <1>b, <1>c, <2>1
         DEF FlushOpen, memory, Safe, Restorable, Current, CurrentBody, Running, HoldsAt
    <2>2. CASE db[c].container # name
      BY <1>0, <1>10, <1>b, <1>c, <2>2, SafeKept DEF FlushOpen, memory, Running, TypeOK
    <2> QED
      BY <2>1, <2>2
  <1>11. CASE FlushWrite
    <2>1. /\ config' = [name |-> name, used |-> used] /\ config' # NoConfig /\ pc' = "down"
          /\ db' = db /\ Running
          /\ files'[name] = Prefix(body, used)
      BY <1>0, <1>11, NoValuesAssumption DEF FlushWrite, MarkOK, TypeOK, Marks, Running
    <2>2. Current' = [name |-> name, used |-> used] /\ Resume' = Current'
      BY <2>1 DEF Current, Running, Resume
    <2>3. CASE db[c].container = name
      <3>1. HoldsAt(Prefix(body, used), c, db[c]) /\ Prefix(body, used) \in Files
        BY <1>a, <1>b, <1>c, <2>1, <2>3, PrefixHolds, PrefixType
           DEF Safe, Restorable, Current, CurrentBody, Running
      <3>2. HoldsAt(ReadInto(Blank, Prefix(body, used), used), c, db[c])
        BY <1>a, <1>b, <1>c, <2>1, <2>3, <3>1, BlankType, ReadIntoHolds
           DEF Safe, Restorable, Current, Running
      <3>3. CurrentBody' = ReadInto(Blank, Prefix(body, used), used)
        BY <2>1, <2>2 DEF CurrentBody, Running, ReadInto, Blank
      <3> QED
        BY <1>a, <1>b, <2>1, <2>2, <2>3, <3>2, <3>3
           DEF Safe, Restorable, Current, Running, HoldsAt
    <2>4. CASE db[c].container # name
      <3>1. files'[db[c].container] = files[db[c].container]
        BY <1>0, <1>a, <1>11, <1>b, <2>1, <2>4 DEF FlushWrite, TypeOK
      <3> QED
        BY <1>a, <1>b, <1>c, <2>1, <2>2, <2>4, <3>1
           DEF Safe, Restorable, Current, Running, HoldsAt
    <2> QED
      BY <2>3, <2>4
  <1>12. CASE UNCHANGED vars
    BY <1>1, <1>12, <1>a DEF vars, memory, disk
  <1>13. ~FlushFails /\ ~Crash /\ ~TornWrite /\ \A d \in Chunks : ~RolloverFails(d)
    BY DEF FlushFails, Crash, TornWrite, TornCrash, TornConfig, RolloverFails
  <1> QED
    BY <1>2, <1>3, <1>4, <1>5, <1>6, <1>7, <1>8, <1>9, <1>10, <1>11, <1>12, <1>13
       DEF Next, SaveChunk

LEMMA IInvInit == Init => IInv
  <1> SUFFICES ASSUME Init PROVE IInv
    OBVIOUS
  <1>1. TypeOK
    BY TypeInit
  <1>2. Known = {}
    BY DEF Init, Known
  <1>3. PendingOK /\ MarkOK
    BY DEF Init, PendingOK, MarkOK, Running
  <1> QED
    BY <1>1, <1>2, <1>3 DEF IInv, LengthsOK, PlacesOK, Intact

LEMMA IInvNext == IInv /\ [Next]_vars => IInv'
  <1> SUFFICES ASSUME IInv, [Next]_vars PROVE IInv'
    OBVIOUS
  <1>1. TypeOK /\ PendingOK /\ LengthsOK /\ MarkOK
    BY DEF IInv
  <1>2. TypeOK' /\ PendingOK' /\ LengthsOK' /\ MarkOK'
    BY <1>1, TypeNext, PendingNext, LengthsNext, MarkNext
  <1>3. PlacesOK' /\ Intact'
    BY SafeNext DEF PlacesOK, Intact, Safe
  <1> QED
    BY <1>2, <1>3 DEF IInv

LEMMA Invariance == Spec => []IInv
  BY IInvInit, IInvNext, PTL DEF Spec

\* Whatever the faults, every variable keeps its type: in particular no chunk is
\* placed past the end of Container::body_ and used_ never exceeds its size.
THEOREM TypeCorrect == Spec => []TypeOK
  <1>1. IInv => TypeOK
    BY DEF IInv
  <1> QED
    BY <1>1, Invariance, PTL

\* As long as no fault has struck, every chunk fp2ChunkDB knows can be given back,
\* in every state between two writes of the program, across any number of sessions.
THEOREM IntactAlways == Spec => []Intact
  <1>1. IInv => Intact
    BY DEF IInv
  <1> QED
    BY <1>1, Invariance, PTL

-----------------------------------------------------------------------------
(* Durability: what a session saved survives the faults of all later ones. *)

\* What durability gives: the entry, its place in the file and in memory.
LEMMA DurableFacts ==
  ASSUME IInv, NEW c \in Chunks, Durable(c)
  PROVE  /\ db[c] # NoEntry /\ db[c] \in Places /\ db[c].length = Size[c]
         /\ db[c].container \in Names /\ db[c].container \in Nat
         /\ config # NoConfig /\ config \in Marks
         /\ \/ db[c].container < config.name
            \/ db[c].container = config.name /\ db[c].offset + Size[c] <= config.used
         /\ Running => \/ db[c].container < name
                       \/ db[c].container = name /\ db[c].offset + Size[c] <= used
         /\ name \in Nat /\ used \in 0 .. BodySize /\ body \in Bodies
         /\ Size[c] \in Nat /\ BodySize \in Nat
  <1>1. TypeOK /\ LengthsOK /\ MarkOK
    BY DEF IInv
  <1>2. /\ db[c] # NoEntry /\ db[c] \in Places /\ db[c].length = Size[c]
        /\ db[c].container \in Names
        /\ config # NoConfig /\ config \in Marks
    BY <1>1 DEF Durable, BelowMark, TypeOK, LengthsOK, Known, Places
  <1>3. /\ db[c].container \in Nat /\ config.name \in Nat /\ config.used \in Nat
        /\ name \in Nat /\ used \in 0 .. BodySize /\ body \in Bodies
        /\ Size[c] \in Nat /\ BodySize \in Nat /\ used \in Nat /\ db[c].offset \in Nat
    BY <1>1, <1>2, SizesAssumption DEF TypeOK, Marks, Names, Places
  <1>4. \/ db[c].container < config.name
        \/ db[c].container = config.name /\ db[c].offset + Size[c] <= config.used
    BY <1>2 DEF Durable, BelowMark
  <1>5. Running => \/ db[c].container < name
                   \/ db[c].container = name /\ db[c].offset + Size[c] <= used
    BY <1>1, <1>2, <1>3, <1>4 DEF MarkOK
  <1> QED
    BY <1>2, <1>3, <1>4, <1>5

\* A step to "down" that leaves the disk alone, outside of saveTOFile.
LEMMA DurableDown ==
  ASSUME IInv, NEW c \in Chunks, Durable(c), UNCHANGED disk, pc' = "down", ~Saving
  PROVE  Durable(c)'
  <1>1. /\ ~Saving' /\ ~Running' /\ Resume' = config /\ Current' = config
        /\ db' = db /\ files' = files /\ config' = config
    BY DurableFacts DEF Saving, Running, Resume, Current, disk
  <1>2. /\ files[db[c].container] \in Files /\ files[db[c].container] # NoFile
        /\ HoldsAt(files[db[c].container], c, db[c])
    BY DurableFacts DEF Durable, OnDisk, SettledFile, IInv, TypeOK
  <1>3. BelowMark(c)' /\ OnDisk(c)'
    BY <1>1, <1>2, DurableFacts DEF Durable, BelowMark, OnDisk, SettledFile, HoldsAt
  <1>4. CASE db[c].container = config.name
    <2>1. config.used \in 0 .. BodySize /\ db[c].offset + Size[c] <= config.used
      BY <1>4, DurableFacts DEF Marks, Names
    <2>2. HoldsAt(ReadInto(Blank, files[config.name], config.used), c, db[c])
      BY <1>2, <1>4, <2>1, BlankType, ReadIntoHolds, DurableFacts
    <2>3. CurrentBody' = ReadInto(Blank, files[config.name], config.used)
      BY <1>1 DEF CurrentBody, ReadInto, Blank
    <2>4. Restorable(c)'
      BY <1>1, <1>4, <2>2, <2>3, DurableFacts DEF Restorable, HoldsAt
    <2> QED
      BY <1>3, <2>4 DEF Durable
  <1>5. CASE db[c].container # config.name
    <2>1. Restorable(c)'
      BY <1>1, <1>2, <1>5, DurableFacts DEF Restorable, HoldsAt
    <2> QED
      BY <1>3, <2>1 DEF Durable
  <1> QED
    BY <1>4, <1>5

\* The open of saveTOFile truncates the file, but the body still has everything.
LEMMA DurableOpen ==
  ASSUME IInv, NEW c \in Chunks, Durable(c), Running, ~Saving, Running', Saving',
         UNCHANGED <<db, config, name, used, body>>,
         files' = [files EXCEPT ![name] = Empty]
  PROVE  Durable(c)'
  <1>1. BelowMark(c)'
    BY DEF Durable, BelowMark
  <1>2. CASE db[c].container = name
    <2>1. HoldsAt(body, c, db[c])
      BY <1>2 DEF Durable, Restorable, Current, CurrentBody, Running
    <2>2. HoldsAt(Prefix(body, used), c, db[c]) /\ Prefix(body, used) \in Files
      BY <1>2, <2>1, PrefixHolds, PrefixType, DurableFacts
    <2>3. SettledFile(name)' = Prefix(body, used)
      BY DEF SettledFile, Prefix
    <2>4. OnDisk(c)'
      BY <1>2, <2>2, <2>3, DurableFacts, NoValuesAssumption DEF OnDisk, HoldsAt, SettledFile
    <2>5. Restorable(c)'
      BY <1>2, <2>1, DurableFacts DEF Restorable, Current, CurrentBody, Running, HoldsAt
    <2> QED
      BY <1>1, <2>4, <2>5 DEF Durable
  <1>3. CASE db[c].container # name
    <2>1. files'[db[c].container] = files[db[c].container]
      BY <1>3, DurableFacts DEF IInv, TypeOK
    <2>2. OnDisk(c)' /\ Restorable(c)'
      BY <1>3, <2>1, DurableFacts
         DEF Durable, OnDisk, SettledFile, Restorable, Current, Running, HoldsAt
    <2> QED
      BY <1>1, <2>2 DEF Durable
  <1> QED
    BY <1>2, <1>3

LEMMA DurableNext ==
  ASSUME IInv, [Next]_vars, ~TornWrite, NEW c \in Chunks, Durable(c)
  PROVE  Durable(c)'
  <1>0. TypeOK /\ PendingOK /\ MarkOK
    BY DEF IInv
  <1>1. db'[c] = db[c]
    <2>1. CASE InsertKey
      BY <1>0, <2>1, DurableFacts DEF InsertKey, PendingOK, TypeOK
    <2> QED
      BY <2>1, DbNext
  \* nothing but the entries of other chunks and the read cache changes
  <1>2. CASE /\ UNCHANGED <<files, config, name, body>> /\ Running' = Running
             /\ Saving' = Saving /\ (UNCHANGED used \/ ~Saving)
             /\ (UNCHANGED used \/ Running)
    BY <1>1, <1>2 DEF Durable, BelowMark, OnDisk, SettledFile, Restorable, Current, CurrentBody,
       Resume, HoldsAt, Prefix, ReadInto, Blank
  <1>3. ASSUME NEW mode \in {"store", "restore"}, Start(mode) PROVE Durable(c)'
    BY <1>3 DEF Start, disk, Durable, BelowMark, OnDisk, SettledFile, Saving, Restorable,
       Current, CurrentBody, Running, HoldsAt
  <1>4. ASSUME NEW d \in Chunks, AppendChunk(d) PROVE Durable(c)'
    <2>1. BelowMark(c)' /\ OnDisk(c)'
      BY <1>4 DEF AppendChunk, disk, Durable, BelowMark, OnDisk, SettledFile, Saving, HoldsAt
    <2>2. CASE db[c].container = name
      <3>1. HoldsAt(body', c, db[c])
        BY <1>4, <2>2, PutKeeps, DurableFacts
           DEF AppendChunk, Durable, Restorable, Current, CurrentBody, Running
      <3> QED
        BY <1>4, <2>1, <2>2, <3>1, DurableFacts
           DEF AppendChunk, disk, Durable, Restorable, Current, CurrentBody, Running, HoldsAt
    <2>3. CASE db[c].container # name
      BY <1>4, <2>1, <2>3
         DEF AppendChunk, disk, Durable, Restorable, Current, Running, HoldsAt
    <2> QED
      BY <2>2, <2>3
  <1>5. ASSUME NEW d \in Chunks, RolloverOpen(d) PROVE Durable(c)'
    BY <1>5, DurableOpen DEF RolloverOpen, Running, Saving
  <1>6. CASE RolloverWrite
    <2>1. BelowMark(c)'
      BY <1>6 DEF RolloverWrite, Durable, BelowMark
    <2>2. db[c].container <= name
      BY <1>6, DurableFacts DEF RolloverWrite, Running
    <2>3. files'[db[c].container] = SettledFile(db[c].container)
      BY <1>0, <1>6, DurableFacts DEF RolloverWrite, SettledFile, Saving, TypeOK
    <2>4. OnDisk(c)'
      BY <1>6, <2>3 DEF RolloverWrite, OpenNext, Durable, OnDisk, SettledFile, Saving, HoldsAt
    <2>5. db[c].container # name' /\ Running'
      BY <1>6, <2>2, DurableFacts DEF RolloverWrite, OpenNext, Running
    <2>6. Restorable(c)'
      BY <1>6, <2>3, <2>4, <2>5
         DEF RolloverWrite, OpenNext, OnDisk, SettledFile, Saving, Restorable, Current, HoldsAt
    <2> QED
      BY <2>1, <2>4, <2>6 DEF Durable
  <1>7. ASSUME NEW d \in Chunks, RolloverFails(d) PROVE Durable(c)'
    <2>1. BelowMark(c)' /\ OnDisk(c)'
      BY <1>7 DEF RolloverFails, OpenNext, disk, Durable, BelowMark, OnDisk, SettledFile, Saving,
         HoldsAt
    <2>2. db[c].container # name' /\ Running'
      BY <1>7, DurableFacts DEF RolloverFails, OpenNext, Running
    <2> QED
      BY <1>7, <2>1, <2>2
         DEF RolloverFails, OpenNext, disk, Durable, OnDisk, SettledFile, Saving, Restorable,
             Current, HoldsAt
  <1>8. CASE InsertKey
    BY <1>2, <1>8 DEF InsertKey, Running, Saving
  <1>9. CASE InsertFails
    BY <1>2, <1>9 DEF InsertFails, disk, Running, Saving
  <1>10. ASSUME NEW d \in Chunks, ReadChunk(d) PROVE Durable(c)'
    BY <1>2, <1>10 DEF ReadChunk, ReadCached, ReadCurrent, ReadFile, ReadMissing, Reading,
       disk, memory, Running, Saving
  <1>11. CASE WriteConfig
    <2>1. BelowMark(c)'
      BY <1>0, <1>1, <1>11, DurableFacts, NoValuesAssumption
         DEF WriteConfig, BelowMark, Running, TypeOK, Marks
    <2> QED
      BY <1>1, <1>11, <2>1
         DEF WriteConfig, memory, Durable, OnDisk, SettledFile, Saving, Restorable, Current,
             CurrentBody, Running, HoldsAt
  <1>12. CASE FlushOpen
    BY <1>12, DurableOpen DEF FlushOpen, memory, Running, Saving
  <1>13. CASE FlushWrite
    <2>1. /\ config = [name |-> name, used |-> used] /\ config' = config /\ db' = db
          /\ Running /\ ~Running' /\ Saving /\ ~Saving'
          /\ files'[name] = Prefix(body, used)
      BY <1>0, <1>13 DEF FlushWrite, MarkOK, Running, Saving, TypeOK
    <2>2. Current' = config /\ Resume' = config
      BY <2>1, DurableFacts DEF Current, Resume
    <2>3. files'[db[c].container] = SettledFile(db[c].container)
      BY <1>0, <1>13, DurableFacts DEF FlushWrite, SettledFile, Saving, TypeOK
    <2>4. BelowMark(c)' /\ OnDisk(c)'
      BY <1>1, <2>1, <2>3 DEF Durable, BelowMark, OnDisk, SettledFile, HoldsAt
    <2>5. CASE db[c].container = name
      <3>1. HoldsAt(body, c, db[c])
        BY <2>1, <2>5 DEF Durable, Restorable, Current, CurrentBody
      <3>2. HoldsAt(Prefix(body, used), c, db[c]) /\ Prefix(body, used) \in Files
        BY <2>1, <2>5, <3>1, PrefixHolds, PrefixType, DurableFacts
      <3>3. HoldsAt(ReadInto(Blank, Prefix(body, used), used), c, db[c])
        BY <2>1, <2>5, <3>2, BlankType, ReadIntoHolds, DurableFacts, NoValuesAssumption
      <3>4. CurrentBody' = ReadInto(Blank, Prefix(body, used), used)
        BY <2>1, <2>2 DEF CurrentBody, ReadInto, Blank
      <3>5. Restorable(c)'
        BY <1>1, <2>1, <2>2, <2>5, <3>3, <3>4, DurableFacts DEF Restorable, HoldsAt
      <3> QED
        BY <2>4, <3>5 DEF Durable
    <2>6. CASE db[c].container # name
      <3>1. Restorable(c)'
        BY <1>1, <2>1, <2>2, <2>4, <2>6, DurableFacts
           DEF OnDisk, SettledFile, Restorable, HoldsAt
      <3> QED
        BY <2>4, <3>1 DEF Durable
    <2> QED
      BY <2>5, <2>6
  <1>14. CASE FlushFails \/ Crash
    BY <1>14, DurableDown DEF FlushFails, Crash, Saving
  <1>15. CASE UNCHANGED vars
    BY <1>2, <1>15 DEF vars, disk, memory, Running, Saving
  <1> QED
    BY <1>3, <1>4, <1>5, <1>6, <1>7, <1>8, <1>9, <1>10, <1>11, <1>12, <1>13, <1>14, <1>15
       DEF Next, SaveChunk

\* A chunk that a session saved is never lost by a later one, whatever crashes,
\* failed saves and failed insertions strike: only a process that dies inside
\* saveTOFile or the write of .StorageConfig can take it.
THEOREM DurabilityHolds == Spec => DurableKept
  <1>1. IInv /\ [Next]_vars => [~TornWrite => \A c \in Chunks : Durable(c) => Durable(c)']_vars
    BY DurableNext
  <1> QED
    BY <1>1, Invariance, PTL DEF Spec, DurableKept

-----------------------------------------------------------------------------
(* The containers below the mark: their files are never written again.     *)

\* Only the file of the current container is ever written, by a running process.
LEMMA FilesNext ==
  ASSUME TypeOK, [Next]_vars, NEW n \in Names, Running => n # name
  PROVE  files'[n] = files[n]
  <1>1. CASE files' = files
    BY <1>1
  <1>2. ASSUME NEW v, files' = [files EXCEPT ![name] = v], Running
        PROVE  files'[n] = files[n]
    BY <1>2 DEF TypeOK
  <1>3. CASE \E c \in Chunks : RolloverOpen(c)
    BY <1>2, <1>3 DEF RolloverOpen, Running
  <1>4. CASE RolloverWrite \/ FlushOpen \/ FlushWrite \/ \E k \in 0 .. BodySize : TornCrash(k)
    BY <1>2, <1>4 DEF RolloverWrite, FlushOpen, FlushWrite, TornCrash, Saving, Running
  <1> QED
    BY <1>1, <1>3, <1>4 DEF Next, Start, SaveChunk, AppendChunk, RolloverFails, InsertKey,
       InsertFails, ReadChunk, ReadCached, ReadCurrent, ReadFile, ReadMissing, WriteConfig,
       FlushFails, Crash, TornWrite, TornConfig, vars, disk

\* The current container only moves forward.
LEMMA NameNext ==
  ASSUME TypeOK, PendingOK, [Next]_vars, Running
  PROVE  ~Running' \/ name' = name \/ name' = name + 1
  BY DEF Next, Start, SaveChunk, AppendChunk, RolloverOpen, RolloverFails, RolloverWrite,
     OpenNext, InsertKey, InsertFails, ReadChunk, ReadCached, ReadCurrent, ReadFile, ReadMissing,
     WriteConfig, FlushOpen, FlushWrite, FlushFails, Crash, TornWrite, TornCrash, TornConfig,
     vars, disk, memory, Running

\* The mark only moves to the current container.
LEMMA ConfigNext ==
  ASSUME TypeOK, [Next]_vars
  PROVE  config' = config \/ (Running /\ config'.name = name /\ config' # NoConfig)
  <1>1. CASE WriteConfig \/ TornConfig
    <2>1. config'.name = name /\ config' \in Marks /\ Running
      BY <1>1, SizesAssumption DEF WriteConfig, TornConfig, Running, TypeOK, Marks
    <2> QED
      BY <2>1, NoValuesAssumption
  <1> QED
    BY <1>1 DEF Next, Start, SaveChunk, AppendChunk, RolloverOpen, RolloverFails, RolloverWrite,
       InsertKey, InsertFails, ReadChunk, ReadCached, ReadCurrent, ReadFile, ReadMissing,
       FlushOpen, FlushWrite, FlushFails, Crash, TornWrite, TornCrash, vars, disk

\* A sealed chunk lies in a file that is not the current container's.
LEMMA SealedFacts ==
  ASSUME IInv, NEW c \in Chunks, Sealed(c)
  PROVE  /\ db[c] # NoEntry /\ db[c] \in Places /\ db[c].container \in Names
         /\ config # NoConfig /\ config \in Marks
         /\ db[c].container \in Nat /\ config.name \in Nat /\ name \in Nat
         /\ Running => db[c].container < name
         /\ SettledFile(db[c].container) = files[db[c].container]
  <1>1. TypeOK /\ MarkOK
    BY DEF IInv
  <1>2. /\ db[c] # NoEntry /\ db[c] \in Places /\ db[c].container \in Names
        /\ config # NoConfig /\ config \in Marks
    BY <1>1 DEF Sealed, OnDisk, TypeOK, Places
  <1>3. db[c].container \in Nat /\ config.name \in Nat /\ name \in Nat
    BY <1>1, <1>2 DEF TypeOK, Marks, Names
  <1>4. Running => db[c].container < name
    BY <1>1, <1>2, <1>3 DEF Sealed, MarkOK
  <1>5. Saving => db[c].container # name
    BY <1>3, <1>4 DEF Saving, Running
  <1> QED
    BY <1>2, <1>3, <1>4, <1>5 DEF SettledFile

LEMMA SealedNext ==
  ASSUME IInv, [Next]_vars, NEW c \in Chunks, Sealed(c)
  PROVE  Sealed(c)'
  <1>0. TypeOK /\ PendingOK
    BY DEF IInv
  <1>1. db'[c] = db[c]
    <2>1. CASE InsertKey
      BY <1>0, <2>1, SealedFacts DEF InsertKey, PendingOK, TypeOK
    <2> QED
      BY <2>1, DbNext
  <1>2. files'[db[c].container] = files[db[c].container]
    BY <1>0, FilesNext, SealedFacts
  <1>3. config' # NoConfig /\ db[c].container < config'.name
    BY <1>0, ConfigNext, SealedFacts DEF Sealed
  <1>4. Saving' => db[c].container # name'
    <2>1. CASE Running
      BY <1>0, <2>1, NameNext, SealedFacts DEF Saving, Running
    <2>2. CASE ~Running
      BY <2>2 DEF Next, Start, SaveChunk, AppendChunk, RolloverOpen, RolloverFails,
         RolloverWrite, InsertKey, InsertFails, ReadChunk, ReadCached, ReadCurrent, ReadFile,
         ReadMissing, Reading, WriteConfig, FlushOpen, FlushWrite, FlushFails, Crash, TornWrite,
         TornCrash, TornConfig, vars, Saving, Running
    <2> QED
      BY <2>1, <2>2
  <1>5. SettledFile(db[c].container)' = files[db[c].container]
    BY <1>1, <1>2, <1>4 DEF SettledFile
  <1> QED
    BY <1>1, <1>3, <1>5, SealedFacts DEF Sealed, OnDisk, HoldsAt

\* The chunks of finished containers survive every fault: crashes inside the two
\* writes of the destructor, failed saves and insertions, and all that later
\* sessions do.
THEOREM SealedForever == Spec => SealedKept
  <1>1. IInv /\ [Next]_vars => [\A c \in Chunks : Sealed(c) => Sealed(c)']_vars
    BY SealedNext
  <1> QED
    BY <1>1, Invariance, PTL DEF Spec, SealedKept

-----------------------------------------------------------------------------
(* Shutdown: the destructor saves the memory and the mark of one state.    *)

\* A store that no fault has struck has, before the destructor's last write and
\* after it, saved all it knows below the mark.
LEMMA FlushingDurable ==
  ASSUME IInv, ~tainted, pc = "flushing", NEW c \in Chunks, c \in Known
  PROVE  Durable(c)
  <1>1. TypeOK /\ LengthsOK /\ MarkOK /\ PlacesOK /\ Intact
    BY DEF IInv
  <1>2. /\ db[c] # NoEntry /\ db[c] \in Places /\ db[c].length = Size[c] /\ c \in Chunks
        /\ Restorable(c) /\ Running /\ Saving
        /\ config = [name |-> name, used |-> used] /\ config # NoConfig
        /\ used \in 0 .. BodySize /\ body \in Bodies
        /\ \/ db[c].container < name
           \/ db[c].container = name /\ db[c].offset + Size[c] <= used
    BY <1>1, NoValuesAssumption
       DEF Known, TypeOK, LengthsOK, Intact, MarkOK, PlacesOK, Current, Running, Saving, Marks
  <1>3. BelowMark(c)
    BY <1>2 DEF BelowMark
  <1>4. CASE db[c].container = name
    <2>1. HoldsAt(body, c, db[c]) /\ db[c].offset + Size[c] <= used
      BY <1>1, <1>2, <1>4 DEF Restorable, Current, CurrentBody, TypeOK, Names
    <2>2. HoldsAt(Prefix(body, used), c, db[c]) /\ Prefix(body, used) \in Files
      BY <1>2, <2>1, PrefixHolds, PrefixType
    <2>3. SettledFile(db[c].container) = Prefix(body, used)
      BY <1>2, <1>4 DEF SettledFile
    <2> QED
      BY <1>2, <1>3, <2>2, <2>3, NoValuesAssumption DEF Durable, OnDisk
  <1>5. CASE db[c].container # name
    BY <1>2, <1>3, <1>5 DEF Durable, OnDisk, SettledFile, Restorable, Current
  <1> QED
    BY <1>4, <1>5

\* A session ends by FlushWrite or by a fault.
LEMMA EndNext ==
  ASSUME [Next]_vars, Running, ~Running'
  PROVE  FlushWrite \/ tainted'
  BY DEF Next, Start, SaveChunk, AppendChunk, RolloverOpen, RolloverFails, RolloverWrite,
     OpenNext, InsertKey, InsertFails, ReadChunk, ReadCached, ReadCurrent, ReadFile, ReadMissing,
     Reading, WriteConfig, FlushOpen, FlushFails, Crash, TornWrite, TornCrash, TornConfig, vars,
     disk, memory, Running

LEMMA StartNext ==
  ASSUME [Next]_vars, ~Running
  PROVE  UNCHANGED vars \/ \E mode \in {"store", "restore"} : Start(mode)
  BY DEF Next, SaveChunk, AppendChunk, RolloverOpen, RolloverFails, RolloverWrite,
     InsertKey, InsertFails, ReadChunk, ReadCached, ReadCurrent, ReadFile, ReadMissing,
     Reading, WriteConfig, FlushOpen, FlushWrite, FlushFails, Crash, TornWrite, TornCrash,
     TornConfig, Saving, Running

LEMMA CleanNext ==
  ASSUME IInv, CleanShutdown, [Next]_vars
  PROVE  CleanShutdown'
  <1>0. TypeOK /\ MarkOK /\ (tainted => tainted')
    BY TaintedNext DEF IInv
  <1>1. SUFFICES ASSUME pc' = "down", ~tainted' PROVE CleanShutdown'
    BY DEF CleanShutdown
  <1>2. CASE ~Running
    <2>1. UNCHANGED vars
      BY <1>1, <1>2, StartNext DEF Start
    <2> QED
      BY <2>1 DEF vars, disk, memory, CleanShutdown, Known, Durable, BelowMark, OnDisk,
         SettledFile, Saving, Restorable, Current, CurrentBody, Running, Resume, HoldsAt, ReadInto,
         Blank, Prefix
  <1>3. CASE Running
    <2>1. FlushWrite /\ pc = "flushing" /\ ~tainted
      BY <1>0, <1>1, <1>3, EndNext DEF Running, FlushWrite
    <2>2. ASSUME NEW c \in Chunks, db'[c] # NoEntry PROVE Durable(c)'
      <3>1. c \in Known
        BY <2>1, <2>2 DEF Known, FlushWrite
      <3>2. Durable(c)
        BY <2>1, <3>1, FlushingDurable
      <3>3. ~TornWrite
        BY <2>1, <1>1 DEF TornWrite, TornCrash, TornConfig
      <3> QED
        BY <3>2, <3>3, DurableNext
    <2>3. files'[name] = Prefix(body, used) /\ config' = [name |-> name, used |-> used]
      BY <1>0, <2>1 DEF FlushWrite, MarkOK, TypeOK
    <2>4. DOMAIN files'[config'.name] = 0 .. config'.used - 1
      BY <2>3 DEF Prefix
    <2> QED
      BY <2>2, <2>4 DEF CleanShutdown, Known
  <1> QED
    BY <1>2, <1>3

\* After any number of sessions that no fault has struck, everything known is on
\* disk, and .StorageConfig and the current container's file are of one state.
THEOREM ShutdownClean == Spec => []CleanShutdown
  <1>1. Init => CleanShutdown
    BY DEF Init, CleanShutdown, Known
  <1>2. IInv /\ CleanShutdown /\ [Next]_vars => CleanShutdown'
    BY CleanNext
  <1> QED
    BY <1>1, <1>2, Invariance, PTL DEF Spec

-----------------------------------------------------------------------------
(* Reading: a session that restores changes no container but the current.  *)

LEMMA SliceHolds ==
  ASSUME NEW b, NEW c \in Chunks, NEW p \in Places, p.length = Size[c], HoldsAt(b, c, p)
  PROVE  HoldsAt(Slice(b, p), c, [offset |-> 0])
  <1>1. Size[c] \in Nat
    BY SizesAssumption
  <1>2. ASSUME NEW i \in 0 .. Size[c] - 1
        PROVE  0 + i \in DOMAIN Slice(b, p) /\ Slice(b, p)[0 + i] = <<c, i>>
    BY <1>1 DEF Slice, HoldsAt
  <1> QED
    BY <1>2 DEF HoldsAt

LEMMA GotKept ==
  ASSUME GotOK, UNCHANGED <<db, got>>,
         got # NoRead /\ got.chunk \in Known /\ Restorable(got.chunk)' => Restorable(got.chunk)
  PROVE  GotOK'
  BY DEF GotOK, Known, HoldsAt

\* A step of a restoring session that reads nothing.
LEMMA ReadKept ==
  ASSUME TypeOK, ReadInv, got # NoRead \/ cacheName # 0,
         Running, Running', pc' \in {"restore", "hung", "closing", "flushing"},
         UNCHANGED <<db, name, body, cacheName, cache, got>>,
         \A n \in Names : n # name => files'[n] = files[n]
  PROVE  ReadInv'
  <1>1. CacheOK'
    BY DEF ReadInv, CacheOK, TypeOK
  <1>2. ASSUME got # NoRead, got.chunk \in Known, Restorable(got.chunk)'
        PROVE  Restorable(got.chunk)
    <2>1. got.chunk \in Chunks
      BY <1>2 DEF Known
    <2>2. db[got.chunk] \in Places /\ db[got.chunk].container \in Names
      BY <1>2, <2>1 DEF Known, TypeOK, Places
    <2> QED
      BY <1>2, <2>2 DEF Restorable, Current, CurrentBody, Running, HoldsAt
  <1>3. GotOK'
    BY <1>2, GotKept DEF ReadInv
  <1> QED
    BY <1>1, <1>3 DEF ReadInv

LEMMA ReadNext ==
  ASSUME IInv, ReadInv, [Next]_vars
  PROVE  ReadInv'
  <1>0. TypeOK /\ LengthsOK
    BY DEF IInv
  <1>1. CASE cacheName' = 0 /\ got' = NoRead
    BY <1>1 DEF ReadInv, CacheOK, GotOK
  <1>2. CASE UNCHANGED vars
    <2>1. CacheOK'
      BY <1>2 DEF vars, disk, memory, ReadInv, CacheOK
    <2>2. Restorable(got.chunk)' => Restorable(got.chunk)
      BY <1>2 DEF vars, disk, memory, Restorable, Current, CurrentBody, Running, Resume,
         HoldsAt, ReadInto, Blank
    <2>3. GotOK'
      BY <1>2, <2>2, GotKept DEF ReadInv, vars, disk, memory
    <2> QED
      BY <1>2, <2>1, <2>3 DEF ReadInv, vars, memory
  <1>3. ASSUME NEW c \in Chunks, ReadChunk(c) PROVE ReadInv'
    <2>1. /\ db[c] # NoEntry /\ db[c] \in Places /\ db[c].length = Size[c]
          /\ db[c].container \in Names /\ db[c].container # 0
          /\ Running /\ pc = "restore" /\ ReadInv
          /\ UNCHANGED <<db, files, config, name, used, body>>
      BY <1>0, <1>3 DEF ReadChunk, ReadCached, ReadCurrent, ReadFile, ReadMissing, Reading,
         TypeOK, LengthsOK, Known, Places, Running, memory, disk, Names
    <2>2. ASSUME NEW b, Return(c, b), pc' = "restore", Restorable(c) => HoldsAt(b, c, db[c])
          PROVE  GotOK'
      <3>1. got' = [chunk |-> c, data |-> Slice(b, db[c])]
        BY <2>2 DEF Return
      <3>2. Restorable(c)' => Restorable(c)
        BY <2>1, <2>2 DEF Restorable, Current, CurrentBody, Running, HoldsAt
      <3>3. Restorable(c)' => HoldsAt(Slice(b, db[c]), c, [offset |-> 0])
        BY <2>1, <2>2, <3>2, SliceHolds
      <3>4. got'.chunk = c /\ got'.data = Slice(b, db[c]) /\ c \in Known'
        BY <2>1, <3>1 DEF Known
      <3>5. Restorable(got.chunk)' => Restorable(c)'
        BY <3>4 DEF Restorable, Current, CurrentBody, HoldsAt
      <3>6. HoldsAt(got.data, got.chunk, [offset |-> 0])'
              <=> HoldsAt(Slice(b, db[c]), c, [offset |-> 0])
        BY <3>4 DEF HoldsAt
      <3> QED
        BY <3>3, <3>4, <3>5, <3>6 DEF GotOK
    <2>3. CASE ReadCached(c)
      <3>1. Restorable(c) => HoldsAt(cache, c, db[c])
        <4> SUFFICES ASSUME Restorable(c) PROVE HoldsAt(cache, c, db[c])
          OBVIOUS
        <4>1. cacheName # 0 /\ cacheName # name /\ db[c].container = cacheName
          BY <2>1, <2>3 DEF ReadCached, ReadInv, CacheOK
        <4>2. HoldsAt(files[cacheName], c, db[c]) /\ files[cacheName] \in Files
          BY <1>0, <2>1, <4>1 DEF Restorable, Current, TypeOK
        <4>3. \A i \in DOMAIN files[cacheName] : i \in DOMAIN cache /\ cache[i] = files[cacheName][i]
          <5>1. PICK m \in 0 .. BodySize : files[cacheName] \in [0 .. m - 1 -> Cells]
            BY <4>2 DEF Files
          <5>2. DOMAIN files[cacheName] \subseteq Offsets /\ DOMAIN cache = Offsets
            BY <1>0, <5>1, SizesAssumption DEF Offsets, TypeOK, Bodies
          <5> QED
            BY <2>1, <4>1, <5>2 DEF ReadInv, CacheOK
        <4> QED
          BY <4>2, <4>3 DEF HoldsAt
      <3>2. Return(c, cache) /\ pc' = "restore" /\ UNCHANGED <<cacheName, cache>>
        BY <2>1, <2>3 DEF ReadCached
      <3> QED
        BY <2>1, <2>2, <3>1, <3>2 DEF ReadInv, CacheOK
    <2>4. CASE ReadCurrent(c)
      <3>1. Restorable(c) => HoldsAt(body, c, db[c])
        BY <2>1, <2>4 DEF ReadCurrent, Restorable, Current, CurrentBody
      <3>2. Return(c, body) /\ pc' = "restore" /\ UNCHANGED <<cacheName, cache>>
        BY <2>1, <2>4 DEF ReadCurrent
      <3> QED
        BY <2>1, <2>2, <3>1, <3>2 DEF ReadInv, CacheOK
    <2>5. CASE ReadFile(c)
      <3> DEFINE f == files[db[c].container]
      <3>1. f \in Files /\ f # NoFile /\ db[c].container # name
        BY <1>0, <2>1, <2>5 DEF ReadFile, TypeOK
      <3>2. \A i \in DOMAIN f : i \in DOMAIN cache' /\ cache'[i] = f[i]
        <4>1. PICK m \in 0 .. BodySize : f \in [0 .. m - 1 -> Cells]
          BY <3>1 DEF Files
        <4>2. \A i \in DOMAIN f : i \in Offsets /\ i < BodySize
          BY <4>1, SizesAssumption DEF Offsets
        <4> QED
          BY <2>5, <3>1, <4>2 DEF ReadFile, ReadInto
      <3>3. Restorable(c) => HoldsAt(cache', c, db[c])
        BY <2>1, <3>1, <3>2 DEF Restorable, Current, HoldsAt
      <3>4. cacheName' = db[c].container /\ pc' = "restore" /\ Return(c, cache')
        BY <2>5 DEF ReadFile, Reading
      <3>5. GotOK'
        BY <2>2, <3>3, <3>4
      <3>6. CacheOK'
        BY <2>1, <3>1, <3>2, <3>4 DEF CacheOK
      <3> QED
        BY <3>4, <3>5, <3>6 DEF ReadInv
    <2>6. CASE ReadMissing(c)
      BY <1>0, <1>1, <2>1, <2>6, ReadKept DEF ReadMissing, Running, memory, disk
    <2> QED
      BY <1>3, <2>3, <2>4, <2>5, <2>6 DEF ReadChunk
  <1>4. CASE WriteConfig \/ FlushOpen
    <2>1. pc' \in {"closing", "flushing"} /\ Running /\ Running'
          /\ UNCHANGED <<db, name, body, cacheName, cache, got>>
          /\ \A n \in Names : n # name => files'[n] = files[n]
      BY <1>0, <1>4 DEF WriteConfig, FlushOpen, memory, Running, TypeOK
    <2> QED
      BY <1>0, <1>1, <2>1, ReadKept
  <1>5. CASE Forget
    BY <1>1, <1>5 DEF Forget
  <1>6. CASE /\ pc \notin {"restore", "hung", "closing", "flushing"}
             /\ UNCHANGED <<cacheName, cache, got>>
    BY <1>1, <1>6 DEF ReadInv, CacheOK, GotOK
  <1>7. ASSUME NEW mode \in {"store", "restore"}, Start(mode) PROVE ReadInv'
    BY <1>6, <1>7 DEF Start
  <1>8. CASE \/ \E c \in Chunks : SaveChunk(c)
             \/ RolloverWrite \/ InsertKey \/ InsertFails
    BY <1>6, <1>8 DEF SaveChunk, AppendChunk, RolloverOpen, RolloverFails, RolloverWrite,
       InsertKey, InsertFails
  <1>9. CASE FlushWrite \/ FlushFails \/ Crash \/ TornWrite
    BY <1>5, <1>9 DEF FlushWrite, FlushFails, Crash, TornWrite, TornCrash, TornConfig
  <1> QED
    BY <1>2, <1>3, <1>4, <1>7, <1>8, <1>9 DEF Next

\* restoreChunk never returns wrong bytes: of a chunk of a store that no fault has
\* struck, nor of a durable chunk of any store.
THEOREM ReadsBackAlways == Spec => []ReadsBack
  <1>1. Init => ReadInv
    BY DEF Init, ReadInv, CacheOK, GotOK
  <1>2. IInv /\ ReadInv /\ [Next]_vars => ReadInv'
    BY ReadNext
  <1>3. IInv /\ ReadInv => ReadsBack
    <2> SUFFICES ASSUME IInv, ReadInv, got # NoRead, tainted => Durable(got.chunk)
                 PROVE  HoldsAt(got.data, got.chunk, [offset |-> 0])
      BY DEF ReadsBack
    <2>1. got.chunk \in Known
      BY DEF ReadInv, GotOK
    <2> QED
      BY <2>1 DEF IInv, ReadInv, GotOK, Durable, Intact
  <1> QED
    BY <1>1, <1>2, <1>3, Invariance, PTL DEF Spec

-----------------------------------------------------------------------------
(* Refinement: every step of StorageCore is one of the abstract store.     *)

LEMMA SealedDurable ==
  IInv => \A c \in Chunks : Sealed(c) => Durable(c)
  <1> SUFFICES ASSUME IInv, NEW c \in Chunks, Sealed(c) PROVE Durable(c)
    OBVIOUS
  <1>1. BelowMark(c) /\ OnDisk(c)
    BY SealedFacts DEF BelowMark, Sealed
  <1>2. db[c].container # Current.name
    BY SealedFacts DEF Current, Resume, Sealed
  <1>3. Restorable(c)
    BY <1>1, <1>2, SealedFacts DEF OnDisk, Restorable
  <1> QED
    BY <1>1, <1>3 DEF Durable

LEMMA SealedDurableNext == (IInv => \A c \in Chunks : Sealed(c) => Durable(c))'
  BY SealedDurable, PTL

\* The abstract sets are ordered, and the lower ones only grow without torn writes.
LEMMA SetsNext ==
  ASSUME IInv, [Next]_vars
  PROVE  /\ {c \in Chunks : Sealed(c)} \subseteq {c \in Chunks : Sealed(c)'}
         /\ {c \in Chunks : Sealed(c)'} \subseteq {c \in Chunks : Durable(c)'}
         /\ {c \in Chunks : Durable(c)'} \subseteq {c \in Chunks : Restorable(c)'}
         /\ {c \in Chunks : Restorable(c)'} \subseteq Known'
         /\ ~TornWrite => DurableChunks \subseteq DurableChunks'
  <1>1. IInv'
    BY IInvNext
  <1>2. {c \in Chunks : Sealed(c)'} \subseteq {c \in Chunks : Durable(c)'}
    BY <1>1, SealedDurableNext
  <1> QED
    BY <1>2, SealedNext, DurableNext DEF Durable, Restorable, Known, DurableChunks

\* saveChunk's Put makes one chunk known and restorable, and nothing else.
LEMMA InsertStores ==
  ASSUME IInv, InsertKey, NEW c \in Chunks, c = pending.chunk
  PROVE  /\ c \notin Known
         /\ Known' = Known \cup {c}
         /\ Restorable(c)' /\ ~Durable(c)' /\ ~Sealed(c)'
         /\ \A d \in Chunks \ {c} :
              /\ Restorable(d)' <=> Restorable(d)
              /\ Durable(d)' <=> Durable(d)
              /\ Sealed(d)' <=> Sealed(d)
  <1>0. TypeOK /\ PendingOK /\ MarkOK
    BY DEF IInv
  <1>1. /\ db[c] = NoEntry /\ pending.place \in Places
        /\ pending.place.container = name /\ pending.place.offset = used
        /\ pending.place.length = Size[c] /\ Size[c] \in Nat \ {0}
        /\ HoldsAt(body, c, pending.place)
    BY <1>0, SizesAssumption DEF InsertKey, PendingOK, TypeOK, Placed
  <1>2. /\ db' = [db EXCEPT ![c] = pending.place] /\ UNCHANGED <<files, config, name, body>>
        /\ Running /\ Running' /\ ~Saving /\ ~Saving'
        /\ db'[c] = pending.place /\ \A d \in Chunks \ {c} : db'[d] = db[d]
    BY <1>0, <1>1 DEF InsertKey, Running, Saving, TypeOK
  <1>3. Restorable(c)'
    BY <1>1, <1>2, NoValuesAssumption DEF Restorable, Current, CurrentBody, HoldsAt
  <1>4. ~BelowMark(c)' /\ ~Sealed(c)'
    <2>1. config # NoConfig => config \in Marks /\ config.name \in Nat /\ config.used \in Nat
      BY <1>0, SizesAssumption DEF TypeOK, Marks, Names
    <2>2. name \in Nat /\ used \in Nat
      BY <1>0, SizesAssumption DEF TypeOK, Names
    <2> QED
      BY <1>0, <1>1, <1>2, <2>1, <2>2 DEF BelowMark, Sealed, MarkOK
  <1>5. \A d \in Chunks \ {c} : (Restorable(d)' <=> Restorable(d)) /\ (OnDisk(d)' <=> OnDisk(d))
    BY <1>2 DEF Restorable, Current, CurrentBody, OnDisk, SettledFile, HoldsAt
  <1>6. \A d \in Chunks \ {c} : (Durable(d)' <=> Durable(d)) /\ (Sealed(d)' <=> Sealed(d))
    BY <1>2, <1>5 DEF Durable, BelowMark, Sealed
  <1>7. Known' = Known \cup {c} /\ c \notin Known
    BY <1>1, <1>2, NoValuesAssumption DEF Known
  <1> QED
    BY <1>3, <1>4, <1>6, <1>5, <1>7 DEF Durable

\* The constructor changes nothing but that a process runs.
LEMMA StartOpens ==
  ASSUME NEW mode \in {"store", "restore"}, Start(mode), NEW c \in Chunks
  PROVE  /\ Restorable(c)' <=> Restorable(c)
         /\ Durable(c)' <=> Durable(c)
         /\ Sealed(c)' <=> Sealed(c)
  <1>1. Restorable(c)' <=> Restorable(c)
    BY DEF Start, disk, Restorable, Current, CurrentBody, Running, HoldsAt
  <1>2. OnDisk(c)' <=> OnDisk(c)
    BY DEF Start, disk, OnDisk, SettledFile, Saving, HoldsAt
  <1> QED
    BY <1>1, <1>2 DEF Start, disk, Durable, BelowMark, Sealed

LEMMA UnchangedSets ==
  ASSUME UNCHANGED vars, NEW c \in Chunks
  PROVE  /\ Restorable(c)' <=> Restorable(c)
         /\ Durable(c)' <=> Durable(c)
         /\ Sealed(c)' <=> Sealed(c)
  <1>1. Restorable(c)' <=> Restorable(c)
    BY DEF vars, disk, memory, Restorable, Current, CurrentBody, Running, Resume, ReadInto, Blank,
       HoldsAt
  <1>2. OnDisk(c)' <=> OnDisk(c)
    BY DEF vars, disk, memory, OnDisk, SettledFile, Saving, HoldsAt, Prefix
  <1> QED
    BY <1>1, <1>2 DEF vars, disk, Durable, BelowMark, Sealed

LEMMA StepImplements ==
  ASSUME IInv, CleanShutdown, [Next]_vars
  PROVE  [Abstract!Next]_(Abstract!vars)
  <1>0. TypeOK /\ Intact /\ IInv' /\ CleanShutdown'
    BY IInvNext, CleanNext DEF IInv
  <1>1. ASSUME NEW mode \in {"store", "restore"}, Start(mode) PROVE Abstract!Open
    BY <1>1, StartOpens DEF Start, disk, Abstract!Open, Known, DurableChunks, Running
  <1>2. CASE InsertKey
    <2>1. Running /\ Running' /\ tainted' = tainted
      BY <1>2 DEF InsertKey, Running
    <2>2. PICK c \in Chunks : c = pending.chunk
      BY <1>0, <1>2 DEF InsertKey, IInv, PendingOK, TypeOK, Placed
    <2>3. ~Durable(c) /\ ~Sealed(c) /\ ~Restorable(c)
      BY <1>2, <2>2, InsertStores DEF Durable, Sealed, OnDisk, Restorable, Known
    <2>4. Abstract!Store(c)
      BY <1>2, <2>1, <2>2, <2>3, InsertStores DEF Abstract!Store, DurableChunks
    <2> QED
      BY <2>4 DEF Abstract!Next
  <1>3. CASE UNCHANGED vars
    BY <1>3, UnchangedSets DEF Abstract!vars, Known, DurableChunks, Running, vars, disk
  <1>4. ASSUME tainted', Known' = Known, Running' => Running PROVE Abstract!Fault
    <2>1. TornWrite => Faults \cap {"torn", "config"} # {} /\ ~Running'
      BY DEF TornWrite, TornCrash, TornConfig, Running
    <2> QED
      BY <1>4, <2>1, SetsNext DEF Abstract!Fault, DurableChunks
  <1>5. ASSUME ~tainted', Known' = Known, Running, Running' PROVE Abstract!Commit
    <2>1. ~tainted /\ ~TornWrite
      BY <1>0, <1>5, TaintedNext DEF TornWrite, TornCrash, TornConfig
    <2>2. /\ {c \in Chunks : Restorable(c)} = Known
          /\ {c \in Chunks : Restorable(c)'} = Known
      BY <1>0, <1>5, <2>1 DEF Intact, Known, Restorable, IInv
    <2> QED
      BY <1>0, <1>5, <2>1, <2>2, SetsNext, TaintedNext DEF Abstract!Commit, DurableChunks, TypeOK
  <1>6. CASE FlushWrite /\ ~tainted'
    <2>1. Running /\ ~Running' /\ ~tainted /\ tainted' = tainted /\ pc = "flushing"
          /\ db' = db /\ Known' = Known /\ config' = config
      BY <1>0, <1>6, TaintedNext DEF FlushWrite, Running, Known, TypeOK
    <2>2. \A c \in Known : Durable(c)
      BY <1>0, <2>1, FlushingDurable DEF Known
    <2>3. \A c \in Known : Durable(c)'
      BY <1>0, <1>6, <2>1 DEF CleanShutdown, FlushWrite
    <2>4. /\ DurableChunks = Known /\ DurableChunks' = Known
          /\ {c \in Chunks : Restorable(c)} = Known /\ {c \in Chunks : Restorable(c)'} = Known
      BY <2>1, <2>2, <2>3 DEF DurableChunks, Durable, Known, Restorable
    <2>5. {c \in Chunks : Sealed(c)} = {c \in Chunks : Sealed(c)'}
      BY <2>1, <2>2, <2>3 DEF Sealed, Durable, OnDisk, Known
    <2> QED
      BY <2>1, <2>4, <2>5 DEF Abstract!Close, Abstract!Next
  <1>7. CASE Running /\ ~InsertKey
    <2>1. Known' = Known
      BY <1>7, DbNext DEF Known
    <2> QED
      BY <1>0, <1>4, <1>5, <1>6, <1>7, <2>1, EndNext DEF Abstract!Next
  <1>8. CASE ~Running
    BY <1>1, <1>3, <1>8, StartNext DEF Abstract!Next
  <1> QED
    BY <1>2, <1>7, <1>8

\* StorageCore implements the abstract chunk store, whatever the faults.
THEOREM StoreImplements == Spec => Implements
  <1>1. Init => CleanShutdown
    BY DEF Init, CleanShutdown, Known
  <1>2. Init => Abstract!Init
    BY DEF Init, Abstract!Init, Known, DurableChunks, Durable, Restorable, Sealed, OnDisk, Running
  <1>3. IInv /\ CleanShutdown /\ [Next]_vars => CleanShutdown'
    BY CleanNext
  <1>4. IInv /\ CleanShutdown /\ [Next]_vars => [Abstract!Next]_(Abstract!vars)
    BY StepImplements
  <1> QED
    BY <1>1, <1>2, <1>3, <1>4, Invariance, PTL DEF Spec, Implements, Abstract!Spec

-----------------------------------------------------------------------------
(* Recipes.                                                                *)

Stored == Heads \cup Entries \cup {Junk}

\* The recipes are sequences of items; an upload has a path and a version.
RecipesTyped ==
  /\ recipe \in [Paths -> Seq(Stored)]
  /\ latest \in [Paths -> Versions \cup {NoUpload}]
  /\ step \in {"idle", "append", "create"}
  /\ step # "idle" => upload \in [path : Paths, version : Versions]

\* What checkRecipeStatus writes is made of items.
LEMMA ItemsTyped ==
  ASSUME NEW v \in Versions, NEW status
  PROVE  /\ EntriesOf(v) \in Seq(Stored)
         /\ Len(EntriesOf(v)) = Count[v]
         /\ <<[head |-> v]>> \in Seq(Stored)
         /\ Items(status, v) \in Seq(Stored)
<1>1. Count[v] \in Nat
  BY RecipeAssumption
<1>2. \A i \in 1 .. Count[v] : [entry |-> v, id |-> i] \in Stored
  BY <1>1 DEF Stored, Entries
<1>3. EntriesOf(v) \in [1 .. Count[v] -> Stored]
  BY <1>2 DEF EntriesOf
<1>4. EntriesOf(v) \in Seq(Stored) /\ Len(EntriesOf(v)) = Count[v]
  BY <1>1, <1>3
<1>5. [head |-> v] \in Stored
  BY DEF Stored, Heads
<1>6. <<[head |-> v]>> \in Seq(Stored)
  BY <1>5
<1> QED
  BY <1>4, <1>6 DEF Items

\* Appending t to the recipe of path q.
LEMMA OneAppend ==
  ASSUME NEW q \in Paths, NEW t \in Seq(Stored),
         recipe \in [Paths -> Seq(Stored)],
         recipe' = [recipe EXCEPT ![q] = @ \o t]
  PROVE  /\ recipe' \in [Paths -> Seq(Stored)]
         /\ \A p \in Paths : \E u \in Seq(Stored) : recipe'[p] = recipe[p] \o u
<1>1. recipe[q] \o t \in Seq(Stored)
  <2> DEFINE s == recipe[q]
  <2>1. s \in Seq(Stored)
    OBVIOUS
  <2> HIDE DEF s
  <2>2. s \o t \in Seq(Stored)
    BY <2>1
  <2> QED
    BY <2>2 DEF s
<1>2. recipe' \in [Paths -> Seq(Stored)]
  BY <1>1, Zenon
<1>3. ASSUME NEW p \in Paths
      PROVE  \E u \in Seq(Stored) : recipe'[p] = recipe[p] \o u
  <2>1. CASE p = q
    <3>1. recipe'[p] = recipe[p] \o t
      BY <2>1, Zenon
    <3> QED
      BY <3>1, Zenon
  <2>2. CASE p # q
    <3>1. recipe'[p] = recipe[p]
      BY <2>2, Zenon
    <3>2. recipe[p] \in Seq(Stored)
      OBVIOUS
    <3>3. recipe[p] \o <<>> = recipe[p] /\ <<>> \in Seq(Stored)
      BY <3>2
    <3> QED
      BY <3>1, <3>3
  <2> QED
    BY <2>1, <2>2
<1> QED
  BY <1>2, <1>3

\* Every step appends to some recipes and leaves the others as they are.
LEMMA StepAppends ==
  ASSUME RecipesTyped, [RecipeNext]_recipeVars
  PROVE  /\ RecipesTyped'
         /\ \A p \in Paths : \E t \in Seq(Stored) : recipe'[p] = recipe[p] \o t
<1>0. ASSUME recipe' = recipe
      PROVE  \A p \in Paths : \E t \in Seq(Stored) : recipe'[p] = recipe[p] \o t
  <2> TAKE p \in Paths
  <2>1. recipe[p] \in Seq(Stored)
    BY DEF RecipesTyped
  <2>2. recipe[p] \o <<>> = recipe[p] /\ <<>> \in Seq(Stored)
    BY <2>1
  <2> QED
    BY <1>0, <2>2
<1>1. ASSUME NEW p \in Paths, NEW v \in Versions, QueryKnown(p, v) \/ QueryNew(p, v)
      PROVE  RecipesTyped' /\ recipe' = recipe
  BY <1>1 DEF QueryKnown, QueryNew, BeginUpload, RecipesTyped
<1>2. CASE SaveRecipe
  <2> DEFINE t == Items(step, upload.version)
  <2>1. upload.path \in Paths /\ upload.version \in Versions
    BY <1>2 DEF SaveRecipe, RecipesTyped
  <2>2. t \in Seq(Stored)
    BY <2>1, ItemsTyped
  <2>3. recipe' = [recipe EXCEPT ![upload.path] = @ \o t]
    BY <1>2 DEF SaveRecipe
  <2> HIDE DEF t
  <2>4. /\ recipe' \in [Paths -> Seq(Stored)]
        /\ \A p \in Paths : \E u \in Seq(Stored) : recipe'[p] = recipe[p] \o u
    BY <2>1, <2>2, <2>3, OneAppend, Zenon DEF RecipesTyped
  <2>5. latest' \in [Paths -> Versions \cup {NoUpload}] /\ step' = "idle"
    BY <1>2, <2>1, Zenon DEF SaveRecipe, RecipesTyped
  <2> QED
    BY <2>4, <2>5 DEF RecipesTyped
<1>3. CASE SaveRecipeFails
  BY <1>3, <1>0 DEF SaveRecipeFails, RecipesTyped
<1>4. CASE RecipeCrash
  <2>1. upload.path \in Paths /\ upload.version \in Versions
    BY <1>4 DEF RecipeCrash, RecipesTyped
  <2> DEFINE all == Items(step, upload.version)
  <2>2. PICK n \in 0 .. Len(all), torn \in {<<>>, <<Junk>>} :
          recipe' = [recipe EXCEPT ![upload.path] = @ \o (SubSeq(all, 1, n) \o torn)]
    BY <1>4 DEF RecipeCrash
  <2>3. all \in Seq(Stored)
    BY <2>1, ItemsTyped
  <2> HIDE DEF all
  <2>4. SubSeq(all, 1, n) \in Seq(Stored)
    BY <2>3
  <2>5. torn \in Seq(Stored)
    <3>1. Junk \in Stored
      BY DEF Stored
    <3>2. <<Junk>> \in Seq(Stored) /\ <<>> \in Seq(Stored)
      BY <3>1
    <3> QED
      BY <3>2
  <2> DEFINE t == SubSeq(all, 1, n) \o torn
  <2>6. t \in Seq(Stored)
    BY <2>4, <2>5
  <2>7. recipe' = [recipe EXCEPT ![upload.path] = @ \o t]
    BY <2>2
  <2> HIDE DEF t
  <2>8. /\ recipe' \in [Paths -> Seq(Stored)]
        /\ \A p \in Paths : \E u \in Seq(Stored) : recipe'[p] = recipe[p] \o u
    BY <2>1, <2>6, <2>7, OneAppend, Zenon DEF RecipesTyped
  <2>9. latest' \in [Paths -> Versions \cup {NoUpload}] /\ step' = "idle"
    BY <1>4 DEF RecipeCrash, RecipesTyped
  <2> QED
    BY <2>8, <2>9 DEF RecipesTyped
<1>5. CASE UNCHANGED recipeVars
  BY <1>5, <1>0 DEF recipeVars, RecipesTyped
<1> QED
  BY <1>0, <1>1, <1>2, <1>3, <1>4, <1>5 DEF RecipeNext

THEOREM RecipesTypeCorrect == RecipeSpec => []RecipesTyped
<1>1. RecipeInit => RecipesTyped
  BY DEF RecipeInit, RecipesTyped
<1>2. RecipesTyped /\ [RecipeNext]_recipeVars => RecipesTyped'
  BY StepAppends
<1> QED
  BY <1>1, <1>2, PTL DEF RecipeSpec

-----------------------------------------------------------------------------

\* A whole recipe begins with a head and the entries the head announces, none of
\* them beyond the end of the file.
LEMMA CompleteShape ==
  ASSUME RecipesTyped, NEW p \in Paths, Complete(p)
  PROVE  /\ HasHead(p)
         /\ Total(p) \in Nat
         /\ 1 + Total(p) <= Len(recipe[p])
         /\ \A i \in 1 .. Total(p) : recipe[p][1 + i] \in Entries
<1>1. PICK v \in Versions : Restored(p) = EntriesOf(v)
  BY DEF Complete
<1>2. HasHead(p)
  BY <1>1, JunkAssumption DEF Restored
<1>3. Total(p) \in Nat
  BY <1>2, RecipeAssumption DEF HasHead, Total, Heads
<1>4. Count[v] \in Nat
  BY RecipeAssumption
<1>5. [i \in 1 .. Total(p) |-> EntryAt(p, i)] = EntriesOf(v)
  BY <1>1, <1>2 DEF Restored
<1>6. 1 .. Total(p) = 1 .. Count[v]
  BY <1>5 DEF EntriesOf
<1>7. \A i \in 1 .. Total(p) : EntryAt(p, i) = EntriesOf(v)[i]
  BY <1>5
<1>8. \A i \in 1 .. Total(p) : EntryAt(p, i) # Junk
  <2> TAKE i \in 1 .. Total(p)
  <2>1. i \in 1 .. Count[v] /\ i \in Nat
    BY <1>3, <1>4, <1>6
  <2>2. EntriesOf(v)[i] = [entry |-> v, id |-> i]
    BY <2>1 DEF EntriesOf
  <2>3. EntriesOf(v)[i] \in Entries
    BY <2>1, <2>2 DEF Entries
  <2> QED
    BY <1>7, <2>3, JunkAssumption
<1>9. \A i \in 1 .. Total(p) :
        1 + i <= Len(recipe[p]) /\ recipe[p][1 + i] \in Entries
  <2> TAKE i \in 1 .. Total(p)
  <2>1. 1 + i <= Len(recipe[p]) /\ \A j \in 2 .. 1 + i : recipe[p][j] \in Entries
    BY <1>8 DEF EntryAt
  <2> QED
    BY <2>1, <1>3
<1>10. Len(recipe[p]) \in Nat /\ Len(recipe[p]) >= 1
  BY <1>2 DEF HasHead, RecipesTyped
<1> QED
  BY <1>2, <1>3, <1>9, <1>10

\* Appending to a whole recipe changes nothing of what a restore reads.
LEMMA AppendKeeps ==
  ASSUME RecipesTyped, RecipesTyped', NEW p \in Paths, Complete(p),
         meta \subseteq meta',
         NEW t \in Seq(Stored), recipe'[p] = recipe[p] \o t
  PROVE  Restored(p)' = Restored(p)
<1> DEFINE s == recipe[p]
<1>1. s \in Seq(Stored) /\ recipe'[p] \in Seq(Stored)
  BY DEF RecipesTyped
<1>2. /\ HasHead(p) /\ Total(p) \in Nat
      /\ 1 + Total(p) <= Len(s)
      /\ \A i \in 1 .. Total(p) : s[1 + i] \in Entries
  BY CompleteShape
<1>3. Len(recipe'[p]) = Len(s) + Len(t) /\ Len(s) \in Nat /\ Len(t) \in Nat
  BY <1>1
<1>4. \A i \in 1 .. Len(s) : recipe'[p][i] = recipe[p][i]
  BY <1>1
<1>5. recipe'[p][1] = s[1] /\ recipe'[p] # <<>>
  BY <1>2, <1>3, <1>4
<1>6. HasHead(p)' /\ Total(p)' = Total(p)
  BY <1>2, <1>5 DEF HasHead, Total
<1>7. ASSUME NEW i \in 1 .. Total(p)
      PROVE  EntryAt(p, i)' = EntryAt(p, i)
  <2>1. 1 + i <= Len(s) /\ 1 + i <= Len(recipe'[p])
    BY <1>2, <1>3
  <2>2. \A j \in 2 .. 1 + i : s[j] \in Entries
    <3> TAKE j \in 2 .. 1 + i
    <3>1. j - 1 \in 1 .. Total(p) /\ j = 1 + (j - 1)
      BY <1>2
    <3> QED
      BY <1>2, <3>1
  <2>3. \A j \in 2 .. 1 + i : recipe'[p][j] = s[j]
    BY <2>1, <1>3, <1>4, <1>2
  <2>4. recipe'[p][1 + i] = s[1 + i]
    <3>1. 1 + i \in 1 .. Len(s)
      BY <2>1, <1>3, <1>2
    <3> QED
      BY <3>1, <1>4
  <2> QED
    BY <2>1, <2>2, <2>3, <2>4 DEF EntryAt
<1>8. Restored(p) = [i \in 1 .. Total(p) |-> EntryAt(p, i)]
  BY <1>2 DEF Restored
<1>9. Restored(p)' = [i \in 1 .. Total(p) |-> EntryAt(p, i)']
  BY <1>6 DEF Restored
<1> QED
  BY <1>7, <1>8, <1>9

\* fileName2metaDB never forgets a path.
LEMMA MetaGrows == [RecipeNext]_recipeVars => meta \subseteq meta'
  BY DEF RecipeNext, recipeVars, QueryKnown, QueryNew, SaveRecipe,
         SaveRecipeFails, RecipeCrash

\* Whatever uploads, crashes and failures follow, what a restore of a path yields
\* never changes once it is whole.
THEOREM PublishedStays == RecipeSpec => PublishedKept
<1>1. ASSUME RecipesTyped, RecipesTyped', [RecipeNext]_recipeVars, NEW p \in Paths, Complete(p)
      PROVE  Restored(p)' = Restored(p)
  <2>1. PICK t \in Seq(Stored) : recipe'[p] = recipe[p] \o t
    BY <1>1, StepAppends
  <2> QED
    BY <1>1, <2>1, AppendKeeps, MetaGrows
<1>2. RecipesTyped /\ RecipesTyped' /\ [RecipeNext]_recipeVars =>
        [\A p \in Paths : Complete(p) => Restored(p)' = Restored(p)]_recipeVars
  BY <1>1
<1> QED
  BY <1>2, RecipesTypeCorrect, PTL DEF RecipeSpec, PublishedKept

-----------------------------------------------------------------------------

\* The recipe of p is about to be created.
Creating(p) == step = "create" /\ upload.path = p

\* As long as no fault strikes an upload of a path, its recipe is empty until it is
\* created, and whole ever after.
Begun ==
  /\ step # "idle" /\ upload.path \notin struck => upload.path \in meta
  /\ \A p \in Paths \ struck :
      /\ p \notin meta \/ Creating(p) => recipe[p] = <<>> /\ latest[p] = NoUpload
      /\ p \in meta /\ ~Creating(p) => Complete(p)

LEMMA ConcatItems ==
  ASSUME NEW s \in Seq(Stored), NEW t \in Seq(Stored), Len(s) = 1
  PROVE  /\ Len(s \o t) = 1 + Len(t)
         /\ (s \o t)[1] = s[1]
         /\ \A i \in 1 .. Len(t) : (s \o t)[1 + i] = t[i]
<1>1. Len(s \o t) = 1 + Len(t)
  BY ConcatProperties
<1>2. Len(t) \in Nat
  OBVIOUS
<1>3. ASSUME NEW i \in 1 .. Len(t)
      PROVE  (s \o t)[1 + i] = t[i]
  <2>1. PICK j \in Nat : j = 1 + i
    BY <1>2
  <2>2. j \in 1 .. Len(s) + Len(t) /\ ~(j <= Len(s)) /\ j - Len(s) = i
    BY <1>2, <2>1
  <2>3. (s \o t)[j] = t[j - Len(s)]
    BY <2>2, ConcatProperties, Zenon
  <2> QED
    BY <2>1, <2>2, <2>3, Zenon
<1>4. 1 \in 1 .. Len(s) + Len(t) /\ 1 <= Len(s)
  BY <1>2
<1> QED
  BY <1>1, <1>3, <1>4, ConcatProperties

\* A recipe that is a head and its entries is whole.
FreshWhole ==
  \A p \in Paths, v \in Versions :
    p \in meta /\ recipe[p] = <<[head |-> v]>> \o EntriesOf(v) => Complete(p)

LEMMA FreshComplete == FreshWhole
<1> SUFFICES ASSUME NEW p \in Paths, NEW v \in Versions, p \in meta,
                    recipe[p] = <<[head |-> v]>> \o EntriesOf(v)
             PROVE  Complete(p)
  BY DEF FreshWhole
<1>1. Count[v] \in Nat
  BY RecipeAssumption
<1>2. /\ EntriesOf(v) \in Seq(Stored) /\ Len(EntriesOf(v)) = Count[v]
      /\ <<[head |-> v]>> \in Seq(Stored)
  BY ItemsTyped
<1>3. /\ Len(recipe[p]) = 1 + Count[v]
      /\ recipe[p][1] = [head |-> v]
      /\ \A i \in 1 .. Count[v] : recipe[p][1 + i] = EntriesOf(v)[i]
      /\ recipe[p] # <<>>
  <2> DEFINE h == <<[head |-> v]>>
             e == EntriesOf(v)
  <2>1. h \in Seq(Stored) /\ Len(h) = 1 /\ h[1] = [head |-> v]
    BY <1>2
  <2>2. e \in Seq(Stored) /\ Len(e) = Count[v]
    BY <1>2
  <2>3. recipe[p] = h \o e
    OBVIOUS
  <2> HIDE DEF h, e
  <2>4. /\ Len(h \o e) = 1 + Count[v]
        /\ (h \o e)[1] = h[1]
        /\ \A i \in 1 .. Count[v] : (h \o e)[1 + i] = e[i]
    BY <2>1, <2>2, <1>1, ConcatItems
  <2>5. h \o e # <<>>
    BY <2>1, <2>2, <2>4, <1>1
  <2> QED
    BY <2>1, <2>3, <2>4, <2>5 DEF e
<1>4. HasHead(p)
  BY <1>3 DEF HasHead, Heads
<1>5. Total(p) = Count[v]
  BY <1>3 DEF Total
<1>6. \A i \in 1 .. Count[v] : EntriesOf(v)[i] \in Entries
  BY <1>1 DEF EntriesOf, Entries
<1>7. ASSUME NEW i \in 1 .. Count[v]
      PROVE  EntryAt(p, i) = EntriesOf(v)[i]
  <2>1. 1 + i <= Len(recipe[p])
    BY <1>1, <1>3
  <2>2. \A j \in 2 .. 1 + i : recipe[p][j] \in Entries
    <3> TAKE j \in 2 .. 1 + i
    <3>1. j - 1 \in 1 .. Count[v] /\ j = 1 + (j - 1)
      BY <1>1
    <3> QED
      BY <1>3, <1>6, <3>1
  <2> QED
    BY <1>3, <2>1, <2>2 DEF EntryAt
<1>8. Restored(p) = [i \in 1 .. Count[v] |-> EntryAt(p, i)]
  BY <1>4, <1>5 DEF Restored
<1>9. Restored(p) = EntriesOf(v)
  BY <1>7, <1>8 DEF EntriesOf
<1> QED
  BY <1>9 DEF Complete

\* A recipe a step leaves whole stays whole.
LEMMA CompleteStays ==
  ASSUME RecipesTyped, [RecipeNext]_recipeVars, NEW p \in Paths, Complete(p)
  PROVE  Complete(p)'
<1>1. PICK t \in Seq(Stored) : recipe'[p] = recipe[p] \o t
  BY StepAppends
<1>2. RecipesTyped' /\ meta \subseteq meta'
  BY StepAppends, MetaGrows
<1>3. Restored(p)' = Restored(p)
  BY <1>1, <1>2, AppendKeeps
<1> QED
  BY <1>3 DEF Complete

\* A path is struck once and for all, and a fault strikes the path being uploaded.
LEMMA StruckGrows ==
  /\ [RecipeNext]_recipeVars => struck \subseteq struck'
  /\ SaveRecipeFails \/ RecipeCrash => upload.path \in struck'
<1>1. [RecipeNext]_recipeVars => struck \subseteq struck'
  BY DEF RecipeNext, recipeVars, QueryKnown, QueryNew, SaveRecipe,
         SaveRecipeFails, RecipeCrash
<1>2. SaveRecipeFails \/ RecipeCrash => upload.path \in struck'
  BY DEF SaveRecipeFails, RecipeCrash
<1> QED
  BY <1>1, <1>2

\* One step.
LEMMA BegunStep ==
  ASSUME RecipesTyped, Begun, [RecipeNext]_recipeVars
  PROVE  Begun'
<1>1. RecipesTyped'
  BY StepAppends
<1>0. (step # "idle" /\ upload.path \notin struck => upload.path \in meta)'
  <2>1. ASSUME NEW r \in Paths, NEW v \in Versions, QueryKnown(r, v) \/ QueryNew(r, v)
        PROVE  (r \in meta' \/ r \in struck') /\ upload'.path = r
    BY <2>1 DEF QueryKnown, QueryNew, BeginUpload
  <2>2. CASE SaveRecipe \/ SaveRecipeFails \/ RecipeCrash
    BY <2>2 DEF SaveRecipe, SaveRecipeFails, RecipeCrash
  <2>3. CASE UNCHANGED recipeVars
    BY <2>3 DEF recipeVars, Begun
  <2> QED
    BY <2>1, <2>2, <2>3 DEF RecipeNext
<1>2. SUFFICES ASSUME NEW p \in Paths, p \notin struck'
               PROVE  /\ (p \notin meta \/ Creating(p))' =>
                           recipe'[p] = <<>> /\ latest'[p] = NoUpload
                      /\ Creating(p)' => p \in meta'
                      /\ (p \in meta /\ ~Creating(p))' => Complete(p)'
  BY <1>0 DEF Begun
<1>12. p \notin struck
  BY <1>2, StruckGrows
<1>3. /\ p \notin meta \/ Creating(p) => recipe[p] = <<>> /\ latest[p] = NoUpload
      /\ p \in meta /\ ~Creating(p) => Complete(p)
      /\ Creating(p) => p \in meta
  BY <1>12 DEF Begun, Creating
<1>4. Complete(p) => Complete(p)'
  BY CompleteStays
<1>5. ASSUME NEW r \in Paths, NEW v \in Versions, QueryKnown(r, v)
      PROVE  /\ ~Creating(p) /\ ~Creating(p)'
             /\ meta' = meta /\ recipe' = recipe /\ latest' = latest
  BY <1>5 DEF QueryKnown, BeginUpload, Creating
<1>6. ASSUME NEW r \in Paths, NEW v \in Versions, QueryNew(r, v)
      PROVE  /\ ~Creating(p) /\ (Creating(p)' <=> p = r)
             /\ r \notin meta
             /\ (meta' = meta \cup {r}) \/ (meta' = meta /\ r \in struck')
             /\ recipe' = recipe /\ latest' = latest
  BY <1>6 DEF QueryNew, BeginUpload, Creating
<1>7. CASE SaveRecipe
  <2>1. upload.path \in Paths /\ upload.version \in Versions
    BY <1>7 DEF SaveRecipe, RecipesTyped
  <2>2. ~Creating(p)' /\ meta' = meta
    BY <1>7 DEF SaveRecipe, Creating
  <2>3. CASE Creating(p)
    <3>1. recipe'[p] = <<>> \o Items("create", upload.version)
      BY <1>3, <1>7, <2>3 DEF SaveRecipe, RecipesTyped, Creating
    <3>2. Items("create", upload.version) \in Seq(Stored)
      BY <2>1, ItemsTyped
    <3>3. recipe'[p] = <<[head |-> upload.version]>> \o EntriesOf(upload.version)
      BY <3>1, <3>2 DEF Items
    <3>4. p \in meta'
      BY <1>3, <2>2, <2>3
    <3>5. Complete(p)'
      <4>1. FreshWhole'
        BY FreshComplete, PTL
      <4> QED
        BY <2>1, <3>3, <3>4, <4>1 DEF FreshWhole
    <3> QED
      BY <2>2, <3>4, <3>5
  <2>4. CASE ~Creating(p) /\ p \in meta
    BY <1>3, <1>4, <2>2, <2>4
  <2>5. CASE p \notin meta
    <3>1. upload.path # p
      BY <1>7, <1>12, <2>1, <2>5 DEF SaveRecipe, Begun
    <3> QED
      BY <1>3, <1>7, <2>2, <2>5, <3>1 DEF SaveRecipe, RecipesTyped
  <2> QED
    BY <2>3, <2>4, <2>5
<1>8. CASE SaveRecipeFails \/ RecipeCrash
  <2>1. upload.path # p
    BY <1>2, <1>8, StruckGrows
  <2>2. ~Creating(p) /\ ~Creating(p)'
    BY <1>8, <2>1 DEF SaveRecipeFails, RecipeCrash, Creating
  <2>3. meta' = meta /\ latest' = latest /\ recipe'[p] = recipe[p]
    BY <1>8, <2>1 DEF SaveRecipeFails, RecipeCrash, RecipesTyped
  <2> QED
    BY <1>3, <1>4, <2>2, <2>3
<1>9. CASE UNCHANGED recipeVars
  BY <1>3, <1>4, <1>9 DEF recipeVars, Creating
<1>10. CASE \E r \in Paths, v \in Versions : QueryKnown(r, v)
  BY <1>3, <1>4, <1>5, <1>10
<1>11. CASE \E r \in Paths, v \in Versions : QueryNew(r, v)
  <2>1. PICK r \in Paths, v \in Versions : QueryNew(r, v)
    BY <1>11
  <2>2. /\ ~Creating(p) /\ (Creating(p)' <=> p = r) /\ r \notin meta
        /\ (meta' = meta \cup {r}) \/ (meta' = meta /\ r \in struck')
        /\ recipe' = recipe /\ latest' = latest
    BY <1>6, <2>1
  <2>3. CASE p = r
    BY <1>2, <1>3, <2>2, <2>3
  <2>4. CASE p # r
    BY <1>3, <1>4, <2>2, <2>4
  <2> QED
    BY <2>3, <2>4
<1> QED
  BY <1>7, <1>8, <1>9, <1>10, <1>11 DEF RecipeNext

\* A path that some upload reported saved always restores to the whole of one
\* uploaded version, unless a fault struck an upload of that path itself.
THEOREM WholeAlways == RecipeSpec => []WholeVersions
<1>1. RecipeInit => Begun
  BY DEF RecipeInit, Begun, Creating
<1>2. RecipesTyped /\ Begun /\ [RecipeNext]_recipeVars => Begun'
  BY BegunStep
<1>3. Begun => WholeVersions
  BY DEF Begun, WholeVersions, Creating
<1> QED
  BY <1>1, <1>2, <1>3, RecipesTypeCorrect, PTL DEF RecipeSpec
=============================================================================
