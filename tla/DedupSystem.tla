----------------------------- MODULE DedupSystem -----------------------------
(***************************************************************************)
(* The program from end to end, session by session: main opens the two     *)
(* LevelDB databases and StorageCore, then runs an upload (client -s) or a *)
(* restore (client -r), joins its threads and deletes StorageCore.         *)
(*                                                                         *)
(* ContainerStore has the chunks and Recipes the recipes.  In an upload    *)
(* the thread of Chunker::varSizeChunking asks fp2ChunkDB for every chunk  *)
(* and has StorageCore save the ones it does not know, then ends the       *)
(* recipe with checkRecipeStatus.  In a restore RecvDecode and Retriever   *)
(* (whose interleaving is in Restore) write the chunks the recipe lists to *)
(* an ofstream, which keeps a short one in its buffer.                     *)
(***************************************************************************)
EXTENDS ContainerStore, Recipes

CONSTANTS
  Cut,        \* Cut[v]: the chunks version v is cut into
  WriteThrough,  \* an ofstream keeps what is shorter in its buffer
  NoJob

ASSUME CutAssumption ==
  /\ Cut \in [Versions -> Seq(Chunks)]
  /\ \A v \in Versions : Count[v] = Len(Cut[v])

\* All chunks but the last of a file have minChunkSize bytes, which are written through.
ASSUME WriteThroughAssumption ==
  /\ WriteThrough \in Nat
  /\ \A v \in Versions : \A i \in 1 .. Len(Cut[v]) - 1 : Size[Cut[v][i]] >= WriteThrough

ASSUME NoJobAssumption == NoJob \notin Paths \cup [path : Paths, version : Versions]

VARIABLES
  phase,     \* of the session: "none", "cutting", "recipe", "reading", "stuck", "over"
  job,       \* the path and version being uploaded
  at,        \* the next chunk of the upload or the restore
  wanted,    \* the path being restored
  buffer,    \* the chunks in the buffer of retrieveFile_
  file,      \* the chunks in the restored file
  sound,     \* history: no fault has struck since this session began
  closed     \* history: the upload of the last session, if that ended well

restored    == <<buffer, file>>
session     == <<phase, job, at, wanted, restored>>
history     == <<sound, closed>>
systemVars  == <<vars, recipeVars, session, history>>

SystemInit ==
  /\ Init
  /\ RecipeInit
  /\ phase = "none" /\ job = NoJob /\ at = 1
  /\ wanted = NoJob /\ buffer = <<>> /\ file = <<>>
  /\ sound = TRUE /\ closed = NoJob

-----------------------------------------------------------------------------
(* An upload: main and varSizeChunking.                                    *)

StartUpload(p, v) ==
  /\ Start("store")
  /\ phase' = "cutting"
  /\ job' = [path |-> p, version |-> v]
  /\ sound' = TRUE /\ closed' = NoJob
  /\ UNCHANGED <<recipeVars, at, wanted, restored>>

\* Faulty variant: the final chunk, behind the last anchor, is not added.
MoreNoFinal == phase = "cutting" /\ at < Count[job.version]

More == phase = "cutting" /\ at <= Count[job.version]

Chunk == Cut[job.version][at]

\* fp2ChunkDB knows the chunk: only the recipe will mention it
Deduplicate ==
  /\ More
  /\ pc = "store"
  /\ db[Chunk] # NoEntry
  /\ at' = at + 1
  /\ UNCHANGED <<vars, recipeVars, phase, job, wanted, restored, history>>

\* saveChunk up to the insertion of the key
Save ==
  /\ \/ More /\ SaveChunk(Chunk)
     \/ RolloverWrite
  /\ sound' = (sound /\ tainted' = tainted)
  /\ UNCHANGED <<recipeVars, session, closed>>

Saved ==
  /\ InsertKey
  /\ at' = at + 1
  /\ UNCHANGED <<recipeVars, phase, job, wanted, restored, history>>

\* varSizeChunking returns without a recipe
NotSaved ==
  /\ InsertFails
  /\ phase' = "over"
  /\ sound' = FALSE
  /\ UNCHANGED <<recipeVars, job, at, wanted, restored, closed>>

CheckRecipe ==
  /\ phase = "cutting" /\ ~More
  /\ pc = "store"
  /\ \/ QueryKnown(job.path, job.version)
     \/ QueryNew(job.path, job.version)
  /\ phase' = "recipe"
  /\ sound' = (sound /\ job.path \in meta')
  /\ UNCHANGED <<vars, job, at, wanted, restored, closed>>

RecipeSaved ==
  /\ phase = "recipe"
  /\ SaveRecipe
  /\ phase' = "over"
  /\ UNCHANGED <<vars, job, at, wanted, restored, history>>

RecipeNotSaved ==
  /\ phase = "recipe"
  /\ SaveRecipeFails
  /\ phase' = "over"
  /\ sound' = FALSE
  /\ UNCHANGED <<vars, job, at, wanted, restored, closed>>

-----------------------------------------------------------------------------
(* A restore: RecvDecode, restoreRecipeAndChunk and Retriever.             *)

StartRestore(p) ==
  /\ Start("restore")
  /\ phase' = "reading"
  /\ wanted' = p
  /\ sound' = TRUE /\ closed' = NoJob
  /\ UNCHANGED <<recipeVars, job, at, restored>>

Reads == phase = "reading" /\ HasHead(wanted)

\* the chunks entry at of the recipe may name: what is read beyond the proper
\* entries is any bytes
NamedChunks ==
  LET e == EntryAt(wanted, at) IN
    IF e \in Entries THEN {Cut[e.entry][e.id]} ELSE Chunks

\* ofstream::write: a short chunk stays in the buffer if there is room; any other
\* goes to the file, behind what the buffer holds
Write(c, data) ==
  \/ /\ Size[c] < WriteThrough
     /\ buffer' = Append(buffer, data) /\ UNCHANGED file
  \/ /\ Size[c] >= WriteThrough \/ buffer # <<>>
     /\ file' = Append(file \o buffer, data) /\ buffer' = <<>>

\* restoreChunk returns a chunk, which recvThread writes
RestoreOne ==
  /\ Reads
  /\ at <= Total(wanted)
  /\ \E c \in NamedChunks :
       /\ ReadCached(c) \/ ReadCurrent(c) \/ ReadFile(c)
       /\ Write(c, got'.data)
  /\ at' = at + 1
  /\ UNCHANGED <<recipeVars, phase, job, wanted, history>>

\* the container of the chunk is not there, fp2ChunkDB does not know the chunk,
\* or its name is no chunk's: RecvDecode::run returns, recvThread waits for ever
RestoreStuck ==
  /\ Reads
  /\ at <= Total(wanted)
  /\ \/ \E c \in NamedChunks : ReadMissing(c)
     \/ /\ EntryAt(wanted, at) \notin Entries \/ \E c \in NamedChunks : db[c] = NoEntry
        /\ UNCHANGED vars
  /\ phase' = "stuck"
  /\ UNCHANGED <<recipeVars, job, at, wanted, restored, history>>

\* without a head the number of chunks is what memory or the file's first bytes
\* say: zero, or more than there are
RestoreHeadless ==
  /\ phase = "reading" /\ ~HasHead(wanted)
  /\ phase' \in {"stuck", "over"}
  /\ UNCHANGED <<vars, recipeVars, job, at, wanted, restored, history>>

RestoreDone ==
  /\ Reads
  /\ at > Total(wanted)
  /\ phase' = "over"
  /\ UNCHANGED <<vars, recipeVars, job, at, wanted, restored, history>>

-----------------------------------------------------------------------------
(* The end of a session.                                                   *)

\* main returns, or the process dies.  The Retriever is never deleted: what its
\* ofstream has in its buffer is lost, and the file stays as it is.
Forgotten ==
  /\ phase' = "none" /\ job' = NoJob /\ at' = 1
  /\ wanted' = NoJob /\ buffer' = <<>> /\ file' = <<>>

\* the threads have been joined: the destructor of StorageCore
Close ==
  /\ phase = "over"
  /\ WriteConfig \/ FlushOpen
  /\ UNCHANGED <<recipeVars, session, history>>

Closed ==
  /\ phase = "over"
  /\ FlushWrite \/ FlushFails
  /\ Forgotten
  /\ closed' = IF sound /\ tainted' = tainted THEN job ELSE NoJob
  /\ UNCHANGED <<recipeVars, sound>>

\* the process dies, or is killed when a restore is stuck
Die ==
  /\ Crash \/ TornWrite
  /\ TornConfig => phase = "over"
  /\ IF phase = "recipe" THEN RecipeCrash ELSE UNCHANGED recipeVars
  /\ Forgotten
  /\ sound' = FALSE
  /\ UNCHANGED closed

SystemNext ==
  \/ \E p \in Paths, v \in Versions : StartUpload(p, v)
  \/ Deduplicate \/ Save \/ Saved \/ NotSaved
  \/ CheckRecipe \/ RecipeSaved \/ RecipeNotSaved
  \/ \E p \in Paths : StartRestore(p)
  \/ RestoreOne \/ RestoreStuck \/ RestoreHeadless \/ RestoreDone
  \/ Close \/ Closed
  \/ Die

SystemSpec == SystemInit /\ [][SystemNext]_systemVars

-----------------------------------------------------------------------------
(* Properties                                                              *)

Listed(v) == {Cut[v][i] : i \in 1 .. Len(Cut[v])}

\* Whatever crashes and failures, a recipe never lists a chunk fp2ChunkDB does
\* not know: chunks are inserted before the recipe that lists them is written.
ListedKnown ==
  \A p \in Paths : \A i \in 1 .. Len(recipe[p]) :
    recipe[p][i] \in Entries =>
      db[Cut[recipe[p][i].entry][recipe[p][i].id]] # NoEntry

\* Once a recipe lists a whole version, what it lists never changes; and when the
\* chunks of that version are durable, no later session, nor its crash, its failures
\* or its uploads of the same path, loses any, unless a write is torn.  When they
\* are sealed, not even then.
ArchivedKept ==
  [][\A p \in Paths, v \in Versions :
       Restored(p) = EntriesOf(v) =>
         /\ Restored(p)' = EntriesOf(v)
         /\ (\A c \in Listed(v) : Durable(c)) /\ ~TornWrite => \A c \in Listed(v) : Durable(c)'
         /\ (\A c \in Listed(v) : Sealed(c)) => \A c \in Listed(v) : Sealed(c)']_systemVars

\* A restore of p can yield version v.
Servable(p, v) ==
  Restored(p) = EntriesOf(v) /\ \A c \in Listed(v) : Restorable(c)

\* When a session has uploaded a file ("verify Recipe succes", Chunker.cpp, 377) and
\* closed the store, and no fault has ever struck it, every chunk of that file can be
\* restored, those it was deduplicated against included, and a restore of its path
\* can yield some whole version.
CleanUploadServed ==
  pc = "down" /\ closed # NoJob /\ ~tainted =>
    /\ \A c \in Listed(closed.version) : Restorable(c)
    /\ closed.path \notin struck => \E v \in Versions : Servable(closed.path, v)

\* ... and so can it whatever struck earlier sessions: the upload itself met no fault.
UploadServed ==
  pc = "down" /\ closed # NoJob =>
    \A c \in Listed(closed.version) : Restorable(c)

\* The bytes of version v, chunk by chunk.
Content(v) ==
  [i \in 1 .. Len(Cut[v]) |-> [j \in 0 .. Size[Cut[v][i]] - 1 |-> <<Cut[v][i], j>>]]

\* The first n chunks of version v.
Beginning(v, n) == [i \in 1 .. n |-> Content(v)[i]]

\* How many of the first n chunks of version v, once written, are in the file: a
\* short last one is in the buffer.
InFile(v, n) == IF n > 0 /\ Size[Cut[v][n]] < WriteThrough THEN n - 1 ELSE n

\* A restore of a path that can yield a version does not get stuck, whatever sessions
\* came before and whatever struck them; when main returns, the file has the bytes of
\* that version, no others and none of them elsewhere.  All that can be missing is a
\* last chunk short enough for the buffer of the ofstream, which nobody closes.
RestoreServes ==
  \A p \in Paths, v \in Versions :
    wanted = p /\ Servable(p, v) =>
      /\ phase # "stuck"
      /\ phase = "over" => file = Beginning(v, InFile(v, Count[v]))

-----------------------------------------------------------------------------
(* The inductive invariant behind the theorems of DedupSystem_proofs,      *)
(* together with the ones of ContainerStore and Recipes.                   *)

Jobs   == [path : Paths, version : Versions]
Phases == {"none", "cutting", "recipe", "reading", "stuck", "over"}

SessionTyped ==
  /\ phase \in Phases /\ at \in Nat \ {0}
  /\ job \in Jobs \cup {NoJob} /\ wanted \in Paths \cup {NoJob} /\ closed \in Jobs \cup {NoJob}
  /\ phase = "none" <=> pc = "down"
  /\ phase = "none" => at = 1 /\ job = NoJob /\ wanted = NoJob /\ restored = <<<<>>, <<>>>>
  /\ phase \in {"cutting", "recipe"} => job \in Jobs /\ wanted = NoJob
  /\ phase \in {"reading", "stuck"} => job = NoJob /\ wanted \in Paths
  /\ phase = "reading" => pc = "restore"
  /\ phase = "stuck" => pc \in {"restore", "hung"}
  /\ phase = "over" /\ wanted # NoJob => job = NoJob /\ pc \in {"restore", "closing", "flushing"}

\* The chunks before at are in fp2ChunkDB; the chunk saveChunk is at is the next one.
CuttingOK ==
  /\ phase = "cutting" =>
       /\ at <= Count[job.version] + 1
       /\ \A i \in 1 .. at - 1 : Cut[job.version][i] \in Known
  /\ pc \in {"insert", "rollover"} => More /\ pending.chunk = Chunk

\* checkRecipeStatus runs when all chunks are known, for the upload under way.
RecipeOK ==
  /\ phase # "recipe" => step = "idle"
  /\ phase = "recipe" => step # "idle" /\ upload = job /\ Listed(job.version) \subseteq Known

\* The upload j has ended well.
Uploaded(j) == Listed(j.version) \subseteq Known /\ latest[j.path] # NoUpload

UploadedOK ==
  /\ phase = "over" /\ sound /\ job # NoJob => Uploaded(job)
  /\ closed # NoJob => Uploaded(closed)

\* An entry names a chunk of its version that fp2ChunkDB knows.
Proper(e) == e \in Entries => e.id \in 1 .. Count[e.entry] /\ Cut[e.entry][e.id] \in Known

RecipesProper == \A p \in Paths : \A i \in 1 .. Len(recipe[p]) : Proper(recipe[p][i])

\* What a restore of a path that can yield v has in the file is the beginning of v,
\* and nothing is in the buffer before the last chunk.
Serving ==
  \A p \in Paths, v \in Versions :
    wanted = p /\ Servable(p, v) =>
      /\ phase # "stuck"
      /\ phase = "reading" =>
           /\ at <= Count[v] + 1
           /\ at <= Count[v] => buffer = <<>>
           /\ file = Beginning(v, InFile(v, at - 1))
      /\ phase = "over" => file = Beginning(v, InFile(v, Count[v]))

SystemInv ==
  SessionTyped /\ CuttingOK /\ RecipeOK /\ UploadedOK /\ RecipesProper /\ Serving
=============================================================================
