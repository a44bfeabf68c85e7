-------------------------- MODULE DedupSystem_proofs --------------------------
(***************************************************************************)
(* The sessions of DedupSystem run ContainerStore and Recipes as these two *)
(* modules say: the theorems about them hold of the whole program.  What   *)
(* they promise together follows from the invariant SystemInv, which says  *)
(* how far the session is and what it has already made sure of.            *)
(***************************************************************************)
EXTENDS DedupSystem, StorageCore_proofs

\* Whatever holds of the parts of the program in every state.
SystemIInv ==
  /\ IInv /\ ReadInv /\ CleanShutdown
  /\ RecipesTyped /\ Begun
  /\ SystemInv

-----------------------------------------------------------------------------
(* Versions, recipes and what they list.                                   *)

LEMMA CutFacts ==
  ASSUME NEW v \in Versions
  PROVE  /\ Count[v] \in Nat /\ Len(Cut[v]) = Count[v]
         /\ \A i \in 1 .. Count[v] : Cut[v][i] \in Chunks
         /\ Listed(v) \subseteq Chunks
  <1>1. Cut[v] \in Seq(Chunks) /\ Count[v] = Len(Cut[v])
    BY CutAssumption
  <1>2. \A i \in 1 .. Len(Cut[v]) : Cut[v][i] \in Chunks
    BY <1>1, ElementOfSeq
  <1> QED
    BY <1>1, <1>2 DEF Listed

LEMMA EntriesFacts ==
  ASSUME NEW v \in Versions, NEW i \in 1 .. Count[v]
  PROVE  /\ EntriesOf(v)[i] = [entry |-> v, id |-> i]
         /\ EntriesOf(v)[i] \in Entries
  <1>1. EntriesOf(v)[i] = [entry |-> v, id |-> i] /\ i \in Nat
    BY CutFacts DEF EntriesOf
  <1> QED
    BY <1>1 DEF Entries

\* When the restore of p yields version v, the recipe has a head, announces as many
\* chunks as v has, and entry i is that of chunk i.
LEMMA RestoredFacts ==
  ASSUME RecipesTyped, NEW p \in Paths, NEW v \in Versions, Restored(p) = EntriesOf(v)
  PROVE  /\ HasHead(p) /\ Total(p) = Count[v]
         /\ \A i \in 1 .. Count[v] : EntryAt(p, i) = [entry |-> v, id |-> i]
         /\ \A i \in 1 .. Count[v] :
              1 + i \in 1 .. Len(recipe[p]) /\ recipe[p][1 + i] = [entry |-> v, id |-> i]
  <1>1. Complete(p)
    BY DEF Complete
  <1>2. HasHead(p) /\ Total(p) \in Nat /\ 1 + Total(p) <= Len(recipe[p])
        /\ \A i \in 1 .. Total(p) : recipe[p][1 + i] \in Entries
    BY <1>1, CompleteShape
  <1>3. [i \in 1 .. Total(p) |-> EntryAt(p, i)] = EntriesOf(v)
    BY <1>2 DEF Restored
  <1>4. 1 .. Total(p) = 1 .. Count[v] /\ Count[v] \in Nat
    BY <1>3, CutFacts DEF EntriesOf
  <1>5. Total(p) = Count[v]
    <2>1. CASE Total(p) = 0
      BY <1>4, <2>1
    <2>2. CASE Total(p) # 0
      <3>1. Total(p) \in 1 .. Total(p) /\ (Count[v] # 0 => Count[v] \in 1 .. Count[v])
        BY <1>2, <1>4, <2>2
      <3>2. Total(p) \in 1 .. Count[v]
        BY <1>4, <3>1
      <3>3. Count[v] \in 1 .. Total(p)
        BY <1>2, <1>4, <3>1, <3>2
      <3> QED
        BY <1>2, <1>4, <3>2, <3>3
    <2> QED
      BY <2>1, <2>2
  <1>6. ASSUME NEW i \in 1 .. Count[v]
        PROVE  EntryAt(p, i) = [entry |-> v, id |-> i]
    BY <1>3, <1>5, EntriesFacts
  <1>7. ASSUME NEW i \in 1 .. Count[v]
        PROVE  1 + i \in 1 .. Len(recipe[p]) /\ recipe[p][1 + i] = [entry |-> v, id |-> i]
    <2>1. EntryAt(p, i) # Junk
      BY <1>6, EntriesFacts, JunkAssumption
    <2>2. EntryAt(p, i) = recipe[p][1 + i] /\ 1 + i <= Len(recipe[p])
      BY <2>1 DEF EntryAt
    <2>3. Len(recipe[p]) \in Nat
      BY DEF RecipesTyped
    <2> QED
      BY <1>4, <1>6, <2>2, <2>3
  <1> QED
    BY <1>2, <1>5, <1>6, <1>7

\* The chunks of a version some recipe yields are known.
LEMMA RestoredKnown ==
  ASSUME RecipesTyped, RecipesProper, NEW p \in Paths, NEW v \in Versions,
         Restored(p) = EntriesOf(v)
  PROVE  Listed(v) \subseteq Known
  <1>1. ASSUME NEW i \in 1 .. Count[v]
        PROVE  Cut[v][i] \in Known
    <2>1. 1 + i \in 1 .. Len(recipe[p]) /\ recipe[p][1 + i] = [entry |-> v, id |-> i]
      BY RestoredFacts
    <2>2. [entry |-> v, id |-> i] \in Entries
      BY EntriesFacts
    <2>3. Proper(recipe[p][1 + i])
      BY <2>1 DEF RecipesProper
    <2> QED
      BY <2>1, <2>2, <2>3 DEF Proper
  <1> QED
    BY <1>1, CutFacts DEF Listed

\* What is known stays known.
LEMMA KnownGrows ==
  ASSUME TypeOK, PendingOK, [Next]_vars
  PROVE  Known \subseteq Known'
  <1>1. CASE db' = db
    BY <1>1 DEF Known
  <1>2. CASE InsertKey
    <2>1. pending.place # NoEntry /\ pending.chunk \in Chunks
      BY <1>2, NoValuesAssumption DEF InsertKey, PendingOK, TypeOK, Placed
    <2> QED
      BY <1>2, <2>1 DEF InsertKey, Known, TypeOK
  <1> QED
    BY <1>1, <1>2, DbNext

-----------------------------------------------------------------------------
(* A session takes the steps of the store and of the recipes.              *)

LEMMA ChunkTyped ==
  ASSUME SystemIInv
  PROVE  /\ More => Chunk \in Chunks /\ at \in 1 .. Count[job.version] /\ job.version \in Versions
         /\ phase = "reading" => NamedChunks \subseteq Chunks
  <1>1. SessionTyped /\ RecipesProper /\ RecipesTyped
    BY DEF SystemIInv, SystemInv
  <1>2. ASSUME More
        PROVE  Chunk \in Chunks /\ at \in 1 .. Count[job.version] /\ job.version \in Versions
    <2>1. job.version \in Versions /\ at \in Nat \ {0} /\ at <= Count[job.version]
      BY <1>1, <1>2 DEF More, SessionTyped, Jobs
    <2>2. at \in 1 .. Count[job.version]
      BY <2>1, CutFacts
    <2> QED
      BY <2>1, <2>2, CutFacts DEF Chunk
  <1>3. ASSUME phase = "reading"
        PROVE  NamedChunks \subseteq Chunks
    <2>1. wanted \in Paths /\ at \in Nat
      BY <1>1, <1>3 DEF SessionTyped
    <2> DEFINE e == EntryAt(wanted, at)
    <2>2. ASSUME e \in Entries
          PROVE  Cut[e.entry][e.id] \in Chunks
      <3>1. CASE e = recipe[wanted][1 + at] /\ 1 + at <= Len(recipe[wanted])
        <4>1. 1 + at \in 1 .. Len(recipe[wanted])
          BY <1>1, <2>1, <3>1 DEF RecipesTyped
        <4>2. Proper(e)
          BY <1>1, <2>1, <3>1, <4>1 DEF RecipesProper
        <4>3. Cut[e.entry][e.id] \in Known
          BY <2>2, <4>2 DEF Proper
        <4> QED
          BY <4>3 DEF Known
      <3>2. CASE e = Junk
        BY <2>2, <3>2, JunkAssumption
      <3> QED
        BY <3>1, <3>2 DEF EntryAt
    <2> QED
      BY <2>2 DEF NamedChunks
  <1> QED
    BY <1>2, <1>3

LEMMA StoreStep ==
  ASSUME SystemIInv, [SystemNext]_systemVars
  PROVE  [Next]_vars
  <1>1. ASSUME NEW p \in Paths, NEW v \in Versions, StartUpload(p, v) PROVE Next
    BY <1>1 DEF StartUpload, Next
  <1>2. ASSUME NEW p \in Paths, StartRestore(p) PROVE Next
    BY <1>2 DEF StartRestore, Next
  <1>3. CASE Save
    BY <1>3, ChunkTyped DEF Save, Next
  <1>4. CASE Saved \/ NotSaved \/ Close \/ Closed \/ Die
    BY <1>4 DEF Saved, NotSaved, Close, Closed, Die, Next
  <1>5. CASE RestoreOne
    BY <1>5, ChunkTyped DEF RestoreOne, Reads, ReadChunk, Next
  <1>6. CASE RestoreStuck
    BY <1>6, ChunkTyped DEF RestoreStuck, Reads, ReadChunk, Next
  <1>7. CASE \/ Deduplicate \/ CheckRecipe \/ RecipeSaved \/ RecipeNotSaved
             \/ RestoreHeadless \/ RestoreDone
    BY <1>7 DEF Deduplicate, CheckRecipe, RecipeSaved, RecipeNotSaved, RestoreHeadless,
       RestoreDone
  <1>8. CASE UNCHANGED systemVars
    BY <1>8 DEF systemVars
  <1> QED
    BY <1>1, <1>2, <1>3, <1>4, <1>5, <1>6, <1>7, <1>8 DEF SystemNext

LEMMA RecipeStep ==
  ASSUME SystemIInv, [SystemNext]_systemVars
  PROVE  [RecipeNext]_recipeVars
  <1>1. CASE CheckRecipe
    <2>1. job.path \in Paths /\ job.version \in Versions
      BY <1>1 DEF CheckRecipe, SystemIInv, SystemInv, SessionTyped, Jobs
    <2> QED
      BY <1>1, <2>1 DEF CheckRecipe, RecipeNext
  <1>2. CASE RecipeSaved \/ RecipeNotSaved \/ Die
    BY <1>2 DEF RecipeSaved, RecipeNotSaved, Die, RecipeNext
  <1>3. CASE UNCHANGED recipeVars
    BY <1>3
  <1> QED
    BY <1>1, <1>2, <1>3 DEF SystemNext, StartUpload, StartRestore, Deduplicate, Save, Saved,
       NotSaved, RestoreOne, RestoreStuck, RestoreHeadless, RestoreDone, Close, Closed, systemVars

\* The invariants of the two parts are kept.
LEMMA PartsNext ==
  ASSUME SystemIInv, [SystemNext]_systemVars
  PROVE  /\ IInv' /\ ReadInv' /\ CleanShutdown'
         /\ RecipesTyped' /\ Begun'
         /\ Known \subseteq Known'
  <1>1. [Next]_vars /\ [RecipeNext]_recipeVars
    BY StoreStep, RecipeStep
  <1>2. IInv /\ ReadInv /\ CleanShutdown /\ RecipesTyped /\ Begun
    BY DEF SystemIInv
  <1>3. IInv' /\ ReadInv' /\ CleanShutdown'
    BY <1>1, <1>2, IInvNext, ReadNext, CleanNext
  <1>4. RecipesTyped' /\ Begun'
    BY <1>1, <1>2, StepAppends, BegunStep
  <1>5. Known \subseteq Known'
    BY <1>1, <1>2, KnownGrows DEF IInv
  <1> QED
    BY <1>3, <1>4, <1>5

-----------------------------------------------------------------------------
(* Each part of SystemInv, over one step.                                  *)

LEMMA SessionNext ==
  ASSUME SystemIInv, [SystemNext]_systemVars
  PROVE  SessionTyped'
  <1>0. SessionTyped /\ CuttingOK /\ NoJob \notin Paths /\ NoJob \notin Jobs
    BY NoJobAssumption DEF SystemIInv, SystemInv, Jobs
  <1>1. ASSUME NEW p \in Paths, NEW v \in Versions, StartUpload(p, v) PROVE SessionTyped'
    <2>1. job' \in Jobs
      BY <1>1 DEF StartUpload, Jobs
    <2> QED
      BY <1>0, <1>1, <2>1 DEF StartUpload, Start, SessionTyped, Phases
  <1>2. ASSUME NEW p \in Paths, StartRestore(p) PROVE SessionTyped'
    BY <1>0, <1>2 DEF StartRestore, Start, SessionTyped, Phases
  <1>3. CASE Deduplicate
    BY <1>0, <1>3 DEF Deduplicate, More, SessionTyped, vars, history, Phases
  <1>4. CASE Save
    <2>1. pc # "down" /\ pc' # "down" /\ phase = "cutting"
      BY <1>0, <1>4 DEF Save, More, SaveChunk, AppendChunk, RolloverOpen, RolloverFails,
         RolloverWrite, OpenNext, CuttingOK
    <2> QED
      BY <1>0, <1>4, <2>1 DEF Save, session, SessionTyped
  <1>5. CASE Saved \/ NotSaved
    <2>1. phase = "cutting"
      BY <1>0, <1>5 DEF Saved, NotSaved, InsertKey, InsertFails, CuttingOK, More
    <2> QED
      BY <1>0, <1>5, <2>1
         DEF Saved, NotSaved, InsertKey, InsertFails, SessionTyped, Phases, history
  <1>6. CASE CheckRecipe \/ RecipeSaved \/ RecipeNotSaved
    BY <1>0, <1>6 DEF CheckRecipe, RecipeSaved, RecipeNotSaved, vars, history, SessionTyped, Phases
  <1>7. CASE RestoreOne
    <2>1. phase = "reading" /\ pc = "restore" /\ pc' = pc
      BY <1>7 DEF RestoreOne, Reads, ReadCached, ReadCurrent, ReadFile, Reading
    <2> QED
      BY <1>0, <1>7, <2>1 DEF RestoreOne, SessionTyped, history
  <1>8. CASE RestoreStuck
    <2>1. phase = "reading" /\ pc' \in {pc, "hung"}
      BY <1>8 DEF RestoreStuck, Reads, ReadMissing, vars
    <2> QED
      BY <1>0, <1>8, <2>1 DEF RestoreStuck, SessionTyped, history, Phases
  <1>9. CASE RestoreHeadless \/ RestoreDone
    BY <1>0, <1>9
       DEF RestoreHeadless, RestoreDone, Reads, SessionTyped, vars, history, Phases
  <1>10. CASE Close
    BY <1>0, <1>10 DEF Close, WriteConfig, FlushOpen, session, history, SessionTyped
  <1>11. CASE Closed \/ Die
    <2>1. pc' = "down"
      BY <1>11 DEF Closed, Die, FlushWrite, FlushFails, Crash, TornWrite, TornCrash, TornConfig
    <2>2. closed' \in Jobs \cup {NoJob}
      BY <1>0, <1>11 DEF Closed, Die, SessionTyped
    <2> QED
      BY <1>0, <1>11, <2>1, <2>2 DEF Closed, Die, Forgotten, restored, SessionTyped, Phases
  <1>12. CASE UNCHANGED systemVars
    BY <1>0, <1>12 DEF systemVars, vars, session, history, SessionTyped
  <1> QED
    BY <1>1, <1>2, <1>3, <1>4, <1>5, <1>6, <1>7, <1>8, <1>9, <1>10, <1>11, <1>12 DEF SystemNext

LEMMA CuttingNext ==
  ASSUME SystemIInv, [SystemNext]_systemVars
  PROVE  CuttingOK'
  <1>0. SessionTyped /\ CuttingOK /\ Known \subseteq Known'
    BY PartsNext DEF SystemIInv, SystemInv
  <1>1. ASSUME phase' # "cutting", pc' \notin {"insert", "rollover"} PROVE CuttingOK'
    BY <1>1 DEF CuttingOK
  <1>2. ASSUME NEW p \in Paths, NEW v \in Versions, StartUpload(p, v) PROVE CuttingOK'
    <2>1. at' = 1 /\ job'.version = v /\ pc' = "store" /\ Count[v] \in Nat
      BY <1>0, <1>2, CutFacts DEF StartUpload, Start, SessionTyped
    <2> QED
      BY <2>1 DEF CuttingOK
  <1>3. CASE Deduplicate \/ Saved
    <2>1. /\ phase = "cutting" /\ at \in 1 .. Count[job.version] /\ at' = at + 1
          /\ Count[job.version] \in Nat /\ UNCHANGED job /\ pc' = "store"
          /\ job.version \in Versions
      BY <1>0, <1>3, ChunkTyped, CutFacts DEF Deduplicate, Saved, More, InsertKey, CuttingOK, vars
    <2>2. Chunk \in Known'
      <3>1. CASE Deduplicate
        BY <1>0, <3>1, ChunkTyped DEF Deduplicate, Known
      <3>2. CASE Saved
        <4>1. InsertKey /\ More /\ pending.chunk = Chunk /\ Chunk \in Chunks
          BY <1>0, <3>2, ChunkTyped DEF Saved, InsertKey, CuttingOK
        <4>2. PICK c \in Chunks : c = pending.chunk
          BY <4>1
        <4>3. c \in Known'
          BY <4>1, <4>2, InsertStores DEF SystemIInv
        <4> QED
          BY <4>1, <4>2, <4>3
      <3> QED
        BY <1>3, <3>1, <3>2
    <2>3. ASSUME NEW i \in 1 .. at
          PROVE  Cut[job.version][i] \in Known'
      BY <1>0, <2>1, <2>2 DEF CuttingOK, Chunk
    <2> QED
      BY <2>1, <2>3 DEF CuttingOK
  <1>4. CASE Save
    <2>1. UNCHANGED session /\ More
      BY <1>0, <1>4 DEF Save, RolloverWrite, CuttingOK
    <2>2. pc' \in {"insert", "rollover"} => pending'.chunk = Chunk
      BY <1>0, <1>4 DEF Save, SaveChunk, AppendChunk, RolloverOpen, RolloverFails, RolloverWrite,
         OpenNext, Pending, CuttingOK
    <2> QED
      BY <1>0, <2>1, <2>2 DEF CuttingOK, More, Chunk, session
  <1>5. CASE NotSaved
    BY <1>1, <1>5 DEF NotSaved, InsertFails
  <1>6. CASE CheckRecipe \/ RecipeSaved \/ RecipeNotSaved
    <2>1. UNCHANGED pc /\ phase' # "cutting" /\ ~More
      BY <1>6 DEF CheckRecipe, RecipeSaved, RecipeNotSaved, vars, More
    <2> QED
      BY <1>0, <1>1, <2>1 DEF CuttingOK
  <1>7. CASE \/ \E p \in Paths : StartRestore(p)
             \/ RestoreOne \/ RestoreStuck \/ RestoreHeadless \/ RestoreDone
    <2>1. phase' \in {"reading", "stuck", "over"} /\ pc' \in {"restore", "hung"}
      BY <1>0, <1>7 DEF StartRestore, Start, RestoreOne, RestoreStuck, RestoreHeadless, RestoreDone,
         Reads, ReadCached, ReadCurrent, ReadFile, ReadMissing, Reading, SessionTyped, vars
    <2> QED
      BY <1>1, <2>1
  <1>8. CASE Close \/ Closed \/ Die
    <2>1. phase' # "cutting" /\ pc' \notin {"insert", "rollover"}
      BY <1>8 DEF Close, Closed, Die, Forgotten, WriteConfig, FlushOpen, FlushWrite, FlushFails,
         Crash, TornWrite, TornCrash, TornConfig, session
    <2> QED
      BY <1>1, <2>1
  <1>9. CASE UNCHANGED systemVars
    BY <1>0, <1>9 DEF systemVars, vars, memory, disk, session, CuttingOK, More, Chunk
  <1> QED
    BY <1>2, <1>3, <1>4, <1>5, <1>6, <1>7, <1>8, <1>9 DEF SystemNext

LEMMA RecipeOKNext ==
  ASSUME SystemIInv, [SystemNext]_systemVars
  PROVE  RecipeOK'
  <1>0. SessionTyped /\ CuttingOK /\ RecipeOK /\ Known \subseteq Known' /\ CuttingOK'
    BY PartsNext, CuttingNext DEF SystemIInv, SystemInv
  <1>1. CASE CheckRecipe
    <2>1. /\ phase = "cutting" /\ phase' = "recipe" /\ UNCHANGED job /\ job \in Jobs
          /\ upload' = [path |-> job.path, version |-> job.version] /\ step' # "idle"
      BY <1>0, <1>1 DEF CheckRecipe, QueryKnown, QueryNew, BeginUpload, SessionTyped
    <2>2. upload' = job'
      BY <2>1 DEF Jobs
    <2>3. job.version \in Versions /\ at > Count[job.version] /\ at <= Count[job.version] + 1
          /\ at \in Nat
      BY <1>0, <1>1, <2>1, CutFacts DEF CheckRecipe, More, CuttingOK, SessionTyped, Jobs
    <2>4. \A i \in 1 .. Count[job.version] : Cut[job.version][i] \in Known
      BY <1>0, <2>1, <2>3, CutFacts DEF CuttingOK
    <2>5. Listed(job.version) \subseteq Known'
      BY <1>0, <2>3, <2>4, CutFacts DEF Listed
    <2> QED
      BY <2>1, <2>2, <2>5 DEF RecipeOK, Listed
  <1>2. CASE RecipeSaved \/ RecipeNotSaved
    BY <1>2 DEF RecipeSaved, RecipeNotSaved, SaveRecipe, SaveRecipeFails, RecipeOK
  <1>3. CASE Die
    <2>1. step' = "idle" /\ phase' = "none"
      BY <1>0, <1>3 DEF Die, Forgotten, RecipeCrash, RecipeOK, recipeVars
    <2> QED
      BY <2>1 DEF RecipeOK
  <1>4. CASE \/ \E p \in Paths, v \in Versions : StartUpload(p, v)
             \/ \E p \in Paths : StartRestore(p)
             \/ Deduplicate \/ Save \/ Saved \/ NotSaved
             \/ RestoreOne \/ RestoreStuck \/ RestoreHeadless \/ RestoreDone
             \/ Closed
    <2>1. phase # "recipe" /\ phase' # "recipe" /\ UNCHANGED step
      BY <1>0, <1>4 DEF StartUpload, StartRestore, Start, SessionTyped, Deduplicate, More, Save,
         SaveChunk, AppendChunk, RolloverOpen, RolloverFails, RolloverWrite, OpenNext,
         Saved, NotSaved, InsertKey, InsertFails, CuttingOK, RestoreOne, RestoreStuck,
         RestoreHeadless, RestoreDone, Reads, Closed, Forgotten, session, recipeVars
    <2> QED
      BY <1>0, <2>1 DEF RecipeOK
  <1>5. CASE Close \/ UNCHANGED systemVars
    <2>1. UNCHANGED <<recipeVars, session>>
      BY <1>5 DEF Close, systemVars
    <2> QED
      BY <1>0, <2>1 DEF RecipeOK, recipeVars, session, Listed
  <1> QED
    BY <1>1, <1>2, <1>3, <1>4, <1>5 DEF SystemNext

LEMMA UploadedNext ==
  ASSUME SystemIInv, [SystemNext]_systemVars
  PROVE  UploadedOK'
  <1>0. /\ SessionTyped /\ RecipeOK /\ UploadedOK /\ CuttingOK
        /\ Known \subseteq Known'
        /\ NoUpload \notin Versions /\ NoJob \notin Jobs
    BY PartsNext, NoUploadAssumption, NoJobAssumption DEF SystemIInv, SystemInv, Jobs
  <1>1. ASSUME NEW j \in Jobs, Uploaded(j)
        PROVE  Uploaded(j)'
    <2>1. [RecipeNext]_recipeVars /\ RecipesTyped
      BY RecipeStep DEF SystemIInv
    <2>2. latest[j.path] # NoUpload => latest'[j.path] # NoUpload
      BY <1>0, <2>1 DEF Jobs, RecipesTyped, RecipeNext, recipeVars, QueryKnown, QueryNew,
         SaveRecipe, SaveRecipeFails, RecipeCrash
    <2> QED
      BY <1>0, <1>1, <2>2 DEF Uploaded, Listed
  <1>2. closed \in Jobs \cup {NoJob} /\ job \in Jobs \cup {NoJob}
    BY <1>0 DEF SessionTyped
  <1>3. CASE RecipeSaved
    <2>1. upload = job /\ job \in Jobs /\ Listed(job.version) \subseteq Known
      BY <1>0, <1>3 DEF RecipeSaved, RecipeOK, SessionTyped
    <2>2. latest'[job.path] = job.version
      BY <1>0, <1>3, <2>1 DEF RecipeSaved, SaveRecipe, Jobs, SystemIInv, RecipesTyped
    <2>3. Uploaded(job)'
      BY <1>0, <2>1, <2>2, <1>3 DEF Uploaded, Jobs, Listed, RecipeSaved
    <2> QED
      BY <1>0, <1>1, <1>2, <1>3, <2>3 DEF RecipeSaved, UploadedOK, history
  <1>4. CASE Closed
    <2>1. ASSUME closed' # NoJob PROVE Uploaded(closed)'
      <3>1. closed' = job /\ job # NoJob /\ sound /\ phase = "over"
        BY <1>4, <2>1 DEF Closed
      <3>2. PICK j \in Jobs : j = job
        BY <1>2, <3>1
      <3>3. Uploaded(j)'
        BY <1>0, <1>1, <3>1, <3>2 DEF UploadedOK
      <3> QED
        BY <3>1, <3>2, <3>3 DEF Uploaded, Listed
    <2>2. phase' # "over"
      BY <1>4 DEF Closed, Forgotten
    <2> QED
      BY <2>1, <2>2 DEF UploadedOK
  <1>5. CASE (\E p \in Paths, v \in Versions : StartUpload(p, v)) \/ (\E p \in Paths : StartRestore(p))
    BY <1>5 DEF StartUpload, StartRestore, UploadedOK
  <1>6. ASSUME UNCHANGED closed, phase' = "over" /\ sound' /\ job' # NoJob => phase = "over" /\ sound /\ UNCHANGED job
        PROVE  UploadedOK'
    <2>1. ASSUME closed' # NoJob PROVE Uploaded(closed)'
      <3>1. PICK j \in Jobs : j = closed
        BY <1>2, <1>6, <2>1
      <3>2. Uploaded(j)'
        BY <1>0, <1>1, <1>6, <2>1, <3>1 DEF UploadedOK
      <3> QED
        BY <1>6, <3>1, <3>2 DEF Uploaded, Listed
    <2>2. ASSUME phase' = "over" /\ sound' /\ job' # NoJob PROVE Uploaded(job)'
      <3>1. PICK j \in Jobs : j = job
        BY <1>2, <1>6, <2>2
      <3>2. Uploaded(j)'
        BY <1>0, <1>1, <1>6, <2>2, <3>1 DEF UploadedOK
      <3> QED
        BY <1>6, <2>2, <3>1, <3>2 DEF Uploaded, Listed
    <2> QED
      BY <2>1, <2>2 DEF UploadedOK
  <1>7. CASE Deduplicate \/ Saved \/ NotSaved \/ CheckRecipe \/ RecipeNotSaved \/ RestoreStuck
    <2>1. phase' # "over" \/ ~sound'
      BY <1>0, <1>7 DEF Deduplicate, More, Saved, InsertKey, NotSaved, CheckRecipe,
         RecipeNotSaved, RestoreStuck, CuttingOK
    <2> QED
      BY <1>6, <1>7, <2>1 DEF Deduplicate, Saved, NotSaved, CheckRecipe, RecipeNotSaved,
         RestoreStuck, history
  <1>8. CASE Save \/ RestoreOne
    <2>1. phase' # "over" /\ UNCHANGED closed
      BY <1>0, <1>8 DEF Save, More, RolloverWrite, session, CuttingOK, RestoreOne, Reads, history
    <2> QED
      BY <1>6, <2>1
  <1>9. CASE RestoreHeadless \/ RestoreDone
    <2>1. job' = NoJob /\ UNCHANGED closed
      BY <1>0, <1>9 DEF RestoreHeadless, RestoreDone, Reads, SessionTyped, history
    <2> QED
      BY <1>6, <2>1
  <1>10. CASE Die
    BY <1>6, <1>10 DEF Die
  <1>11. CASE Close \/ UNCHANGED systemVars
    BY <1>6, <1>11 DEF Close, systemVars, session, history
  <1> QED
    BY <1>3, <1>4, <1>5, <1>7, <1>8, <1>9, <1>10, <1>11 DEF SystemNext

\* saveRecipe writes only entries of known chunks.
LEMMA ItemsProper ==
  ASSUME NEW v \in Versions, NEW status, Listed(v) \subseteq Known
  PROVE  \A i \in 1 .. Len(Items(status, v)) : Proper(Items(status, v)[i])
  <1>1. /\ EntriesOf(v) \in Seq(Stored) /\ Len(EntriesOf(v)) = Count[v] /\ Count[v] \in Nat
        /\ <<[head |-> v]>> \in Seq(Stored)
    BY ItemsTyped, CutFacts
  <1>2. ASSUME NEW i \in 1 .. Count[v]
        PROVE  Proper(EntriesOf(v)[i])
    <2>1. EntriesOf(v)[i] = [entry |-> v, id |-> i] /\ Cut[v][i] \in Known
      BY <1>1, <1>2, EntriesFacts, CutFacts DEF Listed
    <2>2. Proper([entry |-> v, id |-> i])
      BY <1>2, <2>1 DEF Proper
    <2> QED
      BY <2>1, <2>2
  <1>3. Proper([head |-> v])
    <2>1. "head" \in DOMAIN [head |-> v]
      OBVIOUS
    <2>2. [head |-> v] \notin Entries
      BY <2>1 DEF Entries
    <2> QED
      BY <2>2 DEF Proper
  <1>4. CASE status = "append"
    BY <1>1, <1>2, <1>4 DEF Items
  <1>5. CASE status # "append"
    <2> DEFINE head == <<[head |-> v]>>
    <2>1. Len(head) = 1 /\ head[1] = [head |-> v]
      OBVIOUS
    <2>2. Items(status, v) = head \o EntriesOf(v)
      BY <1>5 DEF Items
    <2> HIDE DEF head
    <2>3. /\ Len(head \o EntriesOf(v)) = 1 + Count[v]
          /\ (head \o EntriesOf(v))[1] = head[1]
          /\ \A i \in 1 .. Count[v] : (head \o EntriesOf(v))[1 + i] = EntriesOf(v)[i]
      BY <1>1, <2>1, ConcatItems DEF head
    <2>4. ASSUME NEW i \in 1 .. 1 + Count[v]
          PROVE  i = 1 \/ \E k \in 1 .. Count[v] : i = 1 + k
      <3>1. i = 1 \/ i - 1 \in 1 .. Count[v]
        BY <1>1
      <3> QED
        BY <3>1
    <2>5. ASSUME NEW i \in 1 .. 1 + Count[v]
          PROVE  Proper((head \o EntriesOf(v))[i])
      <3>1. CASE i = 1
        BY <1>3, <2>1, <2>3, <3>1
      <3>2. CASE \E k \in 1 .. Count[v] : i = 1 + k
        BY <1>2, <2>3, <3>2
      <3> QED
        BY <2>4, <3>1, <3>2
    <2> QED
      BY <2>2, <2>3, <2>5
  <1> QED
    BY <1>4, <1>5

\* What is known later makes no entry improper.
LEMMA ProperGrows ==
  ASSUME Known \subseteq Known', NEW e, Proper(e)
  PROVE  Proper(e)'
  BY DEF Proper

\* A file of proper items stays one when proper items are appended to it.
LEMMA AppendProper ==
  ASSUME NEW s \in Seq(Stored), NEW t \in Seq(Stored),
         \A i \in 1 .. Len(s) : Proper(s[i]), \A i \in 1 .. Len(t) : Proper(t[i])
  PROVE  \A i \in 1 .. Len(s \o t) : Proper((s \o t)[i])
  <1>1. Len(s) \in Nat /\ Len(t) \in Nat /\ Len(s \o t) = Len(s) + Len(t)
    BY ConcatProperties
  <1> SUFFICES ASSUME NEW i \in 1 .. Len(s \o t) PROVE Proper((s \o t)[i])
    OBVIOUS
  <1>2. CASE i <= Len(s)
    <2>1. i \in 1 .. Len(s) /\ (s \o t)[i] = s[i]
      BY <1>1, <1>2, ConcatProperties
    <2> QED
      BY <2>1
  <1>3. CASE i > Len(s)
    <2>1. i - Len(s) \in 1 .. Len(t) /\ (s \o t)[i] = t[i - Len(s)]
      BY <1>1, <1>3, ConcatProperties
    <2> QED
      BY <2>1
  <1> QED
    BY <1>1, <1>2, <1>3

LEMMA RecipesProperNext ==
  ASSUME SystemIInv, [SystemNext]_systemVars
  PROVE  RecipesProper'
  <1>0. /\ RecipesProper /\ RecipesTyped /\ RecipeOK /\ SessionTyped
        /\ Known \subseteq Known'
    BY PartsNext DEF SystemIInv, SystemInv
  <1>1. ASSUME UNCHANGED recipe
        PROVE  RecipesProper'
    BY <1>0, <1>1, ProperGrows DEF RecipesProper
  <1>2. ASSUME phase = "recipe", UNCHANGED db, NEW t \in Seq(Stored),
               \A i \in 1 .. Len(t) : Proper(t[i]),
               recipe' = [recipe EXCEPT ![job.path] = @ \o t]
        PROVE  RecipesProper'
    <2>1. job.path \in Paths /\ recipe \in [Paths -> Seq(Stored)]
      BY <1>0, <1>2 DEF SessionTyped, Jobs, RecipesTyped
    <2>2. ASSUME NEW p \in Paths, NEW i \in 1 .. Len(recipe'[p])
          PROVE  Proper(recipe'[p][i])
      <3>1. CASE p = job.path
        <4>1. recipe'[p] = recipe[p] \o t /\ \A k \in 1 .. Len(recipe[p]) : Proper(recipe[p][k])
          BY <1>0, <1>2, <2>1, <3>1 DEF RecipesProper
        <4> QED
          BY <1>2, <2>1, <4>1, AppendProper
      <3>2. CASE p # job.path
        BY <1>0, <1>2, <2>1, <3>2 DEF RecipesProper
      <3> QED
        BY <3>1, <3>2
    <2>3. Known' = Known
      BY <1>2 DEF Known
    <2> QED
      BY <2>2, <2>3 DEF RecipesProper, Proper
  <1>3. ASSUME phase = "recipe"
        PROVE  /\ upload = job /\ job.version \in Versions
               /\ Items(step, job.version) \in Seq(Stored)
               /\ \A i \in 1 .. Len(Items(step, job.version)) : Proper(Items(step, job.version)[i])
    <2>1. upload = job /\ job \in Jobs /\ Listed(job.version) \subseteq Known
      BY <1>0, <1>3 DEF RecipeOK, SessionTyped
    <2> QED
      BY <2>1, ItemsProper, ItemsTyped DEF Jobs
  <1>4. CASE RecipeSaved
    <2>1. phase = "recipe" /\ UNCHANGED db
          /\ recipe' = [recipe EXCEPT ![upload.path] = @ \o Items(step, upload.version)]
      BY <1>4 DEF RecipeSaved, SaveRecipe, vars, disk
    <2> QED
      BY <1>2, <1>3, <2>1
  <1>5. CASE Die /\ phase = "recipe"
    <2>1. RecipeCrash /\ UNCHANGED db
      BY <1>0, <1>5 DEF Die, Crash, TornWrite, TornCrash, TornConfig, disk
    <2>2. PICK n \in 0 .. Len(Items(step, upload.version)), torn \in {<<>>, <<Junk>>} :
            recipe' = [recipe EXCEPT ![upload.path] =
                         @ \o (SubSeq(Items(step, upload.version), 1, n) \o torn)]
      BY <2>1 DEF RecipeCrash
    <2> DEFINE items == Items(step, job.version)
               first == SubSeq(items, 1, n)
    <2>3. n \in 0 .. Len(items) /\ items \in Seq(Stored)
      BY <1>3, <1>5, <2>2
    <2>4. first \in Seq(Stored) /\ Len(first) = n /\ \A i \in 1 .. n : first[i] = items[i]
      BY <2>3, SubSeqProperties
    <2>5. \A i \in 1 .. Len(first) : Proper(first[i])
      BY <1>3, <1>5, <2>3, <2>4
    <2>6. torn \in Seq(Stored) /\ \A i \in 1 .. Len(torn) : Proper(torn[i])
      <3>1. Junk \in Stored /\ Proper(Junk)
        BY JunkAssumption DEF Stored, Proper
      <3>2. CASE torn = <<>>
        BY <3>2
      <3>3. CASE torn = <<Junk>>
        <4>1. Len(torn) = 1 /\ torn[1] = Junk /\ torn \in Seq(Stored)
          BY <3>1, <3>3
        <4> QED
          BY <3>1, <4>1
      <3> QED
        BY <3>2, <3>3, <2>2
    <2>7. first \o torn \in Seq(Stored)
          /\ \A i \in 1 .. Len(first \o torn) : Proper((first \o torn)[i])
      BY <2>4, <2>5, <2>6, AppendProper, ConcatProperties
    <2>8. recipe' = [recipe EXCEPT ![job.path] = @ \o (first \o torn)]
      BY <1>3, <1>5, <2>2
    <2> QED
      BY <1>2, <1>5, <2>1, <2>7, <2>8
  <1>6. CASE ~(RecipeSaved \/ (Die /\ phase = "recipe"))
    <2>1. UNCHANGED recipe
      BY <1>6 DEF SystemNext, StartUpload, Deduplicate, Save, Saved, NotSaved, CheckRecipe,
         QueryKnown, QueryNew, RecipeNotSaved, SaveRecipeFails, StartRestore, RestoreOne,
         RestoreStuck, RestoreHeadless, RestoreDone, Close, Closed, Die, recipeVars, systemVars
    <2> QED
      BY <1>1, <2>1
  <1> QED
    BY <1>4, <1>5, <1>6

\* While a restore runs and while its session ends, what it can yield does not change.
LEMMA ServableBack ==
  ASSUME Running, Running', UNCHANGED <<db, name, body, recipeVars>>,
         \A n \in Names : n # name => files'[n] = files[n],
         SystemIInv, NEW p \in Paths, NEW v \in Versions, Servable(p, v)'
  PROVE  Servable(p, v)
  <1>1. Restored(p) = EntriesOf(v)
    BY DEF Servable, Restored, HasHead, Total, EntryAt, recipeVars
  <1>2. ASSUME NEW c \in Chunks, Restorable(c)'
        PROVE  Restorable(c)
    <2>1. db[c].container \in Names
      BY <1>2 DEF Restorable, SystemIInv, IInv, TypeOK, Places
    <2> QED
      BY <1>2, <2>1 DEF Restorable, Current, CurrentBody, HoldsAt
  <1> QED
    BY <1>1, <1>2, CutFacts DEF Servable, Listed

\* The next chunk of a restore that can yield v is the next one of v.
LEMMA NextChunk ==
  ASSUME SystemIInv, Reads, at <= Total(wanted), NEW v \in Versions, Servable(wanted, v)
  PROVE  /\ at \in 1 .. Count[v] /\ EntryAt(wanted, at) \in Entries
         /\ NamedChunks = {Cut[v][at]}
         /\ Cut[v][at] \in Chunks /\ Restorable(Cut[v][at])
  <1>1. SessionTyped /\ RecipesTyped
    BY DEF SystemIInv, SystemInv
  <1>2. wanted \in Paths /\ at \in Nat \ {0}
    BY <1>1 DEF SessionTyped, Reads
  <1>3. Total(wanted) = Count[v] /\ Count[v] \in Nat
    BY <1>1, <1>2, RestoredFacts, CutFacts DEF Servable
  <1>4. at \in 1 .. Count[v]
    BY <1>2, <1>3
  <1>5. EntryAt(wanted, at) = [entry |-> v, id |-> at] /\ EntryAt(wanted, at) \in Entries
    BY <1>1, <1>2, <1>4, RestoredFacts, EntriesFacts DEF Servable
  <1>6. NamedChunks = {Cut[v][at]}
    BY <1>5 DEF NamedChunks
  <1>7. Cut[v][at] \in Listed(v) /\ Cut[v][at] \in Chunks
    BY <1>4, CutFacts DEF Listed
  <1> QED
    BY <1>4, <1>5, <1>6, <1>7 DEF Servable

\* What the restore writes then is chunk at of v.
LEMMA NextBytes ==
  ASSUME SystemIInv, IInv', ReadInv', NEW v \in Versions, NEW i \in 1 .. Count[v],
         NEW c \in Chunks, c = Cut[v][i], Restorable(c)', UNCHANGED db,
         ReadCached(c) \/ ReadCurrent(c) \/ ReadFile(c)
  PROVE  got'.data = Content(v)[i]
  <1>1. /\ db[c] # NoEntry /\ db[c].length = Size[c] /\ Size[c] \in Nat
        /\ got'.chunk = c /\ got' # NoRead
        /\ \E b : got'.data = Slice(b, db[c])
    <2>1. /\ db[c] # NoEntry /\ got'.chunk = c
          /\ \E b : got' = [chunk |-> c, data |-> Slice(b, db[c])]
      BY DEF ReadCached, ReadCurrent, ReadFile, Reading, Return
    <2>2. c \in Known /\ db[c] \in Places
      BY <2>1 DEF Known, SystemIInv, IInv, TypeOK
    <2>3. PICK b \in Bodies : got' = [chunk |-> c, data |-> Slice(b, db[c])]
      BY DEF ReadCached, ReadCurrent, ReadFile, Return, IInv, TypeOK, SystemIInv
    <2>4. got' # NoRead
      BY <2>2, <2>3, SliceType, NoValuesAssumption
    <2> QED
      BY <2>1, <2>2, <2>4, SizesAssumption DEF SystemIInv, IInv, LengthsOK
  <1>2. HoldsAt(got'.data, c, [offset |-> 0])
    BY <1>1 DEF ReadInv, GotOK
  <1>3. PICK b : got'.data = Slice(b, db[c])
    BY <1>1
  <1>4. got'.data = [j \in 0 .. Size[c] - 1 |-> b[db[c].offset + j]]
    BY <1>1, <1>3 DEF Slice
  <1>5. \A j \in 0 .. Size[c] - 1 : got'.data[j] = <<c, j>>
    BY <1>1, <1>2 DEF HoldsAt
  <1>6. got'.data = [j \in 0 .. Size[c] - 1 |-> <<c, j>>]
    BY <1>4, <1>5
  <1> QED
    BY <1>6, CutFacts DEF Content

LEMMA ServingNext ==
  ASSUME SystemIInv, [SystemNext]_systemVars
  PROVE  Serving'
  <1>0. /\ SessionTyped /\ Serving /\ RecipesTyped /\ NoJob \notin Paths
        /\ IInv' /\ ReadInv'
    BY PartsNext, NoJobAssumption DEF SystemIInv, SystemInv
  <1> SUFFICES ASSUME NEW p \in Paths, NEW v \in Versions, wanted' = p, Servable(p, v)'
               PROVE  /\ phase' # "stuck"
                      /\ phase' = "reading" =>
                           /\ at' <= Count[v] + 1
                           /\ at' <= Count[v] => buffer' = <<>>
                           /\ file' = Beginning(v, InFile(v, at' - 1))
                      /\ phase' = "over" => file' = Beginning(v, InFile(v, Count[v]))
    BY DEF Serving, Beginning, InFile, Content
  <1>1. Count[v] \in Nat
    BY CutFacts
  <1>2. CASE \E r \in Paths : StartRestore(r)
    <2>1. phase' = "reading" /\ at' = 1 /\ buffer' = <<>> /\ file' = <<>>
      BY <1>0, <1>2 DEF StartRestore, Start, SessionTyped, restored
    <2>2. Beginning(v, InFile(v, at' - 1)) = <<>>
      BY <2>1 DEF Beginning, InFile
    <2> QED
      BY <1>1, <2>1, <2>2
  <1>3. CASE (\E r \in Paths, u \in Versions : StartUpload(r, u)) \/ Closed \/ Die
    <2>1. wanted' = NoJob
      BY <1>0, <1>3 DEF StartUpload, Start, SessionTyped, Closed, Die, Forgotten
    <2> QED
      BY <1>0, <2>1
  <1>4. CASE \/ Deduplicate \/ Save \/ Saved \/ NotSaved
             \/ CheckRecipe \/ RecipeSaved \/ RecipeNotSaved
    <2>1. phase \in {"cutting", "recipe"} /\ UNCHANGED wanted
      BY <1>4 DEF Deduplicate, Save, Saved, NotSaved, CheckRecipe, RecipeSaved,
         RecipeNotSaved, More, RolloverWrite, InsertKey, InsertFails, session, SystemIInv,
         SystemInv, CuttingOK
    <2> QED
      BY <1>0, <2>1 DEF SessionTyped
  <1>5. ASSUME wanted = p, Servable(p, v)
        PROVE  /\ phase # "stuck" /\ HasHead(p) /\ Total(p) = Count[v]
               /\ phase = "reading" =>
                    /\ at \in Nat /\ at <= Count[v] + 1
                    /\ at <= Count[v] => buffer = <<>>
                    /\ file = Beginning(v, InFile(v, at - 1))
               /\ phase = "over" => file = Beginning(v, InFile(v, Count[v]))
    BY <1>0, <1>5, RestoredFacts DEF Serving, Servable, SessionTyped
  <1>6. CASE RestoreOne
    <2>1. /\ Reads /\ at <= Total(wanted) /\ wanted = p /\ at' = at + 1
          /\ phase = "reading" /\ phase' = "reading" /\ pc = "restore" /\ pc' = "restore"
          /\ UNCHANGED <<db, files, name, body, recipeVars>>
      BY <1>6 DEF RestoreOne, Reads, ReadCached, ReadCurrent, ReadFile, Reading, disk
    <2>2. Servable(p, v)
      BY <2>1, ServableBack DEF Running
    <2>3. at \in 1 .. Count[v] /\ NamedChunks = {Cut[v][at]} /\ Cut[v][at] \in Chunks
          /\ Restorable(Cut[v][at])
      BY <2>1, <2>2, NextChunk
    <2>4. PICK c \in Chunks : c = Cut[v][at]
      BY <2>3
    <2>5. (ReadCached(c) \/ ReadCurrent(c) \/ ReadFile(c)) /\ Write(c, got'.data)
      BY <1>6, <2>3, <2>4 DEF RestoreOne
    <2>6. Restorable(c)'
      BY <2>1, <2>3, <2>4 DEF Restorable, Current, CurrentBody, Running, HoldsAt
    <2>7. got'.data = Content(v)[at]
      BY <1>0, <2>1, <2>3, <2>4, <2>5, <2>6, NextBytes
    <2>8. /\ Size[c] \in Nat /\ WriteThrough \in Nat
          /\ \A i \in 1 .. Count[v] - 1 : Size[Cut[v][i]] >= WriteThrough /\ Size[Cut[v][i]] \in Nat
      BY <1>1, SizesAssumption, CutFacts, WriteThroughAssumption
    <2>9. buffer = <<>> /\ file = Beginning(v, at - 1) /\ at \in Nat
      <3>1. at - 1 = 0 \/ at - 1 \in 1 .. Count[v] - 1
        BY <1>1, <2>3
      <3>2. InFile(v, at - 1) = at - 1
        BY <2>8, <3>1 DEF InFile
      <3> QED
        BY <1>1, <1>5, <2>1, <2>2, <2>3, <3>2
    <2>10. at' - 1 = at /\ at' <= Count[v] + 1
      BY <1>1, <2>1, <2>3
    <2>11. CASE Size[c] < WriteThrough
      <3>1. file' = file
        BY <2>5, <2>8, <2>9, <2>11 DEF Write
      <3>2. at = Count[v]
        BY <1>1, <2>3, <2>4, <2>8, <2>11
      <3>3. InFile(v, at) = at - 1
        BY <2>3, <2>4, <2>11 DEF InFile
      <3> QED
        BY <1>1, <2>1, <2>9, <2>10, <3>1, <3>2, <3>3
    <2>12. CASE Size[c] >= WriteThrough
      <3>1. buffer' = <<>> /\ file' = Append(file \o <<>>, Content(v)[at])
        BY <2>5, <2>7, <2>8, <2>9, <2>12 DEF Write
      <3>2. InFile(v, at) = at
        BY <2>4, <2>8, <2>12 DEF InFile
      <3> DEFINE item(i) == Content(v)[i]
                 before == [i \in 1 .. at - 1 |-> item(i)]
                 after == [i \in 1 .. at |-> item(i)]
      <3> HIDE DEF item
      <3>3. at - 1 \in Nat /\ before \in Seq({item(i) : i \in 1 .. at}) /\ Len(before) = at - 1
        BY <2>3
      <3>4. Append(before \o <<>>, item(at)) = after
        BY <2>3, <3>3
      <3>5. file' = Beginning(v, at)
        BY <2>9, <3>1, <3>4 DEF item, Beginning
      <3> QED
        BY <2>1, <2>10, <3>1, <3>2, <3>5
    <2> QED
      BY <2>8, <2>11, <2>12
  <1>7. CASE RestoreStuck
    <2>1. /\ Reads /\ at <= Total(wanted) /\ wanted = p /\ pc = "restore" /\ pc' # "down"
          /\ UNCHANGED <<db, files, name, body, recipeVars>>
      BY <1>0, <1>7 DEF RestoreStuck, Reads, ReadMissing, Reading, vars, disk, memory, SessionTyped
    <2>2. Servable(p, v)
      BY <2>1, ServableBack DEF Running
    <2>3. /\ EntryAt(wanted, at) \in Entries
          /\ NamedChunks = {Cut[v][at]} /\ Restorable(Cut[v][at])
      BY <2>1, <2>2, NextChunk
    <2>4. Current.name = name
      BY <2>1 DEF Current, Running
    <2>5. ~ReadMissing(Cut[v][at]) /\ db[Cut[v][at]] # NoEntry
      BY <2>3, <2>4 DEF ReadMissing, Restorable
    <2> QED
      BY <1>7, <2>3, <2>5 DEF RestoreStuck
  <1>8. CASE RestoreHeadless \/ RestoreDone \/ Close \/ UNCHANGED systemVars
    <2>1. /\ wanted = p /\ UNCHANGED <<at, restored, db, name, body, recipeVars>>
          /\ \A n \in Names : n # name => files'[n] = files[n]
      BY <1>0, <1>8 DEF RestoreHeadless, RestoreDone, Close, WriteConfig, FlushOpen, systemVars,
         vars, memory, disk, session, IInv, TypeOK, SystemIInv
    <2>2. Running /\ Running'
      BY <1>0, <1>8, <2>1 DEF RestoreHeadless, RestoreDone, Reads, Close, WriteConfig, FlushOpen,
         systemVars, vars, session, SessionTyped, Running
    <2>3. Servable(p, v)
      BY <2>1, <2>2, ServableBack
    <2>4. CASE RestoreHeadless
      BY <1>5, <2>1, <2>3, <2>4 DEF RestoreHeadless
    <2>5. CASE RestoreDone
      <3>1. phase = "reading" /\ phase' = "over" /\ at > Total(p)
        BY <2>1, <2>5 DEF RestoreDone, Reads
      <3>2. at = Count[v] + 1 /\ at - 1 = Count[v]
        BY <1>1, <1>5, <2>1, <2>3, <3>1
      <3>3. file = Beginning(v, InFile(v, Count[v]))
        BY <1>5, <2>1, <2>3, <3>1, <3>2
      <3> QED
        BY <2>1, <3>1, <3>3 DEF restored
    <2>6. CASE Close \/ UNCHANGED systemVars
      BY <1>5, <2>1, <2>3, <2>6 DEF Close, systemVars, session, restored
    <2> QED
      BY <1>8, <2>4, <2>5, <2>6
  <1> QED
    BY <1>2, <1>3, <1>4, <1>6, <1>7, <1>8 DEF SystemNext

-----------------------------------------------------------------------------
(* The theorems of the whole program.                                      *)

LEMMA SystemIInvInit == SystemInit => SystemIInv
  <1> SUFFICES ASSUME SystemInit PROVE SystemIInv
    OBVIOUS
  <1>0. Init /\ RecipeInit /\ NoJob \notin Paths
    BY NoJobAssumption DEF SystemInit
  <1>1. IInv /\ ReadInv /\ CleanShutdown
    BY <1>0, IInvInit, NoValuesAssumption
       DEF Init, ReadInv, CacheOK, GotOK, CleanShutdown, Known, Resume
  <1>2. RecipesTyped /\ Begun
    BY <1>0 DEF RecipeInit, RecipesTyped, Begun, Creating
  <1>3. SessionTyped
    BY <1>0 DEF SystemInit, Init, restored, SessionTyped, Phases
  <1>4. CuttingOK /\ RecipeOK /\ UploadedOK /\ Serving
    BY <1>0 DEF SystemInit, Init, RecipeInit, CuttingOK, RecipeOK, UploadedOK, Serving
  <1>5. RecipesProper
    BY <1>0 DEF RecipeInit, RecipesProper
  <1> QED
    BY <1>1, <1>2, <1>3, <1>4, <1>5 DEF SystemIInv, SystemInv

LEMMA SystemIInvNext == SystemIInv /\ [SystemNext]_systemVars => SystemIInv'
  BY PartsNext, SessionNext, CuttingNext, RecipeOKNext, UploadedNext, RecipesProperNext,
     ServingNext DEF SystemIInv, SystemInv

LEMMA SystemInvariance == SystemSpec => []SystemIInv
  BY SystemIInvInit, SystemIInvNext, PTL DEF SystemSpec

\* Sessions are runs of StorageCore as ContainerStore has them: DurableKept,
\* SealedKept, ReadsBack and the refinement of ChunkStore hold of the whole program.
THEOREM SystemRunsStore == SystemSpec => Spec
  <1>1. SystemInit => Init
    BY DEF SystemInit
  <1>2. SystemIInv /\ [SystemNext]_systemVars => [Next]_vars
    BY StoreStep
  <1> QED
    BY <1>1, <1>2, SystemInvariance, PTL DEF SystemSpec, Spec

\* ... and their uploads end as Recipes has them.
THEOREM SystemRunsRecipes == SystemSpec => RecipeSpec
  <1>1. SystemInit => RecipeInit
    BY DEF SystemInit
  <1>2. SystemIInv /\ [SystemNext]_systemVars => [RecipeNext]_recipeVars
    BY RecipeStep
  <1> QED
    BY <1>1, <1>2, SystemInvariance, PTL DEF SystemSpec, RecipeSpec

\* No recipe file, whole, cut short by a crash or appended to after one, ever lists a
\* chunk fp2ChunkDB does not know: a restore never stops at restoreChunk's query
\* because of an upload that died.
THEOREM RecipesListKnown == SystemSpec => []ListedKnown
  <1>1. SystemIInv => ListedKnown
    BY DEF SystemIInv, SystemInv, RecipesProper, Proper, ListedKnown, Known
  <1> QED
    BY <1>1, SystemInvariance, PTL

\* The versions archived so far survive everything later sessions do.
THEOREM ArchiveStays == SystemSpec => ArchivedKept
  <1>1. ASSUME SystemIInv, [SystemNext]_systemVars,
               NEW p \in Paths, NEW v \in Versions, Restored(p) = EntriesOf(v)
        PROVE  /\ Restored(p)' = EntriesOf(v)
               /\ (\A c \in Listed(v) : Durable(c)) /\ ~TornWrite =>
                    \A c \in Listed(v) : Durable(c)'
               /\ (\A c \in Listed(v) : Sealed(c)) => \A c \in Listed(v) : Sealed(c)'
    <2>1. [Next]_vars /\ [RecipeNext]_recipeVars /\ IInv /\ RecipesTyped /\ RecipesTyped'
      BY <1>1, StoreStep, RecipeStep, PartsNext DEF SystemIInv
    <2>2. Complete(p)
      BY <1>1 DEF Complete
    <2>3. PICK t \in Seq(Stored) : recipe'[p] = recipe[p] \o t
      BY <2>1, StepAppends
    <2>4. Restored(p)' = Restored(p)
      BY <2>1, <2>2, <2>3, AppendKeeps, MetaGrows
    <2>5. Listed(v) \subseteq Chunks
      BY CutFacts
    <2>6. ASSUME NEW c \in Chunks, Durable(c), ~TornWrite PROVE Durable(c)'
      BY <2>1, <2>6, DurableNext
    <2>7. ASSUME NEW c \in Chunks, Sealed(c) PROVE Sealed(c)'
      BY <2>1, <2>7, SealedNext
    <2> QED
      BY <1>1, <2>4, <2>5, <2>6, <2>7
  <1>2. SystemIInv /\ [SystemNext]_systemVars =>
          [\A p \in Paths, v \in Versions :
             Restored(p) = EntriesOf(v) =>
               /\ Restored(p)' = EntriesOf(v)
               /\ (\A c \in Listed(v) : Durable(c)) /\ ~TornWrite =>
                    \A c \in Listed(v) : Durable(c)'
               /\ (\A c \in Listed(v) : Sealed(c)) =>
                    \A c \in Listed(v) : Sealed(c)']_systemVars
    BY <1>1
  <1> QED
    BY <1>2, SystemInvariance, PTL DEF SystemSpec, ArchivedKept

\* An upload that ended well, in a store no fault has struck, is served: all of its
\* chunks can be restored, and its path yields a whole version whose chunks can.
THEOREM CleanUploadsServed == SystemSpec => []CleanUploadServed
  <1>1. SystemIInv => CleanUploadServed
    <2> SUFFICES ASSUME SystemIInv, pc = "down", closed # NoJob, ~tainted
                 PROVE  /\ \A c \in Listed(closed.version) : Restorable(c)
                        /\ closed.path \notin struck =>
                             \E v \in Versions : Servable(closed.path, v)
      BY DEF CleanUploadServed
    <2>1. /\ closed \in Jobs /\ Uploaded(closed) /\ step = "idle"
          /\ \A c \in Known : Restorable(c)
      BY DEF SystemIInv, SystemInv, SessionTyped, UploadedOK, RecipeOK, IInv, Intact
    <2>2. \A c \in Listed(closed.version) : Restorable(c)
      BY <2>1 DEF Uploaded
    <2>3. ASSUME closed.path \notin struck
          PROVE  \E v \in Versions : Servable(closed.path, v)
      <3>1. closed.path \in Paths /\ latest[closed.path] # NoUpload
        BY <2>1 DEF Jobs, Uploaded
      <3>2. Complete(closed.path)
        BY <2>1, <2>3, <3>1 DEF SystemIInv, Begun, Creating
      <3>3. PICK v \in Versions : Restored(closed.path) = EntriesOf(v)
        BY <3>2 DEF Complete
      <3>4. Listed(v) \subseteq Known
        BY <3>1, <3>3, RestoredKnown DEF SystemIInv, SystemInv
      <3> QED
        BY <2>1, <3>3, <3>4 DEF Servable
    <2> QED
      BY <2>2, <2>3
  <1> QED
    BY <1>1, SystemInvariance, PTL

\* A restore that can yield a version ends and leaves the file with that version, but
\* for a last chunk that was still buffered.
THEOREM RestoresServe == SystemSpec => []RestoreServes
  <1>1. SystemIInv => RestoreServes
    BY DEF SystemIInv, SystemInv, Serving, RestoreServes
  <1> QED
    BY <1>1, SystemInvariance, PTL
=============================================================================
