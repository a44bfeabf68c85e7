------------------------------- MODULE Recipes -------------------------------
(***************************************************************************)
(* The recipes of StorageCore: fileName2metaDB maps the hash of a path to  *)
(* the name of its recipe file, which holds a head (with the number of     *)
(* chunks) and one entry per chunk.  checkRecipeStatus ends every upload,  *)
(* restoreRecipeHead and restoreRecipeAndChunk begin every restore.        *)
(*                                                                         *)
(* A recipe file is the sequence of the items appended to it.  Heads and   *)
(* entries differ in size, and the code finds the head at byte 0 and entry *)
(* i at a fixed distance: an item is only read as what was written when    *)
(* everything before it has the expected size.                             *)
(***************************************************************************)
EXTENDS Naturals, Sequences

CONSTANTS
  Paths,          \* the paths users upload
  Versions,       \* the contents a path has had
  Count,          \* Count[v]: the number of chunks of version v
  RecipeFaults,   \* the faults that may strike, a subset of RecipeFaultKinds
  MaxUploads,     \* bound: uploads
  Junk,           \* bytes that are neither a head nor an entry
  NoUpload

\* crash: the process dies in checkRecipeStatus or in saveRecipe
\* open:  the recipe file cannot be opened
\* meta:  LevelDB refuses the Put
RecipeFaultKinds == {"crash", "open", "meta"}

ASSUME RecipeAssumption ==
  /\ Count \in [Versions -> Nat]
  /\ RecipeFaults \subseteq RecipeFaultKinds
  /\ MaxUploads \in Nat

Heads   == [head : Versions]
Entries == [entry : Versions, id : Nat]

EntriesOf(v) == [i \in 1 .. Count[v] |-> [entry |-> v, id |-> i]]

ASSUME JunkAssumption ==
  Junk \notin Heads \cup Entries /\ \A v \in Versions : Junk # EntriesOf(v)

ASSUME NoUploadAssumption == NoUpload \notin Versions

VARIABLES
  meta,     \* fileName2metaDB: the paths it knows
  recipe,   \* the recipe files; <<>> where there is none
  step,     \* "idle", or where checkRecipeStatus is
  upload,   \* the path and version being saved
  latest,   \* history: the version of the last upload reported a success
  struck,   \* history: the paths a fault struck an upload of
  uploads   \* bound: uploads begun

recipeVars == <<meta, recipe, step, upload, latest, struck, uploads>>

RecipeInit ==
  /\ meta = {}
  /\ recipe = [p \in Paths |-> <<>>]
  /\ step = "idle"
  /\ upload = NoUpload
  /\ latest = [p \in Paths |-> NoUpload]
  /\ struck = {}
  /\ uploads = 0

\* what saveRecipe writes, without and with its head
Items(status, v) ==
  IF status = "append" THEN EntriesOf(v) ELSE <<[head |-> v]>> \o EntriesOf(v)

-----------------------------------------------------------------------------
(* checkRecipeStatus and saveRecipe.                                       *)

BeginUpload(p, v) ==
  /\ step = "idle"
  /\ uploads < MaxUploads
  /\ uploads' = uploads + 1
  /\ upload' = [path |-> p, version |-> v]

\* the path has a recipe: its entries will be appended to the file
QueryKnown(p, v) ==
  /\ BeginUpload(p, v)
  /\ p \in meta
  /\ step' = "append"
  /\ UNCHANGED <<meta, recipe, latest, struck>>

\* it has none: the result of the insertion is ignored
QueryNew(p, v) ==
  /\ BeginUpload(p, v)
  /\ p \notin meta
  /\ step' = "create"
  /\ \/ meta' = meta \cup {p} /\ UNCHANGED struck
     \/ /\ "meta" \in RecipeFaults
        /\ struck' = struck \cup {p}
        /\ UNCHANGED meta
  /\ UNCHANGED <<recipe, latest>>

\* Faulty variant: the file is opened without ios::app, which truncates it.
SaveRecipeTruncating ==
  /\ step \in {"append", "create"}
  /\ recipe' = [recipe EXCEPT ![upload.path] = Items(step, upload.version)]
  /\ latest' = [latest EXCEPT ![upload.path] = upload.version]
  /\ step' = "idle"
  /\ upload' = NoUpload
  /\ UNCHANGED <<meta, struck, uploads>>

SaveRecipe ==
  /\ step \in {"append", "create"}
  /\ recipe' = [recipe EXCEPT ![upload.path] =
                  @ \o Items(step, upload.version)]
  /\ latest' = [latest EXCEPT ![upload.path] = upload.version]
  /\ step' = "idle"
  /\ upload' = NoUpload
  /\ UNCHANGED <<meta, struck, uploads>>

\* saveRecipe returns false; the entry of fileName2metaDB stays
SaveRecipeFails ==
  /\ "open" \in RecipeFaults
  /\ step \in {"append", "create"}
  /\ step' = "idle"
  /\ upload' = NoUpload
  /\ struck' = struck \cup {upload.path}
  /\ UNCHANGED <<meta, recipe, latest, uploads>>

\* The process dies before the file is opened, or when the first n items,
\* and perhaps a part of the next one, have left the buffer of the ofstream.
RecipeCrash ==
  /\ "crash" \in RecipeFaults
  /\ step \in {"append", "create"}
  /\ \E n \in 0 .. Len(Items(step, upload.version)), torn \in {<<>>, <<Junk>>} :
       LET written == SubSeq(Items(step, upload.version), 1, n) IN
         recipe' = [recipe EXCEPT ![upload.path] = @ \o (written \o torn)]
  /\ step' = "idle"
  /\ upload' = NoUpload
  /\ struck' = struck \cup {upload.path}
  /\ UNCHANGED <<meta, latest, uploads>>

-----------------------------------------------------------------------------
(* restoreRecipeHead and restoreRecipeAndChunk, as functions of the state. *)

HasHead(p) == p \in meta /\ recipe[p] # <<>> /\ recipe[p][1] \in Heads

Total(p) == Count[recipe[p][1].head]

\* Faulty variant: the entries are looked for where the head is.
EntryAtNoHead(p, i) == IF i <= Len(recipe[p]) THEN recipe[p][i] ELSE Junk

\* Entry i lies behind the head and i - 1 entries.
EntryAt(p, i) ==
  IF 1 + i <= Len(recipe[p]) /\ \A j \in 2 .. 1 + i : recipe[p][j] \in Entries
  THEN recipe[p][1 + i]
  ELSE Junk

\* The entries a restore of p asks for; Junk when there is no proper head.
Restored(p) ==
  IF HasHead(p) THEN [i \in 1 .. Total(p) |-> EntryAt(p, i)] ELSE Junk

RecipeNext ==
  \/ \E p \in Paths, v \in Versions : QueryKnown(p, v) \/ QueryNew(p, v)
  \/ SaveRecipe \/ SaveRecipeFails
  \/ RecipeCrash

RecipeSpec == RecipeInit /\ [][RecipeNext]_recipeVars

-----------------------------------------------------------------------------
(* Properties                                                              *)

\* A restore of p yields the whole of one uploaded version.
Complete(p) == \E v \in Versions : Restored(p) = EntriesOf(v)

\* Between two uploads, the restore of a path that some upload reported saved
\* ("verify Recipe succes", Chunker.cpp, 377) yields a whole version, never a mix
\* of several of them nor the entries of one under the head of another, however
\* often the path is uploaded and whatever strikes the uploads of other paths.
WholeVersions ==
  step = "idle" =>
    \A p \in Paths \ struck : latest[p] # NoUpload => p \in meta /\ Complete(p)

\* What a restore of a path yields never changes once it is whole, whatever
\* uploads, crashes and failures follow: recipe files are only appended to.
PublishedKept ==
  [][\A p \in Paths : Complete(p) => Restored(p)' = Restored(p)]_recipeVars

\* An upload that ends with "verify Recipe succes" (Chunker.cpp, 377) has made
\* its version the one a restore of the path yields.
UploadTakesEffect ==
  step = "idle" =>
    \A p \in Paths : latest[p] # NoUpload => Restored(p) = EntriesOf(latest[p])
=============================================================================
