# JPEG_storage in TLA+

Models, checked properties and proofs of the two programs of this repository:

- **the store**, `chunk_new/src`: `client -s file` cuts a file into content defined
  chunks, stores those nobody stored before and writes a recipe; `client -r file`
  gives the file back;
- **the recoder**, `src/main.cpp`: it reads all JPEG files of a directory, counts the
  symbols of their entropy coded segments, builds four Huffman tables for the whole
  directory, and writes every image again with these tables.

The two share no code and no state; they meet in the idea that images recoded with
common tables deduplicate better.

## 1. Inventory

Paths are relative to the repository; `PROJECT.json` has the lines of every definition.

### The store (chunk_new/src)

| Component | State it keeps | Operations | What makes it correct |
|---|---|---|---|
| Chunker (`Chunker.cpp`) | chunk buffer, fingerprint of the last 256 bytes, recipe | `varSizeChunking`: read a block, fill or slide the window, cut, final chunk | the chunks are the file; sizes in bounds; cuts depend on content only |
| Chunk keys, `Database` (`Chunker.cpp`, `storageCore.cpp`, `database.cpp`) | LevelDB `fp2ChunkDB`: hash to place | `query`, `insert` | what is saved under a hash is found under it, and nothing else is |
| Containers (`storageCore.cpp`) | current container in memory, container files, `.StorageConfig`, a cached container | `saveChunk`, `writeContainer`, `restoreChunk`, `readContainer`, constructor, destructor | a known chunk can be given back; what a session saved no later one loses |
| Recipes (`storageCore.cpp`) | LevelDB `fileName2metaDB`, one recipe file per path | `checkRecipeStatus`, `saveRecipe`, `restoreRecipeHead`, `restoreRecipeAndChunk` | a restore yields one whole uploaded version |
| Restore pipeline (`recvDecode.cpp`, `retriever.cpp`, `messageQueue.hpp`) | window of entries, lock-free queue, number received, file buffer | two threads: read a batch and push, pop and write | every chunk once and in order; the end means all |
| Sessions (`main.cpp`) | the objects above | `-s`, `-r`, join, `delete storageObj` | what an upload reported saved can be restored |
| `cryptoPrimitive`, `configure` | none | SHA-256, reading `config.json` | pure |
| `keyClient`, `sender`, `dataSR` | - | - | not part of the program: no object of them is made |

How they interact. `main` opens both databases and makes the `StorageCore`, then starts
the chunker's thread (an upload) or the threads of `RecvDecode` and `Retriever` (a
restore), joins them and deletes the `StorageCore`, whose destructor writes
`.StorageConfig` and the current container - in restore sessions too. The chunker asks
`fp2ChunkDB` for each chunk, has `StorageCore` save those it does not know, and ends with
`checkRecipeStatus`. A restore reads the recipe's entries by batches and gets each chunk
through `restoreChunk`.

What is hard: the process may die between any two writes to disk, and the two databases,
the recipe, the container files and `.StorageConfig` are written at different times; a
key in `fp2ChunkDB` is trusted by all later sessions; return values are dropped; the two
threads of a restore know nothing of each other's failures; a rolling hash in 16 bits.

### The recoder (src/main.cpp)

| Component | State it keeps | Operations | What makes it correct |
|---|---|---|---|
| File list and headers | `Dir_Record`, the directory on disk | `getFilelist`, `parse_JFIF`, `write_head_data`, `Write_Huffman_Table` | the recoded file is a JPEG file of the same image, and stays one over further runs |
| Decoder (tinyjpeg's) | `struct jdec_private`: stream, reservoir, tables, restart counters | `build_huffman_table`, `get_next_huffman_code`, `process_Huffman_data_unit`, `resync`, `find_next_rst_marker` | it reads what the bit writer wrote |
| First pass | `huff_val`: how often each symbol was met | `tinyjpeg_decode`, `process_Huffman_data_unit` | every symbol of every image is counted |
| Tables | `huff_val_useful`: symbols by frequency, their codes | `build_huff_val_useful`, `BubbleSort`, `cal_new_huffman` | prefix-free codes, none all ones |
| Second pass | decoder state, restart counters | `Write_New_Body`, `Find_New_code`, `tobin`, `Write_RST` | every symbol has a code; intervals and markers as in the original |
| Bit writer | `WriteNewData_Stream`, one global byte, and the bits used of it | `Write_Stream_To_File`, flush | no bit lost; every 0xFF of data is stuffed |

Everything is sequential; what is hard is that the second pass relies on what the first
one counted in all files, that codes meet byte ends at every offset, and that one global
byte is shared by bodies, restart markers and tables of all files. The decoder reads ahead,
over restart markers too, and must step back. The outputs are `*.jpg` files of the same
directory: the next run lists them, recodes them again, and writes files between the pass
that counts them and the one that codes them; a run that dies leaves a truncated one.

Not looked at: `chunk_new/openssl`, `References`, build directories, `backup`, `show`, and
the other copies of both programs (`jpgpath4kbsrc`, `tetest`, `recodejpg`, `recodejpg2`,
`jpglittlesrc`).

## 2. Modules

    ChunkStore <--refines-- ContainerStore --+
                            Recipes ---------+--> DedupSystem
    Chunker    ChunkKeys    Restore
    BitWriter --> Recoder --> RecodedFile          Directory

**ContainerStore** (containers, index, `.StorageConfig`). A byte is a cell `<<chunk, i>>`, so
that overwritten or stale bytes are seen. `pc` is where the one session is: `Start` is the
constructor; `AppendChunk`, `RolloverOpen`, `RolloverWrite`, `InsertKey` are the steps of
`saveChunk`, one per write a crash can come between; `WriteConfig`, `FlushOpen`,
`FlushWrite` those of the destructor; `ReadCached`, `ReadCurrent`, `ReadFile`,
`ReadMissing` the branches of `readContainer`. Faults are chosen by the constant `Faults`:
a crash, a crash inside `saveTOFile` or between the two lines of `.StorageConfig` ("torn"),
a file that cannot be opened ("save", "config"), a refused Put ("insert").

**ChunkStore** is what that promises: chunks are known, can be given back (saved), or will be
whatever happens (durable); without faults all known chunks are saved and a closed session
makes them durable; a fault never takes a durable chunk, unless it tears a write.
`ContainerStore!Abstract` is the mapping.

**Recipes** has the recipe files as sequences of the items appended to them, read by position
as the code does: `Restored(p)` is what a restore of `p` asks for.

**DedupSystem** composes ContainerStore and Recipes under the sessions of `main`. An upload
(`StartUpload`) takes a version's chunks in turn - `Deduplicate`, or `Save` and `Saved` - then
runs `checkRecipeStatus`; a restore (`StartRestore`) reads the recipe's entries and writes the
bytes `restoreChunk` really returns, which may be another chunk's, to the `ofstream` - a chunk
shorter than `WriteThrough` into `buffer`, any other into `file`, behind what the buffer holds -
and may get stuck as `recvThread` does; `Close` and `Closed` are the destructor, `Die` a crash at
any step. What is in `buffer` when the process ends never gets into the file.

**ChunkKeys** has the bytes of hashes, in which `generateHash` has replaced every NUL byte, and
the two ways a hash becomes a key: in the chunker as a C string, which goes on behind the
unterminated `hash[32]` over whatever the stack holds, in a restore as 32 bytes.

**Chunker** is `varSizeChunking` byte by byte, with block reads, rolling fingerprint and an
arbitrary initial `winFp`, which the code never initialises.

**Restore** has both threads of a restore, the queue, the buffer of the `ofstream` and `main`'s
exit.

**BitWriter** is `Write_Stream_To_File` by its three cases (a code fits, fills one byte, fills
two), `Write_RST` and the flush. **Recoder** has both passes and the tables over any set of
images; an image is the sequence of its MCUs, an MCU that of the symbols of its three
components.

**RecodedFile** is tinyjpeg's decoder at work on what the recoder wrote, as a later run reads
it: `Codebook` builds the codes from the lengths and symbols of the DHT segment, `NextCode`
looks up `LookBits` bits, more than a byte, whatever the length of the code, `ReadCoefficient`
is a turn of `process_Huffman_data_unit` with the counter `j`, `NextMCU` a turn of the loops
of `tinyjpeg_decode` with the step back before a marker (`GivenBack`) and
`find_next_rst_marker`. The bytes of a marker that are read ahead are bits like any others.

**Directory** is the recoder seen from its files: which names a run lists, which files it
refuses, which header segments it copies, drops and writes anew, what a crash leaves, and what
the next run makes of all that. A file is the sequence of its segments; of a scan is kept whose
picture it is, which codes it needs, whether it has restart markers and whether it is whole.
A scan read under a header that does not fit it is `Noise` of any codes.

`MC*` modules give the constants for TLC; `*_proofs` hold the theorems (`StorageCore_proofs`
those of ContainerStore and of Recipes, `Restore_proofs` those of Restore and of ChunkKeys,
`Recoder_proofs` those of BitWriter, of Recoder and of the tables of RecodedFile,
`RecodedFile_proofs` those of its decoder), and **NatRecursion** the lemmas about recursion they
share. Operators called
"faulty variant" in a comment are plausible errors of the code: no action uses them, and with
one of them in place of the right definition the property they are listed with fails.

## 3. Runs

| Run | Instance | Question |
|---|---|---|
| `store` | 3 chunks of 1, 2, 1 bytes; containers of 3 bytes, 3 names; 4 sessions; all faults | TypeOK, Intact, CleanShutdown, ReadsBack, DurableKept, SealedKept, refinement of ChunkStore |
| `recipes_reupload` | 1 path, 2 uploads, no fault | UploadTakesEffect, **violated** |
| `restore` | files of 0..7 chunks, batches of 3, any unreadable chunks | BatchesInRecipe, InOrder, EndsComplete, Terminates |
| `restore_tail` | the same | FileWhole, **violated** |
| `system` | 2 paths, 3 versions sharing chunks, 3 sessions and uploads, all faults of both parts | ListedKnown, CleanUploadServed, RestoreServes, WholeVersions, ArchivedKept, PublishedKept |
| `system_lost` | 1 path, 2 sessions, crashes only | UploadServed, **violated** |
| `keys` | digests of 2 bytes, with or without a byte before the NUL behind the hash | ListedSaved, WholeFetched |
| `chunker` | all files up to 10 bytes of two values, blocks of 4, window 2, sizes 3..6, 3-bit words | NothingLost, SizesInBounds, CutByContent, Ended |
| `recode` | 2 files of 24 possible images; bytes of 3 bits, look-ups of 4 | CodesFound, PrefixFree, AllBitsKept, StuffedElsewhere, TablesRebuilt, Delivered |
| `recode_rst` | the same | Stuffed, **violated** |
| `directory` | 1 or 2 files of 5 layouts under 2 names, 3 runs, crashes | TablesCover, ReadsItsOwn, Repaired, RunDelivers |
| `dht_length` | 1 file, 2 codes, a byte of 4 values | SegmentsFit, **violated** |

### Why the bounds are enough

- `store`: sizes 1 and 2 in 3 bytes make a chunk fit with room, meet the strict `<` of
  `writeContainer` exactly, and not fit; three names make two rollovers; four sessions are a
  store, a lost store, a third one that appends over the lost bytes, and a restore.
- `restore`: 0, 1, 2, 3, 4, 6, 7 chunks are all of: none, one, less than a batch, a batch, one
  more, two batches, and one more.
- `system`: one version lists a chunk twice, two share one, one is empty; three sessions are one
  that loses or breaks, one that deduplicates against what was lost or appends to a broken
  recipe, and one that restores. One version ends in a chunk that the `ofstream` buffers. The
  paths are interchangeable (SYMMETRY), and no property of
  the run is one of liveness.
- `keys`: a byte is NUL, `'\200'`, which NUL is replaced by, or another; two positions have a
  NUL at the start, at the end, at both or nowhere. Behind a hash there is NUL, or one of two
  bytes before it: keys of the hash's length, and different ones beyond it.
- `chunker`: ten bytes hold a chunk cut by content, one by `maxChunkSize` and a final one, in
  three blocks; `Word` divides `Modulus` as 2^16 divides 2^23.
- `recode`: codes of one, three and six bits fill no byte, one and two bytes of three bits, and
  meet every offset; a look-up of four bits is one more than a byte, as nine are, so that codes
  of six bits are found by the second search and bytes of a marker get into the reservoir.
  Images of one to three MCUs have restarts behind each or each second one, the last MCU
  included, runs of 16 zeros, and a unit without end-of-block. `CountBeyond` counts at most one
  symbol beyond an image: each further one only adds to a count, and what the counts are does
  not matter to `CodesFound`. `SlowPlaces` is large enough for every table of the instance.
- `directory`: the five layouts are tables behind the frame, a DRI segment before the tables (as
  in the repository's `LJC_8918.jpg`), one behind them (as libjpeg writes it), a frame behind
  the tables, and a subsampled image. Two files are `x.jpg` and `x.jpg.jpg`, which collide, or
  pictures of different names; at most one has its DRI segment behind the tables, which alone
  makes its recoded file unreadable. Three runs are one that crashes, one that lists what it
  left, one that recodes that again. `HeadBytes` 2 and `ByteValues` 8 leave room for both codes;
  in `dht_length` a byte has 4 values, and two codes fill it. The passes take files in any
  order, as `readdir` may give them. The two names are interchangeable (SYMMETRY; no liveness).
  An empty file stands for all that end in the header.

### Fairness

Only two specifications have it. `Restore`: both threads and `main` are scheduled (weak
fairness of each); nothing is assumed of the readability of chunks. `Chunker`: the one thread
goes on. `Terminates` and `Ended` need no more. The other programs are sequential and are
modelled up to any crash, so nothing must happen in them; that a run which ends has done its
work is said by action properties (`RunDelivers`, `ArchivedKept`).

### What the violated runs show

- `recipes_reupload`: a second upload of a path is reported saved and never restored: its entries
  are appended behind the first recipe (storageCore.cpp, 289).
- `system_lost`: `saveChunk` inserts the key before the bytes leave memory; after a crash every
  later upload deduplicates against lost chunks (Chunker.cpp, 268).
- `restore_tail`: `main` never deletes the `Retriever` (main.cpp, 215), so its `ofstream` is never
  closed, and a last chunk short enough to be buffered - with libstdc++, one of less than 1024
  bytes - is missing in the restored file though both threads report that they are done. A file
  shorter than that comes back empty.
- `recode_rst`: `Write_RST` does not stuff the padded last byte before a marker (main.cpp, 2052).
  The program's own decoder still reads such a file (`Delivered` holds); one that takes 0xFF 0xFF
  for a fill byte does not.
- `dht_length`: the length of the DHT segment is kept in one byte (main.cpp, 2291): with 186 or
  more codes in the four tables the file written cannot be parsed, by this program either.

## 4. Proofs

All for every value of the constants, from the named ASSUMEs of the modules only; the theorems
of Directory but the first also assume `Fits`, that the codes fit the length of a DHT segment
(`dht_length` shows what happens otherwise).

| Theorem | Property | Argument |
|---|---|---|
| `StorageCore_proofs!TypeCorrect`, `IntactAlways` | TypeOK, Intact | `IInv`: between `writeContainer` and the Put the pending place is the next free one and already holds the chunk (PendingOK), entries have their chunk's length (LengthsOK), the mark is not ahead of memory (MarkOK), and without faults nothing known lies beyond the current end (PlacesOK). Intact alone is not inductive: nothing keeps a new chunk from lying over a known one without PlacesOK |
| `DurabilityHolds`, `SealedForever` | DurableKept, SealedKept | from `IInv`: a durable chunk is below the mark, hence below what any session appends to, and a file is rewritten with what it held; a sealed container is never the current one again, so even a torn write misses it |
| `ShutdownClean`, `ReadsBackAlways` | CleanShutdown, ReadsBack | `ReadInv`: the cached container is what its file holds, or held when it was read, below every known place |
| `StoreImplements` | Implements | ContainerStore refines ChunkStore under the mapping `Abstract`: each step is a step of it or a stutter, by the theorems above |
| `PublishedStays`, `WholeAlways` | PublishedKept, WholeVersions | recipes are only appended to; the first items of the recipe of an unstruck, known path are a head and its entries |
| `DedupSystem_proofs!SystemRunsStore`, `SystemRunsRecipes` | - | every behaviour of the program is one of ContainerStore and one of Recipes, so their theorems hold of it |
| `RecipesListKnown`, `CleanUploadsServed` | ListedKnown, CleanUploadServed | `SystemInv`: the chunks before `at` are known (CuttingOK), all are when `checkRecipeStatus` runs (RecipeOK), and nothing known is ever forgotten |
| `ArchiveStays`, `RestoresServe` | ArchivedKept, RestoreServes | Recipes keep whole recipes, the store durable chunks; `Serving`: what a restore has in the file is the beginning of the version, and nothing waits in the buffer before the last chunk |
| `Restore_proofs!BatchesStayInRecipe`, `OrderKept` | BatchesInRecipe, InOrder | windows start where the last one ended; file, buffer and queue together are the first numbers |
| `EndsAreComplete` | EndsComplete | `Passed`: what was read could be read, and what was received is in the file or, a short last chunk only, in the buffer of the `ofstream` (Counted). `main` leaves when all the head counts have been received; by InOrder these are all there are |
| `Restore_proofs!ListedStaysSaved`, `WholeStaysFetched` | ListedSaved, WholeFetched | a hash has no NUL byte, so an entry's key begins with the whole hash of its chunk (KeyBegins): no key is that of two chunks (KeysApart), and a key as long as a hash is the hash (FullKey) |
| `Chunker_proofs!SizesAlwaysInBounds` | SizesInBounds | the buffer is cut at the latest when it holds `maxChunkSize` |
| `NothingEverLost` | NothingLost | chunks and buffer put together grow by the byte that is looked at; a cut moves the buffer behind the chunks and changes nothing of it |
| `CutsFollowContent` | CutByContent | `winFp` is, modulo 2^16, the polynomial of the window: sliding removes the oldest byte's term, though the tables are modulo 2^23, because 2^16 divides that (CongDivides). After a cut the buffer starts with `winFp` 0, so by induction over the buffer every decision of a chunk but the first is that of `Boundary` |
| `Recoder_proofs!AllBitsStay`, `AllStuffed` | AllBitsKept, StuffedElsewhere | of BitWriter alone, for any codes. `Written`: bits coded = bits sent, then pending; a body is right if joined from right pieces |
| `SymbolsFound` | CodesFound | `Counted`: what the first pass went through has a count that is not zero |
| `CodesApart` | PrefixFree | ranks are apart (RanksApart), and `huffcode` of a longer code is beyond every shorter one shifted to its length (HuffcodeBehind), so their digits differ where both have some (DigitsTell); the last code stays below the ones (HuffcodeFits), so no code is all ones |
| `MagnitudeKept` | - | `Tobin(ValueOf(b)) = b` for bits of any length: a negative number is complemented, and its complement has as many digits as were read (DigitsOfNumber) |
| `TablesAreRebuilt` | TablesRebuilt | the DHT segment has as many lengths as symbols, in the order of their ranks (RanksAre, LengthsCounted); both programs then count on by one and shift by the lengths they pass, so `huffcode` is the same at every place (HuffcodesAre) |
| `RecoderIsWriter`, `RecoderKeepsBits`, `RecoderStuffs` | AllBitsKept, StuffedElsewhere | every step of the recoder is one of the bit writer, given that codes and magnitudes fit two bytes |
| `RereadIsRecoder` | - | reading files back changes nothing of the recoder: the theorems hold of the runs' specification |
| `RecodedFile_proofs!LayingInvariant` | - | `LayingInv`: the bytes of a file are frames, one for each restart interval (see below); each step of the recoder makes the last frame longer or closes it with a marker |
| `AlwaysDelivered` | Delivered | `DecoderInv`: the decoder stands in front of a symbol of the image, with the bits in front of it read and some whole bytes behind it read ahead (`Within`); a turn brings it in front of the next symbol (WithinReads), or behind a marker (BehindMarker) |
| `Directory_proofs!TablesAlwaysCover` | TablesCover | `IDir`: what is listed and no longer to do has been counted (Covered), and a file that is written while it is still to be read needs codes of the tables only. The file may be another one than the one counted |
| `AlwaysReadsItsOwn`, `AlwaysRepaired`, `RunAlwaysDelivers` | ReadsItsOwn, Repaired, RunDelivers | `IFit`: a file of the user, and every output as many levels above it as runs ended since the last crash, holds all of a picture in a layout the program can read (GoodLevels); in the second pass so do the outputs already written (GoodOutputs). The names of a picture have no gaps (NoGaps), which makes the output of a listed name one that is listed or new |

The recoder's assumptions about its tables are `CodesAssumption` - `one_size_max` has a code of
at most 16 bits for every symbol (the program itself ends otherwise, main.cpp 1449), and the last
code is less than the ones of its length: with all 256 symbols it is 65514, of 16 bits - and
`MagnitudesAssumption`, that a symbol says how many bits follow it, not more than two bytes
have. Both are arithmetic on the constants, say nothing of what the program computes from them,
and TLC evaluates them on the instance. The assumptions of Chunker are those its constants
satisfy: sizes in order, 2^16 divides polyMOD + 1, anchorMask + 1 divides 2^16.

`NatRecursion` has what these proofs need of recursion. The induction theorems of the library
take an operator for the property, which the provers cannot instantiate; here the property is
given as the set of the numbers that have it (`SetInduction`), and the step of a recursion as a
function (`Recursion`), both from the well-foundedness of `<` on the naturals. The recursive
functions of the models (`power`, the fingerprint, `Power2`, `Shorter`, `huffcode`, `v` of a
magnitude) and `FlattenSeq` of the community modules are shown to satisfy their equations that
way, whatever their domain. This is also why `Fingerprint` and `Power2` are recursive functions
in the models, not a fold and an exponent.

The proof of `Delivered` joins two programs that share only a sequence of bytes. What they have in
common is a *frame* (`Frame`): the bits of one restart interval as the decoder will read them and,
for each number of them at a byte's end, the place of the next byte in the file; a stuffed byte of
zeros makes that place go on by two. A frame goes on over the two bytes of the marker behind it
(`ClosedAtMarker`), because the decoder reads ahead over them before it knows of the marker. The
proof has three parts:

1. The recoder lays out frames. What it knows between two MCUs - `restarts_to_go`, the number of
   markers so far, the bits since the last one - is a function of the image alone (`Ledger`), so
   the frame each MCU belongs to and the bits in front of it are known whatever is written. `Laying`
   says the bits coded so far are those of the ledger and end the last frame, and every earlier
   frame is closed by its marker behind less than a byte of padding. `Emit`, `WriteRst` and `Flush`
   each keep that (EmitLays, MarkerWrites).
2. The decoder reads a frame. Whatever number of bits is read ahead, it is a view of the frame from
   the bits used to some byte's end (`View`), and reading on leads to another one (RefillIs). A code
   that is next in the frame is found, and no other, since codes can be told apart (NextCodeIs, from
   CodesApart); the magnitude behind it is as long as the symbol says (TurnIs). The look-ahead never
   lacks bytes, because a frame holds two bytes behind its last code and no code is longer.
3. At the end of an interval less than a byte of padding is left, and nothing, one or both bytes of
   the marker have been read: `nbits_in_reservoir / 8` is 0, 1 or 2, and stepping back by so
   many bytes puts the stream on the marker (GivesBack), whatever was read ahead. So
   `find_next_rst_marker` finds it where it starts (FindsMarker), with the number it expects.

`UnitsAssumption` says what an image is: at least one MCU, each of three data units that the counter
`j` of `process_Huffman_data_unit` goes through to its end. That is what the first pass of this same
decoder makes of a file, but for one in which zeros go beyond coefficient 63, where it leaves the
data unit with the magnitude unread (main.cpp, 832). TLC evaluates it on every image of the
instance. From `DecoderAssumption` the proof needs that the look-up table takes no more bits than
the longest code may have.

Only model-checked: liveness (`Terminates`, `Ended`), which the prover cannot do. Every invariant
and action property of the passing runs is stated by a theorem.

## 5. Simplifications, and what is not modelled

The store:

- Hashes never collide, those included whose digests differ only where `generateHash` replaces a
  NUL byte by `'\200'`; a hash is its chunk.
- ContainerStore and DedupSystem take the key of a chunk to be its hash. Where the byte behind
  `hash[32]` on the stack is not NUL (it is not initialised, and depends on the build), a chunk is
  saved under a longer key, and a restore, which looks for 32 bytes, does not find it. ChunkKeys
  shows that this harms no other chunk, and not the same one once it is saved under its hash;
  that such a chunk can be restored is claimed nowhere.
- LevelDB keeps what a Put returned: a process that dies loses nothing, a power failure could
  (no sync).
- `.StorageConfig` is written in two steps, name and size; a crash between its truncation and the
  first of them, which leaves an empty container name to the next session, is outside the names
  the model has.
- Container names end after 15! of them; the model stops at `LastContainer`.
- One RecvDecode thread, as in config.json; with more, each would push the whole file.
- `Retriever` is never deleted, so a last chunk that is still buffered is lost: `Restore` and
  `DedupSystem` have this, FileWhole shows it, EndsComplete and RestoreServes say nothing else is
  lost. That it is the last chunk alone rests on `WriteThroughAssumption`: all others have at
  least `minChunkSize` bytes, 4096, which libstdc++ writes through.
- `StorageCore::saveChunks` (storageCore.cpp, 68) is called by nothing. It does not step over the
  bytes of a chunk it knows, and would need that before use.

The recoder:

- Of a coefficient the magnitude bits are kept, not the value with its DC prediction; the look-up
  tables are modelled by what they find. In the first pass of `Recoder` restart markers of the
  original are taken to be where the interval says; that this decoder finds them is checked on
  the program's own files, in RecodedFile.
- `slowtable` has 128 places for codes of one length and is never checked (main.cpp, 203):
  `DecoderAssumption` leaves out tables with more of them, such as the luma AC table of an image
  with 149 or more AC symbols, whose entries run over into what follows.
- `BubbleSort` swaps counts through a float; beyond 2^24 symbols may end in another order, which
  changes code lengths, not correctness.
- `Write_RST` returns no value from a function declared `int`; the repository's build
  (cmake-build-debug, no optimisation) goes on after it, and so does the model.
- The last bits of an image and its EOI are written to `fp` (main.cpp, 2241), which was closed
  before `fpdat` was opened: it works as long as `fopen` gives `fpdat` the same FILE, as glibc does.
- The comment over `get_next_huffman_code` (main.cpp, 651) promises -1 for a code that is not in
  the table; the code returns symbol 0, and so does `NextCode`.
- `Directory` leaves out what changes no file: `train.txt`, to which file names are appended and
  which nothing reads; the branch `type == 1` of the tables, which nothing
  sets; the records `build_huffman_table` appends at `workon`, which nothing reads. A user's own
  `x.jpg.jpg` is overwritten when there is an `x.jpg`: `Right` accepts either picture.
- An output that a crash left without a whole header is listed and refused by every later run,
  which exits before it writes anything, until somebody removes it. ReadsItsOwn therefore excludes
  the runs behind a crash; Repaired and RunDelivers speak of those that end, where the crash was
  in a scan or between two files.

Not modelled: `configure`, and `cryptoPrimitive` but for what `generateHash` makes of a digest,
which keep no state; `fixSizeChunking`, which is
commented out; `keyClient`, `sender` and `dataSR`, of which the program makes no object; the
other copies of both programs, which are versions of the same code. Everything else in the
repository is vendored, generated or for reference - OpenSSL's source tree alone is more than
nine tenths of its lines, JPEGsnoop most of the rest - so the modelled lines are a small share of
all lines, though they are nearly all of the code that runs.

## 6. Plan

Done: containers, recipes, restore, sessions with uploads and restores, keys, chunker, bit writer,
recoder, decoder, directory, each with its runs, and the theorems above.

Left, for the model: several RecvDecode threads on one queue and one cached container; the places
of `slowtable` behind its end, if the layout of the tables is worth a model.
