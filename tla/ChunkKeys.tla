------------------------------ MODULE ChunkKeys ------------------------------
(***************************************************************************)
(* The keys of fp2ChunkDB.  varSizeChunking passes the hash of a chunk to  *)
(* Database::query and StorageCore::saveChunk as a char pointer, which     *)
(* becomes a std::string that ends before the first NUL byte.  A hash has  *)
(* none, because generateHash replaces them, and none is put behind it:    *)
(* the key goes on over whatever the stack holds there.                    *)
(* restoreRecipeAndChunk builds the string from the CHUNK_HASH_SIZE bytes  *)
(* of the hash.                                                            *)
(*                                                                         *)
(* A chunk is identified with its hash: no two chunks have digests that    *)
(* are the same, or the same but for NUL bytes that generateHash replaces. *)
(***************************************************************************)
EXTENDS Naturals, Sequences

CONSTANTS
  HashSize,  \* CHUNK_HASH_SIZE
  Bytes,     \* the values of a byte
  Behind     \* what may lie behind a hash, up to the next NUL byte

Nul == 0
High == 128    \* '\200'

ASSUME KeyAssumption ==
  /\ HashSize \in Nat
  /\ {Nul, High} \subseteq Bytes
  /\ Behind \subseteq Seq(Bytes \ {Nul})

\* what EVP_DigestFinal_ex may return
Digests == [1 .. HashSize -> Bytes]

\* Faulty variant: the digest as it is.
HashRaw(d) == d

\* generateHash
Hash(d) == [i \in 1 .. HashSize |-> IF d[i] = Nul THEN High ELSE d[i]]

Hashes == {Hash(d) : d \in Digests}

VARIABLES
  index,   \* fp2ChunkDB: pairs of a key and the chunk saved under it
  listed,  \* the chunks recipes list
  whole    \* history: those of them uploaded under the bytes of their hash

keyVars == <<index, listed, whole>>

KeyInit == index = {} /\ listed = {} /\ whole = {}

\* the string a char pointer to the bytes s gives: it ends before the first NUL
CStrings(s) ==
  {SubSeq(s, 1, n) : n \in {m \in 0 .. Len(s) :
     /\ \A i \in 1 .. m : s[i] # Nul
     /\ m = Len(s) \/ s[m + 1] = Nul}}

\* the keys the chunker may use for h, by what lies behind it
SaveKeys(h) == UNION {CStrings(h \o t) : t \in Behind}

\* the one key a restore uses
RestoreKey(h) == h

\* Faulty variant: a key that begins with k is taken for k.
KnowsBeginning(k) ==
  \E e \in index : Len(k) <= Len(e.key) /\ SubSeq(e.key, 1, Len(k)) = k

Knows(k) == \E e \in index : e.key = k

\* The chunker deduplicates or saves chunk h and lists it in the recipe.
UploadChunk(h) ==
  /\ listed' = listed \cup {h}
  /\ \E queried, saved \in SaveKeys(h) :
       IF Knows(queried)
       THEN /\ UNCHANGED index
            /\ whole' = IF queried = h THEN whole \cup {h} ELSE whole
       ELSE /\ index' = {e \in index : e.key # saved} \cup {[key |-> saved, chunk |-> h]}
            /\ whole' = IF saved = h THEN whole \cup {h} ELSE whole

\* restoreChunk for an entry of a recipe
Fetched(h) == {e.chunk : e \in {f \in index : f.key = RestoreKey(h)}}

KeyNext == \E h \in Hashes : UploadChunk(h)

KeySpec == KeyInit /\ [][KeyNext]_keyVars

-----------------------------------------------------------------------------
(* Properties                                                              *)

\* Every chunk a recipe lists has been saved under some key: whatever lay behind the
\* hashes, no chunk is taken for another one that is saved already, or saved over
\* one.  This is what generateHash replaces NUL bytes for.
ListedSaved == \A h \in listed : \E e \in index : e.chunk = h

\* A chunk once saved, or found, under the bytes of its hash can be restored for
\* ever, though it and other chunks are uploaded under keys that go on behind
\* their hashes, in any order; the restore gets that chunk and no other.  A chunk
\* that was only ever saved under such a key is not found.
WholeFetched == \A h \in whole : Fetched(h) = {h}
=============================================================================
