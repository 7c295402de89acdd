---------------------------- MODULE VectorIndex ----------------------------
(***************************************************************************)
(* The index handle of src/index/state.rs and its file.                    *)
(*                                                                         *)
(* An `Index` keeps metadata (files, chunks, semantic edges), an HNSW      *)
(* graph that stores vectors under integer keys, and `id_to_key`, the only *)
(* link between the two.  `id_to_key` is never written to the file: it is  *)
(* rebuilt by every open from the sorted ids, on the promise that save     *)
(* left the keys compacted in that very order.  The module models every    *)
(* operation that moves ids, keys or vectors, inside the transactions the  *)
(* callers run (module run lock, reload, mutations, save), with failed     *)
(* additions, failed saves and restarts.                                   *)
(*                                                                         *)
(* Ids are natural numbers so that "sorted by id" is the order of Nat; a   *)
(* vector is the id it was embedded for and the version of the text.       *)
(***************************************************************************)
EXTENDS Integers, FiniteSets

CONSTANTS
  Files,      \* source documents
  ChunkIds,   \* chunk ids ("path.md#0"), in the order of their strings
  EdgeIds,    \* semantic edge ids ("edge:a.md->b.md@3"), likewise
  Owner,      \* the file an id belongs to (a chunk's document, an edge's source)
  Versions,   \* versions of a document's text
  MaxKey      \* bound on the keys one transaction may reach

Ids == ChunkIds \cup EdgeIds

ASSUME IdsAssumption ==
  /\ IsFiniteSet(ChunkIds) /\ IsFiniteSet(EdgeIds)
  /\ ChunkIds \subseteq Nat /\ EdgeIds \subseteq Nat
  /\ ChunkIds \cap EdgeIds = {}
  /\ Owner \in [Ids -> Files]
ASSUME VersionsAssumption == Versions \subseteq Nat \ {0} /\ Versions # {}
ASSUME MaxKeyAssumption == MaxKey \in Nat

VARIABLES
  stored,      \* metadata.files: the indexed documents
  fileChunks,  \* chunk_ids of each indexed document
  chunkVer,    \* metadata.chunks: version of each stored chunk, 0 if none
  sem,         \* link_graph.semantic_edges: ids of the tracked edges
  keyOf,       \* id_to_key, NoKey if the id has none
  hnsw,        \* the vectors: key, and what was embedded under it
  nextKey,
  dirty,
  disk,        \* the index file
  mode,        \* the transaction in progress
  parsed       \* documents upserted by it

handle == <<stored, fileChunks, chunkVer, sem, keyOf, hnsw, nextKey>>
vars == <<handle, dirty, disk, mode, parsed>>

NoKey == -1
Vector == [key : Nat, id : Ids, ver : Versions]
\* What a transaction may still do: an ingest upserts, then embeds edges, then
\* removes vanished documents; the other callers are shorter.
Kinds == {"ingest", "ingest_file", "watch", "modules"}
Modes == Kinds \cup {"idle", "ingest_cleanup", "ingest_file_cleanup"}

-----------------------------------------------------------------------------
(* Helpers *)

\* Faulty: positions counted from -1.
RankOffByOne(S, x) == Cardinality({y \in S : y < x}) - 1

\* Position of x when the ids of S are sorted.
Rank(S, x) == Cardinality({y \in S : y < x})

ChunksIn(ver) == {c \in ChunkIds : ver[c] # 0}
Chunks == ChunksIn(chunkVer)
Keyed == {i \in Ids : keyOf[i] # NoKey}
EdgesOf(f) == {e \in EdgeIds : Owner[e] = f}

\* Chunk ids of a document are numbered from 0 without gaps.
ChunkPrefixes(f) ==
  {cs \in SUBSET {c \in ChunkIds : Owner[c] = f} :
     \A c \in cs, d \in ChunkIds : Owner[d] = f /\ d < c => d \in cs}

\* Faulty: vectors paired with the ids in the wrong order.
FreshMisaligned(ids, from, v) ==
  {[key |-> from + Cardinality({j \in ids : j > i}), id |-> i, ver |-> v] : i \in ids}

\* Keys handed out by one call: from `from` on, in the order of the ids.
Fresh(ids, from, v) == {[key |-> from + Rank(ids, i), id |-> i, ver |-> v] : i \in ids}

\* hnsw.remove of the keys of some ids.
Without(vs, ids) == {e \in vs : \A i \in ids : keyOf[i] # e.key}

\* Keys an open assigns: sorted chunk ids, then sorted semantic edges.
OpenKeys(ver, edges) ==
  [i \in Ids |-> IF i \in ChunksIn(ver) THEN Rank(ChunksIn(ver), i)
                 ELSE IF i \in edges THEN Cardinality(ChunksIn(ver)) + Rank(edges, i)
                 ELSE NoKey]

\* Faulty: next_key is the number of vectors, as if each tracked edge had one.
OpenNextBySize(d) == Cardinality(d.hnsw)

\* next_key after an open: never below the number of vectors in the file.
OpenNext(d) ==
  LET counted == Cardinality(ChunksIn(d.chunkVer)) + Cardinality(d.sem)
      size == Cardinality(d.hnsw)
  IN  IF counted < size THEN size ELSE counted

\* Faulty: a save numbers the edges before the chunks.
SaveKeysEdgesFirst ==
  LET edges == {e \in EdgeIds \cap Keyed : e \in sem} IN
  [i \in Ids |-> IF i \in edges THEN Rank(edges, i)
                 ELSE IF i \in Chunks THEN Cardinality(edges) + Rank(Chunks, i)
                 ELSE NoKey]

\* Keys a save assigns: sorted chunk ids, then the sorted ids of id_to_key that
\* are edges still tracked by the link graph (the others are orphans).
SaveEdges == {e \in EdgeIds \cap Keyed : e \in sem}
SaveKeys == OpenKeys(chunkVer, SaveEdges)

\* The vectors a save copies into the new graph.
Compacted ==
  {[p[2] EXCEPT !.key = SaveKeys[p[1]]] :
     p \in {q \in (Chunks \cup SaveEdges) \X hnsw : keyOf[q[1]] = q[2].key}}

EmptyDisk ==
  [stored |-> {}, fileChunks |-> [f \in Files |-> {}],
   chunkVer |-> [c \in ChunkIds |-> 0], sem |-> {}, hnsw |-> {}]

-----------------------------------------------------------------------------
Init ==
  /\ stored = {} /\ fileChunks = [f \in Files |-> {}]
  /\ chunkVer = [c \in ChunkIds |-> 0] /\ sem = {}
  /\ keyOf = [i \in Ids |-> NoKey] /\ hnsw = {} /\ nextKey = 0
  /\ dirty = FALSE /\ disk = EmptyDisk
  /\ mode = "idle" /\ parsed = {}

\* open_with_options: take the file's metadata and rebuild id_to_key.
Load ==
  /\ stored' = disk.stored /\ fileChunks' = disk.fileChunks
  /\ chunkVer' = disk.chunkVer /\ sem' = disk.sem /\ hnsw' = disk.hnsw
  /\ keyOf' = OpenKeys(disk.chunkVer, disk.sem)
  /\ nextKey' = OpenNext(disk)
  /\ dirty' = FALSE

\* Faulty: a transaction continues on the handle as it is, dirty or not.
BeginUnloaded(m) ==
  /\ mode = "idle"
  /\ mode' = m /\ parsed' = {}
  /\ UNCHANGED <<handle, dirty, disk>>

\* A caller takes the module run lock and reloads the handle; a dirty handle
\* is refused, so the caller gives up.
Begin(m) ==
  /\ mode = "idle" /\ ~dirty
  /\ Load
  /\ mode' = m /\ parsed' = {}
  /\ UNCHANGED disk

\* reset_embedding_space: a reindex drops the in-memory generation.
ResetEmbeddingSpace ==
  /\ mode \in {"ingest", "ingest_file"} /\ parsed = {}
  /\ stored' = {} /\ fileChunks' = [f \in Files |-> {}]
  /\ chunkVer' = [c \in ChunkIds |-> 0] /\ sem' = {}
  /\ keyOf' = [i \in Ids |-> NoKey] /\ hnsw' = {} /\ nextKey' = 0
  /\ dirty' = TRUE
  /\ UNCHANGED <<disk, mode, parsed>>

\* Replace a document's chunks: its old ids lose key and vector, the new ones
\* get fresh keys in order; `used` keys are consumed.
ReplaceChunks(f, v, cs, used) ==
  LET old == fileChunks[f] IN
  /\ nextKey + used <= MaxKey
  /\ hnsw' = Without(hnsw, old) \cup Fresh(cs, nextKey, v)
  /\ keyOf' = [i \in Ids |-> IF i \in cs THEN nextKey + Rank(cs, i)
                             ELSE IF i \in old THEN NoKey ELSE keyOf[i]]
  /\ chunkVer' = [c \in ChunkIds |-> IF c \in cs THEN v
                                     ELSE IF c \in old THEN 0 ELSE chunkVer[c]]
  /\ nextKey' = nextKey + used

\* The documents a transaction may still upsert: each once by an ingest, a
\* single one by a watcher event or `ingest --file`.
MayUpsert(f) ==
  /\ mode \in {"ingest", "ingest_file", "watch"}
  /\ f \notin parsed
  /\ mode # "ingest" => parsed = {}

Upsert(f, v, cs) ==
  /\ MayUpsert(f)
  /\ ReplaceChunks(f, v, cs, Cardinality(cs))
  /\ stored' = stored \cup {f}
  /\ fileChunks' = [fileChunks EXCEPT ![f] = cs]
  /\ parsed' = parsed \cup {f}
  /\ dirty' = TRUE
  /\ UNCHANGED <<sem, disk, mode>>

\* Faulty: the caller goes on after the failed document.
UpsertSkips(f, v, done) ==
  /\ MayUpsert(f)
  /\ ReplaceChunks(f, v, done, Cardinality(done) + 1)
  /\ stored' = stored \ {f}
  /\ fileChunks' = [fileChunks EXCEPT ![f] = {}]
  /\ UNCHANGED <<sem, dirty, disk, mode, parsed>>

\* upsert whose hnsw.add fails after the chunks in `done`: the old entry is
\* gone, the chunks so far are in, and the dirty flag was not reached.  The
\* caller returns the error without saving.
UpsertFails(f, v, done) ==
  /\ MayUpsert(f)
  /\ ReplaceChunks(f, v, done, Cardinality(done) + 1)
  /\ stored' = stored \ {f}
  /\ fileChunks' = [fileChunks EXCEPT ![f] = {}]
  /\ mode' = "idle" /\ parsed' = {}
  /\ UNCHANGED <<sem, dirty, disk>>

\* insert_unembedded_source_metadata: a manual module run records a new
\* document without chunks.
InsertUnembedded(f) ==
  /\ mode = "modules" /\ f \notin stored
  /\ stored' = stored \cup {f}
  /\ dirty' = TRUE
  /\ UNCHANGED <<fileChunks, chunkVer, sem, keyOf, hnsw, nextKey, disk, mode, parsed>>

\* refresh_source_metadata, replace_computed_fields, apply_module_source_state,
\* clear_computed_fields_for_module and the setters of schemas, clusters and the
\* link graph: metadata that no id, key or vector depends on.
RefreshMetadata ==
  /\ mode # "idle" /\ ~dirty
  /\ dirty' = TRUE
  /\ UNCHANGED <<handle, disk, mode, parsed>>

\* upsert_edges: the listed edges get fresh keys, every other edge keeps its own.
UpsertEdges(es, v) ==
  /\ es # {} /\ nextKey + Cardinality(es) <= MaxKey
  /\ hnsw' = Without(hnsw, es) \cup Fresh(es, nextKey, v)
  /\ keyOf' = [i \in Ids |-> IF i \in es THEN nextKey + Rank(es, i) ELSE keyOf[i]]
  /\ nextKey' = nextKey + Cardinality(es)
  /\ dirty' = TRUE

\* The edge block of ingest: the edges of the documents it parsed are embedded
\* and become the whole of semantic_edges.
IngestEdges(es, v) ==
  /\ mode = "ingest" /\ \A e \in es : Owner[e] \in parsed
  /\ UpsertEdges(es, v)
  /\ sem' = es
  /\ mode' = "ingest_cleanup"
  /\ UNCHANGED <<stored, fileChunks, chunkVer, disk, parsed>>

\* The same block of `ingest --file`: only the edges of that file are replaced.
IngestFileEdges(f, es, v) ==
  /\ mode = "ingest_file" /\ f \in parsed /\ es \subseteq EdgesOf(f)
  /\ UpsertEdges(es, v)
  /\ sem' = (sem \ EdgesOf(f)) \cup es
  /\ mode' = "ingest_file_cleanup"
  /\ UNCHANGED <<stored, fileChunks, chunkVer, disk, parsed>>

\* remove_file, then remove_file_links on the link graph where the caller makes
\* that call: the document's chunks and edge vectors go, its entries in
\* semantic_edges stay.
RemoveFile(f) ==
  /\ mode \in {"ingest", "ingest_cleanup", "watch", "modules"}
  /\ f \in stored /\ f \notin parsed
  /\ mode' = IF mode = "ingest" THEN "ingest_cleanup" ELSE mode
  /\ hnsw' = Without(hnsw, fileChunks[f] \cup EdgesOf(f))
  /\ keyOf' = [i \in Ids |-> IF i \in fileChunks[f] \cup EdgesOf(f) THEN NoKey ELSE keyOf[i]]
  /\ chunkVer' = [c \in ChunkIds |-> IF c \in fileChunks[f] THEN 0 ELSE chunkVer[c]]
  /\ stored' = stored \ {f}
  /\ fileChunks' = [fileChunks EXCEPT ![f] = {}]
  /\ dirty' = TRUE
  /\ UNCHANGED <<sem, nextKey, disk, parsed>>

\* First half of save: drop orphans, renumber every key.
Compact ==
  /\ hnsw' = Compacted
  /\ keyOf' = SaveKeys
  /\ nextKey' = Cardinality(Chunks) + Cardinality(SaveEdges)
  /\ UNCHANGED <<stored, fileChunks, chunkVer, sem>>

\* Faulty: the file gets the graph as it was before the renumbering.
SaveUncompacted ==
  /\ mode # "idle"
  /\ Compact
  /\ disk' = [stored |-> stored, fileChunks |-> fileChunks, chunkVer |-> chunkVer,
              sem |-> sem, hnsw |-> hnsw]
  /\ dirty' = FALSE
  /\ mode' = "idle" /\ parsed' = {}

\* save: compact, take the write lock, replace the file atomically.
Save ==
  /\ mode # "idle"
  /\ Compact
  /\ disk' = [stored |-> stored, fileChunks |-> fileChunks, chunkVer |-> chunkVer,
              sem |-> sem, hnsw |-> Compacted]
  /\ dirty' = FALSE
  /\ mode' = "idle" /\ parsed' = {}

\* save that finds the index busy or cannot write: the handle is compacted all
\* the same and keeps its dirty flag.
SaveFails ==
  /\ mode # "idle"
  /\ Compact
  /\ mode' = "idle" /\ parsed' = {}
  /\ UNCHANGED <<dirty, disk>>

\* Any other step of the transaction returns an error.
Abort ==
  /\ mode # "idle"
  /\ mode' = "idle" /\ parsed' = {}
  /\ UNCHANGED <<handle, dirty, disk>>

\* The process dies, or the caller discards the handle and opens the file again.
Reopen ==
  /\ Load
  /\ mode' = "idle" /\ parsed' = {}
  /\ UNCHANGED disk

Next ==
  \/ \E m \in Kinds : Begin(m)
  \/ ResetEmbeddingSpace
  \/ \E f \in Files, v \in Versions, cs \in SUBSET ChunkIds :
       /\ cs \in ChunkPrefixes(f)
       /\ \/ Upsert(f, v, cs)
          \/ \E done \in ChunkPrefixes(f) : done \subseteq cs /\ done # cs /\ UpsertFails(f, v, done)
  \/ \E f \in Files : InsertUnembedded(f) \/ RemoveFile(f)
  \/ RefreshMetadata
  \/ \E es \in SUBSET EdgeIds, v \in Versions :
       IngestEdges(es, v) \/ \E f \in Files : IngestFileEdges(f, es, v)
  \/ Save \/ SaveFails \/ Abort \/ Reopen

Spec == Init /\ [][Next]_vars

-----------------------------------------------------------------------------
(* Properties *)

DiskType ==
  [stored : SUBSET Files, fileChunks : [Files -> SUBSET ChunkIds],
   chunkVer : [ChunkIds -> Versions \cup {0}], sem : SUBSET EdgeIds,
   hnsw : SUBSET Vector]

\* Every variable has the shape of its Rust counterpart.
TypeOK ==
  /\ stored \in SUBSET Files /\ fileChunks \in [Files -> SUBSET ChunkIds]
  /\ chunkVer \in [ChunkIds -> Versions \cup {0}] /\ sem \in SUBSET EdgeIds
  /\ keyOf \in [Ids -> Nat \cup {NoKey}] /\ hnsw \in SUBSET Vector
  /\ nextKey \in Nat /\ dirty \in BOOLEAN
  /\ disk \in DiskType /\ mode \in Modes /\ parsed \in SUBSET Files

\* No key is ever handed out twice: stored vectors have distinct keys, all below
\* next_key, so that an add cannot fail with usearch's "duplicate key" (the
\* hazard open_with_options and save each carry a correction for).
KeysFresh ==
  /\ \A e \in hnsw : e.key < nextKey
  /\ \A d, e \in hnsw : d.key = e.key => d = e
  /\ \A i, j \in Keyed : keyOf[i] = keyOf[j] => i = j

\* Between any operations, each stored chunk's key leads to the vector of that
\* very chunk in that very version: key renumbering by saves and key
\* reconstruction by opens agree for chunks.
ChunkVectorsFaithful ==
  \A c \in Chunks : [key |-> keyOf[c], id |-> c, ver |-> chunkVer[c]] \in hnsw

\* The same of the file: whoever opens it next resolves each chunk correctly.
FileFaithful ==
  \A c \in ChunksIn(disk.chunkVer) :
    [key |-> OpenKeys(disk.chunkVer, disk.sem)[c], id |-> c, ver |-> disk.chunkVer[c]] \in disk.hnsw

\* An edge id never resolves to a chunk's vector: edge search and edge boosts
\* may go wrong among edges, but never answer with document text.
EdgesNeverHitChunks ==
  \A e \in EdgeIds \cap Keyed : \A v \in hnsw : v.key = keyOf[e] => v.id \in EdgeIds

\* A half-applied upsert never reaches the file: every chunk in it is listed by
\* its document, and every listed chunk is in it.
FileComplete ==
  \A c \in ChunkIds : (c \in disk.fileChunks[Owner[c]] /\ Owner[c] \in disk.stored) <=> disk.chunkVer[c] # 0

\* The documents as a search resolves them: for each chunk of a document, what
\* the vectors under its key were embedded for.
Resolved(docs, chunks, key, vs) ==
  [f \in Files |->
     IF f \notin docs THEN <<>>
     ELSE <<{<<p[1], p[2].id, p[2].ver>> :
               p \in {q \in chunks[f] \X vs : key[q[1]] = q[2].key}}>>]

Committed == Resolved(disk.stored, disk.fileChunks, OpenKeys(disk.chunkVer, disk.sem), disk.hnsw)
Working == IF mode = "idle" THEN Committed ELSE Resolved(stored, fileChunks, keyOf, hnsw)
Documents == {<<{<<c, c, v>> : c \in cs}>> : cs \in SUBSET ChunkIds, v \in Versions}

Store == INSTANCE TransactionalStore WITH
  Docs <- Files, Contents <- Documents, Absent <- <<>>,
  committed <- Committed, working <- Working, open <- mode # "idle"

\* The handle and its file implement a transactional store of documents: every
\* operation edits one document, a save publishes exactly the documents the
\* transaction worked on, and failures and restarts publish nothing.
ImplementsStore == Store!Spec

=============================================================================
