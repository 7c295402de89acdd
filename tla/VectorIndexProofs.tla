------------------------- MODULE VectorIndexProofs -------------------------
(***************************************************************************)
(* Proofs about VectorIndex for every set of documents, ids and versions.  *)
(*                                                                         *)
(* The inductive invariant says one thing twice: of the handle, that its   *)
(* id_to_key and its vectors are coherent, and of the file, that the keys  *)
(* and the vectors the next open will pair are.  A reload then carries the *)
(* second to the first, a save the first to the second, and every other    *)
(* operation keeps the first and does not touch the second.                *)
(***************************************************************************)
EXTENDS VectorIndex, FiniteSetTheorems, TLAPS

-----------------------------------------------------------------------------
(* Positions of ids *)

\* The position of an element is a natural number below the size of the set:
\* no key of a block of keys reaches the next block.
LEMMA RankBound ==
  ASSUME NEW S, IsFiniteSet(S), S \subseteq Nat, NEW x \in S
  PROVE  /\ Rank(S, x) \in Nat
         /\ Rank(S, x) < Cardinality(S)
<1> DEFINE Below == {y \in S : y < x}
<1>1. Below \in SUBSET S /\ x \notin Below
  OBVIOUS
<1>2. IsFiniteSet(Below) /\ Cardinality(Below) <= Cardinality(S)
  BY <1>1, FS_Subset
<1>3. Cardinality(Below) # Cardinality(S)
  BY <1>1, FS_Subset
<1>4. Cardinality(Below) \in Nat /\ Cardinality(S) \in Nat
  BY <1>2, FS_CardinalityType
<1> QED
  BY <1>2, <1>3, <1>4 DEF Rank

\* Two elements have different positions: no two ids share a key.
LEMMA RankInjective ==
  ASSUME NEW S, IsFiniteSet(S), S \subseteq Nat, NEW x \in S, NEW y \in S, x # y
  PROVE  Rank(S, x) # Rank(S, y)
<1>1. ASSUME NEW a \in S, NEW b \in S, a < b
      PROVE  Rank(S, a) # Rank(S, b)
  <2> DEFINE A == {z \in S : z < a}
             B == {z \in S : z < b}
  <2>1. A \in SUBSET B /\ a \in B /\ a \notin A
    <3>1. a \in Nat /\ b \in Nat /\ \A z \in S : z \in Nat
      OBVIOUS
    <3>2. \A z \in S : z < a => z < b
      BY <3>1, <1>1
    <3>3. A \in SUBSET B
      BY <3>2
    <3>4. a \in B
      BY <1>1
    <3>5. a \notin A
      BY <3>1
    <3> QED
      BY <3>3, <3>4, <3>5
  <2>2. B \in SUBSET S
    OBVIOUS
  <2>3. IsFiniteSet(B)
    BY <2>2, FS_Subset
  <2>4. Cardinality(A) # Cardinality(B)
    BY <2>1, <2>3, FS_Subset
  <2> QED
    BY <2>4 DEF Rank
<1>2. x < y \/ y < x
  OBVIOUS
<1> QED
  BY <1>1, <1>2

\* Every set of ids is a finite set of natural numbers.
LEMMA IdSets ==
  ASSUME NEW S, S \subseteq Ids
  PROVE  IsFiniteSet(S) /\ S \subseteq Nat /\ Cardinality(S) \in Nat
<1>1. IsFiniteSet(Ids) /\ Ids \subseteq Nat
  BY IdsAssumption, FS_Union DEF Ids
<1>2. IsFiniteSet(S)
  BY <1>1, FS_Subset
<1> QED
  BY <1>1, <1>2, FS_CardinalityType

-----------------------------------------------------------------------------
(* Keys and vectors *)

\* What relates the chunk table, id_to_key, the vectors and next_key: keys are
\* unique and below next_key, a stored chunk resolves to its own vector, and an
\* edge never to a chunk's.
Coherent(ver, key, vs, next) ==
  /\ IsFiniteSet(vs)
  /\ \A v \in vs : v.key < next
  /\ \A v, w \in vs : v.key = w.key => v = w
  /\ \A i \in Ids : key[i] # NoKey => key[i] < next
  /\ \A i, j \in Ids : key[i] = key[j] /\ key[i] # NoKey => i = j
  /\ \A c \in ChunkIds : ver[c] # 0 => [key |-> key[c], id |-> c, ver |-> ver[c]] \in vs
  /\ \A e \in EdgeIds : \A v \in vs : v.key = key[e] => v.id \in EdgeIds

\* What an open of the file finds.
Loadable(d) == Coherent(d.chunkVer, OpenKeys(d.chunkVer, d.sem), d.hnsw, OpenNext(d))

Types(ver, key, vs, next) ==
  /\ ver \in [ChunkIds -> Versions \cup {0}]
  /\ key \in [Ids -> Nat \cup {NoKey}]
  /\ vs \in SUBSET Vector
  /\ next \in Nat

\* Keys assigned from sorted ids are natural numbers below the number of ids
\* that receive one, and no two ids share one.
LEMMA OpenKeysCompact ==
  ASSUME NEW ver \in [ChunkIds -> Versions \cup {0}], NEW edges \in SUBSET EdgeIds
  PROVE  LET key == OpenKeys(ver, edges)
             n == Cardinality(ChunksIn(ver))
         IN  /\ key \in [Ids -> Nat \cup {NoKey}]
             /\ n \in Nat /\ Cardinality(edges) \in Nat
             /\ \A c \in ChunksIn(ver) : key[c] = Rank(ChunksIn(ver), c) /\ key[c] \in Nat /\ key[c] < n
             /\ \A e \in edges : key[e] \in Nat /\ n <= key[e] /\ key[e] < n + Cardinality(edges)
             /\ \A i \in Ids : i \notin ChunksIn(ver) /\ i \notin edges => key[i] = NoKey
             /\ \A i, j \in Ids : key[i] = key[j] /\ key[i] # NoKey => i = j
<1> DEFINE key == OpenKeys(ver, edges)
           C == ChunksIn(ver)
           n == Cardinality(C)
<1>1. C \subseteq ChunkIds /\ edges \subseteq EdgeIds /\ C \cap edges = {}
  BY IdsAssumption DEF ChunksIn
<1>2. IsFiniteSet(C) /\ C \subseteq Nat /\ n \in Nat
  BY <1>1, IdSets DEF Ids
<1>3. IsFiniteSet(edges) /\ edges \subseteq Nat /\ Cardinality(edges) \in Nat
  BY <1>1, IdSets DEF Ids
<1>4. \A c \in C : Rank(C, c) \in Nat /\ Rank(C, c) < n
  BY <1>2, RankBound
<1>5. \A e \in edges : Rank(edges, e) \in Nat /\ Rank(edges, e) < Cardinality(edges)
  BY <1>3, RankBound
<1>6. \A c \in C : key[c] = Rank(C, c)
  BY <1>1 DEF OpenKeys, Ids
<1>7. \A e \in edges : key[e] = n + Rank(edges, e)
  BY <1>1 DEF OpenKeys, Ids
<1>8. \A i \in Ids : i \notin C /\ i \notin edges => key[i] = NoKey
  BY DEF OpenKeys
<1>9. key \in [Ids -> Nat \cup {NoKey}]
  <2>1. \A i \in Ids : key[i] \in Nat \cup {NoKey}
    BY <1>2, <1>4, <1>5, <1>6, <1>7, <1>8
  <2> QED
    BY <2>1 DEF OpenKeys
<1>10. ASSUME NEW i \in Ids, NEW j \in Ids, key[i] = key[j], key[i] # NoKey
       PROVE  i = j
  <2>1. i \in C \cup edges /\ j \in C \cup edges
    BY <1>8, <1>10
  <2>2. CASE i \in C /\ j \in C
    BY <2>2, <1>2, <1>6, <1>10, RankInjective
  <2>3. CASE i \in edges /\ j \in edges
    <3>1. Rank(edges, i) = Rank(edges, j)
      BY <2>3, <1>2, <1>5, <1>7, <1>10
    <3> QED
      BY <3>1, <2>3, <1>3, RankInjective
  <2>4. CASE (i \in C /\ j \in edges) \/ (i \in edges /\ j \in C)
    BY <2>4, <1>2, <1>4, <1>5, <1>6, <1>7, <1>10
  <2> QED
    BY <2>1, <2>2, <2>3, <2>4
<1> HIDE DEF key, C, n
<1>11. \A e \in edges : n <= key[e] /\ key[e] < n + Cardinality(edges) /\ key[e] \in Nat
  BY <1>2, <1>3, <1>5, <1>7
<1>12. \A c \in C : key[c] \in Nat /\ key[c] < n
  BY <1>4, <1>6
<1> QED
  BY <1>2, <1>3, <1>6, <1>8, <1>9, <1>10, <1>11, <1>12 DEF key, C, n

\* The block of keys one call hands out starts at next_key, has one key per id
\* and pairs each id with its own vector.
LEMMA FreshBlock ==
  ASSUME NEW ids, ids \subseteq Ids, NEW from \in Nat, NEW v \in Versions
  PROVE  LET new == Fresh(ids, from, v) IN
         /\ new \subseteq Vector /\ IsFiniteSet(new)
         /\ \A i \in ids : Rank(ids, i) \in Nat /\ Rank(ids, i) < Cardinality(ids)
         /\ \A i, j \in ids : Rank(ids, i) = Rank(ids, j) => i = j
         /\ \A i \in ids : [key |-> from + Rank(ids, i), id |-> i, ver |-> v] \in new
         /\ \A w \in new : w.id \in ids /\ w.key = from + Rank(ids, w.id)
         /\ \A w, x \in new : w.key = x.key => w = x
<1> DEFINE new == Fresh(ids, from, v)
           entry == [i \in ids |-> [key |-> from + Rank(ids, i), id |-> i, ver |-> v]]
<1>1. IsFiniteSet(ids) /\ ids \subseteq Nat /\ Cardinality(ids) \in Nat
  BY IdSets
<1>2. \A i \in ids : Rank(ids, i) \in Nat /\ Rank(ids, i) < Cardinality(ids)
  BY <1>1, RankBound
<1>3. \A i, j \in ids : Rank(ids, i) = Rank(ids, j) => i = j
  BY <1>1, RankInjective
<1>4. \A i \in ids : entry[i] \in new
  BY DEF Fresh
<1>5. \A w \in new : w.id \in ids /\ w = entry[w.id]
  BY DEF Fresh
<1>6. IsFiniteSet(new)
  <2>1. entry \in Surjection(ids, new)
    BY <1>4, <1>5 DEF Surjection
  <2> QED
    BY <2>1, <1>1, FS_Surjection
<1>7. new \subseteq Vector
  <2>1. \A i \in ids : entry[i] \in Vector
    BY <1>2 DEF Vector
  <2> QED
    BY <2>1, <1>5
<1>8. \A w \in new : w.id \in ids /\ w.key = from + Rank(ids, w.id)
  BY DEF Fresh
<1>9. \A w, x \in new : w.key = x.key => w = x
  <2> SUFFICES ASSUME NEW w \in new, NEW x \in new, w.key = x.key
               PROVE  w = x
    OBVIOUS
  <2>1. w.id \in ids /\ x.id \in ids /\ from + Rank(ids, w.id) = from + Rank(ids, x.id)
    BY <1>8
  <2>2. Rank(ids, w.id) = Rank(ids, x.id)
    BY <2>1, <1>2
  <2>3. w.id = x.id
    BY <2>1, <2>2, <1>3
  <2>4. w = entry[w.id] /\ x = entry[x.id]
    BY <1>5
  <2> HIDE DEF entry
  <2> QED
    BY <2>3, <2>4
<1>10. \A i \in ids : [key |-> from + Rank(ids, i), id |-> i, ver |-> v] \in new
  BY <1>4
<1> QED
  BY <1>2, <1>3, <1>6, <1>7, <1>8, <1>9, <1>10

\* Dropping some ids with their vectors and handing out one block of keys keeps
\* the handle coherent: what upsert, upsert_edges and remove_file have in common.
LEMMA ReassignCoherent ==
  ASSUME Types(chunkVer, keyOf, hnsw, nextKey), Coherent(chunkVer, keyOf, hnsw, nextKey),
         NEW dead, dead \subseteq Ids, NEW ids, ids \subseteq Ids,
         NEW v \in Versions, NEW used \in Nat, Cardinality(ids) <= used,
         NEW ver \in [ChunkIds -> Versions \cup {0}],
         \A c \in ChunkIds : ver[c] # 0 =>
            \/ c \in ids /\ ver[c] = v
            \/ c \notin ids /\ c \notin dead /\ ver[c] = chunkVer[c]
  PROVE  LET vs == Without(hnsw, dead) \cup Fresh(ids, nextKey, v)
             key == [i \in Ids |-> IF i \in ids THEN nextKey + Rank(ids, i)
                                   ELSE IF i \in dead THEN NoKey ELSE keyOf[i]]
         IN  Types(ver, key, vs, nextKey + used) /\ Coherent(ver, key, vs, nextKey + used)
<1> DEFINE kept == Without(hnsw, dead)
           new == Fresh(ids, nextKey, v)
           vs == kept \cup new
           key == [i \in Ids |-> IF i \in ids THEN nextKey + Rank(ids, i)
                                 ELSE IF i \in dead THEN NoKey ELSE keyOf[i]]
           next == nextKey + used
<1>1. nextKey \in Nat /\ next \in Nat /\ nextKey <= next
  BY DEF Types
<1>2. /\ new \subseteq Vector /\ IsFiniteSet(new)
      /\ \A i \in ids : Rank(ids, i) \in Nat /\ Rank(ids, i) < Cardinality(ids)
      /\ \A i, j \in ids : Rank(ids, i) = Rank(ids, j) => i = j
      /\ \A i \in ids : [key |-> nextKey + Rank(ids, i), id |-> i, ver |-> v] \in new
      /\ \A w \in new : w.id \in ids /\ w.key = nextKey + Rank(ids, w.id)
      /\ \A w, x \in new : w.key = x.key => w = x
  BY <1>1, FreshBlock
<1>3. Cardinality(ids) \in Nat
  BY IdSets
<1>4. kept \subseteq hnsw /\ \A w \in kept : \A i \in dead : keyOf[i] # w.key
  BY DEF Without
<1>5. \A w \in kept : w \in Vector /\ w.key \in Nat /\ w.key < nextKey
  BY <1>4 DEF Types, Coherent, Vector
<1>6. \A w \in new : w.key \in Nat /\ nextKey <= w.key /\ w.key < next
  BY <1>1, <1>2, <1>3
<1>7. \A i \in ids : key[i] = nextKey + Rank(ids, i) /\ key[i] \in Nat /\ nextKey <= key[i] /\ key[i] < next
  BY <1>1, <1>2, <1>3
<1>8. \A i \in Ids \ ids : key[i] \in Nat \cup {NoKey} /\ (key[i] # NoKey => i \notin dead /\ key[i] = keyOf[i] /\ key[i] < nextKey)
  BY DEF Types, Coherent
<1>9. Types(ver, key, vs, next)
  <2>1. \A i \in Ids : key[i] \in Nat \cup {NoKey}
    BY <1>7, <1>8
  <2>2. key \in [Ids -> Nat \cup {NoKey}]
    BY <2>1
  <2> HIDE DEF key
  <2> QED
    BY <1>1, <1>2, <1>5, <2>2 DEF Types
<1> HIDE DEF key, new, kept, next
<1>10. IsFiniteSet(vs)
  <2>1. IsFiniteSet(kept)
    BY <1>4, FS_Subset DEF Coherent
  <2> QED
    BY <2>1, <1>2, FS_Union
<1>11. \A w \in vs : w.key < next
  BY <1>1, <1>5, <1>6
<1>12. \A w, x \in vs : w.key = x.key => w = x
  <2>1. \A w, x \in kept : w.key = x.key => w = x
    BY <1>4 DEF Coherent
  <2>2. \A w \in kept, x \in new : w.key # x.key
    BY <1>1, <1>5, <1>6
  <2> QED
    BY <2>1, <2>2, <1>2
<1>13. \A i \in Ids : key[i] # NoKey => key[i] < next
  BY <1>1, <1>7, <1>8 DEF NoKey
<1>14. ASSUME NEW i \in Ids, NEW j \in Ids, key[i] = key[j], key[i] # NoKey
       PROVE  i = j
  <2>1. CASE i \in ids /\ j \in ids
    <3>1. Rank(ids, i) = Rank(ids, j)
      BY <2>1, <1>1, <1>2, <1>7, <1>14
    <3> QED
      BY <3>1, <2>1, <1>2
  <2>2. CASE i \notin ids /\ j \notin ids
    BY <2>2, <1>8, <1>14 DEF Coherent
  <2>3. CASE (i \in ids /\ j \notin ids) \/ (i \notin ids /\ j \in ids)
    BY <2>3, <1>1, <1>7, <1>8, <1>14 DEF NoKey
  <2> QED
    BY <2>1, <2>2, <2>3
<1>15. ASSUME NEW c \in ChunkIds, ver[c] # 0
       PROVE  [key |-> key[c], id |-> c, ver |-> ver[c]] \in vs
  <2>1. c \in Ids
    BY DEF Ids
  <2>2. CASE c \in ids /\ ver[c] = v
    BY <2>2, <1>2, <1>7
  <2>3. CASE c \notin ids /\ c \notin dead /\ ver[c] = chunkVer[c]
    <3> DEFINE w == [key |-> keyOf[c], id |-> c, ver |-> chunkVer[c]]
    <3>1. w \in hnsw
      BY <2>3, <1>15 DEF Coherent
    <3>2. keyOf[c] # NoKey
      <4>1. w.key \in Nat
        BY <3>1 DEF Types, Vector
      <4> QED
        BY <4>1 DEF NoKey
    <3>3. \A i \in dead : keyOf[i] # keyOf[c]
      BY <3>2, <2>1, <2>3 DEF Coherent
    <3>4. w \in kept
      BY <3>1, <3>3 DEF kept, Without
    <3>5. key[c] = keyOf[c]
      BY <2>1, <2>3 DEF key
    <3> QED
      BY <3>4, <3>5, <2>3
  <2> QED
    BY <1>15, <2>2, <2>3
<1>16. ASSUME NEW e \in EdgeIds, NEW w \in vs, w.key = key[e]
       PROVE  w.id \in EdgeIds
  <2>1. e \in Ids /\ w.key \in Nat
    BY <1>5, <1>6 DEF Ids
  <2>2. key[e] # NoKey
    BY <2>1, <1>16 DEF NoKey
  <2>3. CASE e \in ids
    <3>1. w \in new
      BY <2>3, <1>1, <1>5, <1>7, <1>16
    <3>2. Rank(ids, w.id) = Rank(ids, e) /\ w.id \in ids
      BY <3>1, <2>3, <1>1, <1>2, <1>7, <1>16
    <3> QED
      BY <3>2, <2>3, <1>2
  <2>4. CASE e \notin ids
    <3>1. key[e] = keyOf[e] /\ key[e] \in Nat /\ key[e] < nextKey
      BY <2>1, <2>2, <2>4, <1>8
    <3>2. w \in kept
      BY <3>1, <1>1, <1>6, <1>16
    <3> QED
      BY <3>1, <3>2, <1>4, <1>16 DEF Coherent
  <2> QED
    BY <2>3, <2>4
<1>17. Coherent(ver, key, vs, next)
  BY <1>10, <1>11, <1>12, <1>13, <1>14, <1>15, <1>16 DEF Coherent
<1> QED
  BY <1>9, <1>17 DEF key, new, kept, next

\* A vector a save keeps: the one under the key of a chunk or of a tracked edge,
\* under its new key.
LEMMA CompactedVectors ==
  ASSUME Types(chunkVer, keyOf, hnsw, nextKey), Coherent(chunkVer, keyOf, hnsw, nextKey)
  PROVE  /\ IsFiniteSet(Compacted)
         /\ \A w \in Compacted : \E i \in Chunks \cup SaveEdges : \E x \in hnsw :
              keyOf[i] = x.key /\ w = [key |-> SaveKeys[i], id |-> x.id, ver |-> x.ver]
         /\ \A i \in Chunks \cup SaveEdges : \A x \in hnsw : keyOf[i] = x.key =>
              [key |-> SaveKeys[i], id |-> x.id, ver |-> x.ver] \in Compacted
<1> DEFINE D == {q \in (Chunks \cup SaveEdges) \X hnsw : keyOf[q[1]] = q[2].key}
           moved == [p \in D |-> [p[2] EXCEPT !.key = SaveKeys[p[1]]]]
<1>1. IsFiniteSet(D)
  <2>1. Chunks \cup SaveEdges \subseteq Ids
    BY DEF Chunks, ChunksIn, SaveEdges, Ids
  <2>2. IsFiniteSet((Chunks \cup SaveEdges) \X hnsw)
    BY <2>1, IdSets, FS_Product DEF Coherent
  <2> QED
    BY <2>2, FS_Subset
<1>2. moved \in Surjection(D, Compacted)
  BY DEF Surjection, Compacted
<1>3. IsFiniteSet(Compacted)
  BY <1>1, <1>2, FS_Surjection
<1>4. ASSUME NEW x \in hnsw, NEW k
      PROVE  [x EXCEPT !.key = k] = [key |-> k, id |-> x.id, ver |-> x.ver]
  <2>1. x \in Vector
    BY DEF Types
  <2> QED
    BY <2>1 DEF Vector
<1>5. ASSUME NEW w \in Compacted
      PROVE  \E i \in Chunks \cup SaveEdges : \E x \in hnsw :
               keyOf[i] = x.key /\ w = [key |-> SaveKeys[i], id |-> x.id, ver |-> x.ver]
  <2>1. PICK p \in D : w = [p[2] EXCEPT !.key = SaveKeys[p[1]]]
    BY DEF Compacted
  <2>2. p[1] \in Chunks \cup SaveEdges /\ p[2] \in hnsw /\ keyOf[p[1]] = p[2].key
    OBVIOUS
  <2> QED
    BY <2>1, <2>2, <1>4
<1>6. ASSUME NEW i \in Chunks \cup SaveEdges, NEW x \in hnsw, keyOf[i] = x.key
      PROVE  [key |-> SaveKeys[i], id |-> x.id, ver |-> x.ver] \in Compacted
  <2>1. <<i, x>> \in D
    BY <1>6
  <2>2. [x EXCEPT !.key = SaveKeys[i]] \in Compacted
    BY <2>1 DEF Compacted
  <2> QED
    BY <2>2, <1>4
<1> QED
  BY <1>3, <1>5, <1>6

\* What a save leaves is coherent, both with the keys the handle keeps and with
\* those the next open will assign: chunk keys come first in either numbering,
\* so that tracked edges without a vector shift edge keys only.
LEMMA CompactCoherent ==
  ASSUME Types(chunkVer, keyOf, hnsw, nextKey), Coherent(chunkVer, keyOf, hnsw, nextKey),
         NEW edges \in SUBSET EdgeIds, SaveEdges \subseteq edges,
         NEW next \in Nat, Cardinality(Chunks) + Cardinality(edges) <= next
  PROVE  LET key == OpenKeys(chunkVer, edges)
         IN  Types(chunkVer, key, Compacted, next) /\ Coherent(chunkVer, key, Compacted, next)
<1> DEFINE key == OpenKeys(chunkVer, edges)
           n == Cardinality(Chunks)
<1>1. chunkVer \in [ChunkIds -> Versions \cup {0}]
  BY DEF Types
<1>2. SaveEdges \in SUBSET EdgeIds
  BY DEF SaveEdges
<1>3. /\ n \in Nat /\ Cardinality(SaveEdges) \in Nat
      /\ \A c \in Chunks : SaveKeys[c] = Rank(Chunks, c) /\ SaveKeys[c] \in Nat /\ SaveKeys[c] < n
      /\ \A e \in SaveEdges : SaveKeys[e] \in Nat /\ n <= SaveKeys[e]
                               /\ SaveKeys[e] < n + Cardinality(SaveEdges)
      /\ \A i, j \in Ids : SaveKeys[i] = SaveKeys[j] /\ SaveKeys[i] # NoKey => i = j
  BY <1>1, <1>2, OpenKeysCompact DEF SaveKeys, Chunks
<1>4. /\ key \in [Ids -> Nat \cup {NoKey}]
      /\ Cardinality(edges) \in Nat
      /\ \A c \in Chunks : key[c] = Rank(Chunks, c) /\ key[c] < n
      /\ \A e \in edges : key[e] \in Nat /\ n <= key[e] /\ key[e] < n + Cardinality(edges)
      /\ \A i \in Ids : i \notin Chunks /\ i \notin edges => key[i] = NoKey
      /\ \A i, j \in Ids : key[i] = key[j] /\ key[i] # NoKey => i = j
  BY <1>1, OpenKeysCompact DEF Chunks
<1> HIDE DEF key, n
<1>5. Cardinality(SaveEdges) <= Cardinality(edges)
  <2>1. IsFiniteSet(edges)
    BY IdSets DEF Ids
  <2> QED
    BY <2>1, FS_Subset
<1>6. n + Cardinality(edges) <= next
  BY DEF n
<1>7. Chunks \subseteq Ids /\ SaveEdges \subseteq Ids /\ Chunks \subseteq ChunkIds
  BY DEF Chunks, ChunksIn, SaveEdges, Ids
<1>8. /\ IsFiniteSet(Compacted)
      /\ \A w \in Compacted : \E i \in Chunks \cup SaveEdges : \E x \in hnsw :
           keyOf[i] = x.key /\ w = [key |-> SaveKeys[i], id |-> x.id, ver |-> x.ver]
      /\ \A i \in Chunks \cup SaveEdges : \A x \in hnsw : keyOf[i] = x.key =>
           [key |-> SaveKeys[i], id |-> x.id, ver |-> x.ver] \in Compacted
  BY CompactedVectors
<1>9. ASSUME NEW w \in Compacted
      PROVE  w \in Vector /\ w.key < next
  <2>1. PICK i \in Chunks \cup SaveEdges, x \in hnsw :
          keyOf[i] = x.key /\ w = [key |-> SaveKeys[i], id |-> x.id, ver |-> x.ver]
    BY <1>8
  <2>2. x.id \in Ids /\ x.ver \in Versions
    BY DEF Types, Vector
  <2>3. SaveKeys[i] \in Nat /\ SaveKeys[i] < next
    BY <1>3, <1>4, <1>5, <1>6
  <2> QED
    BY <2>1, <2>2, <2>3 DEF Vector
<1>10. ASSUME NEW w \in Compacted, NEW u \in Compacted, w.key = u.key
       PROVE  w = u
  <2>1. PICK i \in Chunks \cup SaveEdges, x \in hnsw :
          keyOf[i] = x.key /\ w = [key |-> SaveKeys[i], id |-> x.id, ver |-> x.ver]
    BY <1>8
  <2>2. PICK j \in Chunks \cup SaveEdges, y \in hnsw :
          keyOf[j] = y.key /\ u = [key |-> SaveKeys[j], id |-> y.id, ver |-> y.ver]
    BY <1>8
  <2>3. SaveKeys[i] = SaveKeys[j] /\ SaveKeys[i] # NoKey
    BY <2>1, <2>2, <1>3, <1>10 DEF NoKey
  <2>4. i = j
    BY <2>3, <1>3, <1>7
  <2>5. x = y
    BY <2>1, <2>2, <2>4 DEF Coherent
  <2> QED
    BY <2>1, <2>2, <2>4, <2>5
<1>11. \A i \in Ids : key[i] # NoKey => key[i] < next
  <2>1. ASSUME NEW i \in Ids, key[i] # NoKey
        PROVE  key[i] < next
    <3>1. i \in Chunks \/ i \in edges
      BY <2>1, <1>4
    <3>2. key[i] \in Nat
      BY <2>1, <1>4
    <3> QED
      BY <3>1, <3>2, <1>3, <1>4, <1>6
  <2> QED
    BY <2>1
<1>12. ASSUME NEW c \in ChunkIds, chunkVer[c] # 0
       PROVE  [key |-> key[c], id |-> c, ver |-> chunkVer[c]] \in Compacted
  <2> DEFINE x == [key |-> keyOf[c], id |-> c, ver |-> chunkVer[c]]
  <2>1. c \in Chunks
    BY <1>12 DEF Chunks, ChunksIn
  <2>2. x \in hnsw
    BY <1>12 DEF Coherent
  <2>3. [key |-> SaveKeys[c], id |-> x.id, ver |-> x.ver] \in Compacted
    BY <2>1, <2>2, <1>8
  <2>4. SaveKeys[c] = key[c]
    BY <2>1, <1>3, <1>4
  <2> QED
    BY <2>3, <2>4
<1>13. ASSUME NEW e \in EdgeIds, NEW w \in Compacted, w.key = key[e]
       PROVE  w.id \in EdgeIds
  <2>1. PICK i \in Chunks \cup SaveEdges, x \in hnsw :
          keyOf[i] = x.key /\ w = [key |-> SaveKeys[i], id |-> x.id, ver |-> x.ver]
    BY <1>8
  <2>2. e \in Ids /\ e \notin Chunks
    BY <1>7, IdsAssumption DEF Ids
  <2>3. key[e] # NoKey
    BY <2>1, <1>3, <1>13 DEF NoKey
  <2>4. n <= key[e] /\ key[e] \in Nat
    BY <2>2, <2>3, <1>4
  <2>5. i \in SaveEdges
    BY <2>1, <2>4, <1>3, <1>13
  <2>6. x.id \in EdgeIds
    BY <2>1, <2>5, <1>2 DEF Coherent
  <2> QED
    BY <2>1, <2>6
<1>14. Types(chunkVer, key, Compacted, next)
  BY <1>1, <1>4, <1>9 DEF Types
<1>15. Coherent(chunkVer, key, Compacted, next)
  <2>1. \A w \in Compacted : w.key < next
    BY <1>9
  <2>2. \A w, u \in Compacted : w.key = u.key => w = u
    BY <1>10
  <2>3. \A i, j \in Ids : key[i] = key[j] /\ key[i] # NoKey => i = j
    BY <1>4
  <2> QED
    BY <2>1, <2>2, <2>3, <1>8, <1>11, <1>12, <1>13 DEF Coherent
<1> QED
  BY <1>14, <1>15 DEF key

-----------------------------------------------------------------------------
(* The inductive invariant *)

CoherentInv ==
  /\ TypeOK
  /\ Coherent(chunkVer, keyOf, hnsw, nextKey)
  /\ Loadable(disk)

\* A coherent handle is what the state properties of handles say it is, and a
\* loadable file what those of files say.
LEMMA CoherentSuffices ==
  ASSUME CoherentInv
  PROVE  KeysFresh /\ ChunkVectorsFaithful /\ FileFaithful /\ EdgesNeverHitChunks
<1>1. KeysFresh
  BY DEF CoherentInv, Coherent, KeysFresh, Keyed
<1>2. ChunkVectorsFaithful
  BY DEF CoherentInv, Coherent, ChunkVectorsFaithful, Chunks, ChunksIn
<1>3. FileFaithful
  BY DEF CoherentInv, Loadable, Coherent, FileFaithful, ChunksIn
<1>4. EdgesNeverHitChunks
  BY DEF CoherentInv, Coherent, EdgesNeverHitChunks, Keyed
<1> QED
  BY <1>1, <1>2, <1>3, <1>4

\* An empty handle is coherent, and so is an empty file.
LEMMA EmptyCoherent ==
  LET none == [c \in ChunkIds |-> 0]
  IN  /\ Types(none, [i \in Ids |-> NoKey], {}, 0)
      /\ Coherent(none, [i \in Ids |-> NoKey], {}, 0)
      /\ EmptyDisk \in DiskType /\ Loadable(EmptyDisk)
<1> DEFINE none == [c \in ChunkIds |-> 0]
<1>1. Types(none, [i \in Ids |-> NoKey], {}, 0)
  BY DEF Types
<1>2. Coherent(none, [i \in Ids |-> NoKey], {}, 0)
  BY FS_EmptySet DEF Coherent, Ids
<1>3. EmptyDisk \in DiskType
  BY DEF EmptyDisk, DiskType
<1>4. Loadable(EmptyDisk)
  <2>1. none \in [ChunkIds -> Versions \cup {0}] /\ {} \in SUBSET EdgeIds /\ ChunksIn(none) = {}
    BY DEF ChunksIn
  <2>2. \A i \in Ids : OpenKeys(none, {})[i] = NoKey
    BY <2>1 DEF OpenKeys
  <2>3. \A next : Coherent(none, OpenKeys(none, {}), {}, next)
    BY <2>2, FS_EmptySet DEF Coherent, Ids
  <2> QED
    BY <2>3 DEF Loadable, EmptyDisk
<1> QED
  BY <1>1, <1>2, <1>3, <1>4

\* Opening a loadable file gives a well-typed handle.
LEMMA LoadTypes ==
  ASSUME NEW d \in DiskType, Loadable(d)
  PROVE  Types(d.chunkVer, OpenKeys(d.chunkVer, d.sem), d.hnsw, OpenNext(d))
<1>1. /\ d.chunkVer \in [ChunkIds -> Versions \cup {0}]
      /\ d.sem \in SUBSET EdgeIds /\ d.hnsw \in SUBSET Vector
  BY DEF DiskType
<1>2. /\ OpenKeys(d.chunkVer, d.sem) \in [Ids -> Nat \cup {NoKey}]
      /\ Cardinality(ChunksIn(d.chunkVer)) \in Nat /\ Cardinality(d.sem) \in Nat
  BY <1>1, OpenKeysCompact
<1>3. Cardinality(d.hnsw) \in Nat
  BY FS_CardinalityType DEF Loadable, Coherent
<1>4. OpenNext(d) \in Nat
  BY <1>2, <1>3 DEF OpenNext
<1> QED
  BY <1>1, <1>2, <1>4 DEF Types

\* The handle's part of the types.
LEMMA HandleTypes == TypeOK => Types(chunkVer, keyOf, hnsw, nextKey)
BY DEF TypeOK, Types

\* The first half of a save keeps the handle coherent; the file written from it
\* is loadable.
LEMMA CompactStep ==
  ASSUME CoherentInv, Compact
  PROVE  /\ Types(chunkVer', keyOf', hnsw', nextKey') /\ Coherent(chunkVer', keyOf', hnsw', nextKey')
         /\ \A docs, chunks : Loadable([stored |-> docs, fileChunks |-> chunks,
              chunkVer |-> chunkVer, sem |-> sem, hnsw |-> Compacted])
<1>1. Types(chunkVer, keyOf, hnsw, nextKey) /\ Coherent(chunkVer, keyOf, hnsw, nextKey)
  BY HandleTypes DEF CoherentInv
<1>2. chunkVer \in [ChunkIds -> Versions \cup {0}] /\ sem \in SUBSET EdgeIds
  BY DEF CoherentInv, TypeOK
<1>3. SaveEdges \in SUBSET EdgeIds /\ SaveEdges \subseteq sem
  BY DEF SaveEdges
<1>4. Cardinality(Chunks) \in Nat /\ Cardinality(SaveEdges) \in Nat /\ Cardinality(sem) \in Nat
  BY <1>2, <1>3, IdSets DEF Ids, Chunks, ChunksIn
<1>5. nextKey' = Cardinality(Chunks) + Cardinality(SaveEdges) /\ nextKey' \in Nat
  BY <1>4 DEF Compact
<1>6. /\ Types(chunkVer, SaveKeys, Compacted, nextKey')
      /\ Coherent(chunkVer, SaveKeys, Compacted, nextKey')
  BY <1>1, <1>3, <1>4, <1>5, CompactCoherent DEF SaveKeys
<1>7. Types(chunkVer', keyOf', hnsw', nextKey') /\ Coherent(chunkVer', keyOf', hnsw', nextKey')
  BY <1>6 DEF Compact
<1>8. ASSUME NEW docs, NEW chunks
      PROVE  Loadable([stored |-> docs, fileChunks |-> chunks,
              chunkVer |-> chunkVer, sem |-> sem, hnsw |-> Compacted])
  <2> DEFINE d == [stored |-> docs, fileChunks |-> chunks,
                   chunkVer |-> chunkVer, sem |-> sem, hnsw |-> Compacted]
  <2>1. Cardinality(Compacted) \in Nat
    BY <1>6, FS_CardinalityType DEF Coherent
  <2>2. OpenNext(d) \in Nat /\ Cardinality(Chunks) + Cardinality(sem) <= OpenNext(d)
    BY <2>1, <1>4 DEF OpenNext, Chunks
  <2>3. Coherent(chunkVer, OpenKeys(chunkVer, sem), Compacted, OpenNext(d))
    BY <2>2, <1>1, <1>2, <1>3, CompactCoherent
  <2> QED
    BY <2>3 DEF Loadable
<1> QED
  BY <1>7, <1>8

\* Replacing a document's chunks keeps the handle coherent.
LEMMA ReplaceStep ==
  ASSUME CoherentInv, NEW f \in Files, NEW v \in Versions, NEW cs \in SUBSET ChunkIds,
         NEW used \in Nat, Cardinality(cs) <= used, ReplaceChunks(f, v, cs, used)
  PROVE  Types(chunkVer', keyOf', hnsw', nextKey') /\ Coherent(chunkVer', keyOf', hnsw', nextKey')
<1> DEFINE old == fileChunks[f]
<1>1. Types(chunkVer, keyOf, hnsw, nextKey) /\ Coherent(chunkVer, keyOf, hnsw, nextKey)
  BY HandleTypes DEF CoherentInv
<1>2. old \subseteq Ids /\ cs \subseteq Ids
  BY DEF CoherentInv, TypeOK, Ids
<1>3. chunkVer' \in [ChunkIds -> Versions \cup {0}]
  BY DEF ReplaceChunks, CoherentInv, TypeOK
<1>4. \A c \in ChunkIds : chunkVer'[c] # 0 =>
         \/ c \in cs /\ chunkVer'[c] = v
         \/ c \notin cs /\ c \notin old /\ chunkVer'[c] = chunkVer[c]
  BY DEF ReplaceChunks
<1> QED
  BY <1>1, <1>2, <1>3, <1>4, ReassignCoherent DEF ReplaceChunks

\* Embedding some edges keeps the handle coherent.
LEMMA EdgeStep ==
  ASSUME CoherentInv, NEW es \in SUBSET EdgeIds, NEW v \in Versions, UpsertEdges(es, v),
         chunkVer' = chunkVer
  PROVE  Types(chunkVer', keyOf', hnsw', nextKey') /\ Coherent(chunkVer', keyOf', hnsw', nextKey')
<1>1. Types(chunkVer, keyOf, hnsw, nextKey) /\ Coherent(chunkVer, keyOf, hnsw, nextKey)
  BY HandleTypes DEF CoherentInv
<1>2. es \subseteq Ids /\ Cardinality(es) \in Nat
  BY IdSets DEF Ids
<1>3. \A c \in ChunkIds : c \notin es
  BY IdsAssumption
<1>4. chunkVer \in [ChunkIds -> Versions \cup {0}]
  BY DEF CoherentInv, TypeOK
<1>5. keyOf' = [i \in Ids |-> IF i \in es THEN nextKey + Rank(es, i)
                              ELSE IF i \in es THEN NoKey ELSE keyOf[i]]
  BY DEF UpsertEdges
<1> QED
  BY <1>1, <1>2, <1>3, <1>4, <1>5, ReassignCoherent DEF UpsertEdges

\* Removing a document keeps the handle coherent.
LEMMA RemoveStep ==
  ASSUME CoherentInv, NEW f \in Files, RemoveFile(f)
  PROVE  Types(chunkVer', keyOf', hnsw', nextKey') /\ Coherent(chunkVer', keyOf', hnsw', nextKey')
<1> DEFINE dead == fileChunks[f] \cup EdgesOf(f)
<1>1. Types(chunkVer, keyOf, hnsw, nextKey) /\ Coherent(chunkVer, keyOf, hnsw, nextKey)
  BY HandleTypes DEF CoherentInv
<1>2. dead \subseteq Ids
  BY DEF CoherentInv, TypeOK, Ids, EdgesOf
<1>3. chunkVer' \in [ChunkIds -> Versions \cup {0}]
  BY DEF RemoveFile, CoherentInv, TypeOK
<1>4. \A c \in ChunkIds : chunkVer'[c] # 0 => c \notin dead /\ chunkVer'[c] = chunkVer[c]
  BY IdsAssumption DEF RemoveFile, EdgesOf
<1>5. PICK v \in Versions : TRUE
  BY VersionsAssumption
<1>6. Fresh({}, nextKey, v) = {}
  BY DEF Fresh
<1>7. hnsw' = Without(hnsw, dead) \cup Fresh({}, nextKey, v)
  BY <1>6 DEF RemoveFile
<1>8. keyOf' = [i \in Ids |-> IF i \in {} THEN nextKey + Rank({}, i)
                              ELSE IF i \in dead THEN NoKey ELSE keyOf[i]]
  BY DEF RemoveFile
<1>9. nextKey' = nextKey + 0 /\ Cardinality({}) <= 0
  BY FS_EmptySet DEF RemoveFile, CoherentInv, TypeOK
<1> QED
  BY <1>1, <1>2, <1>3, <1>4, <1>7, <1>8, <1>9, ReassignCoherent

\* Every step keeps the handle coherent and the file loadable.
LEMMA CoherentStep == CoherentInv /\ [Next]_vars => CoherentInv'
<1> SUFFICES ASSUME CoherentInv, [Next]_vars
             PROVE  CoherentInv'
  OBVIOUS
<1> USE DEF Modes, Kinds
\* Once the new handle is typed and coherent, only the other variables remain.
<1>1. ASSUME Types(chunkVer', keyOf', hnsw', nextKey'), Coherent(chunkVer', keyOf', hnsw', nextKey'),
             stored' \in SUBSET Files, fileChunks' \in [Files -> SUBSET ChunkIds],
             sem' \in SUBSET EdgeIds, dirty' \in BOOLEAN, mode' \in Modes, parsed' \in SUBSET Files,
             disk' \in DiskType, Loadable(disk')
      PROVE  CoherentInv'
  <2>1. TypeOK'
    BY <1>1 DEF TypeOK, Types
  <2>2. Coherent(chunkVer, keyOf, hnsw, nextKey)' /\ Loadable(disk)'
    BY <1>1 DEF Coherent, Loadable, OpenKeys, OpenNext, ChunksIn, Rank
  <2> QED
    BY <2>1, <2>2 DEF CoherentInv
<1>2. /\ TypeOK /\ Loadable(disk) /\ disk \in DiskType
      /\ Types(chunkVer, keyOf, hnsw, nextKey) /\ Coherent(chunkVer, keyOf, hnsw, nextKey)
  BY HandleTypes DEF CoherentInv, TypeOK
\* A reload takes over what the file guarantees.
<1>3. ASSUME Load, mode' \in Modes, parsed' \in SUBSET Files, disk' = disk
      PROVE  CoherentInv'
  <2>1. Types(chunkVer', keyOf', hnsw', nextKey') /\ Coherent(chunkVer', keyOf', hnsw', nextKey')
    BY <1>2, <1>3, LoadTypes DEF Load, Loadable
  <2>2. /\ stored' \in SUBSET Files /\ fileChunks' \in [Files -> SUBSET ChunkIds]
        /\ sem' \in SUBSET EdgeIds /\ dirty' \in BOOLEAN
    BY <1>2, <1>3 DEF Load, DiskType
  <2> QED
    BY <1>1, <1>2, <1>3, <2>1, <2>2
<1>4. ASSUME NEW m \in Kinds, Begin(m)
      PROVE  CoherentInv'
  BY <1>3, <1>4 DEF Begin
<1>5. ASSUME ResetEmbeddingSpace
      PROVE  CoherentInv'
  <2>1. Types(chunkVer', keyOf', hnsw', nextKey') /\ Coherent(chunkVer', keyOf', hnsw', nextKey')
    BY <1>5, EmptyCoherent DEF ResetEmbeddingSpace
  <2>2. /\ stored' \in SUBSET Files /\ fileChunks' \in [Files -> SUBSET ChunkIds]
        /\ sem' \in SUBSET EdgeIds /\ dirty' \in BOOLEAN /\ mode' \in Modes
        /\ parsed' \in SUBSET Files /\ disk' = disk
    BY <1>2, <1>5 DEF ResetEmbeddingSpace, TypeOK
  <2> QED
    BY <1>1, <1>2, <2>1, <2>2
<1>6. ASSUME NEW f \in Files, NEW v \in Versions, NEW cs \in SUBSET ChunkIds, Upsert(f, v, cs)
      PROVE  CoherentInv'
  <2>1. Cardinality(cs) \in Nat
    BY IdSets DEF Ids
  <2>2. Types(chunkVer', keyOf', hnsw', nextKey') /\ Coherent(chunkVer', keyOf', hnsw', nextKey')
    BY <1>6, <2>1, ReplaceStep DEF Upsert
  <2>3. /\ stored' \in SUBSET Files /\ fileChunks' \in [Files -> SUBSET ChunkIds]
        /\ sem' \in SUBSET EdgeIds /\ dirty' \in BOOLEAN /\ mode' \in Modes
        /\ parsed' \in SUBSET Files /\ disk' = disk
    BY <1>2, <1>6 DEF Upsert, TypeOK
  <2> QED
    BY <1>1, <1>2, <2>2, <2>3
<1>7. ASSUME NEW f \in Files, NEW v \in Versions, NEW done \in SUBSET ChunkIds, UpsertFails(f, v, done)
      PROVE  CoherentInv'
  <2>1. Cardinality(done) \in Nat
    BY IdSets DEF Ids
  <2>2. Types(chunkVer', keyOf', hnsw', nextKey') /\ Coherent(chunkVer', keyOf', hnsw', nextKey')
    BY <1>7, <2>1, ReplaceStep DEF UpsertFails
  <2>3. /\ stored' \in SUBSET Files /\ fileChunks' \in [Files -> SUBSET ChunkIds]
        /\ sem' \in SUBSET EdgeIds /\ dirty' \in BOOLEAN /\ mode' \in Modes
        /\ parsed' \in SUBSET Files /\ disk' = disk
    BY <1>2, <1>7 DEF UpsertFails, TypeOK
  <2> QED
    BY <1>1, <1>2, <2>2, <2>3
<1>8. ASSUME NEW f \in Files, InsertUnembedded(f)
      PROVE  CoherentInv'
  <2>1. Types(chunkVer', keyOf', hnsw', nextKey') /\ Coherent(chunkVer', keyOf', hnsw', nextKey')
    BY <1>2, <1>8 DEF InsertUnembedded
  <2>2. /\ stored' \in SUBSET Files /\ fileChunks' \in [Files -> SUBSET ChunkIds]
        /\ sem' \in SUBSET EdgeIds /\ dirty' \in BOOLEAN /\ mode' \in Modes
        /\ parsed' \in SUBSET Files /\ disk' = disk
    BY <1>2, <1>8 DEF InsertUnembedded, TypeOK
  <2> QED
    BY <1>1, <1>2, <2>1, <2>2
<1>9. ASSUME NEW f \in Files, RemoveFile(f)
      PROVE  CoherentInv'
  <2>1. Types(chunkVer', keyOf', hnsw', nextKey') /\ Coherent(chunkVer', keyOf', hnsw', nextKey')
    BY <1>9, RemoveStep
  <2>2. /\ stored' \in SUBSET Files /\ fileChunks' \in [Files -> SUBSET ChunkIds]
        /\ sem' \in SUBSET EdgeIds /\ dirty' \in BOOLEAN /\ mode' \in Modes
        /\ parsed' \in SUBSET Files /\ disk' = disk
    BY <1>2, <1>9 DEF RemoveFile, TypeOK
  <2> QED
    BY <1>1, <1>2, <2>1, <2>2
<1>10. ASSUME NEW es \in SUBSET EdgeIds, NEW v \in Versions,
              IngestEdges(es, v) \/ \E f \in Files : IngestFileEdges(f, es, v)
       PROVE  CoherentInv'
  <2>1. UpsertEdges(es, v) /\ chunkVer' = chunkVer
    BY <1>10 DEF IngestEdges, IngestFileEdges
  <2>2. Types(chunkVer', keyOf', hnsw', nextKey') /\ Coherent(chunkVer', keyOf', hnsw', nextKey')
    BY <2>1, EdgeStep
  <2>3. /\ stored' \in SUBSET Files /\ fileChunks' \in [Files -> SUBSET ChunkIds]
        /\ sem' \in SUBSET EdgeIds /\ dirty' \in BOOLEAN /\ mode' \in Modes
        /\ parsed' \in SUBSET Files /\ disk' = disk
    BY <1>2, <1>10 DEF IngestEdges, IngestFileEdges, UpsertEdges, TypeOK
  <2> QED
    BY <1>1, <1>2, <2>2, <2>3
<1>11. ASSUME Save
       PROVE  CoherentInv'
  <2>1. /\ Types(chunkVer', keyOf', hnsw', nextKey') /\ Coherent(chunkVer', keyOf', hnsw', nextKey')
        /\ Loadable(disk')
    BY <1>11, CompactStep DEF Save
  <2>2. /\ stored' \in SUBSET Files /\ fileChunks' \in [Files -> SUBSET ChunkIds]
        /\ sem' \in SUBSET EdgeIds /\ dirty' \in BOOLEAN /\ mode' \in Modes
        /\ parsed' \in SUBSET Files
    BY <1>2, <1>11 DEF Save, Compact, TypeOK
  <2>3. Compacted \in SUBSET Vector
    BY <2>1, <1>11 DEF Save, Compact, Types
  <2>4. disk' \in DiskType
    BY <2>3, <1>2, <1>11 DEF Save, DiskType, TypeOK
  <2> QED
    BY <1>1, <2>1, <2>2, <2>4
<1>12. ASSUME SaveFails
       PROVE  CoherentInv'
  <2>1. Types(chunkVer', keyOf', hnsw', nextKey') /\ Coherent(chunkVer', keyOf', hnsw', nextKey')
    BY <1>12, CompactStep DEF SaveFails
  <2>2. /\ stored' \in SUBSET Files /\ fileChunks' \in [Files -> SUBSET ChunkIds]
        /\ sem' \in SUBSET EdgeIds /\ dirty' \in BOOLEAN /\ mode' \in Modes
        /\ parsed' \in SUBSET Files /\ disk' = disk
    BY <1>2, <1>12 DEF SaveFails, Compact, TypeOK
  <2> QED
    BY <1>1, <1>2, <2>1, <2>2
<1>13. ASSUME RefreshMetadata \/ Abort \/ UNCHANGED vars
       PROVE  CoherentInv'
  <2>1. UNCHANGED <<handle, disk>> /\ dirty' \in BOOLEAN /\ mode' \in Modes /\ parsed' \in SUBSET Files
    BY <1>2, <1>13 DEF RefreshMetadata, Abort, vars, TypeOK
  <2>2. /\ Types(chunkVer', keyOf', hnsw', nextKey') /\ Coherent(chunkVer', keyOf', hnsw', nextKey')
        /\ stored' \in SUBSET Files /\ fileChunks' \in [Files -> SUBSET ChunkIds]
        /\ sem' \in SUBSET EdgeIds /\ disk' = disk
    BY <1>2, <2>1 DEF handle, TypeOK
  <2> QED
    BY <1>1, <1>2, <2>1, <2>2
<1>14. ASSUME Reopen
       PROVE  CoherentInv'
  BY <1>3, <1>14 DEF Reopen
<1> QED
  BY <1>4, <1>5, <1>6, <1>7, <1>8, <1>9, <1>10, <1>11, <1>12, <1>13, <1>14 DEF Next

\* The inductive invariant always holds.
LEMMA CoherentAlways == Spec => []CoherentInv
<1>1. Init => CoherentInv
  BY EmptyCoherent DEF Init, CoherentInv, TypeOK, Types, Modes
<1> QED
  BY <1>1, CoherentStep, PTL DEF Spec

\* Every variable always has the shape of its counterpart.
THEOREM IndexTyped == Spec => []TypeOK
<1>1. CoherentInv => TypeOK
  BY DEF CoherentInv
<1> QED
  BY <1>1, CoherentAlways, PTL

\* A key is never handed out twice and never carried by two ids: removals,
\* compactions and loads of a sparse file notwithstanding.
THEOREM KeysStayFresh == Spec => []KeysFresh
  BY CoherentAlways, CoherentSuffices, PTL

\* Keys stay unique, every stored chunk resolves to its own vector in the handle
\* and in the file, and no edge to a chunk's: for any documents and any history
\* of transactions, failures and restarts.
THEOREM IndexCoherent ==
  Spec => [](TypeOK /\ KeysFresh /\ ChunkVectorsFaithful /\ FileFaithful /\ EdgesNeverHitChunks)
<1>1. CoherentInv => TypeOK /\ KeysFresh /\ ChunkVectorsFaithful /\ FileFaithful /\ EdgesNeverHitChunks
  BY CoherentSuffices DEF CoherentInv
<1> QED
  BY <1>1, CoherentAlways, PTL

-----------------------------------------------------------------------------
(* Documents and their chunks *)

\* Each stored chunk is listed by its document and conversely, and only stored
\* documents list chunks.
Listed(docs, chunks, ver) ==
  /\ \A f \in Files : \A c \in chunks[f] : Owner[c] = f
  /\ \A f \in Files : f \notin docs => chunks[f] = {}
  /\ \A c \in ChunkIds : c \in chunks[Owner[c]] <=> ver[c] # 0

\* A failed upsert leaves a handle whose chunks are not all listed; such a handle
\* is in no transaction, and none begins with it.
CompleteInv ==
  /\ mode # "idle" => Listed(stored, fileChunks, chunkVer)
  /\ Listed(disk.stored, disk.fileChunks, disk.chunkVer)

\* Every step keeps chunks and documents matched.
LEMMA CompleteStep == TypeOK /\ CompleteInv /\ [Next]_vars => CompleteInv'
<1> SUFFICES ASSUME TypeOK, CompleteInv, [Next]_vars
             PROVE  CompleteInv'
  OBVIOUS
<1>1. /\ \A c \in ChunkIds : Owner[c] \in Files
      /\ fileChunks \in [Files -> SUBSET ChunkIds] /\ chunkVer \in [ChunkIds -> Versions \cup {0}]
      /\ 0 \notin Versions
  BY IdsAssumption, VersionsAssumption DEF TypeOK, Ids
<1>2. ASSUME disk' = disk, mode' # "idle" => Listed(stored', fileChunks', chunkVer')
      PROVE  CompleteInv'
  BY <1>2 DEF CompleteInv, Listed
<1>3. ASSUME NEW m \in Kinds, Begin(m)
      PROVE  CompleteInv'
  <2>1. Listed(stored', fileChunks', chunkVer')
    BY <1>3 DEF Begin, Load, CompleteInv
  <2> QED
    BY <2>1, <1>2, <1>3 DEF Begin
<1>4. ASSUME ResetEmbeddingSpace
      PROVE  CompleteInv'
  <2>1. Listed(stored', fileChunks', chunkVer')
    BY <1>1, <1>4 DEF ResetEmbeddingSpace, Listed
  <2> QED
    BY <2>1, <1>2, <1>4 DEF ResetEmbeddingSpace
<1>5. ASSUME NEW f \in Files, NEW v \in Versions, NEW cs \in ChunkPrefixes(f), Upsert(f, v, cs)
      PROVE  CompleteInv'
  <2>1. \A c \in cs : c \in ChunkIds /\ Owner[c] = f
    BY DEF ChunkPrefixes
  <2>2. Listed(stored, fileChunks, chunkVer)
    BY <1>5 DEF CompleteInv, Upsert, MayUpsert
  <2>3. fileChunks'[f] = cs /\ \A g \in Files : g # f => fileChunks'[g] = fileChunks[g]
    BY <1>1, <1>5 DEF Upsert
  <2>4. \A c \in ChunkIds : chunkVer'[c] = IF c \in cs THEN v
                                         ELSE IF c \in fileChunks[f] THEN 0 ELSE chunkVer[c]
    BY <1>5 DEF Upsert, ReplaceChunks
  <2>5. \A c \in ChunkIds : c \in fileChunks'[Owner[c]] <=> chunkVer'[c] # 0
    BY <1>1, <2>1, <2>2, <2>3, <2>4 DEF Listed
  <2>6. stored' = stored \cup {f}
    BY <1>5 DEF Upsert
  <2>7. Listed(stored', fileChunks', chunkVer')
    BY <2>1, <2>2, <2>3, <2>5, <2>6 DEF Listed
  <2> QED
    BY <2>7, <1>2, <1>5 DEF Upsert
<1>6. ASSUME NEW f \in Files, NEW v \in Versions, NEW done \in ChunkPrefixes(f), UpsertFails(f, v, done)
      PROVE  CompleteInv'
  BY <1>2, <1>6 DEF UpsertFails
<1>7. ASSUME NEW f \in Files, InsertUnembedded(f)
      PROVE  CompleteInv'
  <2>1. Listed(stored', fileChunks', chunkVer')
    BY <1>7 DEF InsertUnembedded, CompleteInv, Listed
  <2> QED
    BY <2>1, <1>2, <1>7 DEF InsertUnembedded
<1>8. ASSUME NEW f \in Files, RemoveFile(f)
      PROVE  CompleteInv'
  <2>1. Listed(stored, fileChunks, chunkVer)
    BY <1>8 DEF CompleteInv, RemoveFile
  <2>2. fileChunks'[f] = {} /\ \A g \in Files : g # f => fileChunks'[g] = fileChunks[g]
    BY <1>1, <1>8 DEF RemoveFile
  <2>3. \A c \in ChunkIds : chunkVer'[c] = IF c \in fileChunks[f] THEN 0 ELSE chunkVer[c]
    BY <1>8 DEF RemoveFile
  <2>4. \A c \in ChunkIds : c \in fileChunks'[Owner[c]] <=> chunkVer'[c] # 0
    BY <1>1, <2>1, <2>2, <2>3 DEF Listed
  <2>5. stored' = stored \ {f}
    BY <1>8 DEF RemoveFile
  <2>6. Listed(stored', fileChunks', chunkVer')
    BY <2>1, <2>2, <2>4, <2>5 DEF Listed
  <2> QED
    BY <2>6, <1>2, <1>8 DEF RemoveFile
<1>9. ASSUME \/ RefreshMetadata \/ Abort \/ SaveFails \/ UNCHANGED vars
             \/ \E es \in SUBSET EdgeIds, v \in Versions :
                  IngestEdges(es, v) \/ \E f \in Files : IngestFileEdges(f, es, v)
      PROVE  CompleteInv'
  <2>1. /\ disk' = disk /\ (mode' # "idle" => mode # "idle")
        /\ UNCHANGED <<stored, fileChunks, chunkVer>>
    BY <1>9 DEF RefreshMetadata, Abort, SaveFails, Compact, IngestEdges, IngestFileEdges, vars, handle
  <2> QED
    BY <2>1, <1>2 DEF CompleteInv
<1>10. ASSUME Save
       PROVE  CompleteInv'
  <2>1. Listed(disk'.stored, disk'.fileChunks, disk'.chunkVer)
    BY <1>10 DEF Save, CompleteInv
  <2> QED
    BY <2>1, <1>10 DEF Save, CompleteInv, Listed
<1>11. ASSUME Reopen
       PROVE  CompleteInv'
  BY <1>2, <1>11 DEF Reopen
<1> QED
  BY <1>3, <1>4, <1>5, <1>6, <1>7, <1>8, <1>9, <1>10, <1>11 DEF Next

\* Nothing is listed in an empty index.
LEMMA EmptyComplete == Init => CompleteInv
<1>1. \A c \in ChunkIds : Owner[c] \in Files
  BY IdsAssumption DEF Ids
<1> QED
  BY <1>1 DEF Init, CompleteInv, Listed, EmptyDisk

\* No half-applied upsert reaches the file.
THEOREM FileAlwaysComplete == Spec => []FileComplete
<1>1. TypeOK /\ CompleteInv => FileComplete
  <2> SUFFICES ASSUME TypeOK, CompleteInv, NEW c \in ChunkIds
               PROVE  (c \in disk.fileChunks[Owner[c]] /\ Owner[c] \in disk.stored) <=> disk.chunkVer[c] # 0
    BY DEF FileComplete
  <2>1. Owner[c] \in Files
    BY IdsAssumption DEF Ids
  <2> QED
    BY <2>1 DEF CompleteInv, Listed
<1>2. Spec => []TypeOK
  BY IndexCoherent, PTL
<1> QED
  BY <1>1, <1>2, CompleteStep, EmptyComplete, PTL DEF Spec

-----------------------------------------------------------------------------
(* The refinement *)

\* The documents of an index, without keys or vectors.
Content(docs, chunks, ver) ==
  [f \in Files |-> IF f \notin docs THEN <<>> ELSE <<{<<c, c, ver[c]>> : c \in chunks[f]}>>]

\* With coherent keys a document resolves to its own chunks at their versions.
LEMMA ResolvedContent ==
  ASSUME NEW docs, NEW chunks, NEW ver, NEW key, NEW vs, NEW next,
         Types(ver, key, vs, next), Coherent(ver, key, vs, next), Listed(docs, chunks, ver),
         chunks \in [Files -> SUBSET ChunkIds]
  PROVE  Resolved(docs, chunks, key, vs) = Content(docs, chunks, ver)
<1>1. ASSUME NEW f \in Files, f \in docs
      PROVE  {<<p[1], p[2].id, p[2].ver>> : p \in {q \in chunks[f] \X vs : key[q[1]] = q[2].key}}
             = {<<c, c, ver[c]>> : c \in chunks[f]}
  <2> DEFINE own(c) == [key |-> key[c], id |-> c, ver |-> ver[c]]
  <2>1. \A c \in chunks[f] : own(c) \in vs
    <3>1. \A c \in chunks[f] : c \in ChunkIds /\ ver[c] # 0
      BY DEF Listed
    <3> QED
      BY <3>1 DEF Coherent
  <2>2. \A c \in chunks[f] : \A x \in vs : key[c] = x.key => x = own(c)
    BY <2>1 DEF Coherent
  <2>3. ASSUME NEW c \in chunks[f]
        PROVE  \E p \in {q \in chunks[f] \X vs : key[q[1]] = q[2].key} :
                 <<c, c, ver[c]>> = <<p[1], p[2].id, p[2].ver>>
    <3>1. <<c, own(c)>> \in {q \in chunks[f] \X vs : key[q[1]] = q[2].key}
      BY <2>1
    <3> QED
      BY <3>1
  <2>4. ASSUME NEW p \in {q \in chunks[f] \X vs : key[q[1]] = q[2].key}
        PROVE  <<p[1], p[2].id, p[2].ver>> \in {<<c, c, ver[c]>> : c \in chunks[f]}
    <3>1. p[1] \in chunks[f] /\ p[2] = own(p[1])
      BY <2>2
    <3>2. p[2].id = p[1] /\ p[2].ver = ver[p[1]]
      BY <3>1
    <3> QED
      BY <3>1, <3>2
  <2> QED
    BY <2>3, <2>4
<1> QED
  BY <1>1 DEF Resolved, Content

\* What the two stores of the refinement hold.
StoresAre ==
  /\ Committed = Content(disk.stored, disk.fileChunks, disk.chunkVer)
  /\ mode # "idle" => Working = Content(stored, fileChunks, chunkVer)
  /\ mode = "idle" => Working = Committed

\* In every coherent state the refinement mapping yields those contents.
LEMMA StoresContent == CoherentInv /\ CompleteInv => StoresAre
<1> SUFFICES ASSUME CoherentInv, CompleteInv
             PROVE  StoresAre
  OBVIOUS
<1>1. disk \in DiskType /\ Loadable(disk) /\ Coherent(chunkVer, keyOf, hnsw, nextKey)
      /\ Types(chunkVer, keyOf, hnsw, nextKey) /\ fileChunks \in [Files -> SUBSET ChunkIds]
  BY HandleTypes DEF CoherentInv, TypeOK
<1>2. disk.fileChunks \in [Files -> SUBSET ChunkIds]
  BY <1>1 DEF DiskType
<1>3. Committed = Content(disk.stored, disk.fileChunks, disk.chunkVer)
  <2>1. Types(disk.chunkVer, OpenKeys(disk.chunkVer, disk.sem), disk.hnsw, OpenNext(disk))
    BY <1>1, LoadTypes
  <2> QED
    BY <2>1, <1>1, <1>2, ResolvedContent DEF Committed, Loadable, CompleteInv
<1>4. mode # "idle" => Working = Content(stored, fileChunks, chunkVer)
  BY <1>1, ResolvedContent DEF Working, CompleteInv
<1> QED
  BY <1>3, <1>4 DEF Working, StoresAre

\* Two contents that agree but for one document.
LEMMA OneEdit ==
  ASSUME NEW A, NEW B, A = [x \in Files |-> A[x]], B = [x \in Files |-> B[x]],
         NEW f \in Files, NEW d, B[f] = d, \A g \in Files : g # f => B[g] = A[g]
  PROVE  B = [A EXCEPT ![f] = d]
OBVIOUS

\* Every step of the index is a step of the store or leaves it alone.
LEMMA StoreStep ==
  CoherentInv /\ CompleteInv /\ StoresAre /\ CompleteInv' /\ StoresAre' /\ [Next]_vars
    => [Store!Next]_<<Committed, Working, mode # "idle">>
<1> SUFFICES ASSUME CoherentInv, CompleteInv, StoresAre, CompleteInv', StoresAre', [Next]_vars
             PROVE  [Store!Next]_<<Committed, Working, mode # "idle">>
  OBVIOUS
<1> DEFINE Disk == Content(disk.stored, disk.fileChunks, disk.chunkVer)
           Handle == Content(stored, fileChunks, chunkVer)
<1>1. /\ Committed = Disk
      /\ mode # "idle" => Working = Handle
      /\ mode = "idle" => Working = Committed
  BY DEF StoresAre
<1>2. /\ Committed' = Content(disk'.stored, disk'.fileChunks, disk'.chunkVer)
      /\ mode' # "idle" => Working' = Content(stored', fileChunks', chunkVer')
      /\ mode' = "idle" => Working' = Committed'
  BY DEF StoresAre, Content
<1>3. disk' = disk => Committed' = Committed
  BY <1>1, <1>2
<1>4. /\ \A c \in ChunkIds : Owner[c] \in Files
      /\ fileChunks \in [Files -> SUBSET ChunkIds]
      /\ mode # "idle" => Listed(stored, fileChunks, chunkVer)
  BY IdsAssumption DEF CoherentInv, CompleteInv, TypeOK, Ids
\* A transaction's end without a save leaves no trace.
<1>5. ASSUME disk' = disk, mode # "idle", mode' = "idle"
      PROVE  Store!Abort
  BY <1>1, <1>2, <1>3, <1>5 DEF Store!Abort
\* A step that leaves documents and chunks alone is a stutter.
<1>6. ASSUME disk' = disk, (mode = "idle") = (mode' = "idle"), mode # "idle" => UNCHANGED <<stored, fileChunks, chunkVer>>
      PROVE  UNCHANGED <<Committed, Working, mode # "idle">>
  BY <1>1, <1>2, <1>3, <1>6
<1>7. ASSUME NEW m \in Kinds, Begin(m)
      PROVE  Store!Begin
  <2>1. mode = "idle" /\ mode' # "idle" /\ disk' = disk
    BY <1>7 DEF Begin, Kinds
  <2>2. Working' = Disk
    BY <1>2, <1>7, <2>1 DEF Begin, Load
  <2> QED
    BY <1>1, <1>3, <2>1, <2>2 DEF Store!Begin
<1>8. ASSUME ResetEmbeddingSpace
      PROVE  Store!Clear
  <2>1. mode # "idle" /\ mode' = mode /\ disk' = disk /\ stored' = {}
    BY <1>8 DEF ResetEmbeddingSpace
  <2>2. Working' = [f \in Files |-> <<>>]
    BY <1>2, <2>1 DEF Content
  <2> QED
    BY <1>3, <2>1, <2>2 DEF Store!Clear
<1>9. ASSUME NEW f \in Files, NEW v \in Versions, NEW cs \in ChunkPrefixes(f), Upsert(f, v, cs)
      PROVE  \E d \in Documents : Store!Edit(f, d)
  <2> DEFINE d == <<{<<c, c, v>> : c \in cs}>>
  <2>1. mode # "idle" /\ mode' = mode /\ disk' = disk
    BY <1>9 DEF Upsert, MayUpsert
  <2>2. cs \in SUBSET ChunkIds /\ \A c \in cs : Owner[c] = f
    BY DEF ChunkPrefixes
  <2>3. d \in Documents
    BY <2>2 DEF Documents
  <2>4. Listed(stored, fileChunks, chunkVer)
    BY <1>4, <2>1
  <2>5. /\ stored' = stored \cup {f} /\ fileChunks' = [fileChunks EXCEPT ![f] = cs]
        /\ \A c \in ChunkIds : chunkVer'[c] = IF c \in cs THEN v
                                          ELSE IF c \in fileChunks[f] THEN 0 ELSE chunkVer[c]
    BY <1>9 DEF Upsert, ReplaceChunks
  <2>6. {<<c, c, chunkVer'[c]>> : c \in fileChunks'[f]} = {<<c, c, v>> : c \in cs}
    <3>1. fileChunks'[f] = cs
      BY <1>4, <2>5
    <3>2. \A c \in cs : chunkVer'[c] = v
      BY <2>2, <2>5
    <3> QED
      BY <3>1, <3>2
  <2>7. ASSUME NEW g \in Files, g # f
        PROVE  {<<c, c, chunkVer'[c]>> : c \in fileChunks'[g]} = {<<c, c, chunkVer[c]>> : c \in fileChunks[g]}
    <3>1. fileChunks'[g] = fileChunks[g] /\ fileChunks[g] \subseteq ChunkIds
      BY <1>4, <2>5, <2>7
    <3>2. \A c \in fileChunks[g] : chunkVer'[c] = chunkVer[c]
      BY <3>1, <2>2, <2>4, <2>5, <2>7 DEF Listed
    <3> QED
      BY <3>1, <3>2
  <2>8. Working' = [Working EXCEPT ![f] = d]
    <3>1. Working = Handle /\ Working' = Content(stored', fileChunks', chunkVer')
      BY <1>1, <1>2, <2>1
    <3>2. Working = [g \in Files |-> Working[g]] /\ Working' = [g \in Files |-> Working'[g]]
      BY <3>1 DEF Content
    <3>3. Working'[f] = d
      BY <3>1, <2>5, <2>6 DEF Content
    <3>4. ASSUME NEW g \in Files, g # f
          PROVE  Working'[g] = Working[g]
      <4> DEFINE was == {<<c, c, chunkVer[c]>> : c \in fileChunks[g]}
                 is == {<<c, c, chunkVer'[c]>> : c \in fileChunks'[g]}
      <4>1. is = was
        BY <2>7, <3>4
      <4>2. g \in stored' <=> g \in stored
        BY <2>5, <3>4
      <4>3. Working[g] = IF g \notin stored THEN <<>> ELSE <<was>>
        BY <3>1 DEF Content
      <4>4. Working'[g] = IF g \notin stored' THEN <<>> ELSE <<is>>
        BY <3>1 DEF Content
      <4> HIDE DEF was, is
      <4> QED
        BY <4>1, <4>2, <4>3, <4>4
    <3> QED
      BY <3>2, <3>3, <3>4, OneEdit
  <2> QED
    BY <1>3, <2>1, <2>3, <2>8 DEF Store!Edit
<1>10. ASSUME NEW f \in Files, InsertUnembedded(f)
       PROVE  \E d \in Documents : Store!Edit(f, d)
  <2>1. /\ mode # "idle" /\ mode' = mode /\ disk' = disk /\ f \notin stored
        /\ stored' = stored \cup {f} /\ UNCHANGED <<fileChunks, chunkVer>>
    BY <1>10 DEF InsertUnembedded
  <2>2. fileChunks[f] = {}
    BY <1>4, <2>1 DEF Listed
  <2>3. <<{}>> \in Documents
    <3>1. PICK v \in Versions : TRUE
      BY VersionsAssumption
    <3>2. <<{<<c, c, v>> : c \in {}}>> \in Documents
      <4>1. \A cs \in SUBSET ChunkIds : <<{<<c, c, v>> : c \in cs}>> \in Documents
        BY <3>1 DEF Documents
      <4> HIDE DEF Documents
      <4>2. {} \in SUBSET ChunkIds
        OBVIOUS
      <4> QED
        BY <4>1, <4>2
    <3>3. {<<c, c, v>> : c \in {}} = {}
      OBVIOUS
    <3> QED
      BY <3>2, <3>3
  <2>4. Working' = [Working EXCEPT ![f] = <<{}>>]
    <3>1. Working = Handle /\ Working' = Content(stored', fileChunks', chunkVer')
      BY <1>1, <1>2, <2>1
    <3>2. {<<c, c, chunkVer[c]>> : c \in fileChunks[f]} = {}
      BY <2>2
    <3> QED
      BY <3>1, <3>2, <2>1 DEF Content
  <2> QED
    BY <1>3, <2>1, <2>3, <2>4 DEF Store!Edit
<1>11. ASSUME NEW f \in Files, RemoveFile(f)
       PROVE  Store!Edit(f, <<>>)
  <2>1. mode # "idle" /\ mode' # "idle" /\ disk' = disk
    BY <1>11 DEF RemoveFile
  <2>2. Listed(stored, fileChunks, chunkVer)
    BY <1>4, <2>1
  <2>3. /\ stored' = stored \ {f} /\ fileChunks' = [fileChunks EXCEPT ![f] = {}]
        /\ \A c \in ChunkIds : chunkVer'[c] = IF c \in fileChunks[f] THEN 0 ELSE chunkVer[c]
    BY <1>11 DEF RemoveFile
  <2>4. ASSUME NEW g \in Files, g # f
        PROVE  {<<c, c, chunkVer'[c]>> : c \in fileChunks'[g]} = {<<c, c, chunkVer[c]>> : c \in fileChunks[g]}
    <3>1. fileChunks'[g] = fileChunks[g] /\ fileChunks[g] \subseteq ChunkIds
      BY <1>4, <2>3, <2>4
    <3>2. \A c \in fileChunks[g] : chunkVer'[c] = chunkVer[c]
      BY <3>1, <2>2, <2>3, <2>4 DEF Listed
    <3> QED
      BY <3>1, <3>2
  <2>5. Working' = [Working EXCEPT ![f] = <<>>]
    <3>1. Working = Handle /\ Working' = Content(stored', fileChunks', chunkVer')
      BY <1>1, <1>2, <2>1
    <3>2. Working = [g \in Files |-> Working[g]] /\ Working' = [g \in Files |-> Working'[g]]
      BY <3>1 DEF Content
    <3>3. Working'[f] = <<>>
      BY <3>1, <2>3 DEF Content
    <3>4. ASSUME NEW g \in Files, g # f
          PROVE  Working'[g] = Working[g]
      <4> DEFINE was == {<<c, c, chunkVer[c]>> : c \in fileChunks[g]}
                 is == {<<c, c, chunkVer'[c]>> : c \in fileChunks'[g]}
      <4>1. is = was
        BY <2>4, <3>4
      <4>2. g \in stored' <=> g \in stored
        BY <2>3, <3>4
      <4>3. Working[g] = IF g \notin stored THEN <<>> ELSE <<was>>
        BY <3>1 DEF Content
      <4>4. Working'[g] = IF g \notin stored' THEN <<>> ELSE <<is>>
        BY <3>1 DEF Content
      <4> HIDE DEF was, is
      <4> QED
        BY <4>1, <4>2, <4>3, <4>4
    <3> QED
      BY <3>2, <3>3, <3>4, OneEdit
  <2> QED
    BY <1>3, <2>1, <2>5 DEF Store!Edit
<1>12. ASSUME Save
       PROVE  Store!Commit
  <2>1. mode # "idle" /\ mode' = "idle" /\ Committed' = Handle
    BY <1>2, <1>12 DEF Save
  <2> QED
    BY <2>1, <1>1, <1>2 DEF Store!Commit
<1>13. ASSUME SaveFails \/ Abort \/ \E f \in Files, v \in Versions, done \in SUBSET ChunkIds : UpsertFails(f, v, done)
       PROVE  Store!Abort
  <2>1. disk' = disk /\ mode # "idle" /\ mode' = "idle"
    BY <1>13 DEF SaveFails, Abort, UpsertFails, MayUpsert
  <2> QED
    BY <2>1, <1>5
<1>14. ASSUME \/ RefreshMetadata \/ UNCHANGED vars
              \/ \E es \in SUBSET EdgeIds, v \in Versions :
                   IngestEdges(es, v) \/ \E f \in Files : IngestFileEdges(f, es, v)
       PROVE  UNCHANGED <<Committed, Working, mode # "idle">>
  <2>1. /\ disk' = disk /\ (mode = "idle") = (mode' = "idle")
        /\ UNCHANGED <<stored, fileChunks, chunkVer>>
    BY <1>14 DEF RefreshMetadata, IngestEdges, IngestFileEdges, vars, handle
  <2> QED
    BY <2>1, <1>6
<1>15. ASSUME Reopen
       PROVE  Store!Abort \/ UNCHANGED <<Committed, Working, mode # "idle">>
  <2>1. disk' = disk /\ mode' = "idle"
    BY <1>15 DEF Reopen
  <2> QED
    BY <2>1, <1>5, <1>6
<1> QED
  BY <1>7, <1>8, <1>9, <1>10, <1>11, <1>12, <1>13, <1>14, <1>15 DEF Next, Store!Next

\* The index is a transactional store of documents, for any documents, chunks,
\* edges and versions.
THEOREM IndexImplementsStore == Spec => ImplementsStore
<1>1. Init => Store!Init
  <2> SUFFICES ASSUME Init
               PROVE  Store!Init
    OBVIOUS
  <2>1. Committed = [f \in Files |-> <<>>]
    BY DEF Init, EmptyDisk, Committed, Resolved
  <2> QED
    BY <2>1 DEF Init, Working, Store!Init
<1>2. Init => CoherentInv
  BY EmptyCoherent DEF Init, CoherentInv, TypeOK, Types, Modes
<1>3. Spec => [](CoherentInv /\ CompleteInv)
  <2>1. CoherentInv => TypeOK
    BY DEF CoherentInv
  <2> QED
    BY <1>2, <2>1, CoherentStep, CompleteStep, EmptyComplete, PTL DEF Spec
<1>4. Spec => []StoresAre
  BY <1>3, StoresContent, PTL
<1> QED
  BY <1>1, <1>3, <1>4, StoreStep, PTL DEF Spec, ImplementsStore, Store!Spec

=============================================================================
