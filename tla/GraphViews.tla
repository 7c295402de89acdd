----------------------------- MODULE GraphViews -----------------------------
(***************************************************************************)
(* The graphs that are drawn: of the documents, with their links, clusters *)
(* and topics, in full and in the compact form that shares contexts, and   *)
(* of the chunks, with those nearest to one another.  A path is a sequence *)
(* of names; a scope is a folder, or None for nothing.                     *)
(*                                                                         *)
(* The index: files; clusters, a set of members for each id, and topics,   *)
(* their members with scores; forward, the entries of each source, each    *)
(* with the id of its edge; semantic, what is known of an edge, and the    *)
(* clusters of edges; chunks with their documents, and near, the vectors   *)
(* from each chunk's on, those of edges among them.                        *)
(***************************************************************************)
EXTENDS Integers, SequencesExt, FiniteSetsExt

CONSTANTS OverFetch,   \* 20 in the code
          None

Within(path, folder) == folder # None /\ IsPrefix(folder, path)
Visible(paths, scope) == {p \in paths : Within(p, scope)}

\* A visible folder inside a Shard narrows it, one around it does not, another shows nothing.
ShardVisibleScope(shard, visible) ==
  IF visible = None \/ Within(shard, visible) THEN shard
  ELSE IF Within(visible, shard) THEN visible ELSE None

-----------------------------------------------------------------------------
(* Documents *)

\* Clusters with visible members, and how many those are.
GraphClusters(members, shown) ==
  [id \in {id \in DOMAIN members : members[id] \cap shown # {}} |-> Cardinality(members[id] \cap shown)]
TopicMembers(topics) == [id \in DOMAIN topics |-> DOMAIN topics[id]]

\* Topics of a document, the highest score first.
TopicMembershipMap(topics, path) ==
  LET has == {id \in DOMAIN topics : path \in DOMAIN topics[id]}
  IN  SetToSortSeq(has, LAMBDA i, j : \/ topics[i][path] > topics[j][path]
                                      \/ topics[i][path] = topics[j][path] /\ i < j)
\* The last cluster with the document counts.
ClusterOf(clusters, path) ==
  LET has == {id \in DOMAIN clusters : path \in clusters[id]}
  IN  IF has = {} THEN None ELSE Max(has)

Node(ix, path) == [cluster |-> ClusterOf(ix.clusters, path), topics |-> TopicMembershipMap(ix.topics, path)]

EntriesFromShown(ix, shown) ==
  UNION {{<<p, n>> : n \in DOMAIN ix.forward[p]} : p \in shown \cap DOMAIN ix.forward}
EntriesShown(ix, shown) ==
  {e \in EntriesFromShown(ix, shown) : ix.forward[e[1]][e[2]].target \in shown}

Edge(ix, source, entry) ==
  LET known == entry.id \in DOMAIN ix.semantic
  IN  [source |-> source, target |-> entry.target, field |-> entry.field,
       context |-> IF known THEN ix.semantic[entry.id].context ELSE None,
       cluster |-> IF known THEN ix.semantic[entry.id].cluster ELSE None]

DocumentGraph(ix, scope) ==
  LET shown == Visible(ix.files, scope)
      entries == EntriesShown(ix, shown)
  IN  [nodes |-> [p \in shown |-> Node(ix, p)],
       edges |-> {Edge(ix, e[1], ix.forward[e[1]][e[2]]) : e \in entries},
       clusters |-> GraphClusters(ix.clusters, shown),
       topics |-> GraphClusters(TopicMembers(ix.topics), shown),
       edgeClusters |-> GraphClusters(ix.edgeClusters, {ix.forward[e[1]][e[2]].id : e \in entries})]

\* Edges in the order they come, with places in a table of contexts that grows with them.
Interned(table, context) ==
  IF context = None \/ Contains(table, context) THEN table ELSE Append(table, context)
CompactOf(edges) ==
  LET Add(c, e) ==
        LET contexts == Interned(c.contexts, e.context)
            place == IF e.context = None THEN None
                     ELSE CHOOSE n \in DOMAIN contexts : contexts[n] = e.context
        IN  [contexts |-> contexts, edges |-> Append(c.edges, [e EXCEPT !.context = place])]
  IN  FoldLeft(Add, [contexts |-> <<>>, edges |-> <<>>], edges)

-----------------------------------------------------------------------------
(* Chunks *)

First(n, s) == SubSeq(s, 1, Min({n, Len(s)}))

\* Twice as many vectors as asked for, of edges too, and the chunks among those.
SearchVectorsBatch(ix, chunk, limit) ==
  First(limit, SelectSeq(First(2 * limit, ix.near[chunk]), LAMBDA v : v \in DOMAIN ix.chunks))

IsCandidate(ix, shown, chunk, other) == other \in shown /\ ix.chunks[other] # ix.chunks[chunk]
KeptOfK(ix, shown, k, chunk) ==
  SelectSeq(SearchVectorsBatch(ix, chunk, k), LAMBDA v : IsCandidate(ix, shown, chunk, v))
Kept(ix, shown, k, chunk) ==
  First(k, SelectSeq(SearchVectorsBatch(ix, chunk, k + OverFetch), LAMBDA v : IsCandidate(ix, shown, chunk, v)))

ShownChunks(ix, scope) == {c \in DOMAIN ix.chunks : Within(ix.chunks[c], scope)}
ChunkGraph(ix, k, scope) ==
  LET shown == ShownChunks(ix, scope)
  IN  [nodes |-> [c \in shown |-> Node(ix, ix.chunks[c])],
       edges |-> UNION {{{c, d} : d \in ToSet(Kept(ix, shown, k, c))} : c \in shown},
       clusters |-> GraphClusters(ix.clusters, {ix.chunks[c] : c \in shown}),
       topics |-> GraphClusters(TopicMembers(ix.topics), {ix.chunks[c] : c \in shown})]

-----------------------------------------------------------------------------
(* Properties *)

\* The graph of a scope is the part of the whole graph within it: links join documents shown,
\* whatever is shown of clusters and topics counts the documents shown, and none refers to
\* one that is not listed.  A Shard's graph shows what is in both folders.  The compact graph
\* has the same edges, forward or backward, and holds every context once.
GraphIsInduced(ix, shard, visible) ==
  LET scope == ShardVisibleScope(shard, visible)
      whole == DocumentGraph(ix, <<>>)
      part == DocumentGraph(ix, scope)
      shown == DOMAIN part.nodes
  IN  /\ visible # None => Visible(ix.files, scope) = Visible(ix.files, shard) \cap Visible(ix.files, visible)
      /\ part.edges = {e \in whole.edges : {e.source, e.target} \subseteq shown}
      /\ \A p \in shown :
           /\ part.nodes[p] = whole.nodes[p]
           /\ part.nodes[p].cluster \in DOMAIN part.clusters \cup {None}
           /\ ToSet(part.nodes[p].topics) \subseteq DOMAIN part.topics
      /\ \A id \in DOMAIN part.clusters :
           part.clusters[id] = Cardinality({p \in shown : part.nodes[p].cluster = id})
      /\ \A id \in DOMAIN part.topics :
           part.topics[id] = Cardinality({p \in shown : id \in ToSet(part.nodes[p].topics)})
      /\ \A e \in part.edges : e.cluster \in DOMAIN part.edgeClusters \cup {None}
      /\ \A order \in {SetToSeq(part.edges), Reverse(SetToSeq(part.edges))} :
           LET compact == CompactOf(order)
               Full(e) == IF e.context = None THEN e ELSE [e EXCEPT !.context = compact.contexts[e.context]]
           IN  /\ [n \in DOMAIN order |-> Full(compact.edges[n])] = order
               /\ IsInjective(compact.contexts)
               /\ ToSet(compact.contexts) = {e.context : e \in part.edges} \ {None}

\* Edges of chunks join chunks of different documents that are shown, one of them among the
\* k nearest of the other, and each chunk is joined with its k nearest of other documents, as
\* long as at most OverFetch chunks that do not count, itself with them, and k + OverFetch
\* edges are nearer.
NearestAreJoined(ix, k, scope) ==
  LET shown == ShownChunks(ix, scope)
      edges == ChunkGraph(ix, k, scope).edges
      Others(c) == SelectSeq(ix.near[c], LAMBDA v : v \in DOMAIN ix.chunks /\ IsCandidate(ix, shown, c, v))
      Nearer(c, d) == {v \in ToSet(ix.near[c]) : \E i, j \in DOMAIN ix.near[c] : i < j /\ ix.near[c][i] = v /\ ix.near[c][j] = d}
      Nearest(c) == ToSet(First(k, Others(c)))
      Found(c, d) ==
        LET chunks == Nearer(c, d) \cap DOMAIN ix.chunks
        IN  /\ Cardinality({v \in chunks : ~IsCandidate(ix, shown, c, v)}) <= OverFetch
            /\ Cardinality(Nearer(c, d) \ chunks) <= k + OverFetch
  IN  /\ \A e \in edges : /\ e \subseteq shown
                          /\ Cardinality({ix.chunks[c] : c \in e}) = 2
                          /\ \E c, d \in e : d \in Nearest(c)
      /\ \A c \in shown : \A d \in Nearest(c) : Found(c, d) => {c, d} \in edges
=============================================================================
