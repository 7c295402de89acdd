------------------------------ MODULE Clusters ------------------------------
(***************************************************************************)
(* Auto clusters and topics of the documents: groupings of all documents,  *)
(* their match with the groups before, and what the watcher and ingests do *)
(* with them one document at a time.  A document is a number, in the order *)
(* of paths; vectors are integer points of one length, or zero; a centroid *)
(* is known by its direction.  Leiden and k-means are any grouping.        *)
(***************************************************************************)
EXTENDS Option, Integers, FiniteSets, SequencesExt

CONSTANTS
  Docs,         \* numbers
  Points,       \* vectors of documents that change
  Existing,     \* the vectors of the first index
  Topics,       \* sequences of definitions, with their centroids
  Knn, RebalanceThreshold, HierarchyMin,
  Floor,        \* of the similarity with a topic
  MaxUpdates    \* bound

\* What the index stores.
ClusterInfo == [id : Nat, members : SUBSET Docs, parent : Nat \cup {None}]
ParentInfo == [id : Nat, members : SUBSET Docs]
ClusterState ==
  [groups : Seq(ClusterInfo), parents : Seq(ParentInfo), since : Nat, next : Nat,
   algorithm : {"leiden", "kmeans"}, unclustered : SUBSET Docs]

ASSUME ClustersAssumption ==
  /\ None \notin ClusterState
  /\ Docs \subseteq Nat /\ IsFiniteSet(Docs) /\ DOMAIN Existing \subseteq Docs
  /\ \A defs \in Topics : defs \in Seq(ToSet(defs))

VARIABLES
  vectors,      \* document -> its vector, of those that have one
  enabled,      \* clustering.enabled
  algorithm,    \* clustering.algorithm
  defined,      \* the topics of the configuration
  clusters,     \* the index's clusters, or None
  topics,       \* the index's topics, or None
  skipped,      \* history: documents whose topics were left as they were at their last change
  updates

clusterVars == <<vectors, enabled, algorithm, defined, clusters, topics, skipped, updates>>

-----------------------------------------------------------------------------
(* Similarity *)

Dot(u, v) == u[1] * v[1] + u[2] * v[2]
IsZero(v) == Dot(v, v) = 0
Length2(v) == IF IsZero(v) THEN 1 ELSE Dot(v, v)
Signed2(x) == IF x < 0 THEN -(x * x) ELSE x * x

\* The cosine of v with a is greater than with b.
MoreAlike(v, a, b) == Signed2(Dot(v, a)) * Length2(b) > Signed2(Dot(v, b)) * Length2(a)

\* Of the others, so many of the most similar ones, as long as they are similar at all.
Nearest(v, others, k) ==
  LET Before(i, j) == Dot(v, others[i]) > Dot(v, others[j]) \/ (Dot(v, others[i]) = Dot(v, others[j]) /\ i < j)
      near == SetToSortSeq({i \in DOMAIN others : Dot(v, others[i]) > 0}, Before)
  IN  {near[i] : i \in 1 .. (IF Len(near) < k THEN Len(near) ELSE k)}

Others(vs, d) == [e \in DOMAIN vs \ {d} |-> vs[e]]
Normalized(vs) == {d \in DOMAIN vs : ~IsZero(vs[d])}

-----------------------------------------------------------------------------
(* Grouping: a membership maps each document to a label *)

BuildKnnGraph(vs, k) == UNION {{{d, e} : e \in Nearest(vs[d], Others(vs, d), k)} : d \in DOMAIN vs}

CommunityMembers(m, c) == {d \in DOMAIN m : m[d] = c}
Labels(m) == {m[d] : d \in DOMAIN m}
First(S) == CHOOSE x \in S : \A y \in S : x <= y

\* Labels 1, 2, ... by size and first member.
RelabelContiguous(m) ==
  LET Size(c) == Cardinality(CommunityMembers(m, c))
      Before(a, b) == \/ Size(a) > Size(b)
                      \/ Size(a) = Size(b) /\ First(CommunityMembers(m, a)) < First(CommunityMembers(m, b))
  IN  [d \in DOMAIN m |-> 1 + Cardinality({c \in Labels(m) : Before(c, m[d])})]

CommunityEdgeWeight(vs, edges, m, a, b) ==
  FoldSet(LAMBDA e, w : w + Dot(vs[First(e)], vs[CHOOSE d \in e : d # First(e)]), 0,
          {e \in edges : {m[d] : d \in e} = {a, b}})

\* One turn of the loop: the smallest community that is too small joins the one it has
\* the heaviest edges with.
MergeSmallest(m, vs, edges, min) ==
  LET Size(c) == Cardinality(CommunityMembers(m, c))
      Weight(a, b) == CommunityEdgeWeight(vs, edges, m, a, b)
      under == {c \in Labels(m) : Size(c) < min}
      small == CHOOSE c \in under : \A d \in under : Size(c) < Size(d) \/ (Size(c) = Size(d) /\ c <= d)
      joined == {c \in Labels(m) \ {small} : Weight(c, small) > 0}
      target == CHOOSE c \in joined : \A d \in joined :
                  Weight(c, small) > Weight(d, small) \/ (Weight(c, small) = Weight(d, small) /\ c <= d)
  IN  IF under = {} \/ joined = {} THEN m
      ELSE [d \in DOMAIN m |-> IF m[d] = small THEN target ELSE m[d]]

\* Each turn that changes something leaves a community less.
Merged(m, vs, edges, min) ==
  LET merged[n \in Nat] ==
        IF n = 0 THEN m ELSE MergeSmallest(merged[n - 1], vs, edges, min)
  IN  merged[Cardinality(DOMAIN m)]

MergeSmallCommunities(m, vs, k, min) == RelabelContiguous(Merged(m, vs, BuildKnnGraph(vs, k), min))

ClustersFromMembership(m) == [c \in 1 .. Cardinality(Labels(m)) |-> CommunityMembers(m, c)]
ComputeCentroid(members, vs) ==
  <<FoldSet(LAMBDA d, x : x + vs[d][1], 0, members), FoldSet(LAMBDA d, x : x + vs[d][2], 0, members)>>

\* The first of the groups whose centroid is most similar to v, 0 if none is similar.
Home(v, centroids) ==
  LET alike == {i \in DOMAIN centroids : Dot(v, centroids[i]) > 0}
      best == {i \in alike : \A j \in alike : ~MoreAlike(v, centroids[j], centroids[i])}
  IN  IF alike = {} THEN 0 ELSE First(best)

\* A mutant: documents that are like no group are forgotten.
FoldRoundForgetting(groups, vs, min) ==
  LET under == {i \in DOMAIN groups : Cardinality(groups[i]) < min}
      first == First(under)
      rest == RemoveAt(groups, first)
      centroids == [i \in DOMAIN rest |-> ComputeCentroid(rest[i], vs)]
      homes == [d \in groups[first] |-> Home(vs[d], centroids)]
  IN  IF Len(groups) <= 1 \/ under = {} \/ min <= 1 THEN [groups |-> groups, returned |-> TRUE]
      ELSE [groups |-> [i \in DOMAIN rest |-> rest[i] \cup {d \in DOMAIN homes : homes[d] = i}], returned |-> FALSE]
\* One round of the loop: the first group that is too small gives its documents away.
FoldRound(groups, vs, min) ==
  LET under == {i \in DOMAIN groups : Cardinality(groups[i]) < min}
      first == First(under)
      rest == RemoveAt(groups, first)
      centroids == [i \in DOMAIN rest |-> ComputeCentroid(rest[i], vs)]
      homes == [d \in groups[first] |-> Home(vs[d], centroids)]
      moved == [i \in DOMAIN rest |-> rest[i] \cup {d \in DOMAIN homes : homes[d] = i}]
      kept == InsertAt(moved, first, {d \in DOMAIN homes : homes[d] = 0})
  IN  IF Len(groups) <= 1 \/ under = {} \/ min <= 1 THEN [groups |-> groups, returned |-> TRUE]
      ELSE IF \A d \in DOMAIN homes : homes[d] # 0 THEN [groups |-> moved, returned |-> FALSE]
      ELSE [groups |-> kept,
            returned |-> \/ \A i \in DOMAIN kept : Cardinality(kept[i]) < min
                         \/ \A i \in DOMAIN kept \ {first} : Cardinality(kept[i]) >= min]

\* So many rounds, fewer if the function returns.
FoldUndersizedClusters(groups, vs, min, rounds) ==
  LET Turn(fold) == IF fold.returned THEN fold ELSE FoldRound(fold.groups, vs, min)
      folded[n \in Nat] ==
        IF n = 0 THEN [groups |-> groups, returned |-> FALSE] ELSE Turn(folded[n - 1])
  IN  folded[rounds]

\* The groups of a community membership: merged along edges, then folded by centroid.
\* 2 * n + 1 rounds are more than any fold that returns needs.
Group(m, vs, k, min) ==
  FoldUndersizedClusters(ClustersFromMembership(MergeSmallCommunities(m, vs, k, min)), vs, min,
                         2 * Cardinality(DOMAIN vs) + 1)

\* Every document is in one group and no group is empty, however the communities were
\* merged and folded.
GroupingIsPartition(m, vs, k, min) ==
  LET groups == Group(m, vs, k, min).groups
  IN  /\ UNION ToSet(groups) = DOMAIN vs
      /\ \A i, j \in DOMAIN groups : groups[i] # {} /\ (i # j => groups[i] \cap groups[j] = {})

\* A document that is like none of the clusters stays in a cluster of its own, and the
\* function returns (docs/prds/phase-30-leiden-clustering-and-topics.md:159).
StragglersStay(m, vs, k, min) == Group(m, vs, k, min).returned

-----------------------------------------------------------------------------
(* Identity: a state is [groups : sequence of [id, members, parent], parents, since, next, ...] *)

IdsOf(groups) == {groups[i].id : i \in DOMAIN groups}

\* A mutant: the counter is taken from the clusters that are there.
NextIdFloorOfUsed(prev) ==
  LET used == {0} \cup {id + 1 : id \in IdsOf(prev.groups) \cup IdsOf(prev.parents)}
  IN  CHOOSE n \in used : \A m \in used : m <= n
NextIdFloor(prev) ==
  LET used == {prev.next} \cup {id + 1 : id \in IdsOf(prev.groups) \cup IdsOf(prev.parents)}
  IN  CHOOSE n \in used : \A m \in used : m <= n

\* Pairs of a previous and a new group that share enough, each group in one pair, the
\* pairs with the largest shares first.
Matches(groups, prev) ==
  LET shared == [x \in (DOMAIN prev.groups) \X (DOMAIN groups) |->
                  Cardinality(prev.groups[x[1]].members \cap groups[x[2]])]
      either == [x \in (DOMAIN prev.groups) \X (DOMAIN groups) |->
                  Cardinality(prev.groups[x[1]].members \cup groups[x[2]])]
      pairs == {x \in DOMAIN shared : shared[x] > 0 /\ 10 * shared[x] >= 3 * either[x]}
      Before(x, y) == \/ shared[x] * either[y] > shared[y] * either[x]
                      \/ /\ shared[x] * either[y] = shared[y] * either[x]
                         /\ \/ prev.groups[x[1]].id < prev.groups[y[1]].id
                            \/ prev.groups[x[1]].id = prev.groups[y[1]].id /\ x[2] < y[2]
      Free(taken) == {x \in pairs : \A y \in taken : x[1] # y[1] /\ x[2] # y[2]}
      Best(some) == {x \in some : \A y \in some \ {x} : Before(x, y)}
      Take(taken) == IF Best(Free(taken)) = {} THEN taken
                     ELSE taken \cup {CHOOSE x \in Best(Free(taken)) : TRUE}
      matches[n \in Nat] == IF n = 0 THEN {} ELSE Take(matches[n - 1])
  IN  matches[Len(groups)]

\* The ids of the new groups; groups without match are numbered on.
MatchToPrevious(groups, prev) ==
  LET matches == Matches(groups, prev)
      fresh == {n \in DOMAIN groups : \A x \in matches : x[2] # n}
      floor == NextIdFloor(prev)
  IN  [ids |-> [n \in DOMAIN groups |->
                 IF n \in fresh THEN floor + Cardinality({k \in fresh : k < n})
                 ELSE prev.groups[CHOOSE p \in DOMAIN prev.groups : <<p, n>> \in matches].id],
       next |-> floor + Cardinality(fresh)]

\* Groupings of S, the groups in the order of their first members: only the ids of new
\* groups depend on that order.
Memberships(S) ==
  {m \in [S -> 1 .. Cardinality(S)] :
     \A d \in S : m[d] = 1 \/ \E e \in S : e < d /\ m[e] = m[d] - 1 /\ \A c \in S : m[c] = m[d] => e < c}

Empty(prev, zeros) ==
  [groups |-> <<>>, parents |-> <<>>, since |-> 0, next |-> IF prev = None THEN 0 ELSE NextIdFloor(prev),
   algorithm |-> algorithm, unclustered |-> zeros]

InParent(group, parent) == [group EXCEPT !.parent = parent]

\* The level above, if grouping the clusters by pm makes it coarser.
BuildParentLevel(state, pm) ==
  LET n == Cardinality(Labels(pm))
      Children(g) == {i \in DOMAIN pm : pm[i] = g}
  IN  IF n <= 1 \/ n >= Len(state.groups) THEN state
      ELSE [state EXCEPT
             !.parents = [g \in 1 .. n |-> [id |-> state.next + g - 1,
                                            members |-> UNION {state.groups[i].members : i \in Children(g)}]],
             !.groups = [i \in DOMAIN state.groups |-> InParent(state.groups[i], state.next + pm[i] - 1)],
             !.next = @ + n]

\* The state of a membership, whose groups have the ids of the groups before.
FlatState(m, vs, prev) ==
  LET groups == ClustersFromMembership(m)
      match == IF prev = None THEN [ids |-> [n \in DOMAIN groups |-> n - 1], next |-> Len(groups)]
               ELSE MatchToPrevious(groups, prev)
      zeros == DOMAIN vs \ Normalized(vs)
  IN  [Empty(prev, zeros) EXCEPT !.next = match.next,
        !.groups = [n \in DOMAIN groups |-> [id |-> match.ids[n], members |-> groups[n], parent |-> None]]]

\* The states a full clustering may lead to; m and pm are what the algorithms answer.
ClusterAll(vs, prev) ==
  LET flat == {FlatState(m, vs, prev) : m \in Memberships(Normalized(vs))}
  IN  IF Normalized(vs) = {} THEN {Empty(prev, DOMAIN vs)}
      ELSE UNION {IF algorithm = "leiden" /\ Len(s.groups) >= HierarchyMin
                  THEN {BuildParentLevel(s, pm) : pm \in Memberships(DOMAIN s.groups)} ELSE {s} : s \in flat}

-----------------------------------------------------------------------------
(* One document *)

WithoutMember(groups, d) == [i \in DOMAIN groups |-> [groups[i] EXCEPT !.members = @ \ {d}]]
\* A mutant: the level above is forgotten.
RemoveFromGroups(state, d) == [state EXCEPT !.groups = WithoutMember(@, d), !.unclustered = @ \ {d}]
RemoveDocument(state, d) ==
  [state EXCEPT !.groups = WithoutMember(@, d), !.parents = WithoutMember(@, d), !.unclustered = @ \ {d}]
IsMember(state, d) == d \in state.unclustered \cup UNION {g.members : g \in ToSet(state.groups)}

\* The groups that a neighbour may give its vote to, with the most similarity.
NeighborVote(state, vs, d) ==
  LET near == Nearest(vs[d], Others(vs, d), Knn)
      Votes(i) == FoldSet(LAMBDA e, w : w + Dot(vs[d], vs[e]), 0, near \cap state.groups[i].members)
      voted == {i \in DOMAIN state.groups : Votes(i) > 0}
  IN  {i \in voted : \A j \in voted : Votes(i) > Votes(j) \/ (Votes(i) = Votes(j) /\ i <= j)}

\* Any group may have the nearest centroid: centroids moved with every assignment.
Destinations(state, vs, d) ==
  IF algorithm = "leiden" /\ NeighborVote(state, vs, d) # {} THEN NeighborVote(state, vs, d)
  ELSE DOMAIN state.groups

WithMember(group, d) == [group EXCEPT !.members = @ \cup {d}]
AssignIncremental(state, vs, d) ==
  LET removed == RemoveDocument(state, d)
      groups == removed.groups
      parents == removed.parents
      Place(i) ==
        [removed EXCEPT
          !.groups = [groups EXCEPT ![i] = WithMember(groups[i], d)],
          !.parents = [p \in DOMAIN parents |-> IF parents[p].id = groups[i].parent
                                                THEN WithMember(parents[p], d) ELSE parents[p]],
          !.since = IF IsMember(state, d) THEN @ ELSE @ + 1]
  IN  IF IsZero(vs[d]) THEN {[removed EXCEPT !.unclustered = @ \cup {d}]}
      ELSE {Place(i) : i \in Destinations(removed, vs, d)}

\* With a rebalance when it is due, unless that fails.
AssignAndRebalance(state, vs, d) ==
  UNION {{s} \cup (IF s.since < RebalanceThreshold THEN {} ELSE ClusterAll(vs, s)) :
         s \in AssignIncremental(state, vs, d)}

SameAlgorithm(state) == state # None /\ state.groups # <<>> /\ state.algorithm = algorithm

\* What an event for d leaves of the clusters: nothing changes without a vector.
UpdateClustersForFile(state, vs, d) ==
  IF enabled /\ SameAlgorithm(state) /\ d \in DOMAIN vs THEN AssignAndRebalance(state, vs, d) ELSE {state}

\* What an ingest leaves of them; a full clustering may fail.
IngestClusters(state, vs, d, single) ==
  IF ~enabled \/ DOMAIN vs = {} THEN {state}
  ELSE IF single /\ SameAlgorithm(state) THEN UpdateClustersForFile(state, vs, d)
  ELSE {state} \cup ClusterAll(vs, state)

-----------------------------------------------------------------------------
(* Topics: definitions are [centroid, threshold]; a state is [groups, unassigned, fingerprint] *)

\* The topic's cosine, as a dot product, reaches the threshold and the floor.
Belongs(def, v) == Dot(v, def.centroid) >= Floor /\ (def.threshold # None => Dot(v, def.centroid) >= def.threshold)

MemberOf(defs, vs, d) == {t \in DOMAIN defs : ~IsZero(vs[d]) /\ Belongs(defs[t], vs[d])}

AssignAllToCustom(defs, vs) ==
  [groups |-> [t \in DOMAIN defs |-> {<<d, Dot(vs[d], defs[t].centroid)>> :
                                      d \in {e \in DOMAIN vs : t \in MemberOf(defs, vs, e)}}],
   unassigned |-> {d \in DOMAIN vs : MemberOf(defs, vs, d) = {}},
   fingerprint |-> defs]

RemoveDocumentFromTopics(state, d) ==
  [state EXCEPT !.groups = [t \in DOMAIN @ |-> {m \in @[t] : m[1] # d}], !.unassigned = @ \ {d}]

\* A mutant: the document keeps the memberships it had.
AssignSingleAdding(state, vs, d) ==
  LET of == MemberOf(state.fingerprint, vs, d) IN
  [state EXCEPT
     !.groups = [t \in DOMAIN @ |-> IF t \in of
       THEN @[t] \cup {<<d, Dot(vs[d], state.fingerprint[t].centroid)>>} ELSE @[t]],
     !.unassigned = IF of = {} THEN @ \cup {d} ELSE @]
AssignSingleToCustom(state, vs, d) ==
  LET removed == RemoveDocumentFromTopics(state, d)
      of == MemberOf(state.fingerprint, vs, d)
  IN  IF state.groups = <<>> THEN removed
      ELSE [removed EXCEPT
             !.groups = [t \in DOMAIN @ |-> IF t \in of
               THEN @[t] \cup {<<d, Dot(vs[d], state.fingerprint[t].centroid)>>} ELSE @[t]],
             !.unassigned = IF of = {} THEN @ \cup {d} ELSE @]

\* Topics, and the documents whose topics are not of their vectors.
UpToDate == topics # None /\ topics.fingerprint = defined
UpdateTopicsForFile(vs, d) ==
  IF defined # <<>> /\ UpToDate /\ d \in DOMAIN vs
  THEN <<AssignSingleToCustom(topics, vs, d), skipped \ {d}>> ELSE <<topics, skipped \cup {d}>>

\* New definitions are embedded, which may fail.
IngestTopics(vs, d, single) ==
  IF defined = <<>> THEN {<<None, {}>>}
  ELSE IF DOMAIN vs = {} THEN {<<topics, skipped \cup {d}>>}
  ELSE IF single /\ UpToDate THEN {UpdateTopicsForFile(vs, d)}
  ELSE {<<AssignAllToCustom(defined, vs), {}>>} \cup (IF UpToDate THEN {} ELSE {<<topics, skipped \cup {d}>>})

-----------------------------------------------------------------------------
(* Events and ingests *)

\* An index from before clustering was enabled, or after an ingest of what it holds.
ClustersInit ==
  /\ vectors = Existing /\ enabled \in BOOLEAN /\ algorithm \in {"leiden", "kmeans"}
  /\ defined \in Topics /\ (enabled => defined = <<>>)
  /\ clusters \in {None} \cup (IF enabled THEN ClusterAll(vectors, None) ELSE {})
  /\ topics \in {None} \cup (IF defined = <<>> THEN {} ELSE {AssignAllToCustom(defined, vectors)})
  /\ skipped = {} /\ updates = 0

Updates == updates < MaxUpdates /\ updates' = updates + 1

\* The index has another vector of d, or none: a document without text has no chunks.
Indexed(d, v) ==
  vectors' = IF v = None THEN Others(vectors, d)
             ELSE [e \in DOMAIN vectors \cup {d} |-> IF e = d THEN v ELSE vectors[e]]

\* The watcher processes a source.
WatchFile(d, v) ==
  /\ Updates /\ Indexed(d, v)
  /\ clusters' \in UpdateClustersForFile(clusters, vectors', d)
  /\ topics' = UpdateTopicsForFile(vectors', d)[1] /\ skipped' = UpdateTopicsForFile(vectors', d)[2]
  /\ UNCHANGED <<enabled, algorithm, defined>>

\* The watcher processes a removal, or the source of a rename.
WatchRemoval(d) ==
  /\ Updates /\ d \in DOMAIN vectors /\ Indexed(d, None)
  /\ clusters' = IF clusters = None THEN None ELSE RemoveDocument(clusters, d)
  /\ topics' = IF topics = None THEN None ELSE RemoveDocumentFromTopics(topics, d)
  /\ skipped' = skipped \ {d} /\ UNCHANGED <<enabled, algorithm, defined>>

\* An ingest of everything, or of one file.
IngestDocument(d, v, single) ==
  /\ Updates /\ Indexed(d, v)
  /\ clusters' \in IngestClusters(clusters, vectors', d, single)
  /\ \E done \in IngestTopics(vectors', d, single) : topics' = done[1] /\ skipped' = done[2]
  /\ UNCHANGED <<enabled, algorithm, defined>>

Configure ==
  /\ Updates /\ UNCHANGED <<vectors, enabled, clusters, topics, skipped>>
  /\ \/ enabled /\ algorithm' \in {"leiden", "kmeans"} \ {algorithm} /\ UNCHANGED defined
     \/ ~enabled /\ defined' \in Topics \ {defined} /\ UNCHANGED algorithm

ClustersNext ==
  \/ \E d \in Docs, v \in Points \cup {None} :
       WatchFile(d, v) \/ IngestDocument(d, v, TRUE) \/ IngestDocument(d, v, FALSE)
  \/ \E d \in Docs : WatchRemoval(d)
  \/ Configure

ClustersSpec == ClustersInit /\ [][ClustersNext]_clusterVars

-----------------------------------------------------------------------------
(* Properties *)

\* A document is in at most one cluster or among those that cannot be clustered, and a
\* parent has exactly the members of its children, after any mix of assignments, removals,
\* rebalances and changes of the algorithm (remove_document and assign_incremental keep
\* three lists in step).
DocumentsAreOnce ==
  clusters # None =>
    LET group == clusters.groups
        parent == clusters.parents
    IN  /\ \A i, j \in DOMAIN group : i # j => group[i].members \cap group[j].members = {}
        /\ \A i \in DOMAIN group : group[i].members \cap clusters.unclustered = {}
        /\ \A p \in DOMAIN parent : parent[p].members =
             UNION {group[i].members : i \in {j \in DOMAIN group : group[j].parent = parent[p].id}}

\* Ids of clusters and of parents are all different, and a group that is new has an id that
\* no group ever had: neither a cluster that is gone nor a parent, which share the ids and
\* of which only clusters are matched (match_to_previous, next_id_floor).
DistinctIds(groups) == \A i, j \in DOMAIN groups : groups[i].id = groups[j].id => i = j
IdsAreStable ==
  [][clusters' # None =>
      LET now == clusters'.groups
          above == clusters'.parents
          ids == IF clusters = None THEN {} ELSE IdsOf(clusters.groups) \cup IdsOf(clusters.parents)
      IN  /\ DistinctIds(now) /\ DistinctIds(above) /\ IdsOf(now) \cap IdsOf(above) = {}
          /\ clusters # None => \A id \in (IdsOf(now) \cup IdsOf(above)) \ ids : id >= clusters.next
          /\ \A id \in IdsOf(now) \cup IdsOf(above) : id < clusters'.next]_clusters

\* While the topics have the fingerprint of the configuration, the topics of each document
\* with a vector, with their scores, are those its vector belongs to, whether it was
\* assigned alone or with all others; except documents that changed under other definitions.
TopicsAreCurrent ==
  UpToDate =>
    \A d \in (DOMAIN vectors) \ skipped :
      LET of == MemberOf(defined, vectors, d) IN
      /\ \A t \in DOMAIN defined : {m \in topics.groups[t] : m[1] = d} =
           IF t \in of THEN {<<d, Dot(vectors[d], defined[t].centroid)>>} ELSE {}
      /\ d \in topics.unassigned <=> of = {}
=============================================================================
