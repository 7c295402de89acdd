------------------------------- MODULE Shards -------------------------------
(***************************************************************************)
(* Shards: folders with a name in the project's config, and the analysis   *)
(* of each of them that is kept in a cache file of its own.  Commands edit *)
(* the definitions, people edit the file and the documents, graphs read    *)
(* the analysis, and an ingest refreshes topics over awaits.  A path is    *)
(* the sequence of its components, a component the sequence of its bytes.  *)
(***************************************************************************)
EXTENDS Option, Integers, SequencesExt, FiniteSetsExt, TLC

CONSTANTS
  Ids, Names, Files,  \* of Shards; names of them; paths of documents
  FolderPaths,
  TopicNames, TopicTexts,
  Malformed,
  MaxChanges

VARIABLES
  definitions,  \* of the Shards there are: name, path and topics
  folders,      \* that exist
  index,        \* document -> hash
  clustering,   \* whether the configuration asks for clusters
  cacheFile,    \* Shard -> its cache file or None
  reader,       \* shard_analysis of one process, and its answer
  ingest,       \* refresh_shard_topics_after_ingest of another
  changes

shardVars == <<definitions, folders, index, clustering, cacheFile, reader, ingest, changes>>

-----------------------------------------------------------------------------
(* The manifest *)

InScope(path, scope) == IsPrefix(scope, path)

\* Lower case is even.
Fold(name) == 2 * (name \div 2)
Valid(defs) == \A a, b \in DOMAIN defs : a # b => Fold(defs[a].name) # Fold(defs[b].name) /\ defs[a].path # defs[b].path

Less(s, t, Smaller(_, _)) ==
  \/ IsStrictPrefix(s, t)
  \/ \E i \in 1 .. Min({Len(s), Len(t)}) :
       SubSeq(s, 1, i - 1) = SubSeq(t, 1, i - 1) /\ Smaller(s[i], t[i])
LessBytes(a, b) == Less(a, b, LAMBDA x, y : x < y)
\* Mutant: paths are compared as texts, "/" is 47.
Joined(path) == Tail(FlattenSeq([i \in DOMAIN path |-> <<47>> \o path[i]]))
BeforeAsText(p, q) == LessBytes(Joined(p), Joined(q))
CompareComponentPaths(p, q) == Less(p, q, LessBytes)

List(defs) == SortSeq(SetToSeq(DOMAIN defs), LAMBDA a, b : CompareComponentPaths(defs[a].path, defs[b].path))

Above(defs, id) == {a \in DOMAIN defs \ {id} : InScope(defs[id].path, defs[a].path)}
ParentId(defs, id) ==
  IF Above(defs, id) = {} THEN None
  ELSE CHOOSE a \in Above(defs, id) : \A b \in Above(defs, id) : Len(defs[b].path) <= Len(defs[a].path)

\* None: the definitions would not be valid, or no Shard is at or below the prefix.
Retargeted(defs, old, new) ==
  LET affected == {id \in DOMAIN defs : InScope(defs[id].path, old)}
      moved == [id \in DOMAIN defs |->
        IF id \in affected
        THEN [defs[id] EXCEPT !.path = new \o SubSeq(@, Len(old) + 1, Len(@))] ELSE defs[id]]
  IN  IF old = new \/ affected = {} \/ ~Valid(moved) THEN None ELSE <<moved, affected>>

\* Topics are pairs of a name and a definition, in order.
Named(topics, name) == {i \in DOMAIN topics : topics[i][1] = name}
AddTopic(topics, t) == IF Named(topics, t[1]) # {} THEN Malformed ELSE Append(topics, t)
UpdateTopic(topics, name, t) ==
  IF Named(topics, name) = {} \/ (t[1] # name /\ Named(topics, t[1]) # {}) THEN Malformed
  ELSE [topics EXCEPT ![Min(Named(topics, name))] = t]
RemoveTopic(topics, name) ==
  IF Named(topics, name) = {} THEN Malformed ELSE SelectSeq(topics, LAMBDA u : u[1] # name)

-----------------------------------------------------------------------------
(* Commands, under the lock of the config file *)

Change == changes < MaxChanges /\ changes' = changes + 1
\* The cache file goes after the config is written, if it can be removed.
Evict(ids) == \E gone \in {{}, ids} : cacheFile' = [id \in Ids |-> IF id \in gone THEN None ELSE cacheFile[id]]

\* Folders on the way to a created one are created too.
Ensured(path, create) ==
  IF path \in folders THEN folders
  ELSE IF create THEN folders \cup {q \in FolderPaths : IsPrefix(q, path)} ELSE None

AddShard(id, name, path, create) ==
  LET shard == [name |-> name, path |-> path, topics |-> <<>>]
      added == [other \in DOMAIN definitions \cup {id} |-> IF other = id THEN shard ELSE definitions[other]]
  IN
  /\ Change /\ id \notin DOMAIN definitions /\ Valid(added) /\ Ensured(path, create) # None
  /\ definitions' = added /\ folders' = Ensured(path, create)
  /\ UNCHANGED <<index, clustering, cacheFile, reader, ingest>>

\* Without a new path the folder is only looked at to create it.
UpdateShard(id, name, path, create) ==
  LET target == IF path = None THEN definitions[id].path ELSE path
      updated == [definitions EXCEPT ![id].name = name, ![id].path = target]
  IN
  /\ Change /\ id \in DOMAIN definitions /\ Valid(updated)
  /\ IF path # None \/ create
     THEN Ensured(target, create) # None /\ folders' = Ensured(target, create) ELSE UNCHANGED folders
  /\ definitions' = updated
  /\ IF path # None THEN Evict({id}) ELSE UNCHANGED cacheFile
  /\ UNCHANGED <<index, clustering, reader, ingest>>

RemoveShard(id) ==
  /\ Change /\ id \in DOMAIN definitions
  /\ definitions' = [other \in DOMAIN definitions \ {id} |-> definitions[other]]
  /\ Evict({id})
  /\ UNCHANGED <<folders, index, clustering, reader, ingest>>

Retarget(old, new) ==
  LET moved == Retargeted(definitions, old, new) IN
  /\ Change /\ moved # None /\ new \in folders
  /\ definitions' = moved[1]
  /\ Evict(moved[2])
  /\ UNCHANGED <<folders, index, clustering, reader, ingest>>

Mutated(topics) ==
  {AddTopic(topics, t) : t \in TopicNames \X TopicTexts}
    \cup {UpdateTopic(topics, n, t) : n \in TopicNames, t \in TopicNames \X TopicTexts}
    \cup {RemoveTopic(topics, n) : n \in TopicNames}
MutateTopics(id) ==
  /\ Change /\ id \in DOMAIN definitions /\ definitions[id].topics # Malformed
  /\ \E topics \in Mutated(definitions[id].topics) \ {Malformed} :
       definitions' = [definitions EXCEPT ![id].topics = topics]
  /\ UNCHANGED <<folders, index, clustering, cacheFile, reader, ingest>>

\* People break and repair topics in the file, move folders and change other settings.
EditTopics(id) ==
  /\ Change /\ id \in DOMAIN definitions
  /\ \E topics \in {Malformed, <<>>} \cup {<<t>> : t \in TopicNames \X TopicTexts} :
       definitions' = [definitions EXCEPT ![id].topics = topics]
  /\ UNCHANGED <<folders, index, clustering, cacheFile, reader, ingest>>
EditFolders ==
  /\ Change /\ folders' \in {folders \cup {p} : p \in FolderPaths} \cup {folders \ {p} : p \in FolderPaths}
  /\ UNCHANGED <<definitions, index, clustering, cacheFile, reader, ingest>>
EditSettings ==
  /\ Change /\ clustering' = ~clustering
  /\ UNCHANGED <<definitions, folders, index, cacheFile, reader, ingest>>
\* A watcher or another ingest saves an index with one document more, less or changed.
Reindex ==
  /\ Change
  /\ \E f \in Files : index' \in {f :> h @@ index : h \in 1 .. 2} \cup {[g \in DOMAIN index \ {f} |-> index[g]]}
  /\ UNCHANGED <<definitions, folders, clustering, cacheFile, reader, ingest>>

-----------------------------------------------------------------------------
(* Analysis: vectors and hashes of a document go together, so clusters and topics are *)
(* written as what they were computed from                                            *)

Scoped(path, docs) == [f \in {g \in DOMAIN docs : InScope(g, path)} |-> docs[f]]
CorpusFingerprint(path, docs) == <<path, Scoped(path, docs)>>

OfPath(file, path) == IF file # None /\ file.path = path THEN file ELSE None

Clusters(file, fingerprint, on) ==
  IF ~on \/ Cardinality(DOMAIN fingerprint[2]) < 2 THEN None
  ELSE IF file # None /\ file.clusterOf = fingerprint /\ file.clusters # None THEN file.clusters
  ELSE <<fingerprint>>

AssignedTopics(topics, fingerprint) == <<topics, fingerprint>>
Compatible(file, topics) == file # None /\ file.topics # None /\ file.topics[1] = topics

\* None: there are none, they are malformed, or they need an ingest.
TopicsFor(file, topics, fingerprint) ==
  IF topics \in {Malformed, <<>>} \/ ~Compatible(file, topics) THEN None
  ELSE IF file.topicCorpus = fingerprint THEN file.topics
  ELSE AssignedTopics(topics, fingerprint)

\* Malformed topics keep the cached ones for the time they are repaired, with the corpus
\* those cover.  Mutant: with the corpus of now.
KeptTopicsFresh(file, topics, fingerprint) ==
  IF topics = Malformed /\ file # None /\ file.topics # None THEN <<file.topics, fingerprint>>
  ELSE <<TopicsFor(file, topics, fingerprint), fingerprint>>
KeptTopics(file, topics, fingerprint) ==
  IF topics = Malformed /\ file # None /\ file.topics # None THEN <<file.topics, file.topicCorpus>>
  ELSE <<TopicsFor(file, topics, fingerprint), fingerprint>>

\* The cycle under the lock of the cache file.
Analysed(file, path, topics, fingerprint, on) ==
  [path |-> path, clusterOf |-> fingerprint, clusters |-> Clusters(file, fingerprint, on),
   topics |-> KeptTopics(file, topics, fingerprint)[1],
   topicCorpus |-> KeptTopics(file, topics, fingerprint)[2]]

\* A topic refresh leaves the latest clusters and what they were computed from.
Refreshed(file, path, topics, fingerprint) ==
  [path |-> path, topics |-> topics, topicCorpus |-> fingerprint,
   clusterOf |-> IF file # None /\ file.clusters # None THEN file.clusterOf ELSE fingerprint,
   clusters |-> IF file = None THEN None ELSE file.clusters]

-----------------------------------------------------------------------------
(* A graph reads the analysis of a Shard *)

AtRest == [step |-> "idle"]

OpenReader ==
  /\ reader.step = "idle"
  /\ reader' = [step |-> "open", docs |-> index, on |-> clustering]
  /\ UNCHANGED <<definitions, folders, index, clustering, cacheFile, ingest, changes>>

GetShard(id) ==
  /\ reader.step = "open" /\ id \in DOMAIN definitions
  /\ reader' = [step |-> "found", docs |-> reader.docs, on |-> reader.on, id |-> id,
                path |-> definitions[id].path, exists |-> definitions[id].path \in folders]
  /\ UNCHANGED <<definitions, folders, index, clustering, cacheFile, ingest, changes>>

\* A Shard that is gone by now has malformed topics too; one without a folder has no analysis.
GetTopics ==
  /\ reader.step = "found"
  /\ reader' =
       IF ~reader.exists THEN AtRest
       ELSE [step |-> "ready", id |-> reader.id, path |-> reader.path, on |-> reader.on,
             corpus |-> CorpusFingerprint(reader.path, reader.docs),
             topics |-> IF reader.id \in DOMAIN definitions THEN definitions[reader.id].topics ELSE Malformed]
  /\ UNCHANGED <<definitions, folders, index, clustering, cacheFile, ingest, changes>>

Analyse ==
  /\ reader.step = "ready"
  /\ LET file == OfPath(cacheFile[reader.id], reader.path)
     IN  /\ cacheFile' = [cacheFile EXCEPT ![reader.id] =
                        Analysed(file, reader.path, reader.topics, reader.corpus, reader.on)]
         /\ reader' = [step |-> "answered", corpus |-> reader.corpus, of |-> reader.topics,
                       clusters |-> Clusters(file, reader.corpus, reader.on),
                       topics |-> TopicsFor(file, reader.topics, reader.corpus)]
  /\ UNCHANGED <<definitions, folders, index, clustering, ingest, changes>>

Answer ==
  /\ reader.step = "answered" /\ reader' = AtRest
  /\ UNCHANGED <<definitions, folders, index, clustering, cacheFile, ingest, changes>>

-----------------------------------------------------------------------------
(* An ingest refreshes the topics of every Shard *)

ListShards ==
  /\ ingest.step = "idle" /\ DOMAIN definitions # {}
  /\ ingest' = [step |-> "next", docs |-> index, pool |-> {},
                shards |-> [i \in 1 .. Len(List(definitions)) |->
                  LET id == List(definitions)[i] IN
                  [id |-> id, path |-> definitions[id].path, exists |-> definitions[id].path \in folders]]]
  /\ UNCHANGED <<definitions, folders, index, clustering, cacheFile, reader, changes>>

Skip == ingest' = IF Tail(ingest.shards) = <<>> THEN AtRest ELSE [ingest EXCEPT !.shards = Tail(@)]

\* Centroids come from the pool, the cache or a provider, which may fail.
RefreshTopics ==
  /\ ingest.step = "next"
  /\ LET shard == Head(ingest.shards)
         topics == IF shard.id \in DOMAIN definitions THEN definitions[shard.id].topics ELSE Malformed
         file == OfPath(cacheFile[shard.id], shard.path)
         known == topics \in ingest.pool \/ Compatible(file, topics)
     IN  IF ~shard.exists \/ topics = Malformed THEN Skip
         ELSE IF topics = <<>> \/ known
         THEN ingest' = [ingest EXCEPT !.step = "write", !.pool = @ \cup ({topics} \ {<<>>}),
                           !.shards[1] = [topics |-> topics] @@ @]
         ELSE Skip \/ ingest' = [ingest EXCEPT !.step = "embed", !.shards[1] = [topics |-> topics] @@ @]
  /\ UNCHANGED <<definitions, folders, index, clustering, cacheFile, reader, changes>>

EmbedTopics ==
  /\ ingest.step = "embed"
  /\ \/ ingest' = [ingest EXCEPT !.step = "write", !.pool = @ \cup {Head(ingest.shards).topics}]
     \/ IF Tail(ingest.shards) = <<>> THEN ingest' = AtRest
        ELSE ingest' = [ingest EXCEPT !.step = "next", !.shards = Tail(@)]
  /\ UNCHANGED <<definitions, folders, index, clustering, cacheFile, reader, changes>>

WriteTopics ==
  /\ ingest.step = "write"
  /\ LET shard == Head(ingest.shards)
         corpus == CorpusFingerprint(shard.path, ingest.docs)
     IN  cacheFile' = [cacheFile EXCEPT ![shard.id] =
           Refreshed(OfPath(@, shard.path), shard.path,
                     IF shard.topics = <<>> THEN None ELSE AssignedTopics(shard.topics, corpus), corpus)]
  /\ ingest' = IF Tail(ingest.shards) = <<>> THEN AtRest ELSE [ingest EXCEPT !.step = "next", !.shards = Tail(@)]
  /\ UNCHANGED <<definitions, folders, index, clustering, reader, changes>>

-----------------------------------------------------------------------------

ShardsInit ==
  /\ \/ definitions = <<>>
     \/ \E id \in Ids, name \in Names, path \in FolderPaths, t \in TopicNames, u \in TopicTexts :
          definitions = [only \in {id} |-> [name |-> name, path |-> path, topics |-> <<<<t, u>>>>]]
  /\ folders = FolderPaths /\ index = [f \in Files |-> 1] /\ clustering = TRUE
  /\ cacheFile = [id \in Ids |-> None] /\ reader = AtRest /\ ingest = AtRest /\ changes = 0

ShardsNext ==
  \/ \E id \in Ids, name \in Names, path \in FolderPaths, create \in BOOLEAN : AddShard(id, name, path, create)
  \/ \E id \in Ids, name \in Names, path \in FolderPaths \cup {None}, create \in BOOLEAN : UpdateShard(id, name, path, create)
  \/ \E id \in Ids : RemoveShard(id) \/ MutateTopics(id) \/ EditTopics(id) \/ GetShard(id)
  \/ \E old, new \in FolderPaths : Retarget(old, new)
  \/ EditFolders \/ EditSettings \/ Reindex
  \/ OpenReader \/ GetTopics \/ Analyse \/ Answer
  \/ ListShards \/ RefreshTopics \/ EmbedTopics \/ WriteTopics

ShardsSpec == ShardsInit /\ [][ShardsNext]_shardVars

-----------------------------------------------------------------------------
(* Properties *)

\* What a graph shows of a Shard was computed from the documents and the topics the reader
\* read, never from what the cache held of others: through repairs of malformed topics,
\* folders that moved and came back, and an ingest that writes between read and answer.
ReadsAreCurrent ==
  reader.step = "answered" =>
    /\ reader.clusters \in {None, <<reader.corpus>>}
    /\ reader.topics \in {None, <<reader.of, reader.corpus>>}

\* In a list a Shard comes after its parent, and nothing foreign comes between the two.
ListShowsTree(defs) ==
  \A i \in 1 .. Cardinality(DOMAIN defs) :
    LET shown == List(defs)
        parent == ParentId(defs, shown[i])
    IN  parent # None =>
          \E j \in 1 .. i - 1 :
            shown[j] = parent /\ \A k \in j + 1 .. i : InScope(defs[shown[k]].path, defs[parent].path)
=============================================================================
