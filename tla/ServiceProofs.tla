---------------------------- MODULE ServiceProofs ---------------------------
(***************************************************************************)
(* Readers and writers of the files beside the index: proofs about Shards  *)
(* and Config, for any number of Shards, folders, documents, topics,       *)
(* processes, keys, values and secrets.                                    *)
(*                                                                         *)
(* A cache file may be written by a reader or an ingest that read long     *)
(* before, may outlive its definition and may come back with its folder.   *)
(* What makes it safe to use is that it says of which corpus its clusters  *)
(* are and of which its topics are, and that both are told truly.          *)
(*                                                                         *)
(* A command may write what it read a while ago, since whoever wrote the   *)
(* file of the settings in between was kept out by its lock, or (init does *)
(* not take it) made the settings before no longer count.  Secrets are     *)
(* written without a lock; but a write that drops names forgets them.      *)
(***************************************************************************)
EXTENDS Shards, Config, TLAPS
-----------------------------------------------------------------------------
(* Shards *)

\* A cache file says what its clusters and its topics were computed from.
Truthful(file) ==
  file # None =>
    /\ file.clusters \in {None, <<file.clusterOf>>}
    /\ file.topics = None \/ \E topics : file.topics = <<topics, file.topicCorpus>>

CacheInv == cacheFile = [id \in Ids |-> cacheFile[id]] /\ \A id \in Ids : Truthful(cacheFile[id])
\* Shards that are defined, or that the reader holds, have an id.
IdsInv == DOMAIN definitions \subseteq Ids /\ (reader.step \in {"found", "ready"} => reader.id \in Ids)
ShardsInv == CacheInv /\ IdsInv /\ ReadsAreCurrent

-----------------------------------------------------------------------------
(* What is made of a cache file *)

\* Clusters are of the fingerprint they are asked for.
LEMMA ClustersAreOf ==
  ASSUME NEW file, Truthful(file), NEW fingerprint, NEW on
  PROVE  Clusters(file, fingerprint, on) \in {None, <<fingerprint>>}
  BY DEF Clusters, Truthful

\* Topics are of the definitions and the fingerprint they are asked for.
LEMMA TopicsAreOf ==
  ASSUME NEW file, Truthful(file), NEW topics, NEW fingerprint
  PROVE  TopicsFor(file, topics, fingerprint) \in {None, <<topics, fingerprint>>}
<1>1. CASE topics \in {Malformed, <<>>} \/ ~Compatible(file, topics)
  BY <1>1 DEF TopicsFor
<1>2. CASE ~(topics \in {Malformed, <<>>} \/ ~Compatible(file, topics))
  <2>1. file # None /\ file.topics # None /\ file.topics[1] = topics
    BY <1>2 DEF Compatible
  <2>2. PICK of : file.topics = <<of, file.topicCorpus>>
    BY <2>1 DEF Truthful
  <2> QED BY <1>2, <2>1, <2>2 DEF TopicsFor, AssignedTopics
<1> QED BY <1>1, <1>2

\* A file is as truthful at its path.
LEMMA OfPathTruthful ==
  ASSUME NEW file, Truthful(file), NEW path
  PROVE  Truthful(OfPath(file, path))
  BY DEF OfPath, Truthful

\* The cycle of a reader leaves a truthful file, also when it keeps the topics of
\* definitions that cannot be read now.
LEMMA AnalysedTruthful ==
  ASSUME NEW file, Truthful(file), NEW path, NEW topics, NEW fingerprint, NEW on
  PROVE  Truthful(Analysed(file, path, topics, fingerprint, on))
<1> DEFINE kept == KeptTopics(file, topics, fingerprint)
           new == Analysed(file, path, topics, fingerprint, on)
<1>1. Clusters(file, fingerprint, on) \in {None, <<fingerprint>>}
  BY ClustersAreOf
<1>2. kept[1] = None \/ \E of : kept[1] = <<of, kept[2]>>
  <2>1. CASE topics = Malformed /\ file # None /\ file.topics # None
    BY <2>1 DEF KeptTopics, Truthful
  <2>2. CASE ~(topics = Malformed /\ file # None /\ file.topics # None)
    BY <2>2, TopicsAreOf DEF KeptTopics
  <2> QED BY <2>1, <2>2
<1> HIDE DEF kept
<1>3. /\ new.clusters = Clusters(file, fingerprint, on) /\ new.clusterOf = fingerprint
      /\ new.topics = kept[1] /\ new.topicCorpus = kept[2]
  BY DEF Analysed, kept
<1> HIDE DEF new
<1> QED BY <1>1, <1>2, <1>3 DEF Truthful, new

\* A refresh by an ingest leaves a truthful file.
LEMMA RefreshedTruthful ==
  ASSUME NEW file, Truthful(file), NEW path, NEW topics, NEW fingerprint,
         topics = None \/ \E of : topics = <<of, fingerprint>>
  PROVE  Truthful(Refreshed(file, path, topics, fingerprint))
<1> DEFINE new == Refreshed(file, path, topics, fingerprint)
<1>1. /\ new.clusters = (IF file = None THEN None ELSE file.clusters)
      /\ new.clusterOf = (IF file # None /\ file.clusters # None THEN file.clusterOf ELSE fingerprint)
      /\ new.topics = topics /\ new.topicCorpus = fingerprint
  BY DEF Refreshed
<1> HIDE DEF new
<1>2. new.clusters \in {None, <<new.clusterOf>>}
  BY <1>1 DEF Truthful
<1> QED BY <1>1, <1>2 DEF Truthful, new

-----------------------------------------------------------------------------
(* Steps *)

\* One cache file is written.
LEMMA WriteCache ==
  ASSUME CacheInv, NEW id, NEW file, id \in Ids => Truthful(file),
         cacheFile' = [cacheFile EXCEPT ![id] = file]
  PROVE  CacheInv'
<1>1. cacheFile' = [i \in Ids |-> cacheFile'[i]]
  BY DEF CacheInv
<1>2. ASSUME NEW i \in Ids PROVE Truthful(cacheFile'[i])
  BY DEF CacheInv
<1> QED BY <1>1, <1>2 DEF CacheInv

\* Cache files are removed.
LEMMA EvictCache ==
  ASSUME CacheInv, NEW ids, Evict(ids)
  PROVE  CacheInv'
<1>1. PICK gone : cacheFile' = [id \in Ids |-> IF id \in gone THEN None ELSE cacheFile[id]]
  BY DEF Evict
<1>2. ASSUME NEW i \in Ids PROVE cacheFile'[i] \in {None, cacheFile[i]}
  BY <1>1
<1>3. ASSUME NEW i \in Ids PROVE Truthful(cacheFile'[i])
  BY <1>2 DEF CacheInv, Truthful
<1> QED BY <1>1, <1>3 DEF CacheInv

\* Commands and people change the definitions, and commands evict what is not needed.
LEMMA CommandsKeep ==
  ASSUME ShardsInv, UNCHANGED reader, DOMAIN definitions' \subseteq Ids,
         UNCHANGED cacheFile \/ \E ids : Evict(ids)
  PROVE  ShardsInv'
<1>1. CacheInv'
  BY EvictCache DEF ShardsInv, CacheInv
<1>2. IdsInv' /\ ReadsAreCurrent'
  BY DEF ShardsInv, IdsInv, ReadsAreCurrent
<1> QED BY <1>1, <1>2 DEF ShardsInv

\* The reader answers of what it read.
LEMMA AnalyseInv ==
  ASSUME ShardsInv, Analyse
  PROVE  ShardsInv'
<1> DEFINE file == OfPath(cacheFile[reader.id], reader.path)
<1>1. /\ reader.step = "ready" /\ UNCHANGED definitions
      /\ cacheFile' = [cacheFile EXCEPT ![reader.id] =
                         Analysed(file, reader.path, reader.topics, reader.corpus, reader.on)]
      /\ reader' = [step |-> "answered", corpus |-> reader.corpus, of |-> reader.topics,
                    clusters |-> Clusters(file, reader.corpus, reader.on),
                    topics |-> TopicsFor(file, reader.topics, reader.corpus)]
  BY DEF Analyse
<1>2. Truthful(file)
  BY <1>1, OfPathTruthful DEF ShardsInv, CacheInv, IdsInv
<1> HIDE DEF file
<1>3. CacheInv'
  <2>1. Truthful(Analysed(file, reader.path, reader.topics, reader.corpus, reader.on))
    BY <1>2, AnalysedTruthful
  <2> QED BY <1>1, <2>1, WriteCache DEF ShardsInv
<1>4. /\ Clusters(file, reader.corpus, reader.on) \in {None, <<reader.corpus>>}
      /\ TopicsFor(file, reader.topics, reader.corpus) \in {None, <<reader.topics, reader.corpus>>}
  BY <1>2, ClustersAreOf, TopicsAreOf
<1>5. IdsInv' /\ ReadsAreCurrent'
  BY <1>1, <1>4 DEF ShardsInv, IdsInv, ReadsAreCurrent
<1> QED BY <1>3, <1>5 DEF ShardsInv

\* The ingest writes topics of the documents and the definitions it read.
LEMMA WriteTopicsInv ==
  ASSUME ShardsInv, WriteTopics
  PROVE  ShardsInv'
<1> DEFINE shard == Head(ingest.shards)
           corpus == CorpusFingerprint(shard.path, ingest.docs)
           topics == IF shard.topics = <<>> THEN None ELSE AssignedTopics(shard.topics, corpus)
           file == OfPath(cacheFile[shard.id], shard.path)
<1>1. /\ cacheFile' = [cacheFile EXCEPT ![shard.id] = Refreshed(file, shard.path, topics, corpus)]
      /\ UNCHANGED <<definitions, reader>>
  BY DEF WriteTopics
<1>2. topics = None \/ \E of : topics = <<of, corpus>>
  BY DEF AssignedTopics
<1> HIDE DEF topics, corpus
<1>3. ASSUME shard.id \in Ids PROVE Truthful(Refreshed(file, shard.path, topics, corpus))
  <2>1. Truthful(file)
    BY <1>3, OfPathTruthful DEF ShardsInv, CacheInv
  <2> HIDE DEF file, shard
  <2> QED BY <1>2, <2>1, RefreshedTruthful
<1> HIDE DEF file, shard
<1>4. CacheInv'
  BY <1>1, <1>3, WriteCache DEF ShardsInv
<1>5. IdsInv' /\ ReadsAreCurrent'
  BY <1>1 DEF ShardsInv, IdsInv, ReadsAreCurrent
<1> QED BY <1>4, <1>5 DEF ShardsInv

\* The other steps of the reader take ids that are defined.
LEMMA ReaderInv ==
  ASSUME ShardsInv, OpenReader \/ (\E id \in Ids : GetShard(id)) \/ GetTopics \/ Answer
  PROVE  ShardsInv'
<1>1. CacheInv'
  BY DEF ShardsInv, CacheInv, OpenReader, GetShard, GetTopics, Answer
<1>2. CASE OpenReader \/ Answer
  BY <1>1, <1>2 DEF OpenReader, Answer, AtRest, ShardsInv, IdsInv, ReadsAreCurrent
<1>3. ASSUME NEW id \in Ids, GetShard(id) PROVE ShardsInv'
  BY <1>1, <1>3 DEF GetShard, ShardsInv, IdsInv, ReadsAreCurrent
<1>4. CASE GetTopics
  BY <1>1, <1>4 DEF GetTopics, AtRest, ShardsInv, IdsInv, ReadsAreCurrent
<1> QED BY <1>2, <1>3, <1>4

\* No command and no person defines what is no Shard.
LEMMA DefinitionsInv ==
  ASSUME ShardsInv,
         \/ \E id \in Ids : \E name, path, create : AddShard(id, name, path, create)
         \/ \E id \in Ids : \E name, path, create : UpdateShard(id, name, path, create)
         \/ \E id \in Ids : RemoveShard(id) \/ MutateTopics(id) \/ EditTopics(id)
         \/ \E old, new : Retarget(old, new)
         \/ EditFolders \/ EditSettings \/ Reindex
  PROVE  ShardsInv'
<1>0. DOMAIN definitions \subseteq Ids
  BY DEF ShardsInv, IdsInv
<1>1. ASSUME NEW id \in Ids, NEW name, NEW path, NEW create, AddShard(id, name, path, create)
      PROVE  UNCHANGED <<reader, cacheFile>> /\ DOMAIN definitions' \subseteq Ids
  BY <1>0, <1>1 DEF AddShard
<1>2. ASSUME NEW id \in Ids, NEW name, NEW path, NEW create, UpdateShard(id, name, path, create)
      PROVE  /\ UNCHANGED reader /\ DOMAIN definitions' \subseteq Ids
             /\ UNCHANGED cacheFile \/ \E ids : Evict(ids)
  <2>1. UNCHANGED reader /\ (UNCHANGED cacheFile \/ \E ids : Evict(ids))
    BY <1>2 DEF UpdateShard
  <2>2. \E target : definitions' = [definitions EXCEPT ![id].name = name, ![id].path = target]
    BY <1>2 DEF UpdateShard
  <2>3. DOMAIN definitions' = DOMAIN definitions
    BY <2>2
  <2> QED BY <1>0, <2>1, <2>3
<1>3. ASSUME NEW id \in Ids, RemoveShard(id) \/ MutateTopics(id) \/ EditTopics(id)
      PROVE  /\ UNCHANGED reader /\ DOMAIN definitions' \subseteq Ids
             /\ UNCHANGED cacheFile \/ \E ids : Evict(ids)
  <2>1. CASE RemoveShard(id)
    BY <1>0, <2>1 DEF RemoveShard
  <2>2. CASE MutateTopics(id)
    <3>1. UNCHANGED <<reader, cacheFile>> /\ \E topics : definitions' = [definitions EXCEPT ![id].topics = topics]
      BY <2>2 DEF MutateTopics
    <3> QED BY <1>0, <3>1
  <2>3. CASE EditTopics(id)
    <3>1. UNCHANGED <<reader, cacheFile>> /\ \E topics : definitions' = [definitions EXCEPT ![id].topics = topics]
      BY <2>3 DEF EditTopics
    <3> QED BY <1>0, <3>1
  <2> QED BY <1>3, <2>1, <2>2, <2>3
<1>4. ASSUME NEW old, NEW new, Retarget(old, new)
      PROVE  UNCHANGED reader /\ DOMAIN definitions' \subseteq Ids /\ \E ids : Evict(ids)
  <2>1. UNCHANGED reader /\ (\E ids : Evict(ids))
        /\ Retargeted(definitions, old, new) # None /\ definitions' = Retargeted(definitions, old, new)[1]
    BY <1>4 DEF Retarget
  <2>2. \E f : Retargeted(definitions, old, new)[1] = [id \in DOMAIN definitions |-> f[id]]
    <3> DEFINE affected == {id \in DOMAIN definitions : InScope(definitions[id].path, old)}
               Moved(id) == IF id \in affected
                            THEN [definitions[id] EXCEPT !.path = new \o SubSeq(@, Len(old) + 1, Len(@))]
                            ELSE definitions[id]
               moved == [id \in DOMAIN definitions |-> Moved(id)]
    <3>1. Retargeted(definitions, old, new) = <<moved, affected>>
      BY <2>1 DEF Retargeted
    <3>2. Retargeted(definitions, old, new)[1] = moved
      BY <3>1
    <3> HIDE DEF Moved
    <3>3. moved = [id \in DOMAIN definitions |-> moved[id]]
      OBVIOUS
    <3> QED BY <3>2, <3>3
  <2> QED BY <1>0, <2>1, <2>2
<1>5. CASE EditFolders \/ EditSettings \/ Reindex
  <2>1. UNCHANGED <<reader, cacheFile, definitions>>
    BY <1>5 DEF EditFolders, EditSettings, Reindex
  <2> QED BY <1>0, <2>1, CommandsKeep
<1> QED BY <1>1, <1>2, <1>3, <1>4, <1>5, CommandsKeep

\* Every step keeps the invariant.
LEMMA NextShards ==
  ASSUME ShardsInv, [ShardsNext]_shardVars
  PROVE  ShardsInv'
<1>1. CASE \/ \E id \in Ids : \E name, path, create : AddShard(id, name, path, create)
           \/ \E id \in Ids : \E name, path, create : UpdateShard(id, name, path, create)
           \/ \E id \in Ids : RemoveShard(id) \/ MutateTopics(id) \/ EditTopics(id)
           \/ \E old, new : Retarget(old, new)
           \/ EditFolders \/ EditSettings \/ Reindex
  BY <1>1, DefinitionsInv
<1>2. CASE OpenReader \/ (\E id \in Ids : GetShard(id)) \/ GetTopics \/ Answer
  BY <1>2, ReaderInv
<1>3. CASE Analyse
  BY <1>3, AnalyseInv
<1>4. CASE WriteTopics
  BY <1>4, WriteTopicsInv
<1>5. CASE ListShards \/ RefreshTopics \/ EmbedTopics \/ UNCHANGED shardVars
  <2>1. UNCHANGED <<reader, cacheFile, definitions>>
    BY <1>5 DEF ListShards, RefreshTopics, EmbedTopics, shardVars
  <2> QED BY <2>1, CommandsKeep DEF ShardsInv, IdsInv
<1> QED BY <1>1, <1>2, <1>3, <1>4, <1>5 DEF ShardsNext

\* There is nothing in the cache at first.
LEMMA InitShards == ShardsInit => ShardsInv
<1> SUFFICES ASSUME ShardsInit PROVE ShardsInv
  OBVIOUS
<1>1. cacheFile = [id \in Ids |-> None] /\ reader.step = "idle"
  BY DEF ShardsInit, AtRest
<1>2. DOMAIN definitions \subseteq Ids
  <2>1. \/ definitions = <<>>
        \/ \E id \in Ids : \E shard : definitions = [only \in {id} |-> shard]
    BY DEF ShardsInit
  <2>2. DOMAIN <<>> = {}
    OBVIOUS
  <2> QED BY <2>1, <2>2
<1>3. CacheInv
  <2>1. \A id \in Ids : cacheFile[id] = None
    BY <1>1
  <2> QED BY <1>1, <2>1 DEF CacheInv, Truthful
<1> QED BY <1>1, <1>2, <1>3 DEF ShardsInv, IdsInv, ReadsAreCurrent

\* What shard_analysis answers was computed from the documents, the path and the topics
\* it read, whatever refresh_shard_topics_after_ingest, commands and people wrote in
\* between.
THEOREM AnswersAreOfWhatWasRead == ShardsSpec => []ReadsAreCurrent
<1>1. ShardsInit => ShardsInv
  BY InitShards
<1>2. ShardsInv /\ [ShardsNext]_shardVars => ShardsInv'
  BY NextShards
<1>3. ShardsInv => ReadsAreCurrent
  BY DEF ShardsInv
<1> QED BY <1>1, <1>2, <1>3, PTL DEF ShardsSpec

-----------------------------------------------------------------------------
(* Configuration *)

\* Commands on settings, and the file they hold the lock of and have read.
TypedCommand(do) ==
  /\ do.step \in {"mutate", "write"} => do.key \in Keys /\ do.value \in Values \cup {None}
  /\ do.step = "write" => do.root \in Settings

ConfigTyped ==
  /\ process = [p \in Processes |-> process[p]] /\ \A p \in Processes : TypedCommand(process[p])
  /\ lock = [file \in {"config", "env"} |-> lock[file]]
  /\ yaml \in Settings \cup {None, Broken}

\* The settings of the last commands are in a file of that content.
Holds(root) == \A k \in DOMAIN intent : k \in DOMAIN root /\ root[k] = intent[k]

\* A command about to write has the lock, and what it read holds the settings of those before it.
WritersHold == \A p \in Processes : At(p, "write") => lock["config"] = p /\ Holds(process[p].root)
\* No command has set what is in no file.
NothingSet == yaml \in {None, Broken} => DOMAIN intent = {}
SettingsInv == WritersHold /\ NothingSet /\ SettingsKept

\* Before the older file is put away its secrets have been written.
SecretsInv ==
  legacy = "bak" \/ (\E p \in Processes : At(p, "rename")) => LegacySecrets \subseteq env \cup forgotten

ConfigInv == ConfigTyped /\ SettingsInv /\ SecretsInv

-----------------------------------------------------------------------------
(* Files and secrets *)

\* A file with one setting is a file, and so is one without any.
LEMMA SettingsAre ==
  /\ <<>> \in Settings
  /\ \A keys \in SUBSET Keys : \A f : f \in [keys -> SettingValues] => f \in Settings
<1>1. \A keys \in SUBSET Keys : \A f : f \in [keys -> SettingValues] => f \in Settings
  BY DEF Settings
<1>2. {} \in SUBSET Keys /\ <<>> \in [{} -> SettingValues]
  OBVIOUS
<1> QED BY <1>1, <1>2

\* Setting and removing a key makes a file of a file.
LEMMA UpdatedSettings ==
  ASSUME NEW root \in Settings, NEW key \in Keys, NEW value \in Values \cup {None}
  PROVE  Updated(root, key, value) \in Settings
<1>1. PICK keys \in SUBSET Keys : root \in [keys -> SettingValues]
  BY DEF Settings
<1>2. CASE value # None
  <2>1. Updated(root, key, value) \in [keys \cup {key} -> SettingValues]
    BY <1>1, <1>2 DEF Updated, SettingValues
  <2> QED BY <2>1, SettingsAre
<1>3. CASE value = None
  <2>1. Updated(root, key, value) \in [keys \ {key} -> SettingValues]
    BY <1>1, <1>3 DEF Updated
  <2> QED BY <2>1, SettingsAre
<1> QED BY <1>2, <1>3

\* Writing .env loses no name: it is there, or it is forgotten.
LEMMA ReplacesKeeps ==
  ASSUME NEW names, Replaces(names)
  PROVE  env' \cup forgotten' = names \cup env \cup forgotten
  BY DEF Replaces

-----------------------------------------------------------------------------
(* Steps *)

\* One process goes on.
LEMMA GoesOn ==
  ASSUME ConfigTyped, NEW p \in Processes, NEW next, Goes(p, next)
  PROVE  /\ process' = [q \in Processes |-> process'[q]]
         /\ process'[p] = next /\ \A q \in Processes \ {p} : process'[q] = process[q]
  BY DEF ConfigTyped, Goes

\* A process that does not touch config.yaml goes on, and does not begin to write it: others
\* keep their locks, no secret is lost and the older file is put away only after "rename".
LEMMA Moves ==
  ASSUME ConfigInv, NEW p \in Processes, NEW next, Goes(p, next),
         TypedCommand(next), next.step # "write",
         lock' = [file \in {"config", "env"} |-> lock'[file]],
         \A q \in Processes \ {p} : lock["config"] = q => lock'["config"] = q,
         UNCHANGED <<yaml, intent>>,
         env \cup forgotten \subseteq env' \cup forgotten',
         legacy' = "bak" \/ next.step = "rename" =>
           legacy = "bak" \/ At(p, "rename") \/ LegacySecrets \subseteq env' \cup forgotten'
  PROVE  ConfigInv'
<1>1. /\ process' = [q \in Processes |-> process'[q]]
      /\ process'[p] = next /\ \A q \in Processes \ {p} : process'[q] = process[q]
  BY GoesOn DEF ConfigInv
<1>2. ConfigTyped'
  BY <1>1 DEF ConfigInv, ConfigTyped, TypedCommand
<1>3. SettingsInv'
  <2>1. WritersHold'
    BY <1>1 DEF ConfigInv, SettingsInv, WritersHold, At, Holds
  <2> QED BY <2>1 DEF ConfigInv, SettingsInv, NothingSet, SettingsKept
<1>4. SecretsInv'
  BY <1>1 DEF ConfigInv, SecretsInv, At
<1> QED BY <1>2, <1>3, <1>4 DEF ConfigInv

\* Whoever writes config.yaml for people or for the older form: no setting of a command counts any more.
LEMMA WritesAnew ==
  ASSUME ConfigInv, yaml' \in Settings \cup {None, Broken}, intent' = <<>>,
         UNCHANGED <<legacy, env, lock, forgotten>>,
         \/ UNCHANGED process
         \/ \E p \in Processes : \E next : Goes(p, next) /\ next.step \notin {"mutate", "write", "rename"}
  PROVE  ConfigInv'
<1>1. /\ process' = [q \in Processes |-> process'[q]]
      /\ \A q \in Processes : process'[q] = process[q] \/ process'[q].step \notin {"mutate", "write", "rename"}
  <2>1. CASE UNCHANGED process
    BY <2>1 DEF ConfigInv, ConfigTyped
  <2>2. ASSUME NEW p \in Processes, NEW next, Goes(p, next), next.step \notin {"mutate", "write", "rename"}
        PROVE  /\ process' = [q \in Processes |-> process'[q]]
               /\ \A q \in Processes : process'[q] = process[q] \/ process'[q].step \notin {"mutate", "write", "rename"}
    BY <2>2, GoesOn DEF ConfigInv
  <2> QED BY <2>1, <2>2
<1>2. ConfigTyped'
  BY <1>1 DEF ConfigInv, ConfigTyped, TypedCommand
<1>3. DOMAIN intent' = {}
  OBVIOUS
<1>4. SettingsInv'
  BY <1>1, <1>3 DEF ConfigInv, SettingsInv, WritersHold, Holds, NothingSet, SettingsKept, At
<1>5. SecretsInv'
  BY <1>1 DEF ConfigInv, SecretsInv, At
<1> QED BY <1>2, <1>4, <1>5 DEF ConfigInv

-----------------------------------------------------------------------------
(* Commands *)

\* Loading, and commands that begin.
LEMMA LoadInv ==
  ASSUME ConfigInv, NEW p \in Processes,
         \/ Load(p) \/ Detect(p) \/ MoveAside(p) \/ MoveIn(p) \/ ReadDotenv(p) \/ ReadSecrets(p) \/ StartInit(p)
         \/ \E k \in Keys, v \in Values \cup {None} : StartMutate(p, k, v)
         \/ \E s \in Secrets, stored \in BOOLEAN : StartSecret(p, s, stored)
  PROVE  ConfigInv'
<1>1. /\ UNCHANGED <<yaml, env, lock, intent, forgotten>>
      /\ legacy' = "bak" => legacy = "bak"
      /\ \E next : Goes(p, next) /\ TypedCommand(next) /\ next.step \notin {"write", "rename"}
  <2>1. CASE Load(p)
    BY <2>1 DEF Load, Starts, TypedCommand
  <2>2. CASE Detect(p)
    BY <2>2 DEF Detect, Resting, TypedCommand
  <2>3. CASE MoveAside(p)
    BY <2>3 DEF MoveAside, To, Resting, TypedCommand
  <2>4. CASE MoveIn(p)
    BY <2>4 DEF MoveIn, To, Resting, TypedCommand
  <2>5. CASE ReadDotenv(p)
    BY <2>5 DEF ReadDotenv, Resting, TypedCommand
  <2>6. CASE ReadSecrets(p)
    BY <2>6 DEF ReadSecrets, TypedCommand
  <2>7. CASE StartInit(p)
    BY <2>7 DEF StartInit, Starts, TypedCommand
  <2>8. ASSUME NEW k \in Keys, NEW v \in Values \cup {None}, StartMutate(p, k, v)
        PROVE  /\ UNCHANGED <<legacy, yaml, env, lock, intent, forgotten>>
               /\ \E next : Goes(p, next) /\ TypedCommand(next) /\ next.step \notin {"write", "rename"}
    BY <2>8 DEF StartMutate, Starts, TypedCommand
  <2>9. ASSUME NEW s \in Secrets, NEW stored \in BOOLEAN, StartSecret(p, s, stored)
        PROVE  /\ UNCHANGED <<legacy, yaml, env, lock, intent, forgotten>>
               /\ \E next : Goes(p, next) /\ TypedCommand(next) /\ next.step \notin {"write", "rename"}
    BY <2>9 DEF StartSecret, Starts, TypedCommand
  <2> QED BY <2>1, <2>2, <2>3, <2>4, <2>5, <2>6, <2>7, <2>8, <2>9
<1>2. lock' = [file \in {"config", "env"} |-> lock'[file]]
  BY <1>1 DEF ConfigInv, ConfigTyped
<1> QED BY <1>1, <1>2, Moves

\* A migration writes secrets before it puts the older file away.
LEMMA SecretsMigrate ==
  ASSUME ConfigInv, NEW p \in Processes, Preserve(p) \/ RenameToBak(p)
  PROVE  ConfigInv'
<1>1. /\ UNCHANGED <<yaml, lock, intent>>
      /\ \E next : /\ Goes(p, next) /\ TypedCommand(next) /\ next.step # "write"
                   /\ env \cup forgotten \subseteq env' \cup forgotten'
                   /\ legacy' = "bak" \/ next.step = "rename" =>
                        legacy = "bak" \/ At(p, "rename") \/ LegacySecrets \subseteq env' \cup forgotten'
  <2>1. CASE Preserve(p)
    <3>1. CASE Replaces(process[p].names \cup LegacySecrets) /\ To(p, "rename")
      <4>1. env' \cup forgotten' = (process[p].names \cup LegacySecrets) \cup env \cup forgotten
        BY <3>1, ReplacesKeeps
      <4> QED BY <2>1, <3>1, <4>1 DEF Preserve, To, TypedCommand
    <3>2. CASE UNCHANGED <<env, forgotten>> /\ Goes(p, Resting)
      BY <2>1, <3>2 DEF Preserve, Resting, TypedCommand
    <3> QED BY <2>1, <3>1, <3>2 DEF Preserve
  <2>2. CASE RenameToBak(p)
    BY <2>2 DEF RenameToBak, Resting, TypedCommand
  <2> QED BY <2>1, <2>2
<1>2. lock' = [file \in {"config", "env"} |-> lock'[file]]
  BY <1>1 DEF ConfigInv, ConfigTyped
<1> QED BY <1>1, <1>2, Moves

\* Commands on secrets, and what fails or stops.
LEMMA SecretsInvKept ==
  ASSUME ConfigInv, NEW p \in Processes, ReadEnv(p) \/ WriteEnv(p) \/ Fail(p)
  PROVE  ConfigInv'
<1>1. CASE ReadEnv(p) \/ WriteEnv(p)
  <2>1. /\ UNCHANGED <<legacy, yaml, intent>>
        /\ lock' = [file \in {"config", "env"} |-> lock'[file]] /\ lock'["config"] = lock["config"]
    BY <1>1 DEF ReadEnv, WriteEnv, Lock, Unlock, ConfigInv, ConfigTyped
  <2>2. env \cup forgotten \subseteq env' \cup forgotten'
    <3>1. CASE ReadEnv(p)
      BY <3>1 DEF ReadEnv
    <3>2. CASE WriteEnv(p)
      BY <3>2, ReplacesKeeps DEF WriteEnv
    <3> QED BY <1>1, <3>1, <3>2
  <2>3. \E next : Goes(p, next) /\ TypedCommand(next) /\ next.step \notin {"write", "rename"}
    BY <1>1 DEF ReadEnv, WriteEnv, Resting, TypedCommand
  <2> QED BY <2>1, <2>2, <2>3, Moves
<1>2. CASE Fail(p)
  <2>1. UNCHANGED <<legacy, yaml, env, intent, forgotten>> /\ Goes(p, Resting)
        /\ TypedCommand(Resting) /\ Resting.step \notin {"write", "rename"}
    BY <1>2 DEF Fail, Resting, TypedCommand
  <2>2. lock' = [file \in {"config", "env"} |-> IF lock[file] = p THEN None ELSE lock[file]]
    BY <1>2 DEF Fail, ConfigInv, ConfigTyped
  <2>3. /\ lock' = [file \in {"config", "env"} |-> lock'[file]]
        /\ \A q \in Processes \ {p} : lock["config"] = q => lock'["config"] = q
    BY <2>2
  <2> HIDE DEF Resting
  <2> QED BY <2>1, <2>3, Moves
<1> QED BY <1>1, <1>2

\* init, a migration and people write the file anew.
LEMMA AnewInv ==
  ASSUME ConfigInv, EditConfig \/ \E p \in Processes : WriteYamlConfig(p) \/ InitProject(p)
  PROVE  ConfigInv'
<1>1. CASE EditConfig
  <2>1. \A k \in Keys, v \in Values : [only \in {k} |-> v] \in Settings
    <3>1. \A k \in Keys, v \in Values : {k} \in SUBSET Keys /\ [only \in {k} |-> v] \in [{k} -> SettingValues]
      BY DEF SettingValues
    <3> QED BY <3>1, SettingsAre
  <2>2. /\ UNCHANGED <<legacy, env, lock, process, forgotten>> /\ intent' = <<>>
        /\ \/ yaml' \in {None, Broken}
           \/ \E k \in Keys, v \in Values : yaml' = [only \in {k} |-> v]
    BY <1>1 DEF EditConfig
  <2>3. yaml' \in Settings \cup {None, Broken}
    <3>1. CASE yaml' \in {None, Broken}
      BY <3>1
    <3>2. CASE \E k \in Keys, v \in Values : yaml' = [only \in {k} |-> v]
      BY <2>1, <3>2
    <3> QED BY <2>2, <3>1, <3>2
  <2> QED BY <2>2, <2>3, WritesAnew
<1>2. ASSUME NEW p \in Processes, WriteYamlConfig(p) PROVE ConfigInv'
  <2>1. CASE yaml' = Migrated /\ intent' = <<>> /\ To(p, "secrets")
    <3>1. Migrated \in [Keys -> SettingValues]
      BY DEF Migrated, SettingValues
    <3>2. Migrated \in Settings
      BY <3>1, SettingsAre
    <3> QED BY <1>2, <2>1, <3>2, WritesAnew DEF WriteYamlConfig, To
  <2>2. CASE UNCHANGED <<yaml, intent>> /\ Goes(p, Resting)
    <3>1. lock' = [file \in {"config", "env"} |-> lock'[file]]
      BY <1>2 DEF WriteYamlConfig, ConfigInv, ConfigTyped
    <3> QED BY <1>2, <2>2, <3>1, Moves DEF WriteYamlConfig, Resting, TypedCommand
  <2> QED BY <1>2, <2>1, <2>2 DEF WriteYamlConfig
<1>3. ASSUME NEW p \in Processes, InitProject(p) PROVE ConfigInv'
  <2>1. CASE yaml' = [k \in Keys |-> Default] /\ intent' = <<>>
    <3>1. [k \in Keys |-> Default] \in [Keys -> SettingValues]
      BY DEF SettingValues
    <3>2. [k \in Keys |-> Default] \in Settings
      BY <3>1, SettingsAre
    <3> QED BY <1>3, <2>1, <3>2, WritesAnew DEF InitProject, Resting
  <2>2. CASE UNCHANGED <<yaml, intent>>
    <3>1. lock' = [file \in {"config", "env"} |-> lock'[file]]
      BY <1>3 DEF InitProject, ConfigInv, ConfigTyped
    <3> QED BY <1>3, <2>2, <3>1, Moves DEF InitProject, Resting, TypedCommand
  <2> QED BY <1>3, <2>1, <2>2 DEF InitProject
<1> QED BY <1>1, <1>2, <1>3

\* A command reads a file that holds the settings of the commands before it.
LEMMA ReadYamlInv ==
  ASSUME ConfigInv, NEW p \in Processes, ReadYaml(p)
  PROVE  ConfigInv'
<1> DEFINE root == IF yaml = None THEN <<>> ELSE yaml
           next == [step |-> "write", key |-> process[p].key, value |-> process[p].value, root |-> root]
<1>1. /\ At(p, "mutate") /\ yaml # Broken /\ lock["config"] = None /\ Goes(p, next)
      /\ lock' = [lock EXCEPT !["config"] = p]
      /\ UNCHANGED <<legacy, yaml, env, intent, forgotten>>
  BY DEF ReadYaml, ToWrite, Free, Lock
<1>2. root \in Settings /\ Holds(root)
  BY <1>1, SettingsAre DEF ConfigInv, ConfigTyped, SettingsInv, NothingSet, SettingsKept, Holds
<1>3. TypedCommand(next) /\ next.step = "write" /\ next.root = root
  BY <1>1, <1>2 DEF At, TypedCommand, ConfigInv, ConfigTyped
<1> HIDE DEF next, root
<1>4. /\ process' = [q \in Processes |-> process'[q]]
      /\ process'[p] = next /\ \A q \in Processes \ {p} : process'[q] = process[q]
  BY <1>1, GoesOn DEF ConfigInv
<1>5. lock' = [file \in {"config", "env"} |-> lock'[file]] /\ lock'["config"] = p
  BY <1>1 DEF ConfigInv, ConfigTyped
<1>6. ConfigTyped'
  BY <1>1, <1>3, <1>4, <1>5 DEF ConfigInv, ConfigTyped, TypedCommand
<1>7. \A q \in Processes : ~At(q, "write")
  BY <1>1, ConfigAssumption DEF ConfigInv, SettingsInv, WritersHold
<1>8. WritersHold'
  BY <1>1, <1>2, <1>3, <1>4, <1>5, <1>7 DEF WritersHold, Holds, At
<1>9. SettingsInv'
  BY <1>1, <1>8 DEF ConfigInv, SettingsInv, NothingSet, SettingsKept
<1>10. SecretsInv'
  BY <1>1, <1>3, <1>4 DEF ConfigInv, SecretsInv, At
<1> QED BY <1>6, <1>9, <1>10 DEF ConfigInv

\* It writes them with its own, and is the only one that is about to write.
LEMMA WriteYamlInv ==
  ASSUME ConfigInv, NEW p \in Processes, WriteYaml(p)
  PROVE  ConfigInv'
<1> DEFINE do == process[p]
<1>1. /\ At(p, "write") /\ Goes(p, Resting)
      /\ lock' = [lock EXCEPT !["config"] = None]
      /\ IF do.value = None /\ do.key \notin DOMAIN do.root THEN UNCHANGED yaml
         ELSE yaml' = Updated(do.root, do.key, do.value)
      /\ intent' = Updated(intent, do.key, do.value)
      /\ UNCHANGED <<legacy, env, forgotten>>
  BY DEF WriteYaml, Unlock
<1>2. /\ do.root \in Settings /\ do.key \in Keys /\ do.value \in Values \cup {None} /\ Holds(do.root)
      /\ lock["config"] = p
  BY <1>1 DEF At, ConfigInv, ConfigTyped, TypedCommand, SettingsInv, WritersHold
<1>3. /\ process' = [q \in Processes |-> process'[q]]
      /\ process'[p] = Resting /\ \A q \in Processes \ {p} : process'[q] = process[q]
  BY <1>1, GoesOn DEF ConfigInv
<1>4. \A q \in Processes : ~At(q, "write")'
  BY <1>1, <1>2, <1>3 DEF ConfigInv, SettingsInv, WritersHold, At, Resting
<1>5. Updated(do.root, do.key, do.value) \in Settings
  BY <1>2, UpdatedSettings
<1>6. ConfigTyped'
  <2>1. lock' = [file \in {"config", "env"} |-> lock'[file]]
    BY <1>1 DEF ConfigInv, ConfigTyped
  <2>2. TypedCommand(process'[p])
    BY <1>3 DEF TypedCommand, Resting
  <2>3. \A q \in Processes \ {p} : TypedCommand(process'[q])
    BY <1>3 DEF ConfigInv, ConfigTyped
  <2>4. yaml' \in Settings \cup {None, Broken}
    BY <1>1, <1>5 DEF ConfigInv, ConfigTyped
  <2> QED BY <1>3, <2>1, <2>2, <2>3, <2>4 DEF ConfigTyped, TypedCommand
<1>7. CASE do.value # None
  <2>1. yaml' = Updated(do.root, do.key, do.value) /\ yaml' \notin {None, Broken}
    BY <1>1, <1>5, <1>7, ConfigAssumption
  <2>2. \A k \in DOMAIN intent' : k \in DOMAIN yaml' /\ yaml'[k] = intent'[k]
    BY <1>1, <1>2, <1>7, <2>1 DEF Updated, Holds
  <2> QED BY <1>3, <1>4, <1>6, <2>1, <2>2, <1>1
          DEF ConfigInv, SettingsInv, WritersHold, NothingSet, SettingsKept, SecretsInv, At, Resting
<1>8. CASE do.value = None
  <2>1. DOMAIN intent' = DOMAIN intent \ {do.key} /\ \A k \in DOMAIN intent' : intent'[k] = intent[k]
    BY <1>1, <1>8 DEF Updated
  <2>2. NothingSet' /\ SettingsKept'
    <3>1. CASE UNCHANGED yaml
      BY <2>1, <3>1 DEF ConfigInv, SettingsInv, NothingSet, SettingsKept
    <3>2. CASE yaml' = Updated(do.root, do.key, do.value)
      <4>1. yaml' \notin {None, Broken}
        BY <1>5, <3>2, ConfigAssumption
      <4>2. DOMAIN yaml' = DOMAIN do.root \ {do.key} /\ \A k \in DOMAIN yaml' : yaml'[k] = do.root[k]
        BY <1>8, <3>2 DEF Updated
      <4> QED BY <1>2, <2>1, <4>1, <4>2 DEF NothingSet, SettingsKept, Holds
    <3> QED BY <1>1, <3>1, <3>2
  <2>3. SecretsInv'
    BY <1>1, <1>3 DEF ConfigInv, SecretsInv, At, Resting
  <2> QED BY <1>4, <1>6, <2>2, <2>3 DEF ConfigInv, SettingsInv, WritersHold
<1> QED BY <1>7, <1>8

\* Every step keeps the invariant.
LEMMA NextConfig ==
  ASSUME ConfigInv, [ConfigNext]_configVars
  PROVE  ConfigInv'
<1>1. CASE UNCHANGED configVars
  BY <1>1 DEF configVars, ConfigInv, ConfigTyped, SettingsInv, WritersHold, NothingSet, SettingsKept, SecretsInv,
              At, Holds
<1>2. CASE EditConfig
  BY <1>2, AnewInv
<1>3. ASSUME NEW p \in Processes,
             \/ Load(p) \/ Detect(p) \/ MoveAside(p) \/ MoveIn(p) \/ ReadDotenv(p) \/ ReadSecrets(p) \/ StartInit(p)
             \/ \E k \in Keys, v \in Values \cup {None} : StartMutate(p, k, v)
             \/ \E s \in Secrets, stored \in BOOLEAN : StartSecret(p, s, stored)
      PROVE  ConfigInv'
  BY <1>3, LoadInv
<1>4. ASSUME NEW p \in Processes, WriteYamlConfig(p) \/ InitProject(p) PROVE ConfigInv'
  BY <1>4, AnewInv
<1>5. ASSUME NEW p \in Processes, Preserve(p) \/ RenameToBak(p) PROVE ConfigInv'
  BY <1>5, SecretsMigrate
<1>6. ASSUME NEW p \in Processes, ReadEnv(p) \/ WriteEnv(p) \/ Fail(p) PROVE ConfigInv'
  BY <1>6, SecretsInvKept
<1>7. ASSUME NEW p \in Processes, ReadYaml(p) \/ WriteYaml(p) PROVE ConfigInv'
  BY <1>7, ReadYamlInv, WriteYamlInv
<1> QED BY <1>1, <1>2, <1>3, <1>4, <1>5, <1>6, <1>7 DEF ConfigNext

\* No process has begun, and no command has set anything.
LEMMA InitConfig == ConfigInit => ConfigInv
<1> SUFFICES ASSUME ConfigInit PROVE ConfigInv
  OBVIOUS
<1>1. /\ process = [p \in Processes |-> Resting] /\ Resting.step = "idle" /\ legacy # "bak" /\ yaml = None
      /\ lock = [file \in {"config", "env"} |-> None] /\ intent = <<>>
  BY ConfigAssumption DEF ConfigInit, Resting
<1>2. DOMAIN intent = {}
  BY <1>1
<1>3. \A p \in Processes : process[p].step = "idle"
  BY <1>1
<1> QED BY <1>1, <1>2, <1>3 DEF ConfigInv, ConfigTyped, TypedCommand, SettingsInv, WritersHold, NothingSet,
                                SettingsKept, SecretsInv, At

\* Whatever commands, migrations, loads and people do to the files of a configuration next
\* to each other, and wherever they fail: mutate_yaml_config_value loses no setting of
\* another, and migrate_dotenv_to_yaml puts no secret away that is not in .env.
THEOREM NothingGetsLost == ConfigSpec => []NothingIsLost
<1>1. ConfigInit => ConfigInv
  BY InitConfig
<1>2. ConfigInv /\ [ConfigNext]_configVars => ConfigInv'
  BY NextConfig
<1>3. ConfigInv => NothingIsLost
  BY DEF ConfigInv, SettingsInv, SecretsInv, NothingIsLost, SecretsPreserved
<1> QED BY <1>1, <1>2, <1>3, PTL DEF ConfigSpec
=============================================================================
