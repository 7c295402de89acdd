----------------------------- MODULE MCServices -----------------------------
(***************************************************************************)
(* The smaller services, one of them at a time: the others stay as they    *)
(* are before their first step.                                            *)
(***************************************************************************)
EXTENDS EmbedBatch, Shards, Config, Clusters, LinkGraph

CONSTANTS s, u
VARIABLE service

\* Three files; texts c and d cost more than the others, d more than an input may.
MCChunks == [A |-> <<<<1, "a">>, <<2, "b">>>>, B |-> <<<<3, "c">>, <<4, "d">>>>, C |-> <<<<5, "a">>>>]
MCTokens == [a |-> 1, b |-> 1, c |-> 2, d |-> 4]

\* Two folders and a document of the first; names 0 and 1 differ in case only.
MCFiles == {<<<<1>>, <<5>>>>}
MCFolderPaths == {<<<<1>>>>, <<<<2>>>>}

\* Two settings, one of them in the older form, and two secrets, likewise.
MCLegacySettings == "k" :> 2

\* Two documents alike and one that is not; topics with and without a threshold.
Topic(centroid, threshold) == [centroid |-> centroid, threshold |-> threshold]
MCDocs == 1 .. 3
MCPoints == {<<0, 0>>, <<3, 4>>}
MCExisting == <<<<5, 0>>, <<5, 0>>, <<0, 5>>>>
MCTopics == {<<>>, <<Topic(<<5, 0>>, None), Topic(<<3, 4>>, 20)>>, <<Topic(<<3, 4>>, 5)>>}

\* Three documents in nested folders, with body links and relations to one another.
X == <<"d", "x">>
A == <<"d", "a">>
D == <<"d", "d", "a">>
Rel(f, t) == [field |-> f, target |-> t]
MCContents == {
  [body |-> <<<<"a">>, <<"..", "d", "a">>, <<"..", "..", "..", "d", "x">>>>, rels |-> <<>>],
  [body |-> <<>>, rels |-> <<Rel("f", <<"d", "a">>), Rel("g", <<"a">>)>>],
  [body |-> <<<<"d", "a">>>>, rels |-> <<Rel("f", <<"x">>), Rel("f", <<"d", "x">>)>>]}
MCOverlays == {
  [folder |-> [f |-> None, g |-> None], hidden |-> {}],
  [folder |-> [f |-> <<"d">>, g |-> <<"d", "d">>], hidden |-> {"f"}]}
MCPaths == {X, A, D}

MCInit ==
  /\ service \in {"embed", "shards", "config", "clusters", "links"}
  /\ Init /\ ShardsInit /\ ConfigInit /\ ClustersInit /\ LinksInit
  /\ service # "links" => overlay = [folder |-> [f |-> None, g |-> None], hidden |-> {}]
  /\ service # "clusters" => enabled /\ algorithm = "leiden" /\ clusters = None
  /\ service # "config" => legacy = None /\ env = {}
  /\ service # "embed" => server = [provider |-> "openai", capacity |-> 1]
  /\ definitions \in {<<>>, s :> [name |-> 0, path |-> <<<<1>>>>, topics |-> <<<<"t", 1>>>>]}
  /\ service # "shards" => definitions = <<>>

Embeds == service = "embed" /\ Next /\ UNCHANGED <<service, shardVars, configVars, clusterVars, linkVars>>
ServesShards == service = "shards" /\ ShardsNext /\ UNCHANGED <<service, vars, configVars, clusterVars, linkVars>>
Configures == service = "config" /\ ConfigNext /\ UNCHANGED <<service, vars, shardVars, clusterVars, linkVars>>
Groups == service = "clusters" /\ ClustersNext /\ UNCHANGED <<service, vars, shardVars, configVars, linkVars>>
FollowsLinks == service = "links" /\ LinksNext /\ UNCHANGED <<service, vars, shardVars, configVars, clusterVars>>
MCNext == Embeds \/ ServesShards \/ Configures \/ Groups \/ FollowsLinks

MCSpec ==
  /\ MCInit /\ [][MCNext]_<<service, vars, shardVars, configVars, clusterVars, linkVars>>
  /\ WF_vars(service = "embed" /\ Step /\ UNCHANGED <<service, shardVars, configVars, clusterVars, linkVars>>)
=============================================================================
